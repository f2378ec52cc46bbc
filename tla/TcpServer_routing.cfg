\* Two clients with two requests each, unique ids, patient clients.
CONSTANTS
  c1 = c1
  c2 = c2
  Clients = {c1, c2}
  MaxRequests = 2
  IdOf <- UniqueIds
  FdLimit = 2
  QueueCapacity = 1
  Fragments = 2
  MayAbort = FALSE
  MaySilence = FALSE
SPECIFICATION Spec
INVARIANTS
  TypeOK
  RoutedToOriginator
  ClientsMatchSockets
PROPERTIES
  UsesService
