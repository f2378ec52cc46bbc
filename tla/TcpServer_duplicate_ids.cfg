\* Two BbgClient processes, both counting from 1.
CONSTANTS
  c1 = c1
  c2 = c2
  Clients = {c1, c2}
  MaxRequests = 1
  IdOf <- BbgIds
  FdLimit = 2
  QueueCapacity = 1
  Fragments = 1
  MayAbort = FALSE
  MaySilence = FALSE
SPECIFICATION Spec
INVARIANTS
  RoutedToOriginator
