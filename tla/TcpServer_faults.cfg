\* Clients may be killed or vanish at any moment; one descriptor only.
CONSTANTS
  c1 = c1
  c2 = c2
  Clients = {c1, c2}
  MaxRequests = 1
  IdOf <- UniqueIds
  FdLimit = 1
  QueueCapacity = 1
  Fragments = 2
  MayAbort = TRUE
  MaySilence = TRUE
SPECIFICATION FairSpec
CHECK_DEADLOCK FALSE
INVARIANTS
  PendingAccounted
  StrayResponses
  LeftBehindIsHungUp
PROPERTIES
  ShutdownCompletes
  Served
