\* Three requests, IPC queues of one element, failing calls, a stop anywhere.
CONSTANTS
  Requests = {r1, r2, r3}
  Capacity = 1
  MayFail = TRUE
SPECIFICATION FairSpec
INVARIANTS
  TypeOK
  RequestsInOrder
  NoLostWakeup
PROPERTIES
  StopCompletes
  RequestsHandled
  ImplementsService
