\* The two processes of an IPC queue, two elements, a ring of three slots that
\* wraps around.
CONSTANTS
  Procs = {p1, p2}
  Items = {a, b}
  Capacity = 3
  NoItem = NoItem
SPECIFICATION FairSpec
INVARIANTS
  TypeOK
  OnePermit
  RingConsistent
PROPERTIES
  HalfWrittenNeverUsed
  ImplementsFifo
  OperationsReturn
