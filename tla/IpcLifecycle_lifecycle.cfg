\* Two runs of each program, failing calls, kills, one notification.
CONSTANTS
  Databases = {d1, d2}
  TcpServers = {t1, t2}
  MaxNotify = 1
  MayStop = TRUE
  MayKill = TRUE
  MayFail = TRUE
  None = None
SPECIFICATION FairSpec
CHECK_DEADLOCK FALSE
INVARIANTS
  TypeOK
  SingleOwner
  QueuesInitialisedBeforeUse
  RunningOnLiveSegment
PROPERTIES
  StartupCompletes
  ShutdownFinishes
