\* A price update while Database starts or stops.
CONSTANTS
  Databases = {d1}
  TcpServers = {t1}
  MaxNotify = 1
  MayStop = TRUE
  MayKill = FALSE
  MayFail = FALSE
  None = None
SPECIFICATION Spec
CHECK_DEADLOCK FALSE
INVARIANTS
  NotifyNeverTerminates
