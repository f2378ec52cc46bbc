\* A TcpServer that is started while Database shuts down.
CONSTANTS
  Databases = {d1}
  TcpServers = {t1}
  MaxNotify = 0
  MayStop = TRUE
  MayKill = FALSE
  MayFail = FALSE
  None = None
SPECIFICATION FairSpec
CHECK_DEADLOCK FALSE
PROPERTIES
  StartupIndependence
