\* Every file of up to three lines; two coordinates, a pipe of one request.
CONSTANTS
  CONFIG_MAX_ENTRIES = 2
  CONFIG_MAX_KEY_LENGTH = 12
  CONFIG_MAX_VALUE_LENGTH = 8
  strtol <- Strtol
  INT_MAX = 131071
  GPS_COORDINATES_COUNT = 2
  ConfigFiles <- TwoFiles
  SampleFiles <- Files
  PipeCapacity = 1
  IdSpace = 24
SPECIFICATION FairSpec
INVARIANTS
  TypeOK
  WholeCoordinate
  SimulatorListens
  PipeInOrder
  EventsAlternate
  ConfigurationAsWritten
PROPERTIES
  EndTogether
  BlocksOnlyInRecv
