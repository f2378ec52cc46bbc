\* Two vehicles, four requests, two price table changes, failing statements.
CONSTANTS
  Vehicles = {v1, v2}
  CityNames = {"Haifa", "Eilat"}
  Areas <- TwoAreas
  Prices = {4, 5}
  Times = {0, 1, 60, 61, 62}
  SeedCities <- Seed
  MaxRequests = 4
  MaxUpdates = 2
  Busy = TRUE
SPECIFICATION Spec
SYMMETRY Symmetry
CHECK_DEADLOCK FALSE
INVARIANTS
  TypeOK
  ChargedPerStartedMinute
PROPERTIES
  ImplementsParking
  SessionsOnlyClose
  PricedByLocation
