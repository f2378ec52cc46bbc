\* A client clock that goes backwards between start and end.
CONSTANTS
  Vehicles = {v1}
  CityNames = {"Haifa", "Eilat"}
  Areas <- TwoAreas
  Prices = {4, 5}
  Times = {1, 2}
  SeedCities <- Seed
  MaxRequests = 2
  MaxUpdates = 0
  Busy = FALSE
SPECIFICATION Spec
CHECK_DEADLOCK FALSE
PROPERTIES
  NotFoundMeansNotParked
