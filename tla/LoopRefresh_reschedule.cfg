CONSTANTS
  Callers = {"tick"}
  MaxFlights = 1
  MaxTimers = 3
  MaxKeys = 1
SPECIFICATION Spec
PROPERTIES RenewalReschedules
