CONSTANTS
  Callers = {"tick", "request", "resume"}
  MaxFlights = 2
  MaxTimers = 2
  MaxKeys = 3
SPECIFICATION Spec
INVARIANTS TypeOK SingleFlight KeyRecoverable
PROPERTIES GateIsFinal
