SPECIFICATION FairProcessSpec
CONSTANTS
  Entries = {"cmd", "docker", "start-tee"}
  Requests = {r1, r2}
INVARIANTS
  StopIsNoFailure
PROPERTIES
  SignalStops
  FailureStops
CHECK_DEADLOCK FALSE
