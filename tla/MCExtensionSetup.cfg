SPECIFICATION FairSetupSpec
CONSTANTS
  Reuse = TRUE
  RejectsDuplicates = TRUE
  MaxSenders = 5
  MaxExtensions = 5
  MaxMishaps = 3
INVARIANTS
  SetupTypeOK
  EnvIsComplete
  BoundIsConfigured
PROPERTIES
  TestsPass
CHECK_DEADLOCK FALSE
