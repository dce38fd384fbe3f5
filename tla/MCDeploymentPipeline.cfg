SPECIFICATION FairPipelineSpec
CONSTANTS
  ExpectedExtensionId = 1
  MaxDeployments = 2
  MaxExtensions = 3
  MaxTees = 2
  MaxMishaps = 3
INVARIANTS
  EvidenceHolds
  SignersAreMachines
  WebIsConsistent
PROPERTIES
  FinalizationCompletes
CHECK_DEADLOCK FALSE
