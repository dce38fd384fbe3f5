SPECIFICATION FairRegistrationSpec
CONSTANTS
  Resume = FALSE
  MaxTees = 2
  MaxMishaps = 3
INVARIANTS
  RegistrationTypeOK
  FileIsHonest
  ChallengeIsOwn
PROPERTIES
  ReRunsWork
CHECK_DEADLOCK FALSE
