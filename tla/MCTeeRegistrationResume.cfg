SPECIFICATION FairRegistrationSpec
CONSTANTS
  Resume = TRUE
  MaxTees = 1
  MaxMishaps = 1
PROPERTIES
  ResumeWorks
CHECK_DEADLOCK FALSE
