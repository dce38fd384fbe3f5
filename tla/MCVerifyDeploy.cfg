SPECIFICATION VerifySpec
CONSTANTS
  Reuse = TRUE
  RejectsDuplicates = FALSE
  MaxSenders = 1
  MaxExtensions = 2
  MaxMishaps = 2
  Settings <- MCSettings
  OtherFiles <- MCFiles
INVARIANTS
  CleanReportBinds
  VerifyAfterPreBuild
CHECK_DEADLOCK FALSE
