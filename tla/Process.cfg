SPECIFICATION ProcessSpec
CONSTANTS
  Servers <- MCServers
INVARIANTS
  CleanExit
  OnlyValidClaims
  EndsTidy
PROPERTIES
  EndsWhenTold
  Answered
CHECK_DEADLOCK FALSE
