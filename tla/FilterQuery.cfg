SPECIFICATION FilterSpec
CONSTANTS
  Columns <- MCColumns
  Table <- MCTable
  StringFilters <- MCStringFilters
  ArrayFilters <- MCArrayFilters
  FilterRequests <- MCRequests
  MaxFilterDepth = 5
  Nesting = 8
INVARIANTS
  NeverWider
  AnswersExact
CHECK_DEADLOCK FALSE
