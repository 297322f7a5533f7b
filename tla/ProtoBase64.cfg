SPECIFICATION TripSpec
CONSTANTS
  Events <- MCEvents
  MaxTrips = 3
INVARIANTS
  PayloadSurvives
CHECK_DEADLOCK FALSE
