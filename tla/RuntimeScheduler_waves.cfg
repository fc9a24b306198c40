CONSTANTS
  file = file
  dir = dir
  other = other
  N = 3
  Path <- MCPath
  Overlap <- MCOverlap
  Plans <- MCPlans
  MaxFaults = 2
SPECIFICATION FairSpec
INVARIANTS TypeOK SerialAgreement
PROPERTIES Promise Ends
CHECK_DEADLOCK FALSE
