CONSTANTS
  Coordinator = {c1, c2}
  N = 2
  Actions = {"resume", "abort", "verify"}
  MaxFaults = 3
  TreeOf <- MCTreeOf
SPECIFICATION FairSpec
INVARIANTS TypeOK OneWriter Recoverable NeverBlocked
PROPERTIES HonestReport Promise Completes
