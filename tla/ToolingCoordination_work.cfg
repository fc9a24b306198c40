CONSTANTS
  plan = plan
  build = build
  measure = measure
  Caller = {c1, c2}
  Task <- MCTask
  Deps <- MCDeps
  Native <- MCNative
  MaxEvents = 6
  MaxFaults = 1
SPECIFICATION FairSpec
INVARIANTS TypeOK NoSelfRefusal StartsLast
PROPERTIES Promise Settles
