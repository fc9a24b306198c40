CONSTANTS
  Caller = {c1, c2}
  Grant = {g1, g2}
  Plan = {serial, parallel}
  Parallel = {parallel}
  Granted = {"execute", "resume", "abort"}
  N = 2
  MaxGrants = 3
  MaxTime = 1
  Ttl = {1}
  MaxFaults = 2
SPECIFICATION Spec
SYMMETRY Symmetry
INVARIANTS TypeOK RunExclusive OneDispatch
PROPERTIES HonestAnswers Promise
