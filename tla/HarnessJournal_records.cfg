CONSTANTS
  r1 = r1
  r2 = r2
  m1 = m1
  None = None
  Process = {p1, p2}
  Attempt = {a1, a2}
  Reservation = {r1, r2}
  Manifest = {m1}
  Outcome = {done}
  Granted <- OneManifest
  Expires <- MCExpires
  Budget <- Ample
  MaxCheckpoints = 1
  MaxAttempts = 2
  MaxTime = 1
  MaxCalls = 3
  MaxFaults = 2
SPECIFICATION Spec
SYMMETRY Symmetry
CHECK_DEADLOCK FALSE
INVARIANTS TypeOK OneDispatch NeverUpgraded HonestStatus NoFalseAlarm
PROPERTIES Promise
