CONSTANTS
  r1 = r1
  r2 = r2
  m1 = m1
  None = None
  Process = {p1}
  Attempt = {a1, a2}
  Reservation = {r1, r2}
  Manifest = {m1}
  Outcome = {done}
  Granted <- OneManifest
  Expires <- MCExpires
  Budget <- Ample
  MaxCheckpoints = 1
  MaxAttempts = 1
  MaxTime = 1
  MaxCalls = 3
  MaxFaults = 1
SPECIFICATION Spec
CHECK_DEADLOCK FALSE
INVARIANTS Reconcilable
