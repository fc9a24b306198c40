CONSTANTS
  w1 = w1
  w2 = w2
  w3 = w3
  p1 = p1
  p2 = p2
  p3 = p3
  None = None
  Worker = {w1, w2, w3}
  Process = {p1, p2}
  Home <- Together
  Number = {1, 2}
  Trouble = {"disk", "engine"}
  MaxCalls = 4
  MaxKills = 0
SPECIFICATION Spec
CHECK_DEADLOCK FALSE
INVARIANTS OneContainer
