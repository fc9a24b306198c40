CONSTANTS
  None = none
  Id = {i1, i2}
  MaxFrames = 4
  MaxSignals = 0
SPECIFICATION Spec
PROPERTIES NoLateStart
CHECK_DEADLOCK FALSE
