CONSTANTS
  None = none
  Id = {i1, i2, i3}
  MaxFrames = 7
  MaxSignals = 1
SPECIFICATION FairSpec
INVARIANTS TypeOK NoLeakedCall AllAnswered
PROPERTIES Promise Exits
CHECK_DEADLOCK FALSE
