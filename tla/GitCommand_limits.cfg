CONSTANTS
  c1 = c1
  c2 = c2
  Command = {c1, c2}
  Tolerant = {c2}
  PipeSize = 1
  Chunk = 2
  MaxCommand = 2
  MaxOutput = 3
  MaxCommands = 2
  Uses <- EveryUse
SPECIFICATION FairSpec
CHECK_DEADLOCK FALSE
INVARIANTS TypeOK BudgetsKept
PROPERTIES Promise Returns
