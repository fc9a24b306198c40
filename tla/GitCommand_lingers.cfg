CONSTANTS
  c1 = c1
  c2 = c2
  Command = {c1}
  Tolerant = {c1}
  PipeSize = 1
  Chunk = 2
  MaxCommand = 2
  MaxOutput = 3
  MaxCommands = 1
  Uses <- OnlyAlone
SPECIFICATION LingeringSpec
CHECK_DEADLOCK FALSE
PROPERTIES Returns
