CONSTANTS
  HIST_UP = HIST_UP
  HIST_DOWN = HIST_DOWN
  Typed <- SomeLines
  MaxLine = 6
  BufSize = 5
  SizeMax = 1000
  MaxOffset = 40
  Keys = {HIST_UP}
  InitFiles <- NoHistory
  Junk <- Zeros
  MaxCommands = 2
  MaxSessions = 2
SPECIFICATION Spec
INVARIANTS GetLineFindsLine
\* after MaxSessions sessions no shell is started any more
CHECK_DEADLOCK FALSE
