CONSTANTS
  HIST_UP = HIST_UP
  HIST_DOWN = HIST_DOWN
  Typed <- SomeLines
  MaxLine = 6
  BufSize = 5
  SizeMax = 1000
  MaxOffset = 40
  Keys = {HIST_UP, HIST_DOWN}
  InitFiles <- CleanFiles
  Junk <- Zeros
  MaxCommands = 2
  MaxSessions = 1
SPECIFICATION Spec
INVARIANTS TraversesOneLine
\* after MaxSessions sessions no shell is started any more
CHECK_DEADLOCK FALSE
