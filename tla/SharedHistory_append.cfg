CONSTANTS
  HIST_UP = HIST_UP
  HIST_DOWN = HIST_DOWN
  Keys = {HIST_UP, HIST_DOWN}
  InitFiles <- TwoLines
  Typed <- SomeLines
  Junk <- SomeJunk
  MaxCommands = 1
  MaxLine = 5
  BufSize = 2
  SizeMax = 1000
  MaxOffset = 30
  MaxSessions = 1
SPECIFICATION Spec
INVARIANTS NothingLost DownFindsNewLine
PROPERTIES AppendOnly
\* after MaxSessions sessions no shell is started any more
CHECK_DEADLOCK FALSE
