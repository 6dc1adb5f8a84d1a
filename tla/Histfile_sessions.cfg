CONSTANTS
  HIST_UP = HIST_UP
  HIST_DOWN = HIST_DOWN
  Typed <- LongLines
  MaxLine = 4
  BufSize = 2
  SizeMax = 1000
  MaxOffset = 40
  Keys = {HIST_UP, HIST_DOWN}
  InitFiles <- SomeFiles
  Junk <- Zeros
  MaxCommands = 2
  MaxSessions = 2
SPECIFICATION FairSpec
INVARIANTS TypeOK CountsAreCurrent ExitIsDurable CommandsEndLines ShownInSync NeverChopsEmpty DownFindsNewLine
PROPERTIES AppendOnly LoopsEnd
\* after MaxSessions sessions no shell is started any more
CHECK_DEADLOCK FALSE
