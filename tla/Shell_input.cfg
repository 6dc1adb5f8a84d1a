CONSTANTS
  Restarts <- BSDBuild
  Modes = {"tty", "pipe", "source"}
  Programs = {"ls", "missing", "nothing"}
  Installed = {"ls"}
  Nothing = "nothing"
  Typed <- SomeInput
  MaxSlots = 3
  MaxAhead = 1
  MaxProcs = 3
  MaxLines = 3
  MaxSigints = 0
SPECIFICATION FairSpec
INVARIANTS OneActive TypedOrderKept
PROPERTIES SourceEnds EofFillsHistory
\* the shells are gone in the end
CHECK_DEADLOCK FALSE
