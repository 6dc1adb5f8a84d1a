CONSTANTS
  Restarts <- BothBuilds
  Modes = {"tty"}
  Programs = {"ls", "missing", "nothing"}
  Installed = {"ls"}
  Nothing = "nothing"
  Typed <- SomeLines
  MaxSlots = 4
  MaxAhead = 0
  MaxProcs = 3
  MaxLines = 2
  MaxSigints = 2
SPECIFICATION CallSpec
INVARIANTS TypeOK OneActive TermFollowsPrompt ArmedUnlessFlagged TypedOrderKept
PROPERTIES AndIfStops Reaped
\* the shells are gone in the end
CHECK_DEADLOCK FALSE
