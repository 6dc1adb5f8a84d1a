CONSTANTS
  Letters = {"a", "b"}
  FromFile <- Lines
  Uninit <- ZeroOrJunk
  MaxCommandLen = 3
  MaxCapacity = 6
  MaxWritten = 12
SPECIFICATION Spec
PROPERTIES RecallShowsLine
\* after MaxWritten bytes the user stops
CHECK_DEADLOCK FALSE
