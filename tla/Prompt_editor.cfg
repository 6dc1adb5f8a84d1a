CONSTANTS
  Letters = {"a", "b"}
  FromFile <- Lines
  Uninit <- ZeroOrJunk
  MaxCommandLen = 3
  MaxCapacity = 6
  MaxWritten = 11
SPECIFICATION Spec
INVARIANTS TypeOK LineIsTerminated StaysInBuffer
PROPERTIES ImplementsEditor
\* after MaxWritten bytes the user stops
CHECK_DEADLOCK FALSE
