CONSTANTS
  Sources <- SomeSources
  Reserved <- ReservedWords
  InitialCapacity = 4
SPECIFICATION Spec
INVARIANTS GrammarAccepted
\* valery_interpret() is over in the end
CHECK_DEADLOCK FALSE
