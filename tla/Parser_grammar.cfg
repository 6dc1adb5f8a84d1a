CONSTANTS
  Sources <- SomeSources
  Reserved <- ReservedWords
  InitialCapacity = 2
SPECIFICATION FairSpec
INVARIANTS TypeOK TokensCover StaysInSource AcceptsGrammar TreeKeepsTokens
PROPERTIES ParseEnds
\* valery_interpret() is over in the end
CHECK_DEADLOCK FALSE
