CONSTANTS
  Files <- SomeFiles
  Passwd <- SomeHomes
  NoDir = NoDir
  NoEntry = NoEntry
  Uids = {"0"}
  Root = "0"
  MaxEnvLen = 12
  StartingPaths = 2
  Dirs <- SomeDirs
  Removable <- SomeKeys
  Junk <- SomeJunk
  MaxPs1 = 8
  EnvSize = 6
SPECIFICATION Spec
INVARIANTS TypeOK ConfigArrives PathsUnwrapped PwdTrail
PROPERTIES ShowsDirectory
\* a shell without a configuration exits, one that faults is lost
CHECK_DEADLOCK FALSE
