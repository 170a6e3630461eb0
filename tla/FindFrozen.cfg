SPECIFICATION RunnerSpec
CONSTANTS
  v1 = v1
  v2 = v2
  Versions <- MCTwo
  AtBuild <- MCNone
  RelayLimit = 1
  MaxPosts = 2
  MayRaise = FALSE
  MayRestart = FALSE
INVARIANT NeverFrozen
CHECK_DEADLOCK FALSE
