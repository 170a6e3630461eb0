SPECIFICATION CoreSpec
CONSTANTS
  MaxTasks = 1
  MaxRelay = 1
  c1 = c1
  c2 = c2
  Commits <- MCCommits
  Bootable <- MCBootable
  NoSha = NoSha
  CanRestart = FALSE
  CanCrash = FALSE
  TokenStop = TRUE
  v1 = v1
  v2 = v2
  Versions <- MCTwo
  AtBuild <- MCBuild
  RelayLimit = 1
  MaxPosts = 2
  MayRaise = TRUE
  MayRestart = TRUE
INVARIANTS SingleFlight OneWriter LostOnlyBySkip
PROPERTIES DispatchSettles CheckMarkerFires FirstSignatureOverGreenSmoke
