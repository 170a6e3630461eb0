SPECIFICATION DiligentSpec
CONSTANTS
  MaxTasks = 1
  MaxRelay = 0
  c1 = c1
  c2 = c2
  Commits <- MCCommits
  Bootable <- MCBootable
  NoSha = NoSha
  CanRestart = FALSE
  CanCrash = FALSE
  TokenStop = FALSE
PROPERTIES RedKontrolaReopens
