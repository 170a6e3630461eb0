SPECIFICATION Spec
CONSTANTS
  PlanSize = 1
  FixCap = 1
  AUDITOR_LOOP_MAX = 1
  c1 = c1
  c2 = c2
  Commits <- MCCommits
  Bootable <- MCBootable
  NoSha = NoSha
  CanRestart = FALSE
  CanCrash = FALSE
  TokenStop = FALSE
PROPERTIES HotovoOverGreenFloor
