SPECIFICATION Spec
CONSTANTS
  MaxTasks = 2
  MaxRelay = 1
  c1 = c1
  c2 = c2
  Commits <- MCCommits
  Bootable <- MCBootable
  NoSha = NoSha
  CanRestart = TRUE
  CanCrash = TRUE
  TokenStop = TRUE
INVARIANTS TurnOwnsRow DoneIsSigned CompleteMeansAllDone OneTaskAtATime OfferedIsAccepted
PROPERTIES DoneTaskStaysDone DoneLeftOnlyOnDrift PausedResumesOnPurpose DeliversInOrder
