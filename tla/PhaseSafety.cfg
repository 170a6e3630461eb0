SPECIFICATION PhaseReleaseSpec
CONSTANTS
  PlanSize = 1
  FixCap = 1
  AUDITOR_LOOP_MAX = 2
  c1 = c1
  c2 = c2
  Commits <- MCCommits
  Bootable <- MCBootable
  NoSha = NoSha
  CanRestart = TRUE
  CanCrash = TRUE
  TokenStop = TRUE
  VersionIds = {1, 2}
  Customers = {k1}
  Numbers = {n1, one}
  V1 = one
  Flights = {1, 2}
  MaxEvents = 4
INVARIANTS DoneIsVerified NeverTrips CardFits ProdGate
PROPERTIES PhaseGate PlanIsBuilt PhaseDispatchSettles
