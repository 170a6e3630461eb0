SPECIFICATION Spec
CONSTANTS
  SELF_CHECK_RETRIES = 2
  PARSE_RETRIES = 1
  MaxHead = 1
  Sessions = {t1, t2}
  Viewers = {w1}
  QueueSize = 1
  MaxChunks = 2
  Cells <- MCCells
  Jobs = {j1, j2}
  MaxMint = 2
  Runs = {a, b}
  MaxCommit = 2
  MaxAsserted = 1
  Attempts = 4
  Documents = {z1}
  ProjectsOwn = {z1}
  Texts = {o1, o2}
  Requests = {l1, l2}
  Feats = {e1, e2, e3}
  PASS_RETRIES = 1
  MAX_PLAN_FEATS = 2
  MaxRound = 2
  Ids = {i1, i2}
  Slugs = {s1, s2}
  Passwords = {x1, x2}
  Handlers = {q1}
  ProjectSlugs = {p1, p2}
  Hosted = {p1}
  Blocks = {b1}
  Creations = {c1, c2}
  Deletions = {d1}
  MaxGen = 2
  ta = ta
  tb = tb
  fa = fa
  ea = ea
  Tasks = {ta, tb}
  FeatRows = {fa}
  Epics = {ea}
  FeatOf <- MCFeatOf
  EpicOf <- MCEpicOf
  Updates = {u1, u2}
  Reported = {"in_progress", "done"}
  Versions = {g1, g2}
  Consults = {m1}
  Captures = {h1, h2}
  MaxNumber = 2
  y1 = y1
  y2 = y2
  Projects = {y1, y2}
  SeqOf <- MCSeqOf
  MaxChange = 1
  MaxSeq = 3
  ver1 = ver1
  ver2 = ver2
INVARIANTS CallsBounded WorkStaysClaimable OneWriter ViewerIsCurrent KeepsItsData SmokeIsItsOwn SecretIsOwn ProjectIsWhole ReleasableIsDone BacklogKept NoStray CopyIsOneMoment IndexIsDisk PlanWhole
PROPERTIES TaskIsBuilt RoundSettles ViewerTold BoardHeals
CHECK_DEADLOCK FALSE
