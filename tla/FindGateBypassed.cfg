SPECIFICATION ReleaseSpec
CONSTANTS
  VersionIds = {r1, r2}
  Customers = {k1}
  Numbers = {n1, n2, one}
  V1 = one
  Flights = {f1}
  MaxEvents = 3
INVARIANT NeverBypassed
CHECK_DEADLOCK FALSE
