SPECIFICATION Spec
CONSTANTS
  p = p
  q = q
  r = r
  q1 = q1
  q2 = q2
  r1 = r1
  Hosts = {p, q}
  Old = p
  Hooks = {q1, q2}
  HostOf <- Starter
  Found = {"dead"}
  Deaths = FALSE
  Orphans = FALSE
  Kills = FALSE
  Stuck = FALSE
  Collects = FALSE
  MaxTime = 3
INVARIANTS
  NeverLockedOut
CHECK_DEADLOCK FALSE
