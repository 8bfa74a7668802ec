SPECIFICATION Spec
CONSTANTS
  p = p
  q = q
  p1 = p1
  q1 = q1
  q2 = q2
  none = none
  Hosts = {p, q}
  NoHost = none
  Hooks = {p1, q1, q2}
  HostOf <- Starter
  Commands = 2
  Parallel = FALSE
  Timeout = 1
  Leasing = {TRUE, FALSE}
  Deaths = TRUE
  Kills = TRUE
  Left = TRUE
  MaxTime = 4
SYMMETRY Siblings
CONSTRAINT Bounded
INVARIANTS
  TypeOK
  LockKeptInTime
PROPERTIES
  VerifiesAlone
CHECK_DEADLOCK FALSE
