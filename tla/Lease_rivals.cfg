SPECIFICATION FairSpec
CONSTANTS
  p = p
  q = q
  r = r
  q1 = q1
  q2 = q2
  r1 = r1
  Hosts = {p, q, r}
  Old = p
  Hooks = {q1, q2, r1}
  HostOf <- Starter
  Found = {"nothing", "debris", "dead", "live", "corruptLease", "corruptBaseline"}
  Deaths = TRUE
  Orphans = FALSE
  Kills = TRUE
  Stuck = TRUE
  Collects = TRUE
  MaxTime = 1
INVARIANTS
  TypeOK
  OneHostWorks
  NoSelfLockout
  WorkerHasSession
PROPERTIES
  LiveLeaseOvertaken
  RefusalHasCause
  LiveSessionKept
  NothingOrphaned
  EveryHookAnswers
CONSTRAINT
  Bounded
\* A host may die, and nothing need start again.
CHECK_DEADLOCK FALSE
