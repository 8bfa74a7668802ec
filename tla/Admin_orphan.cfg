SPECIFICATION Spec
CONSTANTS
  a1 = a1
  a2 = a2
  h1 = h1
  Nobody = Nobody
  Ghost = Ghost
  Admins = {a1}
  Hooks = {h1}
  Ops = {"migrate"}
  Found = {"healthy"}
  Torn = FALSE
  Kills = FALSE
  Updates = TRUE
  Undeletable = FALSE
INVARIANTS
  EndedSessionsAreCollected
\* Every process has run once: the system stops.
CHECK_DEADLOCK FALSE
