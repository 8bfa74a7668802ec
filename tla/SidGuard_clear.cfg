SPECIFICATION FairSpec
CONSTANTS
  h1 = h1
  h2 = h2
  Hooks = {h1, h2}
  Markers = {h1}
  Forced = FALSE
  Stuck = TRUE
  Kills = TRUE
  Undeletable = {"guard", "lease", "data"}
  MaxClears = 1
  MaxGc = 1
CONSTRAINT Bounded
INVARIANTS
  TypeOK
PROPERTIES
  GuardIsBarrier
  ClearLeavesNothing
  DrainEnds
