SPECIFICATION Spec
CONSTANTS
  a1 = a1
  a2 = a2
  h1 = h1
  Nobody = Nobody
  Ghost = Ghost
  Admins = {a1, a2}
  Hooks = {h1}
  Ops = {"init", "repair", "migrate", "clearMigrate", "clearInit"}
  Found = {"empty", "healthy", "invalidSchema", "noDirs", "noFsInfo", "badFsInfo", "moved"}
  Torn = TRUE
  Kills = TRUE
  Updates = TRUE
  Undeletable = TRUE
SYMMETRY Interchangeable
INVARIANTS
  TypeOK
  MigrationIsLocked
  WorksUnderSchema
  ProbesAlone
PROPERTIES
  SchemaMovesClean
  SchemaIsLast
\* Every process has run once: the system stops.
CHECK_DEADLOCK FALSE
