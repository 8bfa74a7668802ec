SPECIFICATION Spec
CONSTANTS
  s1 = s1
  s2 = s2
  c1 = c1
  c2 = c2
  c3 = c3
  NoSid = NoSid
  Sessions = {s1, s2}
  Calls = {c1, c2}
  Owner <- Shared
  ToolUseId <- DistinctIds
  Offers <- Mixed
  Gated = TRUE
  Reverts = TRUE
  Initial = {0, 1}
  Oversize = {2}
  StaleAfter = 0
  MaxVersion = 2
  MaxClock = 1
  MaxUpsets = 2
INVARIANTS
  TypeOK
  SuccessPassedGate
  AllowedEditHasBasis
PROPERTIES
  LivePreFileKept
\* Every call is over and every budget spent: the system stops.
CHECK_DEADLOCK FALSE
