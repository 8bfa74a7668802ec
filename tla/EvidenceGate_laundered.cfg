SPECIFICATION Spec
CONSTANTS
  s1 = s1
  s2 = s2
  c1 = c1
  c2 = c2
  c3 = c3
  NoSid = NoSid
  Sessions = {s1}
  Calls = {c1, c2, c3}
  Owner <- Alone
  ToolUseId <- DistinctIds
  Offers <- ReadEdit
  Gated = TRUE
  Reverts = FALSE
  Initial = {0, 1}
  Oversize = {}
  StaleAfter = 1
  MaxVersion = 3
  MaxClock = 0
  MaxUpsets = 1
SYMMETRY SameOwner
INVARIANTS
  AllowedEditWasRead
\* Every call is over and every budget spent: the system stops.
CHECK_DEADLOCK FALSE
