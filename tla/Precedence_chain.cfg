SPECIFICATION Spec
CONSTANTS
  Kinds = {"pre-write", "pre-read", "post-write", "post-read", "ups", "stop"}
  Odd = 3
  Moving = TRUE
INVARIANTS
  TypeOK
  KillSwitchWritesNothing
  StopFailsClosed
  SecondLine
  DryRunDecidesAlike
  DryRunForetells
  DryRunWritesNothing
\* The last chain ends.
CHECK_DEADLOCK FALSE
