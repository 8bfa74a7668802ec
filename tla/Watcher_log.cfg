SPECIFICATION FairSpec
CONSTANTS
  Pollers = {w1, w2}
  MaxVersion = 3
  MaxUpsets = 1
INVARIANTS
  TypeOK
  NoBypassSkipped
PROPERTIES
  BypassGetsLogged
