SPECIFICATION Spec
CONSTANTS
  Thread = {t1, t2}
  Instance = {i1, i2}
  Address = {a1, a2}
  Foreign = TRUE
SYMMETRY Symmetry
INVARIANTS
  TypeOK
  NothingLeaks
  PoolMatchesHeld
  DumpIsComplete
PROPERTIES
  WarningsAreRight
