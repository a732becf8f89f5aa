SPECIFICATION Spec
CONSTANTS
  A = A
  B = B
  Thread = {t1}
  Layer = {A, B}
  NoLayer = NoLayer
  Requests <- Mixed
  HeapSize = 3
  Timeout = 2
  MaxTime = 2
  Faults = {"info", "gfx", "system"}
  OtherUsers = TRUE
  Crashes = FALSE
SYMMETRY Alike
INVARIANTS
  ThreeOneAnswer
PROPERTIES
  RemovedOnlyWhenSilent
