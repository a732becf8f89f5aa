SPECIFICATION Spec
CONSTANTS
  A = A
  B = B
  Thread = {t1}
  Layer = {A, B}
  NoLayer = NoLayer
  Requests <- LayersOfTwoSizes
  HeapSize = 7
  Timeout = 1
  MaxTime = 1
  Faults = {"system"}
  OtherUsers = FALSE
  Crashes = TRUE
INVARIANTS
  TypeOK
  ThreeFromOneHeap
  PromisesAreKept
