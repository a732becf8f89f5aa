SPECIFICATION Spec
CONSTANTS
  A = A
  B = B
  Thread = {t1, t2}
  Layer = {A, B}
  NoLayer = NoLayer
  Requests <- TwoLayers
  HeapSize = 4
  Timeout = 2
  MaxTime = 2
  Faults = {}
  OtherUsers = FALSE
  Crashes = FALSE
PROPERTIES
  RemovedOnlyWhenSilent
