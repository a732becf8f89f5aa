SPECIFICATION Spec
CONSTANTS
  Session = {s1, s2, s3}
  Addr = {a1, a2}
  Null = Null
  Modes <- ConcurrentModes
  Buffers <- PlainBuffers
  Faults = {"map", "end"}
  Strays = {}
  FreshLockCounts = {0}
  MaxStuck = 1
  Interleave = TRUE
SYMMETRY Symmetry
INVARIANTS
  TypeOK
  CountMatches
  OneMapping
  WrittenBack
  ReadersSeeDeviceData
PROPERTIES
  RefusedOnlyIfShared
  ImplementsApi
