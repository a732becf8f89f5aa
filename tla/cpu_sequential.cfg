SPECIFICATION Spec
CONSTANTS
  Session = {s1, s2, s3}
  Addr = {a1, a2}
  Null = Null
  Modes <- SequentialModes
  Buffers <- AllBuffers
  Faults = {"end"}
  Strays = {"unlock", "flush", "free"}
  FreshLockCounts = {0, 2}
  MaxStuck = 2
  Interleave = FALSE
SYMMETRY Symmetry
PROPERTIES
  AcceptedOnlyIfCounted
