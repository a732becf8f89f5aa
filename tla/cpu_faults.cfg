SPECIFICATION FairSpec
CONSTANTS
  Session = {s1, s2}
  Addr = {a1, a2}
  Null = Null
  Modes <- FaultModes
  Buffers <- AllBuffers
  Faults = {"start", "end"}
  Strays = {"unlock"}
  FreshLockCounts = {0}
  MaxStuck = 1
  Interleave = TRUE
PROPERTIES
  CallsReturn
