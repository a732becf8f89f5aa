SPECIFICATION Spec
CONSTANTS
  d1 = d1
  d2 = d2
  Decoders = {}
  Callers = {d1, d2}
  SlotNum = 1
  Taken = {}
  Paras <- NoParas
  MaxFaults = 1
  AppRequests <- MCAppRequests
  Counts = {2}
  Heaps <- MCHeaps
INVARIANTS
  NothingLeaks
  ErrorsAreExplained
  FlagsTellMemory
PROPERTY
  RequestsAreAnswered
