SPECIFICATION Spec
CONSTANTS
  d1 = d1
  d2 = d2
  Decoders = {d1, d2}
  Callers = {d1}
  SlotNum = 3
  Taken = {0}
  Paras <- MCParas
  MaxFaults = 1
  AppRequests = {}
  Counts = {2}
  Heaps <- MCHeaps
INVARIANTS
  SlotsAreExclusive
  OwnParameters
  MadeAsTheDecoderAsked
  DividesOnlyByStaleZero
  ErrorsAreExplained
