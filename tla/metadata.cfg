CONSTANTS
  c1 = c1
  c2 = c2
  c3 = c3
  Client = {c1, c2, c3}
  Reader = {c3}
  Process <- TwoAndOne
  StableC = {"stablec"}
  Room = {0, 4, 512, 2048}
  Width = 1
  AllocWidth = 3
  Capacity = 2
SYMMETRY Alike
SPECIFICATION Spec
INVARIANTS
  OneWordItemsAreRegisters
  UnracedReadsRoundTrip
  CropsStayInside
  FreedUnderASetOnly
