SPECIFICATION Spec
CONSTANTS
  Dirs <- MCDirs
  Requests <- AllRequests
  DecoderAligns <- MCDecoderAligns
INVARIANTS
  SelectionIsBest
  EveryIpHasTheFeatures
  SelectedIsAllocatable
  PlanesFit
  RowsFit
  Yv12Layout
  LayersAligned
  AssertsHold
CHECK_DEADLOCK FALSE
