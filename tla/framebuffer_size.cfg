SPECIFICATION Spec
CONSTANTS
  Dirs <- MCDirs
  Requests <- FramebufferRequests
  DecoderAligns <- MCDecoderAligns
INVARIANT FramebufferHoldsPlanes
CHECK_DEADLOCK FALSE
