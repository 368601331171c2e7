CONSTANTS
  None = None
  Frames <- MCFrames
  Scenes <- MCScenes
  Prices <- MCPrices
SPECIFICATION Spec
INVARIANT ThinHistoryIsEmerging
