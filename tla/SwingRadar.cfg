CONSTANTS
  None = None
  Frames <- MCFrames
  Scenes <- MCScenes
  Prices <- MCPrices
SPECIFICATION Spec
INVARIANTS
  TypeOK
  LevelsAreOrdered
  TargetIsHonest
  HeldForGoodReason
