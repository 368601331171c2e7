SPECIFICATION Spec
CONSTANTS
  None = None
  RvolLength = 4
  History <- MCHistory
  PrevClose = 1000
  Shapes <- MCShapes
  Moments <- MCMoments
  Lags = {0, 3}
  Levels = {1100}
  Variants <- MCVariants
  Configs <- MCConfigs
  Up = TRUE
INVARIANTS
  TypeOK
  FreezeBrokenOnlyByAnOldClock
  GapUsesTheDaysRange
PROPERTIES
  NoDrift
  ReplaysKeepTheirVerdicts
CHECK_DEADLOCK FALSE
