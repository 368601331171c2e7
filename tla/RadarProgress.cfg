CONSTANTS
  w1 = w1
  t1 = t1
  t2 = t2
  None = None
  Workers = {w1}
  Tabs = {t1}
  Bots <- MCBots
  ManagedBots <- MCManagedBots
  Levels <- MCLevels
SPECIFICATION FairSpec
PROPERTIES
  WorkerPhaseEnds
