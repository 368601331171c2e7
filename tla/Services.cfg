SPECIFICATION ServicesSpec
CONSTANTS
  None = None
  Callers = {c1, c2}
  PerDay = 2
  PerMinute = 1
  LastDay = 1
  LastSnap = 2
  Width = 2
  FrameTTL = 0
  MaxStores = 2
  StoreTime = 1
  RowTTL = 1
  TableTTL = 2
  LookupTime = 3
  MaxFailures = 2
  Lockout = 3
  MaxWait = 1
  LastMinute = 8
  MaxTries = 4
  Interval = 1
  MaxAge = 2
  LeaseTime = 3
  Prices <- OneToTwo
  Levels = {2}
  MaxStreams = 2
  Horizon = 2
  JournalBars <- TapeBars
  Propositions <- AtOnceOrLater
  MaxDay = 2
  MaxRows = 2
  TradeIds = {"t"}
  Owners = {"o"}
  Positions <- ManagedOrWaiting
  Readouts <- OneReadout
  Spread = 1
  Alone = c1
  MarketPrices = {2, 3, 4, 5, 8}
  BookTime = 3
  SharedPrices = {2, 4, 5}
  SharedTime = 1
  HistoryBars <- DaysOfHistory
  Advice <- AdviceAfter
  MinHistory = 1
  Spacing = 2
  MaxBars = 6
  Picks <- OneOfEach
  Ideas <- TwoIdeas
  IsManaged <- ManagedTraders
  EndedRows <- EndedTrades
  MaxTrades = 3
  OldTrades <- TradesOfTheFile
  OldPapers <- PapersOfTheFile
  OldLists <- ListsOfTheFile
  OldCount = 1
  NewId = "n"
  MaxCount = 2
  Frames <- DayMonthHalfYear
  TTL <- TicksToLive
  OpenAt = 1
  RangeEnd = 3
  WindowEnd = 4
  CloseAt = 5
  LastTick = 5
  RunTTL = 1
  Cadence <- TicksOfATier
  Views <- FarOrNoPlan
  Failing = {"1D", "1M"}
INVARIANTS
  ServicesTypeOK
  CachesAreHonest
  GuessesAreRationed
  RadarIsAttended
PROPERTIES
  KeepsBudget
  EventsAreTraded
  SettledOnce
  JudgementsAreSound
  WaitsEnd
  ImplementsTradeBook
CHECK_DEADLOCK FALSE
