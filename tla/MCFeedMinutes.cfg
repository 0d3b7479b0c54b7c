SPECIFICATION MCSpec
CONSTANTS
  Parts = {"ticks"}
  Calls <- MCCalls
  ScopeOf <- MCScopeOf
  LedgersOf <- MCLedgersOf
  Allowance <- MCAllowance
  CallLimit <- MCCallLimit
  TokenLimit <- MCTokenLimit
  DollarLimit = 3
  LastDay = 2
  Usages <- MCUsages
  A = A
  B = B
  C = C
  Symbols <- MCSymbols
  Sectors <- MCSectors
  MinAgents = 3
  BaseFloor = 55
  MaxExpectedRisk = 800
  EvGate = TRUE
  ProbesPerDay = 1
  ProbeConfidence = 40
  ProbeScore = 35
  StopFraction = 5
  TradeRisk = 2
  PositionCap = 25
  TradeCap = 25
  CashReserve = 10
  GrossCap = 60
  SectorCap = 30
  OvernightCap = 50
  DailyLoss = 3
  Drawdown = 10
  StressTolerance = 2
  BookTolerance = 4
  MaxOpenPositions = 2
  ProbeFraction = 10
  Tapes <- MCTapes
  Views <- MCViews
  UseModel = TRUE
  Prices <- MCPrices
  Watchlist <- MCWatchlist
  StartingCash = 900
  StartingBooks <- MCBooks
  Phases <- MCPhases
  LastTick = 3
  MaxDecisions = 2
  CooldownTicks = 3
  q = q
  r = r
  FeedSymbols = {q, r}
  QuotesOf <- MCQuotes
  SaneQuotes <- MCSane
  WarmBar = 9
  BarLength = 2
  DayLength = 4
  MaxTickAge = 3
  BufferSize = 2
  MaxBars = 2
  MaxClock = 4
  MaxArrivals = 3

INVARIANT ClosedMinutesStandOnce
CHECK_DEADLOCK FALSE
