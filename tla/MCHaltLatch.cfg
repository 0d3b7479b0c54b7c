SPECIFICATION HaltSpec
CONSTANTS
  Symbols = {EQ}
  Futures = {}
  MarginPerUnit = 4
  Slippage = 0
  Fee = 1
  StartingCapital = 60
  NoKey = 0
  BandPercent = 20
  Monitored = FALSE
  Cooldown = 1
  ResolveWithin = 2
  Phase <- MCPhase
  CloseOf <- MCCloses
  ExDates = {}
  Decisions = {1, 2}
  NoOrder = NoOrder
  Prices = {5, 10, 11}
  Sizes <- MCSizes
  MaxTime = 3
  MaxFills = 4
  Scaling = TRUE
  MaxOpen = 1
  DayOf <- MCDayOf
  FlattenAt = {3}
  UnpricedLimit = 1
  FailureLimit = 1
  DrawdownPercent = 20
  DailyLossPercent = 10
  MaxRestarts = 0

INVARIANT FaultHeldUntilOverride
CHECK_DEADLOCK FALSE
