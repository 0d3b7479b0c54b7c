SPECIFICATION Spec
CONSTANTS
  Symbols = {FUT}
  Futures = {FUT}
  MarginPerUnit = 4
  Slippage = 0
  Fee = 0
  StartingCapital = 60
  NoKey = 0
  BandPercent = 20
  Monitored = TRUE
  Cooldown = 3
  ResolveWithin = 1
  Phase <- MCMarginPhase
  CloseOf <- MCMarginCloses
  ExDates <- MCExDates
  Decisions = {1, 2}
  NoOrder = NoOrder
  Prices = {5, 10}
  Sizes <- MCSizes
  MaxTime = 4
  MaxFills = 4
  Scaling = FALSE
  MaxOpen = 1
  DayOf <- MCMarginDays
  FlattenAt = {3}
  UnpricedLimit = 1
  FailureLimit = 1
  DrawdownPercent = 20
  DailyLossPercent = 10
  MaxRestarts = 0

INVARIANT MarginFollowsUnits
PROPERTY OpenStepAnswered
CHECK_DEADLOCK FALSE
