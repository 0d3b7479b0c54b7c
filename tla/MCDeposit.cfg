SPECIFICATION MCSpec
CONSTANTS
  a = a  b = b
  Orders = {a, b}
  Lots <- MCLots
  Placed <- MCPlaced
  NoId = NoId
  MaxCaptures = 2
  MaxHeld = 2
  MaxDay = 2
  Decisions = {d, e}
  Requests = {r1, r2, r3}
  Actors = {k1, k2}
  Operated = {p1, p2}
  MaxEvents = 5
  Programs = {1, 2}
  Slices <- MCSlices
  Prog <- MCProg
  Sequence <- MCSequence
  PerUnit <- MCPerUnit
  Budget = 3
  policyA = policyA
  Policies = {policyA, policyB}
  NoPolicy = NoPolicy
  NoOrder = NoOrder
  MaxFaults = 2
  MaxSockets = 2
  MaxCallbacks = 7
  MaxQueued = 3
  FirstCapital = 3
  References = {r1, r2}
  Deposits = {1}
  Gains <- UpAndDown
  LastUtcDay = 2
  Entries = {d1, d2, d3}
  Supported = {d1, d2}
  BuyPrices = {2}
  SellPrices = {3}
  MaxLots = 2
  Exits = {"STOP_LOSS"}
  FillFee = 1
  LastFill = 4
  Runners = {g1, g2}
  LastWeek = 2
  LastBasis = 2
  Publishers = {u1, u2}
  Accounts = {m1, m2}
  NoAccount = NoAccount
  LastLogin = 3
  LastWriting = 4
  LastCutoff = 2
  Capital = 10000
  UnitPrices = {720, 1440}
  UnitMargin = 12
  UnitFee = 1
  MaxUnits = 3
  LastBooked = 4
  Parts = {"deposit"}
INVARIANT DrawdownKept
CHECK_DEADLOCK FALSE
