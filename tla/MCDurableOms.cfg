SPECIFICATION MCSpec
CONSTANTS
  a = a  b = b  c = c  x = x  y = y  f = f  g = g  k = k  l1 = l1  l2 = l2
  NoBroker = NoBroker
  Qty <- MCQty
  Econ <- MCEcon
  Source <- MCSource
  MCBig = 2
  ClientIds = {a, c}
  Levels = {l1, l2}
  BrokerIds = {x, y}
  FillIds = {f, k}
  Prices = {1, 2}
  MaxEvents = 8
INVARIANTS
  TypeOK
  EveryOrderVerifies
  ExecutionsHaveOneOwner
PROPERTY
  ClosedOrdersStayClosed
