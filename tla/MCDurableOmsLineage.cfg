SPECIFICATION Spec
CONSTANTS
  a = a  b = b  c = c  x = x  y = y  f = f  g = g  k = k  l1 = l1  l2 = l2
  NoBroker = NoBroker
  Qty <- MCQty
  Econ <- MCEcon
  Source <- MCSource
  MCBig = 3
  ClientIds = {a, b, c}
  Levels = {l1}
  BrokerIds = {}
  FillIds = {f, g}
  Prices = {1}
  MaxEvents = 6
SYMMETRY Symmetric
INVARIANTS
  FilledAgreesWithState
  ReplacementFitsRemainder
  LineageWithinOriginal
