SPECIFICATION PassesSpec
CONSTANTS
  t1 = t1
  t2 = t2
  o1 = o1
  o2 = o2
  o3 = o3
  Tickers = {t1, t2}
  OrderIds = {o1, o2}
  MaxQuantity = 2
  NoTicker = NoTicker
  NoSlot = NoSlot
CONSTRAINT WithinBounds
SYMMETRY Symmetry
INVARIANT EvTypeOK
INVARIANT OversellsOnlyInTheWindow
INVARIANT OneExitAcrossPasses
