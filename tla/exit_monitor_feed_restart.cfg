SPECIFICATION Spec
CONSTANTS
  t1 = t1
  t2 = t2
  o1 = o1
  o2 = o2
  o3 = o3
  Tickers = {t1}
  OrderIds = {o1, o2}
  MaxQuantity = 1
  NoTicker = NoTicker
  NoSlot = NoSlot
  Buyers = FALSE
  StaleSweep = FALSE
INVARIANT RefreshRestartsFeed
