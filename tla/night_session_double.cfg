SPECIFICATION Spec
CONSTANTS
  t1 = t1
  t2 = t2
  t3 = t3
  NoTicker = NoTicker
  Tickers = {t1}
  Sizes = {1}
  TradeCap = 9
  DollarCap = 4
  CycleCap = 2
  MaxTrade = 2
INVARIANT NoDoubleDown
CHECK_DEADLOCK FALSE
