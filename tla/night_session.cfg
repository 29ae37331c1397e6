SPECIFICATION Spec
CONSTANTS
  t1 = t1
  t2 = t2
  t3 = t3
  NoTicker = NoTicker
  Tickers = {t1, t2, t3}
  Sizes = {1, 2}
  TradeCap = 9
  DollarCap = 4
  CycleCap = 2
  MaxTrade = 2
CONSTRAINT LostAtMost3
INVARIANT AccountWithinCap
INVARIANT BoughtOnce
INVARIANT RecordedAreCounted
PROPERTY BudgetSpec
CHECK_DEADLOCK FALSE
