SPECIFICATION Spec
CONSTANTS
  t1 = t1
  t2 = t2
  t3 = t3
  NoTicker = NoTicker
  Tickers = {t1}
  Suggested <- Suggestions
  Books <- BookExamples
  SessionCap = 10000
  MaxPerTrade = 2500
INVARIANT NoTradeOverMax
CHECK_DEADLOCK FALSE
