SPECIFICATION Spec
CONSTANTS
  t1 = t1
  t2 = t2
  t3 = t3
  NoTicker = NoTicker
  Tickers = {t1, t2, t3}
  Suggested <- Suggestions
  Books <- BookExamples
  SessionCap = 350
  MaxPerTrade = 300
CONSTRAINT LostAtMostOne
INVARIANT TypeOK
INVARIANT SpentWithinCap
INVARIANT YesIsCounted
INVARIANT BoughtOnce
CHECK_DEADLOCK FALSE
