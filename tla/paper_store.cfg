SPECIFICATION Spec
CONSTANTS
  r1 = r1
  r2 = r2
  r3 = r3
  t1 = t1
  t2 = t2
  p1 = p1
  p2 = p2
  Recs = {r1, r2}
  Tickers = {t1}
  Passes = {p1, p2}
  NoTicker = NoTicker
  NoRec = NoRec
SYMMETRY Symmetry
INVARIANT TypeOK
INVARIANT RecordedSurvive
INVARIANT OneOpenPerTicker
INVARIANT SettlementIsLatest
 
