SPECIFICATION Spec
CONSTANTS
  k1 = k1
  k2 = k2
  m1 = m1
  s1 = s1
  s2 = s2
  srcA = srcA
  c1 = c1
  c2 = c2
  res1 = res1
  LTrades = {k1, k2}
  LTickers = {m1}
  LSignals = {s1, s2}
  LSources = {srcA}
  Closers = {c1, c2}
  Resolvers = {res1}
  LNone = LNone
  t1 = t1
  ATickers = {t1}
  MaxBought = 2
  i1 = i1
  i2 = i2
  q1 = q1
  q2 = q2
  Ideas = {i1, i2}
  Requests = {q1, q2}
  ReviewedKept = 1
  NoIdea = NoIdea
  FillPrices = {30, 40}
  PnlRows <- MCPnlRows
  MaxFills = 4
  MaxRows = 3
  NoDays = NoDays
  keyA = keyA
  keyB = keyB
  cmd1 = cmd1
  CfgKeys = {keyA, keyB}
  CfgValues = {0, 1, 2}
  ValidRange = {1, 2}
  Default = 1
  Commands = {cmd1}
  Unset = Unset
  d1 = d1
  d2 = d2
  catA = catA
  v1 = v1
  v2 = v2
  RIdeas = {d1, d2}
  Categories = {catA}
  Reviews = {v1, v2}
  CategoryOf <- MCCategoryOf
  MinSingle = 1
  MaxSingle = 2
  MaxCategory = 2
  MaxTotal = 2
  MaxKelly = 2
  ExposureSeen = 5
  o1 = o1
  o2 = o2
  OSlots = {o1, o2}
  MaxHeld = 2
  NoQuantity = NoQuantity
  b1 = b1
  b2 = b2
  da = da
  f1 = f1
  r1 = r1
  r2 = r2
  x1 = x1
  x2 = x2
  e1 = e1
  e2 = e2
  e3 = e3
  BookLevels = {b1, b2}
  MaxSize = 1
  MaxInFlight = 3
  NoBook = NoBook
  NPages = 3
  CheckpointPages = 2
  BatchRows = 3
  MaxFetched = 6
  NoFile = NoFile
  Torn = Torn
  Docs = {da}
  Feeds = {f1}
  Refreshers = {r1, r2}
  FeedOf <- MCFeedOf
  EventDay <- MCEventDay
  FeedTtl = 1
  Retention = 1
  MaxToday = 3
  MaxText = 2
  SMarkets = {x1, x2}
  TradeTop = 2
  BookTop = 1
  NoAnswer = NoAnswer
  Sources = {e1, e2, e3}
  FamilyOf <- MCFamilyOf
  SigEstimates <- MCSigEstimates
  SigQuotes <- MCSigQuotes
  NoBid = NoBid
  MinEdge = 5
  MaxEntry = 90
  AgreementSpread = 3
  MaxEstimates = 3
  Scale = 36
  u1 = u1
  h1 = h1
  h2 = h2
  CTickers = {u1}
  Scanners = {h1, h2}
  LastPeriod = 3
  Lookback = 1
  MaxVolume = 2
  SnapMarkets <- MCSnapMarkets
  DailyVolumes <- MCDailyVolumes
  HourCandles <- MCHourCandles
  Takers <- MCTakers
  LiveBooks <- MCLiveBooks
  Absent = Absent
  NoneLive = NoneLive
  MaxCandles = 4
  MaxTakers = 2
  Events <- MCEvents
  Readings <- MCReadings
  Strikes <- MCStrikes
  Hours = {7, 16, 18, 20}
  UtcAhead = 5
  MinMembers = 2
  NoReading = NoReading
  NoScan = NoScan
  Missing = Missing
  SettledMarkets <- MCSettledMarkets
  Timelines <- MCTimelines
  Unaired <- MCUnaired
  Documents <- MCDocuments
  Transcripts <- MCTranscripts
  g1 = g1
  g2 = g2
  y1 = y1
  y2 = y2
  NoPhrase = NoPhrase
  NoSpeaker = NoSpeaker
  BackedDocuments = 2
  ThinDocuments = 2
  MaxTranscripts = 3
  StudySamples <- MCStudySamples
  CandleAnswers <- MCCandleAnswers
  AsofMinutes = 60
  Unquoted = Unquoted
  NoClose = NoClose
  bombshell = bombshell
  casa = casa
  TeaserMarkets <- MCTeaserMarkets
  SettledPages <- MCSettledPages
  Teasers <- MCTeasers
  TeaserEvents <- MCTeaserEvents
  MaxMarkets = 4
  SearchResults = 2
  ConfirmProb = 850
  SilentProb = 400
  NoDate = NoDate
CHECK_DEADLOCK FALSE
 
INVARIANT ExitMatchesPosition
INVARIANT ResolvedMarketsAreScored
 
INVARIANT ReviewedOnce
INVARIANT NoIdeaVanishes
INVARIANT AnalyticsAreRight
INVARIANT SettingsAreSound
 
 
 
 
INVARIANT RefreshedIsArchived
INVARIANT UndegradedScanIsLive
 
INVARIANT MarkedHistoryIsFinished
 
 
 
