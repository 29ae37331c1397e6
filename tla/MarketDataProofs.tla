--------------------------- MODULE MarketDataProofs ---------------------------
(***************************************************************************)
(* What the program reads from the exchange and the web keeps its promises *)
(* for any values of the constants: candles, the order book, the scan, the *)
(* board, the archive of documents, the readings of a weather station and  *)
(* the studies that replay what was known. The components share no state;  *)
(* their theorems are kept together because they are all about data that   *)
(* was read before it is used.                                             *)
(***************************************************************************)
EXTENDS CandleCache, OrderBookFeed, MarketScan, MarketCatalog, MentionsArchive,
        WeatherSignals, MentionsStudies, MarketSignals, ReductionFacts, TLAPS

---------------------------------------------------------------------------
(* CandleCache: a market that is marked fresh has its finished history.    *)

\* A program without a refresh holds nothing of an earlier one.
IdleHoldsNothing ==
  \A s \in Scanners : askedAt[s] = 0 => awaited[s] = {} /\ answers[s] = NoAnswers

\* No request and no mark is of the future.
NothingAhead ==
  /\ \A s \in Scanners : askedAt[s] <= period
  /\ \A t \in CTickers : behind[t] <= period

\* A cached candle is of trades that were made.
NoInventedCandle ==
  \A t \in CTickers : \A p \in Periods : cached[t][p] <= volume[t][p]

\* An answer that is not empty has every finished candle it was asked for.
AnswersAreFinished ==
  \A s \in Scanners, t \in CTickers : \A p \in Periods :
    /\ answers[s][t][p] <= volume[t][p]
    /\ answers[s][t] # NoCandles /\ p < askedAt[s] /\ askedAt[s] <= p + Lookback =>
         answers[s][t][p] = volume[t][p]

(* The history behind the mark is finished because the answers it was      *)
(* stored from were, and a finished period does not trade any more.        *)
CacheIInv ==
  /\ CacheTypeOK
  /\ IdleHoldsNothing
  /\ NothingAhead
  /\ NoInventedCandle
  /\ AnswersAreFinished
  /\ MarkedHistoryIsFinished

\* The constants are numbers, and no candles are candles.
LEMMA CacheBounds ==
  /\ LastPeriod \in Nat /\ LastPeriod >= 1
  /\ Lookback \in Nat /\ MaxVolume \in Nat
  /\ Periods \subseteq Nat
  /\ NoCandles \in Candles
  /\ NoAnswers \in [CTickers -> Candles]
  BY CacheAssumption DEF Periods, Candles, NoCandles, NoAnswers

\* The initial state satisfies the inductive invariant.
LEMMA CacheInitInv == CacheInit => CacheIInv
  <1> SUFFICES ASSUME CacheInit PROVE CacheIInv
    OBVIOUS
  <1> USE CacheBounds DEF CacheInit
  <1>1. CacheTypeOK
    BY DEF CacheTypeOK, Periods
  <1>2. IdleHoldsNothing /\ NothingAhead
    BY DEF IdleHoldsNothing, NothingAhead
  <1>3. NoInventedCandle
    BY DEF NoInventedCandle, NoAnswers, NoCandles
  <1>4. AnswersAreFinished
    BY DEF AnswersAreFinished, NoAnswers, NoCandles
  <1>5. MarkedHistoryIsFinished
    BY DEF MarkedHistoryIsFinished, NoAnswers, NoCandles
  <1> QED
    BY <1>1, <1>2, <1>3, <1>4, <1>5 DEF CacheIInv

(* What an answer does to the answers, one candle at a time.               *)
LEMMA AnswerFacts ==
  ASSUME CacheTypeOK, NEW s \in Scanners, NEW t \in CTickers, NEW running \in BOOLEAN,
         CacheAnswer(s, t, running)
  PROVE  /\ answers' \in [Scanners -> [CTickers -> Candles]]
         /\ \A r \in Scanners, u \in CTickers :
              r # s \/ u # t => answers'[r][u] = answers[r][u]
         /\ \A p \in Periods :
              /\ answers'[s][t][p] \in {0, volume[t][p]}
              /\ p < askedAt[s] /\ askedAt[s] <= p + Lookback =>
                   answers'[s][t][p] = volume[t][p]
  <1> DEFINE a == [p \in Periods |->
                     IF p \in Requested(t, askedAt[s]) /\ (p < askedAt[s] \/ running)
                       THEN volume[t][p] ELSE 0]
  <1>1. volume[t] \in Candles /\ askedAt[s] \in Nat
    BY DEF CacheTypeOK
  <1>2. a \in Candles
    BY <1>1, CacheBounds DEF Candles
  <1>3. answers' = [answers EXCEPT ![s][t] = a]
    BY DEF CacheAnswer
  <1>4. \A p \in Periods :
           /\ a[p] \in {0, volume[t][p]}
           /\ p < askedAt[s] /\ askedAt[s] <= p + Lookback => a[p] = volume[t][p]
    <2> TAKE p \in Periods
    <2>1. a[p] = IF p \in Requested(t, askedAt[s]) /\ (p < askedAt[s] \/ running)
                   THEN volume[t][p] ELSE 0
      OBVIOUS
    <2>2. p \in Requested(t, askedAt[s]) <=>
            askedAt[s] <= p + Lookback /\ p <= askedAt[s]
      BY DEF Requested
    <2>3. p \in Nat
      BY CacheBounds
    <2> HIDE DEF a
    <2> QED
      BY <1>1, <2>1, <2>2, <2>3
  <1> HIDE DEF a
  <1>5. answers \in [Scanners -> [CTickers -> Candles]]
    BY DEF CacheTypeOK
  <1>6. /\ answers' \in [Scanners -> [CTickers -> Candles]]
        /\ answers'[s][t] = a
        /\ \A r \in Scanners, u \in CTickers :
             r # s \/ u # t => answers'[r][u] = answers[r][u]
    BY <1>2, <1>3, <1>5
  <1> QED
    BY <1>4, <1>6

\* Every step preserves the types.
LEMMA CacheTypeStep == CacheTypeOK /\ NothingAhead /\ [CacheNext]_cacheVars => CacheTypeOK'
  <1> SUFFICES ASSUME CacheTypeOK, NothingAhead, [CacheNext]_cacheVars PROVE CacheTypeOK'
    OBVIOUS
  <1> USE CacheBounds DEF cacheRows, cacheFetches
  <1>1. CASE PeriodPasses
    BY <1>1 DEF PeriodPasses, CacheTypeOK, Periods
  <1>2. ASSUME NEW t \in CTickers, CandleTrade(t) PROVE CacheTypeOK'
    <2>1. volume \in [CTickers -> Candles] /\ period \in Periods
      BY DEF CacheTypeOK
    <2>2. volume[t][period] + 1 \in 0 .. MaxVolume
      BY <1>2, <2>1 DEF CandleTrade, Candles
    <2>3. volume' \in [CTickers -> Candles]
      BY <1>2, <2>1, <2>2 DEF CandleTrade, Candles
    <2> QED
      BY <1>2, <2>3 DEF CandleTrade, CacheTypeOK
  <1>3. ASSUME NEW s \in Scanners, CacheAsk(s) PROVE CacheTypeOK'
    BY <1>3 DEF CacheAsk, CacheTypeOK, Stale, Periods
  <1>4. ASSUME NEW s \in Scanners, CacheStore(s) PROVE CacheTypeOK'
    <2>1. cached' \in [CTickers -> Candles]
      BY <1>4 DEF CacheStore, CacheTypeOK, Candles
    <2>2. answers' \in [Scanners -> [CTickers -> Candles]]
      BY <1>4 DEF CacheStore, CacheTypeOK
    <2>3. askedAt' \in [Scanners -> 0 .. LastPeriod]
      BY <1>4 DEF CacheStore, CacheTypeOK
    <2>4. /\ marked' \in [CTickers -> 0 .. LastPeriod]
          /\ behind' \in [CTickers -> 0 .. LastPeriod]
          /\ \A t \in CTickers : behind'[t] <= marked'[t]
      BY <1>4 DEF CacheStore, CacheTypeOK, Periods, NothingAhead
    <2> QED
      BY <1>4, <2>1, <2>2, <2>3, <2>4 DEF CacheStore, CacheTypeOK
  <1>5. ASSUME NEW s \in Scanners, CacheDies(s) PROVE CacheTypeOK'
    BY <1>5 DEF CacheDies, CacheTypeOK
  <1>6. ASSUME NEW s \in Scanners, NEW t \in CTickers, NEW running \in BOOLEAN,
               CacheAnswer(s, t, running)
        PROVE CacheTypeOK'
    BY <1>6, AnswerFacts DEF CacheAnswer, CacheTypeOK
  <1>7. ASSUME NEW s \in Scanners, NEW t \in CTickers, CacheNoAnswer(s, t) PROVE CacheTypeOK'
    BY <1>7 DEF CacheNoAnswer, CacheTypeOK
  <1>8. CASE UNCHANGED cacheVars
    BY <1>8 DEF cacheVars, CacheTypeOK
  <1> QED
    BY <1>1, <1>2, <1>3, <1>4, <1>5, <1>6, <1>7, <1>8 DEF CacheNext

\* Every step preserves the inductive invariant.
LEMMA CacheStep == CacheIInv /\ [CacheNext]_cacheVars => CacheIInv'
  <1> SUFFICES ASSUME CacheIInv, [CacheNext]_cacheVars PROVE CacheIInv'
    OBVIOUS
  <1> USE CacheBounds DEF cacheRows, cacheFetches, NothingAhead
  <1>0. CacheTypeOK'
    BY CacheTypeStep DEF CacheIInv
  <1>1. CASE PeriodPasses
    <2>1. NothingAhead'
      BY <1>1 DEF PeriodPasses, CacheIInv, CacheTypeOK
    <2>2. IdleHoldsNothing' /\ NoInventedCandle' /\ AnswersAreFinished' /\ MarkedHistoryIsFinished'
      BY <1>1 DEF PeriodPasses, CacheIInv, IdleHoldsNothing, NoInventedCandle,
                  AnswersAreFinished, MarkedHistoryIsFinished
    <2> QED
      BY <1>0, <2>1, <2>2 DEF CacheIInv
  <1>2. ASSUME NEW t \in CTickers, CandleTrade(t) PROVE CacheIInv'
    <2>1. \A u \in CTickers : \A p \in Periods :
             /\ volume[u][p] \in Nat
             /\ volume'[u][p] >= volume[u][p]
             /\ p < period => volume'[u][p] = volume[u][p]
      BY <1>2 DEF CandleTrade, CacheIInv, CacheTypeOK, Candles
    <2>2. \A s \in Scanners, u \in CTickers : \A p \in Periods :
             /\ answers[s][u][p] \in Nat /\ cached[u][p] \in Nat /\ volume'[u][p] \in Nat
             /\ askedAt[s] \in Nat /\ behind[u] \in Nat /\ period \in Nat
      BY <1>0, <1>2 DEF CandleTrade, CacheIInv, CacheTypeOK, Candles
    <2>3. IdleHoldsNothing' /\ NothingAhead'
      BY <1>2 DEF CandleTrade, CacheIInv, IdleHoldsNothing
    <2>4. NoInventedCandle'
      <3> SUFFICES ASSUME NEW u \in CTickers, NEW p \in Periods
                   PROVE cached'[u][p] <= volume'[u][p]
        BY DEF NoInventedCandle
      <3>1. cached[u][p] \in Nat /\ volume'[u][p] \in Nat
        BY <1>0, <1>2 DEF CandleTrade, CacheIInv, CacheTypeOK, Candles
      <3> QED
        BY <1>2, <2>1, <3>1 DEF CandleTrade, CacheIInv, NoInventedCandle
    <2>5. AnswersAreFinished'
      BY <1>2, <2>1, <2>2 DEF CandleTrade, CacheIInv, AnswersAreFinished
    <2>6. MarkedHistoryIsFinished'
      <3> SUFFICES ASSUME NEW u \in CTickers, NEW p \in Periods,
                          p < behind[u] /\ behind[u] <= p + Lookback
                   PROVE cached[u][p] = volume'[u][p]
        BY <1>2 DEF CandleTrade, MarkedHistoryIsFinished
      <3>1. p < period
        BY DEF CacheIInv, CacheTypeOK, Periods
      <3> QED
        BY <2>1, <3>1 DEF CacheIInv, MarkedHistoryIsFinished
    <2> QED
      BY <1>0, <2>3, <2>4, <2>5, <2>6 DEF CacheIInv
  <1>3. ASSUME NEW s \in Scanners, CacheAsk(s) PROVE CacheIInv'
    <2>1. IdleHoldsNothing'
      BY <1>3 DEF CacheAsk, CacheIInv, CacheTypeOK, IdleHoldsNothing, Periods
    <2>2. NothingAhead'
      BY <1>3 DEF CacheAsk, CacheIInv, CacheTypeOK, Periods
    <2>3. \A u \in CTickers : answers[s][u] = NoCandles
      BY <1>3 DEF CacheAsk, CacheIInv, IdleHoldsNothing, NoAnswers
    <2>4. AnswersAreFinished'
      BY <1>3, <2>3 DEF CacheAsk, CacheIInv, CacheTypeOK, AnswersAreFinished
    <2>5. NoInventedCandle' /\ MarkedHistoryIsFinished'
      BY <1>3 DEF CacheAsk, CacheIInv, NoInventedCandle, MarkedHistoryIsFinished
    <2> QED
      BY <1>0, <2>1, <2>2, <2>4, <2>5 DEF CacheIInv
  <1>4. ASSUME NEW s \in Scanners, CacheStore(s) PROVE CacheIInv'
    <2>1. IdleHoldsNothing'
      BY <1>4 DEF CacheStore, CacheIInv, CacheTypeOK, IdleHoldsNothing
    <2>2. NothingAhead'
      BY <1>4 DEF CacheStore, CacheIInv, CacheTypeOK, Periods
    <2>3. \A u \in CTickers : \A p \in Periods :
             cached'[u][p] = IF answers[s][u][p] # 0 THEN answers[s][u][p] ELSE cached[u][p]
      BY <1>4 DEF CacheStore
    <2>4. NoInventedCandle'
      BY <1>4, <2>3 DEF CacheStore, CacheIInv, NoInventedCandle, AnswersAreFinished
    <2>5. AnswersAreFinished'
      <3> SUFFICES ASSUME NEW r \in Scanners, NEW u \in CTickers, NEW p \in Periods
                   PROVE /\ answers'[r][u][p] <= volume[u][p]
                         /\ answers'[r][u] # NoCandles /\ p < askedAt'[r]
                            /\ askedAt'[r] <= p + Lookback => answers'[r][u][p] = volume[u][p]
        BY <1>4 DEF CacheStore, AnswersAreFinished
      <3>1. CASE r = s
        <4>1. answers'[r][u] = NoCandles
          BY <1>4, <3>1 DEF CacheStore, CacheIInv, CacheTypeOK, NoAnswers
        <4>2. volume[u][p] \in Nat
          BY DEF CacheIInv, CacheTypeOK, Candles
        <4> QED
          BY <4>1, <4>2 DEF NoCandles
      <3>2. CASE r # s
        <4>1. answers'[r] = answers[r] /\ askedAt'[r] = askedAt[r]
          BY <1>4, <3>2 DEF CacheStore, CacheIInv, CacheTypeOK
        <4> QED
          BY <4>1 DEF CacheIInv, AnswersAreFinished
      <3> QED
        BY <3>1, <3>2
    <2>6. MarkedHistoryIsFinished'
      <3> SUFFICES ASSUME NEW u \in CTickers, NEW p \in Periods,
                          p < behind'[u] /\ behind'[u] <= p + Lookback
                   PROVE cached'[u][p] = volume[u][p]
        BY <1>4 DEF CacheStore, MarkedHistoryIsFinished
      <3>0. volume[u][p] \in Nat /\ cached[u][p] \in Nat /\ answers[s][u][p] \in Nat
        BY DEF CacheIInv, CacheTypeOK, Candles
      <3>1. CASE answers[s][u] = NoCandles
        <4>1. behind'[u] = behind[u]
          BY <1>4, <3>1 DEF CacheStore
        <4>2. cached'[u][p] = cached[u][p]
          BY <2>3, <3>1 DEF NoCandles
        <4> QED
          BY <4>1, <4>2 DEF CacheIInv, MarkedHistoryIsFinished
      <3>2. CASE answers[s][u] # NoCandles
        <4>1. behind'[u] = askedAt[s]
          BY <1>4, <3>2 DEF CacheStore
        <4>2. answers[s][u][p] = volume[u][p]
          BY <3>2, <4>1 DEF CacheIInv, AnswersAreFinished
        <4>3. cached[u][p] <= volume[u][p]
          BY DEF CacheIInv, NoInventedCandle
        <4>4. CASE answers[s][u][p] # 0
          BY <2>3, <4>2, <4>4
        <4>5. CASE answers[s][u][p] = 0
          <5>1. cached'[u][p] = cached[u][p]
            BY <2>3, <4>5
          <5> QED
            BY <3>0, <4>2, <4>3, <4>5, <5>1
        <4> QED
          BY <4>4, <4>5
      <3> QED
        BY <3>1, <3>2
    <2> QED
      BY <1>0, <2>1, <2>2, <2>4, <2>5, <2>6 DEF CacheIInv
  <1>5. ASSUME NEW s \in Scanners, CacheDies(s) PROVE CacheIInv'
    <2>1. IdleHoldsNothing' /\ NothingAhead'
      BY <1>5 DEF CacheDies, CacheIInv, CacheTypeOK, IdleHoldsNothing, Periods
    <2>2. NoInventedCandle' /\ MarkedHistoryIsFinished'
      BY <1>5 DEF CacheDies, CacheIInv, NoInventedCandle, MarkedHistoryIsFinished
    <2>3. AnswersAreFinished'
      <3> SUFFICES ASSUME NEW r \in Scanners, NEW u \in CTickers, NEW p \in Periods
                   PROVE /\ answers'[r][u][p] <= volume[u][p]
                         /\ answers'[r][u] # NoCandles /\ p < askedAt'[r]
                            /\ askedAt'[r] <= p + Lookback => answers'[r][u][p] = volume[u][p]
        BY <1>5 DEF CacheDies, AnswersAreFinished
      <3>1. CASE r = s
        <4>1. answers'[r][u] = NoCandles
          BY <1>5, <3>1 DEF CacheDies, CacheIInv, CacheTypeOK, NoAnswers
        <4>2. volume[u][p] \in Nat
          BY DEF CacheIInv, CacheTypeOK, Candles
        <4> QED
          BY <4>1, <4>2 DEF NoCandles
      <3>2. CASE r # s
        <4>1. answers'[r] = answers[r] /\ askedAt'[r] = askedAt[r]
          BY <1>5, <3>2 DEF CacheDies, CacheIInv, CacheTypeOK
        <4> QED
          BY <4>1 DEF CacheIInv, AnswersAreFinished
      <3> QED
        BY <3>1, <3>2
    <2> QED
      BY <1>0, <2>1, <2>2, <2>3 DEF CacheIInv
  <1>6. ASSUME NEW s \in Scanners, NEW t \in CTickers, NEW running \in BOOLEAN,
               CacheAnswer(s, t, running)
        PROVE CacheIInv'
    <2>1. IdleHoldsNothing'
      <3> SUFFICES ASSUME NEW r \in Scanners, askedAt[r] = 0
                   PROVE awaited'[r] = {} /\ answers'[r] = NoAnswers
        BY <1>6 DEF CacheAnswer, IdleHoldsNothing
      <3>1. r # s
        BY <1>6 DEF CacheAnswer, CacheIInv, IdleHoldsNothing
      <3> QED
        BY <1>6, <3>1 DEF CacheAnswer, CacheIInv, CacheTypeOK, IdleHoldsNothing
    <2>2. NothingAhead' /\ NoInventedCandle' /\ MarkedHistoryIsFinished'
      BY <1>6 DEF CacheAnswer, CacheIInv, NoInventedCandle, MarkedHistoryIsFinished
    <2>3. AnswersAreFinished'
      <3> SUFFICES ASSUME NEW r \in Scanners, NEW u \in CTickers, NEW p \in Periods
                   PROVE /\ answers'[r][u][p] <= volume[u][p]
                         /\ answers'[r][u] # NoCandles /\ p < askedAt[r]
                            /\ askedAt[r] <= p + Lookback => answers'[r][u][p] = volume[u][p]
        BY <1>6 DEF CacheAnswer, AnswersAreFinished
      <3>0. volume[u][p] \in Nat
        BY DEF CacheIInv, CacheTypeOK, Candles
      <3>1. CASE r = s /\ u = t
        <4>1. /\ answers'[r][u][p] \in {0, volume[u][p]}
              /\ p < askedAt[r] /\ askedAt[r] <= p + Lookback =>
                   answers'[r][u][p] = volume[u][p]
          BY <1>6, <3>1, AnswerFacts DEF CacheIInv
        <4> QED
          BY <3>0, <4>1
      <3>2. CASE r # s \/ u # t
        <4>1. answers'[r][u] = answers[r][u]
          BY <1>6, <3>2, AnswerFacts DEF CacheIInv
        <4> QED
          BY <4>1 DEF CacheIInv, AnswersAreFinished
      <3> QED
        BY <3>1, <3>2
    <2> QED
      BY <1>0, <2>1, <2>2, <2>3 DEF CacheIInv
  <1>7. ASSUME NEW s \in Scanners, NEW t \in CTickers, CacheNoAnswer(s, t) PROVE CacheIInv'
    <2>1. IdleHoldsNothing'
      BY <1>7 DEF CacheNoAnswer, CacheIInv, CacheTypeOK, IdleHoldsNothing
    <2>2. NothingAhead' /\ NoInventedCandle' /\ MarkedHistoryIsFinished' /\ AnswersAreFinished'
      BY <1>7 DEF CacheNoAnswer, CacheIInv, NoInventedCandle, MarkedHistoryIsFinished,
                  AnswersAreFinished
    <2> QED
      BY <1>0, <2>1, <2>2 DEF CacheIInv
  <1>8. CASE UNCHANGED cacheVars
    BY <1>0, <1>8 DEF cacheVars, CacheIInv, IdleHoldsNothing, NoInventedCandle,
                MarkedHistoryIsFinished, AnswersAreFinished
  <1> QED
    BY <1>1, <1>2, <1>3, <1>4, <1>5, <1>6, <1>7, <1>8 DEF CacheNext

(* The candle cache: whatever refreshes fail, cross or are killed, a       *)
(* market that is marked fresh has the finished candle of every period     *)
(* that was over when the refresh behind its mark began.                   *)
THEOREM FreshMarksAreFinished == CacheSpec => []MarkedHistoryIsFinished
  <1>1. CacheIInv => MarkedHistoryIsFinished
    BY DEF CacheIInv
  <1> QED
    BY <1>1, CacheInitInv, CacheStep, PTL DEF CacheSpec

---------------------------------------------------------------------------
(* OrderBookFeed: a book with nothing on the way is the exchange's.        *)

\* A message says what a level is: a snapshot does of every level.
Covers(m, l) == m.kind = "delta" => m.level = l
Told(m, l) == IF m.kind = "delta" THEN m.size ELSE m.book[l]

\* Nothing under way tells of the level.
Untold(l) == \A i \in 1 .. Len(wsQueue) : ~Covers(wsQueue[i], l)

\* The last message under way about a level says what it is.
LastWordIsRight ==
  \A l \in BookLevels : \A i \in 1 .. Len(wsQueue) :
    /\ Covers(wsQueue[i], l)
    /\ \A j \in 1 .. Len(wsQueue) : i < j => ~Covers(wsQueue[j], l)
    => Told(wsQueue[i], l) = exchangeBook[l]

\* A level of which nothing is under way is as the monitor has it.
SettledLevels ==
  \A l \in BookLevels \ overwritten : Untold(l) => localBook[l] = exchangeBook[l]

(* The REST answer on its way is right of a level of which nothing is      *)
(* under way, unless the feed has passed it since.                         *)
RestIsRight ==
  restBook # NoBook =>
    \A l \in BookLevels \ passed : Untold(l) => restBook[l] = exchangeBook[l]

\* The inductive invariant of the feed.
FeedIInv ==
  /\ FeedTypeOK
  /\ wsLink = "up" => LastWordIsRight /\ SettledLevels /\ RestIsRight


\* A message of the queue is a snapshot or a delta of the right shape.
LEMMA MessageFacts ==
  ASSUME NEW m \in FeedMessages
  PROVE  \/ m.kind = "snapshot" /\ m.book \in Books
         \/ m.kind = "delta" /\ m.level \in BookLevels /\ m.size \in 0 .. MaxSize
  BY DEF FeedMessages

\* What the exchange and the REST side send is of the right shape.
LEMMA SentFacts ==
  /\ \A b \in Books : Snapshot(b) \in FeedMessages
  /\ \A l \in BookLevels, n \in 0 .. MaxSize : Delta(l, n) \in FeedMessages
  BY DEF Snapshot, Delta, FeedMessages

\* The book after a message has its value at the levels it tells of.
LEMMA HandleFacts ==
  ASSUME FeedTypeOK, WsHandle
  PROVE  /\ Len(wsQueue) \in Nat /\ Len(wsQueue) > 0
         /\ localBook' \in Books
         /\ \A l \in BookLevels :
              localBook'[l] = IF Covers(wsQueue[1], l) THEN Told(wsQueue[1], l) ELSE localBook[l]
         /\ \A l \in BookLevels :
              l \in overwritten' <=> l \in overwritten /\ ~Covers(wsQueue[1], l)
         /\ passed' \subseteq BookLevels /\ overwritten' \subseteq BookLevels
         /\ restBook # NoBook => \A l \in BookLevels :
              l \in passed' <=> IF Covers(wsQueue[1], l) THEN localBook'[l] # restBook[l]
                                ELSE l \in passed
  <1> DEFINE m == Head(wsQueue)
             new == IF m.kind = "delta" THEN ApplyDelta(localBook, m)
                    ELSE ApplySnapshot(localBook, m.book)
             hit == IF m.kind = "delta" THEN {m.level} ELSE BookLevels
  <1>1. /\ wsQueue # <<>>
        /\ localBook' = new
        /\ passed' = IF restBook = NoBook THEN {}
                     ELSE (passed \ hit) \cup {l \in hit : new[l] # restBook[l]}
        /\ overwritten' = overwritten \ hit
    BY DEF WsHandle
  <1>2. /\ Len(wsQueue) \in Nat /\ Len(wsQueue) > 0
        /\ m = wsQueue[1] /\ m \in FeedMessages
    BY <1>1 DEF FeedTypeOK
  <1>3. \/ m.kind = "snapshot" /\ m.book \in Books
        \/ m.kind = "delta" /\ m.level \in BookLevels /\ m.size \in 0 .. MaxSize
    BY <1>2, MessageFacts
  <1>4. new \in Books /\ \A l \in BookLevels :
          new[l] = IF Covers(m, l) THEN Told(m, l) ELSE localBook[l]
    BY <1>3 DEF ApplyDelta, ApplySnapshot, Books, Covers, Told, FeedTypeOK
  <1>5. hit = {l \in BookLevels : Covers(m, l)}
    BY <1>3 DEF Covers
  <1> HIDE DEF m, new, hit
  <1> QED
    BY <1>1, <1>2, <1>4, <1>5 DEF FeedTypeOK

\* Every step keeps the variables in their types.
LEMMA FeedTypeStep == FeedTypeOK /\ [FeedNext]_feedVars => FeedTypeOK'
  <1> SUFFICES ASSUME FeedTypeOK, [FeedNext]_feedVars
               PROVE  FeedTypeOK'
    OBVIOUS
  <1> USE DEF FeedTypeOK
  <1>1. ASSUME NEW l \in BookLevels, NEW n \in 0 .. MaxSize, BookChanges(l, n)
        PROVE  FeedTypeOK'
    <2>1. exchangeBook' \in Books
      BY <1>1 DEF BookChanges, Books
    <2>2. wsQueue' \in Seq(FeedMessages)
      BY <1>1, SentFacts DEF BookChanges
    <2> QED
      BY <1>1, <2>1, <2>2 DEF BookChanges
  <1>2. CASE WsConnect
    BY <1>2, SentFacts DEF WsConnect
  <1>3. CASE WsGoesSilent
    BY <1>3 DEF WsGoesSilent
  <1>4. CASE WsDrops
    BY <1>4 DEF WsDrops
  <1>5. CASE WsHandle
    <2>1. localBook' \in Books /\ passed' \subseteq BookLevels /\ overwritten' \subseteq BookLevels
      BY <1>5, HandleFacts
    <2>2. wsQueue' \in Seq(FeedMessages)
      BY <1>5 DEF WsHandle
    <2> QED
      BY <1>5, <2>1, <2>2 DEF WsHandle
  <1>6. CASE RestAnswers
    BY <1>6 DEF RestAnswers
  <1>7. CASE RestApplied
    BY <1>7 DEF RestApplied, ApplySnapshot
  <1>8. CASE RestFails
    BY <1>8 DEF RestFails
  <1>9. CASE UNCHANGED feedVars
    BY <1>9 DEF feedVars
  <1> QED
    BY <1>1, <1>2, <1>3, <1>4, <1>5, <1>6, <1>7, <1>8, <1>9 DEF FeedNext

\* The initial state satisfies the inductive invariant.
LEMMA FeedInitInv == FeedInit => FeedIInv
  <1> SUFFICES ASSUME FeedInit PROVE FeedIInv
    OBVIOUS
  <1>1. EmptyBook \in Books
    BY FeedAssumption DEF EmptyBook, Books
  <1>2. FeedTypeOK
    BY <1>1 DEF FeedInit, FeedTypeOK
  <1> QED
    BY <1>2 DEF FeedIInv, FeedInit

FeedRest == wsLink = "up" => LastWordIsRight /\ SettledLevels /\ RestIsRight

\* A change at the exchange is the last word about its level.
LEMMA ChangeKeeps ==
  ASSUME FeedTypeOK, FeedRest, NEW l \in BookLevels, NEW n \in 0 .. MaxSize, BookChanges(l, n)
  PROVE  FeedRest'
  <1> SUFFICES ASSUME wsLink = "up"
               PROVE  LastWordIsRight' /\ SettledLevels' /\ RestIsRight'
    BY DEF FeedRest, BookChanges
  <1>1. /\ Len(wsQueue) \in Nat /\ Len(wsQueue') = Len(wsQueue) + 1
        /\ \A i \in 1 .. Len(wsQueue) : wsQueue'[i] = wsQueue[i]
        /\ wsQueue'[Len(wsQueue) + 1] = Delta(l, n)
    BY DEF BookChanges, FeedTypeOK
  <1>2. /\ exchangeBook'[l] = n
        /\ \A k \in BookLevels \ {l} : exchangeBook'[k] = exchangeBook[k]
        /\ UNCHANGED <<wsLink, localBook, restBook, passed, overwritten>>
    BY DEF BookChanges, FeedTypeOK, Books
  <1>3. /\ \A k \in BookLevels : Covers(Delta(l, n), k) <=> k = l
        /\ Told(Delta(l, n), l) = n
    BY DEF Covers, Told, Delta
  <1>4. ASSUME NEW k \in BookLevels, Untold(k)'
        PROVE  k # l /\ Untold(k)
    BY <1>1, <1>3, <1>4 DEF Untold
  <1>5. LastWordIsRight'
    <2> SUFFICES ASSUME NEW k \in BookLevels, NEW i \in 1 .. Len(wsQueue'), Covers(wsQueue'[i], k),
                        \A j \in 1 .. Len(wsQueue') : i < j => ~Covers(wsQueue'[j], k)
                 PROVE  Told(wsQueue'[i], k) = exchangeBook'[k]
      BY DEF LastWordIsRight
    <2>1. CASE i = Len(wsQueue) + 1
      BY <2>1, <1>1, <1>2, <1>3
    <2>2. CASE i \in 1 .. Len(wsQueue)
      <3>1. k # l
        BY <2>2, <1>1, <1>3
      <3> QED
        BY <2>2, <3>1, <1>1, <1>2 DEF FeedRest, LastWordIsRight
    <2> QED
      BY <2>1, <2>2, <1>1
  <1>6. SettledLevels' /\ RestIsRight'
    BY <1>2, <1>4 DEF FeedRest, SettledLevels, RestIsRight
  <1> QED
    BY <1>5, <1>6

\* A new connection's snapshot is the last word about every level.
LEMMA ConnectKeeps == FeedTypeOK /\ WsConnect => FeedRest'
  <1> SUFFICES ASSUME FeedTypeOK, WsConnect
               PROVE  FeedRest'
    OBVIOUS
  <1>1. /\ Len(wsQueue') = 1 /\ wsQueue'[1] = Snapshot(exchangeBook)
        /\ exchangeBook' = exchangeBook
    BY DEF WsConnect
  <1>2. \A l \in BookLevels : /\ Covers(wsQueue'[1], l)
                              /\ Told(wsQueue'[1], l) = exchangeBook[l]
    BY <1>1 DEF Covers, Told, Snapshot
  <1>3. LastWordIsRight'
    BY <1>1, <1>2 DEF LastWordIsRight
  <1>4. \A l \in BookLevels : ~Untold(l)'
    BY <1>1, <1>2 DEF Untold
  <1> QED
    BY <1>3, <1>4 DEF FeedRest, SettledLevels, RestIsRight, FeedTypeOK

\* What is handled is the monitor's, and the rest stays under way.
LEMMA HandleKeeps ==
  ASSUME FeedTypeOK, FeedRest, WsHandle
  PROVE  FeedRest'
  <1> SUFFICES ASSUME wsLink = "up"
               PROVE  LastWordIsRight' /\ SettledLevels' /\ RestIsRight'
    BY DEF FeedRest, WsHandle
  <1>1. /\ Len(wsQueue) \in Nat /\ Len(wsQueue) > 0
        /\ Len(wsQueue') = Len(wsQueue) - 1
        /\ \A i \in 1 .. Len(wsQueue') : wsQueue'[i] = wsQueue[i + 1]
    BY DEF WsHandle, FeedTypeOK
  <1>2. UNCHANGED <<exchangeBook, wsLink, restBook>>
    BY DEF WsHandle
  <1>3. /\ \A l \in BookLevels :
             localBook'[l] = IF Covers(wsQueue[1], l) THEN Told(wsQueue[1], l) ELSE localBook[l]
        /\ \A l \in BookLevels :
             l \in overwritten' <=> l \in overwritten /\ ~Covers(wsQueue[1], l)
        /\ restBook # NoBook => \A l \in BookLevels :
             l \in passed' <=> IF Covers(wsQueue[1], l) THEN localBook'[l] # restBook[l]
                               ELSE l \in passed
    BY HandleFacts
  <1>4. LastWordIsRight'
    <2> SUFFICES ASSUME NEW k \in BookLevels, NEW i \in 1 .. Len(wsQueue'), Covers(wsQueue'[i], k),
                        \A j \in 1 .. Len(wsQueue') : i < j => ~Covers(wsQueue'[j], k)
                 PROVE  Told(wsQueue'[i], k) = exchangeBook'[k]
      BY DEF LastWordIsRight
    <2>1. /\ i + 1 \in 1 .. Len(wsQueue)
          /\ wsQueue'[i] = wsQueue[i + 1]
      BY <1>1
    <2>2. ASSUME NEW j \in 1 .. Len(wsQueue), i + 1 < j
          PROVE  ~Covers(wsQueue[j], k)
      <3>1. j - 1 \in 1 .. Len(wsQueue') /\ i < j - 1 /\ wsQueue'[j - 1] = wsQueue[j]
        BY <1>1, <2>2
      <3> QED
        BY <3>1
    <2> QED
      BY <2>1, <2>2, <1>2 DEF FeedRest, LastWordIsRight
  <1>5. ASSUME NEW k \in BookLevels, Untold(k)'
        PROVE  IF Covers(wsQueue[1], k) THEN Told(wsQueue[1], k) = exchangeBook[k] ELSE Untold(k)
    <2>1. ASSUME NEW j \in 1 .. Len(wsQueue), 1 < j
          PROVE  ~Covers(wsQueue[j], k)
      <3>1. j - 1 \in 1 .. Len(wsQueue') /\ wsQueue'[j - 1] = wsQueue[j]
        BY <1>1, <2>1
      <3> QED
        BY <3>1, <1>5 DEF Untold
    <2>2. CASE Covers(wsQueue[1], k)
      BY <2>1, <2>2, <1>1 DEF FeedRest, LastWordIsRight
    <2>3. CASE ~Covers(wsQueue[1], k)
      BY <2>1, <2>3, <1>1 DEF Untold
    <2> QED
      BY <2>2, <2>3
  <1>6. SettledLevels'
    BY <1>2, <1>3, <1>5 DEF FeedRest, SettledLevels
  <1>7. RestIsRight'
    BY <1>2, <1>3, <1>5 DEF FeedRest, RestIsRight
  <1> QED
    BY <1>4, <1>6, <1>7

\* Every step keeps the inductive invariant.
LEMMA FeedStep == FeedIInv /\ [FeedNext]_feedVars => FeedIInv'
  <1> SUFFICES ASSUME FeedIInv, [FeedNext]_feedVars
               PROVE  FeedIInv'
    OBVIOUS
  <1>t. FeedTypeOK /\ FeedTypeOK' /\ FeedRest
    BY FeedTypeStep DEF FeedIInv, FeedRest
  <1>r. SUFFICES FeedRest'
    BY <1>t DEF FeedIInv, FeedRest
  <1>1. ASSUME NEW l \in BookLevels, NEW n \in 0 .. MaxSize, BookChanges(l, n)
        PROVE  FeedRest'
    BY <1>1, <1>t, ChangeKeeps
  <1>2. CASE WsConnect
    BY <1>2, <1>t, ConnectKeeps
  <1>3. CASE WsGoesSilent \/ WsDrops
    BY <1>3 DEF WsGoesSilent, WsDrops, FeedRest
  <1>4. CASE WsHandle
    BY <1>4, <1>t, HandleKeeps
  <1>5. CASE RestAnswers
    <2>1. LastWordIsRight' = LastWordIsRight /\ SettledLevels' = SettledLevels
      BY <1>5 DEF RestAnswers, LastWordIsRight, SettledLevels, Untold
    <2>2. RestIsRight'
      BY <1>5 DEF RestAnswers, RestIsRight
    <2> QED
      BY <1>5, <1>t, <2>1, <2>2 DEF RestAnswers, FeedRest
  <1>6. CASE RestApplied
    <2>1. LastWordIsRight' = LastWordIsRight /\ \A l \in BookLevels : Untold(l)' = Untold(l)
      BY <1>6 DEF RestApplied, LastWordIsRight, Untold
    <2>2. RestIsRight'
      BY <1>6 DEF RestApplied, RestIsRight
    <2>3. wsLink = "up" => SettledLevels'
      BY <1>6, <1>t, <2>1 DEF RestApplied, ApplySnapshot, FeedRest, RestIsRight, SettledLevels
    <2> QED
      BY <1>6, <1>t, <2>1, <2>2, <2>3 DEF RestApplied, FeedRest
  <1>7. CASE RestFails
    <2>1. LastWordIsRight' = LastWordIsRight /\ SettledLevels' = SettledLevels
      BY <1>7 DEF RestFails, LastWordIsRight, SettledLevels, Untold
    <2>2. RestIsRight'
      BY <1>7 DEF RestFails, RestIsRight
    <2> QED
      BY <1>7, <1>t, <2>1, <2>2 DEF RestFails, FeedRest
  <1>8. CASE UNCHANGED feedVars
    BY <1>8, <1>t DEF feedVars, FeedRest, LastWordIsRight, SettledLevels, RestIsRight, Untold
  <1> QED
    BY <1>1, <1>2, <1>3, <1>4, <1>5, <1>6, <1>7, <1>8 DEF FeedNext

(* With the link up and the queue empty the monitor's book is the          *)
(* exchange's, but for the levels a REST answer has set back.              *)
THEOREM BookKeepsFollowing == FeedSpec => []BookFollowsExchange
  <1>1. FeedIInv => BookFollowsExchange
    <2> SUFFICES ASSUME FeedIInv, wsLink = "up", wsQueue = <<>>
                 PROVE  \A l \in BookLevels \ overwritten : localBook[l] = exchangeBook[l]
      BY DEF BookFollowsExchange
    <2>1. \A l \in BookLevels : Untold(l)
      BY DEF Untold
    <2> QED
      BY <2>1 DEF FeedIInv, SettledLevels
  <1> QED
    BY <1>1, FeedInitInv, FeedStep, PTL DEF FeedSpec

---------------------------------------------------------------------------
(* MarketScan: a scan that was not degraded lists live markets only.       *)

\* Of the markets in the scan every price is live.
LiveIsPriced == \A m \in live : \A s \in Sides : priceOf[m][s] >= 1

\* Only these are ranked and listed, and not before they are scored.
OnlyLiveIsRanked ==
  /\ live \subseteq SMarkets
  /\ \A i \in DOMAIN ranked : ranked[i] \in live
  /\ shortlist \subseteq live
  /\ scanAt \in {"idle", "priced"} => ranked = <<>>
  /\ scanAt \in {"idle", "priced", "scored", "read"} => shortlist = {}

\* The second half of UndegradedScanIsLive.
ShortlistIsFresh ==
  scanAt = "done" /\ ~degraded =>
    \A m \in shortlist : \A s \in Sides \ sideless[m] : priceOf[m][s] >= 2

\* The inductive invariant of a scan.
ScanIInv == ScanTypeOK /\ LiveIsPriced /\ OnlyLiveIsRanked /\ ShortlistIsFresh


\* A ranking ranks what it is of.
LEMMA RankingFacts ==
  ASSUME NEW S, NEW order \in Rankings(S)
  PROVE  /\ \A i \in DOMAIN order : order[i] \in S
         /\ \A n : TopOf(order, n) \subseteq S
  BY DEF Rankings, TopOf

\* A scan that has not begun has its variables in their types.
LEMMA StartFacts ==
  /\ FromSnapshot \in [SMarkets -> [Sides -> Round]]
  /\ [m \in SMarkets |-> NoAnswer] \in [SMarkets -> Answers]
  /\ [m \in SMarkets |-> {}] \in [SMarkets -> SUBSET Sides]
  <1>1. 0 \in Round /\ NoAnswer \in Answers
    BY DEF Round, Answers
  <1> QED
    BY <1>1 DEF FromSnapshot

\* The initial state satisfies the inductive invariant.
LEMMA ScanInitInv == ScanInit => ScanIInv
  <1> SUFFICES ASSUME ScanInit PROVE ScanIInv
    OBVIOUS
  <1>1. ScanTypeOK
    BY StartFacts DEF ScanInit, ScanTypeOK
  <1>2. LiveIsPriced /\ ShortlistIsFresh
    BY DEF ScanInit, LiveIsPriced, ShortlistIsFresh
  <1>3. OnlyLiveIsRanked
    BY DEF ScanInit, OnlyLiveIsRanked
  <1> QED
    BY <1>1, <1>2, <1>3 DEF ScanIInv

\* Every step keeps the inductive invariant.
LEMMA ScanStep == ScanIInv /\ [ScanNext]_scanVars => ScanIInv'
  <1> SUFFICES ASSUME ScanIInv, [ScanNext]_scanVars
               PROVE  ScanIInv'
    OBVIOUS
  <1> USE DEF ScanIInv
  <1>1. ASSUME NEW filtered \in SUBSET SMarkets, NEW whole \in SUBSET SMarkets,
               ScanPrices(filtered, whole)
        PROVE  ScanIInv'
    <2>1. ScanTypeOK'
      <3>1. priceOf' \in [SMarkets -> [Sides -> Round]]
        BY <1>1 DEF ScanPrices, Round
      <3>2. ranked' = <<>>
        BY <1>1 DEF ScanPrices, OnlyLiveIsRanked
      <3> QED
        BY <1>1, <3>1, <3>2 DEF ScanPrices, ScanTypeOK
    <2>2. LiveIsPriced'
      BY <1>1 DEF ScanPrices, LiveIsPriced
    <2>3. OnlyLiveIsRanked'
      BY <1>1 DEF ScanPrices, OnlyLiveIsRanked
    <2>4. ShortlistIsFresh'
      BY <1>1 DEF ScanPrices, OnlyLiveIsRanked, ShortlistIsFresh
    <2> QED
      BY <2>1, <2>2, <2>3, <2>4
  <1>2. ASSUME NEW order \in Rankings(live), ScanScores(order)
        PROVE  ScanIInv'
    <2>1. ScanTypeOK'
      BY <1>2 DEF ScanScores, ScanTypeOK
    <2>2. LiveIsPriced' /\ ShortlistIsFresh'
      BY <1>2 DEF ScanScores, LiveIsPriced, ShortlistIsFresh
    <2>3. OnlyLiveIsRanked'
      BY <1>2, RankingFacts DEF ScanScores, OnlyLiveIsRanked
    <2> QED
      BY <2>1, <2>2, <2>3
  <1>3. ASSUME NEW books \in [SMarkets -> Answers], ScanReads(books)
        PROVE  ScanIInv'
    <2>1. ScanTypeOK'
      <3>1. NoAnswer \in Answers
        BY DEF Answers
      <3>2. orderbookOf' \in [SMarkets -> Answers]
        BY <1>3, <3>1 DEF ScanReads
      <3> QED
        BY <1>3, <3>2 DEF ScanReads, ScanTypeOK
    <2>2. LiveIsPriced' /\ ShortlistIsFresh' /\ OnlyLiveIsRanked'
      BY <1>3 DEF ScanReads, LiveIsPriced, ShortlistIsFresh, OnlyLiveIsRanked
    <2> QED
      BY <2>1, <2>2
  <1>4. ASSUME NEW order \in Rankings(live), ScanEnriches(order)
        PROVE  ScanIInv'
    <2>1. TopOf(order, Larger(TradeTop, BookTop)) \subseteq live
      BY RankingFacts
    <2>2. priceOf' \in [SMarkets -> [Sides -> Round]] /\ LiveIsPriced'
      BY <1>4 DEF ScanEnriches, ScanTypeOK, LiveIsPriced, OnlyLiveIsRanked, Round
    <2>3. ScanTypeOK'
      BY <1>4, <2>1, <2>2 DEF ScanEnriches, ScanTypeOK, OnlyLiveIsRanked
    <2>4. OnlyLiveIsRanked'
      BY <1>4, <2>1, RankingFacts DEF ScanEnriches, OnlyLiveIsRanked
    <2>5. ShortlistIsFresh'
      BY <1>4 DEF ScanEnriches, ShortlistIsFresh
    <2> QED
      BY <2>2, <2>3, <2>4, <2>5
  <1>5. ASSUME NEW quotes \in [SMarkets -> Answers], NEW late \in BOOLEAN,
               NEW order \in Rankings(live), ScanRefreshes(quotes, late, order)
        PROVE  ScanIInv'
    <2>1. priceOf' \in [SMarkets -> [Sides -> Round]] /\ LiveIsPriced'
      BY <1>5 DEF ScanRefreshes, ScanTypeOK, LiveIsPriced, OnlyLiveIsRanked, Round
    <2>2. sideless' \in [SMarkets -> SUBSET Sides] /\ degraded' \in BOOLEAN
      BY <1>5 DEF ScanRefreshes, ScanTypeOK
    <2>3. ScanTypeOK'
      BY <1>5, <2>1, <2>2 DEF ScanRefreshes, ScanTypeOK
    <2>4. OnlyLiveIsRanked'
      BY <1>5, RankingFacts DEF ScanRefreshes, OnlyLiveIsRanked
    <2>5. ASSUME ~degraded', NEW m \in shortlist, NEW s \in Sides \ sideless'[m]
          PROVE  priceOf'[m][s] >= 2
      <3>1. m \in SMarkets /\ m \notin MissingQuotes(quotes)
        BY <1>5, <2>5 DEF ScanRefreshes, ScanTypeOK
      <3>2. \E a \in {quotes[m], orderbookOf[m]} : a # NoAnswer
        BY <3>1, <2>5 DEF MissingQuotes
      <3>3. \A a \in {quotes[m], orderbookOf[m]} : a # NoAnswer => s \in a
        BY <1>5, <2>5, <3>1 DEF ScanRefreshes
      <3>4. HasSide(quotes[m], s) \/ HasSide(orderbookOf[m], s)
        BY <3>2, <3>3 DEF HasSide
      <3>5. priceOf'[m][s] = IF HasSide(orderbookOf[m], s) THEN 2
                             ELSE IF HasSide(quotes[m], s) THEN 3 ELSE priceOf[m][s]
        BY <1>5, <2>5, <3>1 DEF ScanRefreshes
      <3> QED
        BY <3>4, <3>5
    <2>6. ShortlistIsFresh'
      BY <1>5, <2>5 DEF ScanRefreshes, ShortlistIsFresh
    <2> QED
      BY <2>1, <2>3, <2>4, <2>6
  <1>6. ASSUME NEW order \in Rankings(live), ScanRefreshFails(order)
        PROVE  ScanIInv'
    <2>1. ScanTypeOK' /\ LiveIsPriced' /\ ShortlistIsFresh'
      BY <1>6 DEF ScanRefreshFails, ScanTypeOK, LiveIsPriced, ShortlistIsFresh
    <2>2. OnlyLiveIsRanked'
      BY <1>6, RankingFacts DEF ScanRefreshFails, OnlyLiveIsRanked
    <2> QED
      BY <2>1, <2>2
  <1>7. CASE ScanDies
    <2>1. ScanTypeOK'
      BY <1>7, StartFacts DEF ScanDies, ScanTypeOK
    <2>2. LiveIsPriced' /\ ShortlistIsFresh' /\ OnlyLiveIsRanked'
      BY <1>7 DEF ScanDies, LiveIsPriced, ShortlistIsFresh, OnlyLiveIsRanked
    <2> QED
      BY <2>1, <2>2
  <1>8. CASE UNCHANGED scanVars
    BY <1>8 DEF scanVars, ScanTypeOK, LiveIsPriced, ShortlistIsFresh, OnlyLiveIsRanked
  <1> QED
    BY <1>1, <1>2, <1>3, <1>4, <1>5, <1>6, <1>7, <1>8 DEF ScanNext

(* A scan that does not say it is degraded ranks live prices, and its      *)
(* shortlist was priced by the last rounds.                                *)
THEOREM UndegradedScansStayLive == ScanSpec => []UndegradedScanIsLive
  <1>1. ScanIInv => UndegradedScanIsLive
    BY DEF ScanIInv, LiveIsPriced, OnlyLiveIsRanked, ShortlistIsFresh, UndegradedScanIsLive
  <1> QED
    BY <1>1, ScanInitInv, ScanStep, PTL DEF ScanSpec

---------------------------------------------------------------------------
(* MarketCatalog: a load that was answered has the whole board.            *)

\* The first n pages of the board, in order.
FirstPages(n) == [i \in 1 .. n |-> i]

\* A fetch that is not marred has the pages up to its cursor.
FetchedInOrder ==
  /\ fetchAt = "paging" /\ ~marred =>
       /\ fetched = FirstPages(PageAt - 1)
       /\ cursor = 0 => PageAt = 1
  /\ fetchAt = "paged" /\ ~marred => fetched = FirstPages(NPages)

\* So has a checkpoint that a resume may go on from.
CheckpointInOrder ==
  Readable(checkpoint) /\ ~checkpoint.marred /\ checkpoint.cursor # 0 =>
    checkpoint.markets = FirstPages(checkpoint.cursor - 1)

\* A file that is not marred lists the board.
OutputIsWhole ==
  Readable(output) /\ ~output.marred => output.markets = FirstPages(NPages)

(* A load that is not marred has written the first pages and has the       *)
(* others in hand, in order.                                               *)
LoadedInOrder ==
  loaderAt # "idle" /\ ~loaderMarred =>
    /\ Len(loading) <= NPages
    /\ \A i \in DOMAIN loading : loading[i] = NPages - Len(loading) + i
    /\ 1 .. NPages - Len(loading) \subseteq loadWritten
    /\ loaderAt = "done" => loading = <<>>

\* The inductive invariant of the board.
CatalogIInv ==
  /\ CatalogTypeOK
  /\ FetchedInOrder
  /\ CheckpointInOrder
  /\ OutputIsWhole
  /\ LoadedInOrder


\* Pages and batches are counted.
LEMMA CatalogBounds ==
  /\ NPages \in Nat /\ NPages >= 1 /\ BatchRows \in Nat /\ BatchRows >= 1
  /\ CheckpointPages \in Nat /\ CheckpointPages >= 1 /\ MaxFetched \in Nat
  BY CatalogAssumption

\* The first pages are a list, and one more makes the next.
LEMMA FirstPagesFacts ==
  ASSUME NEW n \in 0 .. NPages
  PROVE  /\ FirstPages(n) \in MarketLists /\ Len(FirstPages(n)) = n
         /\ n < NPages => Append(FirstPages(n), n + 1) = FirstPages(n + 1)
  <1>1. FirstPages(n) \in MarketLists /\ Len(FirstPages(n)) = n
    BY CatalogBounds DEF FirstPages, MarketLists, Pages
  <1>2. ASSUME n < NPages
        PROVE  Append(FirstPages(n), n + 1) = FirstPages(n + 1)
    <2>1. FirstPages(n + 1) \in Seq(Nat) /\ Len(FirstPages(n + 1)) = n + 1
      BY CatalogBounds DEF FirstPages
    <2>2. FirstPages(n) \in Seq(Nat) /\ Len(FirstPages(n)) = n
      BY CatalogBounds DEF FirstPages
    <2>3. Append(FirstPages(n), n + 1) \in Seq(Nat) /\ Len(Append(FirstPages(n), n + 1)) = n + 1
      BY <2>2
    <2>4. \A i \in 1 .. n + 1 : Append(FirstPages(n), n + 1)[i] = FirstPages(n + 1)[i]
      BY <2>2, AppendProperties DEF FirstPages
    <2> QED
      BY <2>1, <2>3, <2>4, SeqEqual
  <1> QED
    BY <1>1, <1>2

\* A page is the first one or the one the cursor says.
LEMMA CursorFacts ==
  ASSUME CatalogTypeOK
  PROVE  /\ PageAt \in 1 .. NPages
         /\ CursorAfter = IF PageAt = NPages THEN 0 ELSE PageAt + 1
         /\ CursorAfter \in 0 .. NPages
  BY CatalogBounds DEF CatalogTypeOK, PageAt, CursorAfter

\* A readable file has the shape of one.
LEMMA FileFacts ==
  ASSUME CatalogTypeOK
  PROVE  /\ Readable(checkpoint) =>
              checkpoint \in [markets : MarketLists, cursor : 0 .. NPages, page : Nat, marred : BOOLEAN]
         /\ Readable(output) => output \in [markets : MarketLists, marred : BOOLEAN]
  BY DEF CatalogTypeOK, Readable

\* The batch is the front of what is in hand, and the rest the back.
LEMMA BatchFacts ==
  ASSUME CatalogTypeOK, loading # <<>>
  PROVE  \E k \in 1 .. Len(loading) :
           /\ Batch = SubSeq(loading, 1, k) /\ Len(Batch) = k
           /\ Len(loading) \in Nat
           /\ DOMAIN Batch = 1 .. k /\ \A i \in 1 .. k : Batch[i] = loading[i]
           /\ SubSeq(loading, k + 1, Len(loading)) \in MarketLists
           /\ Len(SubSeq(loading, k + 1, Len(loading))) = Len(loading) - k
           /\ \A i \in 1 .. Len(loading) - k : SubSeq(loading, k + 1, Len(loading))[i] = loading[k + i]
           /\ Rows(Batch) \subseteq Pages
  <1> DEFINE k == IF Len(loading) < BatchRows THEN Len(loading) ELSE BatchRows
  <1>1. loading \in Seq(Pages) /\ Len(loading) \in Nat /\ Len(loading) >= 1
    BY DEF CatalogTypeOK, MarketLists
  <1>2. k \in 1 .. Len(loading)
    BY <1>1, CatalogBounds
  <1>3. Batch = SubSeq(loading, 1, k)
    BY DEF Batch
  <1> HIDE DEF k
  <1>4. /\ SubSeq(loading, 1, k) \in Seq(Pages) /\ Len(SubSeq(loading, 1, k)) = k
        /\ \A i \in 1 .. k : SubSeq(loading, 1, k)[i] = loading[i]
    BY <1>1, <1>2, SubSeqProperties
  <1>5. /\ SubSeq(loading, k + 1, Len(loading)) \in Seq(Pages)
        /\ Len(SubSeq(loading, k + 1, Len(loading))) = Len(loading) - k
        /\ \A i \in 1 .. Len(loading) - k : SubSeq(loading, k + 1, Len(loading))[i] = loading[k + i]
    BY <1>1, <1>2, SubSeqProperties
  <1>6. DOMAIN Batch = 1 .. k /\ Rows(Batch) \subseteq Pages
    BY <1>2, <1>3, <1>4 DEF Rows
  <1> QED
    BY <1>1, <1>2, <1>3, <1>4, <1>5, <1>6 DEF MarketLists

\* The initial state satisfies the inductive invariant.
LEMMA CatalogInitInv == CatalogInit => CatalogIInv
  <1> SUFFICES ASSUME CatalogInit PROVE CatalogIInv
    OBVIOUS
  <1>1. CatalogTypeOK
    <2>1. <<>> \in MarketLists /\ 0 \in 0 .. NPages /\ 0 \in Nat /\ {} \subseteq Pages
      BY EmptySeq, CatalogBounds DEF MarketLists
    <2>2. fetched \in MarketLists /\ loading \in MarketLists
      BY <2>1 DEF CatalogInit
    <2>3. cursor \in 0 .. NPages /\ pageNo \in Nat
      BY <2>1 DEF CatalogInit
    <2>4. marred \in BOOLEAN /\ loaderMarred \in BOOLEAN
      BY DEF CatalogInit
    <2>5. checkpoint = NoFile /\ output = NoFile
      BY DEF CatalogInit
    <2>6. fetchAt = "idle" /\ loaderAt = "idle" /\ loadWritten = {}
      BY DEF CatalogInit
    <2> QED
      BY <2>2, <2>3, <2>4, <2>5, <2>6 DEF CatalogTypeOK
  <1>2. ~Readable(checkpoint) /\ ~Readable(output)
    BY DEF CatalogInit, Readable
  <1> QED
    BY <1>1, <1>2 DEF CatalogIInv, CatalogInit, FetchedInOrder, CheckpointInOrder, OutputIsWhole,
                      LoadedInOrder

\* Every step keeps the variables in their types.
LEMMA CatalogTypeStep == CatalogTypeOK /\ [CatalogNext]_catalogVars => CatalogTypeOK'
  <1> SUFFICES ASSUME CatalogTypeOK, [CatalogNext]_catalogVars
               PROVE  CatalogTypeOK'
    OBVIOUS
  <1> USE CatalogBounds
  <1>1. CASE FetchFresh
    <2>1. <<>> \in MarketLists /\ 0 \in 0 .. NPages /\ 0 \in Nat
      BY EmptySeq DEF MarketLists
    <2>2. fetched' \in MarketLists /\ cursor' \in 0 .. NPages /\ pageNo' \in Nat
      BY <1>1, <2>1 DEF FetchFresh
    <2>3. marred' \in BOOLEAN
      BY <1>1 DEF FetchFresh
    <2> QED
      BY <1>1, <2>2, <2>3 DEF FetchFresh, CatalogTypeOK, loadVars
  <1>2. CASE FetchResume
    BY <1>2, FileFacts DEF FetchResume, CatalogTypeOK, loadVars
  <1>3. ASSUME NEW limitReached \in BOOLEAN, FetchPage(limitReached)
        PROVE  CatalogTypeOK'
    <2>1. fetched' \in MarketLists
      BY <1>3, CursorFacts DEF FetchPage, CatalogTypeOK, MarketLists, Pages
    <2>2. cursor' \in 0 .. NPages /\ pageNo' \in Nat /\ marred' \in BOOLEAN
      BY <1>3, CursorFacts DEF FetchPage, CatalogTypeOK
    <2>3. SaveCheckpoint(fetched', cursor', pageNo')
            \in [markets : MarketLists, cursor : 0 .. NPages, page : Nat, marred : BOOLEAN]
      BY <2>1, <2>2 DEF SaveCheckpoint, CatalogTypeOK
    <2> QED
      BY <1>3, <2>1, <2>2, <2>3 DEF FetchPage, CatalogTypeOK, loadVars
  <1>4. CASE FetchSaves
    BY <1>4 DEF FetchSaves, CatalogTypeOK, loadVars
  <1>5. CASE FetchDies
    BY <1>5 DEF FetchDies, CatalogTypeOK, loadVars
  <1>6. CASE EnrichOnly
    BY <1>6, FileFacts DEF EnrichOnly, CatalogTypeOK, fetchVars, loadVars
  <1>7. CASE LoadBegin
    BY <1>7, FileFacts DEF LoadBegin, CatalogTypeOK, fetchVars
  <1>8. ASSUME NEW answered \in BOOLEAN, LoadBatch(answered)
        PROVE  CatalogTypeOK'
    <2>1. PICK k \in 1 .. Len(loading) :
            /\ Len(Batch) = k /\ Rows(Batch) \subseteq Pages
            /\ SubSeq(loading, k + 1, Len(loading)) \in MarketLists
      BY <1>8, BatchFacts DEF LoadBatch
    <2>2. loading' \in MarketLists /\ loadWritten' \subseteq Pages /\ loaderMarred' \in BOOLEAN
      BY <1>8, <2>1 DEF LoadBatch, CatalogTypeOK
    <2> QED
      BY <1>8, <2>2 DEF LoadBatch, CatalogTypeOK, fetchVars
  <1>9. CASE LoadEnd
    BY <1>9 DEF LoadEnd, CatalogTypeOK, fetchVars
  <1>10. CASE UNCHANGED catalogVars
    BY <1>10 DEF catalogVars, fetchVars, loadVars, CatalogTypeOK
  <1> QED
    BY <1>1, <1>2, <1>3, <1>4, <1>5, <1>6, <1>7, <1>8, <1>9, <1>10 DEF CatalogNext

FilesInOrder == FetchedInOrder /\ CheckpointInOrder /\ OutputIsWhole

\* A page more, in order.
LEMMA PageKeeps ==
  ASSUME CatalogTypeOK, FilesInOrder, NEW limitReached \in BOOLEAN, FetchPage(limitReached)
  PROVE  FilesInOrder'
  <1>1. /\ PageAt \in 1 .. NPages
        /\ CursorAfter = IF PageAt = NPages THEN 0 ELSE PageAt + 1
        /\ fetched' = Append(fetched, PageAt) /\ cursor' = CursorAfter
        /\ NPages \in Nat /\ marred \in BOOLEAN
    BY CursorFacts, CatalogBounds DEF FetchPage, CatalogTypeOK
  <1>2. ~marred => fetched' = FirstPages(PageAt)
    <2>1. ~marred => fetched = FirstPages(PageAt - 1)
      BY DEF FetchPage, FilesInOrder, FetchedInOrder
    <2>2. PageAt - 1 \in 0 .. NPages /\ PageAt - 1 < NPages /\ PageAt - 1 + 1 = PageAt
      BY <1>1
    <2>3. Append(FirstPages(PageAt - 1), PageAt) = FirstPages(PageAt)
      BY <2>2, FirstPagesFacts
    <2> QED
      BY <2>1, <2>3, <1>1
  <1>3. CASE CursorAfter = 0
    <2>1. PageAt = NPages /\ fetchAt' = "paged" /\ marred' = marred
      BY <1>1, <1>3 DEF FetchPage
    <2>2. FetchedInOrder'
      BY <1>2, <2>1 DEF FetchedInOrder
    <2>3. CheckpointInOrder'
      BY <1>1, <1>3 DEF FetchPage, SaveCheckpoint, FilesInOrder, CheckpointInOrder, Readable
    <2> QED
      BY <2>2, <2>3 DEF FetchPage, FilesInOrder, OutputIsWhole, Readable
  <1>4. CASE CursorAfter # 0
    <2>1. /\ CursorAfter = PageAt + 1 /\ cursor' = PageAt + 1 /\ cursor' # 0
          /\ PageAt' = PageAt + 1
          /\ fetchAt' = IF limitReached THEN "paged" ELSE "paging"
          /\ marred' = (marred \/ limitReached)
      BY <1>1, <1>4 DEF FetchPage, PageAt
    <2>2. FetchedInOrder'
      BY <1>1, <1>2, <2>1 DEF FetchedInOrder
    <2>3. CheckpointInOrder'
      <3>1. CASE checkpoint' = SaveCheckpoint(fetched', cursor', pageNo')
        <4>1. /\ checkpoint'.marred = marred /\ checkpoint'.cursor = PageAt + 1
              /\ checkpoint'.markets = fetched'
          BY <2>1, <3>1 DEF SaveCheckpoint
        <4> QED
          BY <1>1, <1>2, <4>1 DEF CheckpointInOrder
      <3>2. CASE checkpoint' = checkpoint
        BY <3>2 DEF FilesInOrder, CheckpointInOrder, Readable
      <3> QED
        BY <3>1, <3>2 DEF FetchPage
    <2> QED
      BY <2>2, <2>3 DEF FetchPage, FilesInOrder, OutputIsWhole, Readable
  <1> QED
    BY <1>3, <1>4

\* The fetch keeps its files in order; the loader leaves them alone.
LEMMA FilesStep == CatalogTypeOK /\ FilesInOrder /\ [CatalogNext]_catalogVars => FilesInOrder'
  <1> SUFFICES ASSUME CatalogTypeOK, FilesInOrder, [CatalogNext]_catalogVars
               PROVE  FilesInOrder'
    OBVIOUS
  <1>1. CASE FetchFresh
    <2>1. fetched' = FirstPages(0) /\ PageAt' = 1 /\ fetchAt' = "paging"
      BY <1>1 DEF FetchFresh, FirstPages, PageAt
    <2> QED
      BY <1>1, <2>1 DEF FetchFresh, FilesInOrder, FetchedInOrder, CheckpointInOrder, OutputIsWhole,
                        Readable
  <1>2. CASE FetchResume
    <2>1. ASSUME ~marred'
          PROVE  fetched' = FirstPages(PageAt' - 1) /\ cursor' # 0
      <3>1. /\ ~checkpoint.marred /\ checkpoint.cursor # 0 /\ Readable(checkpoint)
            /\ fetched' = checkpoint.markets /\ cursor' = checkpoint.cursor
        BY <1>2, <2>1 DEF FetchResume
      <3> QED
        BY <3>1 DEF PageAt, FilesInOrder, CheckpointInOrder
    <2> QED
      BY <1>2, <2>1 DEF FetchResume, FilesInOrder, FetchedInOrder, CheckpointInOrder, OutputIsWhole,
                        Readable
  <1>3. ASSUME NEW limitReached \in BOOLEAN, FetchPage(limitReached)
        PROVE  FilesInOrder'
    BY <1>3, PageKeeps
  <1>4. CASE FetchSaves
    <2>1. output'.markets = fetched /\ output'.marred = marred /\ ~Readable(checkpoint')
      BY <1>4 DEF FetchSaves, Readable
    <2> QED
      BY <1>4, <2>1 DEF FetchSaves, FilesInOrder, FetchedInOrder, CheckpointInOrder, OutputIsWhole,
                        Readable
  <1>5. CASE FetchDies
    BY <1>5 DEF FetchDies, FilesInOrder, FetchedInOrder, CheckpointInOrder, OutputIsWhole, Readable
  <1>6. CASE EnrichOnly
    <2> DEFINE source == IF checkpoint # NoFile THEN checkpoint ELSE output
    <2>1. /\ Readable(source) /\ output'.markets = source.markets
          /\ output'.marred = (checkpoint # NoFile \/ source.marred)
          /\ ~Readable(checkpoint') /\ fetchAt' = "idle"
      BY <1>6 DEF EnrichOnly, Readable, fetchVars
    <2>2. ASSUME ~output'.marred
          PROVE  output'.markets = FirstPages(NPages)
      <3>1. source = output /\ ~output.marred
        BY <2>1, <2>2
      <3> QED
        BY <2>1, <3>1 DEF FilesInOrder, OutputIsWhole
    <2> QED
      BY <2>1, <2>2 DEF FilesInOrder, FetchedInOrder, CheckpointInOrder, OutputIsWhole, Readable
  <1>7. CASE LoadBegin \/ LoadEnd \/ \E answered \in BOOLEAN : LoadBatch(answered)
    BY <1>7 DEF LoadBegin, LoadEnd, LoadBatch, fetchVars, FilesInOrder, FetchedInOrder,
                CheckpointInOrder, OutputIsWhole, Readable, PageAt
  <1>8. CASE UNCHANGED catalogVars
    BY <1>8 DEF catalogVars, fetchVars, FilesInOrder, FetchedInOrder, CheckpointInOrder,
                OutputIsWhole, Readable, PageAt
  <1> QED
    BY <1>1, <1>2, <1>3, <1>4, <1>5, <1>6, <1>7, <1>8 DEF CatalogNext

\* A batch of the board in order is not refused, and leaves the rest in order.
LEMMA BatchKeeps ==
  ASSUME CatalogTypeOK, LoadedInOrder, NEW answered \in BOOLEAN, LoadBatch(answered)
  PROVE  LoadedInOrder'
  <1> SUFFICES ASSUME ~loaderMarred'
               PROVE  /\ Len(loading') <= NPages
                      /\ \A i \in DOMAIN loading' : loading'[i] = NPages - Len(loading') + i
                      /\ 1 .. NPages - Len(loading') \subseteq loadWritten'
    BY DEF LoadedInOrder, LoadBatch
  <1>1. PICK k \in 1 .. Len(loading) :
          /\ Len(Batch) = k /\ Len(loading) \in Nat
          /\ DOMAIN Batch = 1 .. k /\ \A i \in 1 .. k : Batch[i] = loading[i]
          /\ SubSeq(loading, k + 1, Len(loading)) \in MarketLists
          /\ Len(SubSeq(loading, k + 1, Len(loading))) = Len(loading) - k
          /\ \A i \in 1 .. Len(loading) - k : SubSeq(loading, k + 1, Len(loading))[i] = loading[k + i]
    BY BatchFacts DEF LoadBatch
  <1>2. /\ answered /\ ~loaderMarred /\ NPages \in Nat
        /\ Len(loading) <= NPages
        /\ \A i \in 1 .. Len(loading) : loading[i] = NPages - Len(loading) + i
        /\ 1 .. NPages - Len(loading) \subseteq loadWritten
    <2>1. DOMAIN loading = 1 .. Len(loading)
      BY DEF CatalogTypeOK, MarketLists
    <2> QED
      BY <2>1, CatalogBounds DEF LoadBatch, LoadedInOrder, CatalogTypeOK
  <1> DEFINE from == NPages - Len(loading)
  <1>a. /\ from \in Nat /\ k \in Nat /\ k >= 1
        /\ \A i \in 1 .. Len(loading) : loading[i] = from + i
    BY <1>1, <1>2
  <1> HIDE DEF from
  <1>3. Rows(Batch) = from + 1 .. from + k
    <2>1. \A i \in 1 .. k : Batch[i] = from + i
      BY <1>1, <1>a
    <2>2. ASSUME NEW p \in from + 1 .. from + k
          PROVE  p - from \in 1 .. k /\ Batch[p - from] = p
      BY <2>1, <2>2, <1>a
    <2>3. Rows(Batch) = {Batch[i] : i \in 1 .. k}
      BY <1>1 DEF Rows
    <2>4. \A i \in 1 .. k : Batch[i] \in from + 1 .. from + k
      BY <2>1, <1>a
    <2>5. from + 1 .. from + k \subseteq {Batch[i] : i \in 1 .. k}
      <3> SUFFICES ASSUME NEW p \in from + 1 .. from + k
                   PROVE  \E i \in 1 .. k : p = Batch[i]
        OBVIOUS
      <3> QED
        BY <2>2
    <2> QED
      BY <2>3, <2>4, <2>5, Zenon
  <1>4. Cardinality(Rows(Batch)) = Len(Batch)
    <2>1. from + 1 \in Int /\ from + k \in Int
      BY <1>a
    <2>2. Cardinality((from + 1) .. (from + k))
            = IF from + 1 > from + k THEN 0 ELSE (from + k) - (from + 1) + 1
      BY <2>1, FS_Interval, Zenon
    <2>3. ~(from + 1 > from + k) /\ (from + k) - (from + 1) + 1 = k
      BY <1>a
    <2> QED
      BY <1>1, <1>3, <2>2, <2>3
  <1>5. loadWritten' = loadWritten \cup Rows(Batch) /\ loading' = SubSeq(loading, k + 1, Len(loading))
    BY <1>1, <1>2, <1>4 DEF LoadBatch
  <1>6. Len(loading') = Len(loading) - k /\ DOMAIN loading' = 1 .. Len(loading) - k
    BY <1>1, <1>5 DEF MarketLists
  <1>7. \A i \in DOMAIN loading' : loading'[i] = NPages - Len(loading') + i
    BY <1>1, <1>2, <1>5, <1>6
  <1>8. 1 .. NPages - Len(loading') \subseteq loadWritten'
    <2>1. NPages - Len(loading') = from + k /\ 1 .. from \subseteq loadWritten
      BY <1>1, <1>2, <1>6 DEF from
    <2>2. 1 .. from + k = (1 .. from) \cup (from + 1 .. from + k)
      BY <1>a
    <2> QED
      BY <2>1, <2>2, <1>3, <1>5
  <1> QED
    BY <1>1, <1>2, <1>6, <1>7, <1>8

\* Every step keeps the inductive invariant.
LEMMA CatalogStep == CatalogIInv /\ [CatalogNext]_catalogVars => CatalogIInv'
  <1> SUFFICES ASSUME CatalogIInv, [CatalogNext]_catalogVars
               PROVE  CatalogIInv'
    OBVIOUS
  <1>1. CatalogTypeOK /\ CatalogTypeOK' /\ FilesInOrder /\ FilesInOrder'
    BY CatalogTypeStep, FilesStep DEF CatalogIInv, FilesInOrder
  <1>2. CASE LoadBegin
    <2>1. ASSUME ~loaderMarred'
          PROVE  loading' = FirstPages(NPages)
      BY <1>2, <1>1, <2>1 DEF LoadBegin, FilesInOrder, OutputIsWhole
    <2>2. ASSUME ~loaderMarred'
          PROVE  /\ Len(loading') = NPages /\ NPages \in Nat
                 /\ \A i \in DOMAIN loading' : loading'[i] = i /\ i \in 1 .. NPages
      BY <2>1, <2>2, FirstPagesFacts, CatalogBounds DEF FirstPages
    <2>3. LoadedInOrder'
      BY <1>2, <2>2 DEF LoadBegin, LoadedInOrder
    <2> QED
      BY <1>1, <2>3 DEF CatalogIInv, FilesInOrder
  <1>3. ASSUME NEW answered \in BOOLEAN, LoadBatch(answered)
        PROVE  CatalogIInv'
    <2>1. LoadedInOrder'
      BY <1>1, <1>3, BatchKeeps DEF CatalogIInv
    <2> QED
      BY <1>1, <2>1 DEF CatalogIInv, FilesInOrder
  <1>4. CASE LoadEnd
    <2>1. LoadedInOrder'
      BY <1>4 DEF CatalogIInv, LoadEnd, LoadedInOrder
    <2> QED
      BY <1>1, <2>1 DEF CatalogIInv, FilesInOrder
  <1>5. CASE UNCHANGED loadVars
    <2>1. LoadedInOrder'
      BY <1>5 DEF CatalogIInv, loadVars, LoadedInOrder
    <2> QED
      BY <1>1, <2>1 DEF CatalogIInv, FilesInOrder
  <1> QED
    BY <1>2, <1>3, <1>4, <1>5
    DEF CatalogNext, catalogVars, FetchFresh, FetchResume, FetchPage, FetchSaves, FetchDies, EnrichOnly

(* A load whose requests were all answered, of a file that is not marred,  *)
(* has written every page of the board.                                    *)
THEOREM WholeBoardsAreLoaded == CatalogSpec => []WholeBoardIsLoaded
  <1>1. CatalogIInv => WholeBoardIsLoaded
    <2> SUFFICES ASSUME CatalogIInv, loaderAt = "done", ~loaderMarred
                 PROVE  loadWritten = Pages
      BY DEF WholeBoardIsLoaded
    <2>1. loading = <<>> /\ 1 .. NPages - Len(loading) \subseteq loadWritten
      BY DEF CatalogIInv, LoadedInOrder
    <2>2. loadWritten \subseteq Pages
      BY DEF CatalogIInv, CatalogTypeOK
    <2>3. NPages - Len(loading) = NPages
      BY <2>1, EmptySeq, CatalogBounds
    <2> QED
      BY <2>1, <2>2, <2>3 DEF Pages
  <1> QED
    BY <1>1, CatalogInitInv, CatalogStep, PTL DEF CatalogSpec

---------------------------------------------------------------------------
(* MentionsArchive: what refresh_log says was refreshed is archived.       *)

\* Between its two commits a refresher's answer is archived.
StoredIsArchived ==
  \A r \in Refreshers : refresherAt[r] = "stored" =>
    \A d \in Docs : transcripts[d] >= answer[r][d] \/ Expired(d)

\* The inductive invariant of the archive.
ArchiveIInv == ArchiveTypeOK /\ StoredIsArchived /\ RefreshedIsArchived

\* The constants are numbers, and no texts are texts.
LEMMA ArchiveBounds ==
  /\ MaxToday \in Nat /\ MaxToday >= 1 /\ MaxText \in Nat
  /\ Retention \in Nat /\ FeedTtl \in Nat
  /\ EventDay \in [Docs -> Nat]
  /\ NoTexts \in Texts
  BY ArchiveAssumption DEF NoTexts, Texts

\* The initial state satisfies the inductive invariant.
LEMMA ArchiveInitInv == ArchiveInit => ArchiveIInv
  <1> SUFFICES ASSUME ArchiveInit PROVE ArchiveIInv
    OBVIOUS
  <1> USE ArchiveBounds DEF ArchiveInit
  <1>1. (CHOOSE f \in Feeds : TRUE) \in Feeds
    BY ArchiveAssumption
  <1>2. ArchiveTypeOK
    BY <1>1 DEF ArchiveTypeOK, RefreshStep
  <1>3. StoredIsArchived /\ RefreshedIsArchived
    BY DEF StoredIsArchived, RefreshedIsArchived
  <1> QED
    BY <1>2, <1>3 DEF ArchiveIInv

\* The longer text stays.
LEMMA UpsertFacts ==
  ASSUME ArchiveTypeOK, NEW records \in Texts
  PROVE  /\ UpsertTranscripts(records) \in Texts
         /\ \A d \in Docs : /\ UpsertTranscripts(records)[d] >= records[d]
                            /\ UpsertTranscripts(records)[d] >= transcripts[d]
  <1> USE ArchiveBounds
  <1> SUFFICES ASSUME NEW d \in Docs
               PROVE /\ UpsertTranscripts(records)[d] \in 0 .. MaxText
                     /\ UpsertTranscripts(records)[d] >= records[d]
                     /\ UpsertTranscripts(records)[d] >= transcripts[d]
    BY DEF UpsertTranscripts, Texts
  <1>1. records[d] \in 0 .. MaxText /\ transcripts[d] \in 0 .. MaxText
    BY DEF ArchiveTypeOK, Texts
  <1>2. CASE records[d] > transcripts[d]
    BY <1>1, <1>2 DEF UpsertTranscripts
  <1>3. CASE ~(records[d] > transcripts[d])
    BY <1>1, <1>3 DEF UpsertTranscripts
  <1> QED
    BY <1>2, <1>3

\* Every step preserves the types.
LEMMA ArchiveTypeStep == ArchiveTypeOK /\ [ArchiveNext]_archiveVars => ArchiveTypeOK'
  <1> SUFFICES ASSUME ArchiveTypeOK, [ArchiveNext]_archiveVars PROVE ArchiveTypeOK'
    OBVIOUS
  <1> USE ArchiveBounds DEF RefreshStep, runVars
  <1>1. CASE DayPasses
    BY <1>1 DEF DayPasses, ArchiveTypeOK
  <1>2. ASSUME NEW r \in Refreshers, NEW stale \in BOOLEAN, RefreshBegin(r, stale)
        PROVE ArchiveTypeOK'
    BY <1>2 DEF RefreshBegin, ArchiveTypeOK
  <1>3. ASSUME NEW r \in Refreshers, NEW f \in Feeds, RefreshNextFeed(r, f) PROVE ArchiveTypeOK'
    <2>1. feedsLeft' \in [Refreshers -> SUBSET Feeds]
      BY <1>3 DEF RefreshNextFeed, ArchiveTypeOK
    <2>2. CASE onlyStale[r] /\ ~IsStale(f)
      BY <1>3, <2>1, <2>2 DEF RefreshNextFeed, ArchiveTypeOK
    <2>3. CASE ~(onlyStale[r] /\ ~IsStale(f))
      BY <1>3, <2>1, <2>3 DEF RefreshNextFeed, ArchiveTypeOK
    <2> QED
      BY <2>2, <2>3
  <1>4. ASSUME NEW r \in Refreshers, NEW listing \in Texts, FeedAnswers(r, listing)
        PROVE ArchiveTypeOK'
    BY <1>4 DEF FeedAnswers, ArchiveTypeOK
  <1>5. ASSUME NEW r \in Refreshers, FeedRaises(r) PROVE ArchiveTypeOK'
    BY <1>5 DEF FeedRaises, ArchiveTypeOK
  <1>6. ASSUME NEW r \in Refreshers, RefreshStores(r) PROVE ArchiveTypeOK'
    <2>1. transcripts' \in Texts
      BY <1>6, UpsertFacts DEF RefreshStores, ArchiveTypeOK
    <2> QED
      BY <1>6, <2>1 DEF RefreshStores, ArchiveTypeOK
  <1>7. ASSUME NEW r \in Refreshers, RefreshMarks(r) PROVE ArchiveTypeOK'
    BY <1>7 DEF RefreshMarks, ArchiveTypeOK
  <1>8. ASSUME NEW r \in Refreshers, RefreshPrunes(r) PROVE ArchiveTypeOK'
    <2>1. transcripts' \in Texts
      BY <1>8 DEF RefreshPrunes, ArchiveTypeOK, Texts
    <2> QED
      BY <1>8, <2>1 DEF RefreshPrunes, ArchiveTypeOK
  <1>9. ASSUME NEW r \in Refreshers, RefreshDies(r) PROVE ArchiveTypeOK'
    BY <1>9 DEF RefreshDies, ArchiveTypeOK
  <1>10. CASE UNCHANGED archiveVars
    BY <1>10 DEF archiveVars, ArchiveTypeOK
  <1> QED
    BY <1>1, <1>2, <1>3, <1>4, <1>5, <1>6, <1>7, <1>8, <1>9, <1>10 DEF ArchiveNext

(* A step that leaves the texts, or lets them grow, and moves one          *)
(* refresher to another step than "stored".                                *)
LEMMA QuietStep ==
  ASSUME ArchiveIInv, NEW r \in Refreshers, NEW step \in RefreshStep \ {"stored"},
         UNCHANGED <<today, transcripts, refreshLog, logged>>,
         refresherAt' = [refresherAt EXCEPT ![r] = step],
         \A o \in Refreshers \ {r} : answer'[o] = answer[o]
  PROVE  StoredIsArchived' /\ RefreshedIsArchived'
  <1>1. \A o \in Refreshers : refresherAt'[o] = "stored" =>
          o # r /\ refresherAt[o] = "stored" /\ answer'[o] = answer[o]
    BY DEF ArchiveIInv, ArchiveTypeOK
  <1> QED
    BY <1>1 DEF ArchiveIInv, StoredIsArchived, RefreshedIsArchived, Expired

\* Every step preserves the inductive invariant.
LEMMA ArchiveStep == ArchiveIInv /\ [ArchiveNext]_archiveVars => ArchiveIInv'
  <1> SUFFICES ASSUME ArchiveIInv, [ArchiveNext]_archiveVars
               PROVE StoredIsArchived' /\ RefreshedIsArchived'
    BY ArchiveTypeStep DEF ArchiveIInv
  <1> USE ArchiveBounds DEF RefreshStep, runVars
  <1>0. ArchiveTypeOK /\ StoredIsArchived /\ RefreshedIsArchived
    BY DEF ArchiveIInv
  <1>1. CASE DayPasses
    <2>1. \A d \in Docs : Expired(d) => Expired(d)'
      BY <1>0, <1>1 DEF DayPasses, Expired, ArchiveTypeOK
    <2> QED
      BY <1>0, <1>1, <2>1 DEF DayPasses, StoredIsArchived, RefreshedIsArchived
  <1>2. ASSUME NEW r \in Refreshers, NEW stale \in BOOLEAN, RefreshBegin(r, stale)
        PROVE StoredIsArchived' /\ RefreshedIsArchived'
    BY <1>2, QuietStep DEF RefreshBegin
  <1>3. ASSUME NEW r \in Refreshers, NEW f \in Feeds, RefreshNextFeed(r, f)
        PROVE StoredIsArchived' /\ RefreshedIsArchived'
    <2>1. CASE onlyStale[r] /\ ~IsStale(f)
      BY <1>0, <1>3, <2>1 DEF RefreshNextFeed, StoredIsArchived, RefreshedIsArchived, Expired
    <2>2. CASE ~(onlyStale[r] /\ ~IsStale(f))
      BY <1>3, <2>2, QuietStep DEF RefreshNextFeed
    <2> QED
      BY <2>1, <2>2
  <1>4. ASSUME NEW r \in Refreshers, NEW listing \in Texts, FeedAnswers(r, listing)
        PROVE StoredIsArchived' /\ RefreshedIsArchived'
    <2>1. \A o \in Refreshers \ {r} : answer'[o] = answer[o]
      BY <1>0, <1>4 DEF FeedAnswers, ArchiveTypeOK
    <2> QED
      BY <1>4, <2>1, QuietStep DEF FeedAnswers
  <1>5. ASSUME NEW r \in Refreshers, FeedRaises(r)
        PROVE StoredIsArchived' /\ RefreshedIsArchived'
    BY <1>5, QuietStep DEF FeedRaises
  <1>6. ASSUME NEW r \in Refreshers, RefreshStores(r)
        PROVE StoredIsArchived' /\ RefreshedIsArchived'
    <2>1. \A d \in Docs : /\ transcripts'[d] >= answer[r][d]
                          /\ transcripts'[d] >= transcripts[d]
                          /\ transcripts'[d] \in Nat /\ transcripts[d] \in Nat
      BY <1>0, <1>6, UpsertFacts, ArchiveTypeStep DEF RefreshStores, ArchiveTypeOK, Texts
    <2>2. \A o \in Refreshers, d \in Docs : answer[o][d] \in Nat
      BY <1>0 DEF ArchiveTypeOK, Texts
    <2>3. \A f \in Feeds, d \in Docs : logged[f][d] \in Nat
      BY <1>0 DEF ArchiveTypeOK, Texts
    <2>4. StoredIsArchived'
      <3> SUFFICES ASSUME NEW o \in Refreshers, refresherAt'[o] = "stored", NEW d \in Docs
                   PROVE transcripts'[d] >= answer[o][d] \/ Expired(d)
        BY <1>6 DEF RefreshStores, StoredIsArchived, Expired
      <3>1. CASE o = r
        BY <2>1, <3>1
      <3>2. CASE o # r
        <4>1. refresherAt[o] = "stored"
          BY <1>0, <1>6, <3>2 DEF RefreshStores, ArchiveTypeOK
        <4>2. transcripts[d] >= answer[o][d] \/ Expired(d)
          BY <1>0, <4>1 DEF StoredIsArchived
        <4> QED
          BY <2>1, <2>2, <4>2
      <3> QED
        BY <3>1, <3>2
    <2>5. RefreshedIsArchived'
      <3> SUFFICES ASSUME NEW f \in Feeds, refreshLog[f] # 0, NEW d \in Docs
                   PROVE transcripts'[d] >= logged[f][d] \/ Expired(d)
        BY <1>6 DEF RefreshStores, RefreshedIsArchived, Expired
      <3>1. transcripts[d] >= logged[f][d] \/ Expired(d)
        BY <1>0 DEF RefreshedIsArchived
      <3> QED
        BY <2>1, <2>3, <3>1
    <2> QED
      BY <2>4, <2>5
  <1>7. ASSUME NEW r \in Refreshers, RefreshMarks(r)
        PROVE StoredIsArchived' /\ RefreshedIsArchived'
    <2>1. /\ \A o \in Refreshers : refresherAt'[o] = "stored" =>
               refresherAt[o] = "stored" /\ answer'[o] = answer[o]
          /\ logged'[asked[r]] = answer[r]
          /\ \A f \in Feeds : f # asked[r] =>
               refreshLog'[f] = refreshLog[f] /\ logged'[f] = logged[f]
      BY <1>0, <1>7 DEF RefreshMarks, ArchiveTypeOK
    <2>2. UNCHANGED <<today, transcripts>> /\ refresherAt[r] = "stored"
      BY <1>7 DEF RefreshMarks
    <2>3. StoredIsArchived'
      BY <1>0, <2>1, <2>2 DEF StoredIsArchived, Expired
    <2>4. RefreshedIsArchived'
      BY <1>0, <2>1, <2>2 DEF StoredIsArchived, RefreshedIsArchived, Expired
    <2> QED
      BY <2>3, <2>4
  <1>8. ASSUME NEW r \in Refreshers, RefreshPrunes(r)
        PROVE StoredIsArchived' /\ RefreshedIsArchived'
    <2>1. \A d \in Docs : Expired(d) \/ transcripts'[d] = transcripts[d]
      BY <1>8 DEF RefreshPrunes
    <2>2. \A o \in Refreshers : refresherAt'[o] = "stored" => refresherAt[o] = "stored"
      BY <1>0, <1>8 DEF RefreshPrunes, ArchiveTypeOK
    <2> QED
      BY <1>0, <1>8, <2>1, <2>2 DEF RefreshPrunes, StoredIsArchived, RefreshedIsArchived, Expired
  <1>9. ASSUME NEW r \in Refreshers, RefreshDies(r)
        PROVE StoredIsArchived' /\ RefreshedIsArchived'
    <2>1. \A o \in Refreshers \ {r} : answer'[o] = answer[o]
      BY <1>0, <1>9 DEF RefreshDies, ArchiveTypeOK
    <2> QED
      BY <1>9, <2>1, QuietStep DEF RefreshDies
  <1>10. CASE UNCHANGED archiveVars
    BY <1>0, <1>10 DEF archiveVars, StoredIsArchived, RefreshedIsArchived, Expired
  <1> QED
    BY <1>1, <1>2, <1>3, <1>4, <1>5, <1>6, <1>7, <1>8, <1>9, <1>10 DEF ArchiveNext

(* However refreshes overlap, die between their commits or list less than  *)
(* before, what refresh_log stands for is archived, unless it is past      *)
(* retention.                                                              *)
THEOREM RefreshesAreArchived == ArchiveSpec => []RefreshedIsArchived
  <1>1. ArchiveIInv => RefreshedIsArchived
    BY DEF ArchiveIInv
  <1> QED
    BY <1>1, ArchiveInitInv, ArchiveStep, PTL DEF ArchiveSpec

---------------------------------------------------------------------------
(* WeatherSignals: the estimates of an event agree with the day, with one  *)
(* another and with what is known.                                         *)

\* The members that satisfy a strike.
HitBy(scan, strike) ==
  {i \in DOMAIN scan.members :
     IF metric = "precipitation" THEN Wetter(strike, MembersOf(scan)[i])
     ELSE Meets(strike, Settlement(MembersOf(scan)[i]))}

\* Counting the members is counting their indices.
LEMMA SatisfyingIsHits ==
  ASSUME NEW scan, NEW strike
  PROVE  Satisfying(scan, strike) = Cardinality(HitBy(scan, strike))
  <1>1. DOMAIN MembersOf(scan) = DOMAIN scan.members
    BY DEF MembersOf
  <1>2. CASE metric = "precipitation"
    BY <1>1, <1>2 DEF Satisfying, CountIn, HitBy
  <1>3. CASE metric # "precipitation"
    BY <1>1, <1>3 DEF Satisfying, CountIn, HitBy
  <1> QED
    BY <1>2, <1>3

\* The bounded share of k in n, in thousandths.
ShareOf(k, n) == BoundedProb((k * 1000) \div n)

\* All of n is the upper bound, none of it the lower.
LEMMA WholeShare ==
  ASSUME NEW n \in Nat, n # 0
  PROVE  ShareOf(n, n) = 990 /\ ShareOf(0, n) = 10
  <1>1. (n * 1000) \div n = 1000
    OBVIOUS
  <1>2. (0 * 1000) \div n = 0
    OBVIOUS
  <1>3. BoundedProb(1000) = 990 /\ BoundedProb(0) = 10
    BY DEF BoundedProb, Clamped, MostOf, LeastOf
  <1> QED
    BY <1>1, <1>2, <1>3 DEF ShareOf

\* More of n is no smaller a share of it.
LEMMA ShareRises ==
  ASSUME NEW a \in Nat, NEW b \in Nat, NEW n \in Nat, n # 0, a <= b
  PROVE  /\ ShareOf(a, n) \in Int
         /\ ShareOf(a, n) <= ShareOf(b, n)
  <1> DEFINE x == (a * 1000) \div n
             y == (b * 1000) \div n
  <1>1. a * 1000 \in Int /\ b * 1000 \in Int /\ a * 1000 <= b * 1000
    OBVIOUS
  <1>2. x \in Int /\ y \in Int /\ x <= y
    BY <1>1, DivMonotone
  <1> HIDE DEF x, y
  <1>3. BoundedProb(x) \in Int /\ BoundedProb(x) <= BoundedProb(y)
    BY <1>2 DEF BoundedProb, Clamped, MostOf, LeastOf
  <1> QED
    BY <1>3 DEF x, y, ShareOf

\* The table of the normal distribution rises.
LEMMA UpperPhiRises ==
  /\ \A i \in 1 .. 12 : UpperPhi[i] \in Int /\ 500 < UpperPhi[i] /\ UpperPhi[i] < 1000
  /\ \A i, j \in 1 .. 12 : i <= j => UpperPhi[i] <= UpperPhi[j]
  BY DEF UpperPhi

\* Between the bounds, by the sign.
LEMMA PhiBySign ==
  ASSUME NEW q \in Int
  PROVE  /\ q >= 12 => Phi(q) = UpperPhi[12]
         /\ q \in 1 .. 12 => Phi(q) = UpperPhi[q]
         /\ q = 0 => Phi(q) = 500
         /\ q \in -12 .. -1 => Phi(q) = 1000 - UpperPhi[-q]
         /\ q < -12 => Phi(q) = 1000 - UpperPhi[12]
  <1>1. Clamped(-12, q, 12) = IF q < -12 THEN -12 ELSE IF q > 12 THEN 12 ELSE q
    BY DEF Clamped, MostOf, LeastOf
  <1>2. CASE q >= 12
    <2>1. Clamped(-12, q, 12) = 12
      BY <1>1, <1>2
    <2> QED
      BY <1>2, <2>1 DEF Phi
  <1>3. CASE q < -12
    <2> DEFINE c == Clamped(-12, q, 12)
    <2>1. c \in Int /\ c < 0 /\ -c = 12
      BY <1>1, <1>3
    <2>2. Phi(q) = CASE c = 0 -> 500 [] c > 0 -> UpperPhi[c] [] c < 0 -> 1000 - UpperPhi[-c]
      BY DEF Phi
    <2> HIDE DEF c
    <2> QED
      BY <1>3, <2>1, <2>2
  <1>4. CASE q \in -12 .. 12
    <2>1. Clamped(-12, q, 12) = q
      BY <1>1, <1>4
    <2> QED
      BY <1>2, <1>3, <1>4, <2>1 DEF Phi
  <1> QED
    BY <1>2, <1>3, <1>4

\* The distribution is one half at the middle only.
LEMMA PhiSides ==
  ASSUME NEW q \in Int
  PROVE  /\ Phi(q) \in Int /\ 0 <= Phi(q) /\ Phi(q) <= 1000
         /\ q > 0 => Phi(q) > 500
         /\ q = 0 => Phi(q) = 500
         /\ q < 0 => Phi(q) < 500
  <1>1. UpperPhi[12] \in Int /\ 500 < UpperPhi[12] /\ UpperPhi[12] < 1000
    BY UpperPhiRises
  <1>2. CASE q > 12 \/ q = 0
    BY <1>1, <1>2, PhiBySign
  <1>5. CASE q < -12
    <2>1. Phi(q) = 1000 - UpperPhi[12]
      BY <1>5, PhiBySign
    <2> QED
      BY <1>1, <1>5, <2>1
  <1>3. CASE q \in 1 .. 12
    <2>1. UpperPhi[q] \in Int /\ 500 < UpperPhi[q] /\ UpperPhi[q] < 1000
      BY <1>3, UpperPhiRises
    <2> QED
      BY <1>3, <2>1, PhiBySign
  <1>4. CASE q \in -12 .. -1
    <2>1. -q \in 1 .. 12
      BY <1>4
    <2>2. UpperPhi[-q] \in Int /\ 500 < UpperPhi[-q] /\ UpperPhi[-q] < 1000
      BY <2>1, UpperPhiRises
    <2>3. Phi(q) = 1000 - UpperPhi[-q]
      BY <1>4, PhiBySign
    <2> QED
      BY <1>4, <2>2, <2>3
  <1> QED
    BY <1>2, <1>3, <1>4, <1>5

\* The distribution rises.
LEMMA PhiRises ==
  ASSUME NEW a \in Int, NEW b \in Int, a <= b
  PROVE  Phi(a) <= Phi(b)
  <1>0. UpperPhi[12] \in Int /\ 500 < UpperPhi[12] /\ UpperPhi[12] < 1000
    BY UpperPhiRises
  <1>1. /\ Phi(a) \in Int /\ 0 <= Phi(a) /\ Phi(a) <= 1000 /\ Phi(b) \in Int /\ 0 <= Phi(b) /\ Phi(b) <= 1000
        /\ a <= 0 => Phi(a) <= 500
        /\ b >= 0 => Phi(b) >= 500
    BY PhiSides
  <1>2. CASE a <= 0 /\ b >= 0
    BY <1>1, <1>2
  <1>3. CASE a > 0
    <2>1. CASE a > 12
      BY <1>0, <2>1, PhiBySign
    <2>2. CASE a <= 12 /\ b > 12
      <3>1. UpperPhi[a] <= UpperPhi[12]
        BY <1>3, <2>2, UpperPhiRises
      <3>2. Phi(a) = UpperPhi[a] /\ Phi(b) = UpperPhi[12]
        BY <1>3, <2>2, PhiBySign
      <3> QED
        BY <3>1, <3>2
    <2>3. CASE a <= 12 /\ b <= 12
      <3>1. UpperPhi[a] <= UpperPhi[b]
        BY <1>3, <2>3, UpperPhiRises
      <3>2. Phi(a) = UpperPhi[a] /\ Phi(b) = UpperPhi[b]
        BY <1>3, <2>3, PhiBySign
      <3> QED
        BY <3>1, <3>2
    <2> QED
      BY <2>1, <2>2, <2>3
  <1>4. CASE b < 0
    <2>1. CASE b < -12
      <3>1. Phi(a) = 1000 - UpperPhi[12] /\ Phi(b) = 1000 - UpperPhi[12]
        BY <2>1, PhiBySign
      <3> QED
        BY <1>1, <3>1
    <2>2. CASE b >= -12
      <3>1. -b \in 1 .. 12
        BY <1>4, <2>2
      <3>2. Phi(b) = 1000 - UpperPhi[-b]
        BY <1>4, <2>2, PhiBySign
      <3>3. CASE a < -12
        <4>1. UpperPhi[-b] <= UpperPhi[12] /\ UpperPhi[-b] \in Int /\ 500 < UpperPhi[-b] /\ UpperPhi[-b] < 1000
          BY <3>1, UpperPhiRises
        <4>2. Phi(a) = 1000 - UpperPhi[12]
          BY <3>3, PhiBySign
        <4> QED
          BY <1>0, <3>2, <4>1, <4>2
      <3>4. CASE a >= -12
        <4>1. -a \in 1 .. 12 /\ -b <= -a
          BY <1>4, <3>4
        <4>2. /\ UpperPhi[-b] <= UpperPhi[-a]
              /\ UpperPhi[-a] \in Int /\ 500 < UpperPhi[-a] /\ UpperPhi[-a] < 1000 /\ UpperPhi[-b] \in Int /\ 500 < UpperPhi[-b] /\ UpperPhi[-b] < 1000
          BY <3>1, <4>1, UpperPhiRises
        <4>3. Phi(a) = 1000 - UpperPhi[-a]
          BY <1>4, <3>4, PhiBySign
        <4> QED
          BY <3>2, <4>2, <4>3
      <3> QED
        BY <3>3, <3>4
    <2> QED
      BY <2>1, <2>2
  <1> QED
    BY <1>2, <1>3, <1>4

\* The event is one of Events.
LEMMA EventFacts ==
  ASSUME WeatherTypeOK
  PROVE  /\ metric \in Metrics
         /\ members \in Seq(Int)
         /\ outlook \in Outlooks
  BY WeatherAssumption DEF WeatherTypeOK

\* The forecast has a mean and a deviation of two degrees or more.
LEMMA NormalBounds ==
  ASSUME WeatherTypeOK
  PROVE  /\ Mean \in Int
         /\ Deviation \in Nat /\ Deviation >= 24
  <1>1. outlook.high \in Int \cup {Missing} /\ outlook.low \in Int \cup {Missing}
    BY EventFacts DEF Outlooks
  <1>2. Known(outlook.high, 170) \in Int /\ Known(outlook.low, 130) \in Int
    BY <1>1 DEF Known
  <1> QED
    BY <1>2 DEF Mean, Deviation, MostOf

\* The forecast is a distribution about its mean.
LEMMA CdfRises ==
  ASSUME WeatherTypeOK, NEW x \in Int, NEW y \in Int, x <= y
  PROVE  /\ Cdf(x) \in Int /\ 0 <= Cdf(x) /\ Cdf(x) <= 1000
         /\ Cdf(x) <= Cdf(y)
         /\ x < Mean => Cdf(x) < 500
         /\ x = Mean => Cdf(x) = 500
         /\ x > Mean => Cdf(x) > 500
  <1> DEFINE D == Deviation
             zx == (x - Mean) * 24
             zy == (y - Mean) * 24
             Up(z) == (z + D - 1) \div D
             Down(z) == (D - 1 - z) \div D
  <1>1. D \in Nat /\ D >= 24 /\ Mean \in Int
    BY NormalBounds
  <1>2. zx \in Int /\ zy \in Int /\ zx <= zy
    BY <1>1
  <1>3. /\ x < Mean => zx < 0
        /\ x = Mean => zx = 0
        /\ x > Mean => zx > 0
    BY <1>1
  <1>4. Cdf(x) = IF zx >= 0 THEN Phi(Up(zx)) ELSE Phi(-Down(zx))
    BY DEF Cdf
  <1>5. Cdf(y) = IF zy >= 0 THEN Phi(Up(zy)) ELSE Phi(-Down(zy))
    BY DEF Cdf
  <1> HIDE DEF D, zx, zy
  <1>6. ASSUME NEW z \in Int
        PROVE  /\ z > 0 => Up(z) \in Int /\ Up(z) > 0
               /\ z = 0 => Up(z) = 0
               /\ z < 0 => Down(z) \in Int /\ Down(z) > 0
    BY <1>1
  <1>7. zx >= 0 => Up(zx) <= Up(zy)
    <2>1. zx + D - 1 <= zy + D - 1 /\ zx + D - 1 \in Int /\ zy + D - 1 \in Int
      BY <1>1, <1>2
    <2> QED
      BY <1>1, <2>1, DivMonotone
  <1>8. zy < 0 => Down(zy) <= Down(zx)
    <2>1. D - 1 - zy <= D - 1 - zx /\ D - 1 - zy \in Int /\ D - 1 - zx \in Int
      BY <1>1, <1>2
    <2> QED
      BY <1>1, <2>1, DivMonotone
  <1>9. /\ zx >= 0 => Up(zx) \in Int /\ Up(zx) >= 0
        /\ zy >= 0 => Up(zy) \in Int /\ Up(zy) >= 0
        /\ zx < 0 => Down(zx) \in Int /\ Down(zx) > 0
        /\ zy < 0 => Down(zy) \in Int /\ Down(zy) > 0
        /\ zx > 0 => Up(zx) > 0
        /\ zx = 0 => Up(zx) = 0
    BY <1>2, <1>6
  <1> HIDE DEF Up, Down
  <1>10. Cdf(x) \in Int /\ 0 <= Cdf(x) /\ Cdf(x) <= 1000
    <2>1. CASE zx >= 0
      BY <1>4, <1>9, <2>1, PhiSides
    <2>2. CASE zx < 0
      <3>1. -Down(zx) \in Int
        BY <1>9, <2>2
      <3> QED
        BY <1>2, <1>4, <2>2, <3>1, PhiSides
    <2> QED
      BY <1>2, <2>1, <2>2
  <1>11. Cdf(x) <= Cdf(y)
    <2>1. CASE zx >= 0
      <3>1. zy >= 0
        BY <1>2, <2>1
      <3> QED
        BY <1>4, <1>5, <1>7, <1>9, <2>1, <3>1, PhiRises
    <2>2. CASE zx < 0 /\ zy >= 0
      <3>1. -Down(zx) \in Int /\ -Down(zx) <= Up(zy)
        BY <1>9, <2>2
      <3> QED
        BY <1>2, <1>4, <1>5, <1>9, <2>2, <3>1, PhiRises
    <2>3. CASE zy < 0
      <3>1. zx < 0
        BY <1>2, <2>3
      <3>2. -Down(zx) \in Int /\ -Down(zy) \in Int /\ -Down(zx) <= -Down(zy)
        BY <1>8, <1>9, <2>3, <3>1
      <3> QED
        BY <1>2, <1>4, <1>5, <2>3, <3>1, <3>2, PhiRises
    <2> QED
      BY <1>2, <2>1, <2>2, <2>3
  <1>12. x < Mean => Cdf(x) < 500
    <2> HAVE x < Mean
    <2>1. zx < 0
      BY <1>3
    <2>2. -Down(zx) \in Int /\ -Down(zx) < 0
      BY <1>9, <2>1
    <2> QED
      BY <1>2, <1>4, <2>1, <2>2, PhiSides
  <1>13. x = Mean => Cdf(x) = 500
    BY <1>3, <1>4, <1>9, PhiSides
  <1>14. x > Mean => Cdf(x) > 500
    BY <1>2, <1>3, <1>4, <1>9, PhiSides
  <1> QED
    BY <1>10, <1>11, <1>12, <1>13, <1>14

\* What CdfRises says of one point.
LEMMA CdfSides ==
  ASSUME WeatherTypeOK, NEW x \in Int
  PROVE  /\ Cdf(x) \in Int
         /\ x < Mean => Cdf(x) < 500
         /\ x = Mean => Cdf(x) = 500
         /\ x > Mean => Cdf(x) > 500
  <1>1. x <= x
    OBVIOUS
  <1> QED
    BY <1>1, CdfRises

\* What a scan holds: a sequence of members, and perhaps an observation with its lock.
IsScan(scan) ==
  /\ scan.members \in Seq(Int)
  /\ scan.observation \in Int \cup {NoReading}
  /\ scan.lock \in 0 .. 24

\* A strike is an interval of whole degrees, or a side of one.
IsStrike(strike) ==
  /\ strike.op \in {"above", "below", "between"}
  /\ strike.low \in Int /\ strike.high \in Int
  /\ strike.low <= strike.high

\* Every strike of the event is one.
LEMMA StrikeFacts ==
  /\ \A op \in {"above", "below"}, n \in Int : IsStrike(Single(op, n))
  /\ \A m, n \in Int : m <= n => IsStrike(Band(m, n))
  /\ \A strike \in AllStrikes : IsStrike(strike)
  <1>1. \A op \in {"above", "below"}, n \in Int : IsStrike(Single(op, n))
    BY DEF IsStrike, Single
  <1>2. \A m, n \in Int : m <= n => IsStrike(Band(m, n))
    BY DEF IsStrike, Band
  <1>3. \A strike \in AllStrikes : IsStrike(strike)
    <2> TAKE strike \in AllStrikes
    <2>0. Strikes \subseteq Int
      BY WeatherAssumption
    <2>1. CASE \E op \in {"above", "below"}, n \in Strikes : strike = Single(op, n)
      BY <1>1, <2>0, <2>1
    <2>2. CASE \E n \in Strikes : strike = Band(n, n + 1)
      <3>1. PICK n \in Strikes : strike = Band(n, n + 1)
        BY <2>2
      <3>2. n \in Int /\ n + 1 \in Int /\ n <= n + 1
        BY <2>0
      <3> QED
        BY <1>2, <3>1, <3>2
    <2> QED
      BY <2>1, <2>2 DEF AllStrikes
  <1> QED
    BY <1>1, <1>2, <1>3

\* A warmer reading is settled no lower.
LEMMA SettlementRises ==
  ASSUME NEW a \in Int, NEW b \in Int, a <= b
  PROVE  Settlement(a) \in Int /\ Settlement(a) <= Settlement(b)
  BY DEF Settlement

\* A member never leaves the side of the observation the day is on, and at
\* the end of the ramp it is the observation.
LEMMA ReconciledFacts ==
  ASSUME metric \in Metrics, NEW member \in Int, NEW realized \in Int, NEW lock \in 0 .. 24
  PROVE  LET value == Reconciled(member, realized, lock) IN
         /\ value \in Int
         /\ metric = "temp_low" => value <= 24 * realized
         /\ metric # "temp_low" => value >= 24 * realized
         /\ lock = 24 => value = 24 * realized
  <1> DEFINE bounded == IF metric = "temp_low" THEN LeastOf(member, realized)
                                               ELSE MostOf(member, realized)
             apart == bounded - realized
             value == Reconciled(member, realized, lock)
  <1>1. bounded \in Int
    BY DEF LeastOf, MostOf
  <1>2. /\ apart \in Int /\ bounded = realized + apart
        /\ metric = "temp_low" => apart <= 0
        /\ metric # "temp_low" => apart >= 0
    BY DEF LeastOf, MostOf
  <1>3. value = bounded * (24 - lock) + realized * lock
    BY DEF Reconciled
  <1> HIDE DEF bounded, apart, value
  <1>4. value = 24 * realized + apart * (24 - lock)
    BY <1>1, <1>2, <1>3
  <1>5. 24 - lock \in Nat
    OBVIOUS
  <1>6. /\ apart <= 0 => apart * (24 - lock) <= 0
        /\ apart >= 0 => apart * (24 - lock) >= 0
        /\ lock = 24 => apart * (24 - lock) = 0
        /\ apart * (24 - lock) \in Int
    BY <1>2, <1>5
  <1>7. /\ value \in Int
        /\ metric = "temp_low" => value <= 24 * realized
        /\ metric # "temp_low" => value >= 24 * realized
        /\ lock = 24 => value = 24 * realized
    BY <1>2, <1>4, <1>6
  <1> QED
    BY <1>7 DEF value

\* A member is a number of 48ths of a degree.
LEMMA MemberFacts ==
  ASSUME metric \in Metrics, NEW scan, IsScan(scan), NEW i \in DOMAIN scan.members
  PROVE  /\ MembersOf(scan)[i] \in Int
         /\ scan.observation = NoReading => MembersOf(scan)[i] = 24 * scan.members[i]
         /\ scan.observation # NoReading =>
              MembersOf(scan)[i] = Reconciled(scan.members[i], scan.observation, scan.lock)
  <1>1. scan.members[i] \in Int
    BY DEF IsScan
  <1>2. CASE scan.observation = NoReading
    BY <1>1, <1>2 DEF MembersOf
  <1>3. CASE scan.observation # NoReading
    <2>1. scan.observation \in Int /\ scan.lock \in 0 .. 24
      BY <1>3 DEF IsScan
    <2>2. MembersOf(scan)[i] = Reconciled(scan.members[i], scan.observation, scan.lock)
      BY <1>3 DEF MembersOf
    <2> QED
      BY <1>1, <1>3, <2>1, <2>2, ReconciledFacts
  <1> QED
    BY <1>2, <1>3

\* Members that satisfy a strike are some of the members.
LEMMA HitsFacts ==
  ASSUME NEW scan, IsScan(scan), NEW strike
  PROVE  /\ HitBy(scan, strike) \subseteq DOMAIN scan.members
         /\ IsFiniteSet(HitBy(scan, strike))
         /\ Satisfying(scan, strike) \in Nat
         /\ Satisfying(scan, strike) <= Len(scan.members)
         /\ HitBy(scan, strike) = DOMAIN scan.members =>
              Satisfying(scan, strike) = Len(scan.members)
         /\ HitBy(scan, strike) = {} => Satisfying(scan, strike) = 0
  <1> DEFINE n == Len(scan.members)
  <1>1. n \in Nat /\ DOMAIN scan.members = 1 .. n
    BY DEF IsScan
  <1>2. HitBy(scan, strike) \subseteq DOMAIN scan.members
    BY DEF HitBy
  <1>3. IsFiniteSet(1 .. n) /\ Cardinality(1 .. n) = n
    <2> HIDE DEF n
    <2>1. IsFiniteSet(1 .. n) /\ Cardinality(1 .. n) = IF 1 > n THEN 0 ELSE n - 1 + 1
      BY <1>1, FS_Interval
    <2> QED
      BY <1>1, <2>1
  <1>4. /\ IsFiniteSet(HitBy(scan, strike))
        /\ Cardinality(HitBy(scan, strike)) <= n
    BY <1>1, <1>2, <1>3, FS_Subset
  <1>5. Cardinality(HitBy(scan, strike)) \in Nat
    BY <1>4, FS_CardinalityType
  <1> QED
    BY <1>1, <1>2, <1>3, <1>4, <1>5, SatisfyingIsHits, FS_EmptySet

\* All the members on one side give the bound of that side.
LEMMA UnanimousProb ==
  ASSUME NEW scan, IsScan(scan), ~IsEmpty(scan), NEW strike
  PROVE  /\ Len(scan.members) \in Nat \ {0}
         /\ HitBy(scan, strike) = DOMAIN scan.members => EnsembleProb(scan, strike) = 990
         /\ HitBy(scan, strike) = {} => EnsembleProb(scan, strike) = 10
  <1> DEFINE n == Len(scan.members)
  <1>1. n \in Nat /\ n # 0
    BY WeatherAssumption DEF IsEmpty, IsScan
  <1>2. EnsembleProb(scan, strike) = ShareOf(Satisfying(scan, strike), n)
    BY DEF EnsembleProb, ShareOf
  <1>3. /\ HitBy(scan, strike) = DOMAIN scan.members => Satisfying(scan, strike) = n
        /\ HitBy(scan, strike) = {} => Satisfying(scan, strike) = 0
    BY HitsFacts
  <1>4. ShareOf(n, n) = 990 /\ ShareOf(0, n) = 10
    BY <1>1, WholeShare
  <1> QED
    BY <1>1, <1>2, <1>3, <1>4

\* More members that satisfy a strike never make it less likely.
LEMMA ProbRises ==
  ASSUME NEW scan, IsScan(scan), NEW s, NEW t, HitBy(scan, s) \subseteq HitBy(scan, t)
  PROVE  EnsembleProb(scan, s) <= EnsembleProb(scan, t)
  <1> DEFINE n == Len(scan.members)
             a == Satisfying(scan, s)
             b == Satisfying(scan, t)
  <1>1. a \in Nat /\ b \in Nat
    BY HitsFacts
  <1>2. a <= b
    BY HitsFacts, FS_Subset, SatisfyingIsHits
  <1>3. CASE IsEmpty(scan)
    BY <1>3 DEF EnsembleProb
  <1>4. CASE ~IsEmpty(scan)
    <2>1. n \in Nat /\ n # 0
      BY <1>4, UnanimousProb
    <2>2. /\ EnsembleProb(scan, s) = ShareOf(a, n)
          /\ EnsembleProb(scan, t) = ShareOf(b, n)
      BY <1>4 DEF EnsembleProb, ShareOf
    <2>3. ShareOf(a, n) <= ShareOf(b, n)
      BY <1>1, <1>2, <2>1, ShareRises
    <2> QED
      BY <2>2, <2>3
  <1> QED
    BY <1>3, <1>4

\* An estimate is a number of thousandths.
LEMMA ProbType ==
  ASSUME NEW scan, IsScan(scan), NEW strike
  PROVE  EnsembleProb(scan, strike) \in Int
  <1>1. CASE IsEmpty(scan)
    BY <1>1 DEF EnsembleProb
  <1>2. CASE ~IsEmpty(scan)
    <2>1. Satisfying(scan, strike) \in Nat /\ Len(scan.members) \in Nat \ {0}
      BY <1>2, HitsFacts, UnanimousProb
    <2>2. EnsembleProb(scan, strike) = ShareOf(Satisfying(scan, strike), Len(scan.members))
      BY <1>2 DEF EnsembleProb, ShareOf
    <2> QED
      BY <2>1, <2>2, ShareRises
  <1> QED
    BY <1>1, <1>2

\* What the scan saw is an observation, or none.
SeenIsAReading ==
  seenAt # NoScan => seenAt.observation \in Int \cup {NoReading}

\* The day has only gone on in the direction of its metric since.
DayWentOn ==
  seenAt # NoScan /\ seenAt.observation # NoReading =>
    /\ observed # NoReading
    /\ metric = "temp_low" => observed <= seenAt.observation
    /\ metric # "temp_low" => observed >= seenAt.observation

\* A scan of this hour that the station answered has the latest reading,
\* until another one comes; or UTC was on the next date.
AnsweredIsLatest ==
  Scored /\ seenAt.answered /\ seenAt.hour = localHour /\ latest < localHour =>
    seenAt.observation = observed

\* The inductive invariant of a weather event.
WeatherIInv ==
  /\ WeatherTypeOK
  /\ SeenIsAReading
  /\ DayWentOn
  /\ AnsweredIsLatest

\* A lock is a number of 24ths.
LEMMA LockType ==
  ASSUME metric \in Metrics, NEW hour \in 0 .. 23
  PROVE  Lock(hour) \in 0 .. 24
  <1>1. CASE metric = "precipitation"
    BY <1>1 DEF Lock
  <1>2. CASE metric \in Temperatures
    <2>1. LockHour[metric] \in {9, 17} /\ metric # "precipitation"
      BY <1>2 DEF Temperatures, LockHour
    <2> QED
      BY <2>1 DEF Lock, LockRamp, Clamped, MostOf, LeastOf
  <1> QED
    BY <1>1, <1>2 DEF Metrics

\* One more reading moves the extreme in the direction of the metric.
LEMMA ExtremeFacts ==
  ASSUME metric \in Metrics, NEW realized \in Int \cup {NoReading}, NEW r \in Int,
         metric = "precipitation" => r >= 0
  PROVE  /\ Extreme(realized, r) \in Int
         /\ realized # NoReading /\ metric = "temp_low" => Extreme(realized, r) <= realized
         /\ realized # NoReading /\ metric # "temp_low" => Extreme(realized, r) >= realized
  <1>1. CASE realized = NoReading
    BY <1>1 DEF Extreme
  <1>2. CASE realized # NoReading
    <2>1. realized \in Int
      BY <1>2
    <2>2. CASE metric = "temp_high"
      BY <1>2, <2>1, <2>2 DEF Extreme, MostOf
    <2>3. CASE metric = "temp_low"
      BY <1>2, <2>1, <2>3 DEF Extreme, LeastOf
    <2>4. CASE metric = "precipitation"
      <3>1. Extreme(realized, r) = realized + r
        BY <1>2, <2>4 DEF Extreme
      <3> QED
        BY <2>1, <2>4, <3>1
    <2> QED
      BY <2>2, <2>3, <2>4 DEF Metrics, Temperatures
  <1> QED
    BY <1>1, <1>2

\* The initial state satisfies the inductive invariant.
LEMMA WeatherInitInv == WeatherInit => WeatherIInv
  <1> SUFFICES ASSUME WeatherInit PROVE WeatherIInv
    OBVIOUS
  <1>1. PICK e \in Events : metric = e.metric /\ members = e.members /\ outlook = e.outlook
    BY DEF WeatherInit
  <1>2. e = [metric |-> metric, members |-> members, outlook |-> outlook]
        /\ metric \in Metrics
    BY <1>1, WeatherAssumption
  <1>3. localHour = 0 /\ latest = 0 /\ observed = NoReading /\ seenAt = NoScan
    BY DEF WeatherInit
  <1>4. WeatherTypeOK
    BY <1>2, <1>3 DEF WeatherTypeOK
  <1> QED
    BY <1>3, <1>4 DEF WeatherIInv, SeenIsAReading, DayWentOn, AnsweredIsLatest, Scored

\* Every step preserves it.
LEMMA WeatherStepInv == WeatherIInv /\ [WeatherNext]_weatherVars => WeatherIInv'
  <1> SUFFICES ASSUME WeatherIInv, [WeatherNext]_weatherVars PROVE WeatherIInv'
    OBVIOUS
  <1>0. /\ Hours \subseteq 0 .. 23 /\ 0 \notin Hours
        /\ Readings \subseteq Int /\ NoReading \notin Int
        /\ MinMembers \in Nat \ {0}
        /\ metric \in Metrics /\ members \in Seq(Int)
        /\ localHour \in 0 .. 23 /\ latest \in 0 .. localHour
        /\ observed \in Int \cup {NoReading}
        /\ (observed = NoReading) <=> (latest = 0)
    BY WeatherAssumption, EventFacts DEF WeatherIInv, WeatherTypeOK
  <1>1. ASSUME NEW h \in Hours, HourComes(h)
        PROVE  WeatherIInv'
    <2>1. /\ localHour < h /\ localHour' = h /\ h \in 0 .. 23
          /\ UNCHANGED <<metric, members, outlook, observed, latest, seenAt>>
      BY <1>0, <1>1 DEF HourComes
    <2>2. WeatherTypeOK'
      <3>1. latest' \in 0 .. localHour' /\ localHour' \in 0 .. 23
        BY <1>0, <2>1
      <3>2. seenAt # NoScan => seenAt.hour \in 0 .. localHour
        BY DEF WeatherIInv, WeatherTypeOK
      <3>3. seenAt' # NoScan => seenAt'.hour \in 0 .. localHour'
        <4> HAVE seenAt' # NoScan
        <4>1. seenAt.hour \in 0 .. localHour
          BY <2>1, <3>2
        <4> QED
          BY <1>0, <2>1, <4>1
      <3> QED
        BY <2>1, <3>1, <3>3 DEF WeatherIInv, WeatherTypeOK
    <2>3. SeenIsAReading' /\ DayWentOn'
      BY <2>1 DEF WeatherIInv, SeenIsAReading, DayWentOn
    <2>4. AnsweredIsLatest'
      BY <1>0, <2>1 DEF WeatherIInv, WeatherTypeOK, AnsweredIsLatest, Scored
    <2> QED
      BY <2>2, <2>3, <2>4 DEF WeatherIInv
  <1>2. ASSUME NEW r \in Readings, StationReports(r)
        PROVE  WeatherIInv'
    <2>1. /\ localHour # 0 /\ latest' = localHour
          /\ observed' = Extreme(observed, r)
          /\ UNCHANGED <<metric, members, outlook, localHour, seenAt>>
      BY <1>2 DEF StationReports
    <2>2. /\ observed' \in Int
          /\ observed # NoReading /\ metric = "temp_low" => observed' <= observed
          /\ observed # NoReading /\ metric # "temp_low" => observed' >= observed
      BY <1>0, <1>2, <2>1, ExtremeFacts DEF StationReports
    <2>3. WeatherTypeOK'
      BY <1>0, <2>1, <2>2 DEF WeatherIInv, WeatherTypeOK
    <2>4. SeenIsAReading'
      BY <2>1 DEF WeatherIInv, SeenIsAReading
    <2>5. DayWentOn'
      <3> SUFFICES ASSUME seenAt # NoScan, seenAt.observation # NoReading
                   PROVE  /\ observed' # NoReading
                          /\ metric = "temp_low" => observed' <= seenAt.observation
                          /\ metric # "temp_low" => observed' >= seenAt.observation
        BY <2>1 DEF DayWentOn
      <3>1. /\ seenAt.observation \in Int
            /\ observed # NoReading /\ observed \in Int
            /\ metric = "temp_low" => observed <= seenAt.observation
            /\ metric # "temp_low" => observed >= seenAt.observation
        BY <1>0 DEF WeatherIInv, SeenIsAReading, DayWentOn
      <3> QED
        BY <1>0, <2>2, <3>1
    <2>6. AnsweredIsLatest'
      BY <1>0, <2>1 DEF AnsweredIsLatest
    <2> QED
      BY <2>3, <2>4, <2>5, <2>6 DEF WeatherIInv
  <1>3. ASSUME NEW answered \in BOOLEAN, ScoreEvent(answered)
        PROVE  WeatherIInv'
    <2> DEFINE uses == UtcIsSameDay /\ answered /\ observed # NoReading
    <2>1. /\ localHour # 0
          /\ seenAt' = [hour |-> localHour, members |-> IF UtcIsSameDay THEN members ELSE <<>>,
                        observation |-> IF uses THEN observed ELSE NoReading,
                        lock |-> IF uses THEN Lock(latest) ELSE 0, answered |-> answered]
          /\ UNCHANGED <<metric, members, outlook, localHour, observed, latest>>
      BY <1>3 DEF ScoreEvent
    <2>2. /\ seenAt'.hour = localHour
          /\ seenAt'.members = IF UtcIsSameDay THEN members ELSE <<>>
          /\ seenAt'.observation = IF uses THEN observed ELSE NoReading
          /\ seenAt'.lock = IF uses THEN Lock(latest) ELSE 0
          /\ seenAt'.answered = answered
      BY <2>1
    <2>3. WeatherTypeOK'
      <3>1. seenAt'.members \in {<<>>, members'}
        BY <2>1, <2>2
      <3>2. seenAt'.lock \in 0 .. 24
        <4>1. latest \in 0 .. 23
          BY <1>0
        <4>2. Lock(latest) \in 0 .. 24
          BY <1>0, <4>1, LockType
        <4> QED
          BY <2>2, <4>2
      <3>3. seenAt'.observation = NoReading => seenAt'.lock = 0
        BY <2>2
      <3>4. seenAt'.hour \in 0 .. localHour'
        BY <1>0, <2>1, <2>2
      <3> QED
        BY <2>1, <3>1, <3>2, <3>3, <3>4 DEF WeatherIInv, WeatherTypeOK
    <2>4. SeenIsAReading'
      BY <1>0, <2>2 DEF SeenIsAReading
    <2>5. DayWentOn'
      BY <1>0, <2>1, <2>2 DEF DayWentOn
    <2>6. AnsweredIsLatest'
      <3> SUFFICES ASSUME Scored', seenAt'.answered PROVE seenAt'.observation = observed'
        BY DEF AnsweredIsLatest
      <3>1. seenAt'.members # <<>>
        BY <1>0 DEF Scored, IsEmpty
      <3>2. UtcIsSameDay
        BY <2>2, <3>1
      <3> QED
        BY <2>1, <2>2, <3>2
    <2> QED
      BY <2>3, <2>4, <2>5, <2>6 DEF WeatherIInv
  <1>4. CASE UNCHANGED weatherVars
    BY <1>4 DEF weatherVars, WeatherIInv, WeatherTypeOK, SeenIsAReading, DayWentOn, AnsweredIsLatest,
       Scored, IsEmpty
  <1> QED
    BY <1>1, <1>2, <1>3, <1>4 DEF WeatherNext

\* It holds always.
LEMMA WeatherAlways == WeatherSpec => []WeatherIInv
  BY WeatherInitInv, WeatherStepInv, PTL DEF WeatherSpec

\* The types of WeatherSignals are kept by every step.
THEOREM WeatherTypes == WeatherSpec => []WeatherTypeOK
  <1>1. WeatherIInv => WeatherTypeOK
    BY DEF WeatherIInv
  <1> QED
    BY <1>1, WeatherAlways, PTL

\* The strike holds of a value, in 48ths of a degree.
Holds(strike, value) ==
  IF metric = "precipitation" THEN Wetter(strike, value) ELSE Meets(strike, Settlement(value))

\* What holds of a member is what the estimate counts and the outcome is.
LEMMA HoldsFacts ==
  ASSUME NEW strike, IsStrike(strike)
  PROVE  /\ \A value \in Int : Holds(strike, value) \in BOOLEAN
         /\ \A realized \in Int : Outcome(strike, realized) = Holds(strike, 24 * realized)
         /\ \A scan : HitBy(scan, strike) =
                        {i \in DOMAIN scan.members : Holds(strike, MembersOf(scan)[i])}
  <1>1. \A value \in Int : Holds(strike, value) \in BOOLEAN
    <2> TAKE value \in Int
    <2>1. Wetter(strike, value) \in BOOLEAN
      BY DEF Wetter
    <2>2. Meets(strike, Settlement(value)) \in BOOLEAN
      <3>1. CASE strike.op = "between"
        BY <3>1, Zenon DEF Meets
      <3>2. CASE strike.op = "above"
        BY <3>2 DEF Meets
      <3>3. CASE strike.op = "below"
        BY <3>3 DEF Meets
      <3> QED
        BY <3>1, <3>2, <3>3 DEF IsStrike
    <2> QED
      BY <2>1, <2>2, Zenon DEF Holds
  <1>2. \A realized \in Int : Outcome(strike, realized) = Holds(strike, 24 * realized)
    BY DEF Holds, Outcome
  <1>3. \A scan : HitBy(scan, strike) =
                    {i \in DOMAIN scan.members : Holds(strike, MembersOf(scan)[i])}
    BY DEF Holds, HitBy
  <1> QED
    BY <1>1, <1>2, <1>3

\* A decided strike holds of every value the day may still reach, or of none.
LEMMA DecidedForGood ==
  ASSUME metric \in Metrics, NEW strike, IsStrike(strike),
         NEW realized \in Int, Decided(strike, realized), NEW value \in Int,
         metric = "temp_low" => value <= 24 * realized,
         metric # "temp_low" => value >= 24 * realized
  PROVE  Holds(strike, value) <=> Holds(strike, 24 * realized)
  <1> DEFINE at == Settlement(24 * realized)
             now == Settlement(value)
  <1>1. 24 * realized \in Int
    OBVIOUS
  <1>2. /\ at \in Int /\ now \in Int
        /\ metric = "temp_low" => now <= at
        /\ metric # "temp_low" => at <= now
    BY <1>1, SettlementRises DEF Metrics, Temperatures
  <1>3. CASE metric = "precipitation"
    <2>1. MostOf(strike.low, 1) \in Int
      BY DEF IsStrike, MostOf
    <2>2. 24 * realized > 48 * MostOf(strike.low, 1)
      BY <1>3 DEF Decided, Wetter
    <2>3. value > 48 * MostOf(strike.low, 1)
      BY <1>1, <1>3, <2>1, <2>2
    <2> QED
      BY <1>3, <2>2, <2>3 DEF Holds, Wetter
  <1>4. CASE metric = "temp_high"
    <2>1. IF strike.op = "between" THEN at > strike.high
          ELSE IF strike.op = "above" THEN at > strike.low
          ELSE at >= strike.low
      BY <1>4 DEF Decided
    <2>2. at <= now
      BY <1>2, <1>4
    <2> HIDE DEF at, now
    <2>3. Meets(strike, now) <=> Meets(strike, at)
      BY <1>2, <2>1, <2>2 DEF Meets, IsStrike
    <2> QED
      BY <1>4, <2>3 DEF Holds, at, now
  <1>5. CASE metric = "temp_low"
    <2>1. IF strike.op = "between" THEN at < strike.low
          ELSE IF strike.op = "above" THEN at <= strike.low
          ELSE at < strike.low
      BY <1>5 DEF Decided
    <2>2. now <= at
      BY <1>2, <1>5
    <2> HIDE DEF at, now
    <2>3. Meets(strike, now) <=> Meets(strike, at)
      BY <1>2, <2>1, <2>2 DEF Meets, IsStrike
    <2> QED
      BY <1>5, <2>3 DEF Holds, at, now
  <1> QED
    BY <1>3, <1>4, <1>5 DEF Metrics, Temperatures

\* What weather_scan saw is a scan.
LEMMA ScoredFacts ==
  ASSUME WeatherIInv, seenAt # NoScan
  PROVE  /\ IsScan(seenAt)
         /\ metric \in Metrics
  <1>1. seenAt.members \in Seq(Int)
    BY EventFacts, EmptySeq DEF WeatherIInv, WeatherTypeOK
  <1>2. seenAt.lock \in 0 .. 24 /\ seenAt.observation \in Int \cup {NoReading}
    BY DEF WeatherIInv, WeatherTypeOK, SeenIsAReading
  <1> QED
    BY <1>1, <1>2, EventFacts DEF WeatherIInv, IsScan

\* Members that all agree with a truth are priced at its bound.
LEMMA PricedAtTheBound ==
  ASSUME NEW scan, IsScan(scan), ~IsEmpty(scan), NEW strike, IsStrike(strike),
         NEW truth \in BOOLEAN,
         \A i \in DOMAIN scan.members : Holds(strike, MembersOf(scan)[i]) <=> truth
  PROVE  EnsembleProb(scan, strike) = (IF truth THEN 990 ELSE 10)
  <1>1. HitBy(scan, strike) = {i \in DOMAIN scan.members : Holds(strike, MembersOf(scan)[i])}
    BY HoldsFacts
  <1>2. CASE truth
    <2>1. HitBy(scan, strike) = DOMAIN scan.members
      BY <1>1, <1>2
    <2> QED
      BY <1>2, <2>1, UnanimousProb
  <1>3. CASE ~truth
    <2>1. HitBy(scan, strike) = {}
      BY <1>1, <1>3
    <2> QED
      BY <1>3, <2>1, UnanimousProb
  <1> QED
    BY <1>2, <1>3

\* A decided strike is priced at its outcome.
LEMMA DecidedIsPricedHolds == WeatherIInv => DecidedIsPriced
  <1> SUFFICES ASSUME WeatherIInv PROVE DecidedIsPriced
    OBVIOUS
  <1>1. ASSUME Scored, seenAt.observation # NoReading, NEW strike \in AllStrikes
        PROVE  /\ Decided(strike, seenAt.observation) =>
                    /\ EnsembleProb(seenAt, strike) =
                         (IF Outcome(strike, observed) THEN 990 ELSE 10)
                    /\ Outcome(strike, observed) = Outcome(strike, seenAt.observation)
               /\ seenAt.lock = 24 =>
                    EnsembleProb(seenAt, strike) =
                      (IF Outcome(strike, seenAt.observation) THEN 990 ELSE 10)
    <2> DEFINE seen == seenAt.observation
               value(i) == MembersOf(seenAt)[i]
    <2>1. IsScan(seenAt) /\ metric \in Metrics /\ ~IsEmpty(seenAt)
      BY <1>1, ScoredFacts DEF Scored
    <2>2. /\ seen \in Int /\ observed \in Int
          /\ metric = "temp_low" => observed <= seen
          /\ metric # "temp_low" => observed >= seen
      <3>1. /\ seen \in Int \cup {NoReading} /\ observed \in Int \cup {NoReading}
            /\ observed # NoReading
        BY <1>1 DEF Scored, WeatherIInv, WeatherTypeOK, SeenIsAReading, DayWentOn
      <3> QED
        BY <1>1, <3>1 DEF Scored, WeatherIInv, DayWentOn
    <2>3. IsStrike(strike)
      BY StrikeFacts
    <2>4. /\ Outcome(strike, seen) = Holds(strike, 24 * seen)
          /\ Outcome(strike, observed) = Holds(strike, 24 * observed)
          /\ Outcome(strike, seen) \in BOOLEAN /\ Outcome(strike, observed) \in BOOLEAN
      <3>1. 24 * seen \in Int /\ 24 * observed \in Int
        BY <2>2
      <3> QED
        BY <2>2, <2>3, <3>1, HoldsFacts
    <2>5. ASSUME NEW i \in DOMAIN seenAt.members
          PROVE  /\ value(i) \in Int
                 /\ metric = "temp_low" => value(i) <= 24 * seen
                 /\ metric # "temp_low" => value(i) >= 24 * seen
                 /\ seenAt.lock = 24 => value(i) = 24 * seen
      <3>1. value(i) = Reconciled(seenAt.members[i], seen, seenAt.lock)
        BY <1>1, <2>1, <2>5, MemberFacts
      <3>2. seenAt.members[i] \in Int /\ seenAt.lock \in 0 .. 24
        BY <2>1, <2>5 DEF IsScan
      <3> QED
        BY <2>1, <2>2, <3>1, <3>2, ReconciledFacts
    <2>6. ASSUME Decided(strike, seen)
          PROVE  /\ EnsembleProb(seenAt, strike) = (IF Outcome(strike, seen) THEN 990 ELSE 10)
                 /\ Outcome(strike, observed) = Outcome(strike, seen)
      <3>1. \A i \in DOMAIN seenAt.members :
              Holds(strike, MembersOf(seenAt)[i]) <=> Holds(strike, 24 * seen)
        <4> TAKE i \in DOMAIN seenAt.members
        <4> DEFINE v == MembersOf(seenAt)[i]
        <4>1. /\ v \in Int
              /\ metric = "temp_low" => v <= 24 * seen
              /\ metric # "temp_low" => v >= 24 * seen
          BY <2>5
        <4> HIDE DEF v, seen
        <4>2. Holds(strike, v) <=> Holds(strike, 24 * seen)
          BY <2>1, <2>2, <2>3, <2>6, <4>1, DecidedForGood
        <4> QED
          BY <4>2 DEF v, seen
      <3>2. Holds(strike, 24 * observed) <=> Holds(strike, 24 * seen)
        <4>1. /\ 24 * observed \in Int
              /\ metric = "temp_low" => 24 * observed <= 24 * seen
              /\ metric # "temp_low" => 24 * observed >= 24 * seen
          BY <2>2
        <4> HIDE DEF seen
        <4> QED
          BY <2>1, <2>2, <2>3, <2>6, <4>1, DecidedForGood
      <3>3. EnsembleProb(seenAt, strike) = (IF Outcome(strike, seen) THEN 990 ELSE 10)
        BY <2>1, <2>3, <2>4, <3>1, PricedAtTheBound
      <3> QED
        BY <2>4, <3>2, <3>3
    <2>7. ASSUME seenAt.lock = 24
          PROVE  EnsembleProb(seenAt, strike) = (IF Outcome(strike, seen) THEN 990 ELSE 10)
      <3>1. \A i \in DOMAIN seenAt.members :
              Holds(strike, MembersOf(seenAt)[i]) <=> Outcome(strike, seen)
        BY <2>4, <2>5, <2>7
      <3> QED
        BY <2>1, <2>3, <2>4, <3>1, PricedAtTheBound
    <2> QED
      BY <2>6, <2>7
  <1>2. Scored /\ seenAt.answered /\ seenAt.hour = localHour /\ latest < localHour =>
          seenAt.observation = observed
    BY DEF WeatherIInv, AnsweredIsLatest
  <1> QED
    BY <1>1, <1>2 DEF DecidedIsPriced

\* The normal estimate of the three strikes at a degree.
LEMMA ParametricOf ==
  ASSUME metric \in Temperatures, NEW n \in Int
  PROVE  /\ Parametric(Single("above", n)) = 1000 - Cdf(2 * n + 1)
         /\ Parametric(Single("below", n)) = Cdf(2 * n - 1)
         /\ Parametric(Band(n, n)) = Cdf(2 * n + 1) - Cdf(2 * n - 1)
  <1>1. metric # "precipitation"
    BY DEF Temperatures
  <1> QED
    BY <1>1 DEF Parametric, Single, Band

\* A member is above, below or at a degree.
LEMMA MembersAreSplit ==
  ASSUME metric \in Temperatures, NEW scan, IsScan(scan), NEW n \in Int
  PROVE  Satisfying(scan, Single("above", n)) + Satisfying(scan, Single("below", n))
           + Satisfying(scan, Band(n, n)) = Len(scan.members)
  <1> DEFINE D == DOMAIN scan.members
             at(i) == Settlement(MembersOf(scan)[i])
             A == HitBy(scan, Single("above", n))
             B == HitBy(scan, Single("below", n))
             C == HitBy(scan, Band(n, n))
  <1>1. metric \in Metrics /\ metric # "precipitation"
    BY DEF Metrics, Temperatures
  <1>2. \A i \in D : at(i) \in Int
    BY <1>1, MemberFacts, SettlementRises
  <1>3. /\ A = {i \in D : at(i) > n}
        /\ B = {i \in D : at(i) < n}
        /\ C = {i \in D : n <= at(i) /\ at(i) <= n}
    BY <1>1 DEF HitBy, Meets, Single, Band
  <1> HIDE DEF at, A, B, C
  <1>4. /\ A \cup B \cup C = D
        /\ A \cap B = {} /\ (A \cup B) \cap C = {}
    BY <1>2, <1>3
  <1>5. /\ Len(scan.members) \in Nat
        /\ D = 1 .. Len(scan.members)
    BY DEF IsScan
  <1>6. IsFiniteSet(D) /\ Cardinality(D) = Len(scan.members)
    BY <1>5, FS_Interval
  <1> HIDE DEF D
  <1>7. IsFiniteSet(A) /\ IsFiniteSet(B) /\ IsFiniteSet(C)
    BY HitsFacts DEF A, B, C
  <1>8. /\ IsFiniteSet(A \cup B)
        /\ Cardinality(A \cup B) = Cardinality(A) + Cardinality(B) - Cardinality({})
    BY <1>4, <1>7, FS_Union
  <1>9. Cardinality(D) = Cardinality(A \cup B) + Cardinality(C) - Cardinality({})
    BY <1>4, <1>7, <1>8, FS_Union
  <1>10. /\ Cardinality(A) \in Nat /\ Cardinality(B) \in Nat /\ Cardinality(C) \in Nat
         /\ Cardinality({}) = 0
    BY <1>7, FS_CardinalityType, FS_EmptySet
  <1>11. /\ Satisfying(scan, Single("above", n)) = Cardinality(A)
         /\ Satisfying(scan, Single("below", n)) = Cardinality(B)
         /\ Satisfying(scan, Band(n, n)) = Cardinality(C)
    BY SatisfyingIsHits DEF A, B, C
  <1> QED
    BY <1>6, <1>8, <1>9, <1>10, <1>11

\* A higher threshold is exceeded by fewer members.
LEMMA HigherIsRarer ==
  ASSUME metric \in Temperatures, NEW scan, IsScan(scan), NEW m \in Int, NEW n \in Int, m < n
  PROVE  EnsembleProb(scan, Single("above", m)) >= EnsembleProb(scan, Single("above", n))
  <1> DEFINE at(i) == Settlement(MembersOf(scan)[i])
             lower == Single("above", m)
             upper == Single("above", n)
  <1>1. metric \in Metrics /\ metric # "precipitation"
    BY DEF Metrics, Temperatures
  <1>2. \A i \in DOMAIN scan.members : at(i) \in Int
    BY <1>1, MemberFacts, SettlementRises
  <1>3. /\ HitBy(scan, lower) = {i \in DOMAIN scan.members : at(i) > m}
        /\ HitBy(scan, upper) = {i \in DOMAIN scan.members : at(i) > n}
    BY <1>1 DEF HitBy, Meets, Single
  <1> HIDE DEF at, lower, upper
  <1>4. HitBy(scan, upper) \subseteq HitBy(scan, lower)
    BY <1>2, <1>3
  <1>5. EnsembleProb(scan, upper) <= EnsembleProb(scan, lower)
    BY <1>4, ProbRises
  <1>6. EnsembleProb(scan, upper) \in Int /\ EnsembleProb(scan, lower) \in Int
    BY ProbType
  <1> QED
    BY <1>5, <1>6 DEF lower, upper

\* The normal estimates of the strikes are one distribution.
LEMMA NormalIsOneDistribution ==
  ASSUME WeatherTypeOK, metric \in Temperatures
  PROVE  /\ \A n \in Int :
              Parametric(Single("above", n)) + Parametric(Single("below", n))
                + Parametric(Band(n, n)) = 1000
         /\ \A m, n \in Int : m < n =>
              Parametric(Single("above", m)) >= Parametric(Single("above", n))
  <1>1. ASSUME NEW n \in Int
        PROVE  Parametric(Single("above", n)) + Parametric(Single("below", n))
                 + Parametric(Band(n, n)) = 1000
    <2>1. Cdf(2 * n + 1) \in Int /\ Cdf(2 * n - 1) \in Int
      BY CdfRises
    <2> QED
      BY <2>1, ParametricOf
  <1>2. ASSUME NEW m \in Int, NEW n \in Int, m < n
        PROVE  Parametric(Single("above", m)) >= Parametric(Single("above", n))
    <2> DEFINE x == 2 * m + 1
               y == 2 * n + 1
    <2>1. x \in Int /\ y \in Int /\ x <= y
      BY <1>2
    <2>2. /\ Parametric(Single("above", m)) = 1000 - Cdf(x)
          /\ Parametric(Single("above", n)) = 1000 - Cdf(y)
      BY ParametricOf
    <2> HIDE DEF x, y
    <2>3. Cdf(x) <= Cdf(y) /\ Cdf(x) \in Int /\ Cdf(y) \in Int
      BY <2>1, CdfRises
    <2> QED
      BY <2>2, <2>3
  <1> QED
    BY <1>1, <1>2

\* An ensemble that stands at the mean of the forecast agrees with it.
LEMMA UnanimousAgrees ==
  ASSUME WeatherTypeOK, metric \in Temperatures,
         NEW n \in Int, NEW op \in {"above", "below"},
         NEW scan, IsScan(scan), ~IsEmpty(scan), scan.observation = NoReading,
         \A i \in DOMAIN scan.members : scan.members[i] = Mean
  PROVE  /\ EnsembleProb(scan, Single(op, n)) = 990 => Parametric(Single(op, n)) >= 500
         /\ EnsembleProb(scan, Single(op, n)) = 10 => Parametric(Single(op, n)) <= 500
         /\ Mean % 2 = 0 => Parametric(Single(op, n)) # 500
  <1> DEFINE truth == IF op = "above" THEN Mean >= 2 * n + 1 ELSE Mean < 2 * n - 1
  <1>0. metric \in Metrics /\ metric # "precipitation"
    BY DEF Metrics, Temperatures
  <1>1. Mean \in Int
    BY NormalBounds
  <1>5. IsStrike(Single(op, n))
    BY StrikeFacts
  <1>6. \A i \in DOMAIN scan.members : Holds(Single(op, n), MembersOf(scan)[i]) <=> truth
    <2> TAKE i \in DOMAIN scan.members
    <2>1. MembersOf(scan)[i] = 24 * Mean
      BY <1>0, MemberFacts
    <2>2. Settlement(24 * Mean) \in Int /\ 2 * Settlement(24 * Mean) <= Mean + 1
          /\ Mean <= 2 * Settlement(24 * Mean)
      BY <1>1 DEF Settlement
    <2> DEFINE at == Settlement(24 * Mean)
               mean == Mean
    <2>3. Holds(Single(op, n), 24 * Mean) <=> IF op = "above" THEN at > n ELSE at < n
      BY <1>0 DEF Holds, Meets, Single
    <2> HIDE DEF at, mean
    <2>4. CASE op = "above"
      <3>1. at > n <=> mean >= 2 * n + 1
        BY <1>1, <2>2 DEF mean, at
      <3> QED
        BY <2>1, <2>3, <2>4, <3>1 DEF mean
    <2>5. CASE op = "below"
      <3>1. at < n <=> mean < 2 * n - 1
        BY <1>1, <2>2 DEF mean, at
      <3> QED
        BY <2>1, <2>3, <2>5, <3>1 DEF mean
    <2> QED
      BY <2>4, <2>5
  <1>7. EnsembleProb(scan, Single(op, n)) = (IF truth THEN 990 ELSE 10)
    <2> HIDE DEF truth
    <2>1. HitBy(scan, Single(op, n)) =
            {i \in DOMAIN scan.members : Holds(Single(op, n), MembersOf(scan)[i])}
      BY <1>5, HoldsFacts
    <2>2. CASE truth
      <3>1. HitBy(scan, Single(op, n)) = DOMAIN scan.members
        BY <1>6, <2>1, <2>2
      <3> QED
        BY <2>2, <3>1, UnanimousProb
    <2>3. CASE ~truth
      <3>1. HitBy(scan, Single(op, n)) = {}
        BY <1>6, <2>1, <2>3
      <3> QED
        BY <2>3, <3>1, UnanimousProb
    <2> QED
      BY <2>2, <2>3
  <1> DEFINE c == 2 * n + 1
             d == 2 * n - 1
  <1>8. /\ c \in Int /\ d \in Int
        /\ Mean % 2 = 0 => c # Mean /\ d # Mean
    BY <1>1
  <1>9. /\ op = "above" => Parametric(Single(op, n)) = 1000 - Cdf(c)
        /\ op = "below" => Parametric(Single(op, n)) = Cdf(d)
    <2>1. CASE op = "above"
      BY <2>1, ParametricOf
    <2>2. CASE op = "below"
      BY <2>2, ParametricOf
    <2> QED
      BY <2>1, <2>2
  <1>10. truth <=> IF op = "above" THEN Mean >= c ELSE Mean < d
    OBVIOUS
  <1> HIDE DEF c, d, truth
  <1>11. /\ Cdf(c) \in Int
         /\ c < Mean => Cdf(c) < 500
         /\ c = Mean => Cdf(c) = 500
         /\ c > Mean => Cdf(c) > 500
    BY <1>8, CdfSides
  <1>12. /\ Cdf(d) \in Int
         /\ d < Mean => Cdf(d) < 500
         /\ d = Mean => Cdf(d) = 500
         /\ d > Mean => Cdf(d) > 500
    BY <1>8, CdfSides
  <1>13. CASE op = "above"
    BY <1>1, <1>7, <1>8, <1>9, <1>10, <1>11, <1>13
  <1>14. CASE op = "below"
    BY <1>1, <1>7, <1>8, <1>9, <1>10, <1>12, <1>14
  <1> QED
    BY <1>13, <1>14

\* The strikes are priced as one distribution.
LEMMA OneDistributionHolds == WeatherIInv => OneDistribution
  <1> SUFFICES ASSUME WeatherIInv, metric \in Temperatures PROVE OneDistribution
    BY DEF OneDistribution
  <1>0. WeatherTypeOK /\ Strikes \subseteq Int
    BY WeatherAssumption DEF WeatherIInv
  <1>1. ASSUME Scored, NEW n \in Strikes
        PROVE  Satisfying(seenAt, Single("above", n)) + Satisfying(seenAt, Single("below", n))
                 + Satisfying(seenAt, Band(n, n)) = Len(seenAt.members)
    BY <1>0, <1>1, ScoredFacts, MembersAreSplit DEF Scored
  <1>2. \A n \in Strikes :
          Parametric(Single("above", n)) + Parametric(Single("below", n))
            + Parametric(Band(n, n)) = 1000
    BY <1>0, NormalIsOneDistribution
  <1>3. ASSUME NEW m \in Strikes, NEW n \in Strikes, m < n
        PROVE  /\ Scored => EnsembleProb(seenAt, Single("above", m))
                              >= EnsembleProb(seenAt, Single("above", n))
               /\ Parametric(Single("above", m)) >= Parametric(Single("above", n))
    <2>1. m \in Int /\ n \in Int
      BY <1>0
    <2> QED
      BY <1>0, <1>3, <2>1, ScoredFacts, HigherIsRarer, NormalIsOneDistribution DEF Scored
  <1> DEFINE unanimous == [hour |-> 0, observation |-> NoReading, lock |-> 0,
                           members |-> [i \in 1 .. MinMembers |-> Mean]]
  <1>4. /\ unanimous.members = [i \in 1 .. MinMembers |-> Mean]
        /\ unanimous.observation = NoReading /\ unanimous.lock = 0
    OBVIOUS
  <1> HIDE DEF unanimous
  <1>5. /\ IsScan(unanimous) /\ ~IsEmpty(unanimous)
        /\ \A i \in DOMAIN unanimous.members : unanimous.members[i] = Mean
    <2>1. MinMembers \in Nat /\ Mean \in Int
      BY <1>0, NormalBounds, WeatherAssumption
    <2>2. unanimous.members \in [1 .. MinMembers -> Int]
      BY <1>4, <2>1
    <2>3. unanimous.members \in Seq(Int) /\ Len(unanimous.members) = MinMembers
      BY <2>1, <2>2, SeqDef, LenProperties
    <2> QED
      BY <1>4, <2>1, <2>3 DEF IsScan, IsEmpty
  <1>6. ASSUME NEW n \in Strikes, NEW op \in {"above", "below"}
        PROVE  /\ EnsembleProb(unanimous, Single(op, n)) = 990 => Parametric(Single(op, n)) >= 500
               /\ EnsembleProb(unanimous, Single(op, n)) = 10 => Parametric(Single(op, n)) <= 500
               /\ Mean % 2 = 0 => Parametric(Single(op, n)) # 500
    <2>1. n \in Int /\ unanimous.observation = NoReading
      BY <1>0, <1>4
    <2> QED
      BY <1>0, <1>5, <2>1, UnanimousAgrees
  <1>7. \A n \in Strikes : \A op \in {"above", "below"} :
          LET prob == EnsembleProb(unanimous, Single(op, n))
              normal == Parametric(Single(op, n))
          IN /\ prob = 990 => normal >= 500
             /\ prob = 10 => normal <= 500
             /\ Mean % 2 = 0 => normal # 500
    BY <1>6
  <1>8. Scored => \A n \in Strikes :
          Satisfying(seenAt, Single("above", n)) + Satisfying(seenAt, Single("below", n))
            + Satisfying(seenAt, Band(n, n)) = Len(seenAt.members)
    BY <1>1
  <1>9. \A m, n \in Strikes : m < n =>
          /\ Scored => EnsembleProb(seenAt, Single("above", m))
                         >= EnsembleProb(seenAt, Single("above", n))
          /\ Parametric(Single("above", m)) >= Parametric(Single("above", n))
    BY <1>3
  <1> QED
    BY <1>2, <1>7, <1>8, <1>9, Zenon DEF OneDistribution, unanimous

\* The uncertainty between the base and the floor falls with the lock.
LEMMA UncertaintyFalls ==
  ASSUME NEW l \in 0 .. 24, NEW k \in 0 .. l
  PROVE  LET at(x) == (EnsembleBase * (24 - x) + ObservationFloor * x) \div 24 IN
         /\ at(l) \in ObservationFloor .. EnsembleBase
         /\ at(l) <= at(k)
  <1>1. l \in Int /\ k \in Int /\ 0 <= k /\ k <= l /\ l <= 24
    OBVIOUS
  <1>2. CASE metric = "precipitation"
    <2>1. EnsembleBase = 50 /\ ObservationFloor = 20
      BY <1>2 DEF EnsembleBase, ObservationFloor
    <2>2. /\ (50 * (24 - l) + 20 * l) \div 24 \in 20 .. 50
          /\ (50 * (24 - l) + 20 * l) \div 24 <= (50 * (24 - k) + 20 * k) \div 24
      BY <1>1
    <2> QED
      BY <2>1, <2>2
  <1>3. CASE metric # "precipitation"
    <2>1. EnsembleBase = 70 /\ ObservationFloor = 20
      BY <1>3 DEF EnsembleBase, ObservationFloor
    <2>2. /\ (70 * (24 - l) + 20 * l) \div 24 \in 20 .. 70
          /\ (70 * (24 - l) + 20 * l) \div 24 <= (70 * (24 - k) + 20 * k) \div 24
      BY <1>1
    <2> QED
      BY <2>1, <2>2
  <1> QED
    BY <1>2, <1>3

\* The side that is shown has the larger of the two edges.
LEMMA BetterSideIsBetter ==
  ASSUME NEW prob \in Int, NEW bid \in Int \cup {Missing}, NEW ask \in Int \cup {Missing}
  PROVE  /\ bid # Missing => BetterSide(prob, bid, ask).edge >= bid * 10 - prob
         /\ ask # Missing => BetterSide(prob, bid, ask).edge >= prob - ask * 10
  <1>1. CASE bid = Missing /\ ask = Missing
    BY <1>1
  <1>2. CASE bid # Missing /\ ask = Missing
    BY <1>2 DEF BetterSide
  <1>3. CASE bid = Missing /\ ask # Missing
    BY <1>3 DEF BetterSide
  <1>4. CASE bid # Missing /\ ask # Missing
    <2>1. bid \in Int /\ ask \in Int
      BY <1>4
    <2>2. BetterSide(prob, bid, ask).edge =
            IF bid * 10 - prob > prob - ask * 10 THEN bid * 10 - prob ELSE prob - ask * 10
      BY <1>4 DEF BetterSide
    <2> QED
      BY <2>1, <2>2
  <1> QED
    BY <1>1, <1>2, <1>3, <1>4

\* No estimate is surer than its data.
LEMMA SureAsTheDataHolds == WeatherIInv => SureAsTheData
  <1> SUFFICES ASSUME WeatherIInv PROVE SureAsTheData
    OBVIOUS
  <1>1. ASSUME seenAt # NoScan
        PROVE  EnsembleUncertainty(seenAt) \in ObservationFloor .. EnsembleBase \cup {1000}
    <2>0. seenAt.lock \in 0 .. 24
      BY <1>1, ScoredFacts DEF IsScan
    <2>1. 0 \in 0 .. seenAt.lock
      BY <2>0
    <2>2. (EnsembleBase * (24 - seenAt.lock) + ObservationFloor * seenAt.lock) \div 24
            \in ObservationFloor .. EnsembleBase
      BY <2>0, <2>1, UncertaintyFalls
    <2>3. EnsembleBase \in ObservationFloor .. EnsembleBase
      BY DEF EnsembleBase, ObservationFloor
    <2> QED
      BY <2>2, <2>3 DEF EnsembleUncertainty
  <1>2. ASSUME Scored, seenAt.observation # NoReading, NEW lock \in 0 .. seenAt.lock
        PROVE  EnsembleUncertainty(seenAt) <= EnsembleUncertainty([seenAt EXCEPT !.lock = lock])
    <2> DEFINE before == [seenAt EXCEPT !.lock = lock]
    <2>1. seenAt.lock \in 0 .. 24
      BY <1>2, ScoredFacts DEF Scored, IsScan
    <2>2. /\ before.lock = lock
          /\ before.members = seenAt.members
          /\ before.observation = seenAt.observation
      OBVIOUS
    <2> HIDE DEF before
    <2>3. ~IsEmpty(seenAt) /\ ~IsEmpty(before)
      BY <1>2, <2>2 DEF Scored, IsEmpty
    <2>4. /\ EnsembleUncertainty(seenAt) =
               (EnsembleBase * (24 - seenAt.lock) + ObservationFloor * seenAt.lock) \div 24
          /\ EnsembleUncertainty(before) =
               (EnsembleBase * (24 - lock) + ObservationFloor * lock) \div 24
      BY <1>2, <2>2, <2>3 DEF EnsembleUncertainty
    <2>5. (EnsembleBase * (24 - seenAt.lock) + ObservationFloor * seenAt.lock) \div 24
            <= (EnsembleBase * (24 - lock) + ObservationFloor * lock) \div 24
      BY <2>1, UncertaintyFalls
    <2> QED
      BY <2>4, <2>5 DEF before
  <1>3. AuthorityIsEmpty <=> AuthorityUncertainty = 1000
    BY DEF AuthorityUncertainty
  <1>4. AuthorityIsEmpty => \A strike \in AllStrikes : AuthorityProb(strike) = 500
    BY DEF AuthorityProb
  <1>5. ASSUME Scored, NEW strike \in AllStrikes,
               NEW q \in {<<30, 40>>, <<60, Missing>>, <<Missing, 20>>}
        PROVE  LET better == BetterSide(EnsembleProb(seenAt, strike), q[1], q[2]) IN
               /\ q[1] # Missing => better.edge >= q[1] * 10 - EnsembleProb(seenAt, strike)
               /\ q[2] # Missing => better.edge >= EnsembleProb(seenAt, strike) - q[2] * 10
    <2>1. EnsembleProb(seenAt, strike) \in Int
      BY <1>5, ScoredFacts, ProbType DEF Scored
    <2>2. q[1] \in Int \cup {Missing} /\ q[2] \in Int \cup {Missing}
      OBVIOUS
    <2> QED
      BY <2>1, <2>2, BetterSideIsBetter
  <1>6. SurerWithTheLock
    BY <1>1, <1>2 DEF SurerWithTheLock
  <1>7. NoDataNoWeight
    BY <1>3, <1>4 DEF NoDataNoWeight
  <1>8. LargerEdgeIsShown
    BY <1>5, Zenon DEF LargerEdgeIsShown
  <1> QED
    BY <1>6, <1>7, <1>8 DEF SureAsTheData

(* The estimates of a weather event agree with the day, with one another   *)
(* and with what is known: a strike the readings have decided is priced at *)
(* the bound of its outcome whatever the ensemble said and the day brings, *)
(* the strikes are priced as one distribution in both estimates, and no    *)
(* estimate is surer than its data.                                        *)
THEOREM WeatherReadRight == WeatherSpec => []WeatherIsReadRight
  <1>1. WeatherIInv => WeatherIsReadRight
    BY DecidedIsPricedHolds, OneDistributionHolds, SureAsTheDataHolds DEF WeatherIsReadRight
  <1> QED
    BY <1>1, WeatherAlways, PTL

---------------------------------------------------------------------------
(* MarketSignals: the two readings of a market agree with its data and     *)
(* with one another.                                                       *)

\* The best and the worst price of a list that is not empty.
LEMMA HighestFacts ==
  ASSUME NEW s \in Seq(Int), s # <<>>
  PROVE  /\ HighestOf(s) \in Int
         /\ \A i \in DOMAIN s : s[i] <= HighestOf(s)
         /\ \E i \in DOMAIN s : s[i] = HighestOf(s)
  <1>1. DOMAIN s = 1 .. Len(s) /\ Len(s) \in Nat /\ Len(s) # 0
    OBVIOUS
  <1>2. IsFiniteSet(DOMAIN s) /\ DOMAIN s # {} /\ s \in [DOMAIN s -> Int]
    <2>1. IsFiniteSet(1 .. Len(s))
      BY <1>1, FS_Interval
    <2>2. 1 \in DOMAIN s
      BY <1>1
    <2> QED
      BY <1>1, <2>1, <2>2
  <1>3. PICK m \in DOMAIN s : \A j \in DOMAIN s : s[j] <= s[m]
    BY <1>2, LargestValue
  <1>4. PICK n \in DOMAIN s : /\ HighestOf(s) = s[n]
                              /\ \A j \in DOMAIN s : s[n] >= s[j]
    <2>1. \A j \in DOMAIN s : s[m] >= s[j]
      BY <1>2, <1>3
    <2> QED
      BY <2>1 DEF HighestOf
  <1> QED
    BY <1>2, <1>4

LEMMA LowestFacts ==
  ASSUME NEW s \in Seq(Int), s # <<>>
  PROVE  /\ LowestOf(s) \in Int
         /\ \A i \in DOMAIN s : LowestOf(s) <= s[i]
         /\ \E i \in DOMAIN s : s[i] = LowestOf(s)
  <1>1. DOMAIN s = 1 .. Len(s) /\ Len(s) \in Nat /\ Len(s) # 0
    OBVIOUS
  <1>2. IsFiniteSet(DOMAIN s) /\ DOMAIN s # {} /\ s \in [DOMAIN s -> Int]
    <2>1. IsFiniteSet(1 .. Len(s))
      BY <1>1, FS_Interval
    <2>2. 1 \in DOMAIN s
      BY <1>1
    <2> QED
      BY <1>1, <2>1, <2>2
  <1> DEFINE h == [i \in DOMAIN s |-> -s[i]]
  <1>3. h \in [DOMAIN s -> Int]
    BY <1>2
  <1>4. PICK m \in DOMAIN s : \A j \in DOMAIN s : h[j] <= h[m]
    <2> HIDE DEF h
    <2> QED
      BY <1>2, <1>3, LargestValue
  <1>5. \A j \in DOMAIN s : s[m] <= s[j]
    BY <1>2, <1>4
  <1>6. PICK n \in DOMAIN s : /\ LowestOf(s) = s[n]
                              /\ \A j \in DOMAIN s : s[n] <= s[j]
    BY <1>5 DEF LowestOf
  <1> QED
    BY <1>2, <1>6

\* The prices of a side of a book.
LEMMA PricesFacts ==
  ASSUME NEW levels \in Seq((1 .. 99) \X Nat)
  PROVE  /\ Prices(levels) \in Seq(Int)
         /\ DOMAIN Prices(levels) = DOMAIN levels
         /\ DOMAIN levels = 1 .. Len(levels) /\ IsFiniteSet(DOMAIN levels)
         /\ levels # <<>> => Prices(levels) # <<>>
         /\ \A i \in DOMAIN levels :
              /\ Prices(levels)[i] = levels[i][1]
              /\ levels[i][1] \in Int /\ 1 <= levels[i][1] /\ levels[i][1] <= 99
              /\ levels[i][2] \in Nat
  <1>1. DOMAIN levels = 1 .. Len(levels) /\ Len(levels) \in Nat
    OBVIOUS
  <1>2. \A i \in DOMAIN levels : levels[i] \in (1 .. 99) \X Nat
    BY <1>1
  <1>3. \A i \in DOMAIN levels :
          /\ levels[i][1] \in Int /\ 1 <= levels[i][1] /\ levels[i][1] <= 99
          /\ levels[i][2] \in Nat
    <2>1. \A level \in (1 .. 99) \X Nat :
            level[1] \in 1 .. 99 /\ level[2] \in Nat
      OBVIOUS
    <2>2. \A n \in 1 .. 99 : n \in Int /\ 1 <= n /\ n <= 99
      OBVIOUS
    <2> QED
      BY <1>2, <2>1, <2>2, Zenon
  <1>4. Prices(levels) \in [1 .. Len(levels) -> Int]
    BY <1>1, <1>3 DEF Prices
  <1>5. Prices(levels) \in Seq(Int) /\ DOMAIN Prices(levels) = DOMAIN levels
    BY <1>1, <1>4
  <1>6. levels # <<>> => Prices(levels) # <<>>
    <2>1. levels # <<>> => 1 \in DOMAIN levels
      BY <1>1
    <2>2. DOMAIN <<>> = {}
      OBVIOUS
    <2> QED
      BY <1>5, <2>1, <2>2
  <1>7. IsFiniteSet(DOMAIN levels)
    BY <1>1, FS_Interval
  <1>8. \A i \in DOMAIN levels : Prices(levels)[i] = levels[i][1]
    BY DEF Prices
  <1> QED
    BY <1>1, <1>3, <1>5, <1>6, <1>7, <1>8

\* The known quote is the best of the book that was read.
QuoteFromBook ==
  /\ depth # NoneLive /\ depth.yes # <<>> => snap.bid = TopOfBook(depth).bid
  /\ depth # NoneLive /\ depth.no # <<>> => snap.ask = TopOfBook(depth).ask

MarketIInv == MarketTypeOK /\ QuoteFromBook

\* What a book shows.
LEMMA BookFacts ==
  ASSUME NEW book \in LiveBooks
  PROVE  /\ book.yes \in Seq((1 .. 99) \X Nat) /\ book.no \in Seq((1 .. 99) \X Nat)
         /\ \A i \in DOMAIN book.yes, j \in DOMAIN book.no : book.yes[i][1] + book.no[j][1] < 100
  BY MarketAssumption

\* A level of a book is the price of a market.
LEMMA LevelIsAPrice ==
  ASSUME NEW n \in Int, 1 <= n, n <= 99
  PROVE  n \in 0 .. 100
  OBVIOUS

\* The best level of each side, and the worst of the NO side.
LEMMA TopFacts ==
  ASSUME NEW book \in LiveBooks
  PROVE  /\ book.yes = <<>> => TopOfBook(book).bid = Absent
         /\ book.yes # <<>> =>
              /\ TopOfBook(book).bid \in Int
              /\ 1 <= TopOfBook(book).bid /\ TopOfBook(book).bid <= 99
              /\ \A i \in DOMAIN book.yes : book.yes[i][1] <= TopOfBook(book).bid
              /\ \E i \in DOMAIN book.yes : book.yes[i][1] = TopOfBook(book).bid
         /\ book.no = <<>> => TopOfBook(book).ask = Absent
         /\ book.no # <<>> =>
              /\ TopOfBook(book).ask \in Int
              /\ 1 <= TopOfBook(book).ask /\ TopOfBook(book).ask <= 99
              /\ \A j \in DOMAIN book.no : book.no[j][1] <= 100 - TopOfBook(book).ask
              /\ \E j \in DOMAIN book.no : book.no[j][1] = 100 - TopOfBook(book).ask
  <1>1. book.yes = <<>> => TopOfBook(book).bid = Absent
    BY DEF TopOfBook
  <1>2. book.no = <<>> => TopOfBook(book).ask = Absent
    BY DEF TopOfBook
  <1>3. ASSUME book.yes # <<>>
        PROVE  /\ TopOfBook(book).bid \in Int
               /\ 1 <= TopOfBook(book).bid /\ TopOfBook(book).bid <= 99
               /\ \A i \in DOMAIN book.yes : book.yes[i][1] <= TopOfBook(book).bid
               /\ \E i \in DOMAIN book.yes : book.yes[i][1] = TopOfBook(book).bid
    <2>1. PICK levels : levels = book.yes
      OBVIOUS
    <2>2. levels \in Seq((1 .. 99) \X Nat) /\ levels # <<>>
      BY <1>3, <2>1, BookFacts
    <2>3. TopOfBook(book).bid = HighestOf(Prices(levels))
      BY <1>3, <2>1 DEF TopOfBook
    <2>4. Prices(levels) \in Seq(Int) /\ Prices(levels) # <<>>
      BY <2>2, PricesFacts
    <2>5. /\ HighestOf(Prices(levels)) \in Int
          /\ \A i \in DOMAIN Prices(levels) : Prices(levels)[i] <= HighestOf(Prices(levels))
          /\ \E i \in DOMAIN Prices(levels) : Prices(levels)[i] = HighestOf(Prices(levels))
      BY <2>4, HighestFacts
    <2>6. /\ DOMAIN Prices(levels) = DOMAIN levels
          /\ \A i \in DOMAIN levels :
               /\ Prices(levels)[i] = levels[i][1]
               /\ levels[i][1] \in Int /\ 1 <= levels[i][1] /\ levels[i][1] <= 99
      BY <2>2, PricesFacts
    <2> QED
      BY <2>1, <2>3, <2>5, <2>6
  <1>4. ASSUME book.no # <<>>
        PROVE  /\ TopOfBook(book).ask \in Int
               /\ 1 <= TopOfBook(book).ask /\ TopOfBook(book).ask <= 99
               /\ \A j \in DOMAIN book.no : book.no[j][1] <= 100 - TopOfBook(book).ask
               /\ \E j \in DOMAIN book.no : book.no[j][1] = 100 - TopOfBook(book).ask
    <2>1. PICK levels : levels = book.no
      OBVIOUS
    <2>2. levels \in Seq((1 .. 99) \X Nat) /\ levels # <<>>
      BY <1>4, <2>1, BookFacts
    <2>3. TopOfBook(book).ask = 100 - HighestOf(Prices(levels))
      BY <1>4, <2>1 DEF TopOfBook
    <2>4. Prices(levels) \in Seq(Int) /\ Prices(levels) # <<>>
      BY <2>2, PricesFacts
    <2>5. /\ HighestOf(Prices(levels)) \in Int
          /\ \A i \in DOMAIN Prices(levels) : Prices(levels)[i] <= HighestOf(Prices(levels))
          /\ \E i \in DOMAIN Prices(levels) : Prices(levels)[i] = HighestOf(Prices(levels))
      BY <2>4, HighestFacts
    <2>6. /\ DOMAIN Prices(levels) = DOMAIN levels
          /\ \A i \in DOMAIN levels :
               /\ Prices(levels)[i] = levels[i][1]
               /\ levels[i][1] \in Int /\ 1 <= levels[i][1] /\ levels[i][1] <= 99
      BY <2>2, PricesFacts
    <2> QED
      BY <2>1, <2>3, <2>5, <2>6
  <1> QED
    BY <1>1, <1>2, <1>3, <1>4

\* Before a book is read, no market is quoted from one.
LEMMA MarketInitInv == MarketInit => MarketIInv
  <1> SUFFICES ASSUME MarketInit PROVE MarketIInv
    OBVIOUS
  <1>1. hourly \in Seq(HourCandles) /\ Len(hourly) = 0
    BY EmptySeq DEF MarketInit
  <1>2. takers \in Seq(Takers) /\ Len(takers) = 0
    BY EmptySeq DEF MarketInit
  <1>3. snap \in [bid : 0 .. 100, ask : 0 .. 100, volume : Nat, oi : Nat, hours : Nat]
    BY MarketAssumption DEF MarketInit
  <1> QED
    BY <1>1, <1>2, <1>3, MarketAssumption DEF MarketInit, MarketIInv, MarketTypeOK, QuoteFromBook

\* Reading a book puts its best levels in the quote; nothing else moves it.
LEMMA MarketStep == MarketIInv /\ [MarketNext]_marketVars => MarketIInv'
  <1> SUFFICES ASSUME MarketIInv, [MarketNext]_marketVars PROVE MarketIInv'
    OBVIOUS
  <1> USE DEF MarketIInv, MarketTypeOK, QuoteFromBook
  <1>1. ASSUME NEW c \in HourCandles, HourIsCached(c) PROVE MarketIInv'
    <2>1. hourly' \in Seq(HourCandles) /\ Len(hourly') = Len(hourly) + 1
      BY <1>1, AppendProperties DEF HourIsCached
    <2>2. Len(hourly') <= MaxCandles
      BY <1>1, <2>1, MarketAssumption, LenProperties DEF HourIsCached
    <2> QED
      BY <1>1, <2>1, <2>2 DEF HourIsCached
  <1>2. ASSUME NEW t \in Takers, TakerTrades(t) PROVE MarketIInv'
    <2>1. takers' \in Seq(Takers) /\ Len(takers') = Len(takers) + 1
      BY <1>2, AppendProperties DEF TakerTrades
    <2>2. Len(takers') <= MaxTakers
      BY <1>2, <2>1, MarketAssumption, LenProperties DEF TakerTrades
    <2> QED
      BY <1>2, <2>1, <2>2 DEF TakerTrades
  <1>3. ASSUME NEW book \in LiveBooks, EnrichWithLive(book) PROVE MarketIInv'
    <2> DEFINE top == TopOfBook(book)
    <2>1. depth' = book /\ UNCHANGED <<daily, hourly, takers>>
      BY <1>3 DEF EnrichWithLive
    <2>2. snap' = [snap EXCEPT !.bid = IF top.bid = Absent THEN @ ELSE top.bid,
                               !.ask = IF top.ask = Absent THEN @ ELSE top.ask]
      BY <1>3 DEF EnrichWithLive
    <2>3. /\ top.bid # Absent => top.bid \in 0 .. 100
          /\ top.ask # Absent => top.ask \in 0 .. 100
      <3>1. /\ book.yes # <<>> => top.bid \in Int /\ 1 <= top.bid /\ top.bid <= 99
            /\ book.no # <<>> => top.ask \in Int /\ 1 <= top.ask /\ top.ask <= 99
            /\ book.yes = <<>> => top.bid = Absent
            /\ book.no = <<>> => top.ask = Absent
        BY TopFacts
      <3> HIDE DEF top
      <3>2. top.bid # Absent => top.bid \in 0 .. 100
        BY <3>1, LevelIsAPrice, Zenon
      <3>3. top.ask # Absent => top.ask \in 0 .. 100
        BY <3>1, LevelIsAPrice, Zenon
      <3> QED
        BY <3>2, <3>3
    <2>4. snap' \in [bid : 0 .. 100, ask : 0 .. 100, volume : Nat, oi : Nat, hours : Nat]
      <3> HIDE DEF top
      <3> QED
        BY <2>2, <2>3
    <2>5. /\ book.yes # <<>> => top.bid # Absent
          /\ book.no # <<>> => top.ask # Absent
      BY TopFacts, MarketAssumption
    <2>6. /\ book.yes # <<>> => snap'.bid = top.bid
          /\ book.no # <<>> => snap'.ask = top.ask
      <3> HIDE DEF top
      <3> QED
        BY <2>2, <2>5
    <2>7. /\ depth'.yes # <<>> => snap'.bid = TopOfBook(depth').bid
          /\ depth'.no # <<>> => snap'.ask = TopOfBook(depth').ask
      BY <2>1, <2>6, Zenon
    <2>8. TopOfBook(depth)' = TopOfBook(depth')
      BY DEF TopOfBook, HighestOf, Prices
    <2> QED
      BY <2>1, <2>4, <2>7, <2>8
  <1>4. CASE UNCHANGED marketVars
    BY <1>4 DEF marketVars, TopOfBook, HighestOf, Prices
  <1> QED
    BY <1>1, <1>2, <1>3, <1>4 DEF MarketNext

\* Of a book that was read whole, the quote is the best of both sides.
LEMMA QuoteIsLiveHolds == MarketIInv => QuoteIsLive
  <1> SUFFICES ASSUME MarketIInv, depth # NoneLive, depth.yes # <<>>, depth.no # <<>>
               PROVE  /\ \A i \in DOMAIN depth.yes : depth.yes[i][1] <= snap.bid
                      /\ \A i \in DOMAIN depth.no : snap.ask <= 100 - depth.no[i][1]
                      /\ snap.bid < snap.ask
    BY DEF QuoteIsLive
  <1>1. depth \in LiveBooks /\ snap.bid = TopOfBook(depth).bid /\ snap.ask = TopOfBook(depth).ask
    BY DEF MarketIInv, MarketTypeOK, QuoteFromBook
  <1>2. /\ snap.bid \in Int
        /\ \A i \in DOMAIN depth.yes : depth.yes[i][1] <= snap.bid
        /\ \E i \in DOMAIN depth.yes : depth.yes[i][1] = snap.bid
        /\ snap.ask \in Int
        /\ \A j \in DOMAIN depth.no : depth.no[j][1] <= 100 - snap.ask
        /\ \E j \in DOMAIN depth.no : depth.no[j][1] = 100 - snap.ask
    BY <1>1, TopFacts
  <1>3. \A j \in DOMAIN depth.no : depth.no[j][1] \in Int
    BY <1>1, BookFacts, PricesFacts
  <1>4. \A i \in DOMAIN depth.yes, j \in DOMAIN depth.no : depth.yes[i][1] + depth.no[j][1] < 100
    BY <1>1, BookFacts
  <1>5. snap.bid < snap.ask
    BY <1>2, <1>4
  <1>6. \A i \in DOMAIN depth.no : snap.ask <= 100 - depth.no[i][1]
    BY <1>2, <1>3
  <1> QED
    BY <1>2, <1>5, <1>6

\* The whole size of a side of a book.
LEMMA RestingType ==
  ASSUME NEW levels \in Seq((1 .. 99) \X Nat)
  PROVE  RestingSize(levels) \in Nat
  <1> DEFINE sizes == [i \in DOMAIN levels |-> levels[i][2]]
  <1>1. IsFiniteSet(DOMAIN levels) /\ sizes \in [DOMAIN levels -> Nat]
    BY PricesFacts
  <1> HIDE DEF sizes
  <1>2. SumOver(DOMAIN levels, sizes) \in Nat
    BY <1>1, SumOfNaturals
  <1> QED
    BY <1>2 DEF RestingSize, sizes

\* A quotient that is cut off has the sign of what is divided, and of
\* hundredths it is nothing up to a hundred.
LEMMA RatioFacts ==
  ASSUME NEW a \in Int, NEW n \in Nat \ {0}
  PROVE  /\ Ratio(a, n) \in Int
         /\ 0 <= a => 0 <= Ratio(a, n)
         /\ a <= 0 => Ratio(a, n) <= 0
  <1>1. a \div n \in Int /\ (0 <= a => 0 <= a \div n)
    OBVIOUS
  <1>2. (-a) \div n \in Int /\ (a <= 0 => 0 <= (-a) \div n)
    OBVIOUS
  <1>3. a = 0 => a \div n = 0
    OBVIOUS
  <1> QED
    BY <1>1, <1>2, <1>3 DEF Ratio

\* The maker's spread is the live one or wider, and its estimate rises with
\* the side that has more resting.
LEMMA MakerSpreadHolds == MarketIInv => MakerSpreadIsLive
  <1> SUFFICES ASSUME MarketIInv, depth # NoneLive, MakerSpread(depth) # Absent
               PROVE  /\ MakerSpread(depth) >= TopOfBook(depth).ask - TopOfBook(depth).bid
                      /\ (\A i, j \in DOMAIN depth.no : depth.no[i][1] = depth.no[j][1]) =>
                           MakerSpread(depth) = TopOfBook(depth).ask - TopOfBook(depth).bid
                      /\ MakerProb(depth) # Absent /\ Mid \in 10 .. 90 =>
                           (MakerProb(depth) > Mid * 10 => MakerImbalance(depth) > 0)
    BY DEF MakerSpreadIsLive
  <1>1. depth \in LiveBooks
    BY DEF MarketIInv, MarketTypeOK
  <1>2. depth.yes # <<>> /\ depth.no # <<>>
    BY DEF MakerSpread
  <1> DEFINE low == LowestOf(Prices(depth.no))
             high == HighestOf(Prices(depth.no))
             bid == TopOfBook(depth).bid
  <1>3. /\ TopOfBook(depth).ask = 100 - high
        /\ MakerSpread(depth) = (100 - low) - bid
    BY <1>2 DEF TopOfBook, MakerSpread
  <1>4. bid \in Int
    BY <1>1, <1>2, TopFacts
  <1>5. /\ low \in Int /\ high \in Int /\ low <= high
        /\ (\A i, j \in DOMAIN depth.no : depth.no[i][1] = depth.no[j][1]) => low = high
    <2>1. PICK levels : levels = depth.no
      OBVIOUS
    <2>2. levels \in Seq((1 .. 99) \X Nat) /\ levels # <<>>
      BY <1>1, <1>2, <2>1, BookFacts
    <2>3. Prices(levels) \in Seq(Int) /\ Prices(levels) # <<>>
      BY <2>2, PricesFacts
    <2>4. PICK s : s = Prices(levels)
      OBVIOUS
    <2>5. PICK i \in DOMAIN s : s[i] = LowestOf(s) /\ s[i] \in Int
      BY <2>3, <2>4, LowestFacts
    <2>6. PICK j \in DOMAIN s : s[j] = HighestOf(s) /\ s[j] \in Int
      BY <2>3, <2>4, HighestFacts
    <2>7. LowestOf(s) <= s[j]
      BY <2>3, <2>4, <2>6, LowestFacts
    <2>8. i \in DOMAIN levels /\ j \in DOMAIN levels /\ s[i] = levels[i][1] /\ s[j] = levels[j][1]
      BY <2>2, <2>4, <2>5, <2>6, PricesFacts
    <2>9. low = LowestOf(s) /\ high = HighestOf(s)
      BY <2>1, <2>4
    <2> HIDE DEF low, high
    <2> QED
      BY <2>1, <2>5, <2>6, <2>7, <2>8, <2>9
  <1>6. ASSUME MakerProb(depth) # Absent, Mid \in 10 .. 90, MakerProb(depth) > Mid * 10
        PROVE  MakerImbalance(depth) > 0
    <2>1. RestingSize(depth.yes) \in Nat /\ RestingSize(depth.no) \in Nat
      BY <1>1, BookFacts, RestingType
    <2>2. PICK y, n : y = RestingSize(depth.yes) /\ n = RestingSize(depth.no)
      OBVIOUS
    <2>3. MakerImbalance(depth) \in Int
      <3>1. CASE y + n = 0
        BY <2>2, <3>1 DEF MakerImbalance
      <3>2. CASE y + n # 0
        <4>1. (y - n) * 1000 \in Int /\ y + n \in Nat \ {0}
          BY <2>1, <2>2, <3>2
        <4>2. Ratio((y - n) * 1000, y + n) \in Int
          BY <4>1, RatioFacts
        <4> QED
          BY <2>2, <3>2, <4>2 DEF MakerImbalance
      <3> QED
        BY <3>1, <3>2
    <2>4. PICK w : w = MakerImbalance(depth)
      OBVIOUS
    <2>5. PICK r : r = Ratio(w * 25, 100)
      OBVIOUS
    <2>6. r \in Int /\ (w <= 0 => r <= 0)
      <3>1. w * 25 \in Int /\ (w <= 0 => w * 25 <= 0)
        BY <2>3, <2>4
      <3> QED
        BY <2>5, <3>1, RatioFacts
    <2>7. MakerProb(depth) = Within(100, Mid * 10 + r, 900)
      BY <1>6, <2>4, <2>5 DEF MakerProb
    <2>8. PICK m \in Int : m = Mid /\ 10 <= m /\ m <= 90
      BY <1>6
    <2>9. Within(100, m * 10 + r, 900) > m * 10
      BY <1>6, <2>7, <2>8
    <2>10. r > 0
      BY <2>6, <2>8, <2>9 DEF Within, LesserOf, GreaterOf
    <2> QED
      BY <2>3, <2>4, <2>6, <2>10
  <1> HIDE DEF low, high, bid
  <1>7. /\ MakerSpread(depth) >= TopOfBook(depth).ask - bid
        /\ (\A i, j \in DOMAIN depth.no : depth.no[i][1] = depth.no[j][1]) =>
             MakerSpread(depth) = TopOfBook(depth).ask - bid
    BY <1>3, <1>4, <1>5
  <1> QED
    BY <1>6, <1>7 DEF bid

\* The middle of the quote.
LEMMA MiddleFacts ==
  ASSUME MarketTypeOK
  PROVE  Mid \in Int /\ 0 <= Mid /\ Mid <= 100
  <1>1. snap.bid \in 0 .. 100 /\ snap.ask \in 0 .. 100
    BY DEF MarketTypeOK
  <1>2. PICK b \in Int, a \in Int : b = snap.bid /\ a = snap.ask /\ 0 <= b /\ b <= 100 /\ 0 <= a /\ a <= 100
    BY <1>1
  <1>3. (b + a) \div 2 \in Int /\ 0 <= (b + a) \div 2 /\ (b + a) \div 2 <= 100
    BY <1>2
  <1> QED
    BY <1>2, <1>3 DEF Mid

\* The closes that are there, of any candles.
LEMMA ClosesFacts ==
  ASSUME NEW candles \in Seq(HourCandles)
  PROVE  Closes(candles) \in Seq(0 .. 100)
  <1> DEFINE s == [i \in DOMAIN candles |-> candles[i].close]
             present == {i \in DOMAIN candles : candles[i].close # Absent}
             Any == 0 .. 100 \cup {Absent}
  <1>1. DOMAIN candles = 1 .. Len(candles) /\ Len(candles) \in Nat
    OBVIOUS
  <1>2. \A i \in DOMAIN candles : candles[i].close \in Any
    BY <1>1, MarketAssumption
  <1>3. s \in Seq(Any)
    BY <1>1, <1>2
  <1>4. 0 .. 100 \in SUBSET Any
    OBVIOUS
  <1>5. \A i \in DOMAIN s : i \in present => s[i] \in 0 .. 100
    BY <1>2
  <1> HIDE DEF s, present, Any
  <1>6. ItemsAt(s, present) \in Seq(0 .. 100)
    BY <1>3, <1>4, <1>5, KeptKind
  <1> QED
    BY <1>6 DEF Closes, s, present

LEMMA LastFourType ==
  ASSUME NEW candles \in Seq(HourCandles), Len(candles) >= 4
  PROVE  LastFour(candles) \in Seq(HourCandles)
  BY SubSeqProperties DEF LastFour

\* The first and the last close of a list that has two.
LEMMA EndsFacts ==
  ASSUME NEW s \in Seq(0 .. 100), Len(s) >= 2
  PROVE  s[Len(s)] \in Int /\ s[1] \in Int
  <1>1. Len(s) \in DOMAIN s /\ 1 \in DOMAIN s
    OBVIOUS
  <1>2. s[Len(s)] \in 0 .. 100 /\ s[1] \in 0 .. 100
    BY <1>1
  <1>3. \A n \in 0 .. 100 : n \in Int
    OBVIOUS
  <1> QED
    BY <1>2, <1>3, Zenon

LEMMA PercentFacts ==
  ASSUME NEW s \in Seq(0 .. 100)
  PROVE  /\ s \in Seq(Int)
         /\ \A i \in DOMAIN s : s[i] \in Int /\ 0 <= s[i] /\ s[i] <= 100
  <1> DEFINE P == 0 .. 100
  <1>1. \A n \in P : n \in Int /\ 0 <= n /\ n <= 100
    OBVIOUS
  <1>2. s \in Seq(P)
    OBVIOUS
  <1> HIDE DEF P
  <1>3. \A i \in DOMAIN s : s[i] \in P
    BY <1>2
  <1>4. DOMAIN s = 1 .. Len(s) /\ Len(s) \in Nat
    BY <1>2
  <1>5. s \in [1 .. Len(s) -> Int]
    BY <1>1, <1>2, <1>3, <1>4
  <1>6. s \in Seq(Int)
    BY <1>4, <1>5
  <1> QED
    BY <1>1, <1>3, <1>6

\* Where the middle of the quote is in the range of an append of it.
PositionIn(low, range) ==
  /\ low \in Int /\ 0 <= low /\ range \in Int /\ low + range <= 100
  /\ 0 <= Mid - low /\ Mid - low <= range

LEMMA RangeFacts ==
  ASSUME MarketTypeOK
  PROVE  LET prices == Append(Closes(hourly), Mid)
             low == LowestOf(prices)
         IN PositionIn(low, HighestOf(prices) - low)
  <1> DEFINE prices == Append(Closes(hourly), Mid)
  <1>1. Closes(hourly) \in Seq(0 .. 100)
    BY ClosesFacts DEF MarketTypeOK
  <1>2. Mid \in 0 .. 100
    BY MiddleFacts
  <1>3. /\ prices \in Seq(0 .. 100) /\ Len(prices) = Len(Closes(hourly)) + 1
        /\ prices[Len(prices)] = Mid
    BY <1>1, <1>2, AppendProperties
  <1>4. PICK s : s = prices
    OBVIOUS
  <1> HIDE DEF prices
  <1>5. s \in Seq(0 .. 100) /\ Len(s) \in DOMAIN s /\ s[Len(s)] = Mid /\ s # <<>>
    <2>1. Len(Closes(hourly)) \in Nat
      BY <1>1
    <2> QED
      BY <1>3, <1>4, <2>1
  <1>6. \A i \in DOMAIN s : s[i] \in Int /\ 0 <= s[i] /\ s[i] <= 100
    BY <1>5, PercentFacts
  <1>7. s \in Seq(Int)
    BY <1>5, PercentFacts
  <1>8. PICK low : low = LowestOf(s)
    OBVIOUS
  <1>9. PICK high : high = HighestOf(s)
    OBVIOUS
  <1>10. /\ low \in Int /\ low <= Mid
         /\ \E i \in DOMAIN s : s[i] = low
    BY <1>5, <1>7, <1>8, LowestFacts
  <1>11. /\ high \in Int /\ Mid <= high
         /\ \E i \in DOMAIN s : s[i] = high
    BY <1>5, <1>7, <1>9, HighestFacts
  <1>12. 0 <= low /\ high <= 100
    BY <1>6, <1>10, <1>11
  <1>13. PositionIn(low, high - low)
    BY <1>10, <1>11, <1>12, MiddleFacts DEF PositionIn
  <1> QED
    BY <1>4, <1>8, <1>9, <1>13 DEF prices

\* Both readings of the position in the range, from the same numbers.
LEMMA PositionFacts ==
  ASSUME MarketTypeOK
  PROVE  \/ RangePosition(hourly) = Absent /\ HlPosition(hourly) = Absent
         \/ \E low, range \in Int :
              /\ PositionIn(low, range) /\ 2 <= range
              /\ RangePosition(hourly) = ((Mid - low) * 1000) \div range
              /\ HlPosition(hourly) = Magnitude(((Mid - low) * 2000) \div range - 1000)
  <1> DEFINE prices == Append(Closes(hourly), Mid)
             some == ~(hourly = <<>> \/ Len(prices) < 2 \/ HighestOf(prices) - LowestOf(prices) < 2)
  <1>1. PICK low : low = LowestOf(prices)
    OBVIOUS
  <1>2. PICK range : range = HighestOf(prices) - low
    OBVIOUS
  <1>3. PositionIn(low, range)
    BY <1>1, <1>2, RangeFacts
  <1>4. CASE ~some
    <2>1. hourly = <<>> \/ Len(prices) < 2 \/ range < 2
      BY <1>1, <1>2, <1>4
    <2>2. RangePosition(hourly) = Absent /\ HlPosition(hourly) = Absent
      BY <1>1, <1>2, <2>1 DEF RangePosition, HlPosition
    <2> QED
      BY <2>2
  <1>5. CASE some
    <2>1. ~(hourly = <<>> \/ Len(prices) < 2 \/ range < 2)
      BY <1>1, <1>2, <1>5
    <2>2. /\ RangePosition(hourly) = ((Mid - low) * 1000) \div range
          /\ HlPosition(hourly) = Magnitude(((Mid - low) * 2000) \div range - 1000)
      BY <1>1, <1>2, <2>1 DEF RangePosition, HlPosition
    <2>3. low \in Int /\ range \in Int /\ 2 <= range
      BY <1>3, <2>1 DEF PositionIn
    <2> QED
      BY <1>3, <2>2, <2>3
  <1> QED
    BY <1>4, <1>5

\* What was taken on a side, and the depth of one.
LEMMA TakenType ==
  ASSUME MarketTypeOK, NEW side
  PROVE  TakenOn(side) \in Nat
  <1> DEFINE taken == {i \in DOMAIN takers : takers[i].side = side}
             counts == [i \in taken |-> takers[i].count]
  <1>1. takers \in Seq(Takers) /\ DOMAIN takers = 1 .. Len(takers) /\ Len(takers) \in Nat
    BY DEF MarketTypeOK
  <1>2. IsFiniteSet(DOMAIN takers)
    BY <1>1, FS_Interval
  <1>3. IsFiniteSet(taken)
    BY <1>2, FS_Subset
  <1>4. counts \in [taken -> Nat]
    BY <1>1, MarketAssumption
  <1> HIDE DEF taken, counts
  <1>5. SumOver(taken, counts) \in Nat
    BY <1>3, <1>4, SumOfNaturals
  <1> QED
    BY <1>5 DEF TakenOn, taken, counts

LEMMA DepthType ==
  ASSUME NEW levels \in Seq((1 .. 99) \X Nat)
  PROVE  DepthNearMid(levels) \in Nat
  <1> DEFINE near == {i \in DOMAIN levels :
                        Magnitude(2 * levels[i][1]
                                  - (LowestOf(Prices(levels)) + HighestOf(Prices(levels)))) <= 10}
             sizes == [i \in near |-> levels[i][2]]
  <1>1. IsFiniteSet(DOMAIN levels) /\ \A i \in DOMAIN levels : levels[i][2] \in Nat
    BY PricesFacts
  <1>2. IsFiniteSet(near)
    BY <1>1, FS_Subset
  <1>3. sizes \in [near -> Nat]
    BY <1>1
  <1>4. DepthNearMid(levels) = IF levels = <<>> THEN 0 ELSE SumOver(near, sizes)
    BY DEF DepthNearMid
  <1> HIDE DEF near, sizes
  <1>5. SumOver(near, sizes) \in Nat
    BY <1>2, <1>3, SumOfNaturals
  <1> QED
    BY <1>4, <1>5

\* The size of a share that is cut off is the share of the size.
LEMMA RatioMagnitude ==
  ASSUME NEW a \in Int, NEW n \in Nat \ {0}
  PROVE  Magnitude(Ratio(a, n)) = Magnitude(a) \div n
  <1>1. CASE a >= 0
    <2>1. a \div n \in Int /\ a \div n >= 0
      BY <1>1
    <2>2. Ratio(a, n) = a \div n /\ Magnitude(a) = a
      BY <1>1 DEF Ratio, Magnitude, GreaterOf
    <2> QED
      BY <2>1, <2>2 DEF Magnitude, GreaterOf
  <1>2. CASE a < 0
    <2>1. (-a) \div n \in Int /\ (-a) \div n >= 0
      BY <1>2
    <2>2. Ratio(a, n) = -((-a) \div n) /\ Magnitude(a) = -a
      BY <1>2 DEF Ratio, Magnitude, GreaterOf
    <2> QED
      BY <2>1, <2>2 DEF Magnitude, GreaterOf
  <1> QED
    BY <1>1, <1>2

\* A quotient of twice as much is twice the quotient, or one more.
LEMMA TwiceFacts ==
  ASSUME NEW a \in Nat, NEW r \in Nat \ {0}
  PROVE  LET p == (a * 1000) \div r
             q == (a * 2000) \div r
         IN p \in Int /\ q \in Int /\ 2 * p <= q /\ q <= 2 * p + 1
  <1>1. PICK x \in Int : x = a * 1000 /\ a * 2000 = 2 * x
    OBVIOUS
  <1>2. PICK p \in Int : p = x \div r /\ p * r <= x /\ x < (p + 1) * r
    BY DivBounds
  <1>3. PICK q \in Int : q = (2 * x) \div r /\ q * r <= 2 * x /\ 2 * x < (q + 1) * r
    BY DivBounds
  <1>4. 2 * p < q + 1
    <2>1. (2 * p) * r = 2 * (p * r) /\ p * r \in Int /\ (q + 1) * r \in Int /\ (2 * p) * r \in Int
      OBVIOUS
    <2>2. (2 * p) * r < (q + 1) * r
      BY <1>2, <1>3, <2>1
    <2> QED
      BY <2>2, TimesKept
  <1>5. q < 2 * p + 2
    <2>1. (2 * p + 2) * r = 2 * ((p + 1) * r) /\ (p + 1) * r \in Int /\ q * r \in Int
          /\ (2 * p + 2) * r \in Int
      OBVIOUS
    <2>2. q * r < (2 * p + 2) * r
      BY <1>2, <1>3, <2>1
    <2> QED
      BY <2>2, TimesKept
  <1> QED
    BY <1>1, <1>2, <1>3, <1>4, <1>5

\* The share of one part of two, about the half, is half of what the two
\* differ by.
LEMMA ShareFacts ==
  ASSUME NEW y \in Nat, NEW n \in Nat, NEW t \in Nat \ {0}, t = y + n
  PROVE  LET half  == (y * 2000) \div t - 1000
             ratio == Ratio((y - n) * 1000, t)
         IN half \in Int /\ ratio \in Int /\ ratio - 1 <= half /\ half <= ratio
  <1>1. t \in Nat \ {0} /\ t \in Int
    OBVIOUS
  <1>2. PICK x \in Int : x = (y - n) * 1000 /\ y * 2000 = x + 1000 * t
    BY <1>1
  <1>3. PICK p \in Int : p = (y * 2000) \div t /\ p * t <= y * 2000 /\ y * 2000 < (p + 1) * t
    <2>1. y * 2000 \in Int
      OBVIOUS
    <2> QED
      BY <2>1, DivBounds
  <1>4. PICK q \in Int : q = p - 1000 /\ q * t <= x /\ x < (q + 1) * t
    <2>1. (p - 1000) * t = p * t - 1000 * t /\ ((p - 1000) + 1) * t = (p + 1) * t - 1000 * t
          /\ p * t \in Int /\ (p + 1) * t \in Int /\ 1000 * t \in Int
      OBVIOUS
    <2>2. (p - 1000) * t <= x /\ x < ((p - 1000) + 1) * t
      BY <1>2, <1>3, <2>1
    <2>3. p - 1000 \in Int
      OBVIOUS
    <2> QED
      BY <2>2, <2>3
  <1>5. CASE x >= 0
    <2>1. PICK r \in Int : r = x \div t /\ r * t <= x /\ x < (r + 1) * t
      BY DivBounds
    <2>2. r < q + 1 /\ q < r + 1
      <3>1. r * t \in Int /\ (r + 1) * t \in Int /\ q * t \in Int /\ (q + 1) * t \in Int
        OBVIOUS
      <3>2. r * t < (q + 1) * t /\ q * t < (r + 1) * t
        BY <1>4, <2>1, <3>1
      <3> QED
        BY <3>2, TimesKept
    <2>3. Ratio(x, t) = r
      BY <1>5, <2>1 DEF Ratio
    <2> QED
      BY <1>1, <1>2, <1>3, <1>4, <2>2, <2>3
  <1>6. CASE x < 0
    <2>1. PICK r \in Int : r = (-x) \div t /\ r * t <= -x /\ -x < (r + 1) * t
      BY DivBounds
    <2>2. -r - 1 < q + 1 /\ q < -r + 1
      <3>1. /\ (-r - 1) * t = -((r + 1) * t) /\ (-r) * t = -(r * t)
            /\ (-r + 1) * t = -(r * t) + t
            /\ r * t \in Int /\ (r + 1) * t \in Int /\ q * t \in Int /\ (q + 1) * t \in Int
        OBVIOUS
      <3>2. t > 0 /\ t \in Int
        OBVIOUS
      <3>3. (-r - 1) * t < (q + 1) * t /\ q * t < (-r + 1) * t
        BY <1>4, <2>1, <3>1, <3>2
      <3> QED
        BY <3>3, TimesKept
    <2>3. Ratio(x, t) = -r
      BY <1>6, <2>1 DEF Ratio
    <2> QED
      BY <1>1, <1>2, <1>3, <1>4, <2>2, <2>3
  <1> QED
    BY <1>5, <1>6

\* What each of the two readings of a quantity is.
LEMMA MagnitudesHold == MarketIInv => MagnitudesMatchDirections
  <1> SUFFICES ASSUME MarketIInv PROVE MagnitudesMatchDirections
    OBVIOUS
  <1>0. MarketTypeOK /\ Absent \notin Int
    BY MarketAssumption DEF MarketIInv
  <1>1. ASSUME SignedMomentum(hourly) # Absent
        PROVE  Momentum(hourly) = LesserOf(1000, Magnitude(SignedMomentum(hourly)) * 100)
    BY <1>1 DEF SignedMomentum, Momentum
  <1>2. /\ (RangePosition(hourly) = Absent) <=> (HlPosition(hourly) = Absent)
        /\ RangePosition(hourly) # Absent =>
             Magnitude(HlPosition(hourly) - Magnitude(2 * RangePosition(hourly) - 1000)) <= 3
    <2>1. CASE RangePosition(hourly) = Absent /\ HlPosition(hourly) = Absent
      BY <2>1
    <2>2. ASSUME NEW low \in Int, NEW range \in Int, PositionIn(low, range), 2 <= range,
                 RangePosition(hourly) = ((Mid - low) * 1000) \div range,
                 HlPosition(hourly) = Magnitude(((Mid - low) * 2000) \div range - 1000)
          PROVE  /\ RangePosition(hourly) # Absent /\ HlPosition(hourly) # Absent
                 /\ Magnitude(HlPosition(hourly)
                              - Magnitude(2 * RangePosition(hourly) - 1000)) <= 3
      <3>1. PICK a \in Nat : a = Mid - low
        BY <1>0, <2>2, MiddleFacts DEF PositionIn
      <3>2. range \in Nat \ {0}
        BY <2>2
      <3>3. PICK p : p = (a * 1000) \div range
        OBVIOUS
      <3>4. PICK q : q = (a * 2000) \div range
        OBVIOUS
      <3>5. p \in Int /\ q \in Int /\ 2 * p <= q /\ q <= 2 * p + 1
        BY <3>2, <3>3, <3>4, TwiceFacts
      <3>6. RangePosition(hourly) = p /\ HlPosition(hourly) = Magnitude(q - 1000)
        BY <2>2, <3>1, <3>3, <3>4
      <3>7. Magnitude(q - 1000) \in Int
        BY <3>5 DEF Magnitude, GreaterOf
      <3>8. Magnitude(Magnitude(q - 1000) - Magnitude(2 * p - 1000)) <= 3
        BY <3>5 DEF Magnitude, GreaterOf
      <3> QED
        BY <1>0, <3>5, <3>6, <3>7, <3>8
    <2> QED
      BY <1>0, <2>1, <2>2, PositionFacts
  <1>3. /\ (SignedOfi = Absent) <=> (OfiScore = Absent)
        /\ SignedOfi # Absent => OfiScore = Magnitude(SignedOfi)
    <2>1. PICK y \in Nat, n \in Nat : y = TakenOn("yes") /\ n = TakenOn("no")
      BY <1>0, TakenType
    <2>2. CASE y + n = 0
      BY <2>1, <2>2 DEF SignedOfi, OfiScore
    <2>3. CASE y + n # 0
      <3>1. y + n \in Nat \ {0} /\ (y - n) * 1000 \in Int
        BY <2>3
      <3>2. PICK r : r = Ratio((y - n) * 1000, y + n)
        OBVIOUS
      <3>3. r \in Int /\ Magnitude(r) = Magnitude((y - n) * 1000) \div (y + n)
        BY <3>1, <3>2, RatioFacts, RatioMagnitude
      <3>4. Magnitude((y - n) * 1000) = Magnitude(y - n) * 1000
        BY DEF Magnitude, GreaterOf
      <3>5. SignedOfi = r /\ OfiScore = Magnitude(r)
        BY <2>1, <2>3, <3>2, <3>3, <3>4 DEF SignedOfi, OfiScore
      <3>6. Magnitude(r) \in Int
        BY <3>3 DEF Magnitude, GreaterOf
      <3> QED
        BY <1>0, <3>3, <3>5, <3>6
    <2> QED
      BY <2>2, <2>3
  <1>4. ASSUME depth # NoneLive, SignedSkew(depth) # Absent
        PROVE  Magnitude(SkewScore(depth) - Magnitude(SignedSkew(depth))) <= 3
    <2>1. depth \in LiveBooks
      BY <1>0, <1>4 DEF MarketTypeOK
    <2>2. DepthNearMid(depth.yes) \in Nat /\ DepthNearMid(depth.no) \in Nat
      BY <2>1, BookFacts, DepthType
    <2>3. PICK y \in Nat, n \in Nat : y = DepthNearMid(depth.yes) /\ n = DepthNearMid(depth.no)
      BY <2>2
    <2>4. y + n # 0
      BY <1>4, <2>3 DEF SignedSkew
    <2>5. PICK t \in Nat \ {0} : t = y + n
      BY <2>4
    <2>6. PICK r : r = Ratio((y - n) * 1000, t)
      OBVIOUS
    <2>7. PICK q : q = (y * 2000) \div t - 1000
      OBVIOUS
    <2>8. q \in Int /\ r \in Int /\ r - 1 <= q /\ q <= r
      BY <2>4, <2>5, <2>6, <2>7, ShareFacts
    <2>9. SignedSkew(depth) = r
      BY <2>3, <2>4, <2>5, <2>6 DEF SignedSkew
    <2>10. SkewScore(depth) = Magnitude(q)
      BY <2>3, <2>4, <2>5, <2>7 DEF SkewScore
    <2>11. Magnitude(Magnitude(q) - Magnitude(r)) <= 3
      BY <2>8 DEF Magnitude, GreaterOf
    <2> QED
      BY <2>9, <2>10, <2>11
  <1> QED
    BY <1>1, <1>2, <1>3, <1>4 DEF MagnitudesMatchDirections

\* The penalty for a spread never rises with it.
LEMMA PenaltyFalls ==
  ASSUME NEW b \in Nat, NEW a \in Nat, NEW c \in Nat, NEW d \in Nat
  PROVE  /\ SpreadPenalty(b, a) > 0
         /\ ~(b = 0 \/ a = 0) /\ (c = 0 \/ d = 0 \/ a - b <= d - c) =>
              SpreadPenalty(b, a) >= SpreadPenalty(c, d)
  <1> DEFINE Two(s) == IF s <= 2 THEN 1000 ELSE IF s <= 5 THEN 950 ELSE IF s <= 10 THEN 850
                       ELSE IF s <= 20 THEN 700 ELSE 550
  <1>1. \A s \in Int : 0 <= s =>
          (CASE s <= 2 -> 1000 [] s \in 3 .. 5 -> 950 [] s \in 6 .. 10 -> 850
             [] s \in 11 .. 20 -> 700 [] s > 20 -> 550) = Two(s)
    OBVIOUS
  <1>2. \A x, y \in Nat :
          SpreadPenalty(x, y) = IF x = 0 \/ y = 0 THEN 500 ELSE Two(GreaterOf(0, y - x))
    <2> TAKE x, y \in Nat
    <2>1. PICK s \in Int : s = GreaterOf(0, y - x) /\ 0 <= s
      BY DEF GreaterOf
    <2>2. CASE x = 0 \/ y = 0
      BY <2>2 DEF SpreadPenalty
    <2>3. CASE ~(x = 0 \/ y = 0)
      <3>1. SpreadPenalty(x, y) =
              CASE s <= 2 -> 1000 [] s \in 3 .. 5 -> 950 [] s \in 6 .. 10 -> 850
                [] s \in 11 .. 20 -> 700 [] s > 20 -> 550
        BY <2>1, <2>3 DEF SpreadPenalty
      <3> QED
        BY <1>1, <2>1, <2>3, <3>1
    <2> QED
      BY <2>2, <2>3
  <1>3. /\ \A s \in Int : Two(s) \in Int /\ Two(s) >= 550
        /\ \A s, t \in Int : s <= t => Two(s) >= Two(t)
    OBVIOUS
  <1> HIDE DEF Two
  <1>4. PICK s \in Int : s = GreaterOf(0, a - b) /\ (s = 0 \/ s = a - b) /\ 0 <= s /\ a - b <= s
    BY DEF GreaterOf
  <1>5. PICK t \in Int : t = GreaterOf(0, d - c) /\ (t = 0 \/ t = d - c) /\ 0 <= t /\ d - c <= t
    BY DEF GreaterOf
  <1>6. a - b <= d - c => s <= t
    BY <1>4, <1>5
  <1>7. /\ SpreadPenalty(b, a) = IF b = 0 \/ a = 0 THEN 500 ELSE Two(s)
        /\ SpreadPenalty(c, d) = IF c = 0 \/ d = 0 THEN 500 ELSE Two(t)
    BY <1>2, <1>4, <1>5
  <1>8. /\ Two(s) \in Int /\ Two(s) >= 550 /\ Two(t) \in Int
        /\ a - b <= d - c => Two(s) >= Two(t)
    BY <1>3, <1>4, <1>5, <1>6
  <1> QED
    BY <1>7, <1>8

\* The steps by which a date counts.
LEMMA ProximitySteps ==
  ASSUME NEW h \in Int
  PROVE  /\ h <= 24 => Proximity(h) = 1000
         /\ 24 < h /\ h <= 72 => Proximity(h) = 900
         /\ 72 < h /\ h <= 168 => Proximity(h) = 780
         /\ 168 < h /\ h <= 720 => Proximity(h) = 600
         /\ 720 < h /\ h <= 2160 => Proximity(h) = 420
         /\ 2160 < h => Proximity(h) = 280
  <1>1. ASSUME h <= 24 PROVE Proximity(h) = 1000
    <2>1. /\ h <= 24 /\ ~(h \in 25 .. 72) /\ ~(h \in 73 .. 168)
          /\ ~(h \in 169 .. 720) /\ ~(h \in 721 .. 2160) /\ ~(h > 2160)
      BY <1>1
    <2> QED
      BY <2>1 DEF Proximity
  <1>2. ASSUME 24 < h, h <= 72 PROVE Proximity(h) = 900
    <2>1. /\ ~(h <= 24) /\ h \in 25 .. 72 /\ ~(h \in 73 .. 168)
          /\ ~(h \in 169 .. 720) /\ ~(h \in 721 .. 2160) /\ ~(h > 2160)
      BY <1>2
    <2> QED
      BY <2>1 DEF Proximity
  <1>3. ASSUME 72 < h, h <= 168 PROVE Proximity(h) = 780
    <2>1. /\ ~(h <= 24) /\ ~(h \in 25 .. 72) /\ h \in 73 .. 168
          /\ ~(h \in 169 .. 720) /\ ~(h \in 721 .. 2160) /\ ~(h > 2160)
      BY <1>3
    <2> QED
      BY <2>1 DEF Proximity
  <1>4. ASSUME 168 < h, h <= 720 PROVE Proximity(h) = 600
    <2>1. /\ ~(h <= 24) /\ ~(h \in 25 .. 72) /\ ~(h \in 73 .. 168)
          /\ h \in 169 .. 720 /\ ~(h \in 721 .. 2160) /\ ~(h > 2160)
      BY <1>4
    <2> QED
      BY <2>1 DEF Proximity
  <1>5. ASSUME 720 < h, h <= 2160 PROVE Proximity(h) = 420
    <2>1. /\ ~(h <= 24) /\ ~(h \in 25 .. 72) /\ ~(h \in 73 .. 168)
          /\ ~(h \in 169 .. 720) /\ h \in 721 .. 2160 /\ ~(h > 2160)
      BY <1>5
    <2> QED
      BY <2>1 DEF Proximity
  <1>6. ASSUME 2160 < h PROVE Proximity(h) = 280
    <2>1. /\ ~(h <= 24) /\ ~(h \in 25 .. 72) /\ ~(h \in 73 .. 168)
          /\ ~(h \in 169 .. 720) /\ ~(h \in 721 .. 2160) /\ h > 2160
      BY <1>6
    <2> QED
      BY <2>1 DEF Proximity
  <1> QED
    BY <1>1, <1>2, <1>3, <1>4, <1>5, <1>6

\* The nearer date never counts less.
LEMMA ProximityFalls ==
  ASSUME NEW d \in Nat, NEW e \in Nat, d <= e
  PROVE  Proximity(d) >= Proximity(e) /\ Proximity(e) > 0
  BY ProximitySteps

LEMMA PenaltiesHold == PenaltiesAreFair
  <1> DEFINE quotes == {<<0, 40>>, <<40, 0>>, <<40, 41>>, <<40, 44>>, <<40, 50>>, <<40, 55>>,
                        <<40, 70>>}
             dates == {0, 24, 25, 100, 500, 1000, 3000}
  <1>1. \A q \in quotes : q[1] \in Nat /\ q[2] \in Nat
    OBVIOUS
  <1>2. \A d \in dates : d \in Nat
    OBVIOUS
  <1> HIDE DEF quotes, dates
  <1>3. \A q \in quotes : SpreadPenalty(q[1], q[2]) > 0
    BY <1>1, PenaltyFalls
  <1>4. \A q, r \in quotes :
          ~(q[1] = 0 \/ q[2] = 0) /\ ((r[1] = 0 \/ r[2] = 0) \/ q[2] - q[1] <= r[2] - r[1]) =>
            SpreadPenalty(q[1], q[2]) >= SpreadPenalty(r[1], r[2])
    BY <1>1, PenaltyFalls
  <1>5. \A d, e \in dates : d <= e => Proximity(d) >= Proximity(e) /\ Proximity(e) > 0
    BY <1>2, ProximityFalls
  <1> QED
    BY <1>3, <1>4, <1>5 DEF PenaltiesAreFair, quotes, dates

\* The scores a composite is made of.
ScoreNames == {"relative_historical_volume", "volume_spike_short_term", "price_momentum",
               "volume_oi_ratio", "oi_change", "intraday_hl", "ofi", "weekly_hl",
               "orderbook_skew"}

LEMMA WeightFacts ==
  /\ DOMAIN Weights = ScoreNames /\ IsFiniteSet(ScoreNames)
  /\ \A n \in ScoreNames : Weights[n] \in Nat \ {0}
  <1>1. DOMAIN Weights = ScoreNames
    BY DEF Weights, ScoreNames
  <1>2. IsFiniteSet(ScoreNames)
    <2>1. /\ IsFiniteSet({"relative_historical_volume", "volume_spike_short_term", "price_momentum"})
          /\ IsFiniteSet({"volume_oi_ratio", "oi_change", "intraday_hl"})
          /\ IsFiniteSet({"ofi", "weekly_hl", "orderbook_skew"})
      BY ThreeAreFinite
    <2>2. IsFiniteSet({"relative_historical_volume", "volume_spike_short_term", "price_momentum"}
                      \cup {"volume_oi_ratio", "oi_change", "intraday_hl"})
      BY <2>1, FS_Union
    <2>3. IsFiniteSet(({"relative_historical_volume", "volume_spike_short_term", "price_momentum"}
                       \cup {"volume_oi_ratio", "oi_change", "intraday_hl"})
                      \cup {"ofi", "weekly_hl", "orderbook_skew"})
      BY <2>1, <2>2, FS_Union
    <2>4. ScoreNames = ({"relative_historical_volume", "volume_spike_short_term", "price_momentum"}
                        \cup {"volume_oi_ratio", "oi_change", "intraday_hl"})
                       \cup {"ofi", "weekly_hl", "orderbook_skew"}
      BY Zenon DEF ScoreNames
    <2> QED
      BY <2>3, <2>4
  <1>3. \A n \in ScoreNames : Weights[n] \in Nat \ {0}
    BY DEF Weights, ScoreNames
  <1> QED
    BY <1>1, <1>2, <1>3

\* Absent, or a number.
Score(s) == s = Absent \/ s \in Int

LEMMA RelativeType == MarketTypeOK => Score(RelativeVolume)
  <1> SUFFICES ASSUME MarketTypeOK PROVE Score(RelativeVolume)
    OBVIOUS
  <1> DEFINE active == {i \in DOMAIN daily : daily[i] > 0}
             volumes == [i \in active |-> daily[i]]
             one == [i \in active |-> 1]
             total == SumOver(active, volumes)
  <1>1. daily \in Seq(Nat)
    BY MarketAssumption DEF MarketTypeOK
  <1>2. IsFiniteSet(active) /\ volumes \in [active -> Nat] /\ \A i \in active : volumes[i] > 0
    <2>1. DOMAIN daily = 1 .. Len(daily) /\ Len(daily) \in Nat
      BY <1>1
    <2>2. IsFiniteSet(DOMAIN daily)
      BY <2>1, FS_Interval
    <2>3. IsFiniteSet(active)
      BY <2>2, FS_Subset
    <2>4. \A i \in DOMAIN daily : daily[i] \in Nat
      BY <1>1
    <2> QED
      BY <2>3, <2>4
  <1>3. Cardinality(active) \in Nat
    BY <1>2, FS_CardinalityType
  <1>4. snap.volume \in Nat
    BY DEF MarketTypeOK
  <1>5. total \in Nat /\ (Cardinality(active) >= 3 => total # 0)
    <2>1. one \in [active -> Int] /\ volumes \in [active -> Int]
          /\ \A i \in active : 1 * one[i] <= volumes[i]
      BY <1>2
    <2>2. SumOver(active, one) = Cardinality(active)
      BY <1>2, SumOfOnes
    <2> HIDE DEF active, volumes, one
    <2>3. /\ SumOver(active, volumes) \in Int /\ SumOver(active, one) \in Int
          /\ 1 * SumOver(active, one) <= SumOver(active, volumes)
      BY <1>2, <2>1, SumCompares
    <2> QED
      BY <1>3, <2>2, <2>3
  <1>6. PICK days \in Nat : days = Cardinality(active)
    BY <1>3
  <1>7. PICK t \in Nat : t = total
    BY <1>5
  <1>8. RelativeVolume = IF days < 3 THEN Absent
                         ELSE Within(0, Ratio((snap.volume * days - t) * 500, t), 1000)
    BY <1>6, <1>7 DEF RelativeVolume
  <1>9. CASE days < 3
    BY <1>8, <1>9 DEF Score
  <1>10. CASE days >= 3
    <2>1. t \in Nat \ {0}
      BY <1>5, <1>6, <1>7, <1>10
    <2>2. (snap.volume * days - t) * 500 \in Int
      BY <1>4
    <2>3. PICK r \in Int : r = Ratio((snap.volume * days - t) * 500, t)
      BY <2>1, <2>2, RatioFacts
    <2>4. Within(0, r, 1000) \in Int
      BY DEF Within, GreaterOf, LesserOf
    <2> QED
      BY <1>8, <1>10, <2>3, <2>4 DEF Score
  <1> QED
    BY <1>9, <1>10

LEMMA SpikeTypes ==
  ASSUME NEW candles \in Seq(HourCandles), Len(candles) >= 2
  PROVE  /\ candles[Len(candles)].volume \in Nat /\ VolumeBefore(candles) \in Nat
         /\ VolumeSpike(candles) =
              Spike(candles[Len(candles)].volume, Len(candles) - 1, VolumeBefore(candles))
  <1>1. PICK n \in Nat : n = Len(candles) /\ n >= 2
    OBVIOUS
  <1>2. \A i \in 1 .. n : candles[i].volume \in Nat
    <2>1. \A i \in 1 .. n : candles[i] \in HourCandles
      BY <1>1
    <2> QED
      BY <2>1, MarketAssumption
  <1> DEFINE before == [i \in 1 .. n - 1 |-> candles[i].volume]
  <1>3. before \in [1 .. n - 1 -> Nat]
    BY <1>1, <1>2
  <1>4. IsFiniteSet(1 .. n - 1)
    BY <1>1, FS_Interval
  <1> HIDE DEF before
  <1>5. SumOver(1 .. n - 1, before) \in Nat
    BY <1>3, <1>4, SumOfNaturals
  <1>6. VolumeBefore(candles) \in Nat
    BY <1>1, <1>5 DEF VolumeBefore, before
  <1> QED
    BY <1>1, <1>2, <1>6 DEF VolumeSpike

\* The same hours before, and no less in the last one.
LEMMA SpikeRises ==
  ASSUME NEW last \in Nat, NEW more \in Nat, last <= more, NEW hours \in Nat, NEW base \in Nat
  PROVE  /\ Spike(last, hours, base) \in Int
         /\ Spike(last, hours, base) <= Spike(more, hours, base)
  <1> DEFINE Graded(t) == IF t <= 1000 THEN 0 ELSE IF t <= 2500 THEN (t - 1000) \div 3
                          ELSE LesserOf(1000, 500 + (t - 2500) \div 5)
             times(v) == (v * hours * 1000) \div base
             score(v) == IF base = 0 THEN 1000 ELSE Graded(times(v))
  <1>1. \A s, t \in Int : s <= t => Graded(s) \in Int /\ Graded(t) \in Int /\ Graded(s) <= Graded(t)
    BY DEF LesserOf
  <1>2. base # 0 => times(last) \in Int /\ times(more) \in Int /\ times(last) <= times(more)
    <2>1. last * hours <= more * hours /\ last * hours \in Int /\ more * hours \in Int
      BY TimesKeeps
    <2>2. PICK a \in Int, b \in Int : a = last * hours * 1000 /\ b = more * hours * 1000 /\ a <= b
      BY <2>1
    <2>3. base # 0 => a \div base \in Int /\ b \div base \in Int /\ a \div base <= b \div base
      BY <2>2, DivMonotone
    <2> QED
      BY <2>2, <2>3
  <1> HIDE DEF Graded
  <1>3. /\ Spike(last, hours, base) =
             LET thin == IF last < 25 THEN LesserOf(score(last), 400) ELSE score(last)
             IN IF last < 10 THEN 0 ELSE IF hours < 3 THEN LesserOf(thin, 850) ELSE thin
        /\ Spike(more, hours, base) =
             LET thin == IF more < 25 THEN LesserOf(score(more), 400) ELSE score(more)
             IN IF more < 10 THEN 0 ELSE IF hours < 3 THEN LesserOf(thin, 850) ELSE thin
    BY DEF Spike, Graded
  <1> HIDE DEF times
  <1>4. score(last) \in Int /\ score(more) \in Int /\ score(last) <= score(more)
    BY <1>1, <1>2
  <1>5. score(more) >= 0
    <2>1. \A t \in Int : Graded(t) >= 0
      BY DEF Graded, LesserOf
    <2> QED
      BY <1>2, <2>1
  <1> HIDE DEF score
  <1> QED
    BY <1>3, <1>4, <1>5 DEF LesserOf

\* Every score that enters the composite is absent or a number.
LEMMA ScoreTypes ==
  ASSUME MarketTypeOK
  PROVE  \A n \in ScoreNames : Score(Scores[n])
  <1>1. Score(RelativeVolume)
    BY RelativeType
  <1>2. Score(VolumeSpike(hourly))
    <2>1. hourly \in Seq(HourCandles)
      BY DEF MarketTypeOK
    <2>2. CASE Len(hourly) < 2
      BY <2>2 DEF VolumeSpike, Score
    <2>3. CASE Len(hourly) >= 2
      <3>1. PICK last \in Nat, base \in Nat : VolumeSpike(hourly) = Spike(last, Len(hourly) - 1, base)
        BY <2>1, <2>3, SpikeTypes
      <3>2. Len(hourly) - 1 \in Nat
        BY <2>1, <2>3
      <3>3. Spike(last, Len(hourly) - 1, base) \in Int
        BY <3>2, SpikeRises
      <3> QED
        BY <3>1, <3>3 DEF Score
    <2> QED
      BY <2>1, <2>2, <2>3
  <1>3. Score(Momentum(hourly))
    <2>1. CASE Len(hourly) < 4
      BY <2>1 DEF Momentum, Score
    <2>2. CASE Len(hourly) >= 4
      <3>1. PICK s : s = Closes(LastFour(hourly))
        OBVIOUS
      <3>2. s \in Seq(0 .. 100)
        BY <2>2, <3>1, LastFourType, ClosesFacts DEF MarketTypeOK
      <3>3. Momentum(hourly) = IF Len(s) < 2 THEN 0
                               ELSE LesserOf(1000, Magnitude(s[Len(s)] - s[1]) * 100)
        BY <2>2, <3>1 DEF Momentum
      <3>4. Len(s) >= 2 => s[Len(s)] \in Int /\ s[1] \in Int
        BY <3>2, EndsFacts
      <3>5. Len(s) \in Nat
        BY <3>2
      <3> QED
        BY <3>3, <3>4, <3>5 DEF Score, LesserOf, Magnitude, GreaterOf
    <2> QED
      BY <2>1, <2>2, LenProperties DEF MarketTypeOK
  <1>4. Score(VolumeOiRatio)
    <2>1. snap.volume \in Nat /\ snap.oi \in Nat
      BY DEF MarketTypeOK
    <2>2. CASE snap.oi = 0
      BY <2>2 DEF VolumeOiRatio, Score
    <2>3. CASE snap.oi # 0
      <3>1. (snap.volume * 2000) \div snap.oi \in Int
        BY <2>1, <2>3
      <3> QED
        BY <2>3, <3>1 DEF VolumeOiRatio, Score, LesserOf
    <2> QED
      BY <2>2, <2>3
  <1>5. Score(OiChange(hourly))
    <2>1. hourly \in Seq(HourCandles)
      BY DEF MarketTypeOK
    <2>2. CASE Len(hourly) < 2 \/ hourly[1].oi = 0
      BY <2>2 DEF OiChange, Score
    <2>3. CASE ~(Len(hourly) < 2 \/ hourly[1].oi = 0)
      <3>1. 1 \in DOMAIN hourly /\ Len(hourly) \in DOMAIN hourly
        BY <2>1, <2>3
      <3>2. hourly[1] \in HourCandles /\ hourly[Len(hourly)] \in HourCandles
        BY <2>1, <3>1
      <3>3. PICK old \in Nat, new \in Nat : old = hourly[1].oi /\ new = hourly[Len(hourly)].oi
        BY <3>2, MarketAssumption
      <3>4. old \in Nat \ {0} /\ (new - old) * 10000 \in Int
        BY <2>3, <3>3
      <3>5. PICK r \in Int : r = Ratio((new - old) * 10000, old)
        BY <3>4, RatioFacts
      <3>6. OiChange(hourly) = Within(0, r, 1000)
        BY <2>3, <3>3, <3>5 DEF OiChange
      <3> QED
        BY <3>6 DEF Score, Within, GreaterOf, LesserOf
    <2> QED
      BY <2>2, <2>3
  <1>6. Score(HlPosition(hourly))
    <2>1. ASSUME NEW low \in Int, NEW range \in Int, PositionIn(low, range), 2 <= range,
                 HlPosition(hourly) = Magnitude(((Mid - low) * 2000) \div range - 1000)
          PROVE  Score(HlPosition(hourly))
      <3>1. PICK a \in Int : a = Mid - low
        BY MiddleFacts
      <3>2. (a * 2000) \div range \in Int
        BY <2>1
      <3> QED
        BY <2>1, <3>1, <3>2 DEF Score, Magnitude, GreaterOf
    <2> QED
      BY <2>1, PositionFacts DEF Score
  <1>7. Score(OfiScore)
    <2>1. PICK y \in Nat, n \in Nat : y = TakenOn("yes") /\ n = TakenOn("no")
      BY TakenType
    <2>2. CASE y + n = 0
      BY <2>1, <2>2 DEF OfiScore, Score
    <2>3. CASE y + n # 0
      <3>1. (Magnitude(y - n) * 1000) \div (y + n) \in Int
        BY <2>3 DEF Magnitude, GreaterOf
      <3> QED
        BY <2>1, <2>3, <3>1 DEF OfiScore, Score
    <2> QED
      BY <2>2, <2>3
  <1>8. depth # NoneLive => Score(SkewScore(depth))
    <2> SUFFICES ASSUME depth # NoneLive PROVE Score(SkewScore(depth))
      OBVIOUS
    <2>1. depth \in LiveBooks
      BY DEF MarketTypeOK
    <2>2. PICK y \in Nat, n \in Nat : y = DepthNearMid(depth.yes) /\ n = DepthNearMid(depth.no)
      BY <2>1, BookFacts, DepthType
    <2>3. CASE y + n = 0
      BY <2>2, <2>3 DEF SkewScore, Score
    <2>4. CASE y + n # 0
      <3>1. PICK h \in Int : h = (y * 2000) \div (y + n)
        BY <2>4
      <3>2. SkewScore(depth) = Magnitude(h - 1000)
        BY <2>2, <2>4, <3>1 DEF SkewScore
      <3> QED
        BY <3>2 DEF Score, Magnitude, GreaterOf
    <2> QED
      BY <2>3, <2>4
  <1>9. Score(Absent)
    BY DEF Score
  <1>10. /\ Scores["relative_historical_volume"] = RelativeVolume
         /\ Scores["volume_spike_short_term"] = VolumeSpike(hourly)
         /\ Scores["price_momentum"] = Momentum(hourly)
         /\ Scores["volume_oi_ratio"] = VolumeOiRatio
         /\ Scores["oi_change"] = OiChange(hourly)
         /\ Scores["intraday_hl"] = HlPosition(hourly)
         /\ Scores["ofi"] = IF depth = NoneLive THEN Absent ELSE OfiScore
         /\ Scores["weekly_hl"] = Absent
         /\ Scores["orderbook_skew"] = IF depth = NoneLive THEN Absent ELSE SkewScore(depth)
    BY DEF Scores
  <1>11. Score(Scores["ofi"]) /\ Score(Scores["orderbook_skew"])
    BY <1>7, <1>8, <1>9, <1>10
  <1>12. /\ Score(Scores["relative_historical_volume"]) /\ Score(Scores["volume_spike_short_term"])
         /\ Score(Scores["price_momentum"]) /\ Score(Scores["volume_oi_ratio"])
         /\ Score(Scores["oi_change"]) /\ Score(Scores["intraday_hl"])
         /\ Score(Scores["weekly_hl"])
    BY <1>1, <1>2, <1>3, <1>4, <1>5, <1>6, <1>9, <1>10, Zenon
  <1> QED
    BY <1>11, <1>12, Zenon DEF ScoreNames

\* A weighted mean that is cut off lies between its least and its largest part.
LEMMA CompositeFacts ==
  ASSUME NEW scores, \A n \in ScoreNames : Score(scores[n]),
         Composite(scores) # 0
  PROVE  /\ Composite(scores) \in Int
         /\ \E n \in Present(scores) : scores[n] <= Composite(scores)
         /\ \E n \in Present(scores) : Composite(scores) <= scores[n]
  <1> DEFINE P == Present(scores)
             weight == [n \in P |-> Weights[n]]
             product == [n \in P |-> Weights[n] * scores[n]]
  <1>1. \A n \in P : n \in ScoreNames /\ scores[n] \in Int /\ Weights[n] \in Nat \ {0}
    BY WeightFacts DEF Present, Score
  <1>2. IsFiniteSet(P)
    <2>1. P \in SUBSET ScoreNames
      BY <1>1
    <2> HIDE DEF P
    <2> QED
      BY <2>1, WeightFacts, FS_Subset
  <1>3. weight \in [P -> Int] /\ product \in [P -> Int]
    BY <1>1
  <1>4. \A n \in P : weight[n] = Weights[n] /\ product[n] = Weights[n] * scores[n]
    OBVIOUS
  <1>5. Coverage(scores) = SumOver(P, weight) /\ Weighted(scores) = SumOver(P, product)
    BY DEF Coverage, Weighted
  <1> HIDE DEF P, weight, product
  <1>6. /\ SumOver(P, weight) \in Int /\ SumOver(P, product) \in Int
    BY <1>2, <1>3, SumCompares
  <1>7. PICK cover \in Int : cover = SumOver(P, weight) /\ cover >= 30
    BY <1>5, <1>6 DEF Composite, MinCoverage
  <1>8. PICK sum \in Int : sum = SumOver(P, product)
    BY <1>6
  <1>9. PICK raw \in Int : raw = sum \div cover /\ raw * cover <= sum /\ sum < (raw + 1) * cover
    <2>1. cover \in Nat \ {0}
      BY <1>7
    <2> QED
      BY <2>1, DivBounds
  <1>10. Composite(scores) = raw
    BY <1>5, <1>7, <1>8, <1>9 DEF Composite, MinCoverage
  <1>11. \E n \in P : scores[n] <= raw
    <2> SUFFICES ASSUME \A n \in P : ~(scores[n] <= raw) PROVE FALSE
      OBVIOUS
    <2>1. PICK up \in Int : up = raw + 1
      OBVIOUS
    <2>2. \A n \in P : up * weight[n] <= product[n]
      <3> TAKE n \in P
      <3>1. PICK w \in Nat, s \in Int : w = Weights[n] /\ s = scores[n] /\ up <= s
        BY <1>1, <2>1
      <3>2. up * w <= s * w
        BY <3>1, TimesKeeps
      <3>3. s * w = w * s
        OBVIOUS
      <3> QED
        BY <1>4, <3>1, <3>2, <3>3
    <2>3. up * SumOver(P, weight) <= SumOver(P, product)
      BY <1>2, <1>3, <2>2, SumCompares
    <2>4. up * cover <= sum /\ sum < up * cover /\ up * cover \in Int
      BY <1>7, <1>8, <1>9, <2>1, <2>3
    <2> QED
      BY <2>4
  <1>12. \E n \in P : raw <= scores[n]
    <2> SUFFICES ASSUME \A n \in P : ~(raw <= scores[n]) PROVE FALSE
      OBVIOUS
    <2>1. PICK down \in Int : down = raw - 1
      OBVIOUS
    <2>2. \A n \in P : product[n] <= down * weight[n]
      <3> TAKE n \in P
      <3>1. PICK w \in Nat, s \in Int : w = Weights[n] /\ s = scores[n] /\ s <= down
        BY <1>1, <2>1
      <3>2. s * w <= down * w
        BY <3>1, TimesKeeps
      <3>3. s * w = w * s
        OBVIOUS
      <3> QED
        BY <1>4, <3>1, <3>2, <3>3
    <2>3. SumOver(P, product) <= down * SumOver(P, weight)
      BY <1>2, <1>3, <2>2, SumCompares
    <2>4. sum <= down * cover /\ down * cover = raw * cover - cover /\ raw * cover \in Int
      BY <1>7, <1>8, <2>1, <2>3
    <2> QED
      BY <1>7, <1>9, <2>4
  <1> QED
    BY <1>10, <1>11, <1>12 DEF P

LEMMA RankingHolds == MarketIInv => RankingIsFair(Scores)
  <1> SUFFICES ASSUME MarketIInv PROVE RankingIsFair(Scores)
    OBVIOUS
  <1>0. MarketTypeOK
    BY DEF MarketIInv
  <1> DEFINE parts == {Scores[n] : n \in {m \in DOMAIN Weights : Scores[m] # Absent}}
  <1>1. ASSUME Composite(Scores) # 0
        PROVE  /\ \E p \in parts : p <= Composite(Scores)
               /\ \E p \in parts : Composite(Scores) <= p
    <2>1. PICK scores : scores = Scores
      OBVIOUS
    <2>2. \A n \in ScoreNames : Score(scores[n])
      BY <1>0, <2>1, ScoreTypes
    <2>3. /\ \E n \in Present(scores) : scores[n] <= Composite(scores)
          /\ \E n \in Present(scores) : Composite(scores) <= scores[n]
      BY <1>1, <2>1, <2>2, CompositeFacts
    <2>4. parts = {scores[n] : n \in Present(scores)}
      BY <2>1, Zenon DEF Present
    <2> QED
      BY <2>1, <2>3, <2>4
  <1>2. ASSUME hourly # <<>>, NEW c \in HourCandles, NEW d \in HourCandles, c.volume <= d.volume
        PROVE  VolumeSpike(Append(hourly, c)) <= VolumeSpike(Append(hourly, d))
    <2>1. hourly \in Seq(HourCandles) /\ Len(hourly) \in Nat /\ Len(hourly) # 0
      BY <1>0, <1>2 DEF MarketTypeOK
    <2>2. PICK s : s = Append(hourly, c)
      OBVIOUS
    <2>3. PICK t : t = Append(hourly, d)
      OBVIOUS
    <2>4. PICK n \in Nat : n = Len(hourly) /\ n >= 1
      BY <2>1
    <2>5. /\ s \in Seq(HourCandles) /\ Len(s) = n + 1 /\ s[n + 1] = c
          /\ \A i \in 1 .. n : s[i] = hourly[i]
      BY <2>1, <2>2, <2>4, AppendProperties
    <2>6. /\ t \in Seq(HourCandles) /\ Len(t) = n + 1 /\ t[n + 1] = d
          /\ \A i \in 1 .. n : t[i] = hourly[i]
      BY <2>1, <2>3, <2>4, AppendProperties
    <2>7. VolumeBefore(s) = VolumeBefore(t)
      <3>1. Len(s) - 1 = n /\ Len(t) - 1 = n
        BY <2>5, <2>6
      <3>2. [i \in 1 .. n |-> s[i].volume] = [i \in 1 .. n |-> t[i].volume]
        BY <2>5, <2>6
      <3> QED
        BY <3>1, <3>2, Zenon DEF VolumeBefore
    <2>8. /\ s[Len(s)].volume \in Nat /\ VolumeBefore(s) \in Nat
          /\ VolumeSpike(s) = Spike(s[Len(s)].volume, Len(s) - 1, VolumeBefore(s))
      BY <2>4, <2>5, SpikeTypes
    <2>9. /\ t[Len(t)].volume \in Nat /\ VolumeBefore(t) \in Nat
          /\ VolumeSpike(t) = Spike(t[Len(t)].volume, Len(t) - 1, VolumeBefore(t))
      BY <2>4, <2>6, SpikeTypes
    <2>10. PICK base \in Nat : base = VolumeBefore(s)
      BY <2>8
    <2>11. PICK hours \in Nat : hours = Len(s) - 1 /\ hours = Len(t) - 1
      BY <2>4, <2>5, <2>6
    <2>12. PICK last \in Nat : last = c.volume /\ last = s[Len(s)].volume
      BY <2>5, <2>8
    <2>13. PICK more \in Nat : more = d.volume /\ more = t[Len(t)].volume
      BY <2>6, <2>9
    <2>14. last <= more
      BY <1>2, <2>12, <2>13
    <2>15. Spike(last, hours, base) <= Spike(more, hours, base)
      BY <2>14, SpikeRises
    <2>16. VolumeSpike(s) = Spike(last, hours, base) /\ VolumeSpike(t) = Spike(more, hours, base)
      BY <2>7, <2>8, <2>9, <2>10, <2>11, <2>12, <2>13, Zenon
    <2> QED
      BY <2>2, <2>3, <2>15, <2>16
  <1> QED
    BY <1>1, <1>2, PenaltiesHold DEF RankingIsFair

\* A share of no more than the whole is no more than all.
LEMMA RatioBound ==
  ASSUME NEW a \in Int, NEW n \in Nat \ {0}, NEW k \in Nat, NEW most \in Int, most = k * n,
         a <= most, -most <= a
  PROVE  Ratio(a, n) \in Int /\ Ratio(a, n) <= k /\ -k <= Ratio(a, n)
  <1>1. ASSUME NEW b \in Int, 0 <= b, b <= most
        PROVE  b \div n \in Int /\ 0 <= b \div n /\ b \div n <= k
    <2>1. PICK q \in Int : q = b \div n /\ q * n <= b /\ 0 <= q
      BY <1>1, DivBounds
    <2>2. q * n < (k + 1) * n
      <3>1. (k + 1) * n = k * n + n /\ q * n \in Int /\ k * n \in Int /\ n > 0
        OBVIOUS
      <3> QED
        BY <1>1, <2>1, <3>1
    <2>3. q < k + 1
      BY <2>2, TimesKept
    <2> QED
      BY <2>1, <2>3
  <1>2. CASE a >= 0
    BY <1>1, <1>2 DEF Ratio
  <1>3. CASE a < 0
    <2>1. -a \in Int /\ 0 <= -a /\ -a <= most
      BY <1>3
    <2>2. PICK q \in Int : q = (-a) \div n /\ 0 <= q /\ q <= k
      BY <1>1, <2>1
    <2>3. Ratio(a, n) = -q
      BY <1>3, <2>2 DEF Ratio
    <2> QED
      BY <2>2, <2>3
  <1> QED
    BY <1>2, <1>3

\* The difference of two parts, in thousandths of both.
LEMMA DifferenceShare ==
  ASSUME NEW y \in Nat, NEW n \in Nat, NEW t \in Nat \ {0}, t = y + n
  PROVE  /\ Ratio((y - n) * 1000, t) \in Int
         /\ Ratio((y - n) * 1000, t) <= 1000 /\ -1000 <= Ratio((y - n) * 1000, t)
  <1>1. PICK a \in Int : a = (y - n) * 1000
    OBVIOUS
  <1>2. PICK most \in Int : most = 1000 * t
    OBVIOUS
  <1>3. a <= most /\ -most <= a
    BY <1>1, <1>2
  <1>4. 1000 \in Nat
    OBVIOUS
  <1>5. Ratio(a, t) \in Int /\ Ratio(a, t) <= 1000 /\ -1000 <= Ratio(a, t)
    BY <1>2, <1>3, <1>4, RatioBound
  <1> QED
    BY <1>1, <1>5

\* Absent, or a signed share.
SignedPart(s) == s = Absent \/ (s \in Int /\ -1000 <= s /\ s <= 1000)

\* The position in the range, and the pull back from its ends.
LEMMA RangeShare ==
  ASSUME MarketTypeOK, RangePosition(hourly) # Absent
  PROVE  \E low, range, p \in Int :
           /\ PositionIn(low, range) /\ 2 <= range
           /\ RangePosition(hourly) = p /\ p = ((Mid - low) * 1000) \div range
           /\ 0 <= p /\ p <= 1000
  <1>1. PICK low \in Int, range \in Int :
          /\ PositionIn(low, range) /\ 2 <= range
          /\ RangePosition(hourly) = ((Mid - low) * 1000) \div range
    BY PositionFacts
  <1>2. PICK a \in Int : a = (Mid - low) * 1000 /\ 0 <= a /\ a <= 1000 * range
    BY <1>1, MiddleFacts DEF PositionIn
  <1>3. range \in Nat \ {0} /\ 1000 \in Nat
    BY <1>1
  <1>4. PICK most \in Int : most = 1000 * range
    OBVIOUS
  <1>5. a <= most /\ -most <= a
    BY <1>2, <1>3, <1>4
  <1>6. Ratio(a, range) \in Int /\ Ratio(a, range) <= 1000
    BY <1>3, <1>4, <1>5, RatioBound
  <1>7. Ratio(a, range) = a \div range
    BY <1>2 DEF Ratio
  <1>8. 0 <= a \div range
    BY <1>2, <1>3
  <1> QED
    BY <1>1, <1>2, <1>6, <1>7, <1>8

LEMMA ComponentTypes ==
  ASSUME MarketTypeOK
  PROVE  \A n \in {"momentum", "ofi", "skew", "reversion"} : SignedPart(Components[n])
  <1>1. SignedPart(Components["momentum"])
    <2>1. CASE SignedMomentum(hourly) = Absent
      BY <2>1 DEF Components, SignedPart
    <2>2. CASE SignedMomentum(hourly) # Absent
      <3>1. Len(hourly) >= 4 /\ Len(Closes(LastFour(hourly))) >= 2
        <4>1. ~(Len(hourly) < 4) /\ ~(Len(Closes(LastFour(hourly))) < 2)
          BY <2>2 DEF SignedMomentum
        <4>2. hourly \in Seq(HourCandles) /\ Len(hourly) \in Nat
          BY DEF MarketTypeOK
        <4>3. Len(hourly) >= 4
          BY <4>1, <4>2
        <4>4. Len(Closes(LastFour(hourly))) \in Nat
          BY <4>2, <4>3, LastFourType, ClosesFacts, LenProperties
        <4> QED
          BY <4>1, <4>3, <4>4
      <3>2. PICK s : s = Closes(LastFour(hourly))
        OBVIOUS
      <3>3. s \in Seq(0 .. 100)
        BY <3>1, <3>2, LastFourType, ClosesFacts DEF MarketTypeOK
      <3>4. s[Len(s)] \in Int /\ s[1] \in Int
        BY <3>1, <3>2, <3>3, EndsFacts
      <3>5. SignedMomentum(hourly) = s[Len(s)] - s[1]
        BY <2>2, <3>2 DEF SignedMomentum
      <3>6. PICK m \in Int : m = SignedMomentum(hourly)
        BY <3>4, <3>5
      <3>7. Components["momentum"] = Within(-1000, m * 100, 1000)
        BY <2>2, <3>6 DEF Components
      <3> QED
        BY <3>7 DEF SignedPart, Within, GreaterOf, LesserOf
    <2> QED
      BY <2>1, <2>2
  <1>2. SignedPart(SignedOfi)
    <2>1. PICK y \in Nat, n \in Nat : y = TakenOn("yes") /\ n = TakenOn("no")
      BY TakenType
    <2>2. CASE y + n = 0
      BY <2>1, <2>2 DEF SignedOfi, SignedPart
    <2>3. CASE y + n # 0
      <3>1. PICK t \in Nat \ {0} : t = y + n
        BY <2>3
      <3>2. SignedOfi = Ratio((y - n) * 1000, t)
        BY <2>1, <2>3, <3>1 DEF SignedOfi
      <3> QED
        BY <3>1, <3>2, DifferenceShare DEF SignedPart
    <2> QED
      BY <2>2, <2>3
  <1>3. depth # NoneLive => SignedPart(SignedSkew(depth))
    <2> SUFFICES ASSUME depth # NoneLive PROVE SignedPart(SignedSkew(depth))
      OBVIOUS
    <2>1. PICK y \in Nat, n \in Nat : y = DepthNearMid(depth.yes) /\ n = DepthNearMid(depth.no)
      BY BookFacts, DepthType DEF MarketTypeOK
    <2>2. CASE y + n = 0
      BY <2>1, <2>2 DEF SignedSkew, SignedPart
    <2>3. CASE y + n # 0
      <3>1. PICK t \in Nat \ {0} : t = y + n
        BY <2>3
      <3>2. SignedSkew(depth) = Ratio((y - n) * 1000, t)
        BY <2>1, <2>3, <3>1 DEF SignedSkew
      <3> QED
        BY <3>1, <3>2, DifferenceShare DEF SignedPart
    <2> QED
      BY <2>2, <2>3
  <1>4. SignedPart(Components["reversion"])
    <2>1. CASE RangePosition(hourly) = Absent
      BY <2>1 DEF Components, SignedPart
    <2>2. CASE RangePosition(hourly) # Absent
      <3>1. PICK p \in Int : RangePosition(hourly) = p /\ 0 <= p /\ p <= 1000
        BY <2>2, RangeShare
      <3>2. Components["reversion"] = Reversion(p)
        BY <2>2, <3>1 DEF Components
      <3> QED
        BY <3>1, <3>2 DEF Reversion, SignedPart
    <2> QED
      BY <2>1, <2>2
  <1>5. /\ Components["ofi"] = IF depth = NoneLive THEN Absent ELSE SignedOfi
        /\ Components["skew"] = IF depth = NoneLive THEN Absent ELSE SignedSkew(depth)
    BY DEF Components
  <1>6. SignedPart(Absent)
    BY DEF SignedPart
  <1>7. SignedPart(Components["ofi"]) /\ SignedPart(Components["skew"])
    BY <1>2, <1>3, <1>5, <1>6
  <1> QED
    BY <1>1, <1>4, <1>7, Zenon

\* The components together push by no more than each of them.
LEMMA NudgeFacts ==
  ASSUME NEW components,
         \A n \in {"momentum", "ofi", "skew", "reversion"} : SignedPart(components[n]),
         Felt(components) # {}
  PROVE  /\ Nudge(components) \in Int
         /\ -80 <= Nudge(components) /\ Nudge(components) <= 80
  <1> DEFINE F == Felt(components)
             weight == [n \in F |-> ComponentWeights[n]]
             product == [n \in F |-> ComponentWeights[n] * components[n]]
             one == [n \in F |-> 1]
             Names == {"momentum", "ofi", "skew"} \cup {"reversion"}
  <1>1. /\ DOMAIN ComponentWeights = {"momentum", "ofi", "skew", "reversion"}
        /\ \A n \in {"momentum", "ofi", "skew", "reversion"} : ComponentWeights[n] \in Nat \ {0}
    BY DEF ComponentWeights
  <1>2. Names = {"momentum", "ofi", "skew", "reversion"} /\ IsFiniteSet(Names)
    <2>1. IsFiniteSet({"momentum", "ofi", "skew"}) /\ IsFiniteSet({"reversion"})
      BY ThreeAreFinite, FS_Singleton
    <2>2. IsFiniteSet(Names)
      BY <2>1, FS_Union
    <2>3. Names = {"momentum", "ofi", "skew", "reversion"}
      BY Zenon
    <2> QED
      BY <2>2, <2>3
  <1>3. \A n \in F : /\ ComponentWeights[n] \in Nat \ {0} /\ components[n] \in Int
                     /\ -1000 <= components[n] /\ components[n] <= 1000
    BY <1>1 DEF Felt, SignedPart
  <1>4. F \in SUBSET Names
    BY <1>1, <1>2 DEF Felt
  <1>5. IsFiniteSet(F)
    <2> HIDE DEF F, Names
    <2> QED
      BY <1>2, <1>4, FS_Subset
  <1>6. weight \in [F -> Int] /\ product \in [F -> Int] /\ one \in [F -> Int]
    BY <1>3
  <1>7. \A n \in F : weight[n] = ComponentWeights[n] /\ one[n] = 1
                     /\ product[n] = ComponentWeights[n] * components[n]
    OBVIOUS
  <1>8. FeltWeight(components) = SumOver(F, weight) /\ Pressure(components) = SumOver(F, product)
    BY DEF FeltWeight, Pressure
  <1>9. SumOver(F, one) = Cardinality(F) /\ Cardinality(F) \in Nat /\ Cardinality(F) # 0
    BY <1>5, SumOfOnes, FS_CardinalityType, FS_EmptySet
  <1> HIDE DEF F, weight, product, one, Names
  <1>10. SumOver(F, weight) \in Int /\ SumOver(F, product) \in Int
    BY <1>5, <1>6, SumCompares
  <1>11. PICK w \in Int : w = SumOver(F, weight) /\ w >= 1
    <2>1. \A n \in F : 1 * one[n] <= weight[n]
      BY <1>3, <1>7
    <2>2. 1 * SumOver(F, one) <= SumOver(F, weight)
      BY <1>5, <1>6, <2>1, SumCompares
    <2> QED
      BY <1>9, <1>10, <2>2
  <1>12. PICK s \in Int : s = SumOver(F, product)
    BY <1>10
  <1>13. s <= 1000 * w
    <2>1. \A n \in F : product[n] <= 1000 * weight[n]
      <3> TAKE n \in F
      <3>1. PICK v \in Nat, c \in Int : v = ComponentWeights[n] /\ c = components[n] /\ c <= 1000
        BY <1>3
      <3>2. c * v <= 1000 * v /\ c * v = v * c
        BY <3>1, TimesKeeps
      <3> QED
        BY <1>7, <3>1, <3>2
    <2> QED
      BY <1>5, <1>6, <1>11, <1>12, <2>1, SumCompares
  <1>14. (-1000) * w <= s
    <2>1. \A n \in F : (-1000) * weight[n] <= product[n]
      <3> TAKE n \in F
      <3>1. PICK v \in Nat, c \in Int : v = ComponentWeights[n] /\ c = components[n] /\ -1000 <= c
        BY <1>3
      <3>2. (-1000) * v <= c * v /\ c * v = v * c
        BY <3>1, TimesKeeps
      <3> QED
        BY <1>7, <3>1, <3>2
    <2>2. -1000 \in Int
      OBVIOUS
    <2> QED
      BY <1>5, <1>6, <1>11, <1>12, <2>1, <2>2, SumCompares
  <1>15. PICK a \in Int, n \in Nat \ {0}, most \in Int :
           a = s * 80 /\ n = w * 1000 /\ most = 80 * n /\ a <= most /\ -most <= a
    <2>1. s * 80 \in Int /\ w * 1000 \in Nat \ {0} /\ 80 * (w * 1000) \in Int
          /\ s * 80 <= 80 * (w * 1000) /\ -(80 * (w * 1000)) <= s * 80
      BY <1>11, <1>13, <1>14
    <2> QED
      BY <2>1
  <1>16. PICK k \in Nat : k = 80 /\ most = k * n
    BY <1>15
  <1>17. Ratio(a, n) \in Int /\ Ratio(a, n) <= k /\ -k <= Ratio(a, n)
    BY <1>15, <1>16, RatioBound
  <1>18. Nudge(components) = Ratio(a, n)
    BY <1>8, <1>11, <1>12, <1>15 DEF Nudge
  <1> QED
    BY <1>16, <1>17, <1>18

\* Where the pull back is all there is, it is what nudges.
LEMMA AloneFacts ==
  ASSUME NEW components, NEW r \in Int, Absent \notin Int,
         components["momentum"] = Absent, components["ofi"] = Absent,
         components["skew"] = Absent, components["reversion"] = r
  PROVE  Nudge(components) = Ratio((20 * r) * 80, 20000)
  <1>1. Felt(components) = {"reversion"}
    <2>1. DOMAIN ComponentWeights = {"momentum", "ofi", "skew", "reversion"}
      BY DEF ComponentWeights
    <2>2. r # Absent
      OBVIOUS
    <2> QED
      BY <2>1, <2>2, Zenon DEF Felt
  <1>2. ComponentWeights["reversion"] = 20
    BY DEF ComponentWeights
  <1> DEFINE R == {"reversion"}
             weight == [n \in R |-> ComponentWeights[n]]
             product == [n \in R |-> ComponentWeights[n] * components[n]]
             one == [n \in R |-> 1]
  <1>3. IsFiniteSet(R) /\ Cardinality(R) = 1
    BY FS_Singleton
  <1>4. /\ weight \in [R -> Int] /\ product \in [R -> Int] /\ one \in [R -> Int]
        /\ \A n \in R : weight[n] = 20 * one[n] /\ product[n] = (20 * r) * one[n]
    BY <1>2
  <1>5. SumOver(R, one) = 1
    BY <1>3, SumOfOnes
  <1>6. FeltWeight(components) = SumOver(R, weight) /\ Pressure(components) = SumOver(R, product)
    BY <1>1, Zenon DEF FeltWeight, Pressure
  <1> HIDE DEF R, weight, product, one
  <1>7. PICK p \in Int : p = 20 * r
    OBVIOUS
  <1>8. /\ SumOver(R, weight) \in Int /\ SumOver(R, product) \in Int
        /\ \A n \in R : weight[n] <= 20 * one[n] /\ 20 * one[n] <= weight[n]
                        /\ product[n] <= p * one[n] /\ p * one[n] <= product[n]
    <2>1. \A n \in R : weight[n] \in Int /\ product[n] \in Int
      BY <1>4
    <2> QED
      BY <1>3, <1>4, <1>7, <2>1, SumCompares
  <1>9. SumOver(R, weight) <= 20 * SumOver(R, one) /\ 20 * SumOver(R, one) <= SumOver(R, weight)
    <2>1. 20 \in Int
      OBVIOUS
    <2> QED
      BY <1>3, <1>4, <1>8, <2>1, SumCompares
  <1>10. SumOver(R, product) <= p * SumOver(R, one) /\ p * SumOver(R, one) <= SumOver(R, product)
    BY <1>3, <1>4, <1>8, SumCompares
  <1>11. SumOver(R, weight) = 20 /\ SumOver(R, product) = p
    BY <1>5, <1>8, <1>9, <1>10
  <1>12. Nudge(components) = Ratio(p * 80, 20 * 1000)
    BY <1>6, <1>11 DEF Nudge
  <1> QED
    BY <1>7, <1>12

\* A position just under the lower end is not that of a price next to a bound.
LEMMA LowPosition ==
  ASSUME MarketTypeOK, NEW low \in Int, NEW range \in Int, PositionIn(low, range), 2 <= range,
         NEW p \in Int, p = ((Mid - low) * 1000) \div range, 198 <= p, p < 200
  PROVE  Mid # 1 /\ Mid # 99
  <1>1. PICK m \in Int, a \in Int : m = Mid /\ a = m - low
    BY MiddleFacts
  <1>2. range \in Nat \ {0} /\ a * 1000 \in Int
    OBVIOUS
  <1>3. p * range <= a * 1000 /\ a * 1000 < (p + 1) * range
    <2>1. PICK b \in Int : b = a * 1000
      OBVIOUS
    <2>2. p = b \div range
      BY <1>1, <2>1
    <2>3. PICK q \in Int : q = b \div range /\ q * range <= b /\ b < (q + 1) * range
      BY <1>2, DivBounds
    <2>4. q = p
      BY <2>2, <2>3
    <2> QED
      BY <2>1, <2>3, <2>4
  <1>4. p = 198 \/ p = 199
    OBVIOUS
  <1>5. 198 * range <= a * 1000 /\ a * 1000 < 200 * range
    <2>1. CASE p = 198
      BY <1>3, <2>1
    <2>2. CASE p = 199
      BY <1>3, <2>2
    <2> QED
      BY <1>4, <2>1, <2>2
  <1>6. 0 <= low /\ low + range <= 100 /\ 0 <= a
    BY <1>1 DEF PositionIn
  <1>7. m # 1
    <2>1. ASSUME m = 1 PROVE a = 0 \/ a = 1
      BY <1>1, <1>6, <2>1
    <2>2. a # 0 /\ a # 1
      BY <1>5
    <2> QED
      BY <2>1, <2>2
  <1>8. m # 99
    BY <1>1, <1>5, <1>6
  <1> QED
    BY <1>1, <1>7, <1>8

\* What a nudge makes of a price.
LEMMA NudgedFacts ==
  ASSUME NEW x \in Int, NEW k \in Int, -80 <= k, k <= 80, Nudged(x, k) # Absent
  PROVE  /\ Nudged(x, k).direction = IF k > 0 THEN "yes" ELSE "no"
         /\ Nudged(x, k).prob = Within(20, x + k, 980)
         /\ Magnitude(Within(20, x + k, 980) - x) >= 10
         /\ 20 <= x /\ x <= 980 =>
              /\ Magnitude(Nudged(x, k).prob - x) <= 80
              /\ (k > 0) <=> (Nudged(x, k).prob > x)
  <1>1. PICK prob \in Int : prob = Within(20, x + k, 980)
    BY DEF Within, GreaterOf, LesserOf
  <1>2. Magnitude(prob - x) \in Int
    BY DEF Magnitude, GreaterOf
  <1>3. ~(Magnitude(prob - x) < 10)
    BY <1>1 DEF Nudged
  <1>4. Nudged(x, k) = [prob |-> prob, direction |-> IF k > 0 THEN "yes" ELSE "no"]
    BY <1>1, <1>3 DEF Nudged
  <1>5. /\ Nudged(x, k).direction = IF k > 0 THEN "yes" ELSE "no"
        /\ Nudged(x, k).prob = prob
    BY <1>4
  <1>6. ASSUME 20 <= x, x <= 980
        PROVE  Magnitude(prob - x) <= 80 /\ ((k > 0) <=> (prob > x))
    BY <1>1, <1>3, <1>6 DEF Magnitude, GreaterOf, LesserOf, Within
  <1> QED
    BY <1>1, <1>2, <1>3, <1>5, <1>6

\* The bias correction keeps to its side of the middle and fades.
LEMMA BiasFacts ==
  ASSUME NEW price \in Int, 10 <= price, price <= 990, NEW political \in BOOLEAN
  PROVE  LET far == BiasAdjusted(price, political, 100)
             near == BiasAdjusted(price, political, 6)
         IN /\ price <= 500 => far <= 500 /\ far <= near
            /\ price >= 500 => far >= 500 /\ far >= near
  <1> DEFINE Moved(push, k) ==
               LET adjusted == Within(10, price + Ratio(push * k, 100), 990)
               IN IF Magnitude(adjusted - price) < 10 THEN price ELSE adjusted
             Push == IF political
                       THEN CASE price > 500 -> 65 [] price < 500 -> -65 [] price = 500 -> 0
                       ELSE CASE price < 150 -> -((price * 35) \div 100)
                              [] price > 850 -> ((1000 - price) * 35) \div 100
                              [] price \in 150 .. 850 -> 0
  <1>1. Horizon(100) = 100 /\ Horizon(6) = 30
    BY DEF Horizon
  <1>2. /\ BiasAdjusted(price, political, 100) = Moved(Push, 100)
        /\ BiasAdjusted(price, political, 6) = Moved(Push, 30)
    BY <1>1 DEF BiasAdjusted
  <1>3. PICK push \in Int :
          /\ push = Push
          /\ -65 <= push /\ push <= 65
          /\ price < 500 => push <= 0
          /\ price > 500 => push >= 0
          /\ price = 500 => push = 0
    <2>1. CASE political
      BY <2>1
    <2>2. CASE ~political
      <3>1. CASE price < 150
        <4>1. (price * 35) \div 100 \in Int /\ 0 <= (price * 35) \div 100
              /\ (price * 35) \div 100 <= 65
          BY <3>1
        <4> QED
          BY <2>2, <3>1, <4>1
      <3>2. CASE price > 850
        <4>1. ((1000 - price) * 35) \div 100 \in Int /\ 0 <= ((1000 - price) * 35) \div 100
              /\ ((1000 - price) * 35) \div 100 <= 65
          BY <3>2
        <4> QED
          BY <2>2, <3>2, <4>1
      <3>3. CASE 150 <= price /\ price <= 850
        BY <2>2, <3>3
      <3> QED
        BY <3>1, <3>2, <3>3
    <2> QED
      BY <2>1, <2>2
  <1> HIDE DEF Push, Moved
  <1>4. PICK far \in Int : far = Ratio(push * 100, 100) /\ far = push
    <2>1. Ratio(push * 100, 100) = push
      BY DEF Ratio
    <2> QED
      BY <2>1
  <1>5. PICK near \in Int : /\ near = Ratio(push * 30, 100)
                            /\ push >= 0 => 0 <= near /\ near <= push
                            /\ push <= 0 => push <= near /\ near <= 0
    <2>1. CASE push >= 0
      BY <2>1 DEF Ratio
    <2>2. CASE push < 0
      <3>1. PICK q \in Int : q = (-(push * 30)) \div 100 /\ 0 <= q /\ q <= -push
        BY <2>2
      <3>2. Ratio(push * 30, 100) = -q
        BY <2>2, <3>1 DEF Ratio
      <3> QED
        BY <2>2, <3>1, <3>2
    <2> QED
      BY <2>1, <2>2
  <1>6. PICK a \in Int, b \in Int :
          /\ a = Within(10, price + far, 990) /\ b = Within(10, price + near, 990)
          /\ Moved(push, 100) = IF Magnitude(a - price) < 10 THEN price ELSE a
          /\ Moved(push, 30) = IF Magnitude(b - price) < 10 THEN price ELSE b
    <2>1. Within(10, price + far, 990) \in Int /\ Within(10, price + near, 990) \in Int
      BY DEF Within, GreaterOf, LesserOf
    <2> QED
      BY <1>4, <1>5, <2>1 DEF Moved
  <1>7. price < 500 => a <= b /\ b <= price
    BY <1>3, <1>4, <1>5, <1>6 DEF Within, GreaterOf, LesserOf
  <1>8. price > 500 => a >= b /\ b >= price
    BY <1>3, <1>4, <1>5, <1>6 DEF Within, GreaterOf, LesserOf
  <1>9. price = 500 => a = price /\ b = price
    BY <1>3, <1>4, <1>5, <1>6 DEF Within, GreaterOf, LesserOf
  <1>10. price > 500 => a >= 500
    BY <1>8
  <1>11. /\ BiasAdjusted(price, political, 100) = Moved(push, 100)
         /\ BiasAdjusted(price, political, 6) = Moved(push, 30)
    BY <1>2, <1>3
  <1> QED
    BY <1>6, <1>7, <1>8, <1>9, <1>11 DEF Magnitude, GreaterOf

\* Estimates follow their pressure.
LEMMA EstimatesHold == MarketIInv => EstimatesFollowPressure(Microstructure, Mid * 10)
  <1> SUFFICES ASSUME MarketIInv PROVE EstimatesFollowPressure(Microstructure, Mid * 10)
    OBVIOUS
  <1>0. MarketTypeOK /\ Absent \notin Int
    BY MarketAssumption DEF MarketIInv
  <1>1. PICK mid \in Int, price \in Int :
          mid = Mid /\ price = mid * 10 /\ 0 <= mid /\ mid <= 100
    <2>1. PICK mid \in Int : mid = Mid /\ 0 <= mid /\ mid <= 100
      BY <1>0, MiddleFacts
    <2>2. mid * 10 \in Int
      OBVIOUS
    <2> QED
      BY <2>1, <2>2
  <1>2. PICK m : m = Microstructure
    OBVIOUS
  <1>3. PICK parts : parts = Components
    OBVIOUS
  <1>4. ASSUME m # Absent
        PROVE  /\ Felt(parts) # {} /\ mid # 0 /\ mid # 100
               /\ Nudge(parts) \in Int /\ -80 <= Nudge(parts) /\ Nudge(parts) <= 80
               /\ m = Nudged(price, Nudge(parts)) /\ Nudged(price, Nudge(parts)) # Absent
    <2>1. /\ Felt(parts) # {} /\ mid # 0 /\ mid # 100
          /\ m = Nudged(price, Nudge(parts))
      BY <1>1, <1>2, <1>3, <1>4 DEF Microstructure
    <2>2. \A n \in {"momentum", "ofi", "skew", "reversion"} : SignedPart(parts[n])
      BY <1>0, <1>3, ComponentTypes
    <2>3. Nudge(parts) \in Int /\ -80 <= Nudge(parts) /\ Nudge(parts) <= 80
      BY <2>1, <2>2, NudgeFacts
    <2> QED
      BY <1>4, <2>1, <2>3
  <1>5. PICK k : k = Nudge(parts)
    OBVIOUS
  <1>6. ASSUME m # Absent
        PROVE  /\ m.direction = IF k > 0 THEN "yes" ELSE "no"
               /\ Magnitude(Within(20, price + k, 980) - price) >= 10
               /\ 20 <= price /\ price <= 980 =>
                    /\ Magnitude(m.prob - price) <= 80
                    /\ (k > 0) <=> (m.prob > price)
    <2>1. /\ k \in Int /\ -80 <= k /\ k <= 80
          /\ m = Nudged(price, k) /\ Nudged(price, k) # Absent
      BY <1>4, <1>5, <1>6
    <2> QED
      BY <2>1, NudgedFacts
  <1>7. m # Absent /\ price \in 20 .. 980 =>
          /\ Magnitude(m.prob - price) <= 80
          /\ (m.direction = "yes") <=> (m.prob > price)
    BY <1>6
  <1>8. ASSUME m # Absent, hourly # <<>>, depth = NoneLive, SignedMomentum(hourly) = Absent
        PROVE  (m.direction = "yes") <=> (RangePosition(hourly) < 500)
    <2>1. /\ parts["momentum"] = Absent /\ parts["ofi"] = Absent /\ parts["skew"] = Absent
          /\ parts["reversion"] = IF RangePosition(hourly) = Absent THEN Absent
                                  ELSE Reversion(RangePosition(hourly))
      BY <1>3, <1>8 DEF Components
    <2>2. parts["reversion"] # Absent
      <3>1. DOMAIN ComponentWeights = {"momentum", "ofi", "skew", "reversion"}
        BY DEF ComponentWeights
      <3> QED
        BY <1>4, <1>8, <2>1, <3>1, Zenon DEF Felt
    <2>3. RangePosition(hourly) # Absent
      BY <2>1, <2>2
    <2>4. PICK low \in Int, range \in Int, p \in Int :
            /\ PositionIn(low, range) /\ 2 <= range
            /\ RangePosition(hourly) = p /\ p = ((Mid - low) * 1000) \div range
            /\ 0 <= p /\ p <= 1000
      BY <1>0, <2>3, RangeShare
    <2>5. PICK r : r = parts["reversion"]
      OBVIOUS
    <2>6. /\ r \in Int
          /\ (p > 800 /\ r = -((p - 800) * 5)) \/ (p < 200 /\ r = (200 - p) * 5)
      <3>1. r = Reversion(p) /\ r # Absent
        BY <2>1, <2>2, <2>3, <2>4, <2>5
      <3> QED
        BY <2>4, <3>1 DEF Reversion
    <2>7. k = Ratio((20 * r) * 80, 20000)
      BY <1>0, <1>5, <2>1, <2>5, <2>6, AloneFacts
    <2>8. CASE p > 800
      <3>1. (20 * r) * 80 \in Int /\ (20 * r) * 80 <= 0 /\ 20000 \in Nat \ {0}
        BY <2>6, <2>8
      <3>2. k \in Int /\ k <= 0
        BY <2>7, <3>1, RatioFacts
      <3>3. m.direction = "no"
        BY <1>6, <1>8, <3>2
      <3> QED
        BY <2>4, <2>8, <3>3
    <2>9. CASE p < 200
      <3>1. PICK a \in Int : a = (20 * r) * 80 /\ a = (200 - p) * 8000 /\ 0 < a
        BY <2>6, <2>9
      <3>2. k = a \div 20000
        BY <2>7, <3>1 DEF Ratio
      <3>3. k \in Int /\ 0 <= k /\ (k = 0 => 198 <= p)
        BY <3>1, <3>2
      <3>4. k # 0
        <4> SUFFICES ASSUME k = 0 PROVE FALSE
          OBVIOUS
        <4>1. Mid # 1 /\ Mid # 99
          BY <1>0, <2>4, <2>9, <3>3, LowPosition
        <4>2. 20 <= price /\ price <= 980
          BY <1>1, <1>4, <1>8, <4>1
        <4>3. Within(20, price + k, 980) = price
          BY <4>2 DEF Within, GreaterOf, LesserOf
        <4>4. Magnitude(Within(20, price + k, 980) - price) >= 10
          BY <1>6, <1>8
        <4> QED
          BY <4>3, <4>4 DEF Magnitude, GreaterOf
      <3>5. m.direction = "yes"
        BY <1>6, <1>8, <3>3, <3>4
      <3> QED
        BY <2>4, <2>9, <3>5
    <2> QED
      BY <2>6, <2>8, <2>9
  <1>9. price \in 10 .. 990 => \A political \in BOOLEAN :
          LET far == BiasAdjusted(price, political, 100)
              near == BiasAdjusted(price, political, 6)
          IN /\ price <= 500 => far <= 500 /\ far <= near
             /\ price >= 500 => far >= 500 /\ far >= near
    BY BiasFacts
  <1>10. EstimatesFollowPressure(m, price)
    BY <1>7, <1>8, <1>9 DEF EstimatesFollowPressure
  <1> QED
    BY <1>1, <1>2, <1>10

\* For any market, book, history and trades: the two readings of a market agree
\* with its data and with one another.
THEOREM MarketsAreReadRight == MarketSpec => []MarketIsReadRight
  <1>1. MarketIInv => MarketIsReadRight
    BY MagnitudesHold, RankingHolds, QuoteIsLiveHolds, EstimatesHold, MakerSpreadHolds
       DEF MarketIsReadRight
  <1> QED
    BY <1>1, MarketInitInv, MarketStep, PTL DEF MarketSpec

---------------------------------------------------------------------------
(* MentionsStudies: no prediction of the replay or of the walk sees what   *)
(* it predicts.                                                            *)

\* A sample of the replay.
Samples == [market : Nat, prob : 10 .. 990, backed : BOOLEAN, informative : BOOLEAN]

\* The sample is what the replay makes of its market.
SampleIsReplayed(s, upTo, archive, lines) ==
  LET market == SettledMarkets[s.market]
      e == Replay(market, archive, lines[market.phrase])
  IN /\ s.market \in 1 .. upTo
     /\ market.phrase \in Phrases
     /\ e.emitted /\ e.prob = s.prob /\ e.backed = s.backed /\ e.informative = s.informative

SamplesWereReplayed ==
  \A i \in DOMAIN sampled : SampleIsReplayed(sampled[i], replayed, published, aired)

\* Every market gone through was sampled or skipped.
ReplayAddsUp ==
  Len(sampled) + skippedAs["no_result"] + skippedAs["no_phrase"] + skippedAs["gdelt_error"]
    + skippedAs["no_signal"] = replayed

SampledInOrder == \A i, j \in DOMAIN sampled : i < j => sampled[i].market < sampled[j].market

ErrorsAreRemembered ==
  (\A p \in Phrases : gdeltCache[p] # "error") => skippedAs["gdelt_error"] = 0

ReplayShape ==
  /\ published \subseteq Documents /\ aired \in [Phrases -> Timelines]
  /\ replayed \in 0 .. Len(SettledMarkets)
  /\ gdeltCache \in [Phrases -> {"unasked", "points", "error"}]
  /\ sampled \in Seq(Samples)
  /\ skippedAs \in [Skips -> Nat]

ReplayIInv ==
  /\ ReplayShape
  /\ SamplesWereReplayed
  /\ ReplayAddsUp
  /\ SampledInOrder
  /\ ErrorsAreRemembered

\* An estimate is a probability, and says whether the corpus backs it.
LEMMA EstimateFacts ==
  ASSUME NEW hasGdelt, NEW p \in Int, NEW docs \in Nat, NEW matches \in Nat
  PROVE  LET e == BaseEstimate(hasGdelt, p, docs, matches) IN
         /\ e.emitted \in BOOLEAN
         /\ e.prob \in 10 .. 990
         /\ e.backed \in BOOLEAN
         /\ e.informative = e.backed
         /\ docs = 0 => ~e.backed
  <1>1. \A q \in Int : InUnit(q) \in 10 .. 990
    BY DEF InUnit
  <1>2. Fused(hasGdelt, p, docs, matches) \in Int
    <2>1. docs > 0 => /\ (matches * 1000 + 5 * p) \div (docs + 5) \in Int
                      /\ (matches * 1000) \div docs \in Int
      OBVIOUS
    <2> QED
      BY <2>1 DEF Fused
  <1>3. docs = 0 => ~(docs >= BackedDocuments)
    BY StudiesAssumption
  <1>4. CASE ~hasGdelt /\ docs < ThinDocuments
    BY <1>4 DEF BaseEstimate, Silent
  <1>5. CASE ~(~hasGdelt /\ docs < ThinDocuments)
    <2> DEFINE f == InUnit(Fused(hasGdelt, p, docs, matches))
               b == docs >= BackedDocuments
    <2>1. BaseEstimate(hasGdelt, p, docs, matches) =
            [emitted |-> TRUE, prob |-> f, backed |-> b, informative |-> b]
      BY <1>5 DEF BaseEstimate
    <2>2. f \in 10 .. 990 /\ b \in BOOLEAN /\ (docs = 0 => ~b)
      BY <1>1, <1>2, <1>3
    <2> HIDE DEF f, b
    <2> QED
      BY <2>1, <2>2
  <1> QED
    BY <1>4, <1>5

\* So is what the replay makes of a market; a Fed market alone has a corpus.
LEMMA ReplayFacts ==
  ASSUME NEW market, NEW archive \in SUBSET Documents, NEW line \in Timelines
  PROVE  LET e == Replay(market, archive, line) IN
         /\ e.emitted \in BOOLEAN
         /\ e.prob \in 10 .. 990
         /\ e.backed \in BOOLEAN
         /\ e.informative = e.backed
         /\ ~market.fed => ~e.backed
  <1> DEFINE months == PointsUpTo(line, market.month)
             counted == IF market.fed THEN DocumentsBefore(archive, market.day) ELSE {}
             matching == {d \in counted : market.phrase \in d.says}
             has == months # {}
             rate == BaseRate(line, months)
  <1>1. IsFiniteSet(Documents) /\ IsFiniteSet(DOMAIN line)
    BY StudiesAssumption
  <1>2. counted \subseteq Documents /\ matching \subseteq Documents
    BY DEF DocumentsBefore
  <1>3. months \subseteq DOMAIN line
    BY DEF PointsUpTo
  <1>4. /\ IsFiniteSet(counted) /\ Cardinality(counted) \in Nat
        /\ Cardinality(matching) \in Nat
        /\ IsFiniteSet(months)
    BY <1>1, <1>2, <1>3, FS_Subset, FS_CardinalityType
  <1>5. rate \in Int
    <2>1. CASE months = {}
      BY <2>1 DEF BaseRate
    <2>2. CASE months # {}
      <3> DEFINE said == {m \in months : line[m] = "said"}
      <3>1. Cardinality(said) \in Nat
        BY <1>4, FS_Subset, FS_CardinalityType
      <3>2. Cardinality(months) \in Nat /\ Cardinality(months) # 0
        BY <1>4, <2>2, FS_CardinalityType, FS_EmptySet
      <3>3. rate = (Cardinality(said) * 1000) \div Cardinality(months)
        BY <2>2 DEF BaseRate
      <3> HIDE DEF said, months, rate
      <3> QED
        BY <3>1, <3>2, <3>3
    <2> QED
      BY <2>1, <2>2
  <1>6. ~market.fed => Cardinality(counted) = 0
    BY FS_EmptySet
  <1>7. Replay(market, archive, line) =
          BaseEstimate(has, rate, Cardinality(counted), Cardinality(matching))
    BY DEF Replay
  <1>8. has \in BOOLEAN
    OBVIOUS
  <1> DEFINE docs == Cardinality(counted)
             said == Cardinality(matching)
             e == BaseEstimate(has, rate, docs, said)
  <1>9. /\ e.emitted \in BOOLEAN
        /\ e.prob \in 10 .. 990
        /\ e.backed \in BOOLEAN
        /\ e.informative = e.backed
        /\ docs = 0 => ~e.backed
    <2>1. docs \in Nat /\ said \in Nat
      BY <1>4
    <2> HIDE DEF has, rate, docs, said
    <2> QED
      BY <1>5, <1>8, <2>1, EstimateFacts
  <1> HIDE DEF docs, e
  <1>10. Replay(market, archive, line) = e
    BY <1>7 DEF e, docs
  <1> QED
    BY <1>6, <1>9, <1>10 DEF docs

\* The replay of a market is the same in worlds that are the same before it closed.
LEMMA ReplayIsAsOf ==
  ASSUME NEW market, NEW archive, NEW other, NEW line \in Timelines, NEW other2 \in Timelines,
         {d \in other : d.day < market.day} = {d \in archive : d.day < market.day},
         \A m \in DOMAIN other2 : m <= market.month => other2[m] = line[m]
  PROVE  Replay(market, other, other2) = Replay(market, archive, line)
  <1>1. DOMAIN other2 = DOMAIN line
    BY StudiesAssumption
  <1>2. PointsUpTo(other2, market.month) = PointsUpTo(line, market.month)
    BY <1>1 DEF PointsUpTo
  <1> DEFINE months == PointsUpTo(line, market.month)
  <1>3. {m \in months : other2[m] = "said"} = {m \in months : line[m] = "said"}
    BY <1>1 DEF PointsUpTo
  <1>4. BaseRate(other2, months) = BaseRate(line, months)
    <2> HIDE DEF months
    <2> DEFINE A == {m \in months : other2[m] = "said"}
               B == {m \in months : line[m] = "said"}
    <2>1. BaseRate(other2, months) =
            IF months = {} THEN 0 ELSE (Cardinality(A) * 1000) \div Cardinality(months)
      BY DEF BaseRate
    <2>2. BaseRate(line, months) =
            IF months = {} THEN 0 ELSE (Cardinality(B) * 1000) \div Cardinality(months)
      BY DEF BaseRate
    <2>3. A = B
      BY <1>3
    <2> HIDE DEF A, B
    <2> QED
      BY <2>1, <2>2, <2>3
  <1>5. DocumentsBefore(other, market.day) = DocumentsBefore(archive, market.day)
    BY DEF DocumentsBefore
  <1> QED
    BY <1>2, <1>4, <1>5 DEF Replay

\* A skip is counted under its reason alone.
LEMMA SkipFacts ==
  ASSUME skippedAs \in [Skips -> Nat], NEW why \in Skips, SkipAs(why)
  PROVE  /\ replayed' = replayed + 1
         /\ skippedAs' \in [Skips -> Nat]
         /\ skippedAs'[why] = skippedAs[why] + 1
         /\ \A other \in Skips \ {why} : skippedAs'[other] = skippedAs[other]
         /\ UNCHANGED <<published, aired, sampled>>
  BY DEF SkipAs

\* A market that is skipped changes no sample.
LEMMA SkipKeepsInv ==
  ASSUME ReplayIInv, NEW why \in Skips, SkipAs(why), replayed < Len(SettledMarkets),
         gdeltCache' \in [Phrases -> {"unasked", "points", "error"}],
         UNCHANGED gdeltCache,
         why = "gdelt_error" => \E p \in Phrases : gdeltCache[p] = "error"
  PROVE  ReplayIInv'
  <1>1. /\ replayed' = replayed + 1
        /\ skippedAs' \in [Skips -> Nat]
        /\ skippedAs'[why] = skippedAs[why] + 1
        /\ \A other \in Skips \ {why} : skippedAs'[other] = skippedAs[other]
        /\ UNCHANGED <<published, aired, sampled>>
    BY SkipFacts DEF ReplayIInv, ReplayShape
  <1>2. /\ replayed \in Nat /\ Len(SettledMarkets) \in Nat /\ replayed <= Len(SettledMarkets)
        /\ skippedAs \in [Skips -> Nat] /\ Len(sampled) \in Nat
    BY StudiesAssumption DEF ReplayIInv, ReplayShape
  <1>3. ReplayShape'
    BY <1>1, <1>2 DEF ReplayIInv, ReplayShape
  <1>4. SamplesWereReplayed'
    BY <1>1, <1>2 DEF ReplayIInv, SamplesWereReplayed, SampleIsReplayed
  <1>5. ReplayAddsUp'
    <2>1. Len(sampled) + skippedAs["no_result"] + skippedAs["no_phrase"] + skippedAs["gdelt_error"]
            + skippedAs["no_signal"] = replayed
      BY DEF ReplayIInv, ReplayAddsUp
    <2>2. \A w \in Skips : skippedAs[w] \in Nat
      BY <1>2
    <2> DEFINE a == skippedAs["no_result"]
               b == skippedAs["no_phrase"]
               c == skippedAs["gdelt_error"]
               d == skippedAs["no_signal"]
               n == Len(sampled)
    <2>3. /\ a \in Nat /\ b \in Nat /\ c \in Nat /\ d \in Nat /\ n \in Nat
          /\ n + a + b + c + d = replayed
      BY <1>2, <2>1, <2>2 DEF Skips
    <2>4. n' = n /\ replayed' = replayed + 1
      BY <1>1
    <2>5. \/ a' = a + 1 /\ b' = b /\ c' = c /\ d' = d
          \/ a' = a /\ b' = b + 1 /\ c' = c /\ d' = d
          \/ a' = a /\ b' = b /\ c' = c + 1 /\ d' = d
          \/ a' = a /\ b' = b /\ c' = c /\ d' = d + 1
      <3>1. CASE why = "no_result"
        BY <1>1, <3>1 DEF Skips
      <3>2. CASE why = "no_phrase"
        BY <1>1, <3>2 DEF Skips
      <3>3. CASE why = "gdelt_error"
        BY <1>1, <3>3 DEF Skips
      <3>4. CASE why = "no_signal"
        BY <1>1, <3>4 DEF Skips
      <3> QED
        BY <3>1, <3>2, <3>3, <3>4 DEF Skips
    <2>6. ReplayAddsUp' <=> n' + a' + b' + c' + d' = replayed'
      BY DEF ReplayAddsUp
    <2> HIDE DEF a, b, c, d, n
    <2>7. n' + a' + b' + c' + d' = (n + a + b + c + d) + 1
      BY <2>3, <2>4, <2>5
    <2> QED
      BY <2>3, <2>4, <2>6, <2>7
  <1>6. SampledInOrder'
    BY <1>1 DEF ReplayIInv, SampledInOrder
  <1>7. ErrorsAreRemembered'
    BY <1>1 DEF ReplayIInv, ErrorsAreRemembered, Skips
  <1> QED
    BY <1>3, <1>4, <1>5, <1>6, <1>7 DEF ReplayIInv

\* A market in hand has a phrase.
LEMMA UsableFacts ==
  ASSUME UsableMarket, replayed \in 0 .. Len(SettledMarkets)
  PROVE  /\ replayed + 1 \in 1 .. Len(SettledMarkets)
         /\ AtMarket = SettledMarkets[replayed + 1]
         /\ AtMarket.phrase \in Phrases
  <1>1. replayed + 1 \in 1 .. Len(SettledMarkets)
    BY StudiesAssumption DEF UsableMarket
  <1>2. replayed + 1 \in DOMAIN SettledMarkets
    BY <1>1, StudiesAssumption
  <1> QED
    BY <1>1, <1>2 DEF UsableMarket, AtMarket, Phrases

\* A market that is replayed adds what the replay makes of it, or is skipped.
LEMMA ReplayMarketInv == ReplayIInv /\ ReplayMarket => ReplayIInv'
  <1> SUFFICES ASSUME ReplayIInv, ReplayMarket PROVE ReplayIInv'
    OBVIOUS
  <1> DEFINE e == Replay(AtMarket, published, aired[AtMarket.phrase])
             row == [market |-> replayed + 1, prob |-> e.prob, backed |-> e.backed,
                     informative |-> e.informative]
  <1>0. /\ UsableMarket /\ UNCHANGED gdeltCache
        /\ replayed \in 0 .. Len(SettledMarkets) /\ replayed \in Nat
        /\ sampled \in Seq(Samples) /\ Len(sampled) \in Nat
        /\ skippedAs \in [Skips -> Nat]
        /\ Len(SettledMarkets) \in Nat
    BY StudiesAssumption DEF ReplayMarket, ReplayIInv, ReplayShape
  <1>1. /\ replayed + 1 \in 1 .. Len(SettledMarkets)
        /\ AtMarket = SettledMarkets[replayed + 1]
        /\ AtMarket.phrase \in Phrases
    BY <1>0, UsableFacts
  <1>2. /\ published \in SUBSET Documents
        /\ aired[AtMarket.phrase] \in Timelines
    BY <1>1 DEF ReplayIInv, ReplayShape
  <1>3. /\ e.prob \in 10 .. 990 /\ e.backed \in BOOLEAN /\ e.informative = e.backed
    BY <1>2, ReplayFacts
  <1>4. CASE ~e.emitted
    <2>1. SkipAs("no_signal")
      BY <1>4 DEF ReplayMarket
    <2>2. "no_signal" \in Skips /\ replayed < Len(SettledMarkets)
      BY <1>0 DEF Skips, UsableMarket
    <2>3. gdeltCache' \in [Phrases -> {"unasked", "points", "error"}]
      BY <1>0 DEF ReplayIInv, ReplayShape
    <2> QED
      BY <1>0, <2>1, <2>2, <2>3, SkipKeepsInv
  <1>5. CASE e.emitted
    <2>1. /\ sampled' = Append(sampled, row)
          /\ replayed' = replayed + 1
          /\ UNCHANGED <<published, aired, skippedAs>>
      BY <1>5 DEF ReplayMarket
    <2> DEFINE at == replayed + 1
               p == e.prob
               b == e.backed
               f == e.informative
    <2>a. at \in Nat /\ p \in 10 .. 990 /\ b \in BOOLEAN /\ f \in BOOLEAN
      <3>1. at \in Nat
        BY <1>0
      <3> HIDE DEF e
      <3> QED
        BY <1>3, <3>1
    <2>b. row = [market |-> at, prob |-> p, backed |-> b, informative |-> f]
      OBVIOUS
    <2>2. /\ row \in Samples
          /\ row.market = replayed + 1 /\ row.prob = e.prob
          /\ row.backed = e.backed /\ row.informative = e.informative
      <3>1. row \in Samples
        <4> HIDE DEF at, p, b, f, row
        <4> QED
          BY <2>a, <2>b DEF Samples
      <3> QED
        BY <3>1
    <2> HIDE DEF row
    <2>3. /\ sampled' \in Seq(Samples) /\ Len(sampled') = Len(sampled) + 1
          /\ \A i \in 1 .. Len(sampled) : sampled'[i] = sampled[i]
          /\ sampled'[Len(sampled) + 1] = row
          /\ DOMAIN sampled' = 1 .. Len(sampled) + 1
          /\ DOMAIN sampled = 1 .. Len(sampled)
      BY <1>0, <2>1, <2>2
    <2>4. ReplayShape'
      BY <1>0, <1>1, <2>1, <2>3 DEF ReplayIInv, ReplayShape
    <2>5. SamplesWereReplayed'
      <3>1. ASSUME NEW i \in 1 .. Len(sampled)
            PROVE  SampleIsReplayed(sampled'[i], replayed', published', aired')
        <4>1. SampleIsReplayed(sampled[i], replayed, published, aired)
          BY <2>3 DEF ReplayIInv, SamplesWereReplayed
        <4>2. sampled'[i] = sampled[i]
          BY <2>3
        <4>3. \A k \in 1 .. replayed : k \in 1 .. replayed'
          BY <1>0, <2>1
        <4> QED
          BY <2>1, <4>1, <4>2, <4>3 DEF SampleIsReplayed
      <3>2. SampleIsReplayed(row, replayed', published', aired')
        <4>1. row.market \in 1 .. replayed'
          BY <1>0, <2>1, <2>2
        <4> QED
          BY <1>1, <1>5, <2>1, <2>2, <4>1 DEF SampleIsReplayed
      <3>3. \A i \in DOMAIN sampled' : i \in 1 .. Len(sampled) \/ i = Len(sampled) + 1
        BY <1>0, <2>3
      <3> QED
        BY <2>3, <3>1, <3>2, <3>3 DEF SamplesWereReplayed
    <2>6. ReplayAddsUp'
      <3>1. Len(sampled) + skippedAs["no_result"] + skippedAs["no_phrase"]
              + skippedAs["gdelt_error"] + skippedAs["no_signal"] = replayed
        BY DEF ReplayIInv, ReplayAddsUp
      <3>2. \A w \in Skips : skippedAs[w] \in Nat
        BY <1>0
      <3> QED
        BY <1>0, <2>1, <2>3, <3>1, <3>2 DEF ReplayAddsUp, Skips
    <2>7. SampledInOrder'
      <3>1. \A i \in 1 .. Len(sampled) : sampled[i].market \in 1 .. replayed
        BY <2>3 DEF ReplayIInv, SamplesWereReplayed, SampleIsReplayed
      <3>2. \A i, j \in 1 .. Len(sampled) : i < j => sampled[i].market < sampled[j].market
        BY <2>3 DEF ReplayIInv, SampledInOrder
      <3> SUFFICES ASSUME NEW i \in 1 .. Len(sampled) + 1, NEW j \in 1 .. Len(sampled) + 1, i < j
                   PROVE  sampled'[i].market < sampled'[j].market
        BY <2>3 DEF SampledInOrder
      <3>3. CASE j \in 1 .. Len(sampled)
        <4>1. i \in 1 .. Len(sampled)
          BY <1>0, <3>3
        <4> QED
          BY <2>3, <3>2, <3>3, <4>1
      <3>4. CASE j = Len(sampled) + 1
        <4>1. i \in 1 .. Len(sampled)
          BY <1>0, <3>4
        <4>2. sampled'[i].market \in 1 .. replayed /\ sampled'[j].market = replayed + 1
          BY <2>2, <2>3, <3>1, <3>4, <4>1
        <4> QED
          BY <1>0, <4>2
      <3> QED
        BY <1>0, <3>3, <3>4
    <2>8. ErrorsAreRemembered'
      BY <1>0, <2>1 DEF ReplayIInv, ErrorsAreRemembered
    <2> QED
      BY <2>4, <2>5, <2>6, <2>7, <2>8 DEF ReplayIInv
  <1> QED
    BY <1>4, <1>5

LEMMA ReplayStepInv == ReplayIInv /\ ReplayNext => ReplayIInv'
  <1> SUFFICES ASSUME ReplayIInv, ReplayNext PROVE ReplayIInv'
    OBVIOUS
  <1>0. /\ replayed \in 0 .. Len(SettledMarkets)
        /\ gdeltCache \in [Phrases -> {"unasked", "points", "error"}]
    BY DEF ReplayIInv, ReplayShape
  <1>1. CASE SkipUnusable
    <2>1. /\ replayed < Len(SettledMarkets) /\ UNCHANGED gdeltCache
          /\ SkipAs("no_result") \/ SkipAs("no_phrase")
      BY <1>1 DEF SkipUnusable
    <2>2. "no_result" \in Skips /\ "no_phrase" \in Skips
      BY DEF Skips
    <2> QED
      BY <1>0, <2>1, <2>2, SkipKeepsInv
  <1>2. ASSUME NEW heard \in BOOLEAN, AskGdelt(heard)
        PROVE  ReplayIInv'
    <2>1. /\ UsableMarket /\ gdeltCache[AtMarket.phrase] = "unasked"
          /\ gdeltCache' = [gdeltCache EXCEPT ![AtMarket.phrase] =
                              IF heard THEN "points" ELSE "error"]
          /\ UNCHANGED <<published, aired, replayed, sampled, skippedAs>>
      BY <1>2 DEF AskGdelt
    <2>2. gdeltCache' \in [Phrases -> {"unasked", "points", "error"}]
      BY <1>0, <2>1
    <2>3. ReplayShape'
      BY <2>1, <2>2 DEF ReplayIInv, ReplayShape
    <2>4. SamplesWereReplayed' /\ ReplayAddsUp' /\ SampledInOrder'
      BY <2>1 DEF ReplayIInv, SamplesWereReplayed, SampleIsReplayed, ReplayAddsUp, SampledInOrder
    <2>5. ErrorsAreRemembered'
      <3>1. \A p \in Phrases : gdeltCache[p] = "error" => gdeltCache'[p] = "error"
        BY <1>0, <2>1
      <3> QED
        BY <2>1, <3>1 DEF ReplayIInv, ErrorsAreRemembered
    <2> QED
      BY <2>3, <2>4, <2>5 DEF ReplayIInv
  <1>3. CASE SkipErrored
    <2>1. /\ UsableMarket /\ gdeltCache[AtMarket.phrase] = "error"
          /\ SkipAs("gdelt_error") /\ UNCHANGED gdeltCache
      BY <1>3 DEF SkipErrored
    <2>2. replayed < Len(SettledMarkets) /\ "gdelt_error" \in Skips
      BY <2>1 DEF UsableMarket, Skips
    <2>3. AtMarket.phrase \in Phrases
      BY <1>0, <2>1, UsableFacts
    <2> QED
      BY <1>0, <2>1, <2>2, <2>3, SkipKeepsInv
  <1>4. CASE ReplayMarket
    BY <1>4, ReplayMarketInv
  <1> QED
    BY <1>1, <1>2, <1>3, <1>4 DEF ReplayNext

LEMMA ReplayInitInv == StudiesInit => ReplayIInv
  <1> SUFFICES ASSUME StudiesInit PROVE ReplayIInv
    OBVIOUS
  <1>1. /\ replayed = 0 /\ sampled = <<>>
        /\ gdeltCache = [p \in Phrases |-> "unasked"]
        /\ skippedAs = [why \in Skips |-> 0]
    BY DEF StudiesInit
  <1>2. published \subseteq Documents /\ aired \in [Phrases -> Timelines]
    BY StudiesAssumption DEF StudiesInit
  <1>3. 0 \in 0 .. Len(SettledMarkets)
    BY StudiesAssumption
  <1>4. sampled \in Seq(Samples) /\ Len(sampled) = 0 /\ DOMAIN sampled = {}
    BY <1>1, EmptySeq
  <1>5. skippedAs \in [Skips -> Nat] /\ \A w \in Skips : skippedAs[w] = 0
    BY <1>1
  <1>6. ReplayShape
    BY <1>1, <1>2, <1>3, <1>4, <1>5 DEF ReplayShape
  <1>7. ReplayAddsUp /\ ErrorsAreRemembered
    BY <1>1, <1>4, <1>5 DEF ReplayAddsUp, ErrorsAreRemembered, Skips
  <1> QED
    BY <1>4, <1>6, <1>7 DEF ReplayIInv, SamplesWereReplayed, SampledInOrder

\* A sample is what the replay would make of its market in every world that
\* was the same before it closed.
LEMMA SamplesAreAsOfHolds == ReplayIInv => SamplesAreAsOf
  <1> SUFFICES ASSUME ReplayIInv, NEW i \in DOMAIN sampled,
                      NEW archive \in SUBSET Documents, NEW other \in Timelines,
                      {d \in archive : d.day < SettledMarkets[sampled[i].market].day}
                        = {d \in published : d.day < SettledMarkets[sampled[i].market].day},
                      \A m \in DOMAIN other :
                        m <= SettledMarkets[sampled[i].market].month =>
                          other[m] = aired[SettledMarkets[sampled[i].market].phrase][m]
               PROVE  LET e == Replay(SettledMarkets[sampled[i].market], archive, other) IN
                      e.emitted /\ e.prob = sampled[i].prob /\ e.backed = sampled[i].backed
    BY DEF SamplesAreAsOf
  <1> DEFINE market == SettledMarkets[sampled[i].market]
             line == aired[market.phrase]
             e == Replay(market, published, line)
  <1>1. market.phrase \in Phrases /\ e.emitted /\ e.prob = sampled[i].prob
          /\ e.backed = sampled[i].backed
    BY DEF ReplayIInv, SamplesWereReplayed, SampleIsReplayed
  <1>2. line \in Timelines
    BY <1>1 DEF ReplayIInv, ReplayShape
  <1>3. Replay(market, archive, other) = e
    <2> HIDE DEF market, line
    <2>1. /\ {d \in archive : d.day < market.day} = {d \in published : d.day < market.day}
          /\ \A m \in DOMAIN other : m <= market.month => other[m] = line[m]
      BY DEF market, line
    <2> QED
      BY <1>2, <2>1, ReplayIsAsOf
  <1> QED
    BY <1>1, <1>3

\* Every market gone through counts.
LEMMA EveryMarketCountsHolds == ReplayIInv => EveryMarketCounts
  <1> SUFFICES ASSUME ReplayIInv PROVE EveryMarketCounts
    OBVIOUS
  <1>1. ASSUME NEW i \in DOMAIN sampled
        PROVE  /\ sampled[i].informative => sampled[i].backed
               /\ ~SettledMarkets[sampled[i].market].fed => ~sampled[i].informative
    <2> DEFINE market == SettledMarkets[sampled[i].market]
               line == aired[market.phrase]
               e == Replay(market, published, line)
    <2>1. market.phrase \in Phrases /\ e.backed = sampled[i].backed
            /\ e.informative = sampled[i].informative
      BY <1>1 DEF ReplayIInv, SamplesWereReplayed, SampleIsReplayed
    <2>2. line \in Timelines /\ published \in SUBSET Documents
      BY <2>1 DEF ReplayIInv, ReplayShape
    <2>3. e.informative = e.backed /\ (~market.fed => ~e.backed)
      BY <2>2, ReplayFacts
    <2> QED
      BY <2>1, <2>3
  <1>2. ReplayAddsUp /\ SampledInOrder /\ ErrorsAreRemembered
    BY DEF ReplayIInv
  <1> QED
    BY <1>1, <1>2 DEF EveryMarketCounts, ReplayAddsUp, SampledInOrder, ErrorsAreRemembered


\* The date and the speaker of an event.
Day(i) == corpusEvents[i].day
Speaker(i) == corpusEvents[i].speaker

\* What has been folded in.
Done == {i \in Placed : Day(i) <= walkedTo}

\* The events of earlier dates; those that say the phrase; those of a speaker.
Earlier(i) == {j \in Placed : Day(j) < Day(i)}
SaidOf(events) == {j \in events : Says(j)}
OwnOf(events, s) == {j \in events : Speaks(s, j)}

\* A prediction from a set of events.
PredictionFrom(i, events) ==
  Prediction(i, Cardinality(events), Cardinality(SaidOf(events)),
             Cardinality(OwnOf(events, Speaker(i))),
             Cardinality(SaidOf(OwnOf(events, Speaker(i)))))

\* What the walk goes over.
CorpusIsFinite ==
  /\ IsFiniteSet(DOMAIN corpusEvents)
  /\ \A i \in DOMAIN corpusEvents : corpusEvents[i] \in Transcripts
  /\ walkedTo \in Nat

\* The counts are the counts of what has been folded in.
CountsAreOfTheDone ==
  /\ globalDocs = Cardinality(Done)
  /\ globalMatches = Cardinality(SaidOf(Done))
  /\ speakerDocs = [s \in Speakers |-> Cardinality(OwnOf(Done, s))]
  /\ speakerMatches = [s \in Speakers |-> Cardinality(SaidOf(OwnOf(Done, s)))]

\* Each event is predicted once, from what came before.
PredictedFromEarlier ==
  predicted = {PredictionFrom(i, Earlier(i)) : i \in {k \in Done : Earlier(k) # {}}}

WalkIInv ==
  /\ CorpusIsFinite
  /\ CountsAreOfTheDone
  /\ PredictedFromEarlier

\* The events that are walked over have a speaker and a date.
LEMMA PlacedFacts ==
  ASSUME CorpusIsFinite
  PROVE  /\ IsFiniteSet(Placed)
         /\ \A i \in Placed : Day(i) \in Nat /\ Day(i) # 0 /\ Speaker(i) \in Speakers
         /\ Done \subseteq Placed
  <1>1. IsFiniteSet(Placed)
    BY FS_Subset DEF CorpusIsFinite, Placed
  <1>2. \A e \in Transcripts : e.day \in Nat
    BY StudiesAssumption
  <1>3. \A i \in Placed : /\ corpusEvents[i] \in Transcripts
                          /\ Speaker(i) # NoSpeaker /\ Day(i) # 0
    BY DEF CorpusIsFinite, Placed, Speaker, Day
  <1>4. \A i \in Placed : Day(i) \in Nat /\ Speaker(i) \in Speakers
    BY <1>2, <1>3 DEF Speakers, Speaker, Day
  <1> QED
    BY <1>1, <1>3, <1>4 DEF Done

\* Nothing has been folded in at first.
LEMMA WalkStartsEmpty ==
  ASSUME CorpusIsFinite, walkedTo = 0
  PROVE  Done = {}
  BY PlacedFacts DEF Done

LEMMA WalkInitInv == StudiesInit => WalkIInv
  <1> SUFFICES ASSUME StudiesInit PROVE WalkIInv
    OBVIOUS
  <1>1. /\ walkedTo = 0 /\ globalDocs = 0 /\ globalMatches = 0
        /\ speakerDocs = [s \in Speakers |-> 0] /\ speakerMatches = [s \in Speakers |-> 0]
        /\ predicted = {}
    BY DEF StudiesInit
  <1>2. CorpusIsFinite
    <2>1. CASE corpusEvents = <<>>
      <3>1. DOMAIN corpusEvents = {}
        BY <2>1
      <3> QED
        BY <1>1, <3>1, FS_EmptySet DEF CorpusIsFinite
    <2>2. CASE corpusEvents \in Corpora
      <3>1. PICK n \in 1 .. MaxTranscripts : corpusEvents \in [1 .. n -> Transcripts]
        BY <2>2 DEF Corpora
      <3>2. IsFiniteSet(1 .. n)
        BY <3>1, StudiesAssumption, FS_Interval
      <3> QED
        BY <1>1, <3>1, <3>2 DEF CorpusIsFinite
    <2> QED
      BY <2>1, <2>2 DEF StudiesInit
  <1>3. Done = {}
    BY <1>1, <1>2, WalkStartsEmpty
  <1>4. /\ SaidOf(Done) = {} /\ \A s : OwnOf(Done, s) = {} /\ SaidOf(OwnOf(Done, s)) = {}
    BY <1>3 DEF SaidOf, OwnOf
  <1>5. Cardinality({}) = 0
    BY FS_EmptySet
  <1>6. CountsAreOfTheDone
    BY <1>1, <1>3, <1>4, <1>5 DEF CountsAreOfTheDone
  <1>7. PredictedFromEarlier
    BY <1>1, <1>3 DEF PredictedFromEarlier
  <1> QED
    BY <1>2, <1>6, <1>7 DEF WalkIInv

\* Counting two sets that have nothing in common.
LEMMA CountsAdd ==
  ASSUME NEW S, NEW T, IsFiniteSet(S), IsFiniteSet(T), S \cap T = {}
  PROVE  Cardinality(S \cup T) = Cardinality(S) + Cardinality(T)
  <1>1. Cardinality(S \cup T) = Cardinality(S) + Cardinality(T) - Cardinality({})
    BY FS_Union
  <1>2. Cardinality(S) \in Nat /\ Cardinality(T) \in Nat /\ Cardinality({}) = 0
    BY FS_CardinalityType, FS_EmptySet
  <1> QED
    BY <1>1, <1>2

\* The next date is the earliest ahead.
LEMMA NextDateFacts ==
  ASSUME CorpusIsFinite, Ahead # {}
  PROVE  /\ NextDate \in Nat /\ NextDate > walkedTo
         /\ \E i \in Ahead : Day(i) = NextDate
         /\ \A i \in Ahead : NextDate <= Day(i)
  <1> DEFINE T == {corpusEvents[i].day : i \in Ahead}
  <1>1. \A i \in Ahead : i \in Placed /\ Day(i) > walkedTo /\ Day(i) \in Nat
    BY PlacedFacts DEF Ahead, Day
  <1>2. T \subseteq Nat /\ T # {}
    BY <1>1 DEF Day
  <1>3. \E day \in T : \A i \in Ahead : day <= corpusEvents[i].day
    <2> HIDE DEF T
    <2>1. PICK day \in T : \A m \in T : day <= m
      BY <1>2, LeastOfNaturals
    <2> QED
      BY <2>1 DEF T
  <1>4. NextDate \in T /\ \A i \in Ahead : NextDate <= corpusEvents[i].day
    BY <1>3 DEF NextDate
  <1> QED
    BY <1>1, <1>2, <1>4 DEF Day

\* The events of the next date.
Group == {i \in Ahead : Day(i) = NextDate}

\* They are what comes next, and what came before them is done.
LEMMA GroupFacts ==
  ASSUME CorpusIsFinite, Ahead # {}
  PROVE  /\ Group \subseteq Placed /\ Done \cap Group = {}
         /\ Done \cup Group = {i \in Placed : Day(i) <= NextDate}
         /\ \A i \in Group : Earlier(i) = Done
  <1>1. /\ NextDate \in Nat /\ NextDate > walkedTo
        /\ \A i \in Ahead : NextDate <= Day(i)
    BY NextDateFacts
  <1>2. walkedTo \in Nat /\ \A i \in Placed : Day(i) \in Nat
    BY PlacedFacts DEF CorpusIsFinite
  <1>3. Ahead = {i \in Placed : Day(i) > walkedTo}
    BY DEF Ahead, Day
  <1> QED
    BY <1>1, <1>2, <1>3 DEF Group, Done, Earlier

\* What is folded in is added to each count.
LEMMA FoldFacts ==
  ASSUME WalkIInv, Ahead # {}, NEW s
  PROVE  LET all == Done \cup Group IN
         /\ Cardinality(all) = Cardinality(Done) + Cardinality(Group)
         /\ Cardinality(SaidOf(all)) = Cardinality(SaidOf(Done)) + Cardinality(SaidOf(Group))
         /\ Cardinality(OwnOf(all, s)) =
              Cardinality(OwnOf(Done, s)) + Cardinality(OwnOf(Group, s))
         /\ Cardinality(SaidOf(OwnOf(all, s))) =
              Cardinality(SaidOf(OwnOf(Done, s))) + Cardinality(SaidOf(OwnOf(Group, s)))
  <1>1. /\ Group \subseteq Placed /\ Done \subseteq Placed /\ IsFiniteSet(Placed)
        /\ Done \cap Group = {}
    BY GroupFacts, PlacedFacts DEF WalkIInv
  <1> HIDE DEF Group, Done
  <1>2. \A S \in SUBSET Done, T \in SUBSET Group :
          Cardinality(S \cup T) = Cardinality(S) + Cardinality(T)
    <2> SUFFICES ASSUME NEW S \in SUBSET Done, NEW T \in SUBSET Group
                 PROVE  Cardinality(S \cup T) = Cardinality(S) + Cardinality(T)
      OBVIOUS
    <2>1. S \subseteq Placed /\ T \subseteq Placed /\ S \cap T = {}
      BY <1>1
    <2>2. IsFiniteSet(S) /\ IsFiniteSet(T)
      BY <1>1, <2>1, FS_Subset
    <2> QED
      BY <2>1, <2>2, CountsAdd
  <1>3. /\ SaidOf(Done \cup Group) = SaidOf(Done) \cup SaidOf(Group)
        /\ OwnOf(Done \cup Group, s) = OwnOf(Done, s) \cup OwnOf(Group, s)
        /\ SaidOf(OwnOf(Done \cup Group, s)) = SaidOf(OwnOf(Done, s)) \cup SaidOf(OwnOf(Group, s))
    BY DEF SaidOf, OwnOf
  <1>4. /\ SaidOf(Done) \in SUBSET Done /\ SaidOf(Group) \in SUBSET Group
        /\ OwnOf(Done, s) \in SUBSET Done /\ OwnOf(Group, s) \in SUBSET Group
        /\ SaidOf(OwnOf(Done, s)) \in SUBSET Done /\ SaidOf(OwnOf(Group, s)) \in SUBSET Group
        /\ Done \in SUBSET Done /\ Group \in SUBSET Group
    BY DEF SaidOf, OwnOf
  <1> QED
    BY <1>2, <1>3, <1>4

\* The walk step, in the names of this proof.
LEMMA WalkDateFacts ==
  ASSUME WalkDate
  PROVE  /\ Ahead # {} /\ walkedTo' = NextDate /\ UNCHANGED corpusEvents
         /\ globalDocs' = globalDocs + Cardinality(Group)
         /\ globalMatches' = globalMatches + Cardinality(SaidOf(Group))
         /\ speakerDocs' = [s \in Speakers |-> speakerDocs[s] + Cardinality(OwnOf(Group, s))]
         /\ speakerMatches' = [s \in Speakers |->
              speakerMatches[s] + Cardinality(SaidOf(OwnOf(Group, s)))]
         /\ predicted' = predicted \cup
              (IF globalDocs = 0 THEN {}
               ELSE {Prediction(i, globalDocs, globalMatches, speakerDocs[Speaker(i)],
                                speakerMatches[Speaker(i)]) : i \in Group})
  <1>1. Group = {i \in Ahead : corpusEvents[i].day = NextDate}
    BY DEF Group, Day
  <1>2. /\ Ahead # {} /\ walkedTo' = NextDate /\ UNCHANGED corpusEvents
        /\ Fold(Group)
        /\ predicted' = predicted \cup
              (IF globalDocs = 0 THEN {}
               ELSE {Prediction(i, globalDocs, globalMatches, speakerDocs[Speaker(i)],
                                speakerMatches[Speaker(i)]) : i \in Group})
    BY <1>1 DEF WalkDate, Speaker
  <1>3. /\ SaidOf(Group) = {i \in Group : Says(i)}
        /\ \A s : /\ OwnOf(Group, s) = {i \in Group : Speaks(s, i)}
                  /\ SaidOf(OwnOf(Group, s)) = {i \in Group : Speaks(s, i) /\ Says(i)}
    BY DEF SaidOf, OwnOf
  <1> QED
    BY <1>2, <1>3 DEF Fold

LEMMA WalkStepInv == WalkIInv /\ WalkDate => WalkIInv'
  <1> SUFFICES ASSUME WalkIInv, WalkDate PROVE WalkIInv'
    OBVIOUS
  <1>1. /\ Ahead # {} /\ walkedTo' = NextDate /\ corpusEvents' = corpusEvents
        /\ globalDocs' = globalDocs + Cardinality(Group)
        /\ globalMatches' = globalMatches + Cardinality(SaidOf(Group))
        /\ speakerDocs' = [s \in Speakers |-> speakerDocs[s] + Cardinality(OwnOf(Group, s))]
        /\ speakerMatches' = [s \in Speakers |->
             speakerMatches[s] + Cardinality(SaidOf(OwnOf(Group, s)))]
        /\ predicted' = predicted \cup
             (IF globalDocs = 0 THEN {}
              ELSE {Prediction(i, globalDocs, globalMatches, speakerDocs[Speaker(i)],
                               speakerMatches[Speaker(i)]) : i \in Group})
    BY WalkDateFacts
  <1>2. /\ CorpusIsFinite /\ CountsAreOfTheDone /\ PredictedFromEarlier
    BY DEF WalkIInv
  <1>3. NextDate \in Nat
    BY <1>1, <1>2, NextDateFacts
  <1>4. CorpusIsFinite'
    BY <1>1, <1>2, <1>3 DEF CorpusIsFinite
  <1>5. /\ \A i : /\ Day(i)' = Day(i) /\ Speaker(i)' = Speaker(i) /\ Earlier(i)' = Earlier(i)
        /\ Placed' = Placed
    BY <1>1 DEF Day, Speaker, Earlier, Placed
  <1>6. \A events : /\ SaidOf(events)' = SaidOf(events)
                    /\ \A s : OwnOf(events, s)' = OwnOf(events, s)
    BY <1>1 DEF SaidOf, OwnOf, Says, Speaks
  <1>7. Done' = Done \cup Group
    <2>1. Done' = {i \in Placed : Day(i) <= NextDate}
      BY <1>1, <1>5 DEF Done
    <2> QED
      BY <1>1, <1>2, <2>1, GroupFacts
  <1>8. CountsAreOfTheDone'
    <2> DEFINE all == Done \cup Group
    <2>1. /\ SaidOf(Done)' = SaidOf(all)
          /\ \A s : /\ OwnOf(Done, s)' = OwnOf(all, s)
                    /\ SaidOf(OwnOf(Done, s))' = SaidOf(OwnOf(all, s))
      BY <1>1, <1>7 DEF SaidOf, OwnOf, Says, Speaks
    <2>2. /\ globalDocs = Cardinality(Done)
          /\ globalMatches = Cardinality(SaidOf(Done))
          /\ \A s \in Speakers : /\ speakerDocs[s] = Cardinality(OwnOf(Done, s))
                                 /\ speakerMatches[s] = Cardinality(SaidOf(OwnOf(Done, s)))
      BY <1>2 DEF CountsAreOfTheDone
    <2>3. \A s : /\ Cardinality(all) = Cardinality(Done) + Cardinality(Group)
                 /\ Cardinality(SaidOf(all)) =
                      Cardinality(SaidOf(Done)) + Cardinality(SaidOf(Group))
                 /\ Cardinality(OwnOf(all, s)) =
                      Cardinality(OwnOf(Done, s)) + Cardinality(OwnOf(Group, s))
                 /\ Cardinality(SaidOf(OwnOf(all, s))) =
                      Cardinality(SaidOf(OwnOf(Done, s))) + Cardinality(SaidOf(OwnOf(Group, s)))
      BY <1>1, FoldFacts
    <2> HIDE DEF all
    <2>4. /\ globalDocs' = Cardinality(all)
          /\ globalMatches' = Cardinality(SaidOf(all))
      BY <1>1, <2>2, <2>3
    <2>5. speakerDocs' = [s \in Speakers |-> Cardinality(OwnOf(all, s))]
      BY <1>1, <2>2, <2>3
    <2>6. speakerMatches' = [s \in Speakers |-> Cardinality(SaidOf(OwnOf(all, s)))]
      BY <1>1, <2>2, <2>3
    <2>7. Done' = all
      BY <1>7 DEF all
    <2>8. /\ globalDocs' = Cardinality(Done')
          /\ globalMatches' = Cardinality(SaidOf(Done)')
          /\ speakerDocs' = [s \in Speakers |-> Cardinality(OwnOf(Done, s)')]
          /\ speakerMatches' = [s \in Speakers |-> Cardinality(SaidOf(OwnOf(Done, s))')]
      BY <2>1, <2>4, <2>5, <2>6, <2>7, Zenon
    <2> QED
      BY <2>8 DEF CountsAreOfTheDone
  <1>9. PredictedFromEarlier'
    <2> DEFINE made == {PredictionFrom(i, Earlier(i)) : i \in {k \in Done : Earlier(k) # {}}}
               new == {PredictionFrom(i, Earlier(i)) : i \in {k \in Group : Earlier(k) # {}}}
               all == {PredictionFrom(i, Earlier(i)) :
                         i \in {k \in Done \cup Group : Earlier(k) # {}}}
    <2>1. predicted = made
      BY <1>2 DEF PredictedFromEarlier
    <2>2. /\ globalDocs = Cardinality(Done)
          /\ globalMatches = Cardinality(SaidOf(Done))
          /\ \A s \in Speakers : /\ speakerDocs[s] = Cardinality(OwnOf(Done, s))
                                 /\ speakerMatches[s] = Cardinality(SaidOf(OwnOf(Done, s)))
      BY <1>2 DEF CountsAreOfTheDone
    <2>3. globalDocs = 0 <=> Done = {}
      <3>1. IsFiniteSet(Done)
        BY <1>2, PlacedFacts, FS_Subset
      <3> QED
        BY <2>2, <3>1, FS_EmptySet
    <2>4. \A i \in Group : /\ Earlier(i) = Done /\ Speaker(i) \in Speakers
                           /\ PredictionFrom(i, Earlier(i)) =
                                Prediction(i, globalDocs, globalMatches, speakerDocs[Speaker(i)],
                                           speakerMatches[Speaker(i)])
      <3>1. \A i \in Group : Earlier(i) = Done /\ Speaker(i) \in Speakers
        BY <1>1, <1>2, GroupFacts, PlacedFacts
      <3> QED
        BY <2>2, <3>1 DEF PredictionFrom
    <2>5. ASSUME Done = {}
          PROVE  predicted' = predicted \cup new
      <3>1. predicted' = predicted
        BY <1>1, <2>3, <2>5
      <3>2. new = {}
        BY <2>4, <2>5
      <3> QED
        BY <3>1, <3>2
    <2>6. ASSUME Done # {}
          PROVE  predicted' = predicted \cup new
      <3>1. predicted' = predicted \cup {PredictionFrom(i, Earlier(i)) : i \in Group}
        BY <1>1, <2>3, <2>4, <2>6
      <3>2. new = {PredictionFrom(i, Earlier(i)) : i \in Group}
        BY <2>4, <2>6
      <3> QED
        BY <3>1, <3>2
    <2>7. predicted' = all
      <3>1. all = made \cup new
        OBVIOUS
      <3> HIDE DEF all, made, new
      <3> QED
        BY <2>1, <2>5, <2>6, <3>1
    <2>8. \A i : PredictionFrom(i, Earlier(i))' = PredictionFrom(i, Earlier(i))
      <3> TAKE i
      <3>1. Earlier(i)' = Earlier(i) /\ Speaker(i)' = Speaker(i)
        BY <1>5
      <3>2. /\ SaidOf(Earlier(i))' = SaidOf(Earlier(i))
            /\ OwnOf(Earlier(i), Speaker(i))' = OwnOf(Earlier(i), Speaker(i))
        BY <1>1, <3>1 DEF SaidOf, OwnOf, Says, Speaks
      <3>3. SaidOf(OwnOf(Earlier(i), Speaker(i)))' = SaidOf(OwnOf(Earlier(i), Speaker(i)))
        BY <1>1, <3>2 DEF SaidOf, Says
      <3> QED
        BY <3>1, <3>2, <3>3 DEF PredictionFrom, Prediction
    <2> QED
      BY <1>5, <1>7, <2>7, <2>8 DEF PredictedFromEarlier
  <1> QED
    BY <1>4, <1>8, <1>9 DEF WalkIInv

\* Nothing is predicted from what is not earlier.
LEMMA WalkLooksBackOnlyHolds == WalkIInv => WalkLooksBackOnly
  <1> SUFFICES ASSUME WalkIInv PROVE WalkLooksBackOnly
    OBVIOUS
  <1>1. predicted = {PredictionFrom(i, Earlier(i)) : i \in {k \in Done : Earlier(k) # {}}}
    BY DEF WalkIInv, PredictedFromEarlier
  <1> QED
    BY <1>1 DEF WalkLooksBackOnly, PredictionFrom, Earlier, SaidOf, OwnOf, Done, Day, Speaker

\* The bounded thousandths of a fraction.
Rate(x, y) == InUnit(x \div y)

\* A smaller fraction has no larger rate.
LEMMA SmallerRate ==
  ASSUME NEW x \in Int, NEW y \in Nat \ {0}, NEW u \in Int, NEW v \in Nat \ {0},
         x * v <= u * y
  PROVE  Rate(x, y) \in Int /\ Rate(u, v) \in Int /\ Rate(x, y) <= Rate(u, v)
  <1>1. /\ x \div y \in Int /\ u \div v \in Int
        /\ x \div y <= u \div v
    BY SmallerFraction, DivBounds
  <1> DEFINE a == x \div y
             b == u \div v
  <1>2. Rate(x, y) = InUnit(a) /\ Rate(u, v) = InUnit(b)
    BY DEF Rate
  <1> HIDE DEF a, b
  <1>3. a \in Int /\ b \in Int /\ a <= b
    BY <1>1 DEF a, b
  <1> QED
    BY <1>2, <1>3 DEF InUnit

\* What has been heard of a speaker draws the estimate to the speaker's side.
LEMMA ShrinkFacts ==
  ASSUME NEW all \in Nat \ {0}, NEW said \in Nat, said <= all,
         NEW docs \in Nat, NEW matches \in Nat
  PROVE  LET own == Shrunk(docs, matches, all, said)
             every == InUnit((said * 1000) \div all)
         IN /\ own \in Int /\ every \in Int
            /\ docs = 0 /\ matches = 0 => own = every
            /\ matches = docs => own >= every
            /\ matches = 0 => own <= every
  <1> DEFINE x == (matches * all + 5 * said) * 1000
             y == (docs + 5) * all
             u == said * 1000
  <1>1. /\ x \in Int /\ y \in Nat \ {0} /\ u \in Int
    <2>1. matches * all \in Nat /\ docs * all \in Nat
      OBVIOUS
    <2>2. y = docs * all + 5 * all
      OBVIOUS
    <2> QED
      BY <2>1, <2>2
  <1>2. Shrunk(docs, matches, all, said) = Rate(x, y)
    BY DEF Shrunk, Rate
  <1>3. InUnit((said * 1000) \div all) = Rate(u, all)
    BY DEF Rate
  <1> DEFINE a == matches * all
             b == said * docs
             c == docs * all
             d == 5 * said
             left == x * all
             right == u * y
  <1>4. /\ x * all = (1000 * a + 1000 * d) * all
        /\ u * y = (1000 * b + 1000 * d) * all
    OBVIOUS
  <1>5. matches = 0 => x * all <= u * y
    <2> SUFFICES ASSUME matches = 0 PROVE x * all <= u * y
      OBVIOUS
    <2>1. a = 0 /\ b \in Nat
      OBVIOUS
    <2>2. 1000 * a + 1000 * d <= 1000 * b + 1000 * d
      BY <2>1
    <2> QED
      BY <1>4, <2>1, <2>2, TimesKeeps
  <1>6. matches = docs => u * y <= x * all
    <2> SUFFICES ASSUME matches = docs PROVE u * y <= x * all
      OBVIOUS
    <2>1. b <= a /\ a \in Int /\ b \in Int
      <3>1. said * docs <= all * docs
        BY TimesKeeps
      <3> QED
        BY <3>1
    <2>2. 1000 * b + 1000 * d <= 1000 * a + 1000 * d
      BY <2>1
    <2> QED
      BY <1>4, <2>1, <2>2, TimesKeeps
  <1> HIDE DEF x, y, u
  <1>7. matches = 0 => Rate(x, y) \in Int /\ Rate(u, all) \in Int /\ Rate(x, y) <= Rate(u, all)
    BY <1>1, <1>5, SmallerRate
  <1>8. matches = docs => Rate(u, all) \in Int /\ Rate(x, y) \in Int /\ Rate(u, all) <= Rate(x, y)
    BY <1>1, <1>6, SmallerRate
  <1>9. Rate(x, y) \in Int /\ Rate(u, all) \in Int
    <2>1. x \div y \in Int /\ u \div all \in Int
      BY <1>1, DivBounds
    <2> QED
      BY <2>1 DEF Rate, InUnit
  <1> QED
    BY <1>2, <1>3, <1>7, <1>8, <1>9

\* A speaker's prediction is everybody's until the speaker has been heard.
LEMMA SpeakersAreShrunkHolds == WalkIInv => SpeakersAreShrunk
  <1> SUFFICES ASSUME WalkIInv, NEW p \in predicted
               PROVE  LET s == corpusEvents[p.event].speaker
                          earlier == {j \in Placed : Speaks(s, j)
                                        /\ corpusEvents[j].day < corpusEvents[p.event].day}
                      IN /\ earlier = {} => p.speaker = p.global
                         /\ earlier # {} /\ (\A j \in earlier : Says(j)) => p.speaker >= p.global
                         /\ earlier # {} /\ (\A j \in earlier : ~Says(j)) => p.speaker <= p.global
    BY DEF SpeakersAreShrunk
  <1>1. PICK i \in Done : Earlier(i) # {} /\ p = PredictionFrom(i, Earlier(i))
    BY DEF WalkIInv, PredictedFromEarlier
  <1> DEFINE E == Earlier(i)
             own == OwnOf(E, Speaker(i))
             all == Cardinality(E)
             said == Cardinality(SaidOf(E))
             docs == Cardinality(own)
             matches == Cardinality(SaidOf(own))
  <1>2. /\ p.event = i
        /\ p.global = InUnit((said * 1000) \div all)
        /\ p.speaker = Shrunk(docs, matches, all, said)
    BY <1>1 DEF PredictionFrom, Prediction
  <1>3. own = {j \in Placed : Speaks(corpusEvents[p.event].speaker, j)
                                /\ corpusEvents[j].day < corpusEvents[p.event].day}
    BY <1>2 DEF OwnOf, Earlier, Speaker, Day
  <1>4. IsFiniteSet(E) /\ E # {}
    <2>1. E \subseteq Placed /\ IsFiniteSet(Placed)
      BY PlacedFacts DEF Earlier, WalkIInv
    <2> QED
      BY <1>1, <2>1, FS_Subset
  <1> HIDE DEF E
  <1>5. SaidOf(E) \subseteq E /\ own \subseteq E /\ SaidOf(own) \subseteq own
    BY DEF SaidOf, OwnOf
  <1> HIDE DEF own
  <1>6. /\ all \in Nat \ {0} /\ said \in Nat /\ said <= all
        /\ docs \in Nat /\ matches \in Nat /\ IsFiniteSet(own)
    <2>1. IsFiniteSet(own) /\ IsFiniteSet(SaidOf(own)) /\ IsFiniteSet(SaidOf(E))
      BY <1>4, <1>5, FS_Subset
    <2>2. said <= all
      BY <1>4, <1>5, FS_Subset
    <2>3. all # 0
      BY <1>4, FS_EmptySet
    <2> QED
      BY <1>4, <2>1, <2>2, <2>3, FS_CardinalityType
  <1>7. own = {} => docs = 0 /\ matches = 0
    <2>1. own = {} => SaidOf(own) = {}
      BY DEF SaidOf
    <2> QED
      BY <2>1, FS_EmptySet
  <1>8. (\A j \in own : Says(j)) => matches = docs
    <2>1. (\A j \in own : Says(j)) => SaidOf(own) = own
      BY DEF SaidOf
    <2> QED
      BY <2>1
  <1>9. (\A j \in own : ~Says(j)) => matches = 0
    <2>1. (\A j \in own : ~Says(j)) => SaidOf(own) = {}
      BY DEF SaidOf
    <2> QED
      BY <2>1, FS_EmptySet
  <1> HIDE DEF all, said, docs, matches
  <1> DEFINE every == InUnit((said * 1000) \div all)
             shrunk == Shrunk(docs, matches, all, said)
  <1>10. /\ shrunk \in Int /\ every \in Int
         /\ docs = 0 /\ matches = 0 => shrunk = every
         /\ matches = docs => shrunk >= every
         /\ matches = 0 => shrunk <= every
    BY <1>6, ShrinkFacts
  <1>11. p.global = every /\ p.speaker = shrunk
    BY <1>2
  <1> HIDE DEF every, shrunk
  <1>12. /\ own = {} => p.speaker = p.global
         /\ (\A j \in own : Says(j)) => p.speaker >= p.global
         /\ (\A j \in own : ~Says(j)) => p.speaker <= p.global
    BY <1>7, <1>8, <1>9, <1>10, <1>11
  <1> QED
    BY <1>3, <1>12

\* The inductive invariant of the two studies.
StudiesIInv == ReplayIInv /\ WalkIInv

LEMMA StudiesStepInv == StudiesIInv /\ [StudiesNext]_studiesVars => StudiesIInv'
  <1> SUFFICES ASSUME StudiesIInv, [StudiesNext]_studiesVars PROVE StudiesIInv'
    OBVIOUS
  <1>0. ReplayIInv /\ WalkIInv
    BY DEF StudiesIInv
  <1>1. ASSUME UNCHANGED replayVars
        PROVE  ReplayIInv'
    BY <1>0, <1>1 DEF replayVars, ReplayIInv, ReplayShape, SamplesWereReplayed, ReplayAddsUp,
                      SampledInOrder, ErrorsAreRemembered
  <1>2. ASSUME UNCHANGED walkVars
        PROVE  WalkIInv'
    BY <1>0, <1>2 DEF walkVars, WalkIInv, CorpusIsFinite, CountsAreOfTheDone,
                      PredictedFromEarlier, PredictionFrom, Prediction, Done, Earlier, SaidOf,
                      OwnOf, Placed, Day, Speaker, Says, Speaks
  <1>3. CASE ReplayNext /\ UNCHANGED walkVars
    BY <1>0, <1>2, <1>3, ReplayStepInv DEF StudiesIInv
  <1>4. CASE WalkDate /\ UNCHANGED replayVars
    BY <1>0, <1>1, <1>4, WalkStepInv DEF StudiesIInv
  <1>5. CASE UNCHANGED studiesVars
    BY <1>1, <1>2, <1>5 DEF StudiesIInv, studiesVars
  <1> QED
    BY <1>3, <1>4, <1>5 DEF StudiesNext

LEMMA StudiesNeverLookAhead == StudiesIInv => NoLookAhead
  BY SamplesAreAsOfHolds, EveryMarketCountsHolds, WalkLooksBackOnlyHolds, SpeakersAreShrunkHolds
     DEF StudiesIInv, NoLookAhead

(* Neither study lets a prediction see what it predicts: a replayed sample  *)
(* is what it would be in any world that was the same before its market    *)
(* closed (scripts/mentions_backtest.py), and the walk over the premise    *)
(* corpus predicts each event once, from the earlier dates.                *)
THEOREM StudiesLookBack == StudiesSpec => []NoLookAhead
  <1>1. StudiesInit => StudiesIInv
    BY ReplayInitInv, WalkInitInv DEF StudiesIInv
  <1> QED
    BY <1>1, StudiesStepInv, StudiesNeverLookAhead, PTL DEF StudiesSpec
=============================================================================
