------------------------------ MODULE CandleCache ------------------------------
(***************************************************************************)
(* SnapshotStore of kalshi_trader/actionability/store.py: candles of every *)
(* market in a SQLite file, refreshed for the tickers whose mark in        *)
(* refresh_log is old.  The file is shared by the programs that scan; each *)
(* of them asks for the stale tickers in batches, all at once, and stores  *)
(* what came back in one transaction.                                      *)
(*                                                                         *)
(* One of the two kinds of candles, hourly or daily: the code is the same  *)
(* and the rows are apart.  Time is counted in whole periods; the TTL (55  *)
(* minutes, 23 hours) is a little less than one.  A candle is its volume,  *)
(* and 0 is no candle: the exchange sends none for a period without a      *)
(* trade.  A batch holds one ticker.                                       *)
(***************************************************************************)
EXTENDS Naturals

CONSTANTS
  CTickers,
  Scanners,    \* programs that use the file
  LastPeriod,  \* bound
  Lookback,    \* 48 hours, 30 days
  MaxVolume    \* bound on the volume of a period

ASSUME CacheAssumption == {LastPeriod, Lookback, MaxVolume} \subseteq Nat \ {0}

Periods == 1 .. LastPeriod
Candles == [Periods -> 0 .. MaxVolume]
NoCandles == [p \in Periods |-> 0]

VARIABLES
  period,      \* the clock
  volume,      \* [CTickers -> Candles]: what was traded
  cached,      \* [CTickers -> Candles]: the table candles
  marked,      \* [CTickers -> 0 .. LastPeriod]: refresh_log, 0 when there is no row
  behind,      \* history: the `now' of the request the mark stands for
  askedAt,     \* [Scanners -> 0 .. LastPeriod]: `now' of the refresh, 0 for none
  awaited,     \* [Scanners -> SUBSET CTickers]: batches not yet answered
  answers      \* [Scanners -> [CTickers -> Candles]]: by_ticker of the batches

cacheRows == <<cached, marked, behind>>
cacheFetches == <<askedAt, awaited, answers>>
cacheVars == <<period, volume, cacheRows, cacheFetches>>

CacheTypeOK ==
  /\ period \in Periods
  /\ volume \in [CTickers -> Candles] /\ cached \in [CTickers -> Candles]
  /\ marked \in [CTickers -> 0 .. LastPeriod]
  /\ behind \in [CTickers -> 0 .. LastPeriod]
  /\ \A t \in CTickers : behind[t] <= marked[t]
  /\ askedAt \in [Scanners -> 0 .. LastPeriod]
  /\ awaited \in [Scanners -> SUBSET CTickers]
  /\ answers \in [Scanners -> [CTickers -> Candles]]

NoAnswers == [t \in CTickers |-> NoCandles]

CacheInit ==
  /\ period = 1
  /\ volume = NoAnswers /\ cached = NoAnswers
  /\ marked = [t \in CTickers |-> 0] /\ behind = [t \in CTickers |-> 0]
  /\ askedAt = [s \in Scanners |-> 0]
  /\ awaited = [s \in Scanners |-> {}]
  /\ answers = [s \in Scanners |-> NoAnswers]

---------------------------------------------------------------------------

PeriodPasses ==
  /\ period < LastPeriod
  /\ period' = period + 1
  /\ UNCHANGED <<volume, cacheRows, cacheFetches>>

CandleTrade(t) ==
  /\ volume[t][period] < MaxVolume
  /\ volume' = [volume EXCEPT ![t][period] = @ + 1]
  /\ UNCHANGED <<period, cacheRows, cacheFetches>>

(* is_daily_stale, is_hourly_stale.                                        *)
Stale == {t \in CTickers : marked[t] < period}

(* refresh_stale: the batches go out together.                             *)
CacheAsk(s) ==
  /\ askedAt[s] = 0
  /\ Stale # {}
  /\ askedAt' = [askedAt EXCEPT ![s] = period]
  /\ awaited' = [awaited EXCEPT ![s] = Stale]
  /\ UNCHANGED <<period, volume, cacheRows, answers>>

\* Mutant: only what is newer than the mark is asked for.
BugRequested(t, now) == {p \in Periods : marked[t] <= p /\ p <= now}

\* The periods a request of time now asks for.
Requested(t, now) == {p \in Periods : now <= p + Lookback /\ p <= now}

(* The exchange answers a batch, with or without the candle of the period  *)
(* that was running when the request was made.                             *)
CacheAnswer(s, t, running) ==
  /\ t \in awaited[s]
  /\ awaited' = [awaited EXCEPT ![s] = @ \ {t}]
  /\ answers' = [answers EXCEPT ![s][t] =
       [p \in Periods |->
          IF p \in Requested(t, askedAt[s]) /\ (p < askedAt[s] \/ running)
            THEN volume[t][p] ELSE 0]]
  /\ UNCHANGED <<period, volume, cacheRows, askedAt>>

(* with_retry gives up: the batch is an empty dict.                        *)
CacheNoAnswer(s, t) ==
  /\ t \in awaited[s]
  /\ awaited' = [awaited EXCEPT ![s] = @ \ {t}]
  /\ UNCHANGED <<period, volume, cacheRows, askedAt, answers>>

(* _upsert_candles for every ticker that has a candle in an answer, and    *)
(* one commit.  The mark is the time of the write, not of the request.     *)
CacheStore(s) ==
  LET got == {t \in CTickers : answers[s][t] # NoCandles} IN
  /\ askedAt[s] # 0 /\ awaited[s] = {}
  /\ cached' = [t \in CTickers |-> [p \in Periods |->
       IF answers[s][t][p] # 0 THEN answers[s][t][p] ELSE cached[t][p]]]
  /\ marked' = [t \in CTickers |-> IF t \in got THEN period ELSE marked[t]]
  /\ behind' = [t \in CTickers |-> IF t \in got THEN askedAt[s] ELSE behind[t]]
  /\ askedAt' = [askedAt EXCEPT ![s] = 0]
  /\ answers' = [answers EXCEPT ![s] = NoAnswers]
  /\ UNCHANGED <<period, volume, awaited>>

(* The program dies before its commit.                                     *)
CacheDies(s) ==
  /\ askedAt[s] # 0
  /\ askedAt' = [askedAt EXCEPT ![s] = 0]
  /\ awaited' = [awaited EXCEPT ![s] = {}]
  /\ answers' = [answers EXCEPT ![s] = NoAnswers]
  /\ UNCHANGED <<period, volume, cacheRows>>

---------------------------------------------------------------------------

CacheNext ==
  \/ PeriodPasses
  \/ \E t \in CTickers : CandleTrade(t)
  \/ \E s \in Scanners : CacheAsk(s) \/ CacheStore(s) \/ CacheDies(s)
  \/ \E s \in Scanners, t \in CTickers, running \in BOOLEAN : CacheAnswer(s, t, running)
  \/ \E s \in Scanners, t \in CTickers : CacheNoAnswer(s, t)

CacheSpec == CacheInit /\ [][CacheNext]_cacheVars

---------------------------------------------------------------------------

(* A market that is marked fresh has, of every period that was over when   *)
(* the refresh behind its mark was begun and lies in its lookback, the     *)
(* finished candle: whatever failed, and however the refreshes of two      *)
(* programs crossed.  (Of the periods between that refresh and the mark it *)
(* promises nothing: the mark is set when the answers are stored.)         *)
MarkedHistoryIsFinished ==
  \A t \in CTickers : \A p \in Periods :
    p < behind[t] /\ behind[t] <= p + Lookback => cached[t][p] = volume[t][p]
=============================================================================
