------------------------------ MODULE PriceStudy ------------------------------
(***************************************************************************)
(* scripts/mentions_price_study.py with mentions/price_study.py: is the    *)
(* edge in the price?  Each sample of the mentions backtest is given the   *)
(* price its market had some time before it closed, from the candles       *)
(* Kalshi still has, and the prices are scored against the outcomes.       *)
(*                                                                         *)
(* Time is in minutes, a price in cents, a probability in thousandths.     *)
(* The regressions of the report are numerical and are left out.           *)
(***************************************************************************)
EXTENDS Integers, Sequences, FiniteSets, Reductions

CONSTANTS
  StudySamples,   \* sequence of [closes, realized, sports]
  CandleAnswers,  \* sequences of [end, close, bid, ask, mean, volume]
  AsofMinutes,
  Unquoted,       \* a candle lacks the price
  NoClose         \* a sample's close_time cannot be parsed

ASSUME PriceAssumption ==
  /\ AsofMinutes \in Nat
  /\ StudySamples \in Seq([closes : Int \cup {NoClose}, realized : {0, 1}, sports : BOOLEAN])
  /\ \A candles \in CandleAnswers :
       /\ candles \in Seq([end : Int, close : Int \cup {Unquoted}, bid : Int \cup {Unquoted},
                           ask : Int \cup {Unquoted}, mean : Int \cup {Unquoted}, volume : Nat])

VARIABLES
  studied,    \* samples gone through
  pricedRows, \* sequence of [sample, price, source, candles]; candles is a history
  studySkips  \* [StudySkips -> Nat]

priceVars == <<studied, pricedRows, studySkips>>

StudySkips == {"no_close_time", "candle_error", "price_missing"}

PriceTypeOK ==
  /\ studied \in 0 .. Len(StudySamples)
  /\ \A i \in DOMAIN pricedRows :
       /\ pricedRows[i].sample \in DOMAIN StudySamples
       /\ pricedRows[i].price \in 0 .. 1000
       /\ pricedRows[i].source \in {"traded", "mid_no_trade"}
       /\ pricedRows[i].candles \in CandleAnswers
  /\ studySkips \in [StudySkips -> Nat]

PriceInit ==
  /\ studied = 0
  /\ pricedRows = <<>>
  /\ studySkips = [why \in StudySkips |-> 0]

---------------------------------------------------------------------------
(* select_asof_price.                                                      *)

UnitPrice(p) == IF p < 0 THEN 0 ELSE IF p > 1000 THEN 1000 ELSE p

\* _normalize_candle: the middle of the book, or what the candle says of it.
HasMid(c) == (c.bid # Unquoted /\ c.ask # Unquoted) \/ c.mean # Unquoted
MidPrice(c) ==
  IF c.bid # Unquoted /\ c.ask # Unquoted THEN (c.bid + c.ask) * 5 ELSE c.mean * 10

\* The candles that had ended by a time.
EndedBy(candles, cutoff) == ItemsAt(candles, {i \in DOMAIN candles : candles[i].end <= cutoff})

\* Mutant: the window is up to the close.
BugInWindow(candles, closes) == EndedBy(candles, closes)

InWindow(candles, closes) == EndedBy(candles, closes - AsofMinutes)

\* The sort is stable: of two that end together, the later in the list.
LatestOf(candles, chosen) ==
  CHOOSE i \in chosen : \A j \in chosen :
    \/ candles[j].end < candles[i].end
    \/ candles[j].end = candles[i].end /\ j <= i

NoPrice == [price |-> 0, source |-> "none"]

SelectAsofPrice(candles, closes) ==
  LET window == InWindow(candles, closes)
      traded == {i \in DOMAIN window : window[i].close # Unquoted /\ window[i].volume > 0}
      quoted == {i \in DOMAIN window : HasMid(window[i])}
  IN IF traded # {}
       THEN [price |-> UnitPrice(window[LatestOf(window, traded)].close * 10), source |-> "traded"]
     ELSE IF quoted # {}
       THEN [price |-> UnitPrice(MidPrice(window[LatestOf(window, quoted)])),
             source |-> "mid_no_trade"]
     ELSE NoPrice

---------------------------------------------------------------------------
(* run: one sample.                                                        *)

AtSample == StudySamples[studied + 1]

Skip(why) ==
  /\ studied' = studied + 1
  /\ studySkips' = [studySkips EXCEPT ![why] = @ + 1]
  /\ UNCHANGED pricedRows

SampleWithoutClose ==
  /\ studied < Len(StudySamples)
  /\ AtSample.closes = NoClose
  /\ Skip("no_close_time")

(* The request raises.                                                     *)
CandlesFail ==
  /\ studied < Len(StudySamples)
  /\ AtSample.closes # NoClose
  /\ Skip("candle_error")

SamplePriced(candles) ==
  LET asof == SelectAsofPrice(candles, AtSample.closes) IN
  /\ studied < Len(StudySamples)
  /\ AtSample.closes # NoClose
  /\ asof # NoPrice
  /\ pricedRows' = Append(pricedRows,
       [sample |-> studied + 1, price |-> asof.price, source |-> asof.source, candles |-> candles])
  /\ studied' = studied + 1
  /\ UNCHANGED studySkips

SampleUnpriced(candles) ==
  /\ studied < Len(StudySamples)
  /\ AtSample.closes # NoClose
  /\ SelectAsofPrice(candles, AtSample.closes) = NoPrice
  /\ Skip("price_missing")

PriceNext ==
  \/ SampleWithoutClose
  \/ CandlesFail
  \/ \E candles \in CandleAnswers : SamplePriced(candles)
  \/ \E candles \in CandleAnswers : SampleUnpriced(candles)

PriceSpec == PriceInit /\ [][PriceNext]_priceVars

---------------------------------------------------------------------------
(* The metrics of a set of rows, by their indices.                         *)

SampleOf(i) == StudySamples[pricedRows[i].sample]
SubtypeRows(sports) == {i \in DOMAIN pricedRows : SampleOf(i).sports = sports}

RealizedYes(rows) == Cardinality({i \in rows : SampleOf(i).realized = 1})

Square(x) == x * x

\* brier_score, not divided by the number of rows; a prediction is in
\* thousandths of "unit", so that the mean outcome is one of them, too.
BrierSum(rows, predicted, unit) ==
  SumOver(rows, [i \in rows |-> Square(predicted[i] - SampleOf(i).realized * unit)])

ReliabilityBins == <<<<0, 150>>, <<150, 500>>, <<500, 850>>, <<850, 1010>>>>
FavoriteLongshotBins ==
  <<<<0, 50>>, <<50, 150>>, <<150, 500>>, <<500, 850>>, <<850, 950>>, <<950, 1010>>>>

\* _bin_table.
BinRows(rows, bin) == {i \in rows : bin[1] <= pricedRows[i].price /\ pricedRows[i].price < bin[2]}

---------------------------------------------------------------------------

(* A price is one that could be had at the as-of time: it is the same      *)
(* whatever the candles after it say; and nobody's trade is passed over    *)
(* for the middle of a book.                                               *)
PricesAreAsOf ==
  \A i \in DOMAIN pricedRows :
    LET row == pricedRows[i]
        upTo(candles) == EndedBy(candles, SampleOf(i).closes - AsofMinutes)
    IN /\ \A other \in CandleAnswers : upTo(other) = upTo(row.candles) =>
            SelectAsofPrice(other, SampleOf(i).closes) = [price |-> row.price, source |-> row.source]
       /\ row.source = "mid_no_trade" =>
            \A j \in DOMAIN upTo(row.candles) :
              upTo(row.candles)[j].close = Unquoted \/ upTo(row.candles)[j].volume = 0

\* Each row is in one of the bins.
IsSplitBy(bins) ==
  \A i \in DOMAIN pricedRows :
    Cardinality({b \in DOMAIN bins : i \in BinRows(DOMAIN pricedRows, bins[b])}) = 1

\* The squares of the mean outcome and of a constant, over the same n rows.
MeanIsNoWorse(rows, n, constant) ==
  BrierSum(rows, [i \in rows |-> 10 * RealizedYes(rows)], 10 * n) * 10000
    <= BrierSum(rows, [i \in rows |-> constant], 1000) * n * n

(* Each sample is a row or skipped; each row is of one subtype and in one  *)
(* bin of each table, at either end of the range too; and the base rate    *)
(* the price is compared with is the best any one number could have done.  *)
StudyAddsUp ==
  /\ Len(pricedRows) + studySkips["no_close_time"] + studySkips["candle_error"]
       + studySkips["price_missing"] = studied
  /\ SubtypeRows(TRUE) \cup SubtypeRows(FALSE) = DOMAIN pricedRows
  /\ \A bins \in {ReliabilityBins, FavoriteLongshotBins} : IsSplitBy(bins)
  /\ \A constant \in {0, 250, 500, 1000} :
       MeanIsNoWorse(DOMAIN pricedRows, Len(pricedRows), constant)

PriceStudyIsSound == PricesAreAsOf /\ StudyAddsUp
=============================================================================
