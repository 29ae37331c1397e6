------------------------------ MODULE TeaserStudy ------------------------------
(***************************************************************************)
(* scripts/love_island_backtest.py: did the teaser of an episode tell what *)
(* happened in it?  Settled markets are listed page by page and series by  *)
(* series; each is predicted from the teasers YouTube has of the day of    *)
(* the episode (signals/love_island.py builds the estimate), and compared  *)
(* with its outcome.                                                       *)
(*                                                                         *)
(* Time is in hours; a teaser tells of a set of events, in its text or in  *)
(* a transcript, which may not be had.  Probabilities are in thousandths.  *)
(***************************************************************************)
EXTENDS Integers, Sequences, FiniteSets, Reductions

CONSTANTS
  TeaserMarkets,  \* [day, closes, result, event]
  SettledPages,   \* sequence (series) of sequences (pages) of sequences of them
  Teasers,        \* [at, told, spoken]: told and spoken sets of TeaserEvents
  TeaserEvents,   \* the keys of EVENT_TERMS
  MaxMarkets,     \* --max-markets
  SearchResults,  \* max_results: 10 in the code
  ConfirmProb, SilentProb,
  NoDate          \* no date in the ticker; no close time

ASSUME TeaserAssumption ==
  /\ {MaxMarkets, SearchResults} \subseteq Nat \ {0}
  /\ ConfirmProb \in 0 .. 1000 /\ SilentProb \in 0 .. 1000
  /\ NoDate \notin Nat
  /\ \A m \in TeaserMarkets : {m.day, m.closes} \subseteq Nat \cup {NoDate}
  /\ SettledPages \in Seq(Seq(Seq(TeaserMarkets)))
  /\ \A s \in DOMAIN SettledPages : SettledPages[s] # <<>>
  /\ \A t \in Teasers : t.at \in Nat

VARIABLES
  uploaded,      \* SUBSET Teasers
  seriesAt, pageAt,
  collected,     \* the markets listed so far
  teaserSamples  \* sequence of [found, heard, matched, probability, realized]; of
                 \* the first two the code keeps the sizes

teaserVars == <<uploaded, seriesAt, pageAt, collected, teaserSamples>>

TeaserTypeOK ==
  /\ uploaded \subseteq Teasers
  /\ seriesAt \in 1 .. Len(SettledPages) + 1
  /\ pageAt \in Nat
  /\ Len(collected) <= MaxMarkets \/ teaserSamples = <<>>
  /\ Len(teaserSamples) <= Len(collected)
  /\ \A i \in DOMAIN teaserSamples :
       /\ teaserSamples[i].heard \subseteq teaserSamples[i].found
       /\ teaserSamples[i].probability \in 10 .. 990
       /\ teaserSamples[i].matched \in BOOLEAN /\ teaserSamples[i].realized \in {0, 1}

TeaserInit ==
  /\ uploaded \in SUBSET Teasers
  /\ seriesAt = 1 /\ pageAt = 1
  /\ collected = <<>>
  /\ teaserSamples = <<>>

---------------------------------------------------------------------------
(* _settled_love_island_markets.                                           *)

\* A result, and a ticker classify_market knows.
Scorable(m) == m.result \in {"yes", "no"} /\ m.event \in TeaserEvents

Scorables(markets) == ItemsAt(markets, {i \in DOMAIN markets : Scorable(markets[i])})

Listing == seriesAt <= Len(SettledPages) /\ Len(collected) < MaxMarkets

(* One page.  Enough markets end the listing, the last page the series;    *)
(* what is over the maximum is cut off.                                    *)
ListSettledPage ==
  LET pages == SettledPages[seriesAt]
      all == collected \o Scorables(pages[pageAt])
  IN /\ Listing
     /\ collected' = SubSeq(all, 1, IF Len(all) < MaxMarkets THEN Len(all) ELSE MaxMarkets)
     /\ IF pageAt = Len(pages) THEN seriesAt' = seriesAt + 1 /\ pageAt' = 1
        ELSE pageAt' = pageAt + 1 /\ UNCHANGED seriesAt
     /\ UNCHANGED <<uploaded, teaserSamples>>

---------------------------------------------------------------------------
(* One market.                                                             *)

Dated(m) == m.day # NoDate \/ m.closes # NoDate

\* ticker_episode_date, or the day of the close.
DayStart(m) == IF m.day # NoDate THEN m.day * 24 ELSE (m.closes \div 24) * 24

\* Mutant: the close is no bound.
BugInDay(m, t) == DayStart(m) <= t.at /\ t.at <= DayStart(m) + 24

\* same_day_window, both ends counted.
InDay(m, t) ==
  /\ DayStart(m) <= t.at /\ t.at <= DayStart(m) + 24
  /\ m.closes # NoDate => t.at <= m.closes

(* YouTube answers with the newest of the window; without any date the     *)
(* window is open.                                                         *)
Found(m, videos) ==
  LET window == {t \in videos : Dated(m) => InDay(m, t)}
  IN {t \in window : Cardinality({u \in window : u.at > t.at}) < SearchResults}

\* predicted_probability.
Tells(found, heard, event) ==
  (\E t \in found : event \in t.told) \/ (\E t \in heard : event \in t.spoken)

\* build_love_island_signal: an estimate never claims certainty.
Certain(p) == IF p < 10 THEN 10 ELSE IF p > 990 THEN 990 ELSE p

(* The search fails soft, as no teaser; so does each transcript.           *)
PredictMarket(found, heard) ==
  LET m == collected[Len(teaserSamples) + 1]
      matched == Tells(found, heard, m.event)
  IN /\ ~Listing
     /\ Len(teaserSamples) < Len(collected)
     /\ found \in {{}, Found(m, uploaded)}
     /\ heard \subseteq found
     /\ teaserSamples' = Append(teaserSamples,
          [found |-> found, heard |-> heard, matched |-> matched,
           probability |-> Certain(IF matched THEN ConfirmProb ELSE SilentProb),
           realized |-> IF m.result = "yes" THEN 1 ELSE 0])
     /\ UNCHANGED <<uploaded, seriesAt, pageAt, collected>>

TeaserNext ==
  \/ ListSettledPage
  \/ \E found \in SUBSET Teasers : \E heard \in SUBSET found : PredictMarket(found, heard)

TeaserSpec == TeaserInit /\ [][TeaserNext]_teaserVars

---------------------------------------------------------------------------
(* _hit_rate and _calibration_table.                                       *)

Decisive == {i \in DOMAIN teaserSamples : teaserSamples[i].probability # 500}
Hits ==
  {i \in Decisive : teaserSamples[i].probability > 500 <=> teaserSamples[i].realized = 1}

CalibrationBins == <<<<0, 200>>, <<200, 400>>, <<400, 600>>, <<600, 800>>, <<800, 1001>>>>
Calibrated(bin) ==
  {i \in DOMAIN teaserSamples :
     bin[1] <= teaserSamples[i].probability /\ teaserSamples[i].probability < bin[2]}

---------------------------------------------------------------------------

(* A market that is dated by its ticker or its close is predicted from     *)
(* teasers of that one day, up to the close: of two worlds that agree on   *)
(* these the prediction is the same, however many past seasons and later   *)
(* clips the search could find.  (An undated market is searched for        *)
(* without bounds.)                                                        *)
TeasersAreOfTheDay ==
  \A i \in DOMAIN teaserSamples :
    LET m == collected[i]
        before(t) == m.closes = NoDate \/ t.at <= m.closes
        ofTheDay(videos) ==
          {t \in videos : t.at \in DayStart(m) .. DayStart(m) + 24 /\ before(t)}
    IN Dated(m) /\ teaserSamples[i].found # {} =>
         /\ teaserSamples[i].found \subseteq ofTheDay(uploaded)
         /\ \A other \in SUBSET Teasers : ofTheDay(other) = ofTheDay(uploaded) =>
              Found(m, other) = teaserSamples[i].found

\* All that the series list.
ListedBy(s) == JoinedTo(SettledPages[s], Len(SettledPages[s]))
AllListed == JoinedTo([s \in DOMAIN SettledPages |-> ListedBy(s)], Len(SettledPages))

(* What is scored are the first settled markets of the listing, in its     *)
(* order, of the kinds a teaser can tell; a sample counts in one bin; and  *)
(* with the code's probabilities a hit is a teaser that told what happened *)
(* or kept silent of what did not.                                         *)
SamplesAreScored ==
  /\ Len(collected) <= Len(Scorables(AllListed))
  /\ collected = SubSeq(Scorables(AllListed), 1, Len(collected))
  /\ ~Listing => Len(collected) = MaxMarkets \/ collected = Scorables(AllListed)
  /\ \A i \in DOMAIN teaserSamples :
       /\ Cardinality({b \in DOMAIN CalibrationBins : i \in Calibrated(CalibrationBins[b])}) = 1
       /\ SilentProb < 500 /\ ConfirmProb > 500 =>
            (i \in Hits <=> (teaserSamples[i].matched <=> collected[i].result = "yes"))

TeaserStudyIsSound == TeasersAreOfTheDay /\ SamplesAreScored
=============================================================================
