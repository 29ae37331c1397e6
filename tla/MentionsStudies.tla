---------------------------- MODULE MentionsStudies ----------------------------
(***************************************************************************)
(* The two studies that decide what a mentions estimate is worth, and the  *)
(* estimate they judge (kalshi_trader/signals/mentions.py).                *)
(*                                                                         *)
(* scripts/mentions_backtest.py replays settled markets: each is predicted *)
(* from the TV timeline up to the month it closed in, and a Fed market     *)
(* from the transcripts before the day it closed on.  GDELT is asked once  *)
(* for a phrase, and may fail.                                             *)
(*                                                                         *)
(* mentions/premise_backtest.py walks over a corpus of transcripts, date   *)
(* by date, and predicts each from those before it.                        *)
(*                                                                         *)
(* A date is a number of days, 0 for a blank one; probabilities are in     *)
(* thousandths.                                                            *)
(***************************************************************************)
EXTENDS Integers, Sequences, FiniteSets

CONSTANTS
  SettledMarkets, \* sequence of [phrase, month, day, result, fed]
  NoPhrase,       \* a sub-title that is no phrase
  Timelines,      \* [Months -> {"none", "silent", "said"}]
  Unaired,        \* the one of a phrase no station was heard on
  Documents,      \* [id, day, says]: transcripts of the chair, says a set of phrases
  BackedDocuments, ThinDocuments,   \* 12 and 4 in the code
  Transcripts,    \* [day, speaker, says]: rows of the premise corpus, says BOOLEAN
  NoSpeaker,
  MaxTranscripts  \* bound

ASSUME StudiesAssumption ==
  /\ BackedDocuments \in Nat \ {0} /\ {ThinDocuments, MaxTranscripts} \subseteq Nat
  /\ Len(SettledMarkets) \in Nat /\ DOMAIN SettledMarkets = 1 .. Len(SettledMarkets)
  /\ Unaired \in Timelines /\ \A m \in DOMAIN Unaired : Unaired[m] = "none"
  /\ IsFiniteSet(DOMAIN Unaired) /\ \A line \in Timelines : DOMAIN line = DOMAIN Unaired
  /\ IsFiniteSet(Documents) /\ \A d \in Documents : d.day \in Nat
  /\ \A e \in Transcripts : e.day \in Nat

Phrases == {SettledMarkets[i].phrase : i \in DOMAIN SettledMarkets} \ {NoPhrase}
Skips   == {"no_result", "no_phrase", "gdelt_error", "no_signal"}

VARIABLES
  \* the replay
  published,    \* SUBSET Documents: the archive
  aired,        \* [Phrases -> Timelines]
  replayed,     \* markets gone through
  gdeltCache,   \* [Phrases -> {"unasked", "points", "error"}]
  sampled,      \* sequence of [market, prob, backed, informative]
  skippedAs,    \* [Skips -> Nat]
  \* the walk
  corpusEvents, \* sequence of Transcripts, in the order of the table
  walkedTo,     \* the date the walk has come to, 0 before it starts
  globalDocs, globalMatches,     \* Nat
  speakerDocs, speakerMatches,   \* [Speakers -> Nat]
  predicted     \* set of [event, global, speaker]: event an index

replayVars  == <<published, aired, replayed, gdeltCache, sampled, skippedAs>>
walkVars    == <<corpusEvents, walkedTo, globalDocs, globalMatches, speakerDocs, speakerMatches,
                 predicted>>
studiesVars == <<replayVars, walkVars>>

Speakers == {e.speaker : e \in Transcripts} \ {NoSpeaker}

StudiesTypeOK ==
  /\ published \subseteq Documents /\ aired \in [Phrases -> Timelines]
  /\ replayed \in 0 .. Len(SettledMarkets)
  /\ gdeltCache \in [Phrases -> {"unasked", "points", "error"}]
  /\ \A i \in DOMAIN sampled : sampled[i].prob \in 10 .. 990
  /\ skippedAs \in [Skips -> Nat]
  /\ corpusEvents \in Seq(Transcripts)
  /\ {globalDocs, globalMatches, walkedTo} \subseteq Nat
  /\ speakerDocs \in [Speakers -> Nat] /\ speakerMatches \in [Speakers -> Nat]
  /\ \A p \in predicted : p.event \in DOMAIN corpusEvents

InUnit(p) == IF p < 10 THEN 10 ELSE IF p > 990 THEN 990 ELSE p

---------------------------------------------------------------------------
(* build_mentions_base_signal.                                             *)

(* GDELT's rate and the corpus's, by the weight of the evidence: a corpus  *)
(* counts as if GDELT were five documents.                                 *)
Fused(hasGdelt, pGdelt, docs, matches) ==
  IF docs > 0 /\ hasGdelt THEN (matches * 1000 + 5 * pGdelt) \div (docs + 5)
  ELSE IF docs > 0 THEN (matches * 1000) \div docs
  ELSE pGdelt

Silent == [emitted |-> FALSE, prob |-> 500, backed |-> FALSE, informative |-> FALSE]

(* Too little to say anything, or an estimate.  One that the corpus does   *)
(* not back is not informative: MENTIONS_REQUIRE_CORPUS_BACKED is set.     *)
BaseEstimate(hasGdelt, pGdelt, docs, matches) ==
  IF ~hasGdelt /\ docs < ThinDocuments THEN Silent
  ELSE [emitted |-> TRUE, prob |-> InUnit(Fused(hasGdelt, pGdelt, docs, matches)),
        backed |-> docs >= BackedDocuments, informative |-> docs >= BackedDocuments]

\* base_rate_from_points, of the months of a timeline.
PointsUpTo(line, month) == {m \in DOMAIN line : m <= month /\ line[m] # "none"}
BaseRate(line, months) ==
  IF months = {} THEN 0
  ELSE (Cardinality({m \in months : line[m] = "said"}) * 1000) \div Cardinality(months)

\* Mutant: the day of the close counts.
BugDocumentsBefore(archive, until) == {d \in archive : d.day <= until}

\* count_phrase; a blank date is before every date.
DocumentsBefore(archive, until) == {d \in archive : d.day < until}

\* What the replay makes of a market, in a world of documents and airings.
Replay(market, archive, line) ==
  LET months == PointsUpTo(line, market.month)
      counted == IF market.fed THEN DocumentsBefore(archive, market.day) ELSE {}
  IN BaseEstimate(months # {}, BaseRate(line, months), Cardinality(counted),
                  Cardinality({d \in counted : market.phrase \in d.says}))

---------------------------------------------------------------------------
(* scripts/mentions_backtest.py, run.                                      *)

AtMarket == SettledMarkets[replayed + 1]

SkipAs(why) ==
  /\ replayed' = replayed + 1
  /\ skippedAs' = [skippedAs EXCEPT ![why] = @ + 1]
  /\ UNCHANGED <<published, aired, sampled>>

SkipUnusable ==
  /\ replayed < Len(SettledMarkets)
  /\ \/ AtMarket.result \notin {"yes", "no"} /\ SkipAs("no_result")
     \/ AtMarket.result \in {"yes", "no"} /\ AtMarket.phrase = NoPhrase /\ SkipAs("no_phrase")
  /\ UNCHANGED gdeltCache

UsableMarket ==
  /\ replayed < Len(SettledMarkets)
  /\ AtMarket.result \in {"yes", "no"} /\ AtMarket.phrase # NoPhrase

(* The first market of a phrase asks GDELT; an error is remembered, too.   *)
AskGdelt(answers) ==
  /\ UsableMarket
  /\ gdeltCache[AtMarket.phrase] = "unasked"
  /\ gdeltCache' = [gdeltCache EXCEPT ![AtMarket.phrase] = IF answers THEN "points" ELSE "error"]
  /\ UNCHANGED <<published, aired, replayed, sampled, skippedAs>>

SkipErrored ==
  /\ UsableMarket
  /\ gdeltCache[AtMarket.phrase] = "error"
  /\ SkipAs("gdelt_error")
  /\ UNCHANGED gdeltCache

ReplayMarket ==
  LET estimate == Replay(AtMarket, published, aired[AtMarket.phrase]) IN
  /\ UsableMarket
  /\ gdeltCache[AtMarket.phrase] = "points"
  /\ IF estimate.emitted
       THEN /\ sampled' = Append(sampled,
                 [market |-> replayed + 1, prob |-> estimate.prob, backed |-> estimate.backed,
                  informative |-> estimate.informative])
            /\ replayed' = replayed + 1
            /\ UNCHANGED <<published, aired, skippedAs>>
       ELSE SkipAs("no_signal")
  /\ UNCHANGED gdeltCache

ReplayNext ==
  \/ SkipUnusable
  \/ \E answers \in BOOLEAN : AskGdelt(answers)
  \/ SkipErrored
  \/ ReplayMarket

---------------------------------------------------------------------------
(* walk_forward_predictions_for_phrase.                                    *)

\* Events without a speaker or a date are dropped.
Placed == {i \in DOMAIN corpusEvents : corpusEvents[i].speaker # NoSpeaker /\ corpusEvents[i].day # 0}
Ahead  == {i \in Placed : corpusEvents[i].day > walkedTo}
NextDate == CHOOSE day \in {corpusEvents[i].day : i \in Ahead} :
              \A i \in Ahead : day <= corpusEvents[i].day

Speaks(s, i) == corpusEvents[i].speaker = s
Says(i) == corpusEvents[i].says

\* The speaker's rate, drawn to everybody's as if that were five documents.
Shrunk(docs, matches, allDocs, allMatches) ==
  InUnit(((matches * allDocs + 5 * allMatches) * 1000) \div ((docs + 5) * allDocs))

Prediction(i, allDocs, allMatches, docs, matches) ==
  [event |-> i, global |-> InUnit((allMatches * 1000) \div allDocs),
   speaker |-> Shrunk(docs, matches, allDocs, allMatches)]

Fold(group) ==
  /\ globalDocs' = globalDocs + Cardinality(group)
  /\ globalMatches' = globalMatches + Cardinality({i \in group : Says(i)})
  /\ speakerDocs' = [s \in Speakers |->
       speakerDocs[s] + Cardinality({i \in group : Speaks(s, i)})]
  /\ speakerMatches' = [s \in Speakers |->
       speakerMatches[s] + Cardinality({i \in group : Speaks(s, i) /\ Says(i)})]

\* Mutant: the date is folded in before it is scored.
BugWalkDate ==
  LET group == {i \in Ahead : corpusEvents[i].day = NextDate} IN
  /\ Ahead # {}
  /\ Fold(group)
  /\ predicted' = predicted \cup
       {Prediction(i, globalDocs', globalMatches', speakerDocs'[corpusEvents[i].speaker],
                   speakerMatches'[corpusEvents[i].speaker]) : i \in group}
  /\ walkedTo' = NextDate
  /\ UNCHANGED corpusEvents

(* The events of the next date are scored, if anything came before them,   *)
(* and only then folded into the counts.                                   *)
WalkDate ==
  LET group == {i \in Ahead : corpusEvents[i].day = NextDate} IN
  /\ Ahead # {}
  /\ predicted' = predicted \cup
       (IF globalDocs = 0 THEN {}
        ELSE {Prediction(i, globalDocs, globalMatches, speakerDocs[corpusEvents[i].speaker],
                         speakerMatches[corpusEvents[i].speaker]) : i \in group})
  /\ Fold(group)
  /\ walkedTo' = NextDate
  /\ UNCHANGED corpusEvents

---------------------------------------------------------------------------

Corpora == UNION {[1 .. n -> Transcripts] : n \in 1 .. MaxTranscripts}

(* The studies are separate programs: one is run, or the other.            *)
StudiesInit ==
  /\ \/ corpusEvents = <<>> /\ published \in SUBSET Documents /\ aired \in [Phrases -> Timelines]
     \/ corpusEvents \in Corpora /\ published = {} /\ aired = [p \in Phrases |-> Unaired]
  /\ replayed = 0 /\ sampled = <<>>
  /\ gdeltCache = [p \in Phrases |-> "unasked"]
  /\ skippedAs = [why \in Skips |-> 0]
  /\ walkedTo = 0
  /\ globalDocs = 0 /\ globalMatches = 0
  /\ speakerDocs = [s \in Speakers |-> 0] /\ speakerMatches = [s \in Speakers |-> 0]
  /\ predicted = {}

StudiesNext ==
  \/ corpusEvents = <<>> /\ ReplayNext /\ UNCHANGED walkVars
  \/ WalkDate /\ UNCHANGED replayVars

StudiesSpec == StudiesInit /\ [][StudiesNext]_studiesVars

---------------------------------------------------------------------------

(* No sample looks ahead: it is what it would be in every world that was   *)
(* the same before the market closed, whatever was published on the day of *)
(* the close or later and aired after its month.  (Within the month the    *)
(* replay does look ahead: a monthly point counts whole.)                  *)
SamplesAreAsOf ==
  \A i \in DOMAIN sampled :
    LET market == SettledMarkets[sampled[i].market]
        line == aired[market.phrase]
        before(archive) == {d \in archive : d.day < market.day}
        upTo(other) == \A m \in DOMAIN other : m <= market.month => other[m] = line[m]
    IN \A archive \in SUBSET Documents : \A other \in Timelines :
         before(archive) = before(published) /\ upTo(other) =>
           LET e == Replay(market, archive, other) IN
           e.emitted /\ e.prob = sampled[i].prob /\ e.backed = sampled[i].backed

(* Every market gone through was sampled or skipped, once; only what the   *)
(* speaker's own transcripts back informs; a sample lies between the rates *)
(* it was made of.                                                         *)
EveryMarketCounts ==
  /\ Len(sampled) + skippedAs["no_result"] + skippedAs["no_phrase"] + skippedAs["gdelt_error"]
       + skippedAs["no_signal"] = replayed
  /\ \A i, j \in DOMAIN sampled : i < j => sampled[i].market < sampled[j].market
  /\ \A i \in DOMAIN sampled : sampled[i].informative => sampled[i].backed
  /\ \A i \in DOMAIN sampled : ~SettledMarkets[sampled[i].market].fed => ~sampled[i].informative
  /\ (\A p \in Phrases : gdeltCache[p] # "error") => skippedAs["gdelt_error"] = 0

(* The walk predicts each event once, from exactly the events of earlier   *)
(* dates, however the corpus is ordered; those of the first date are not   *)
(* predicted; and the speaker's prediction is everybody's until the        *)
(* speaker has been heard.                                                 *)
WalkLooksBackOnly ==
  LET earlier(i) == {j \in Placed : corpusEvents[j].day < corpusEvents[i].day}
      own(i) == {j \in earlier(i) : Speaks(corpusEvents[i].speaker, j)}
      said(events) == Cardinality({j \in events : Says(j)})
  IN walkedTo # 0 =>
       predicted =
         {Prediction(i, Cardinality(earlier(i)), said(earlier(i)), Cardinality(own(i)), said(own(i))) :
            i \in {k \in Placed : corpusEvents[k].day <= walkedTo /\ earlier(k) # {}}}

SpeakersAreShrunk ==
  \A p \in predicted :
    LET s == corpusEvents[p.event].speaker
        earlier == {j \in Placed : Speaks(s, j) /\ corpusEvents[j].day < corpusEvents[p.event].day}
    IN /\ earlier = {} => p.speaker = p.global
       /\ earlier # {} /\ (\A j \in earlier : Says(j)) => p.speaker >= p.global
       /\ earlier # {} /\ (\A j \in earlier : ~Says(j)) => p.speaker <= p.global

(* Neither study lets a prediction see what it predicts.                   *)
NoLookAhead ==
  /\ SamplesAreAsOf
  /\ EveryMarketCounts
  /\ WalkLooksBackOnly
  /\ SpeakersAreShrunk
=============================================================================
