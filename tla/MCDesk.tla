------------------------------- MODULE MCDesk -------------------------------
(***************************************************************************)
(* Desk on a small instance.  A behaviour is one in which a single part    *)
(* moves, the subject; the others stay in their initial state.  No product *)
(* is explored: with disjoint variables it would add no behaviour to any   *)
(* part, and that every part of Desk follows its own specification,        *)
(* whatever the others do, is proved (DeskProofs).                         *)
(***************************************************************************)
EXTENDS Desk, TLC

CONSTANTS k1, k2, m1, s1, s2, srcA, c1, c2, res1, t1, i1, i2, q1, q2,
          keyA, keyB, cmd1, d1, d2, catA, v1, v2, o1, o2, b1, b2, da, f1, r1, r2,
          x1, x2, e1, e2, e3, u1, h1, h2, g1, g2, y1, y2,
          bombshell, casa

(* Trade rows: closed ones that won, lost or did neither, at either of two *)
(* times, and an open one that is up.                                      *)
MCPnlRows ==
  [status : {"closed"}, realized : {-2, 0, 3}, unrealized : {0}, type : {"weather"},
   days : {0, NoDays}, closedAt : {1, 2}]
  \cup [status : {"open"}, realized : {0}, unrealized : {1}, type : {"mentions"},
        days : {3}, closedAt : {0}]

MCCategoryOf == [i \in RIdeas |-> catA]

(* One feed lists a document of the first day.                             *)
MCFeedOf == [d \in Docs |-> f1]
MCEventDay == [d \in Docs |-> 1]

(* Slices of one family, and a source of another that comes with and       *)
(* without data behind it and once from the market's own price.            *)
MCFamilyOf == [s \in Sources |-> IF s = e3 THEN e3 ELSE e1]
MCSigEstimates ==
  [source : {e1, e2}, prob : {10, 70}, weight : {1, 2}, informative : {TRUE},
   independent : {TRUE}]
  \cup [source : {e3}, prob : {12, 70}, weight : {1}, informative : {TRUE},
        independent : BOOLEAN]
  \cup [source : {e3}, prob : {95}, weight : {2}, informative : {FALSE},
        independent : {TRUE}]
MCSigQuotes ==
  {[bid |-> 20, ask |-> 22], [bid |-> 40, ask |-> 60], [bid |-> NoBid, ask |-> 50],
   [bid |-> 0, ask |-> 0], [bid |-> 90, ask |-> 95]}

(* A market with a usual quote, one with one side and one near the end of  *)
(* its range; hours with few, some and many contracts, the last without a  *)
(* price; books with several levels, with one side and with none.          *)
MCSnapMarkets ==
  {[bid |-> 40, ask |-> 44, volume |-> 100, oi |-> 400, hours |-> 30],
   [bid |-> 0, ask |-> 4, volume |-> 0, oi |-> 0, hours |-> 5],
   [bid |-> 90, ask |-> 98, volume |-> 900, oi |-> 400, hours |-> 3000]}
MCDailyVolumes == {<<>>, <<100, 0, 50, 150>>}
MCHourCandles ==
  {[volume |-> 8, oi |-> 100, close |-> 38], [volume |-> 20, oi |-> 104, close |-> 47],
   [volume |-> 60, oi |-> 0, close |-> Absent]}
MCTakers == {[side |-> "yes", count |-> 1], [side |-> "no", count |-> 3]}
MCLiveBooks ==
  {[yes |-> <<<<41, 5>>, <<30, 50>>>>, no |-> <<<<50, 2>>, <<57, 4>>>>],
   [yes |-> <<<<60, 5>>>>, no |-> <<>>],
   [yes |-> <<>>, no |-> <<>>],
   [yes |-> <<<<1, 5>>>>, no |-> <<<<97, 1>>, <<96, 9>>>>]}

(* Weather events whose members lie on either side of a strike, one with   *)
(* too few members, and rain; the outlook misses the value that is needed  *)
(* in one of each kind.                                                    *)
MCOutlook == [high |-> 166, low |-> 118, precip |-> 30, posts |-> 2, confident |-> TRUE, independent |-> FALSE]
MCEvents ==
  {[metric |-> "temp_high", members |-> <<163, 165, 167>>, outlook |-> MCOutlook],
   [metric |-> "temp_low", members |-> <<119, 120, 124>>, outlook |-> MCOutlook],
   [metric |-> "temp_high", members |-> <<170>>,
    outlook |-> [MCOutlook EXCEPT !.high = Missing, !.posts = 1, !.confident = FALSE]],
   [metric |-> "precipitation", members |-> <<0, 3>>, outlook |-> [MCOutlook EXCEPT !.precip = Missing]]}
MCReadings == {1, 117, 121, 165, 168}
MCStrikes == {0, 1, 59, 60, 82, 83}

(* Settled markets of a Fed press conference and of a game, one without a  *)
(* phrase and one that was voided; documents without a date, before, on    *)
(* and after the day of a close; rows of a corpus with and without a       *)
(* speaker and a date.                                                     *)
MCSettledMarkets ==
  <<[phrase |-> g1, month |-> 1, day |-> 2, result |-> "yes", fed |-> TRUE],
    [phrase |-> g2, month |-> 2, day |-> 3, result |-> "no", fed |-> FALSE],
    [phrase |-> NoPhrase, month |-> 2, day |-> 3, result |-> "no", fed |-> FALSE],
    [phrase |-> g1, month |-> 2, day |-> 4, result |-> "no", fed |-> TRUE],
    [phrase |-> g1, month |-> 2, day |-> 4, result |-> "scalar", fed |-> TRUE]>>
MCUnaired == <<"none", "none", "none">>
MCTimelines ==
  {MCUnaired, <<"said", "said", "said">>, <<"silent", "said", "silent">>, <<"said", "none", "said">>,
   <<"none", "silent", "said">>, <<"none", "none", "said">>}
MCDocuments ==
  {[id |-> 1, day |-> 0, says |-> {g1}], [id |-> 2, day |-> 1, says |-> {}],
   [id |-> 3, day |-> 2, says |-> {g1}], [id |-> 4, day |-> 4, says |-> {g1}]}
MCTranscripts ==
  [day : 1 .. 3, speaker : {y1, y2}, says : BOOLEAN]
  \cup {[day |-> 0, speaker |-> y1, says |-> TRUE], [day |-> 1, speaker |-> NoSpeaker, says |-> TRUE]}

(* Samples that closed at two times, and one without a time; candles that  *)
(* agree up to the as-of time of one and not after it, with trades, with   *)
(* quotes only and with nothing, and prices at both ends of the range.     *)
MCStudySamples ==
  <<[closes |-> 100, realized |-> 1, sports |-> TRUE], [closes |-> NoClose, realized |-> 0, sports |-> TRUE],
    [closes |-> 100, realized |-> 0, sports |-> FALSE], [closes |-> 160, realized |-> 1, sports |-> FALSE]>>
MCCandle(t, p, n) ==
  [end |-> t, close |-> p, bid |-> 10, ask |-> 15, mean |-> Unquoted, volume |-> n]
MCBookless == [bid |-> Unquoted, ask |-> Unquoted, volume |-> 0, close |-> Unquoted]
MCCandleAnswers ==
  {<<>>, <<MCCandle(40, 97, 3)>>, <<MCCandle(40, 97, 3), MCCandle(100, 2, 9)>>,
   <<MCCandle(20, 100, 1), MCCandle(40, Unquoted, 0)>>, <<MCCandle(40, 0, 1), MCCandle(20, 60, 0)>>,
   <<MCCandle(40, 12, 0), MCCandle(100, 50, 2)>>,
   <<MCBookless @@ [end |-> 20, mean |-> 85], MCBookless @@ [end |-> 40, mean |-> Unquoted]>>}

(* Settled markets with a date in the ticker that closed within the day or *)
(* a day late, dated by the close alone, undated, voided, and of a kind no *)
(* teaser tells; more on the last page than are wanted.  Teasers of before *)
(* the day, of the day before and after a close, and of a later day.       *)
MCSettled(d, c, res, ev) == [day |-> d, closes |-> c, result |-> res, event |-> ev]
MCTeaserMarkets ==
  {MCSettled(d, c, res, ev) : d \in {NoDate, 1}, c \in {NoDate, 40, 41, 50},
                              res \in {"yes", "no", ""}, ev \in {bombshell, casa, "winner"}}
MCSettledPages ==
  <<<<<<MCSettled(1, 50, "yes", bombshell), MCSettled(1, 50, "", bombshell)>>,
      <<MCSettled(NoDate, 40, "no", casa), MCSettled(1, 50, "no", "winner")>>>>,
    <<<<MCSettled(NoDate, NoDate, "no", bombshell), MCSettled(1, 40, "yes", casa), MCSettled(1, 41, "yes", casa)>>>>>>
MCTeaserEvents == {bombshell, casa}
MCTeasers ==
  {[at |-> 10, told |-> {bombshell}, spoken |-> {}], [at |-> 30, told |-> {}, spoken |-> {bombshell}],
   [at |-> 36, told |-> {casa}, spoken |-> {casa}], [at |-> 45, told |-> {bombshell}, spoken |-> {casa}],
   [at |-> 60, told |-> {casa}, spoken |-> {}]}

VARIABLE subject

vars == <<subject, deskVars>>

(* The parts that rest have one initial state each.  (What fixes it comes  *)
(* first, so that TLC does not enumerate the others.)                      *)
Init ==
  /\ subject \in Parts
  /\ subject # "scoring" => quote \in {q \in SigQuotes : q.bid = 40}
  /\ subject # "market" => daily = <<>> /\ snap \in {m \in SnapMarkets : m.bid = 40}
  /\ subject # "weather" => metric = "precipitation"
  /\ subject # "studies" =>
       corpusEvents = <<>> /\ published = {} /\ aired = [p \in Phrases |-> Unaired]
  /\ subject # "teasers" => uploaded = {}
  /\ DeskInit

Next ==
  /\ UNCHANGED subject
  /\ IdleBut(subject) /\ PartMoves(subject)

Spec == Init /\ [][Next]_vars
=============================================================================
