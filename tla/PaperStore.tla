----------------------------- MODULE PaperStore -----------------------------
(***************************************************************************)
(* kalshi_trader/paper.py and the programs that share its two files:       *)
(* recommendations.jsonl, to which rows are appended, but which            *)
(* close_recommendation reads, truncates and writes as a whole, and        *)
(* marks.jsonl, which only grows.  Beside them is the recommendations      *)
(* table in Supabase, a best-effort mirror.                                *)
(*                                                                         *)
(* The programs are separate processes: `paper_track.py record-scored'     *)
(* (the scorer, one per cycle), the programs that append without looking   *)
(* (`record', night_execute.py, eval_whales.py), any number of marking     *)
(* passes over the file (`mark'), and those over Supabase                  *)
(* (`mark --from-supabase').                                               *)
(*                                                                         *)
(* A recommendation is its id, its ticker and its status.  A ticker stands *)
(* for a (ticker, side) pair.  The marks mirrored to Supabase and the      *)
(* signals table are written here and read by nothing modelled.            *)
(***************************************************************************)
EXTENDS Naturals

CONSTANTS
  Recs,      \* bound: recommendations ever recorded
  Tickers,
  Passes,    \* bound: marking passes over the file at one time
  NoTicker, NoRec

ASSUME NoneAssumption == NoTicker \notin Tickers /\ NoRec \notin Recs

VARIABLES
  about,       \* [Recs -> Tickers]; NoTicker while the id is unused
  scored,      \* ids the scorer recorded
  file,        \* [Recs -> Status]: recommendations.jsonl
  mark,        \* [Recs -> Mark]: the latest row of the id in marks.jsonl
  remote,      \* [Recs -> Status]: the recommendations table
  unmirrored,  \* ids recorded whose insert_recommendation is still to come
  settled,     \* tickers the exchange has settled
  scoring,     \* BOOLEAN: the scorer is in its loop
  alreadyOpen, \* its already_open
  toScore,     \* tickers it has not come to
  blind,       \* history: it read the file in the middle of a rewrite
  pc,          \* [Passes -> Pc]: where each marking pass is
  todo,        \* [Passes -> SUBSET Recs]: open_recs not visited
  hand,        \* [Passes -> Recs]: the recommendation in hand
  final,       \* [Passes -> BOOLEAN]: the mark in hand is of a market with a result
  rows,        \* [Passes -> [Recs -> Status]]: rows of close_recommendation
  exposed      \* history: ids of which a row, the scorer's read or the marks
               \* fell into somebody else's rewrite or pass

scorerVars == <<scoring, alreadyOpen, toScore, blind>>
passVars   == <<pc, todo, hand, final, rows>>
vars == <<about, scored, file, mark, remote, unmirrored, settled, scorerVars,
          passVars, exposed>>

Status == {"none", "open", "resolved"}
Mark   == {"none", "unresolved", "resolved"}
\* An error mark and a mark with a price are both "unresolved".

\* "read", "truncate" and "write" are the steps of close_recommendation.
Pc == {"idle", "loop", "append", "read", "truncate", "write", "resolve"}

Recorded == {r \in Recs : about[r] # NoTicker}
Open     == {r \in Recs : file[r] = "open"}

\* A pass holds rows it has read and not yet written back.
Rewriting(p) == pc[p] \in {"truncate", "write"}
InRewrite    == \E p \in Passes : Rewriting(p)

\* What a pass has in hand or before it.
Claimed(p) == todo[p] \cup (IF hand[p] = NoRec THEN {} ELSE {hand[p]})

TypeOK ==
  /\ about \in [Recs -> Tickers \cup {NoTicker}]
  /\ scored \subseteq Recorded
  /\ file \in [Recs -> Status]
  /\ mark \in [Recs -> Mark]
  /\ remote \in [Recs -> Status]
  /\ unmirrored \subseteq Recorded
  /\ settled \subseteq Tickers
  /\ scoring \in BOOLEAN
  /\ alreadyOpen \subseteq Tickers
  /\ toScore \subseteq Tickers
  /\ blind \in BOOLEAN
  /\ pc \in [Passes -> Pc]
  /\ todo \in [Passes -> SUBSET Recs]
  /\ hand \in [Passes -> Recs \cup {NoRec}]
  /\ \A p \in Passes : pc[p] \in {"idle", "loop"} <=> hand[p] = NoRec
  /\ final \in [Passes -> BOOLEAN]
  /\ rows \in [Passes -> [Recs -> Status]]
  /\ exposed \subseteq Recs

NoRows == [r \in Recs |-> "none"]

Init ==
  /\ about = [r \in Recs |-> NoTicker]
  /\ scored = {}
  /\ file = NoRows
  /\ mark = [r \in Recs |-> "none"]
  /\ remote = NoRows
  /\ unmirrored = {}
  /\ settled = {}
  /\ scoring = FALSE
  /\ alreadyOpen = {}
  /\ toScore = {}
  /\ blind = FALSE
  /\ pc = [p \in Passes |-> "idle"]
  /\ todo = [p \in Passes |-> {}]
  /\ hand = [p \in Passes |-> NoRec]
  /\ final = [p \in Passes |-> FALSE]
  /\ rows = [p \in Passes |-> NoRows]
  /\ exposed = {}

---------------------------------------------------------------------------
(* Recording.                                                              *)

\* paper.record_recommendation: a row under a new id.
Append(r, t) ==
  /\ about[r] = NoTicker
  /\ about' = [about EXCEPT ![r] = t]
  /\ file' = [file EXCEPT ![r] = "open"]
  /\ unmirrored' = unmirrored \cup {r}

(* `record', night_execute.py and eval_whales.py append what they have.    *)
Record(r, t) ==
  /\ Append(r, t)
  /\ exposed' = IF InRewrite THEN exposed \cup {r} ELSE exposed
  /\ UNCHANGED <<scored, mark, remote, settled, scorerVars, passVars>>

\* Mutant: the scorer does not look at what is open.
BugNoDedup ==
  /\ ~scoring
  /\ scoring' = TRUE
  /\ alreadyOpen' = {}
  /\ toScore' \in SUBSET Tickers
  /\ blind' = InRewrite
  /\ UNCHANGED <<about, scored, file, mark, remote, unmirrored, settled, passVars, exposed>>

(* record-scored starts: it reads which tickers are open.                  *)
ScoreStart ==
  /\ ~scoring
  /\ scoring' = TRUE
  /\ alreadyOpen' = {about[r] : r \in Open}
  /\ toScore' \in SUBSET Tickers
  /\ blind' = InRewrite
  /\ UNCHANGED <<about, scored, file, mark, remote, unmirrored, settled, passVars, exposed>>

ScoreSkip(t) ==
  /\ scoring
  /\ t \in toScore \cap alreadyOpen
  /\ toScore' = toScore \ {t}
  /\ UNCHANGED <<about, scored, file, mark, remote, unmirrored, settled, scoring,
                 alreadyOpen, blind, passVars, exposed>>

Score(r, t) ==
  /\ scoring
  /\ t \in toScore \ alreadyOpen
  /\ toScore' = toScore \ {t}
  /\ Append(r, t)
  /\ scored' = scored \cup {r}
  /\ exposed' = IF InRewrite \/ blind THEN exposed \cup {r} ELSE exposed
  /\ UNCHANGED <<mark, remote, settled, scoring, alreadyOpen, blind, passVars>>

\* The scorer's locals are gone.
ScorerEnds == scoring' = FALSE /\ alreadyOpen' = {} /\ toScore' = {} /\ blind' = FALSE

(* Its loop is over, and _mirror_recommendations follows ...               *)
ScoreEnd ==
  /\ scoring
  /\ toScore = {}
  /\ ScorerEnds
  /\ UNCHANGED <<about, scored, file, mark, remote, unmirrored, settled, passVars, exposed>>

(* ... or it dies in the loop, and mirrors nothing.                        *)
ScoreDies ==
  /\ scoring
  /\ ScorerEnds
  /\ unmirrored' = unmirrored \ scored
  /\ UNCHANGED <<about, scored, file, mark, remote, settled, passVars, exposed>>

\* Mutant: a row that was mirrored is mirrored again.
BugMirrorAgain(r) ==
  /\ r \in unmirrored
  /\ r \in scored => ~scoring
  /\ remote' \in {[remote EXCEPT ![r] = "open"], remote}
  /\ UNCHANGED <<about, scored, file, mark, unmirrored, settled, scorerVars, passVars, exposed>>

(* db.insert_recommendation, an upsert with status "open"; a failure is    *)
(* swallowed.                                                              *)
Mirror(r) ==
  /\ r \in unmirrored
  /\ r \in scored => ~scoring
  /\ unmirrored' = unmirrored \ {r}
  /\ remote' \in {[remote EXCEPT ![r] = "open"], remote}
  /\ UNCHANGED <<about, scored, file, mark, settled, scorerVars, passVars, exposed>>

---------------------------------------------------------------------------
(* Marking.                                                                *)

(* The exchange settles a market.                                          *)
Settle(t) ==
  /\ settled' = settled \cup {t}
  /\ UNCHANGED <<about, scored, file, mark, remote, unmirrored, scorerVars, passVars, exposed>>

\* Mutant: a pass marks what is resolved, too.
BugMarkAll(p) ==
  /\ pc[p] = "idle"
  /\ \E chosen \in (SUBSET Recorded) \ {{}} :
       /\ todo' = [todo EXCEPT ![p] = chosen]
       /\ exposed' = exposed \cup (chosen \cap UNION {Claimed(q) : q \in Passes \ {p}})
  /\ pc' = [pc EXCEPT ![p] = "loop"]
  /\ UNCHANGED <<about, scored, file, mark, remote, unmirrored, settled, scorerVars,
                 hand, final, rows>>

(* A pass reads the open recommendations, or those recorded recently.      *)
PassStart(p) ==
  /\ pc[p] = "idle"
  /\ \E chosen \in (SUBSET Open) \ {{}} :
       /\ todo' = [todo EXCEPT ![p] = chosen]
       /\ exposed' = exposed \cup (chosen \cap UNION {Claimed(q) : q \in Passes \ {p}})
  /\ pc' = [pc EXCEPT ![p] = "loop"]
  /\ UNCHANGED <<about, scored, file, mark, remote, unmirrored, settled, scorerVars,
                 hand, final, rows>>

\* Mutant: the pass goes on with no answer.
BugNoContinue(p, r) ==
  /\ pc[p] = "loop"
  /\ r \in todo[p]
  /\ todo' = [todo EXCEPT ![p] = @ \ {r}]
  /\ mark' = [mark EXCEPT ![r] = "unresolved"]
  /\ pc' = [pc EXCEPT ![p] = "append"]
  /\ UNCHANGED <<about, scored, file, remote, unmirrored, settled, scorerVars, hand, final,
                 rows, exposed>>

(* get_market raises: an error mark is appended.                           *)
FetchFails(p, r) ==
  /\ pc[p] = "loop"
  /\ r \in todo[p]
  /\ todo' = [todo EXCEPT ![p] = @ \ {r}]
  /\ mark' = [mark EXCEPT ![r] = "unresolved"]
  /\ UNCHANGED <<about, scored, file, remote, unmirrored, settled, scorerVars, pc, hand, final,
                 rows, exposed>>

(* get_market answers; a settled market may still lack its result.         *)
Fetch(p, r) ==
  /\ pc[p] = "loop"
  /\ r \in todo[p]
  /\ todo' = [todo EXCEPT ![p] = @ \ {r}]
  /\ hand' = [hand EXCEPT ![p] = r]
  /\ \E result \in BOOLEAN : /\ result => about[r] \in settled
                             /\ final' = [final EXCEPT ![p] = result]
  /\ pc' = [pc EXCEPT ![p] = "append"]
  /\ UNCHANGED <<about, scored, file, mark, remote, unmirrored, settled, scorerVars, rows,
                 exposed>>

(* paper.append_mark; an unresolved mark is all there is to do.            *)
AppendMark(p) ==
  /\ pc[p] = "append"
  /\ mark' = [mark EXCEPT ![hand[p]] = IF final[p] THEN "resolved" ELSE "unresolved"]
  /\ IF final[p]
       THEN /\ pc' = [pc EXCEPT ![p] = "read"]
            /\ UNCHANGED hand
       ELSE /\ pc' = [pc EXCEPT ![p] = "loop"]
            /\ hand' = [hand EXCEPT ![p] = NoRec]
  /\ final' = [final EXCEPT ![p] = FALSE]
  /\ UNCHANGED <<about, scored, file, remote, unmirrored, settled, scorerVars, todo, rows,
                 exposed>>

\* The rows as close_recommendation changes them in memory.
Resolving(r) ==
  IF file[r] = "none" THEN file ELSE [file EXCEPT ![r] = "resolved"]

\* Mutant: only the open rows are read.
BugReadOpen(p) ==
  /\ pc[p] = "read"
  /\ rows' = [rows EXCEPT ![p] = [r \in Recs |->
                IF file[r] = "resolved" THEN "none" ELSE Resolving(hand[p])[r]]]
  /\ exposed' = IF InRewrite THEN exposed \cup Recorded ELSE exposed
  /\ pc' = [pc EXCEPT ![p] = "truncate"]
  /\ UNCHANGED <<about, scored, file, mark, remote, unmirrored, settled, scorerVars, todo,
                 hand, final>>

(* close_recommendation reads the file ...                                 *)
ReadRows(p) ==
  /\ pc[p] = "read"
  /\ rows' = [rows EXCEPT ![p] = Resolving(hand[p])]
  /\ exposed' = IF InRewrite THEN exposed \cup Recorded ELSE exposed
  /\ pc' = [pc EXCEPT ![p] = "truncate"]
  /\ UNCHANGED <<about, scored, file, mark, remote, unmirrored, settled, scorerVars, todo,
                 hand, final>>

(* ... opens it for writing, which empties it ...                          *)
Truncate(p) ==
  /\ pc[p] = "truncate"
  /\ file' = NoRows
  /\ pc' = [pc EXCEPT ![p] = "write"]
  /\ UNCHANGED <<about, scored, mark, remote, unmirrored, settled, scorerVars, todo, hand,
                 final, rows, exposed>>

(* ... and writes its rows over whatever was put there since; what lay     *)
(* beyond the last of them may survive.                                    *)
WriteBack(p) ==
  /\ pc[p] = "write"
  /\ \E kept \in SUBSET {r \in Recs : file[r] # "none"} :
       file' = [r \in Recs |-> IF rows[p][r] = "none" /\ r \in kept THEN file[r]
                                                                    ELSE rows[p][r]]
  /\ rows' = [rows EXCEPT ![p] = NoRows]
  /\ pc' = [pc EXCEPT ![p] = "resolve"]
  /\ UNCHANGED <<about, scored, mark, remote, unmirrored, settled, scorerVars, todo, hand,
                 final, exposed>>

\* db.resolve_recommendation, an update: nothing where there is no row.
Resolved(r) == IF remote[r] = "none" THEN remote ELSE [remote EXCEPT ![r] = "resolved"]

(* The mirror of the resolution; a failure is swallowed.                   *)
ResolveRemote(p) ==
  /\ pc[p] = "resolve"
  /\ remote' \in {Resolved(hand[p]), remote}
  /\ hand' = [hand EXCEPT ![p] = NoRec]
  /\ pc' = [pc EXCEPT ![p] = "loop"]
  /\ UNCHANGED <<about, scored, file, mark, unmirrored, settled, scorerVars, todo, final,
                 rows, exposed>>

\* The locals of a pass are gone.
PassEnds(p) ==
  /\ pc' = [pc EXCEPT ![p] = "idle"]
  /\ todo' = [todo EXCEPT ![p] = {}]
  /\ hand' = [hand EXCEPT ![p] = NoRec]
  /\ final' = [final EXCEPT ![p] = FALSE]
  /\ rows' = [rows EXCEPT ![p] = NoRows]

PassEnd(p) ==
  /\ pc[p] = "loop"
  /\ todo[p] = {}
  /\ PassEnds(p)
  /\ UNCHANGED <<about, scored, file, mark, remote, unmirrored, settled, scorerVars, exposed>>

(* A pass dies.  With the file emptied, some of its rows may be written;   *)
(* _read_jsonl drops the line that was cut without a word.                 *)
PassDies(p) ==
  /\ pc[p] # "idle"
  /\ PassEnds(p)
  /\ IF pc[p] = "write"
       THEN /\ \E written \in SUBSET Recs :
                 file' = [r \in Recs |-> IF r \in written /\ rows[p][r] # "none"
                                           THEN rows[p][r] ELSE file[r]]
            /\ exposed' = exposed \cup Recorded
       ELSE UNCHANGED <<file, exposed>>
  /\ UNCHANGED <<about, scored, mark, remote, unmirrored, settled, scorerVars>>

(* A pass over Supabase resolves a row there; the file is not its concern. *)
SharedResolve(r) ==
  /\ remote[r] # "none"
  /\ about[r] \in settled
  /\ remote' = Resolved(r)
  /\ UNCHANGED <<about, scored, file, mark, unmirrored, settled, scorerVars, passVars, exposed>>

---------------------------------------------------------------------------
Recording ==
  \/ \E r \in Recs, t \in Tickers : Record(r, t) \/ Score(r, t)
  \/ \E t \in Tickers : ScoreSkip(t)
  \/ \E r \in Recs : Mirror(r)
  \/ ScoreStart \/ ScoreEnd \/ ScoreDies

Marking ==
  \E p \in Passes :
    \/ PassStart(p) \/ AppendMark(p) \/ ReadRows(p) \/ Truncate(p) \/ WriteBack(p)
    \/ ResolveRemote(p) \/ PassEnd(p) \/ PassDies(p)
    \/ \E r \in Recs : FetchFails(p, r) \/ Fetch(p, r)

Next ==
  \/ Recording \/ Marking
  \/ \E r \in Recs : SharedResolve(r)
  \/ \E t \in Tickers : Settle(t)

Spec == Init /\ [][Next]_vars

---------------------------------------------------------------------------
(* Properties.                                                             *)

(* "Source of truth is a local JSONL store" (paper.py, line 9): between    *)
(* rewrites every recommendation recorded is in the file, unless it was    *)
(* exposed: appended during a rewrite, or there when two rewrites          *)
(* overlapped or one of them died.                                         *)
RecordedSurvive ==
  (\A p \in Passes : pc[p] # "write")
    => \A r \in Recorded \ exposed : file[r] # "none"

(* "Record a (ticker, side) once while it is still open" (record-scored):  *)
(* two recommendations of the scorer are never open on one ticker, unless  *)
(* one was exposed, its scorer's reading the file in mid-rewrite included. *)
OneOpenPerTicker ==
  \A r, s \in scored \ exposed :
    file[r] = "open" /\ file[s] = "open" /\ about[r] = about[s] => r = s

(* The scorecards use the latest mark of a recommendation, and a resolved  *)
(* one is marked no more: its latest mark is the settlement, unless two    *)
(* passes had it before them at once, or its row was exposed.              *)
SettlementIsLatest ==
  \A r \in Recs \ exposed : file[r] = "resolved" => mark[r] = "resolved"

(* What Supabase has as resolved stays so: the mirror's upsert with status *)
(* "open" never comes after a resolution.                                  *)
SharedResolvedIsFinal ==
  [][\A r \in Recs : remote[r] = "resolved" => remote'[r] = "resolved"]_vars
=============================================================================
