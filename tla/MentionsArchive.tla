---------------------------- MODULE MentionsArchive ----------------------------
(***************************************************************************)
(* The transcript archive of the mentions signal                           *)
(* (kalshi_trader/mentions/store.py, SQLite) and the refresh that fills it *)
(* (kalshi_trader/refresh_mentions_archive.py): run nightly, and with      *)
(* --if-stale by every cycle, so that two may run at once, each a process. *)
(*                                                                         *)
(* A document is kept as the length of its text: a feed may list it with   *)
(* one line first and in full later.  The clients answer an empty list     *)
(* when a page cannot be fetched, and raise on what they do not expect.    *)
(***************************************************************************)
EXTENDS Naturals

CONSTANTS
  Docs, Feeds, Refreshers,
  FeedOf,         \* [Docs -> Feeds]
  EventDay,       \* [Docs -> Nat]; 0 is a blank event_date
  FeedTtl, Retention,   \* days
  MaxToday, MaxText     \* bounds

ASSUME ArchiveAssumption ==
  /\ FeedOf \in [Docs -> Feeds] /\ EventDay \in [Docs -> Nat]
  /\ Feeds # {}
  /\ {FeedTtl, Retention} \subseteq Nat /\ {MaxToday, MaxText} \subseteq Nat \ {0}

VARIABLES
  today,        \* days, from 1
  transcripts,  \* [Docs -> 0 .. MaxText]: text kept; 0 if there is no row
  refreshLog,   \* [Feeds -> Nat]: refreshed_at; 0 if there is no row
  refresherAt,  \* [Refreshers -> RefreshStep]
  onlyStale,    \* [Refreshers -> BOOLEAN]: --if-stale
  feedsLeft,    \* [Refreshers -> SUBSET Feeds]
  asked,        \* [Refreshers -> Feeds]: the feed it is at
  answer,       \* [Refreshers -> Texts]: what it listed
  logged        \* history: [Feeds -> Texts]: the answer behind refreshLog

runVars     == <<refresherAt, onlyStale, feedsLeft, asked, answer>>
archiveVars == <<today, transcripts, refreshLog, runVars, logged>>

RefreshStep == {"idle", "running", "asking", "answered", "stored"}
Texts == [Docs -> 0 .. MaxText]
NoTexts == [d \in Docs |-> 0]

ArchiveTypeOK ==
  /\ today \in 1 .. MaxToday
  /\ transcripts \in Texts
  /\ refreshLog \in [Feeds -> 0 .. MaxToday]
  /\ refresherAt \in [Refreshers -> RefreshStep]
  /\ onlyStale \in [Refreshers -> BOOLEAN]
  /\ feedsLeft \in [Refreshers -> SUBSET Feeds]
  /\ asked \in [Refreshers -> Feeds]
  /\ answer \in [Refreshers -> Texts]
  /\ logged \in [Feeds -> Texts]

ArchiveInit ==
  /\ today = 1
  /\ transcripts = NoTexts
  /\ refreshLog = [f \in Feeds |-> 0]
  /\ refresherAt = [r \in Refreshers |-> "idle"]
  /\ onlyStale = [r \in Refreshers |-> FALSE]
  /\ feedsLeft = [r \in Refreshers |-> {}]
  /\ asked = [r \in Refreshers |-> CHOOSE f \in Feeds : TRUE]
  /\ answer = [r \in Refreshers |-> NoTexts]
  /\ logged = [f \in Feeds |-> NoTexts]

DayPasses ==
  /\ today < MaxToday
  /\ today' = today + 1
  /\ UNCHANGED <<transcripts, refreshLog, runVars, logged>>

---------------------------------------------------------------------------
(* The store.                                                              *)

\* Mutant: the row is replaced, whatever it held.
BugUpsertTranscripts(records) ==
  [d \in Docs |-> IF records[d] > 0 THEN records[d] ELSE transcripts[d]]

\* upsert_transcripts: the longer text stays.
UpsertTranscripts(records) ==
  [d \in Docs |-> IF records[d] > transcripts[d] THEN records[d] ELSE transcripts[d]]

\* is_stale
IsStale(f) == today > refreshLog[f] + FeedTtl \/ refreshLog[f] = 0

\* Past retention; a blank date never is.
Expired(d) == EventDay[d] # 0 /\ EventDay[d] + Retention < today

---------------------------------------------------------------------------
(* run_refresh.  The feeds come in the order of a dictionary; the model    *)
(* takes them in any.                                                      *)

RefreshBegin(r, stale) ==
  /\ refresherAt[r] = "idle"
  /\ refresherAt' = [refresherAt EXCEPT ![r] = "running"]
  /\ onlyStale' = [onlyStale EXCEPT ![r] = stale]
  /\ feedsLeft' = [feedsLeft EXCEPT ![r] = Feeds]
  /\ UNCHANGED <<today, transcripts, refreshLog, asked, answer, logged>>

(* The next feed: skipped while it is fresh, or asked.                     *)
RefreshNextFeed(r, f) ==
  /\ refresherAt[r] = "running"
  /\ f \in feedsLeft[r]
  /\ feedsLeft' = [feedsLeft EXCEPT ![r] = @ \ {f}]
  /\ IF onlyStale[r] /\ ~IsStale(f)
       THEN UNCHANGED <<refresherAt, asked>>
       ELSE /\ refresherAt' = [refresherAt EXCEPT ![r] = "asking"]
            /\ asked' = [asked EXCEPT ![r] = f]
  /\ UNCHANGED <<today, transcripts, refreshLog, onlyStale, answer, logged>>

\* What a feed may list: its own documents, each with some text or not at all.
Listings(f) == {a \in Texts : \A d \in Docs : FeedOf[d] # f => a[d] = 0}

FeedAnswers(r, listing) ==
  /\ refresherAt[r] = "asking"
  /\ listing \in Listings(asked[r])
  /\ refresherAt' = [refresherAt EXCEPT ![r] = "answered"]
  /\ answer' = [answer EXCEPT ![r] = listing]
  /\ UNCHANGED <<today, transcripts, refreshLog, onlyStale, feedsLeft, asked, logged>>

(* The client raises: the feed stays stale.                                *)
FeedRaises(r) ==
  /\ refresherAt[r] = "asking"
  /\ refresherAt' = [refresherAt EXCEPT ![r] = "running"]
  /\ UNCHANGED <<today, transcripts, refreshLog, onlyStale, feedsLeft, asked, answer, logged>>

(* The refresher upserts and commits ...                                   *)
RefreshStores(r) ==
  /\ refresherAt[r] = "answered"
  /\ transcripts' = UpsertTranscripts(answer[r])
  /\ refresherAt' = [refresherAt EXCEPT ![r] = "stored"]
  /\ UNCHANGED <<today, refreshLog, onlyStale, feedsLeft, asked, answer, logged>>

(* ... and mark_refreshed commits again, after another process's steps     *)
(* perhaps.                                                                *)
RefreshMarks(r) ==
  /\ refresherAt[r] = "stored"
  /\ refreshLog' = [refreshLog EXCEPT ![asked[r]] = today]
  /\ logged' = [logged EXCEPT ![asked[r]] = answer[r]]
  /\ refresherAt' = [refresherAt EXCEPT ![r] = "running"]
  /\ answer' = [answer EXCEPT ![r] = NoTexts]
  /\ UNCHANGED <<today, transcripts, onlyStale, feedsLeft, asked>>

(* prune, at the end of every run.                                         *)
RefreshPrunes(r) ==
  /\ refresherAt[r] = "running" /\ feedsLeft[r] = {}
  /\ transcripts' = [d \in Docs |-> IF Expired(d) THEN 0 ELSE transcripts[d]]
  /\ refresherAt' = [refresherAt EXCEPT ![r] = "idle"]
  /\ onlyStale' = [onlyStale EXCEPT ![r] = FALSE]
  /\ UNCHANGED <<today, refreshLog, feedsLeft, asked, answer, logged>>

(* The process dies; SQLite keeps what was committed.                      *)
RefreshDies(r) ==
  /\ refresherAt[r] # "idle"
  /\ refresherAt' = [refresherAt EXCEPT ![r] = "idle"]
  /\ feedsLeft' = [feedsLeft EXCEPT ![r] = {}]
  /\ answer' = [answer EXCEPT ![r] = NoTexts]
  /\ onlyStale' = [onlyStale EXCEPT ![r] = FALSE]
  /\ UNCHANGED <<today, transcripts, refreshLog, asked, logged>>

---------------------------------------------------------------------------

ArchiveNext ==
  \/ DayPasses
  \/ \E r \in Refreshers, stale \in BOOLEAN : RefreshBegin(r, stale)
  \/ \E r \in Refreshers, f \in Feeds : RefreshNextFeed(r, f)
  \/ \E r \in Refreshers, listing \in Texts : FeedAnswers(r, listing)
  \/ \E r \in Refreshers : FeedRaises(r)
  \/ \E r \in Refreshers : RefreshStores(r)
  \/ \E r \in Refreshers : RefreshMarks(r)
  \/ \E r \in Refreshers : RefreshPrunes(r)
  \/ \E r \in Refreshers : RefreshDies(r)

ArchiveSpec == ArchiveInit /\ [][ArchiveNext]_archiveVars

---------------------------------------------------------------------------

(* What refresh_log says was refreshed is there: every document of the     *)
(* answer it stands for is archived with at least the text that was        *)
(* listed, unless it is past retention.  A crash between the two commits,  *)
(* a second refresh with a thinner listing and a run that lists nothing    *)
(* never undo it.                                                          *)
RefreshedIsArchived ==
  \A f \in Feeds : refreshLog[f] # 0 =>
    \A d \in Docs : transcripts[d] >= logged[f][d] \/ Expired(d)
=============================================================================
