----------------------------- MODULE IdeaReview -----------------------------
(***************************************************************************)
(* The review of trade ideas in kalshi_trader/ui/server.py: POST /api/ideas *)
(* puts ideas before the reviewer, approve_idea and reject_idea take one   *)
(* away, record the decision and save it in the table reviewed_ideas.  The *)
(* handlers are coroutines of one event loop: between two awaits a handler *)
(* runs alone.  The lists live in memory; POST /api/state can replace them *)
(* and a restart empties them.                                             *)
(***************************************************************************)
EXTENDS Naturals, Sequences

CONSTANTS
  Ideas,        \* bound: ideas ever posted
  Requests,     \* bound: approve and reject requests
  ReviewedKept, \* 50 in the code
  NoIdea

ASSUME IdeasAssumption == NoIdea \notin Ideas /\ ReviewedKept \in Nat \ {0}

VARIABLES
  posted,       \* ideas that have been given an id
  pending,      \* pending_ideas
  reviewed,     \* reviewed_ideas, newest first
  requestAt,    \* [Requests -> RequestStep]
  requestIdea,  \* [Requests -> Ideas]: the idea the request took
  decision,     \* [Requests -> Decision]
  savedIn,      \* requests whose row is in the table reviewed_ideas
  broughtBack,  \* history: ideas a replaced list put back into pending_ideas
  dropped       \* history: ideas lost with a list that was replaced or emptied,
                \* and those whose decision could not be saved

listVars    == <<posted, pending, reviewed, broughtBack>>
requestVars == <<requestAt, requestIdea, decision, savedIn>>
ideaVars    == <<listVars, requestVars, dropped>>

RequestStep == {"idle", "took", "saving", "over"}
Decision    == {"none", "approved", "rejected"}

ReviewedSet == {reviewed[i] : i \in DOMAIN reviewed}

IdeasTypeOK ==
  /\ posted \subseteq Ideas
  /\ pending \subseteq posted
  /\ reviewed \in Seq(Ideas)
  /\ Len(reviewed) <= ReviewedKept
  /\ requestAt \in [Requests -> RequestStep]
  /\ requestIdea \in [Requests -> Ideas \cup {NoIdea}]
  /\ decision \in [Requests -> Decision]
  /\ savedIn \subseteq Requests
  /\ broughtBack \subseteq Ideas
  /\ dropped \subseteq Ideas

IdeasInit ==
  /\ posted = {} /\ pending = {} /\ reviewed = <<>>
  /\ requestAt = [q \in Requests |-> "idle"]
  /\ requestIdea = [q \in Requests |-> NoIdea]
  /\ decision = [q \in Requests |-> "none"]
  /\ savedIn = {} /\ broughtBack = {} /\ dropped = {}

---------------------------------------------------------------------------

(* post_ideas: each idea gets a new id.                                    *)
PostIdeas(batch) ==
  /\ batch # {} /\ batch \cap posted = {}
  /\ posted' = posted \cup batch
  /\ pending' = pending \cup batch
  /\ UNCHANGED <<reviewed, broughtBack, requestVars, dropped>>

\* Mutant: the list is not cut.
BugReviewed(i) == <<i>> \o reviewed

\* reviewed.insert(0, idea), cut to the newest.
Reviewed(i) ==
  LET all == <<i>> \o reviewed IN
  SubSeq(all, 1, IF Len(all) < ReviewedKept THEN Len(all) ELSE ReviewedKept)

\* Mutant: the idea is looked up, and taken only after the body has been read.
BugApproveTake(q, i) ==
  /\ requestAt[q] = "idle"
  /\ i \in pending
  /\ requestAt' = [requestAt EXCEPT ![q] = "took"]
  /\ requestIdea' = [requestIdea EXCEPT ![q] = i]
  /\ UNCHANGED <<listVars, decision, savedIn, dropped>>

(* approve_idea takes the idea, then awaits the body of the request.       *)
ApproveTake(q, i) ==
  /\ requestAt[q] = "idle"
  /\ i \in pending
  /\ pending' = pending \ {i}
  /\ requestAt' = [requestAt EXCEPT ![q] = "took"]
  /\ requestIdea' = [requestIdea EXCEPT ![q] = i]
  /\ UNCHANGED <<posted, reviewed, broughtBack, decision, savedIn, dropped>>

\* Mutant: a body that cannot be read ends the handler.
BugApproveDecide(q) ==
  /\ requestAt[q] = "took"
  /\ requestAt' = [requestAt EXCEPT ![q] = "over"]
  /\ UNCHANGED <<listVars, requestIdea, decision, savedIn, dropped>>

(* With or without a readable body the idea is approved.                   *)
ApproveDecide(q) ==
  /\ requestAt[q] = "took"
  /\ decision' = [decision EXCEPT ![q] = "approved"]
  /\ reviewed' = Reviewed(requestIdea[q])
  /\ requestAt' = [requestAt EXCEPT ![q] = "saving"]
  /\ UNCHANGED <<posted, pending, broughtBack, requestIdea, savedIn, dropped>>

(* reject_idea has nothing to await before it decides.                     *)
Reject(q, i) ==
  /\ requestAt[q] = "idle"
  /\ i \in pending
  /\ pending' = pending \ {i}
  /\ requestIdea' = [requestIdea EXCEPT ![q] = i]
  /\ decision' = [decision EXCEPT ![q] = "rejected"]
  /\ reviewed' = Reviewed(i)
  /\ requestAt' = [requestAt EXCEPT ![q] = "saving"]
  /\ UNCHANGED <<posted, broughtBack, savedIn, dropped>>

(* An id that is not pending (404).                                        *)
NotFound(q, i) ==
  /\ requestAt[q] = "idle"
  /\ i \in posted \ pending
  /\ requestAt' = [requestAt EXCEPT ![q] = "over"]
  /\ UNCHANGED <<listVars, requestIdea, decision, savedIn, dropped>>

(* insert_reviewed_idea; a failure is logged.                              *)
Save(q) ==
  /\ requestAt[q] = "saving"
  /\ requestAt' = [requestAt EXCEPT ![q] = "over"]
  /\ \/ savedIn' = savedIn \cup {q} /\ UNCHANGED dropped
     \/ dropped' = dropped \cup {requestIdea[q]} /\ UNCHANGED savedIn
  /\ UNCHANGED <<listVars, requestIdea, decision>>

(* POST /api/state with "pending_ideas": apply_update replaces the list by *)
(* one the sender may have read a while ago.                               *)
PushPending(list) ==
  /\ list \subseteq posted
  /\ pending' = list
  /\ broughtBack' = broughtBack \cup (list \ pending)
  /\ dropped' = dropped \cup (pending \ list)
  /\ UNCHANGED <<posted, reviewed, requestVars>>

(* The server restarts: the lists are gone, and so are the handlers.       *)
Restart ==
  /\ pending' = {} /\ reviewed' = <<>>
  /\ dropped' = dropped \cup pending
                 \cup {requestIdea[q] : q \in {r \in Requests : requestAt[r] \in {"took", "saving"}}}
  /\ requestAt' = [q \in Requests |->
       IF requestAt[q] \in {"took", "saving"} THEN "over" ELSE requestAt[q]]
  /\ UNCHANGED <<posted, broughtBack, requestIdea, decision, savedIn>>

---------------------------------------------------------------------------

IdeasNext ==
  \/ \E batch \in SUBSET Ideas : PostIdeas(batch)
  \/ \E q \in Requests, i \in Ideas : ApproveTake(q, i)
  \/ \E q \in Requests : ApproveDecide(q)
  \/ \E q \in Requests, i \in Ideas : Reject(q, i)
  \/ \E q \in Requests, i \in Ideas : NotFound(q, i)
  \/ \E q \in Requests : Save(q)
  \/ \E list \in SUBSET Ideas : PushPending(list)
  \/ Restart

IdeasSpec == IdeasInit /\ [][IdeasNext]_ideaVars

---------------------------------------------------------------------------

(* However requests interleave, an idea is decided once, and it is not     *)
(* offered for review any more: unless a list pushed to POST /api/state    *)
(* has brought it back.                                                    *)
ReviewedOnce ==
  \A q \in Requests :
    requestIdea[q] # NoIdea /\ requestIdea[q] \notin broughtBack =>
      /\ requestIdea[q] \notin pending
      /\ \A r \in Requests \ {q} : requestIdea[r] # requestIdea[q]

(* An idea that was posted waits for review, is in the hands of a request, *)
(* or is decided and among the newest reviewed or in the table: unless a   *)
(* list was replaced, the server restarted or the table refused the row.   *)
NoIdeaVanishes ==
  \A i \in posted \ dropped :
    \/ i \in pending \cup ReviewedSet
    \/ \E q \in Requests : requestIdea[q] = i /\ (requestAt[q] \in {"took", "saving"} \/ q \in savedIn)
=============================================================================
