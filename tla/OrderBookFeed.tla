----------------------------- MODULE OrderBookFeed -----------------------------
(***************************************************************************)
(* The order book of one ticker in the exit monitor's memory               *)
(* (kalshi_trader/orderbook.py), fed by the WebSocket client               *)
(* (kalshi_trader/external/kalshi_ws.py) and, every refresh, by the REST   *)
(* book, which exit_monitor.py awaits while the feed goes on.              *)
(*                                                                         *)
(* The two sides of the book behave alike; a level is a side and a price.  *)
(* The exchange answers a subscription with a snapshot and then sends one  *)
(* delta per change; apply_delta takes the number it carries for the new   *)
(* size of the level, and so does this module.                             *)
(***************************************************************************)
EXTENDS Naturals, Sequences

CONSTANTS
  BookLevels,
  MaxSize,      \* bound: contracts at a level
  MaxInFlight,  \* bound: messages the client has not handled
  NoBook        \* no REST request is under way

ASSUME FeedAssumption ==
  MaxSize \in Nat \ {0} /\ MaxInFlight \in Nat \ {0} /\ NoBook \notin [BookLevels -> Nat]

VARIABLES
  exchangeBook, \* [BookLevels -> Nat]; external
  wsLink,       \* "down", "up" or "dead": up, but nothing arrives (the
                \* watchdog's case)
  wsQueue,      \* messages under way, in order
  localBook,    \* [BookLevels -> Nat]: the level's entry, 0 if it has none
  restBook,     \* the REST answer on its way, or NoBook
  passed,       \* history: levels the feed has changed since that answer was
                \* made
  overwritten   \* history: levels the last REST answer has set back

feedVars == <<exchangeBook, wsLink, wsQueue, localBook, restBook, passed, overwritten>>

Books == [BookLevels -> 0 .. MaxSize]
EmptyBook == [l \in BookLevels |-> 0]

Snapshot(b) == [kind |-> "snapshot", book |-> b]
Delta(l, n) == [kind |-> "delta", level |-> l, size |-> n]
FeedMessages ==
  [kind : {"snapshot"}, book : Books]
    \cup [kind : {"delta"}, level : BookLevels, size : 0 .. MaxSize]

FeedTypeOK ==
  /\ exchangeBook \in Books
  /\ wsLink \in {"down", "up", "dead"}
  /\ wsQueue \in Seq(FeedMessages)
  /\ localBook \in Books
  /\ restBook \in Books \cup {NoBook}
  /\ passed \subseteq BookLevels
  /\ overwritten \subseteq BookLevels

FeedInit ==
  /\ exchangeBook = EmptyBook
  /\ wsLink = "down" /\ wsQueue = <<>>
  /\ localBook = EmptyBook
  /\ restBook = NoBook /\ passed = {} /\ overwritten = {}

---------------------------------------------------------------------------
(* The exchange.                                                           *)

\* A subscriber is told; a dead link loses what is sent.
BookChanges(l, n) ==
  /\ n # exchangeBook[l]
  /\ wsLink = "up" => Len(wsQueue) < MaxInFlight
  /\ exchangeBook' = [exchangeBook EXCEPT ![l] = n]
  /\ wsQueue' = IF wsLink = "up" THEN Append(wsQueue, Delta(l, n)) ELSE wsQueue
  /\ UNCHANGED <<wsLink, localBook, restBook, passed, overwritten>>

---------------------------------------------------------------------------
(* KalshiWebSocketClient.                                                  *)

(* run: connect and _subscribe.  The state keeps its books.                *)
WsConnect ==
  /\ wsLink = "down"
  /\ wsLink' = "up"
  /\ wsQueue' = <<Snapshot(exchangeBook)>>
  /\ UNCHANGED <<exchangeBook, localBook, restBook, passed, overwritten>>

(* The connection goes silent: a proxy answers the pings.                  *)
WsGoesSilent ==
  /\ wsLink = "up"
  /\ wsLink' = "dead"
  /\ UNCHANGED <<exchangeBook, wsQueue, localBook, restBook, passed, overwritten>>

(* An error, a close, the watchdog, or stop() on a change of tickers.      *)
WsDrops ==
  /\ wsLink \in {"up", "dead"}
  /\ wsLink' = "down"
  /\ wsQueue' = <<>>
  /\ UNCHANGED <<exchangeBook, localBook, restBook, passed, overwritten>>

\* apply_delta: a size of zero removes the level.
ApplyDelta(b, m) == [b EXCEPT ![m.level] = m.size]

\* Mutant: the snapshot's levels are put into the book that is there.
BugApplySnapshot(b, new) == [l \in BookLevels |-> IF new[l] = 0 THEN b[l] ELSE new[l]]

\* apply_snapshot: the whole book is replaced.
ApplySnapshot(b, new) == new

(* _handle, one message.                                                   *)
WsHandle ==
  /\ wsQueue # <<>>
  /\ LET m   == Head(wsQueue)
         new == IF m.kind = "delta" THEN ApplyDelta(localBook, m)
                ELSE ApplySnapshot(localBook, m.book)
         hit == IF m.kind = "delta" THEN {m.level} ELSE BookLevels
     IN  /\ localBook' = new
         /\ passed' = IF restBook = NoBook THEN {}
                      ELSE (passed \ hit) \cup {l \in hit : new[l] # restBook[l]}
         /\ overwritten' = overwritten \ hit
  /\ wsQueue' = Tail(wsQueue)
  /\ UNCHANGED <<exchangeBook, wsLink, restBook>>

---------------------------------------------------------------------------
(* exit_monitor.py, the REST synchronisation of a refresh.                 *)

RestAnswers ==
  /\ restBook = NoBook
  /\ restBook' = exchangeBook
  /\ passed' = {}
  /\ UNCHANGED <<exchangeBook, wsLink, wsQueue, localBook, overwritten>>

RestApplied ==
  /\ restBook # NoBook
  /\ localBook' = ApplySnapshot(localBook, restBook)
  /\ overwritten' = passed
  /\ restBook' = NoBook /\ passed' = {}
  /\ UNCHANGED <<exchangeBook, wsLink, wsQueue>>

(* The request raises: the ticker is left for the next refresh.            *)
RestFails ==
  /\ restBook # NoBook
  /\ restBook' = NoBook /\ passed' = {}
  /\ UNCHANGED <<exchangeBook, wsLink, wsQueue, localBook, overwritten>>

---------------------------------------------------------------------------

FeedNext ==
  \/ \E l \in BookLevels, n \in 0 .. MaxSize : BookChanges(l, n)
  \/ WsConnect
  \/ WsGoesSilent
  \/ WsDrops
  \/ WsHandle
  \/ RestAnswers
  \/ RestApplied
  \/ RestFails

FeedSpec == FeedInit /\ [][FeedNext]_feedVars

---------------------------------------------------------------------------

(* With the connection alive and every message handled, the monitor's book *)
(* is the exchange's, after any number of reconnections and REST answers,  *)
(* but for levels the last REST answer has set back: those that a message  *)
(* handled between the making and the applying of the answer had changed.  *)
(* Such a level stays wrong until it changes again or is read again.       *)
BookFollowsExchange ==
  wsLink = "up" /\ wsQueue = <<>> =>
    \A l \in BookLevels \ overwritten : localBook[l] = exchangeBook[l]
=============================================================================
