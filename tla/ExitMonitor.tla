---------------------------- MODULE ExitMonitor ----------------------------
(***************************************************************************)
(* scripts/exit_monitor.py, the daemon that sells a held position when its *)
(* stop-loss or profit-target check fires, next to the exchange, the       *)
(* buying programs and scripts/cancel_stale_orders.py.                     *)
(*                                                                         *)
(* One coroutine alternates between _refresh (every 30 s: pcs "positions", *)
(* "orders", "books") and a pass over the positions (pcs "detect", "pass", *)
(* "await").  Each await of the code at which the exchange, the WebSocket  *)
(* task or another program can act is a boundary between two actions here. *)
(*                                                                         *)
(* EXIT_CHECKS on a book is one verdict, "hold" or "exit" (Signal): which  *)
(* check fired decides the limit price only.  The Supabase call that       *)
(* follows an answered order belongs to the position ledger.               *)
(***************************************************************************)
EXTENDS Exchange

CONSTANTS
  Buyers,      \* BOOLEAN: positions may be entered while the monitor runs
  StaleSweep   \* BOOLEAN: cancel_stale_orders runs beside the monitor

ASSUME FlagsAssumption == Buyers \in BOOLEAN /\ StaleSweep \in BOOLEAN

VARIABLES
  pc,          \* where the coroutine of run() is; "down" when no process runs
  startup,     \* BOOLEAN: the refresh under way is the first, outside the try
  meta,        \* [Tickers -> Int]: position_metadata; 0 when the ticker is absent
  pending,     \* pending_exits
  fresh,       \* new_this_cycle
  todo,        \* tickers the loop under way (book sync, or pass) has not visited
  awaiting,    \* the slot of the create_order being awaited, or NoSlot
  book,        \* orderbook_state, as the verdict the checks would give on it
  subscribed,  \* subscribed_tickers
  ws,          \* ws_task
  ambiguous    \* history: tickers with an exit request that was given up
               \* (timeout, or crash before it landed) and may have landed

monitorVars == <<pc, startup, meta, pending, fresh, todo, awaiting, book,
                 subscribed, ws, ambiguous>>
vars == <<exchangeVars, monitorVars>>

\* No process: "down".  _refresh: "positions" (get_positions is next), "orders"
\* (get_orders is next), "books" (book sync, then the subscription).  The loop
\* body: "detect", "pass", and "await" inside create_order.
Pc == {"down", "positions", "orders", "books", "detect", "pass", "await"}

\* ws_task: None, running, ended by itself, None because the loop cleared it,
\* and None although a refresh has ended since.
WsTask == {"none", "running", "dead", "cleared", "abandoned"}

Book == Signal \cup {"unpriced"}

Metadata == {t \in Tickers : meta[t] # 0}

TypeOK ==
  /\ ExchangeTypeOK
  /\ pc \in Pc
  /\ startup \in BOOLEAN
  /\ meta \in [Tickers -> Int]
  /\ pending \subseteq Tickers
  /\ fresh \subseteq Tickers
  /\ todo \subseteq Tickers
  /\ awaiting \in OrderIds \cup {NoSlot}
  /\ pc = "await" => awaiting \in OrderIds /\ orders[awaiting].open
  /\ book \in [Tickers -> Book]
  /\ subscribed \subseteq Tickers
  /\ ws \in WsTask
  /\ ambiguous \subseteq Tickers

\* The locals of run() before its first refresh, also what a dead process leaves.
Blank ==
  /\ startup' = TRUE
  /\ meta' = [t \in Tickers |-> 0]
  /\ pending' = {}
  /\ fresh' = {}
  /\ todo' = {}
  /\ awaiting' = NoSlot
  /\ book' = [t \in Tickers |-> "unpriced"]
  /\ subscribed' = {}
  /\ ws' = "none"

Init ==
  /\ ExchangeInit
  /\ pc = "down"
  /\ startup = TRUE
  /\ meta = [t \in Tickers |-> 0]
  /\ pending = {}
  /\ fresh = {}
  /\ todo = {}
  /\ awaiting = NoSlot
  /\ book = [t \in Tickers |-> "unpriced"]
  /\ subscribed = {}
  /\ ws = "none"
  /\ ambiguous = {}

---------------------------------------------------------------------------
(* The process.                                                            *)

Start ==
  /\ pc = "down"
  /\ pc' = "positions"
  /\ UNCHANGED <<exchangeVars, startup, meta, pending, fresh, todo, awaiting,
                 book, subscribed, ws, ambiguous>>

(* The process dies.  A request it was waiting for goes on without it.     *)
Crash ==
  /\ pc # "down"
  /\ pc' = "down"
  /\ Blank
  /\ IF pc = "await"
       THEN /\ CloseRequest(awaiting)
            /\ ambiguous' = IF orders[awaiting].state = "sent"
                              THEN ambiguous \cup {orders[awaiting].ticker}
                              ELSE ambiguous
       ELSE UNCHANGED <<orders, ambiguous>>
  /\ UNCHANGED <<held, market>>

---------------------------------------------------------------------------
(* _refresh().                                                             *)

\* Mutants: pending_exits is emptied; pending_exits is left as it is.
BugForgetPending ==
  /\ pc = "positions"
  /\ fresh' = {t \in Tickers : held[t] # 0 /\ meta[t] = 0}
  /\ meta' = held
  /\ pending' = {}
  /\ pc' = "orders"
  /\ UNCHANGED <<exchangeVars, startup, todo, awaiting, book, subscribed, ws, ambiguous>>

BugKeepPending ==
  /\ pc = "positions"
  /\ fresh' = {t \in Tickers : held[t] # 0 /\ meta[t] = 0}
  /\ meta' = held
  /\ pc' = "orders"
  /\ UNCHANGED <<exchangeVars, startup, pending, todo, awaiting, book, subscribed, ws,
                 ambiguous>>

(* _fetch_open_positions has answered.  Nothing else of the process runs   *)
(* that reads these locals until _refresh returns.                         *)
ReadPositions ==
  /\ pc = "positions"
  /\ fresh' = {t \in Tickers : held[t] # 0 /\ meta[t] = 0}
  /\ meta' = held
  /\ pending' = {t \in pending : held[t] # 0}
  /\ pc' = "orders"
  /\ UNCHANGED <<exchangeVars, startup, todo, awaiting, book, subscribed, ws, ambiguous>>

\* Mutant: resting sell orders are not put into pending_exits.
BugIgnoreResting ==
  /\ pc = "orders"
  /\ todo' = Metadata
  /\ pc' = "books"
  /\ UNCHANGED <<exchangeVars, startup, meta, pending, fresh, awaiting, book, subscribed,
                 ws, ambiguous>>

(* _fetch_resting_sell_tickers has answered.                               *)
ReadOrders ==
  /\ pc = "orders"
  /\ pending' = pending \cup (RestingSellTickers \cap Metadata)
  /\ todo' = Metadata
  /\ pc' = "books"
  /\ UNCHANGED <<exchangeVars, startup, meta, fresh, awaiting, book, subscribed,
                 ws, ambiguous>>

(* Either request raises: the first refresh takes the process down, a later *)
(* one is logged and the loop goes on with what it has.                    *)
RefreshFails ==
  /\ pc \in {"positions", "orders"}
  /\ IF startup THEN pc' = "down" /\ Blank
                ELSE pc' = "detect" /\ UNCHANGED <<startup, meta, pending, fresh, todo,
                                                   awaiting, book, subscribed, ws>>
  /\ UNCHANGED <<exchangeVars, ambiguous>>

(* get_orderbook and apply_snapshot for one ticker; an exception is        *)
(* swallowed and leaves the book as it was.                                *)
SyncBook(t) ==
  /\ pc = "books"
  /\ t \in todo
  /\ todo' = todo \ {t}
  /\ book' \in {[book EXCEPT ![t] = market[t]], book}
  /\ UNCHANGED <<exchangeVars, pc, startup, meta, pending, fresh, awaiting,
                 subscribed, ws, ambiguous>>

(* The end of _refresh: a new WebSocket task only when the tickers changed. *)
Resubscribe ==
  /\ pc = "books"
  /\ todo = {}
  /\ subscribed' = Metadata
  /\ ws' = IF Metadata # subscribed
             THEN IF Metadata = {} THEN "none" ELSE "running"
             ELSE IF ws = "cleared" THEN "abandoned" ELSE ws
  /\ startup' = FALSE
  /\ pc' = "detect"
  /\ UNCHANGED <<exchangeVars, meta, pending, fresh, todo, awaiting, book, ambiguous>>

Refresh == ReadPositions \/ ReadOrders \/ RefreshFails \/ Resubscribe
           \/ \E t \in Tickers : SyncBook(t)

---------------------------------------------------------------------------
(* The body of the while loop.                                             *)

(* The silent-death check, then the start of a pass over the positions.    *)
DetectDeadFeed ==
  /\ pc = "detect"
  /\ ws' = IF ws = "dead" THEN "cleared" ELSE ws
  /\ todo' = Metadata
  /\ pc' = "pass"
  /\ UNCHANGED <<exchangeVars, startup, meta, pending, fresh, awaiting, book,
                 subscribed, ambiguous>>

\* Mutant: a ticker that has just been entered is checked at once.
BugCheckFresh(t) == t \in pending \/ book[t] # "exit"

(* Whether the pass leaves t alone: an exit is pending, t was only just    *)
(* entered, its book has no price, or no check fires.                      *)
Spared(t) == t \in pending \/ t \in fresh \/ book[t] # "exit"

SkipTicker(t) ==
  /\ pc = "pass"
  /\ t \in todo
  /\ Spared(t)
  /\ todo' = todo \ {t}
  /\ UNCHANGED <<exchangeVars, pc, startup, meta, pending, fresh, awaiting, book,
                 subscribed, ws, ambiguous>>

(* A check fires: pending_exits.add, then create_order is awaited.         *)
TriggerExit(t) ==
  /\ pc = "pass"
  /\ t \in todo
  /\ ~Spared(t)
  /\ pending' = pending \cup {t}
  /\ todo' = todo \ {t}
  /\ \E i \in OrderIds : SendSell(i, t, meta[t]) /\ awaiting' = i
  /\ pc' = "await"
  /\ UNCHANGED <<held, market, startup, meta, fresh, book, subscribed, ws, ambiguous>>

(* create_order returns: the ticker stays in pending_exits.                *)
OrderPlaced ==
  /\ pc = "await"
  /\ orders[awaiting].state \in {"live", "filled"}
  /\ CloseRequest(awaiting)
  /\ awaiting' = NoSlot
  /\ pc' = "pass"
  /\ UNCHANGED <<held, market, startup, meta, pending, fresh, todo, book, subscribed,
                 ws, ambiguous>>

\* Mutant: the ticker of a refused order stays in pending_exits.
BugKeepRefused ==
  /\ pc = "await"
  /\ ambiguous' = IF orders[awaiting].state = "rejected" THEN ambiguous
                  ELSE ambiguous \cup {orders[awaiting].ticker}
  /\ CloseRequest(awaiting)
  /\ awaiting' = NoSlot
  /\ pc' = "pass"
  /\ UNCHANGED <<held, market, startup, meta, pending, fresh, todo, book, subscribed, ws>>

(* create_order raises: the ticker leaves pending_exits.  It raises when   *)
(* the order was refused, and also when the answer did not come in time.   *)
OrderRaises ==
  /\ pc = "await"
  /\ pending' = pending \ {orders[awaiting].ticker}
  /\ ambiguous' = IF orders[awaiting].state = "rejected" THEN ambiguous
                  ELSE ambiguous \cup {orders[awaiting].ticker}
  /\ CloseRequest(awaiting)
  /\ awaiting' = NoSlot
  /\ pc' = "pass"
  /\ UNCHANGED <<held, market, startup, meta, fresh, todo, book, subscribed, ws>>

(* The pass is over: the next iteration refreshes if 30 s have gone by.    *)
NextIteration ==
  /\ pc = "pass"
  /\ todo = {}
  /\ pc' \in {"positions", "detect"}
  /\ UNCHANGED <<exchangeVars, startup, meta, pending, fresh, todo, awaiting, book,
                 subscribed, ws, ambiguous>>

Loop == DetectDeadFeed \/ OrderPlaced \/ OrderRaises \/ NextIteration
        \/ \E t \in Tickers : SkipTicker(t) \/ TriggerExit(t)

---------------------------------------------------------------------------
(* KalshiWebSocketClient.run, the task beside the loop.                    *)

(* Messages bring the book of one ticker up to the exchange's.             *)
FeedDelivers(t) ==
  /\ ws = "running"
  /\ t \in subscribed
  /\ book[t] # market[t]
  /\ book' = [book EXCEPT ![t] = market[t]]
  /\ UNCHANGED <<exchangeVars, pc, startup, meta, pending, fresh, todo, awaiting,
                 subscribed, ws, ambiguous>>

(* An exception outside the reconnect loop's try ends the task.            *)
FeedDies ==
  /\ ws = "running"
  /\ ws' = "dead"
  /\ UNCHANGED <<exchangeVars, pc, startup, meta, pending, fresh, todo, awaiting,
                 book, subscribed, ambiguous>>

Feed == FeedDies \/ \E t \in Tickers : FeedDelivers(t)

---------------------------------------------------------------------------
ExchangeSteps ==
  /\ \/ \E i \in OrderIds : \/ Land(i)
                            \/ Refuse(i)
                            \/ \E f \in Quantities : Fill(i, f)
                            \/ StaleSweep /\ CancelStale(i)
     \/ \E t \in Tickers : \/ MarketMoves(t)
                           \/ Buyers /\ \E q \in Quantities : Enter(t, q)
  /\ UNCHANGED monitorVars

Monitor == Start \/ Refresh \/ Loop

Next == Monitor \/ Crash \/ Feed \/ ExchangeSteps

Spec == Init /\ [][Next]_vars

(* The event loop runs the coroutine, the timer of 30 s keeps expiring, and *)
(* a request to the exchange that is made again and again is answered in   *)
(* the end (RefreshFails and a failed SyncBook do not win for ever).        *)
Fairness ==
  /\ WF_vars(Start)
  /\ WF_vars(Loop)
  /\ WF_vars(Refresh)
  /\ SF_vars(NextIteration /\ pc' = "positions")
  /\ SF_vars(ReadPositions)
  /\ SF_vars(ReadOrders)
  /\ \A t \in Tickers : SF_vars(SyncBook(t) /\ book'[t] = market[t])

FairSpec == Spec /\ Fairness

---------------------------------------------------------------------------
(* Properties.                                                             *)

(* A ticker never has two exit orders outstanding, however crashes,        *)
(* restarts, fills and refreshes interleave, unless an exit request of the *)
(* ticker was given up without an answer.                                  *)
OneExitAtATime ==
  \A i, j \in OrderIds :
    /\ Outstanding(i) /\ Outstanding(j)
    /\ orders[i].ticker = orders[j].ticker
    /\ orders[i].ticker \notin ambiguous
    => i = j

(* An outstanding exit order never sells more than is held, so no fill of  *)
(* it can open a position on the other side; same exception.  The restart  *)
(* hazard: positions are read, the exit of the previous run fills, orders  *)
(* are read, and the stale quantity is still in position_metadata.         *)
ExitsCovered ==
  \A i \in OrderIds :
    Outstanding(i) /\ orders[i].ticker \notin ambiguous
      => Covered(orders[i].qty, held[orders[i].ticker])

(* Why they hold: the inductive invariant.                                 *)

\* Only the awaited order has its request open, and a final answer waits
\* for its reader; a sent order nobody waits for makes its ticker ambiguous.
RequestsInv ==
  /\ pc = "await" <=> awaiting # NoSlot
  /\ \A i \in OrderIds :
       /\ orders[i].open <=> awaiting = i
       /\ awaiting = i => orders[i].state # "free" /\ orders[i].ticker \in pending
       /\ orders[i].state \in {"filled", "rejected"} => awaiting = i
       /\ orders[i].state = "sent" /\ awaiting # i => orders[i].ticker \in ambiguous

\* Until the first refresh has read the orders, an exit of an earlier run is
\* not in pending_exits; but then its ticker is in new_this_cycle.
StartingUp == pc = "down" \/ (startup /\ pc \in {"positions", "orders"})

StartupInv ==
  /\ startup => Metadata \subseteq fresh
  /\ startup => pc \in {"down", "positions", "orders", "books"}
  /\ ~startup => pc # "down"
  /\ StartingUp => pending = {}
  /\ pc = "down" \/ (startup /\ pc = "positions") => Metadata = {}

\* The monitor knows every outstanding exit.
ExitsKnown ==
  \A i \in OrderIds :
    Outstanding(i) /\ orders[i].ticker \notin ambiguous =>
      /\ ~StartingUp => orders[i].ticker \in pending
      /\ pc = "orders" => meta[orders[i].ticker] # 0

\* A loop visits tickers the monitor has metadata for.
TodoHeld == pc \in {"books", "pass", "await"} => todo \subseteq Metadata

\* What the pass would sell now is held.
SafeToSell ==
  \A t \in Tickers :
    meta[t] # 0 /\ t \notin pending \cup fresh \cup ambiguous
      => Covered(meta[t], held[t])

\* An exit that may yet be refused leaves its ticker safe to sell again.
SafeToRetry ==
  \A i \in OrderIds :
    /\ orders[i].state \in {"sent", "rejected"}
    /\ orders[i].ticker \notin ambiguous
    => /\ Covered(meta[orders[i].ticker], held[orders[i].ticker])
       /\ \A j \in OrderIds :
            Outstanding(j) /\ orders[j].ticker = orders[i].ticker => j = i

IInv ==
  /\ TypeOK
  /\ RequestsInv
  /\ StartupInv
  /\ ExitsKnown
  /\ TodoHeld
  /\ SafeToSell
  /\ SafeToRetry
  /\ OneExitAtATime
  /\ ExitsCovered

(* The design document's claim without the exception: no ticker is ever    *)
(* sold twice (docs/superpowers/specs/2026-06-04-exit-monitor-design.md,   *)
(* "Double-Exit Prevention").                                              *)
NoDoubleExit ==
  \A i, j \in OrderIds :
    /\ Outstanding(i) /\ Outstanding(j)
    /\ orders[i].ticker = orders[j].ticker
    => i = j

(* What the comment at the clearing of ws_task says: the next refresh      *)
(* starts the WebSocket task again.                                        *)
RefreshRestartsFeed == ws # "abandoned"

Distressed(t) == pc # "down" /\ held[t] # 0 /\ market[t] = "exit"

HasExit(t) == \E i \in OrderIds : orders[i].ticker = t

(* A position whose check keeps firing has, again and again, an exit order *)
(* at the exchange: neither a dead feed, a failed refresh, a refused order *)
(* nor a restart leaves it unattended for ever.                            *)
DistressIsActedOn ==
  \A t \in Tickers :
    (<>[]Distressed(t) /\ [](t \notin ambiguous)) => []<>HasExit(t)

(* pending_exits forgets a ticker once its position is gone, so the same   *)
(* market is watched again when it is bought again.                        *)
PendingIsReleased ==
  \A t \in Tickers :
    [](t \notin ambiguous)
      => ((t \in pending /\ held[t] = 0) ~> (t \notin pending \/ held[t] # 0))
=============================================================================
