----------------------------- MODULE AccountView -----------------------------
(***************************************************************************)
(* The two background tasks of kalshi_trader/ui/server.py that rebuild     *)
(* what the dashboard shows of the account: _poll_kalshi_account (the open *)
(* positions, every ten seconds) and _poll_fills (the closed positions,    *)
(* every five minutes, from the fills, the settled positions and the       *)
(* positions the other task shows).  Each awaits between its reads and its *)
(* writes, POST /api/state may write the positions too, and the account    *)
(* goes on trading.                                                        *)
(*                                                                         *)
(* A position is whole contracts of one side; of a displayed row remains   *)
(* the ticker, and whether it has a fair value.                            *)
(***************************************************************************)
EXTENDS Naturals

CONSTANTS
  ATickers,
  MaxBought    \* bound: contracts ever bought of a ticker

ASSUME AccountBoundAssumption == MaxBought \in Nat

VARIABLES
  \* the exchange
  bought, sold,     \* [ATickers -> Nat]: contracts in the fills
  gone,             \* tickers whose market has settled
  resting,          \* tickers with a resting order
  \* the dashboard
  shownOpen,        \* tickers of trading_state.positions
  shownClosed,      \* tickers of trading_state.closed_positions
  fairValue,        \* open rows with a fair value
  imported,         \* BOOLEAN: the account poller's local _db is bound
  openedAt,         \* tickers of _opened_at_by_ticker
  metadata,         \* [ATickers -> Metadata]: _market_metadata_by_ticker
  \* the account poller
  acctAt, acctHeld, acctResting,
  \* the fills poller
  fillsAt, sawClosed, sawBought, sawOpen, sawSettled,
  \* histories
  acctMoved,        \* traded or settled since the account poller's last read
  acctStale,        \* ... since the read behind the rows it shows
  fillsMoved, fillsStale,  \* the same of the fills poller
  passedOver,       \* closed by the fills and taken for open at the last compute
  noAnswer,         \* open rows whose fair value the database did not give
  beforeOrders      \* open rows shown before any pass had seen a resting order

exchangeVars == <<bought, sold, gone, resting>>
accountPoll  == <<acctAt, acctHeld, acctResting>>
fillsPoll    == <<fillsAt, sawClosed, sawBought, sawOpen, sawSettled>>
accountRows  == <<shownOpen, fairValue, acctStale, noAnswer, beforeOrders>>
fillsRows    == <<shownClosed, fillsStale, passedOver>>
accountVars  == <<exchangeVars, accountPoll, fillsPoll, accountRows, fillsRows, imported,
                  openedAt, metadata, acctMoved, fillsMoved>>

Held(t)  == IF t \in gone THEN 0 ELSE bought[t] - sold[t]
HeldNow  == {t \in ATickers : Held(t) > 0}
Metadata == {"none", "kept"}

AccountTypeOK ==
  /\ bought \in [ATickers -> 0 .. MaxBought]
  /\ sold \in [ATickers -> 0 .. MaxBought]
  /\ \A t \in ATickers : sold[t] <= bought[t]
  /\ {gone, resting, shownOpen, shownClosed, fairValue, openedAt, acctHeld, acctResting,
      sawClosed, sawBought, sawOpen, sawSettled, acctMoved, acctStale, fillsMoved, fillsStale,
      passedOver, noAnswer, beforeOrders} \subseteq SUBSET ATickers
  /\ imported \in BOOLEAN
  /\ metadata \in [ATickers -> Metadata]
  /\ acctAt \in {"idle", "read", "orders"}
  /\ fillsAt \in {"idle", "paged", "computed", "shown"}

AccountInit ==
  /\ bought = [t \in ATickers |-> 0]
  /\ sold = [t \in ATickers |-> 0]
  /\ gone = {} /\ resting = {}
  /\ shownOpen = {} /\ shownClosed = {} /\ fairValue = {}
  /\ imported = FALSE
  /\ openedAt = {}
  /\ metadata = [t \in ATickers |-> "none"]
  /\ acctAt = "idle" /\ acctHeld = {} /\ acctResting = {}
  /\ fillsAt = "idle" /\ sawClosed = {} /\ sawBought = {} /\ sawOpen = {}
  /\ sawSettled = {}
  /\ acctMoved = {} /\ acctStale = {}
  /\ fillsMoved = {} /\ fillsStale = {}
  /\ passedOver = {} /\ noAnswer = {} /\ beforeOrders = {}

---------------------------------------------------------------------------
(* The account trades.                                                     *)

\* What both tasks have read of the ticker is now of the past.
Moves(t) ==
  /\ acctMoved' = acctMoved \cup {t}
  /\ acctStale' = acctStale \cup {t}
  /\ fillsMoved' = fillsMoved \cup {t}
  /\ fillsStale' = fillsStale \cup {t}
  /\ UNCHANGED <<accountPoll, fillsPoll, shownOpen, fairValue, noAnswer, beforeOrders, shownClosed,
                 passedOver, imported, openedAt, metadata>>

Buy(t) ==
  /\ t \notin gone
  /\ bought[t] < MaxBought
  /\ bought' = [bought EXCEPT ![t] = @ + 1]
  /\ UNCHANGED <<sold, gone, resting>>
  /\ Moves(t)

Sell(t) ==
  /\ Held(t) > 0
  /\ sold' = [sold EXCEPT ![t] = @ + 1]
  /\ UNCHANGED <<bought, gone, resting>>
  /\ Moves(t)

\* A settlement leaves no fill.
Settles(t) ==
  /\ t \notin gone
  /\ gone' = gone \cup {t}
  /\ resting' = resting \ {t}
  /\ UNCHANGED <<bought, sold>>
  /\ Moves(t)

RestOrder(t) ==
  /\ t \notin gone \cup resting
  /\ resting' = resting \cup {t}
  /\ UNCHANGED <<bought, sold, gone, accountPoll, fillsPoll, accountRows, fillsRows,
                 imported, openedAt, metadata, acctMoved, fillsMoved>>

(* It fills or is cancelled.                                               *)
OrderGoes(t) ==
  /\ t \in resting
  /\ resting' = resting \ {t}
  /\ UNCHANGED <<bought, sold, gone, accountPoll, fillsPoll, accountRows, fillsRows,
                 imported, openedAt, metadata, acctMoved, fillsMoved>>

---------------------------------------------------------------------------
(* _poll_kalshi_account.                                                   *)

(* The balance, the positions and the resting orders are gathered.         *)
AccountRead ==
  /\ acctAt = "idle"
  /\ acctAt' = "read"
  /\ acctHeld' = HeldNow
  /\ acctResting' = resting
  /\ acctMoved' = {}
  /\ UNCHANGED <<exchangeVars, fillsPoll, accountRows, fillsRows, imported, openedAt,
                 metadata, fillsMoved>>

(* The orders are priced and shown; the module db is imported on this      *)
(* branch only.                                                            *)
AccountOrders ==
  /\ acctAt = "read"
  /\ acctAt' = "orders"
  /\ imported' = (imported \/ acctResting # {})
  /\ UNCHANGED <<exchangeVars, acctHeld, acctResting, fillsPoll, accountRows, fillsRows,
                 openedAt, metadata, acctMoved, fillsMoved>>

\* Mutant: the fair values are looked up only in a pass with a resting order.
BugAccountPositions(answered) ==
  /\ acctAt = "orders"
  /\ acctAt' = "idle" /\ acctHeld' = {} /\ acctResting' = {}
  /\ shownOpen' = acctHeld
  /\ fairValue' = IF acctResting # {} THEN answered ELSE {}
  /\ noAnswer' = acctHeld \ answered
  /\ beforeOrders' = IF imported THEN {} ELSE acctHeld
  /\ acctStale' = acctMoved
  /\ UNCHANGED <<exchangeVars, fillsPoll, fillsRows, imported, openedAt, metadata,
                 acctMoved, fillsMoved>>

(* The positions are priced and shown.  A name that was never bound raises *)
(* like an unreachable database: both are swallowed, and no row has a fair *)
(* value.  "answered" are the tickers the database has a probability of.   *)
AccountPositions(answered) ==
  /\ acctAt = "orders"
  /\ answered \subseteq acctHeld
  /\ acctAt' = "idle" /\ acctHeld' = {} /\ acctResting' = {}
  /\ shownOpen' = acctHeld
  /\ fairValue' = IF imported THEN answered ELSE {}
  /\ noAnswer' = acctHeld \ answered
  /\ beforeOrders' = IF imported THEN {} ELSE acctHeld
  /\ acctStale' = acctMoved
  /\ UNCHANGED <<exchangeVars, fillsPoll, fillsRows, imported, openedAt, metadata,
                 acctMoved, fillsMoved>>

(* A request raises: what is shown stays.                                  *)
AccountFails ==
  /\ acctAt # "idle"
  /\ acctAt' = "idle" /\ acctHeld' = {} /\ acctResting' = {}
  /\ UNCHANGED <<exchangeVars, fillsPoll, accountRows, fillsRows, imported, openedAt,
                 metadata, acctMoved, fillsMoved>>

(* POST /api/state with "positions": TradingState.apply_update takes the   *)
(* list as it is.                                                          *)
PostPositions(rows) ==
  /\ shownOpen' = rows
  /\ fairValue' = {} /\ noAnswer' = rows /\ beforeOrders' = {}
  /\ acctStale' = ATickers
  /\ UNCHANGED <<exchangeVars, accountPoll, fillsPoll, fillsRows, imported, openedAt,
                 metadata, acctMoved, fillsMoved>>

---------------------------------------------------------------------------
(* _poll_fills.                                                            *)

\* The pass is over, or given up.
FillsLocals == sawClosed' = {} /\ sawBought' = {} /\ sawOpen' = {} /\ sawSettled' = {}

(* All pages of the fills, grouped by ticker.                              *)
FillsPage ==
  /\ fillsAt = "idle"
  /\ fillsAt' = "paged"
  /\ sawBought' = {t \in ATickers : bought[t] > 0}
  /\ sawClosed' = {t \in ATickers : bought[t] > 0 /\ sold[t] >= bought[t]}
  /\ fillsMoved' = {}
  /\ UNCHANGED <<exchangeVars, accountPoll, sawOpen, sawSettled, accountRows, fillsRows,
                 imported, openedAt, metadata, acctMoved>>

(* The open tickers are what the account poller shows now; the settled     *)
(* positions are requested.                                                *)
FillsCompute ==
  /\ fillsAt = "paged"
  /\ fillsAt' = "computed"
  /\ sawOpen' = shownOpen
  /\ sawSettled' = {t \in gone : bought[t] > 0}
  /\ UNCHANGED <<exchangeVars, accountPoll, sawClosed, sawBought, accountRows, fillsRows,
                 imported, openedAt, metadata, acctMoved, fillsMoved>>

\* Mutant: the settled positions are merged only where a fill closed them.
BugFillsShow ==
  /\ fillsAt = "computed"
  /\ fillsAt' = "shown"
  /\ shownClosed' = sawClosed \ sawOpen
  /\ passedOver' = sawClosed \cap sawOpen
  /\ fillsStale' = fillsMoved
  /\ openedAt' = openedAt \cup sawBought
  /\ UNCHANGED <<exchangeVars, accountPoll, sawClosed, sawBought, sawOpen, sawSettled, accountRows,
                 imported, metadata, acctMoved, fillsMoved>>

(* compute_closed_positions takes those the fills close and that are not   *)
(* shown open, merge_with_settled_positions adds the settled ones, and     *)
(* _update_opened_at_lookup the times of the first buys.                   *)
FillsShow ==
  /\ fillsAt = "computed"
  /\ fillsAt' = "shown"
  /\ shownClosed' = (sawClosed \ sawOpen) \cup sawSettled
  /\ passedOver' = sawClosed \cap sawOpen
  /\ fillsStale' = fillsMoved
  /\ openedAt' = openedAt \cup sawBought
  /\ UNCHANGED <<exchangeVars, accountPoll, sawClosed, sawBought, sawOpen, sawSettled, accountRows,
                 imported, metadata, acctMoved, fillsMoved>>

(* _refresh_market_metadata: a ticker that could not be read is tried in   *)
(* the next pass, one whose event could not be read is kept as it is.      *)
FillsMetadata ==
  LET missing == {t \in sawOpen \cup shownClosed : metadata[t] = "none"} IN
  /\ fillsAt = "shown"
  /\ fillsAt' = "idle" /\ FillsLocals
  /\ \E answer \in [missing -> Metadata] :
       metadata' = [t \in ATickers |-> IF t \in missing THEN answer[t] ELSE metadata[t]]
  /\ UNCHANGED <<exchangeVars, accountPoll, accountRows, fillsRows, imported, openedAt,
                 acctMoved, fillsMoved>>

FillsFails ==
  /\ fillsAt # "idle"
  /\ fillsAt' = "idle" /\ FillsLocals
  /\ UNCHANGED <<exchangeVars, accountPoll, accountRows, fillsRows, imported, openedAt,
                 metadata, acctMoved, fillsMoved>>

---------------------------------------------------------------------------

AccountNext ==
  \/ \E t \in ATickers : Buy(t)
  \/ \E t \in ATickers : Sell(t)
  \/ \E t \in ATickers : Settles(t)
  \/ \E t \in ATickers : RestOrder(t)
  \/ \E t \in ATickers : OrderGoes(t)
  \/ AccountRead
  \/ AccountOrders
  \/ \E answered \in SUBSET ATickers : AccountPositions(answered)
  \/ AccountFails
  \/ \E rows \in SUBSET ATickers : PostPositions(rows)
  \/ FillsPage
  \/ FillsCompute
  \/ FillsShow
  \/ FillsMetadata
  \/ FillsFails

AccountSpec == AccountInit /\ [][AccountNext]_accountVars

---------------------------------------------------------------------------

(* Of a ticker that has not moved since the reads behind what is shown,    *)
(* the dashboard is right: it is open or closed as at the exchange, and    *)
(* never both or neither.  The exception is a position the fills close     *)
(* while the account poller still shows it: compute_closed_positions       *)
(* passes over it, and when the account poller drops it, it is shown       *)
(* nowhere until the next pass over the fills.                             *)
QuietViewIsRight ==
  \A t \in ATickers \ (acctStale \cup fillsStale \cup passedOver) :
    /\ t \in shownOpen <=> Held(t) > 0
    /\ t \in shownClosed <=> bought[t] > 0 /\ Held(t) = 0

(* An open row shows the fair value the database has of its ticker: except *)
(* a row of a pass before which no pass had seen a resting order.          *)
FairValueShown ==
  \A t \in shownOpen : t \in fairValue \/ t \in noAnswer \/ t \in beforeOrders

(* What the dashboard shows of the account is right: of the positions and  *)
(* of what they are worth.                                                 *)
DashboardIsRight == QuietViewIsRight /\ FairValueShown
=============================================================================
