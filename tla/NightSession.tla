---------------------------- MODULE NightSession ----------------------------
(***************************************************************************)
(* scripts/night_execute.py: one process per cycle of the night, each of   *)
(* which reads the session file, buys what the rules let through, and      *)
(* rewrites the session file after every order that was answered.          *)
(*                                                                         *)
(* A candidate is a ticker and the size _resolve_size_dollars gives it.    *)
(* Candidates the stateless rules reject (category, price, edge, time to   *)
(* close) change nothing and are left out; so is --dry-run, which leaves   *)
(* nothing behind.  Dollars are whole.                                     *)
(***************************************************************************)
EXTENDS Integers, FiniteSets

CONSTANTS
  Tickers,     \* the markets of the night's candidates
  Sizes,       \* sizes _resolve_size_dollars can give, in dollars
  TradeCap,    \* SESSION_TRADE_CAP
  DollarCap,   \* SESSION_DOLLAR_CAP
  CycleCap,    \* CYCLE_TRADE_CAP
  MaxTrade,    \* MAX_TRADE_SIZE_DOLLARS
  NoTicker     \* the ticker of no order

ASSUME SizesAssumption == MaxTrade \in Nat /\ Sizes \subseteq 0 .. MaxTrade
ASSUME CapsAssumption ==
  DollarCap \in Nat \ {0} /\ TradeCap \in Nat /\ CycleCap \in Nat
ASSUME NoTickerAssumption == NoTicker \notin Tickers

VARIABLES
  pc,        \* where run() is; "idle" between cycles
  spent,     \* session["dollars_spent"] ...
  trades,    \* ... ["trades_placed"] ...
  traded,    \* ... and ["tickers_traded"], in memory
  seen,      \* seen_tickers
  placed,    \* cycle_trades_placed
  ticker,    \* the candidate being bought
  size,      \* its size
  request,   \* its create_order: "none", "sent", "accepted", "refused"
  file,      \* the session file: the last complete content written
  torn,      \* BOOLEAN: the last write of it was cut short
  recorded,  \* tickers recorded as executed (paper store and Supabase)
  bought,    \* [Tickers -> Nat]: buy orders the exchange accepted
  committed, \* dollars of those orders
  lost       \* history: the accepted orders no session counts, as
             \* [dollars, tickers]: the answer or the save did not come

processVars == <<pc, spent, trades, traded, seen, placed, ticker, size, request>>
accountVars == <<bought, committed, lost>>
vars == <<processVars, file, torn, recorded, accountVars>>

Pc == {"idle", "pass", "await", "save", "record"}
Request == {"none", "sent", "accepted", "refused"}
Session == [spent : Int, trades : Int, traded : SUBSET Tickers]
Lost == [dollars : Int, tickers : SUBSET Tickers]

TypeOK ==
  /\ pc \in Pc
  /\ spent \in Int /\ trades \in Int /\ traded \subseteq Tickers
  /\ seen \subseteq Tickers
  /\ placed \in Nat
  /\ ticker \in Tickers \cup {NoTicker}
  /\ size \in 0 .. MaxTrade
  /\ request \in Request
  /\ pc \in {"await", "save", "record"} \/ request # "none" => ticker \in Tickers
  /\ file \in Session
  /\ torn \in BOOLEAN
  /\ recorded \subseteq Tickers
  /\ bought \in [Tickers -> Nat]
  /\ committed \in Int
  /\ lost \in Lost

EmptySession == [spent |-> 0, trades |-> 0, traded |-> {}]

Init ==
  /\ pc = "idle"
  /\ spent = 0 /\ trades = 0 /\ traded = {}
  /\ seen = {} /\ placed = 0
  /\ ticker = NoTicker /\ size = 0 /\ request = "none"
  /\ file = EmptySession
  /\ torn = FALSE
  /\ recorded = {}
  /\ bought = [t \in Tickers |-> 0]
  /\ committed = 0
  /\ lost = [dollars |-> 0, tickers |-> {}]

\* The process is gone, and what it had in memory.
ProcessEnds ==
  /\ pc' = "idle"
  /\ spent' = 0 /\ trades' = 0 /\ traded' = {}
  /\ seen' = {} /\ placed' = 0
  /\ ticker' = NoTicker /\ size' = 0 /\ request' = "none"

\* The accepted order under way will be counted by no session.
LoseOrder ==
  lost' = [dollars |-> lost.dollars + size, tickers |-> lost.tickers \cup {ticker}]

---------------------------------------------------------------------------
(* A cycle starts: _load_session.  It raises on a file cut short.          *)
StartCycle ==
  /\ pc = "idle"
  /\ ~torn
  /\ pc' = "pass"
  /\ spent' = file.spent
  /\ trades' = file.trades
  /\ traded' = file.traded
  /\ UNCHANGED <<seen, placed, ticker, size, request, file, torn, recorded, accountVars>>

\* Mutant: the dollar cap is not looked at.
BugNoDollarCap == trades >= TradeCap \/ placed >= CycleCap

\* apply_rules: the session caps, then the cycle cap.
Capped == trades >= TradeCap \/ spent >= DollarCap \/ placed >= CycleCap

(* The candidates are used up, or a cap stops the cycle.                   *)
EndCycle ==
  /\ pc = "pass"
  /\ ProcessEnds
  /\ UNCHANGED <<file, torn, recorded, accountVars>>

\* Mutant: the duplicate guard knows this run only.
BugGuardThisRun(t, d) ==
  /\ pc = "pass"
  /\ ~Capped
  /\ t \notin seen
  /\ seen' = seen \cup {t}
  /\ ticker' = t
  /\ size' = d
  /\ request' = "sent"
  /\ pc' = "await"
  /\ UNCHANGED <<spent, trades, traded, placed, file, torn, recorded, accountVars>>

(* A candidate passes the caps and the duplicate guard: it is marked seen, *)
(* repriced, and its create_order is sent.                                 *)
Attempt(t, d) ==
  /\ pc = "pass"
  /\ ~Capped
  /\ t \notin traded \cup seen
  /\ seen' = seen \cup {t}
  /\ ticker' = t
  /\ size' = d
  /\ request' = "sent"
  /\ pc' = "await"
  /\ UNCHANGED <<spent, trades, traded, placed, file, torn, recorded, accountVars>>

(* The exchange accepts the order, or refuses it.  A request the process   *)
(* has given up may be accepted later; for the account that is the same as *)
(* accepting it just before.                                               *)
Accept ==
  /\ request = "sent"
  /\ request' = "accepted"
  /\ bought' = [bought EXCEPT ![ticker] = @ + 1]
  /\ committed' = committed + size
  /\ UNCHANGED <<pc, spent, trades, traded, seen, placed, ticker, size, file, torn,
                 recorded, lost>>

Refuse ==
  /\ request = "sent"
  /\ request' = "refused"
  /\ UNCHANGED <<pc, spent, trades, traded, seen, placed, ticker, size, file, torn,
                 recorded, accountVars>>

(* create_order returns: the session in memory counts the trade.           *)
OrderPlaced ==
  /\ pc = "await"
  /\ request = "accepted"
  /\ trades' = trades + 1
  /\ spent' = spent + size
  /\ traded' = traded \cup {ticker}
  /\ placed' = placed + 1
  /\ request' = "none"
  /\ pc' = "save"
  /\ UNCHANGED <<seen, ticker, size, file, torn, recorded, accountVars>>

(* create_order raises, whatever became of the order: order_failed, and    *)
(* nothing is counted.                                                     *)
OrderFails ==
  /\ pc = "await"
  /\ IF request = "accepted" THEN LoseOrder ELSE UNCHANGED lost
  /\ request' = "none"
  /\ pc' = "pass"
  /\ UNCHANGED <<spent, trades, traded, seen, placed, ticker, size, file, torn,
                 recorded, bought, committed>>

\* Mutant: the session file is not rewritten after the order.
BugSaveLater ==
  /\ pc = "save"
  /\ pc' = "record"
  /\ UNCHANGED <<spent, trades, traded, seen, placed, ticker, size, request, file, torn,
                 recorded, accountVars>>

(* _save_session.                                                          *)
Save ==
  /\ pc = "save"
  /\ file' = [spent |-> spent, trades |-> trades, traded |-> traded]
  /\ pc' = "record"
  /\ UNCHANGED <<spent, trades, traded, seen, placed, ticker, size, request, torn,
                 recorded, accountVars>>

(* _record_executed_trade, of which a failure is only printed.             *)
Record ==
  /\ pc = "record"
  /\ recorded' \in {recorded, recorded \cup {ticker}}
  /\ pc' = "pass"
  /\ UNCHANGED <<spent, trades, traded, seen, placed, ticker, size, request, file, torn,
                 accountVars>>

(* The process dies.  In the middle of _save_session, which truncates the  *)
(* file and then writes it, it leaves a file that cannot be read.          *)
Crash ==
  /\ pc # "idle"
  /\ ProcessEnds
  /\ IF request = "accepted" \/ pc = "save" THEN LoseOrder ELSE UNCHANGED lost
  /\ torn' \in BOOLEAN
  /\ torn' => pc = "save"
  /\ UNCHANGED <<file, recorded, bought, committed>>

Next ==
  \/ StartCycle \/ EndCycle
  \/ \E t \in Tickers, d \in Sizes : Attempt(t, d)
  \/ Accept \/ Refuse
  \/ OrderPlaced \/ OrderFails \/ Save \/ Record
  \/ Crash

Spec == Init /\ [][Next]_vars

---------------------------------------------------------------------------
(* Properties.                                                             *)

(* The dollar cap holds for the account up to one trade: over the crashes  *)
(* and restarts of a night, the orders the exchange accepted come to less  *)
(* than DollarCap + MaxTrade, those apart whose answer or whose save was   *)
(* lost.                                                                   *)
AccountWithinCap == committed - lost.dollars < DollarCap + MaxTrade

(* A ticker is bought once in a night, over all cycles, unless an accepted *)
(* order of it was lost to the session.                                    *)
BoughtOnce == \A t \in Tickers : bought[t] > 1 => t \in lost.tickers

(* What was recorded as executed is counted by the session file, so a      *)
(* later cycle cannot buy it again.                                        *)
RecordedAreCounted == recorded \subseteq file.traded

(* The inductive invariant. *)

\* Memory and file agree, except between an answer and its save.
FileInv ==
  /\ pc \in {"pass", "await", "record"} =>
       spent = file.spent /\ trades = file.trades /\ traded = file.traded
  /\ pc = "save" =>
       /\ spent = file.spent + size /\ trades = file.trades + 1
       /\ traded = file.traded \cup {ticker}
       /\ file.spent < DollarCap /\ ticker \notin file.traded
  /\ pc = "await" => file.spent < DollarCap /\ ticker \notin file.traded
  /\ pc = "record" => ticker \in file.traded
  /\ request # "none" <=> pc = "await"
  /\ file.spent < DollarCap + MaxTrade

\* Orders accepted and not yet in the file: the one under way, and the lost.
InFlight == request = "accepted" \/ pc = "save"

MoneyInv == committed = file.spent + lost.dollars + (IF InFlight THEN size ELSE 0)

BoughtInv ==
  \A t \in Tickers \ lost.tickers :
    bought[t] = IF t \in file.traded \/ (InFlight /\ t = ticker) THEN 1 ELSE 0

IInv == TypeOK /\ FileInv /\ MoneyInv /\ BoughtInv /\ RecordedAreCounted

(* The session file implements its abstract budget: whatever crashes and   *)
(* refusals do, it only ever grows by one new ticker, while under the cap. *)
Budget == INSTANCE SessionBudget WITH spent <- file.spent, traded <- file.traded

BudgetSpec == Budget!Spec

(* "no double-down" (scripts/night_execute.py:2): a ticker is bought at    *)
(* most once.                                                              *)
NoDoubleDown == \A t \in Tickers : bought[t] <= 1
=============================================================================
