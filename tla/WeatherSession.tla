--------------------------- MODULE WeatherSession ---------------------------
(***************************************************************************)
(* scripts/auto_execute_weather.py: it walks a slate of ideas and, for     *)
(* each that its filters let through, runs scripts/place_order.py with an  *)
(* amount of dollars and "buy <side> no fees"; the session file counts the *)
(* amounts of the commands that succeeded.                                 *)
(*                                                                         *)
(* An idea is a ticker, a side and a suggested size; the slate is any      *)
(* sequence of ideas.  The category and price filters depend on the idea   *)
(* alone and are left out, and so is --dry-run.  The instruction is parsed *)
(* by a language model: it is taken to give action "buy", the side that    *)
(* was asked for, and the default pricing.  Money is in cents.             *)
(***************************************************************************)
EXTENDS OrderPricing

CONSTANTS
  Tickers,      \* the markets of the slates
  Suggested,    \* suggested_size_dollars, in cents
  Books,        \* <<bid, ask>> place_order may find
  SessionCap,   \* --session-cap, in cents
  MaxPerTrade,  \* --max-per-trade, in cents
  NoTicker      \* the ticker of no order

ASSUME MoneyAssumption ==
  SessionCap \in Nat /\ MaxPerTrade \in Nat /\ Suggested \subseteq Nat
ASSUME BooksAssumption ==
  \A b \in Books : b[1] \in 1 .. 98 /\ b[2] \in 2 .. 99 /\ b[1] < b[2]
ASSUME NoTickerAssumption == NoTicker \notin Tickers

VARIABLES
  pc,        \* "idle", "slate", "command" (place_order runs), "save"
  spent,     \* session["dollars_spent"], in memory
  executed,  \* session["executed"], in memory
  order,     \* the order of the command that runs
  request,   \* its create_order: "none", "sent", "accepted", "refused"
  file,      \* the session file: its last complete content
  torn,      \* BOOLEAN: the last write of it was cut short
  bought,    \* [Tickers -> Nat]: orders the exchange accepted
  paid,      \* cents those orders cost when filled, per side
  lost       \* history: accepted orders whose command failed or whose save
             \* did not come: [amount, tickers]

accountVars == <<bought, paid, lost>>
vars == <<pc, spent, executed, order, request, file, torn, accountVars>>

\* round() of Python: a half goes to the even dollar.
RoundDollars(c) ==
  100 * (IF c % 100 > 50 \/ (c % 100 = 50 /\ (c \div 100) % 2 = 1)
           THEN c \div 100 + 1 ELSE c \div 100)

Least(a, b) == IF a <= b THEN a ELSE b

\* Mutant: what remains of the cap does not bound the amount.
BugAmountOverCap(suggested, remaining) ==
  LET dollars == RoundDollars(Least(MaxPerTrade, suggested))
  IN  IF dollars < 100 THEN 100 ELSE dollars

\* max(1, round(min(max_per_trade, suggested, remaining)))
Amount(suggested, remaining) ==
  LET dollars == RoundDollars(Least(MaxPerTrade, Least(suggested, remaining)))
  IN  IF dollars < 100 THEN 100 ELSE dollars

NoOrder == [ticker |-> NoTicker, side |-> "yes", amount |-> 0, price |-> 1, count |-> 0,
            bid |-> 1, ask |-> 2]

OrderCost(o) == Cost(o.side, o.price, o.count)

InFlight == request = "accepted" \/ pc = "save"

TypeOK ==
  /\ pc \in {"idle", "slate", "command", "save"}
  /\ spent \in Nat
  /\ executed \subseteq Tickers
  /\ order \in [ticker : Tickers \cup {NoTicker}, side : {"yes", "no"}, amount : Nat,
                price : 1 .. 99, count : Nat, bid : 1 .. 98, ask : 2 .. 99]
  /\ request \in {"none", "sent", "accepted", "refused"}
  /\ pc \in {"command", "save"} \/ request # "none" => order.ticker \in Tickers
  /\ file \in [spent : Nat, executed : SUBSET Tickers]
  /\ torn \in BOOLEAN
  /\ bought \in [Tickers -> Nat]
  /\ paid \in [{"yes", "no"} -> Nat]
  /\ lost \in [amount : Nat, tickers : SUBSET Tickers]

Init ==
  /\ pc = "idle"
  /\ spent = 0 /\ executed = {}
  /\ order = NoOrder
  /\ request = "none"
  /\ file = [spent |-> 0, executed |-> {}]
  /\ torn = FALSE
  /\ bought = [t \in Tickers |-> 0]
  /\ paid = [s \in {"yes", "no"} |-> 0]
  /\ lost = [amount |-> 0, tickers |-> {}]

LoseOrder == lost' = [amount |-> lost.amount + order.amount,
                      tickers |-> lost.tickers \cup {order.ticker}]

---------------------------------------------------------------------------
(* main() starts on a slate; load_session raises on a file cut short.      *)
Begin ==
  /\ pc = "idle"
  /\ ~torn
  /\ spent' = file.spent
  /\ executed' = file.executed
  /\ pc' = "slate"
  /\ UNCHANGED <<order, request, file, torn, accountVars>>

(* The slate is used up, or the session cap is reached.                    *)
End ==
  /\ pc = "slate"
  /\ pc' = "idle"
  /\ spent' = 0 /\ executed' = {} /\ order' = NoOrder
  /\ UNCHANGED <<request, file, torn, accountVars>>

(* An idea passes the duplicate guard and the cap: place_order reads the   *)
(* book, prices and sizes the order, and sends it.                         *)
RunCommand(t, side, suggested, book) ==
  LET remaining == SessionCap - spent
      amount    == Amount(suggested, remaining)
      price     == LimitPrice(book[1], book[2], "buy", "midmarket_maker")
      count     == Contracts(amount, price)
  IN  /\ pc = "slate"
      /\ t \notin executed
      /\ remaining >= 100
      /\ count >= 1
      /\ order' = [ticker |-> t, side |-> side, amount |-> amount, price |-> price,
                   count |-> count, bid |-> book[1], ask |-> book[2]]
      /\ request' = "sent"
      /\ pc' = "command"
      /\ UNCHANGED <<spent, executed, file, torn, accountVars>>

(* The exchange accepts the order or refuses it.                           *)
Accept ==
  /\ request = "sent"
  /\ request' = "accepted"
  /\ bought' = [bought EXCEPT ![order.ticker] = @ + 1]
  /\ paid' = [paid EXCEPT ![order.side] = @ + OrderCost(order)]
  /\ UNCHANGED <<pc, spent, executed, order, file, torn, lost>>

Refuse ==
  /\ request = "sent"
  /\ request' = "refused"
  /\ UNCHANGED <<pc, spent, executed, order, file, torn, accountVars>>

\* Mutant: the ticker is not appended to the executed ones.
BugForgetExecuted ==
  /\ pc = "command"
  /\ request = "accepted"
  /\ spent' = spent + order.amount
  /\ request' = "none"
  /\ pc' = "save"
  /\ UNCHANGED <<executed, order, file, torn, accountVars>>

(* place_order exits 0: the amount is counted.                             *)
CommandSucceeds ==
  /\ pc = "command"
  /\ request = "accepted"
  /\ spent' = spent + order.amount
  /\ executed' = executed \cup {order.ticker}
  /\ request' = "none"
  /\ pc' = "save"
  /\ UNCHANGED <<order, file, torn, accountVars>>

\* Mutant: the request outlives the command that failed.
BugLeaveRequest ==
  /\ pc = "command"
  /\ IF request = "accepted" THEN LoseOrder ELSE UNCHANGED lost
  /\ order' = NoOrder
  /\ pc' = "slate"
  /\ UNCHANGED <<spent, executed, request, file, torn, bought, paid>>

(* place_order fails, whatever became of its order: nothing is counted.    *)
CommandFails ==
  /\ pc = "command"
  /\ IF request = "accepted" THEN LoseOrder ELSE UNCHANGED lost
  /\ request' = "none"
  /\ order' = NoOrder
  /\ pc' = "slate"
  /\ UNCHANGED <<spent, executed, file, torn, bought, paid>>

(* save_session.                                                           *)
Save ==
  /\ pc = "save"
  /\ file' = [spent |-> spent, executed |-> executed]
  /\ order' = NoOrder
  /\ pc' = "slate"
  /\ UNCHANGED <<spent, executed, request, torn, accountVars>>

(* The process and its command die; a write of the file may be cut short.  *)
Crash ==
  /\ pc # "idle"
  /\ IF InFlight THEN LoseOrder ELSE UNCHANGED lost
  /\ torn' \in BOOLEAN
  /\ torn' => pc = "save"
  /\ pc' = "idle"
  /\ spent' = 0 /\ executed' = {} /\ order' = NoOrder
  /\ request' = "none"
  /\ UNCHANGED <<file, bought, paid>>

Next ==
  \/ Begin \/ End
  \/ \E t \in Tickers, side \in {"yes", "no"}, s \in Suggested, b \in Books :
       RunCommand(t, side, s, b)
  \/ Accept \/ Refuse \/ CommandSucceeds \/ CommandFails \/ Save \/ Crash

Spec == Init /\ [][Next]_vars

---------------------------------------------------------------------------
(* Properties.                                                             *)

(* The session never counts more than its cap, by more than the half       *)
(* dollar that rounding the remainder can add.                             *)
SpentWithinCap ==
  /\ file.spent <= SessionCap + 50
  /\ SessionCap % 100 = 0 => file.spent <= SessionCap

(* The YES orders of all runs cost at most what the session counts, the    *)
(* order under way and the lost ones: a fill is never dearer than counted. *)
YesIsCounted ==
  paid["yes"] <= file.spent + lost.amount + (IF InFlight THEN order.amount ELSE 0)

(* A ticker is bought once over all runs of the session, unless an         *)
(* accepted order of it was lost.                                          *)
BoughtOnce == \A t \in Tickers : bought[t] > 1 => t \in lost.tickers

\* The most one command may spend: --max-per-trade in whole dollars, or one.
LargestAmount == Amount(MaxPerTrade, MaxPerTrade)

(* The session file implements the budget that the night's session file    *)
(* does: whatever commands fail and runs die, it only ever grows by one    *)
(* new ticker, by at most the largest amount, while a dollar is left.      *)
SessionFile == INSTANCE SessionBudget
                 WITH spent <- file.spent, traded <- file.executed,
                      DollarCap <- SessionCap - 99, MaxTrade <- LargestAmount

SessionFileSpec == SessionFile!Spec

(* "Max $25 per trade, configurable" (auto_execute_weather.py, line 8): no *)
(* order costs more than MaxPerTrade.                                      *)
NoTradeOverMax == request = "accepted" => OrderCost(order) <= MaxPerTrade
=============================================================================
