------------------------------ MODULE Exchange ------------------------------
(***************************************************************************)
(* The Kalshi account and its order book, as far as the exit programs      *)
(* (scripts/exit_monitor.py, scripts/evaluate_portfolio.py) see it through *)
(* kalshi_trader/client.py.  The exchange itself is not in the repository: *)
(* what it answers is modelled from how the scripts use the answers.       *)
(*                                                                         *)
(* A position is one signed number of contracts (position_fp): positive is *)
(* a YES position, negative a NO position.  A sell order carries the same  *)
(* sign as the position it closes, so `qty > 0' is (side "yes", count qty) *)
(* and `qty < 0' is (side "no", count -qty), and a fill of f contracts     *)
(* moves the position by -f.                                               *)
(*                                                                         *)
(* Contracts are whole.  (parse_fixed_point admits fractions; the exit     *)
(* programs round them differently, which is outside this module.)         *)
(***************************************************************************)
EXTENDS Integers

CONSTANTS
  Tickers,       \* the markets of the account
  OrderIds,      \* bound: sell orders the exchange has at one time
  MaxQuantity,   \* bound: contracts held of one ticker
  NoTicker,      \* the ticker of an unused order slot
  NoSlot         \* of a program that awaits no order

ASSUME QuantityAssumption == MaxQuantity \in Nat \ {0}
ASSUME NoSlotAssumption == NoSlot \notin OrderIds

VARIABLES
  held,    \* [Tickers -> Int]: position_fp
  orders,  \* [OrderIds -> Order]: sell orders of the account
  market   \* [Tickers -> Signal]: what EXIT_CHECKS says of the exchange's book

exchangeVars == <<held, orders, market>>

\* The verdict of EXIT_CHECKS on one order book: no check fires, or one does.
Signal == {"hold", "exit"}

OrderState == {"free", "sent", "live", "filled", "rejected"}

\* `open' is the HTTP request that created the order: TRUE while the client
\* still waits for the answer of create_order.
Order == [state : OrderState, ticker : Tickers \cup {NoTicker}, qty : Int,
          open : BOOLEAN]

NoOrder == [state |-> "free", ticker |-> NoTicker, qty |-> 0, open |-> FALSE]

Quantities == (-MaxQuantity .. MaxQuantity) \ {0}

\* A sell of q (signed) is covered by a position of h: it closes at most h.
Covered(q, h) == \/ q > 0 /\ q <= h
                 \/ q < 0 /\ h <= q

Live(i) == orders[i].state = "live"

\* An exit that is on the book, or may get there.
Outstanding(i) == orders[i].state \in {"sent", "live"}

\* get_orders(status="resting"), as both scripts use it: tickers with a
\* resting sell order.
RestingSellTickers == {orders[i].ticker : i \in {j \in OrderIds : Live(j)}}

\* An order nobody waits for and that can do nothing any more is forgotten.
Retire(o) == IF o.open \/ o.state \in {"sent", "live"} THEN o ELSE NoOrder

Closed(o)    == Retire([o EXCEPT !.open = FALSE])
Refused(o)   == Retire([o EXCEPT !.state = "rejected"])
Filled(o, f) == IF f = o.qty THEN Retire([o EXCEPT !.state = "filled"])
                             ELSE [o EXCEPT !.qty = o.qty - f]

---------------------------------------------------------------------------
(* KalshiClient.create_order, the part before the answer: the request of a *)
(* sell of q contracts leaves through slot i.                              *)
SendSell(i, t, q) ==
  /\ orders[i].state = "free"
  /\ orders' = [orders EXCEPT ![i] = [state |-> "sent", ticker |-> t,
                                      qty |-> q, open |-> TRUE]]

(* The client stops waiting: it has read the answer, given up after its    *)
(* timeout, or died.                                                       *)
CloseRequest(i) ==
  orders' = [orders EXCEPT ![i] = Closed(orders[i])]

\* The request reaches the exchange, which puts the order on its book ...
Land(i) ==
  /\ orders[i].state = "sent"
  /\ orders' = [orders EXCEPT ![i].state = "live"]
  /\ UNCHANGED <<held, market>>

\* ... or refuses it (or create_order raises before the request leaves:
\* the kill switch, six 429 answers), or it is lost on the way.
Refuse(i) ==
  /\ orders[i].state = "sent"
  /\ orders' = [orders EXCEPT ![i] = Refused(orders[i])]
  /\ UNCHANGED <<held, market>>

\* A live order trades f of its contracts.
Fill(i, f) ==
  /\ Live(i)
  /\ Covered(f, orders[i].qty)
  /\ held' = [held EXCEPT ![orders[i].ticker] = @ - f]
  /\ orders' = [orders EXCEPT ![i] = Filled(orders[i], f)]
  /\ UNCHANGED market

\* Mutant: an order is cancelled whatever its age.
BugCancelYoung(i) ==
  /\ Live(i)
  /\ orders' = [orders EXCEPT ![i] = NoOrder]
  /\ UNCHANGED <<held, market>>

(* cancel_stale_orders.run: a resting order older than its threshold is    *)
(* cancelled, whoever placed it.  The threshold (10 minutes) is longer than *)
(* any client waits for an answer.                                         *)
CancelStale(i) ==
  /\ Live(i)
  /\ ~orders[i].open
  /\ orders' = [orders EXCEPT ![i] = NoOrder]
  /\ UNCHANGED <<held, market>>

\* The buying programs open a position or add to it (never against it).
Enter(t, q) ==
  /\ \/ held[t] = 0
     \/ held[t] > 0 /\ q > held[t]
     \/ held[t] < 0 /\ q < held[t]
  /\ held' = [held EXCEPT ![t] = q]
  /\ UNCHANGED <<orders, market>>

\* Prices move across an exit threshold, one way or the other.
MarketMoves(t) ==
  /\ market' = [market EXCEPT ![t] = IF @ = "hold" THEN "exit" ELSE "hold"]
  /\ UNCHANGED <<held, orders>>

ExchangeInit ==
  /\ held \in [Tickers -> -MaxQuantity .. MaxQuantity]
  /\ orders = [i \in OrderIds |-> NoOrder]
  /\ market \in [Tickers -> Signal]

ExchangeTypeOK ==
  /\ held \in [Tickers -> Int]
  /\ orders \in [OrderIds -> Order]
  /\ market \in [Tickers -> Signal]
  /\ \A i \in OrderIds : /\ orders[i].state # "free" => orders[i].ticker \in Tickers
                         /\ orders[i].open => orders[i].state # "free"
=============================================================================
