------------------------------ MODULE ExitProofs ------------------------------
(***************************************************************************)
(* The programs that close positions, for any tickers, order slots and     *)
(* quantities: what the operators of Exchange do to one order and its own  *)
(* steps to the types, the exit monitor, and the passes of the portfolio   *)
(* evaluator.                                                              *)
(***************************************************************************)
EXTENDS ExitMonitor, PortfolioEvaluator, TLAPS

---------------------------------------------------------------------------
(* Exchange: one order, and the steps that the exchange takes.             *)

USE DEF Signal, OrderState, Order, NoOrder

(* What happens to one order, field by field.                              *)
LEMMA ClosedFacts ==
  ASSUME NEW o \in Order
  PROVE  /\ Closed(o) \in Order
         /\ ~Closed(o).open
         /\ \/ /\ o.state \in {"sent", "live"}
               /\ Closed(o).state = o.state
               /\ Closed(o).ticker = o.ticker
               /\ Closed(o).qty = o.qty
            \/ /\ o.state \notin {"sent", "live"}
               /\ Closed(o).state = "free"
<1> DEFINE c == [o EXCEPT !.open = FALSE]
<1>1. c \in Order /\ ~c.open /\ c.state = o.state /\ c.ticker = o.ticker /\ c.qty = o.qty
  OBVIOUS
<1> HIDE DEF c
<1>2. Closed(o) = IF c.state \in {"sent", "live"} THEN c ELSE NoOrder
  BY <1>1 DEF Closed, Retire, c
<1>3. QED
  BY <1>1, <1>2

(* A refusal frees the slot unless somebody still waits for the answer.    *)
LEMMA RefusedFacts ==
  ASSUME NEW o \in Order
  PROVE  /\ Refused(o) \in Order
         /\ Refused(o).open <=> o.open
         /\ \/ /\ o.open
               /\ Refused(o).state = "rejected"
               /\ Refused(o).ticker = o.ticker
            \/ ~o.open /\ Refused(o).state = "free"
<1> DEFINE c == [o EXCEPT !.state = "rejected"]
<1>1. c \in Order /\ c.state = "rejected" /\ c.ticker = o.ticker /\ (c.open <=> o.open)
  OBVIOUS
<1> HIDE DEF c
<1>2. Refused(o) = IF c.open THEN c ELSE NoOrder
  BY <1>1 DEF Refused, Retire, c
<1>3. QED
  BY <1>1, <1>2

(* A fill leaves the rest of the order, or an answer to read, or nothing.   *)
LEMMA FilledFacts ==
  ASSUME NEW o \in Order, NEW f \in Int
  PROVE  /\ Filled(o, f) \in Order
         /\ Filled(o, f).open <=> o.open
         /\ \/ /\ f # o.qty
               /\ Filled(o, f).state = o.state
               /\ Filled(o, f).ticker = o.ticker
               /\ Filled(o, f).qty = o.qty - f
            \/ /\ f = o.qty /\ o.open
               /\ Filled(o, f).state = "filled"
               /\ Filled(o, f).ticker = o.ticker
            \/ f = o.qty /\ ~o.open /\ Filled(o, f).state = "free"
<1>1. CASE f # o.qty
  BY <1>1 DEF Filled
<1>2. CASE f = o.qty
  <2> DEFINE c == [o EXCEPT !.state = "filled"]
  <2>1. c \in Order /\ c.state = "filled" /\ c.ticker = o.ticker /\ (c.open <=> o.open)
    OBVIOUS
  <2> HIDE DEF c
  <2>2. Filled(o, f) = IF c.open THEN c ELSE NoOrder
    BY <1>2, <2>1 DEF Filled, Retire, c
  <2>3. QED
    BY <1>2, <2>1, <2>2
<1>3. QED
  BY <1>1, <1>2

(* A client that stops waiting for a slot leaves every slot well formed.   *)
LEMMA CloseRequestType ==
  ASSUME ExchangeTypeOK, NEW i \in OrderIds, CloseRequest(i)
  PROVE  /\ orders' \in [OrderIds -> Order]
         /\ \A j \in OrderIds : /\ orders'[j].state # "free" => orders'[j].ticker \in Tickers
                                /\ orders'[j].open => orders'[j].state # "free"
<1>1. orders[i] \in Order
  BY DEF ExchangeTypeOK
<1>2. QED
  BY <1>1, ClosedFacts DEF CloseRequest, ExchangeTypeOK

(* What is left of a covered sale after a partial fill is covered still.    *)
LEMMA CoveredRest ==
  ASSUME NEW q \in Int, NEW h \in Int, NEW f \in Int, Covered(q, h), Covered(f, q), f # q
  PROVE  Covered(q - f, h - f)
BY DEF Covered

(* A step of the exchange itself, a fill apart, neither opens nor closes a *)
(* request.                                                                *)
LEMMA QuietTypeStep ==
  ASSUME ExchangeTypeOK,
         \/ \E i \in OrderIds : Land(i) \/ Refuse(i) \/ CancelStale(i)
         \/ \E t \in Tickers : MarketMoves(t) \/ \E q \in Quantities : Enter(t, q)
  PROVE  ExchangeTypeOK' /\ \A j \in OrderIds : orders'[j].open <=> orders[j].open
<1> DEFINE Goal == ExchangeTypeOK' /\ \A j \in OrderIds : orders'[j].open <=> orders[j].open
<1> USE DEF ExchangeTypeOK
<1>1. ASSUME NEW i \in OrderIds, Land(i) PROVE Goal
  BY <1>1 DEF Land
<1>2. ASSUME NEW i \in OrderIds, Refuse(i) PROVE Goal
  <2>1. orders[i] \in Order
    OBVIOUS
  <2>2. QED
    BY <1>2, <2>1, RefusedFacts DEF Refuse
<1>3. ASSUME NEW i \in OrderIds, CancelStale(i) PROVE Goal
  BY <1>3 DEF CancelStale
<1>4. ASSUME NEW t \in Tickers, MarketMoves(t) PROVE Goal
  BY <1>4 DEF MarketMoves
<1>5. ASSUME NEW t \in Tickers, NEW q \in Quantities, Enter(t, q) PROVE Goal
  BY <1>5, QuantityAssumption DEF Enter, Quantities
<1>6. QED
  BY <1>1, <1>2, <1>3, <1>4, <1>5

(* What a fill of f contracts does, field by field.                        *)
FillEffect(i, f) ==
  /\ f \in Int /\ orders[i].qty \in Int /\ orders[i].ticker \in Tickers
  /\ orders[i].state = "live" /\ Covered(f, orders[i].qty)
  /\ orders'[i].open <=> orders[i].open
  /\ \/ /\ orders'[i].state = "live" /\ orders'[i].ticker = orders[i].ticker
        /\ f # orders[i].qty /\ orders'[i].qty = orders[i].qty - f
     \/ /\ orders'[i].state = "filled" /\ orders'[i].ticker = orders[i].ticker
        /\ orders[i].open
     \/ orders'[i].state = "free" /\ ~orders[i].open
  /\ \A j \in OrderIds \ {i} : orders'[j] = orders[j]
  /\ held'[orders[i].ticker] = held[orders[i].ticker] - f
  /\ \A t \in Tickers \ {orders[i].ticker} : held'[t] = held[t]

(* A fill keeps the types and moves neither another order nor another      *)
(* position.                                                               *)
LEMMA FillFacts ==
  ASSUME ExchangeTypeOK, NEW i \in OrderIds, NEW f \in Quantities, Fill(i, f)
  PROVE  ExchangeTypeOK' /\ FillEffect(i, f)
<1> DEFINE o == orders[i]
<1> DEFINE p == Filled(orders[i], f)
<1>1. /\ o \in Order /\ f \in Int /\ o.qty \in Int
      /\ o.ticker \in Tickers /\ o.state = "live"
      /\ Covered(f, o.qty)
      /\ orders' = [orders EXCEPT ![i] = p]
      /\ held' = [held EXCEPT ![o.ticker] = held[o.ticker] - f]
      /\ UNCHANGED market
  BY DEF Fill, Live, Quantities, ExchangeTypeOK
<1>2. /\ p \in Order
      /\ p.open <=> o.open
      /\ \/ p.state = "live" /\ p.ticker = o.ticker /\ f # o.qty /\ p.qty = o.qty - f
         \/ p.state = "filled" /\ p.ticker = o.ticker /\ o.open
         \/ p.state = "free" /\ ~o.open
  <2>1. o \in Order /\ f \in Int /\ p = Filled(o, f) /\ o.state = "live"
    BY <1>1
  <2> HIDE DEF o, p
  <2>2. /\ Filled(o, f) \in Order
        /\ Filled(o, f).open <=> o.open
        /\ \/ /\ f # o.qty
              /\ Filled(o, f).state = o.state
              /\ Filled(o, f).ticker = o.ticker
              /\ Filled(o, f).qty = o.qty - f
           \/ /\ f = o.qty /\ o.open
              /\ Filled(o, f).state = "filled"
              /\ Filled(o, f).ticker = o.ticker
           \/ f = o.qty /\ ~o.open /\ Filled(o, f).state = "free"
    BY <2>1, FilledFacts, Zenon
  <2>3. QED
    BY <2>1, <2>2
<1>3. /\ \A j \in OrderIds \ {i} : orders'[j] = orders[j]
      /\ orders'[i] = p
      /\ orders' \in [OrderIds -> Order]
  BY <1>1, <1>2 DEF ExchangeTypeOK
<1>4. /\ held' \in [Tickers -> Int]
      /\ held'[o.ticker] = held[o.ticker] - f
      /\ \A t \in Tickers \ {o.ticker} : held'[t] = held[t]
  BY <1>1 DEF ExchangeTypeOK
<1> HIDE DEF p
<1>5. ExchangeTypeOK'
  <2>1. \A j \in OrderIds : /\ orders'[j].state # "free" => orders'[j].ticker \in Tickers
                            /\ orders'[j].open => orders'[j].state # "free"
    BY <1>1, <1>2, <1>3 DEF ExchangeTypeOK
  <2>2. QED
    BY <1>1, <1>3, <1>4, <2>1 DEF ExchangeTypeOK
<1>6. QED
  BY <1>1, <1>2, <1>3, <1>4, <1>5 DEF FillEffect

---------------------------------------------------------------------------
(* ExitMonitor: no ticker is sold twice.                                   *)

USE DEF Pc, WsTask, Book

(* The initial states are well typed.                                      *)
LEMMA TypeInit == Init => TypeOK
BY QuantityAssumption, NoSlotAssumption DEF Init, ExchangeInit, TypeOK, ExchangeTypeOK

(* Every step of the monitor, the feed and the exchange keeps the types.   *)
LEMMA TypeStep == TypeOK /\ [Next]_vars => TypeOK'
<1> SUFFICES ASSUME TypeOK, [Next]_vars PROVE TypeOK'
  OBVIOUS
<1> USE DEF TypeOK, ExchangeTypeOK, exchangeVars
<1>1. CASE Start
  BY <1>1 DEF Start
<1>2. CASE ReadPositions
  BY <1>2 DEF ReadPositions
<1>3. CASE ReadOrders
  BY <1>3 DEF ReadOrders, Metadata
<1>4. CASE RefreshFails
  <2>1. CASE startup
    BY <1>4, <2>1 DEF RefreshFails, Blank
  <2>2. CASE ~startup
    BY <1>4, <2>2 DEF RefreshFails
  <2>3. QED
    BY <2>1, <2>2
<1>5. CASE Resubscribe
  BY <1>5 DEF Resubscribe, Metadata
<1>6. ASSUME NEW t \in Tickers, SyncBook(t) PROVE TypeOK'
  <2>1. [book EXCEPT ![t] = market[t]] \in [Tickers -> Book]
    OBVIOUS
  <2>2. QED
    BY <1>6, <2>1 DEF SyncBook
<1>7. CASE DetectDeadFeed
  BY <1>7 DEF DetectDeadFeed, Metadata
<1>8. ASSUME NEW t \in Tickers, SkipTicker(t) PROVE TypeOK'
  BY <1>8 DEF SkipTicker
<1>9. ASSUME NEW t \in Tickers, TriggerExit(t) PROVE TypeOK'
  <2>1. PICK i \in OrderIds : SendSell(i, t, meta[t]) /\ awaiting' = i
    BY <1>9 DEF TriggerExit
  <2>2. QED
    BY <1>9, <2>1 DEF TriggerExit, SendSell
<1>10. CASE OrderPlaced
  BY <1>10, CloseRequestType DEF OrderPlaced
<1>11. CASE OrderRaises
  BY <1>11, CloseRequestType DEF OrderRaises
<1>12. CASE NextIteration
  BY <1>12 DEF NextIteration
<1>13. CASE Crash
  BY <1>13, CloseRequestType DEF Crash, Blank
<1>14. CASE FeedDies
  BY <1>14 DEF FeedDies
<1>15. ASSUME NEW t \in Tickers, FeedDelivers(t) PROVE TypeOK'
  BY <1>15 DEF FeedDelivers
<1>16. ASSUME ExchangeSteps PROVE TypeOK'
  <2> HIDE DEF ExchangeTypeOK
  <2>1. CASE \E i \in OrderIds, f \in Quantities : Fill(i, f)
    <3>1. PICK i \in OrderIds, f \in Quantities : Fill(i, f)
      BY <2>1
    <3>2. ExchangeTypeOK' /\ FillEffect(i, f)
      BY <3>1, FillFacts
    <3>3. \A j \in OrderIds : orders'[j].open <=> orders[j].open
      BY <3>2 DEF FillEffect
    <3>4. QED
      BY <1>16, <3>2, <3>3 DEF ExchangeSteps, monitorVars
  <2>2. CASE ~\E i \in OrderIds, f \in Quantities : Fill(i, f)
    BY <1>16, <2>2, QuietTypeStep DEF ExchangeSteps, monitorVars
  <2>3. QED
    BY <2>1, <2>2
<1>17. CASE UNCHANGED vars
  BY <1>17 DEF vars, monitorVars
<1>18. QED
  BY <1>1, <1>2, <1>3, <1>4, <1>5, <1>6, <1>7, <1>8, <1>9, <1>10, <1>11, <1>12, <1>13,
     <1>14, <1>15, <1>16, <1>17 DEF Next, Monitor, Refresh, Loop, Feed

(* Every variable keeps its type through every step of the system: the     *)
(* sets and tables of run() and the orders it sends stay well formed.      *)
THEOREM TypeCorrect == Spec => []TypeOK
BY TypeInit, TypeStep, PTL DEF Spec

(* Steps that leave the orders, the position and what decides a sale alone. *)
LEMMA FrameStep ==
  ASSUME IInv, TypeOK',
         UNCHANGED <<held, orders, pc, startup, meta, pending, fresh, awaiting, ambiguous>>,
         todo' \subseteq todo
  PROVE  IInv'
BY DEF IInv, RequestsInv, StartupInv, StartingUp, ExitsKnown, TodoHeld, SafeToSell,
     SafeToRetry,
       OneExitAtATime, ExitsCovered, Outstanding, Metadata

(* A monitor that is down, with no order of an earlier run, satisfies it.  *)
LEMMA InvInit == Init => IInv
<1> SUFFICES ASSUME Init PROVE IInv
  OBVIOUS
<1>1. TypeOK
  BY TypeInit
<1>2. QED
  BY <1>1, NoSlotAssumption
     DEF Init, ExchangeInit, IInv, RequestsInv, StartupInv, StartingUp, ExitsKnown,
          TodoHeld, SafeToSell,
         SafeToRetry, OneExitAtATime, ExitsCovered, Outstanding, Metadata

(* A refused, answered or abandoned request, a fill, a restart at any      *)
(* point: every step keeps the invariant.                                  *)
LEMMA InvStep == IInv /\ [Next]_vars => IInv'
<1> SUFFICES ASSUME IInv, [Next]_vars PROVE IInv'
  OBVIOUS
<1>0. TypeOK /\ TypeOK'
  BY TypeStep DEF IInv
<1> USE NoSlotAssumption DEF exchangeVars, Outstanding, Metadata, StartingUp, TypeOK,
     ExchangeTypeOK
<1>1. CASE Start
  <2>1. /\ RequestsInv' /\ StartupInv' /\ TodoHeld' /\ SafeToSell'
        /\ SafeToRetry' /\ OneExitAtATime' /\ ExitsCovered'
    BY <1>0, <1>1 DEF IInv, Start, RequestsInv, StartupInv, TodoHeld, SafeToSell, SafeToRetry,
       OneExitAtATime, ExitsCovered
  <2>2. ExitsKnown'
    BY <1>0, <1>1 DEF IInv, Start, RequestsInv, StartupInv, ExitsKnown
  <2>3. QED
    BY <1>0, <2>1, <2>2 DEF IInv
<1>2. CASE ReadPositions
  <2>1. RequestsInv' /\ StartupInv' /\ TodoHeld' /\ OneExitAtATime' /\ ExitsCovered'
    BY <1>0, <1>2 DEF IInv, ReadPositions, RequestsInv, StartupInv, TodoHeld, OneExitAtATime,
       ExitsCovered
  <2>2. ExitsKnown'
    BY <1>0, <1>2 DEF IInv, ReadPositions, RequestsInv, StartupInv, ExitsKnown, ExitsCovered,
       Covered
  <2>3. SafeToSell'
    BY <1>0, <1>2 DEF IInv, ReadPositions, RequestsInv, StartupInv, ExitsKnown, SafeToSell,
       ExitsCovered, Covered
  <2>4. SafeToRetry'
    BY <1>0, <1>2 DEF IInv, ReadPositions, SafeToRetry, RequestsInv
  <2>5. QED
    BY <1>0, <2>1, <2>2, <2>3, <2>4 DEF IInv
<1>3. CASE ReadOrders
  <2>1. /\ RequestsInv' /\ StartupInv' /\ TodoHeld' /\ SafeToSell'
        /\ SafeToRetry' /\ OneExitAtATime' /\ ExitsCovered'
    BY <1>0, <1>3 DEF IInv, ReadOrders, RestingSellTickers, Live, RequestsInv, StartupInv,
       TodoHeld, SafeToSell, SafeToRetry, OneExitAtATime, ExitsCovered
  <2>2. ExitsKnown'
    BY <1>0, <1>3 DEF IInv, ReadOrders, RestingSellTickers, Live, ExitsKnown, RequestsInv
  <2>3. QED
    BY <1>0, <2>1, <2>2 DEF IInv
<1>4. CASE RefreshFails
  <2>1. /\ RequestsInv' /\ StartupInv' /\ ExitsKnown' /\ TodoHeld'
        /\ SafeToSell' /\ OneExitAtATime' /\ ExitsCovered'
    BY <1>0, <1>4 DEF IInv, RefreshFails, Blank, RequestsInv, StartupInv, ExitsKnown, TodoHeld,
       SafeToSell, OneExitAtATime, ExitsCovered
  <2>2. SafeToRetry'
    BY <1>0, <1>4 DEF IInv, RefreshFails, Blank, SafeToRetry, RequestsInv
  <2>3. QED
    BY <1>0, <2>1, <2>2 DEF IInv
<1>5. CASE Resubscribe
  <2>1. /\ RequestsInv' /\ StartupInv' /\ ExitsKnown' /\ TodoHeld'
        /\ SafeToSell' /\ SafeToRetry' /\ OneExitAtATime' /\ ExitsCovered'
    BY <1>0, <1>5 DEF IInv, Resubscribe, RequestsInv, StartupInv, ExitsKnown, TodoHeld,
       SafeToSell, SafeToRetry, OneExitAtATime, ExitsCovered
  <2>2. QED
    BY <1>0, <2>1 DEF IInv
<1>6. CASE DetectDeadFeed
  <2>1. /\ RequestsInv' /\ StartupInv' /\ ExitsKnown' /\ TodoHeld'
        /\ SafeToSell' /\ SafeToRetry' /\ OneExitAtATime' /\ ExitsCovered'
    BY <1>0, <1>6 DEF IInv, DetectDeadFeed, RequestsInv, StartupInv, ExitsKnown, TodoHeld,
       SafeToSell, SafeToRetry, OneExitAtATime, ExitsCovered
  <2>2. QED
    BY <1>0, <2>1 DEF IInv
<1>7. CASE OrderPlaced
  <2>1. /\ RequestsInv' /\ StartupInv' /\ ExitsKnown' /\ TodoHeld'
        /\ SafeToSell' /\ SafeToRetry' /\ OneExitAtATime' /\ ExitsCovered'
    BY <1>0, <1>7, ClosedFacts DEF IInv, OrderPlaced, CloseRequest, RequestsInv, StartupInv,
       ExitsKnown, TodoHeld, SafeToSell, SafeToRetry, OneExitAtATime, ExitsCovered
  <2>2. QED
    BY <1>0, <2>1 DEF IInv
<1>8. CASE OrderRaises
  <2>1. /\ RequestsInv' /\ StartupInv' /\ TodoHeld'
        /\ SafeToRetry' /\ OneExitAtATime' /\ ExitsCovered'
    BY <1>0, <1>8, ClosedFacts DEF IInv, OrderRaises, CloseRequest, RequestsInv, StartupInv,
       TodoHeld, SafeToRetry, OneExitAtATime, ExitsCovered
  <2>2. ExitsKnown'
    BY <1>0, <1>8, ClosedFacts DEF IInv, OrderRaises, CloseRequest, ExitsKnown, RequestsInv,
       SafeToRetry, ExitsCovered, OneExitAtATime
  <2>3. SafeToSell'
    BY <1>0, <1>8, ClosedFacts DEF IInv, OrderRaises, CloseRequest, SafeToSell, SafeToRetry,
       ExitsCovered, OneExitAtATime, RequestsInv
  <2>4. QED
    BY <1>0, <2>1, <2>2, <2>3 DEF IInv
<1>9. CASE NextIteration
  <2>1. /\ RequestsInv' /\ StartupInv' /\ ExitsKnown' /\ TodoHeld'
        /\ SafeToSell' /\ SafeToRetry' /\ OneExitAtATime' /\ ExitsCovered'
    BY <1>0, <1>9 DEF IInv, NextIteration, RequestsInv, StartupInv, ExitsKnown, TodoHeld,
       SafeToSell, SafeToRetry, OneExitAtATime, ExitsCovered
  <2>2. QED
    BY <1>0, <2>1 DEF IInv
<1>10. ASSUME NEW i \in OrderIds, Land(i), UNCHANGED monitorVars PROVE IInv'
  <2>1. /\ RequestsInv' /\ StartupInv' /\ ExitsKnown' /\ TodoHeld'
        /\ SafeToSell' /\ SafeToRetry' /\ OneExitAtATime' /\ ExitsCovered'
    BY <1>0, <1>10 DEF IInv, Land, monitorVars, RequestsInv, StartupInv, ExitsKnown, TodoHeld,
       SafeToSell, SafeToRetry, OneExitAtATime, ExitsCovered
  <2>2. QED
    BY <1>0, <2>1 DEF IInv
<1>11. ASSUME NEW i \in OrderIds, Refuse(i), UNCHANGED monitorVars PROVE IInv'
  <2>1. /\ RequestsInv' /\ StartupInv' /\ ExitsKnown' /\ TodoHeld'
        /\ SafeToSell' /\ SafeToRetry' /\ OneExitAtATime' /\ ExitsCovered'
    BY <1>0, <1>11, RefusedFacts DEF IInv, Refuse, monitorVars, RequestsInv, StartupInv,
       ExitsKnown, TodoHeld, SafeToSell, SafeToRetry, OneExitAtATime, ExitsCovered
  <2>2. QED
    BY <1>0, <2>1 DEF IInv
<1>12. ASSUME NEW i \in OrderIds, CancelStale(i), UNCHANGED monitorVars PROVE IInv'
  <2>1. /\ RequestsInv' /\ StartupInv' /\ ExitsKnown' /\ TodoHeld'
        /\ SafeToSell' /\ SafeToRetry' /\ OneExitAtATime' /\ ExitsCovered'
    BY <1>0, <1>12 DEF IInv, CancelStale, Live, monitorVars, RequestsInv, StartupInv,
       ExitsKnown, TodoHeld, SafeToSell, SafeToRetry, OneExitAtATime, ExitsCovered
  <2>2. QED
    BY <1>0, <2>1 DEF IInv
<1>13. ASSUME NEW t \in Tickers, NEW q \in Quantities, Enter(t, q), UNCHANGED monitorVars
      PROVE IInv'
  <2>1. /\ RequestsInv' /\ StartupInv' /\ ExitsKnown' /\ TodoHeld'
        /\ SafeToSell' /\ SafeToRetry' /\ OneExitAtATime' /\ ExitsCovered'
    BY <1>0, <1>13 DEF IInv, Enter, monitorVars, Covered, Quantities, RequestsInv, StartupInv,
       ExitsKnown, TodoHeld, SafeToSell, SafeToRetry, OneExitAtATime, ExitsCovered
  <2>2. QED
    BY <1>0, <2>1 DEF IInv
<1>14. ASSUME NEW t \in Tickers, TriggerExit(t)
       PROVE  IInv'
  <2>1. PICK s \in OrderIds : SendSell(s, t, meta[t]) /\ awaiting' = s
    BY <1>14 DEF TriggerExit
  <2>2. /\ orders[s].state = "free" /\ ~orders[s].open
        /\ orders'[s].state = "sent" /\ orders'[s].ticker = t /\ orders'[s].qty = meta[t]
        /\ orders'[s].open
        /\ \A j \in OrderIds \ {s} : orders'[j] = orders[j]
    BY <1>0, <2>1 DEF SendSell
  <2>3. /\ pc = "pass" /\ pc' = "await" /\ awaiting = NoSlot /\ ~StartingUp /\ ~startup
        /\ pending' = pending \cup {t}
        /\ UNCHANGED <<held, meta, fresh, startup, ambiguous>>
    BY <1>14 DEF TriggerExit, IInv, RequestsInv, StartupInv
  <2>4. t \notin pending /\ t \notin fresh /\ meta[t] # 0
    BY <1>0, <1>14 DEF TriggerExit, Spared, IInv, TodoHeld
  <2>5. t \notin ambiguous => Covered(meta[t], held[t])
    BY <2>4 DEF IInv, SafeToSell
  <2>6. t \notin ambiguous => \A j \in OrderIds : ~(Outstanding(j) /\ orders[j].ticker = t)
    BY <2>3, <2>4 DEF IInv, ExitsKnown
  <2>7. RequestsInv'
    BY <1>0, <2>1, <2>2, <2>3 DEF IInv, RequestsInv
  <2>8. StartupInv' /\ ExitsKnown' /\ TodoHeld' /\ SafeToSell'
    BY <1>0, <1>14, <2>2, <2>3 DEF IInv, TriggerExit, StartupInv, ExitsKnown, TodoHeld,
         SafeToSell
  <2>9. SafeToRetry'
    BY <1>0, <2>2, <2>3, <2>5, <2>6 DEF IInv, SafeToRetry, RequestsInv
  <2>10. OneExitAtATime' /\ ExitsCovered'
    BY <1>0, <2>2, <2>3, <2>5, <2>6 DEF IInv, OneExitAtATime, ExitsCovered
  <2>11. QED
    BY <1>0, <2>7, <2>8, <2>9, <2>10 DEF IInv
<1>15. CASE Crash
  <2>1. CASE pc # "await"
    BY <1>0, <1>15, <2>1 DEF Crash, Blank, IInv, RequestsInv, StartupInv, ExitsKnown, TodoHeld,
       SafeToSell, SafeToRetry, OneExitAtATime, ExitsCovered
  <2>2. CASE pc = "await"
    <3> DEFINE a == awaiting
    <3>1. a \in OrderIds /\ orders[a] \in Order /\ orders' = [orders EXCEPT ![a] = Closed(orders[a])]
      BY <1>0, <1>15, <2>2 DEF Crash, CloseRequest
    <3>2. /\ ~orders'[a].open
          /\ \/ orders'[a].state = "free"
             \/ /\ orders'[a].state = orders[a].state /\ orders[a].state \in {"sent", "live"}
                /\ orders'[a].ticker = orders[a].ticker /\ orders'[a].qty = orders[a].qty
          /\ \A j \in OrderIds \ {a} : orders'[j] = orders[j]
      BY <1>0, <3>1, ClosedFacts
    <3>3. /\ pc' = "down" /\ startup' /\ pending' = {} /\ awaiting' = NoSlot
          /\ \A t \in Tickers : meta'[t] = 0
          /\ held' = held
          /\ ambiguous \subseteq ambiguous'
          /\ orders[a].state = "sent" => orders[a].ticker \in ambiguous'
      BY <1>15, <2>2 DEF Crash, Blank
    <3> HIDE DEF a
    <3>4. a = awaiting
      BY DEF a
    <3>5. RequestsInv'
      BY <1>0, <3>1, <3>2, <3>3, <3>4 DEF IInv, RequestsInv
    <3>6. StartupInv' /\ ExitsKnown' /\ TodoHeld' /\ SafeToSell'
      BY <3>3 DEF StartupInv, ExitsKnown, TodoHeld, SafeToSell
    <3>7. SafeToRetry'
      BY <3>5, <3>3 DEF RequestsInv, SafeToRetry
    <3>8. OneExitAtATime' /\ ExitsCovered'
      BY <1>0, <3>1, <3>2, <3>3 DEF IInv, OneExitAtATime, ExitsCovered
    <3>9. QED
      BY <1>0, <3>5, <3>6, <3>7, <3>8 DEF IInv
  <2>3. QED
    BY <2>1, <2>2
<1>16. ASSUME NEW i \in OrderIds, NEW f \in Quantities, Fill(i, f), UNCHANGED monitorVars
       PROVE  IInv'
  <2> DEFINE u == orders[i].ticker
  <2>0. FillEffect(i, f)
    <3>1. ExchangeTypeOK
      BY <1>0
    <3>2. QED
      BY <1>16, <3>1, FillFacts
  <2>1. /\ f \in Int /\ orders[i].qty \in Int /\ u \in Tickers
        /\ orders[i].state = "live" /\ Covered(f, orders[i].qty)
    BY <2>0 DEF FillEffect
  <2>2. /\ orders'[i].open <=> orders[i].open
        /\ \/ /\ orders'[i].state = "live" /\ orders'[i].ticker = u /\ f # orders[i].qty
              /\ orders'[i].qty = orders[i].qty - f
           \/ orders'[i].state = "filled" /\ orders'[i].ticker = u /\ orders[i].open
           \/ orders'[i].state = "free" /\ ~orders[i].open
        /\ \A j \in OrderIds \ {i} : orders'[j] = orders[j]
    BY <2>0 DEF FillEffect
  <2>3. /\ \A t \in Tickers \ {u} : held'[t] = held[t]
        /\ held'[u] = held[u] - f /\ held[u] \in Int
    BY <1>0, <2>0, <2>1 DEF FillEffect
  <2>4. UNCHANGED <<pc, startup, meta, pending, fresh, todo, awaiting, ambiguous>>
    BY <1>16 DEF monitorVars
  <2> HIDE DEF u
  <2>5. u = orders[i].ticker
    BY DEF u
  <2>6. RequestsInv'
    BY <1>0, <2>1, <2>2, <2>4, <2>5 DEF IInv, RequestsInv
  <2>7. StartupInv' /\ ExitsKnown' /\ TodoHeld'
    BY <1>0, <2>1, <2>2, <2>4, <2>5 DEF IInv, StartupInv, ExitsKnown, TodoHeld
  <2>8. SafeToSell'
    <3>1. u \in ambiguous \/ u \in pending \/ (startup /\ Metadata \subseteq fresh) \/ meta[u] = 0
      BY <1>0, <2>1, <2>5 DEF IInv, ExitsKnown, StartupInv
    <3>2. QED
      BY <1>0, <2>1, <2>3, <2>4, <3>1 DEF IInv, SafeToSell
  <2>9. SafeToRetry'
    <3>1. \A j \in OrderIds : orders'[j].open <=> orders[j].open
      BY <2>2
    <3>2. orders'[i].state # "rejected"
      BY <2>2
    <3>3. QED
      BY <1>0, <2>1, <2>2, <2>3, <2>4, <2>5, <3>1, <3>2 DEF IInv, SafeToRetry
  <2>10. OneExitAtATime'
    BY <1>0, <2>1, <2>2, <2>4, <2>5 DEF IInv, OneExitAtATime
  <2>11. ExitsCovered'
    <3>1. ASSUME u \notin ambiguous
          PROVE  /\ Covered(orders[i].qty, held[u])
                 /\ Covered(orders[i].qty - f, held'[u]) \/ f = orders[i].qty
      <4>1. Covered(orders[i].qty, held[u])
        BY <2>1, <2>5, <3>1 DEF IInv, ExitsCovered
      <4>2. QED
        BY <4>1, <2>1, <2>3, CoveredRest
    <3>2. ASSUME u \notin ambiguous, NEW j \in OrderIds \ {i}, Outstanding(j)
          PROVE  orders[j].ticker # u
      BY <2>1, <2>5, <3>2 DEF IInv, OneExitAtATime
    <3>3. QED
      BY <1>0, <2>1, <2>2, <2>3, <2>4, <2>5, <3>1, <3>2 DEF IInv, ExitsCovered
  <2>12. QED
    BY <1>0, <2>6, <2>7, <2>8, <2>9, <2>10, <2>11 DEF IInv
<1>17. ASSUME UNCHANGED <<held, orders, pc, startup, meta, pending, fresh, awaiting, ambiguous>>,
              todo' \subseteq todo
       PROVE  IInv'
  BY <1>0, <1>17, FrameStep
<1>18. ASSUME NEW t \in Tickers, SyncBook(t) \/ SkipTicker(t) \/ FeedDelivers(t)
       PROVE  IInv'
  BY <1>17, <1>18 DEF SyncBook, SkipTicker, FeedDelivers
<1>19. CASE FeedDies \/ UNCHANGED vars
  BY <1>17, <1>19 DEF FeedDies, vars, monitorVars
<1>20. ASSUME NEW t \in Tickers, MarketMoves(t), UNCHANGED monitorVars
       PROVE  IInv'
  BY <1>17, <1>20 DEF MarketMoves, monitorVars
<1>21. CASE ExchangeSteps
  BY <1>10, <1>11, <1>12, <1>13, <1>16, <1>20, <1>21 DEF ExchangeSteps
<1>22. QED
  BY <1>1, <1>2, <1>3, <1>4, <1>5, <1>6, <1>7, <1>8, <1>9, <1>14, <1>15, <1>18, <1>19, <1>21
     DEF Next, Monitor, Refresh, Loop, Feed

(* The invariant holds over all crashes, restarts and interleavings.       *)
THEOREM InductiveInvariant == Spec => []IInv
BY InvInit, InvStep, PTL DEF Spec

(* One exit order at a time per ticker, whatever crashes, restarts, fills  *)
(* and refreshes do, as long as no exit request of it was given up.        *)
THEOREM NoSecondExit == Spec => []OneExitAtATime
<1>1. IInv => OneExitAtATime
  BY DEF IInv
<1>2. QED
  BY InductiveInvariant, <1>1, PTL

(* An exit order never sells more than is held, so it never opens a        *)
(* position on the other side: also after a restart that read the          *)
(* positions before, and the orders after, the previous exit filled.       *)
THEOREM NeverOversells == Spec => []ExitsCovered
<1>1. IInv => ExitsCovered
  BY DEF IInv
<1>2. QED
  BY InductiveInvariant, <1>1, PTL

---------------------------------------------------------------------------
(* PortfolioEvaluator: an exit is requested once, though a pass forgets.   *)

(* The one request that waits is the pass's own; an exit that has not       *)
(* reached the book waits, or was given up.                                 *)
EvRequests ==
  /\ evPc # "await" => evAwaiting = NoSlot
  /\ \A i \in OrderIds : orders[i].open => evPc = "await" /\ evAwaiting = i
  /\ \A i \in OrderIds :
       orders[i].state = "sent" => orders[i].open \/ orders[i].ticker \in givenUp

(* A pass sells only once both requests have answered.                      *)
EvGatheredFirst ==
  /\ evPc = "idle" => evTodo = {} /\ evGot = {}
  /\ evPc \in {"pass", "await"} => evGot = {"prices", "orders"}

(* A position the pass may still sell: it has not been visited, and no      *)
(* resting exit of it was read.                                             *)
MaySell(t) == t \in evTodo /\ ("orders" \in evGot => t \notin evResting)

(* Once the resting orders are read, such a position has no exit under way. *)
NoExitUnseen ==
  \A t \in Tickers \ givenUp :
    MaySell(t) /\ "orders" \in evGot
      => \A i \in OrderIds : ~(Outstanding(i) /\ orders[i].ticker = t)

(* The positions as they were read can be sold still, but for a sale        *)
(* between the two reads.                                                   *)
StillHeld ==
  \A t \in Tickers \ (givenUp \cup raced) : MaySell(t) => Covered(evMeta[t], held[t])

EvIInv ==
  /\ EvTypeOK
  /\ EvRequests
  /\ EvGatheredFirst
  /\ NoExitUnseen
  /\ StillHeld
  /\ OneExitAcrossPasses
  /\ OversellsOnlyInTheWindow

(* The initial states satisfy it.                                          *)
LEMMA EvInitInv == PassesInit => EvIInv
<1> SUFFICES ASSUME PassesInit PROVE EvIInv
  OBVIOUS
<1>1. EvTypeOK
  BY QuantityAssumption DEF PassesInit, ExchangeInit, EvInit, EvTypeOK, ExchangeTypeOK, EvPositions
<1>2. EvRequests /\ EvGatheredFirst /\ NoExitUnseen /\ StillHeld
  BY DEF PassesInit, ExchangeInit, EvInit, EvRequests, EvGatheredFirst, NoExitUnseen, StillHeld,
     MaySell
<1>3. OneExitAcrossPasses /\ OversellsOnlyInTheWindow
  BY DEF PassesInit, ExchangeInit, OneExitAcrossPasses, OversellsOnlyInTheWindow, Outstanding
<1>4. QED
  BY <1>1, <1>2, <1>3 DEF EvIInv

(* Every step of the passes and of the exchange keeps the types.           *)
LEMMA EvTypeStep == EvTypeOK /\ EvRequests /\ [PassesNext]_evVars => EvTypeOK'
<1> SUFFICES ASSUME EvTypeOK, EvRequests, [PassesNext]_evVars PROVE EvTypeOK'
  OBVIOUS
<1> USE DEF EvTypeOK, EvPositions, exchangeVars
<1>1. CASE EvReadPositions
  BY <1>1 DEF EvReadPositions, ExchangeTypeOK
<1>2. CASE EvReadPrices
  BY <1>2 DEF EvReadPrices, ExchangeTypeOK
<1>3. CASE EvReadOrders
  BY <1>3 DEF EvReadOrders, RestingSellTickers, Live, ExchangeTypeOK
<1>4. CASE EvGathered
  BY <1>4 DEF EvGathered, ExchangeTypeOK
<1>5. ASSUME NEW t \in Tickers, EvSkip(t) PROVE EvTypeOK'
  BY <1>5 DEF EvSkip, ExchangeTypeOK
<1>6. ASSUME NEW t \in Tickers, EvSell(t) PROVE EvTypeOK'
  <2>1. PICK i \in OrderIds : SendSell(i, t, evMeta[t]) /\ evAwaiting' = i
    BY <1>6 DEF EvSell
  <2>2. QED
    BY <1>6, <2>1 DEF EvSell, SendSell, ExchangeTypeOK
<1>7. CASE EvAnswered
  <2>1. evAwaiting \in OrderIds /\ orders[evAwaiting].ticker \in Tickers
    BY <1>7 DEF EvAnswered, ExchangeTypeOK
  <2>2. QED
    BY <1>7, <2>1, CloseRequestType DEF EvAnswered, ExchangeTypeOK
<1>8. CASE EvFinish
  BY <1>8 DEF EvFinish, EvEnds, ExchangeTypeOK
<1>9. CASE EvDies
  <2>1. CASE evPc = "await"
    <3>1. evAwaiting \in OrderIds /\ orders[evAwaiting].ticker \in Tickers
      BY <2>1 DEF ExchangeTypeOK
    <3>2. QED
      BY <1>9, <2>1, <3>1, CloseRequestType DEF EvDies, EvEnds, ExchangeTypeOK
  <2>2. CASE evPc # "await"
    BY <1>9, <2>2 DEF EvDies, EvEnds, ExchangeTypeOK
  <2>3. QED
    BY <2>1, <2>2
<1>10. ASSUME NEW i \in OrderIds, NEW f \in Quantities, EvFill(i, f),
              UNCHANGED <<evPc, evMeta, evGot, evSignal, evResting, evTodo, evAwaiting, givenUp>>
       PROVE  EvTypeOK'
  <2>1. ExchangeTypeOK' /\ FillEffect(i, f)
    BY <1>10, FillFacts DEF EvFill
  <2>2. \A j \in OrderIds : orders'[j].open <=> orders[j].open
    BY <2>1 DEF FillEffect
  <2>3. raced' \subseteq Tickers
    BY <1>10, <2>1 DEF EvFill, FillEffect
  <2>4. QED
    BY <1>10, <2>1, <2>2, <2>3
<1>11. ASSUME \/ \E i \in OrderIds : Land(i) \/ Refuse(i) \/ CancelStale(i)
              \/ \E t \in Tickers : MarketMoves(t) \/ \E q \in Quantities : Enter(t, q),
              UNCHANGED evaluatorVars
       PROVE  EvTypeOK'
  <2>1. ExchangeTypeOK' /\ \A j \in OrderIds : orders'[j].open <=> orders[j].open
    BY <1>11, QuietTypeStep
  <2>2. QED
    BY <1>11, <2>1 DEF evaluatorVars
<1>12. CASE UNCHANGED evVars
  BY <1>12 DEF evVars, evaluatorVars, ExchangeTypeOK
<1>13. QED
  BY <1>1, <1>2, <1>3, <1>4, <1>5, <1>6, <1>7, <1>8, <1>9, <1>10, <1>11, <1>12
     DEF PassesNext, Evaluator, EvExchangeSteps

(* Every step of the passes and of the exchange keeps the invariant.       *)
LEMMA EvStep == EvIInv /\ [PassesNext]_evVars => EvIInv'
<1> SUFFICES ASSUME EvIInv, [PassesNext]_evVars PROVE EvIInv'
  OBVIOUS
<1>0. EvTypeOK /\ EvTypeOK'
  BY EvTypeStep DEF EvIInv
<1> DEFINE Parts == /\ EvRequests /\ EvGatheredFirst /\ NoExitUnseen /\ StillHeld
                    /\ OneExitAcrossPasses /\ OversellsOnlyInTheWindow
<1>00. Parts
  BY DEF EvIInv
<1> USE NoSlotAssumption DEF exchangeVars, Outstanding, MaySell, EvPositions, EvTypeOK,
     ExchangeTypeOK
<1>1. CASE EvReadPositions
  <2>1. /\ evPc' = "gather" /\ evMeta' = held /\ evTodo' = {t \in Tickers : held[t] # 0}
        /\ evGot = {}
        /\ UNCHANGED <<held, orders, evGot, evAwaiting, givenUp, raced>>
    BY <1>00, <1>1 DEF EvReadPositions, EvGatheredFirst
  <2>2. EvRequests' /\ EvGatheredFirst' /\ NoExitUnseen'
    BY <1>00, <2>1 DEF EvRequests, EvGatheredFirst, NoExitUnseen
  <2>3. StillHeld'
    BY <1>0, <2>1 DEF StillHeld, Covered
  <2>4. OneExitAcrossPasses' /\ OversellsOnlyInTheWindow'
    BY <1>00, <2>1 DEF OneExitAcrossPasses, OversellsOnlyInTheWindow
  <2>5. QED
    BY <1>0, <2>2, <2>3, <2>4 DEF EvIInv
<1>2. CASE EvReadPrices \/ EvGathered
  BY <1>0, <1>00, <1>2 DEF EvReadPrices, EvGathered, EvIInv, EvRequests, EvGatheredFirst,
     NoExitUnseen, StillHeld, OneExitAcrossPasses, OversellsOnlyInTheWindow
<1>3. CASE EvReadOrders
  <2>1. NoExitUnseen'
    BY <1>0, <1>00, <1>3 DEF EvReadOrders, RestingSellTickers, Live, EvRequests, NoExitUnseen
  <2>2. EvRequests' /\ EvGatheredFirst' /\ StillHeld'
    BY <1>0, <1>00, <1>3 DEF EvReadOrders, EvRequests, EvGatheredFirst, StillHeld
  <2>3. OneExitAcrossPasses' /\ OversellsOnlyInTheWindow'
    BY <1>00, <1>3 DEF EvReadOrders, OneExitAcrossPasses, OversellsOnlyInTheWindow
  <2>4. QED
    BY <1>0, <2>1, <2>2, <2>3 DEF EvIInv
<1>5. ASSUME NEW t \in Tickers, EvSkip(t) PROVE EvIInv'
  BY <1>0, <1>00, <1>5 DEF EvSkip, EvIInv, EvRequests, EvGatheredFirst,
     NoExitUnseen, StillHeld, OneExitAcrossPasses, OversellsOnlyInTheWindow
<1>6. ASSUME NEW t \in Tickers, EvSell(t) PROVE EvIInv'
  <2>1. PICK s \in OrderIds : SendSell(s, t, evMeta[t]) /\ evAwaiting' = s
    BY <1>6 DEF EvSell
  <2>2. /\ orders[s].state = "free" /\ ~orders[s].open
        /\ orders'[s].state = "sent" /\ orders'[s].ticker = t /\ orders'[s].qty = evMeta[t]
        /\ orders'[s].open
        /\ \A j \in OrderIds \ {s} : orders'[j] = orders[j]
    BY <1>0, <2>1 DEF SendSell
  <2>3. /\ evPc = "pass" /\ evPc' = "await" /\ evGot = {"prices", "orders"}
        /\ evTodo' = evTodo \ {t}
        /\ UNCHANGED <<held, evMeta, evGot, evResting, givenUp, raced>>
    BY <1>00, <1>6 DEF EvSell, EvGatheredFirst
  <2>4. MaySell(t) /\ "orders" \in evGot
    BY <1>6, <2>3 DEF EvSell, EvSpared
  <2>5. t \notin givenUp \cup raced => Covered(evMeta[t], held[t])
    BY <1>00, <2>4 DEF StillHeld
  <2>6. t \notin givenUp => \A j \in OrderIds : ~(Outstanding(j) /\ orders[j].ticker = t)
    BY <1>00, <2>4 DEF NoExitUnseen
  <2>7. EvRequests' /\ EvGatheredFirst'
    BY <1>0, <1>00, <2>1, <2>2, <2>3 DEF EvRequests, EvGatheredFirst
  <2>8. NoExitUnseen' /\ StillHeld'
    BY <1>00, <2>2, <2>3 DEF NoExitUnseen, StillHeld
  <2>9. OneExitAcrossPasses' /\ OversellsOnlyInTheWindow'
    BY <1>00, <2>2, <2>3, <2>5, <2>6 DEF OneExitAcrossPasses, OversellsOnlyInTheWindow
  <2>10. QED
    BY <1>0, <2>7, <2>8, <2>9 DEF EvIInv
<1>7. ASSUME evPc = "await", CloseRequest(evAwaiting), UNCHANGED <<held, raced>>,
             givenUp' = IF orders[evAwaiting].state = "sent"
                          THEN givenUp \cup {orders[evAwaiting].ticker} ELSE givenUp
      PROVE  /\ OneExitAcrossPasses' /\ OversellsOnlyInTheWindow'
             /\ \A i \in OrderIds : /\ ~orders'[i].open
                                    /\ orders'[i].state = "sent" => orders'[i].ticker \in givenUp'
             /\ \A i \in OrderIds : Outstanding(i)' => /\ Outstanding(i)
                                                       /\ orders'[i].ticker = orders[i].ticker
  <2> DEFINE a == evAwaiting
  <2>1. a \in OrderIds /\ orders[a] \in Order /\ orders' = [orders EXCEPT ![a] = Closed(orders[a])]
    BY <1>0, <1>7 DEF CloseRequest
  <2>2. /\ ~orders'[a].open
        /\ \/ orders'[a].state = "free"
           \/ /\ orders'[a].state = orders[a].state /\ orders[a].state \in {"sent", "live"}
              /\ orders'[a].ticker = orders[a].ticker /\ orders'[a].qty = orders[a].qty
        /\ \A j \in OrderIds \ {a} : orders'[j] = orders[j]
    BY <1>0, <2>1, ClosedFacts
  <2>3. /\ givenUp \subseteq givenUp' /\ UNCHANGED <<held, raced>>
        /\ orders[a].state = "sent" => orders[a].ticker \in givenUp'
    BY <1>7
  <2> HIDE DEF a
  <2>4. a = evAwaiting
    BY DEF a
  <2>5. \A i \in OrderIds : /\ ~orders'[i].open
                            /\ orders'[i].state = "sent" => orders'[i].ticker \in givenUp'
    BY <1>0, <1>00, <2>1, <2>2, <2>3, <2>4 DEF EvRequests
  <2>6. \A i \in OrderIds :
          Outstanding(i)' => /\ Outstanding(i)
                             /\ orders'[i].ticker = orders[i].ticker
                             /\ orders'[i].qty = orders[i].qty
    BY <1>0, <2>1, <2>2
  <2>7. OneExitAcrossPasses' /\ OversellsOnlyInTheWindow'
    BY <1>00, <2>3, <2>6 DEF OneExitAcrossPasses, OversellsOnlyInTheWindow
  <2>8. QED
    BY <2>5, <2>6, <2>7
<1>8. CASE EvAnswered
  <2>1. /\ OneExitAcrossPasses' /\ OversellsOnlyInTheWindow'
        /\ \A i \in OrderIds : /\ ~orders'[i].open
                               /\ orders'[i].state = "sent" => orders'[i].ticker \in givenUp'
        /\ \A i \in OrderIds : Outstanding(i)' => /\ Outstanding(i)
                                                  /\ orders'[i].ticker = orders[i].ticker
    BY <1>7, <1>8 DEF EvAnswered
  <2>2. /\ evPc = "await" /\ evPc' = "pass" /\ evAwaiting' = NoSlot
        /\ givenUp \subseteq givenUp'
        /\ UNCHANGED <<held, evMeta, evGot, evResting, evTodo, raced>>
    BY <1>8 DEF EvAnswered
  <2>3. EvRequests'
    BY <1>0, <2>1, <2>2 DEF EvRequests
  <2>4. EvGatheredFirst'
    BY <1>00, <2>2 DEF EvGatheredFirst
  <2>5. NoExitUnseen'
    BY <1>00, <2>1, <2>2 DEF NoExitUnseen
  <2>6. StillHeld'
    BY <1>00, <2>2 DEF StillHeld
  <2>7. QED
    BY <1>0, <2>1, <2>3, <2>4, <2>5, <2>6 DEF EvIInv
<1>9. CASE EvFinish \/ (EvDies /\ evPc # "await")
  BY <1>0, <1>00, <1>9 DEF EvFinish, EvDies, EvEnds, EvIInv, EvRequests, EvGatheredFirst,
     NoExitUnseen, StillHeld, OneExitAcrossPasses, OversellsOnlyInTheWindow
<1>10. CASE EvDies /\ evPc = "await"
  <2>1. /\ OneExitAcrossPasses' /\ OversellsOnlyInTheWindow'
        /\ \A i \in OrderIds : /\ ~orders'[i].open
                               /\ orders'[i].state = "sent" => orders'[i].ticker \in givenUp'
    BY <1>7, <1>10 DEF EvDies
  <2>2. evPc' = "idle" /\ evTodo' = {} /\ evGot' = {} /\ evAwaiting' = NoSlot
    BY <1>10 DEF EvDies, EvEnds
  <2>3. EvRequests'
    BY <1>0, <2>1, <2>2 DEF EvRequests
  <2>4. EvGatheredFirst' /\ NoExitUnseen' /\ StillHeld'
    BY <2>2 DEF EvGatheredFirst, NoExitUnseen, StillHeld
  <2>5. QED
    BY <1>0, <2>1, <2>3, <2>4 DEF EvIInv
<1>11. ASSUME NEW i \in OrderIds, Land(i) \/ Refuse(i) \/ CancelStale(i),
              UNCHANGED evaluatorVars
       PROVE  EvIInv'
  <2>1. /\ \A j \in OrderIds : orders'[j].open <=> orders[j].open
        /\ \A j \in OrderIds : orders'[j].state = "sent" => orders'[j] = orders[j]
        /\ \A j \in OrderIds :
             Outstanding(j)' => /\ Outstanding(j)
                                /\ orders'[j].ticker = orders[j].ticker
                                /\ orders'[j].qty = orders[j].qty
    <3>1. CASE Land(i)
      BY <1>0, <3>1 DEF Land
    <3>2. CASE Refuse(i)
      BY <1>0, <3>2, RefusedFacts DEF Refuse
    <3>3. CASE CancelStale(i)
      BY <1>0, <3>3 DEF CancelStale
    <3>4. QED
      BY <1>11, <3>1, <3>2, <3>3
  <2>2. UNCHANGED <<held, evPc, evMeta, evGot, evResting, evTodo, evAwaiting, givenUp, raced>>
    BY <1>11 DEF Land, Refuse, CancelStale, evaluatorVars
  <2>3. EvRequests' /\ EvGatheredFirst' /\ NoExitUnseen' /\ StillHeld'
    BY <1>00, <2>1, <2>2 DEF EvRequests, EvGatheredFirst, NoExitUnseen, StillHeld
  <2>4. OneExitAcrossPasses' /\ OversellsOnlyInTheWindow'
    BY <1>00, <2>1, <2>2 DEF OneExitAcrossPasses, OversellsOnlyInTheWindow
  <2>5. QED
    BY <1>0, <2>3, <2>4 DEF EvIInv
<1>12. ASSUME NEW t \in Tickers, NEW q \in Quantities, Enter(t, q), UNCHANGED evaluatorVars
       PROVE  EvIInv'
  <2>1. /\ q \in Int /\ held'[t] = q
        /\ \/ held[t] = 0
           \/ held[t] > 0 /\ q > held[t]
           \/ held[t] < 0 /\ q < held[t]
        /\ \A u \in Tickers \ {t} : held'[u] = held[u]
    BY <1>0, <1>12, QuantityAssumption DEF Enter, Quantities
  <2>2. \A u \in Tickers, n \in Int : Covered(n, held[u]) => Covered(n, held'[u])
    BY <1>0, <2>1 DEF Covered
  <2>3. UNCHANGED <<orders, evPc, evMeta, evGot, evResting, evTodo, evAwaiting, givenUp, raced>>
    BY <1>12 DEF Enter, evaluatorVars
  <2>4. QED
    BY <1>0, <1>00, <2>2, <2>3 DEF EvIInv, EvRequests, EvGatheredFirst, NoExitUnseen, StillHeld,
       OneExitAcrossPasses, OversellsOnlyInTheWindow
<1>13. ASSUME NEW i \in OrderIds, NEW f \in Quantities, EvFill(i, f),
              UNCHANGED <<evPc, evMeta, evGot, evSignal, evResting, evTodo, evAwaiting, givenUp>>
       PROVE  EvIInv'
  <2> DEFINE u == orders[i].ticker
  <2>0. FillEffect(i, f)
    <3>1. ExchangeTypeOK
      BY <1>0
    <3>2. QED
      BY <1>13, <3>1, FillFacts DEF EvFill
  <2>1. /\ f \in Int /\ orders[i].qty \in Int /\ u \in Tickers
        /\ orders[i].state = "live" /\ Covered(f, orders[i].qty)
        /\ orders'[i].open <=> orders[i].open
        /\ \/ /\ orders'[i].state = "live" /\ orders'[i].ticker = u /\ f # orders[i].qty
              /\ orders'[i].qty = orders[i].qty - f
           \/ orders'[i].state = "filled" /\ orders'[i].ticker = u /\ orders[i].open
           \/ orders'[i].state = "free" /\ ~orders[i].open
        /\ \A j \in OrderIds \ {i} : orders'[j] = orders[j]
        /\ \A t \in Tickers \ {u} : held'[t] = held[t]
        /\ held'[u] = held[u] - f /\ held[u] \in Int
    BY <1>0, <2>0 DEF FillEffect
  <2>2. /\ raced \subseteq raced'
        /\ evPc = "gather" /\ "orders" \notin evGot => u \in raced'
    BY <1>13 DEF EvFill
  <2> HIDE DEF u
  <2>3. u = orders[i].ticker
    BY DEF u
  <2>4. EvRequests' /\ EvGatheredFirst'
    BY <1>0, <1>00, <1>13, <2>1, <2>3 DEF EvRequests, EvGatheredFirst
  <2>5. \A j \in OrderIds : Outstanding(j)' => /\ Outstanding(j)
                                               /\ orders'[j].ticker = orders[j].ticker
    BY <1>0, <2>1, <2>3
  <2>6. NoExitUnseen' /\ OneExitAcrossPasses'
    BY <1>00, <1>13, <2>5 DEF NoExitUnseen, OneExitAcrossPasses
  <2>7. StillHeld'
    <3>1. u \in givenUp \/ u \in raced' \/ ~MaySell(u)
      BY <1>0, <1>00, <2>1, <2>2, <2>3 DEF EvGatheredFirst, NoExitUnseen
    <3>2. QED
      BY <1>00, <1>13, <2>1, <2>2, <3>1 DEF StillHeld
  <2>8. OversellsOnlyInTheWindow'
    <3>1. ASSUME u \notin givenUp \cup raced
          PROVE  Covered(orders[i].qty - f, held'[u]) \/ f = orders[i].qty
      <4>1. Covered(orders[i].qty, held[u])
        BY <1>00, <2>1, <2>3, <3>1 DEF OversellsOnlyInTheWindow
      <4>2. QED
        BY <4>1, <2>1, CoveredRest
    <3>2. ASSUME u \notin givenUp, NEW j \in OrderIds \ {i}, Outstanding(j)
          PROVE  orders[j].ticker # u
      BY <1>00, <2>1, <2>3, <3>2 DEF OneExitAcrossPasses
    <3>3. QED
      BY <1>0, <1>00, <1>13, <2>1, <2>2, <2>3, <2>5, <3>1, <3>2 DEF OversellsOnlyInTheWindow
  <2>9. QED
    BY <1>0, <2>4, <2>6, <2>7, <2>8 DEF EvIInv
<1>14. ASSUME NEW t \in Tickers, MarketMoves(t), UNCHANGED evaluatorVars PROVE EvIInv'
  BY <1>0, <1>00, <1>14 DEF MarketMoves, evaluatorVars, EvIInv, EvRequests, EvGatheredFirst,
     NoExitUnseen, StillHeld, OneExitAcrossPasses, OversellsOnlyInTheWindow
<1>15. CASE UNCHANGED evVars
  BY <1>0, <1>00, <1>15 DEF evVars, evaluatorVars, EvIInv, EvRequests, EvGatheredFirst,
     NoExitUnseen, StillHeld, OneExitAcrossPasses, OversellsOnlyInTheWindow
<1>16. QED
  BY <1>1, <1>2, <1>3, <1>5, <1>6, <1>8, <1>9, <1>10, <1>11, <1>12, <1>13, <1>14, <1>15
     DEF PassesNext, Evaluator, EvExchangeSteps

(* Type correctness of the passes, whenever they die and whatever the      *)
(* exchange does meanwhile.                                                *)
THEOREM EvaluatorTypes == PassesSpec => []EvTypeOK
<1>1. EvIInv => EvTypeOK
  BY DEF EvIInv
<1>2. QED
  BY <1>1, EvInitInv, EvStep, PTL DEF PassesSpec

(* Two passes, which share nothing but the exchange, never have two exits  *)
(* of one ticker outstanding, unless a request of it was given up: the     *)
(* read of the resting orders is all the memory they need.                 *)
THEOREM PassesExitOnce == PassesSpec => []OneExitAcrossPasses
<1>1. EvIInv => OneExitAcrossPasses
  BY DEF EvIInv
<1>2. QED
  BY <1>1, EvInitInv, EvStep, PTL DEF PassesSpec

(* An exit of a pass never sells more than is held, partial fills and      *)
(* dying passes included, but for a ticker that sold between the two reads *)
(* of a pass or of which a request was given up.                           *)
THEOREM OversellNeedsTheWindow == PassesSpec => []OversellsOnlyInTheWindow
<1>1. EvIInv => OversellsOnlyInTheWindow
  BY DEF EvIInv
<1>2. QED
  BY <1>1, EvInitInv, EvStep, PTL DEF PassesSpec
=============================================================================
