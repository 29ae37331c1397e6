------------------------- MODULE PortfolioEvaluator -------------------------
(***************************************************************************)
(* scripts/evaluate_portfolio.py, run every 30 s by portfolio_loop.sh: one *)
(* pass reads the positions, then prices and resting orders at the same    *)
(* time, then sells every position whose check fires and that had no       *)
(* resting sell.  A pass keeps no memory of the one before it.             *)
(***************************************************************************)
EXTENDS Exchange

VARIABLES
  evPc,       \* "idle" between passes, "gather", "pass", "await" in create_order
  evMeta,     \* [Tickers -> Int]: the positions this pass read, 0 when absent
  evGot,      \* which of the two gathered requests have answered
  evSignal,   \* [Tickers -> Signal or "unpriced"]: the verdict on live_prices
  evResting,  \* tickers_with_resting_exit
  evTodo,     \* positions of the pass not visited yet
  evAwaiting, \* slot of the create_order awaited, or NoSlot
  givenUp,    \* history: tickers with an exit request given up unanswered
  raced       \* history: tickers that sold between the two reads of a pass

evaluatorVars == <<evPc, evMeta, evGot, evSignal, evResting, evTodo, evAwaiting,
                   givenUp, raced>>
evVars == <<exchangeVars, evaluatorVars>>

EvPositions == {t \in Tickers : evMeta[t] # 0}

EvTypeOK ==
  /\ ExchangeTypeOK
  /\ evPc \in {"idle", "gather", "pass", "await"}
  /\ evMeta \in [Tickers -> Int]
  /\ evGot \subseteq {"prices", "orders"}
  /\ evSignal \in [Tickers -> Signal \cup {"unpriced"}]
  /\ evResting \subseteq Tickers
  /\ evTodo \subseteq EvPositions
  /\ evAwaiting \in OrderIds \cup {NoSlot}
  /\ evPc = "await" => evAwaiting \in OrderIds /\ orders[evAwaiting].open
  /\ givenUp \subseteq Tickers
  /\ raced \subseteq Tickers

EvInit ==
  /\ evPc = "idle"
  /\ evMeta = [t \in Tickers |-> 0]
  /\ evGot = {}
  /\ evSignal = [t \in Tickers |-> "unpriced"]
  /\ evResting = {}
  /\ evTodo = {}
  /\ evAwaiting = NoSlot
  /\ givenUp = {}
  /\ raced = {}

PassesInit == ExchangeInit /\ EvInit

\* The process is over, with or without an exception: its locals are gone.
EvEnds ==
  /\ evPc' = "idle"
  /\ evMeta' = [t \in Tickers |-> 0]
  /\ evGot' = {}
  /\ evSignal' = [t \in Tickers |-> "unpriced"]
  /\ evResting' = {}
  /\ evTodo' = {}
  /\ evAwaiting' = NoSlot

---------------------------------------------------------------------------
(* get_positions has answered; without positions the run ends there.       *)
EvReadPositions ==
  /\ evPc = "idle"
  /\ \E t \in Tickers : held[t] # 0
  /\ evMeta' = held
  /\ evTodo' = {t \in Tickers : held[t] # 0}
  /\ evPc' = "gather"
  /\ UNCHANGED <<exchangeVars, evGot, evSignal, evResting, evAwaiting, givenUp, raced>>

(* _fetch_live_prices: a market may be missing from the answer.            *)
EvReadPrices ==
  /\ evPc = "gather"
  /\ "prices" \notin evGot
  /\ \E missing \in SUBSET EvPositions :
       evSignal' = [t \in Tickers |-> IF t \in EvPositions \ missing THEN market[t]
                                                                     ELSE "unpriced"]
  /\ evGot' = evGot \cup {"prices"}
  /\ UNCHANGED <<exchangeVars, evPc, evMeta, evResting, evTodo, evAwaiting, givenUp, raced>>

(* _fetch_tickers_with_resting_exits.                                      *)
EvReadOrders ==
  /\ evPc = "gather"
  /\ "orders" \notin evGot
  /\ evResting' = RestingSellTickers
  /\ evGot' = evGot \cup {"orders"}
  /\ UNCHANGED <<exchangeVars, evPc, evMeta, evSignal, evTodo, evAwaiting, givenUp, raced>>

EvGathered ==
  /\ evPc = "gather"
  /\ evGot = {"prices", "orders"}
  /\ evPc' = "pass"
  /\ UNCHANGED <<exchangeVars, evMeta, evGot, evSignal, evResting, evTodo, evAwaiting,
                 givenUp, raced>>

\* Mutant: resting exits are not looked at.
BugIgnoreRestingExits(t) == evSignal[t] # "exit"

\* No price, no signal, or a resting exit: the position is left alone.
EvSpared(t) == evSignal[t] # "exit" \/ t \in evResting

EvSkip(t) ==
  /\ evPc = "pass"
  /\ t \in evTodo
  /\ EvSpared(t)
  /\ evTodo' = evTodo \ {t}
  /\ UNCHANGED <<exchangeVars, evPc, evMeta, evGot, evSignal, evResting, evAwaiting,
                 givenUp, raced>>

\* Mutant: every position is sold as a YES position.
BugSellYes(t) ==
  /\ evPc = "pass"
  /\ t \in evTodo
  /\ ~EvSpared(t)
  /\ evTodo' = evTodo \ {t}
  /\ \E i \in OrderIds : /\ SendSell(i, t, IF evMeta[t] > 0 THEN evMeta[t] ELSE -evMeta[t])
                         /\ evAwaiting' = i
  /\ evPc' = "await"
  /\ UNCHANGED <<held, market, evMeta, evGot, evSignal, evResting, givenUp, raced>>

EvSell(t) ==
  /\ evPc = "pass"
  /\ t \in evTodo
  /\ ~EvSpared(t)
  /\ evTodo' = evTodo \ {t}
  /\ \E i \in OrderIds : SendSell(i, t, evMeta[t]) /\ evAwaiting' = i
  /\ evPc' = "await"
  /\ UNCHANGED <<held, market, evMeta, evGot, evSignal, evResting, givenUp, raced>>

(* create_order returned, or raised and was recorded in errors: the pass   *)
(* goes on to the next position either way.                                *)
EvAnswered ==
  /\ evPc = "await"
  /\ givenUp' = IF orders[evAwaiting].state = "sent"
                  THEN givenUp \cup {orders[evAwaiting].ticker} ELSE givenUp
  /\ CloseRequest(evAwaiting)
  /\ evAwaiting' = NoSlot
  /\ evPc' = "pass"
  /\ UNCHANGED <<held, market, evMeta, evGot, evSignal, evResting, evTodo, raced>>

EvFinish ==
  /\ evPc = "pass"
  /\ evTodo = {}
  /\ EvEnds
  /\ UNCHANGED <<exchangeVars, givenUp, raced>>

(* An exception outside create_order, or a kill: portfolio_loop.sh runs    *)
(* the next pass all the same.                                             *)
EvDies ==
  /\ evPc # "idle"
  /\ EvEnds
  /\ IF evPc = "await"
       THEN /\ CloseRequest(evAwaiting)
            /\ givenUp' = IF orders[evAwaiting].state = "sent"
                            THEN givenUp \cup {orders[evAwaiting].ticker} ELSE givenUp
       ELSE UNCHANGED <<orders, givenUp>>
  /\ UNCHANGED <<held, market, raced>>

Evaluator ==
  \/ EvReadPositions \/ EvReadPrices \/ EvReadOrders \/ EvGathered
  \/ \E t \in Tickers : EvSkip(t) \/ EvSell(t)
  \/ EvAnswered \/ EvFinish \/ EvDies

(* A fill, and whether it falls between the two reads of a pass.           *)
EvFill(i, f) ==
  /\ Fill(i, f)
  /\ raced' = IF evPc = "gather" /\ "orders" \notin evGot
                THEN raced \cup {orders[i].ticker} ELSE raced

EvExchangeSteps ==
  \/ /\ \/ \E i \in OrderIds : Land(i) \/ Refuse(i) \/ CancelStale(i)
        \/ \E t \in Tickers : MarketMoves(t) \/ \E q \in Quantities : Enter(t, q)
     /\ UNCHANGED evaluatorVars
  \/ /\ \E i \in OrderIds, f \in Quantities : EvFill(i, f)
     /\ UNCHANGED <<evPc, evMeta, evGot, evSignal, evResting, evTodo, evAwaiting, givenUp>>

PassesNext == Evaluator \/ EvExchangeSteps

PassesSpec == PassesInit /\ [][PassesNext]_evVars

---------------------------------------------------------------------------
(* The passes, which share nothing but the exchange, never have two exits  *)
(* of one ticker outstanding, unless a request was given up unanswered.    *)
OneExitAcrossPasses ==
  \A i, j \in OrderIds :
    /\ Outstanding(i) /\ Outstanding(j)
    /\ orders[i].ticker = orders[j].ticker
    /\ orders[i].ticker \notin givenUp
    => i = j

(* A pass sells only what is held, except where an exit of the pass before *)
(* filled after the positions and before the orders were read: only that   *)
(* window, for which the script has no guard, oversells.                   *)
OversellsOnlyInTheWindow ==
  \A i \in OrderIds :
    Outstanding(i) /\ orders[i].ticker \notin givenUp \cup raced
      => Covered(orders[i].qty, held[orders[i].ticker])
=============================================================================
