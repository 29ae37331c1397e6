----------------------------- MODULE ExitSystem -----------------------------
(***************************************************************************)
(* Both exit programs on one account: the daemon scripts/exit_monitor.py   *)
(* and the loop scripts/portfolio_loop.sh over evaluate_portfolio.py.      *)
(* They share nothing but the exchange.                                    *)
(***************************************************************************)
EXTENDS ExitMonitor, PortfolioEvaluator

systemVars == <<vars, evaluatorVars>>

SystemInit == Init /\ EvInit

MonitorSteps   == (Monitor \/ Crash \/ Feed) /\ UNCHANGED evaluatorVars
EvaluatorSteps == Evaluator /\ UNCHANGED monitorVars
SharedSteps    == EvExchangeSteps /\ UNCHANGED monitorVars

SystemNext == MonitorSteps \/ EvaluatorSteps \/ SharedSteps

SystemSpec == SystemInit /\ [][SystemNext]_systemVars

---------------------------------------------------------------------------
(* "Before placing any exit order, the monitor calls GET                   *)
(* /portfolio/orders?status=resting" (the design document of the monitor): *)
(* it never sells a ticker that has a resting sell order, unless one of    *)
(* the two programs gave up a request for it.                              *)
SellsOnlyWithoutRestingExit ==
  [][\A t \in Tickers :
       TriggerExit(t) /\ t \in RestingSellTickers => t \in ambiguous \cup givenUp]_systemVars
=============================================================================
