---------------------------- MODULE SessionBudget ----------------------------
(***************************************************************************)
(* What a session file promises about the trades it counts: each is of a   *)
(* ticker not counted before, is of at most MaxTrade, and was decided      *)
(* while less than DollarCap was spent: in dollars at night, in cents for  *)
(* the weather.                                                            *)
(***************************************************************************)
EXTENDS Integers, FiniteSets

CONSTANTS Tickers, DollarCap, MaxTrade

VARIABLES spent, traded

Init == spent = 0 /\ traded = {}

Count(t, d) ==
  /\ spent < DollarCap
  /\ t \notin traded
  /\ spent' = spent + d
  /\ traded' = traded \cup {t}

Next == \E t \in Tickers, d \in 0 .. MaxTrade : Count(t, d)

Spec == Init /\ [][Next]_<<spent, traded>>
=============================================================================
