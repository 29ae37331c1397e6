--------------------------- MODULE MCNightSession ---------------------------
(* NightSession on small instances. *)
EXTENDS NightSession

CONSTANTS t1, t2, t3

\* Bounds: dollars lost in a night, and orders of one ticker.
LostAtMost3 == lost.dollars <= 3 /\ \A t \in Tickers : bought[t] <= 3

=============================================================================
