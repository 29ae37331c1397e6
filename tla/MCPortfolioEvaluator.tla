------------------------ MODULE MCPortfolioEvaluator ------------------------
(* PortfolioEvaluator on small instances. *)
EXTENDS PortfolioEvaluator, TLC

CONSTANTS t1, t2, o1, o2, o3

Symmetry == Permutations(OrderIds)

\* The properties say nothing of a ticker once a request of it was given up.
NoneGivenUp == givenUp = {}

\* An oversold position is on the other side; it is not followed beyond the
\* bound.  The second ticker is held by one contract or not at all.
WithinBounds == /\ NoneGivenUp
                /\ held[t1] \in -MaxQuantity .. MaxQuantity
                /\ held[t2] \in {0, 1}
=============================================================================
