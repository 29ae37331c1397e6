--------------------------- MODULE MCExitMonitor ---------------------------
(* ExitMonitor on small instances. *)
EXTENDS ExitMonitor, TLC

CONSTANTS t1, t2, o1, o2, o3

Symmetry == Permutations(OrderIds)

\* The safety properties say nothing of a ticker once it is ambiguous.
NoneAmbiguous == ambiguous = {}

\* One ticker is held YES, in quantities that fill in parts, the other NO.
OneOfEachSide == NoneAmbiguous /\ held[t1] >= 0 /\ held[t2] \in {-1, 0}
=============================================================================
