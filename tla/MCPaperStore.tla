---------------------------- MODULE MCPaperStore ----------------------------
(* PaperStore on small instances. *)
EXTENDS PaperStore, TLC

CONSTANTS r1, r2, r3, t1, t2, p1, p2

Symmetry == Permutations(Recs) \cup Permutations(Passes)
=============================================================================
