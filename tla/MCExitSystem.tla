---------------------------- MODULE MCExitSystem ----------------------------
(* ExitSystem on small instances. *)
EXTENDS ExitSystem, TLC

CONSTANTS t1, t2, o1, o2, o3
============================================================================
