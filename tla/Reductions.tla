------------------------------ MODULE Reductions ------------------------------
(***************************************************************************)
(* sum() over values that are indexed by a finite set, the list of items a *)
(* condition leaves, and lists put after one another, as recursive         *)
(* functions: a form that the proofs can look into, as they cannot into    *)
(* folds.                                                                  *)
(***************************************************************************)
EXTENDS Integers, Sequences

\* The sum of the values of a finite set.
SumOver(S, value) ==
  LET sum[T \in SUBSET S] ==
        IF T = {} THEN 0
        ELSE LET x == CHOOSE y \in T : TRUE IN value[x] + sum[T \ {x}]
  IN sum[S]

\* The items of a sequence at some of its indices, in its order.
ItemsAt(s, chosen) ==
  LET kept[n \in 0 .. Len(s)] ==
        IF n = 0 THEN <<>>
        ELSE IF n \in chosen THEN Append(kept[n - 1], s[n]) ELSE kept[n - 1]
  IN kept[Len(s)]

\* The first n of a sequence of sequences, one after the other.
JoinedTo(parts, n) ==
  LET upTo[k \in 0 .. Len(parts)] == IF k = 0 THEN <<>> ELSE upTo[k - 1] \o parts[k]
  IN upTo[n]
=============================================================================
