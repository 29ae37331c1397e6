---------------------------- MODULE ReductionFacts ----------------------------
(***************************************************************************)
(* What the proofs need of quotients and of the operators of Reductions,   *)
(* for any values: sums over finite sets compare, add up and split; lists  *)
(* are filtered and joined in order.                                       *)
(***************************************************************************)
EXTENDS Reductions, SequenceTheorems, FiniteSetTheorems, NaturalsInduction,
        WellFoundedInduction, TLAPS

---------------------------------------------------------------------------
(* Products and quotients of whole numbers.                                *)

\* A quotient, times the divisor.
LEMMA DivBounds ==
  ASSUME NEW a \in Int, NEW n \in Nat \ {0}
  PROVE  /\ a \div n \in Int
         /\ (a \div n) * n <= a
         /\ a < ((a \div n) + 1) * n
  OBVIOUS

\* Multiplying by a natural number keeps the order.
LEMMA TimesKeeps ==
  ASSUME NEW a \in Int, NEW b \in Int, NEW n \in Nat, a <= b
  PROVE  a * n <= b * n
  OBVIOUS

\* Dividing by a positive one, too.
LEMMA TimesKept ==
  ASSUME NEW a \in Int, NEW b \in Int, NEW n \in Nat \ {0}, a * n < b * n
  PROVE  a < b
  <1>1. SUFFICES ASSUME b <= a PROVE FALSE
    OBVIOUS
  <1>2. b * n <= a * n
    BY <1>1, TimesKeeps
  <1>3. a * n \in Int /\ b * n \in Int
    OBVIOUS
  <1> QED
    BY <1>2, <1>3

\* Division by a count keeps the order.
LEMMA DivMonotone ==
  ASSUME NEW a \in Int, NEW b \in Int, NEW n \in Nat, n # 0, a <= b
  PROVE  a \div n <= b \div n
  OBVIOUS

\* A smaller fraction has no larger quotient.
LEMMA SmallerFraction ==
  ASSUME NEW x \in Int, NEW y \in Nat \ {0}, NEW u \in Int, NEW v \in Nat \ {0},
         x * v <= u * y
  PROVE  x \div y <= u \div v
  <1>1. PICK q \in Int : q = x \div y /\ q * y <= x
    BY DivBounds
  <1>2. PICK r \in Int : r = u \div v /\ u < (r + 1) * v
    BY DivBounds
  <1>3. (q * y) * v <= x * v
    BY <1>1, TimesKeeps
  <1>4. u * y < ((r + 1) * v) * y
    <2>1. u + 1 <= (r + 1) * v /\ (r + 1) * v \in Int
      BY <1>2
    <2>2. (u + 1) * y <= ((r + 1) * v) * y
      BY <2>1, TimesKeeps
    <2>3. (u + 1) * y = u * y + y /\ u * y \in Int
      OBVIOUS
    <2>4. ((r + 1) * v) * y \in Int
      BY <2>1
    <2> QED
      BY <2>2, <2>3, <2>4
  <1>5. (q * y) * v = q * (y * v) /\ ((r + 1) * v) * y = (r + 1) * (y * v)
    OBVIOUS
  <1>6. q * (y * v) < (r + 1) * (y * v)
    <2>1. /\ x * v \in Int /\ u * y \in Int /\ q * (y * v) \in Int
          /\ (r + 1) * (y * v) \in Int
      OBVIOUS
    <2> QED
      BY <1>3, <1>4, <1>5, <2>1
  <1>7. y * v \in Nat \ {0}
    OBVIOUS
  <1>8. q < r + 1
    BY <1>6, <1>7, TimesKept
  <1> QED
    BY <1>1, <1>2, <1>8

---------------------------------------------------------------------------
(* Sums over finite sets, by the size of the set.                          *)

\* A set of naturals has a least one.
LEMMA LeastOfNaturals ==
  ASSUME NEW T, T \subseteq Nat, T # {}
  PROVE  \E n \in T : \A m \in T : n <= m
  <1>1. PICK n \in T : \A m \in T : <<m, n>> \notin OpToRel(<, Nat)
    BY NatLessThanWellFounded, WFMin
  <1>2. \A m \in T : ~(m < n)
    BY <1>1 DEF OpToRel
  <1> QED
    BY <1>2

\* The member of a set that a sum over it takes first.
FirstOf(T) == CHOOSE y \in T : TRUE

\* What is left of a set without its first member.
LEMMA FirstFacts ==
  ASSUME NEW S, IsFiniteSet(S), NEW T \in SUBSET S, T # {}
  PROVE  /\ FirstOf(T) \in T /\ FirstOf(T) \in S
         /\ T \ {FirstOf(T)} \in SUBSET S
         /\ Cardinality(T) \in Nat /\ Cardinality(T) # 0
         /\ Cardinality(T \ {FirstOf(T)}) = Cardinality(T) - 1
  <1>1. FirstOf(T) \in T
    BY DEF FirstOf
  <1>2. IsFiniteSet(T)
    BY FS_Subset
  <1>3. Cardinality(T) \in Nat /\ Cardinality(T) # 0
    BY <1>2, FS_CardinalityType, FS_EmptySet
  <1>4. Cardinality(T \ {FirstOf(T)}) = Cardinality(T) - 1
    BY <1>1, <1>2, FS_RemoveElement
  <1> QED
    BY <1>1, <1>3, <1>4

\* Of a set of subsets that is not empty, one is in it and what is left of it
\* without its first member is not, unless it is empty.
LEMMA SmallestBad ==
  ASSUME NEW S, IsFiniteSet(S), NEW Bad, Bad \subseteq SUBSET S, Bad # {}
  PROVE  \E T \in Bad : T # {} => T \ {FirstOf(T)} \notin Bad
  <1> DEFINE Sizes == {Cardinality(T) : T \in Bad}
  <1>1. Sizes \subseteq Nat /\ Sizes # {}
    BY FS_Subset, FS_CardinalityType
  <1>2. PICK n \in Sizes : \A m \in Sizes : n <= m
    <2> HIDE DEF Sizes
    <2> QED
      BY <1>1, LeastOfNaturals
  <1>3. PICK T \in Bad : n = Cardinality(T)
    BY <1>2
  <1>4. ASSUME T # {}, T \ {FirstOf(T)} \in Bad
        PROVE  FALSE
    <2>1. /\ Cardinality(T \ {FirstOf(T)}) = Cardinality(T) - 1
          /\ Cardinality(T) \in Nat
      BY <1>4, FirstFacts
    <2>2. n <= Cardinality(T \ {FirstOf(T)})
      BY <1>2, <1>4
    <2> QED
      BY <1>3, <2>1, <2>2
  <1> QED
    BY <1>4

\* g adds up values on the sets of D.
IsSumOn(g, D, value) ==
  /\ g \in [D -> Int]
  /\ \A T \in D : g[T] = IF T = {} THEN 0 ELSE value[FirstOf(T)] + g[T \ {FirstOf(T)}]

\* The subsets of at most n members.
Small(S, n) == {T \in SUBSET S : Cardinality(T) <= n}

\* There is such a function, by the size of the sets.
LEMMA SumExists ==
  ASSUME NEW S, IsFiniteSet(S), NEW value \in [S -> Int]
  PROVE  \A n \in Nat : \E g : IsSumOn(g, Small(S, n), value)
  <1> DEFINE Bad == {n \in Nat : ~ \E g : IsSumOn(g, Small(S, n), value)}
  <1> SUFFICES ASSUME Bad # {} PROVE FALSE
    OBVIOUS
  <1>1. PICK n \in Bad : \A m \in Bad : n <= m
    <2>1. Bad \subseteq Nat
      OBVIOUS
    <2> HIDE DEF Bad
    <2> QED
      BY <2>1, LeastOfNaturals
  <1>2. n \in Nat
    OBVIOUS
  <1>3. \A T \in SUBSET S : IsFiniteSet(T) /\ Cardinality(T) \in Nat
    BY FS_Subset, FS_CardinalityType
  <1>4. n # 0
    <2> SUFFICES ASSUME n = 0 PROVE FALSE
      OBVIOUS
    <2>1. \A T \in Small(S, 0) : T = {}
      BY <1>3, FS_EmptySet DEF Small
    <2>2. IsSumOn([T \in Small(S, 0) |-> 0], Small(S, 0), value)
      BY <2>1 DEF IsSumOn
    <2> QED
      BY <2>2
  <1>5. n - 1 \in Nat /\ n - 1 \notin Bad
    BY <1>1, <1>2, <1>4
  <1>6. PICK g : IsSumOn(g, Small(S, n - 1), value)
    BY <1>5
  <1> DEFINE h == [T \in Small(S, n) |->
                     IF T = {} THEN 0 ELSE value[FirstOf(T)] + g[T \ {FirstOf(T)}]]
  <1>7. ASSUME NEW T \in Small(S, n), T # {}
        PROVE  /\ T \ {FirstOf(T)} \in Small(S, n - 1)
               /\ T \ {FirstOf(T)} \in Small(S, n)
               /\ FirstOf(T) \in S
    <2>1. T \in SUBSET S /\ Cardinality(T) <= n
      BY DEF Small
    <2>2. /\ FirstOf(T) \in S /\ T \ {FirstOf(T)} \in SUBSET S
          /\ Cardinality(T) \in Nat
          /\ Cardinality(T \ {FirstOf(T)}) = Cardinality(T) - 1
      BY <1>7, <2>1, FirstFacts
    <2> QED
      BY <1>2, <2>1, <2>2 DEF Small
  <1>8. \A T \in Small(S, n - 1) : T \in Small(S, n) /\ h[T] = g[T]
    <2>1. \A T \in Small(S, n - 1) : T \in Small(S, n)
      BY <1>2, <1>3 DEF Small
    <2> QED
      BY <1>6, <2>1 DEF IsSumOn
  <1>9. h \in [Small(S, n) -> Int]
    BY <1>6, <1>7 DEF IsSumOn
  <1>10. \A T \in Small(S, n) :
           h[T] = IF T = {} THEN 0 ELSE value[FirstOf(T)] + h[T \ {FirstOf(T)}]
    BY <1>7, <1>8
  <1>11. IsSumOn(h, Small(S, n), value)
    BY <1>9, <1>10 DEF IsSumOn
  <1> QED
    BY <1>11

\* A sum over a finite set is that of its first member and the rest.
LEMMA SumFacts ==
  ASSUME NEW S, IsFiniteSet(S), NEW value \in [S -> Int]
  PROVE  \E f : IsSumOn(f, SUBSET S, value) /\ SumOver(S, value) = f[S]
  <1>1. Cardinality(S) \in Nat /\ SUBSET S = Small(S, Cardinality(S))
    <2>1. Cardinality(S) \in Nat /\ \A T \in SUBSET S : Cardinality(T) <= Cardinality(S)
      BY FS_Subset, FS_CardinalityType
    <2>2. \A T : T \in SUBSET S <=> T \in Small(S, Cardinality(S))
      BY <2>1 DEF Small
    <2> QED
      BY <2>1, <2>2
  <1>2. PICK g : IsSumOn(g, SUBSET S, value)
    <2>1. \E g : IsSumOn(g, Small(S, Cardinality(S)), value)
      BY <1>1, SumExists
    <2> QED
      BY <1>1, <2>1, Zenon
  <1> DEFINE eq(f) == f = [T \in SUBSET S |->
                             IF T = {} THEN 0 ELSE value[FirstOf(T)] + f[T \ {FirstOf(T)}]]
             f == CHOOSE f : eq(f)
  <1>3. eq(g)
    BY <1>2 DEF IsSumOn
  <1>4. eq(f)
    BY <1>3
  <1>5. SumOver(S, value) = f[S]
    BY DEF SumOver, FirstOf
  <1> HIDE DEF f
  <1>6. \A T \in SUBSET S : f[T] \in Int
    <2> DEFINE Bad == {T \in SUBSET S : f[T] \notin Int}
    <2> SUFFICES ASSUME Bad # {} PROVE FALSE
      OBVIOUS
    <2>1. PICK T \in Bad : T # {} => T \ {FirstOf(T)} \notin Bad
      <3>1. Bad \subseteq SUBSET S
        OBVIOUS
      <3> HIDE DEF Bad
      <3> QED
        BY <3>1, SmallestBad
    <2>2. f[T] = IF T = {} THEN 0 ELSE value[FirstOf(T)] + f[T \ {FirstOf(T)}]
      BY <1>4
    <2>3. T # {} => FirstOf(T) \in S /\ T \ {FirstOf(T)} \in SUBSET S
      BY FirstFacts
    <2>4. T # {} => f[T \ {FirstOf(T)}] \in Int /\ value[FirstOf(T)] \in Int
      BY <2>1, <2>3
    <2> QED
      BY <2>1, <2>2, <2>4
  <1>7. IsSumOn(f, SUBSET S, value)
    BY <1>4, <1>6 DEF IsSumOn
  <1> QED
    BY <1>5, <1>7

\* Where each value is within p times another, so is the sum.
LEMMA SumCompares ==
  ASSUME NEW S, IsFiniteSet(S), NEW a \in [S -> Int], NEW b \in [S -> Int], NEW p \in Int
  PROVE  /\ SumOver(S, a) \in Int /\ SumOver(S, b) \in Int
         /\ (\A x \in S : a[x] <= p * b[x]) => SumOver(S, a) <= p * SumOver(S, b)
         /\ (\A x \in S : p * b[x] <= a[x]) => p * SumOver(S, b) <= SumOver(S, a)
  <1>1. PICK f : IsSumOn(f, SUBSET S, a) /\ SumOver(S, a) = f[S]
    BY SumFacts
  <1>2. PICK g : IsSumOn(g, SUBSET S, b) /\ SumOver(S, b) = g[S]
    BY SumFacts
  <1>3. f[S] \in Int /\ g[S] \in Int
    BY <1>1, <1>2 DEF IsSumOn
  <1>4. \A T \in SUBSET S : f[T] \in Int /\ g[T] \in Int
    BY <1>1, <1>2 DEF IsSumOn
  <1>5. f[{}] = 0 /\ g[{}] = 0
    BY <1>1, <1>2 DEF IsSumOn
  <1>6. \A T \in SUBSET S : T # {} =>
          /\ FirstOf(T) \in S /\ T \ {FirstOf(T)} \in SUBSET S
          /\ f[T] = a[FirstOf(T)] + f[T \ {FirstOf(T)}]
          /\ g[T] = b[FirstOf(T)] + g[T \ {FirstOf(T)}]
    BY <1>1, <1>2, FirstFacts DEF IsSumOn
  <1>7. ASSUME \A x \in S : a[x] <= p * b[x]
        PROVE  f[S] <= p * g[S]
    <2> DEFINE Bad == {T \in SUBSET S : ~(f[T] <= p * g[T])}
    <2> SUFFICES ASSUME Bad # {} PROVE FALSE
      OBVIOUS
    <2>1. PICK T \in Bad : T # {} => T \ {FirstOf(T)} \notin Bad
      <3>1. Bad \subseteq SUBSET S
        OBVIOUS
      <3> HIDE DEF Bad
      <3> QED
        BY <3>1, SmallestBad
    <2>2. T # {}
      <3>1. p * 0 = 0
        OBVIOUS
      <3>2. ASSUME T = {} PROVE f[T] = 0 /\ g[T] = 0
        BY <1>5, <3>2
      <3> QED
        BY <3>1, <3>2
    <2> DEFINE x == FirstOf(T)
               U == T \ {FirstOf(T)}
    <2>3. /\ x \in S /\ U \in SUBSET S
          /\ f[T] = a[x] + f[U] /\ g[T] = b[x] + g[U]
      BY <1>6, <2>2
    <2>4. f[U] <= p * g[U] /\ ~(f[T] <= p * g[T])
      BY <2>1, <2>2, <2>3
    <2> HIDE DEF x, U
    <2>5. a[x] \in Int /\ b[x] \in Int /\ f[U] \in Int /\ g[U] \in Int /\ a[x] <= p * b[x]
      BY <1>4, <1>7, <2>3
    <2>6. p * (b[x] + g[U]) = p * b[x] + p * g[U] /\ p * b[x] \in Int /\ p * g[U] \in Int
      BY <2>5
    <2> QED
      BY <2>3, <2>4, <2>5, <2>6
  <1>8. ASSUME \A x \in S : p * b[x] <= a[x]
        PROVE  p * g[S] <= f[S]
    <2> DEFINE Bad == {T \in SUBSET S : ~(p * g[T] <= f[T])}
    <2> SUFFICES ASSUME Bad # {} PROVE FALSE
      OBVIOUS
    <2>1. PICK T \in Bad : T # {} => T \ {FirstOf(T)} \notin Bad
      <3>1. Bad \subseteq SUBSET S
        OBVIOUS
      <3> HIDE DEF Bad
      <3> QED
        BY <3>1, SmallestBad
    <2>2. T # {}
      <3>1. p * 0 = 0
        OBVIOUS
      <3>2. ASSUME T = {} PROVE f[T] = 0 /\ g[T] = 0
        BY <1>5, <3>2
      <3> QED
        BY <3>1, <3>2
    <2> DEFINE x == FirstOf(T)
               U == T \ {FirstOf(T)}
    <2>3. /\ x \in S /\ U \in SUBSET S
          /\ f[T] = a[x] + f[U] /\ g[T] = b[x] + g[U]
      BY <1>6, <2>2
    <2>4. p * g[U] <= f[U] /\ ~(p * g[T] <= f[T])
      BY <2>1, <2>2, <2>3
    <2> HIDE DEF x, U
    <2>5. a[x] \in Int /\ b[x] \in Int /\ f[U] \in Int /\ g[U] \in Int /\ p * b[x] <= a[x]
      BY <1>4, <1>8, <2>3
    <2>6. p * (b[x] + g[U]) = p * b[x] + p * g[U] /\ p * b[x] \in Int /\ p * g[U] \in Int
      BY <2>5
    <2> QED
      BY <2>3, <2>4, <2>5, <2>6
  <1> QED
    BY <1>1, <1>2, <1>3, <1>7, <1>8

\* A sum of naturals is a natural.
LEMMA SumOfNaturals ==
  ASSUME NEW S, IsFiniteSet(S), NEW v \in [S -> Nat]
  PROVE  SumOver(S, v) \in Nat
  <1>1. v \in [S -> Int] /\ \A x \in S : 0 * v[x] <= v[x]
    OBVIOUS
  <1>2. SumOver(S, v) \in Int /\ 0 * SumOver(S, v) <= SumOver(S, v)
    BY <1>1, SumCompares
  <1> QED
    BY <1>2

\* Adding ones is counting.
LEMMA SumOfOnes ==
  ASSUME NEW S, IsFiniteSet(S)
  PROVE  SumOver(S, [x \in S |-> 1]) = Cardinality(S)
  <1> DEFINE one == [x \in S |-> 1]
  <1>0. one \in [S -> Int] /\ \A x \in S : one[x] = 1
    OBVIOUS
  <1>1. PICK f : IsSumOn(f, SUBSET S, one) /\ SumOver(S, one) = f[S]
    <2> HIDE DEF one
    <2> QED
      BY <1>0, SumFacts
  <1> DEFINE Bad == {T \in SUBSET S : f[T] # Cardinality(T)}
  <1>2. ASSUME Bad # {} PROVE FALSE
    <2>1. PICK T \in Bad : T # {} => T \ {FirstOf(T)} \notin Bad
      <3>1. Bad \subseteq SUBSET S
        OBVIOUS
      <3> HIDE DEF Bad
      <3> QED
        BY <1>2, <3>1, SmallestBad
    <2>2. T # {}
      BY <1>1, FS_EmptySet DEF IsSumOn
    <2>3. /\ FirstOf(T) \in S /\ T \ {FirstOf(T)} \in SUBSET S
          /\ Cardinality(T) \in Nat
          /\ Cardinality(T \ {FirstOf(T)}) = Cardinality(T) - 1
      BY <2>2, FirstFacts
    <2>4. f[T] = 1 + f[T \ {FirstOf(T)}]
      BY <1>0, <1>1, <2>2, <2>3 DEF IsSumOn
    <2>5. f[T \ {FirstOf(T)}] = Cardinality(T) - 1
      BY <2>1, <2>2, <2>3
    <2> QED
      BY <2>1, <2>3, <2>4, <2>5
  <1> QED
    BY <1>1, <1>2

\* Of a set of sets that is not empty, one has no smaller one beside it.
LEMMA LeastBad ==
  ASSUME NEW S, IsFiniteSet(S), NEW Bad, Bad \subseteq SUBSET S, Bad # {}
  PROVE  \E T \in Bad : \A x \in T : T \ {x} \notin Bad
  <1> DEFINE Sizes == {Cardinality(T) : T \in Bad}
  <1>1. Sizes \subseteq Nat /\ Sizes # {}
    BY FS_Subset, FS_CardinalityType
  <1>2. PICK n \in Sizes : \A m \in Sizes : n <= m
    <2> HIDE DEF Sizes
    <2> QED
      BY <1>1, LeastOfNaturals
  <1>3. PICK T \in Bad : n = Cardinality(T)
    BY <1>2
  <1>4. ASSUME NEW x \in T, T \ {x} \in Bad
        PROVE  FALSE
    <2>1. IsFiniteSet(T) /\ Cardinality(T) \in Nat
      BY FS_Subset, FS_CardinalityType
    <2>2. Cardinality(T \ {x}) = Cardinality(T) - 1
      BY <2>1, FS_RemoveElement
    <2>3. n <= Cardinality(T \ {x})
      BY <1>2, <1>4
    <2> QED
      BY <1>3, <2>1, <2>2, <2>3
  <1> QED
    BY <1>4

\* The values of a finite set have a largest one.
LEMMA LargestValue ==
  ASSUME NEW S, IsFiniteSet(S), S # {}, NEW h \in [S -> Int]
  PROVE  \E m \in S : \A k \in S : h[k] <= h[m]
  <1> DEFINE Bad == {T \in SUBSET S : T # {} /\ ~ \E m \in T : \A k \in T : h[k] <= h[m]}
  <1> SUFFICES ASSUME Bad # {} PROVE FALSE
    OBVIOUS
  <1>1. PICK T \in Bad : \A x \in T : T \ {x} \notin Bad
    <2>1. Bad \subseteq SUBSET S
      OBVIOUS
    <2> HIDE DEF Bad
    <2> QED
      BY <2>1, LeastBad
  <1>2. PICK x \in T : TRUE
    OBVIOUS
  <1>3. T \ {x} # {}
    <2> SUFFICES ASSUME T \ {x} = {} PROVE FALSE
      OBVIOUS
    <2>1. \A k \in T : k = x
      OBVIOUS
    <2> QED
      BY <2>1
  <1>4. PICK m \in T \ {x} : \A k \in T \ {x} : h[k] <= h[m]
    BY <1>1, <1>3
  <1>5. \A k \in T : k \in S /\ h[k] \in Int
    OBVIOUS
  <1>6. CASE h[x] <= h[m]
    <2>1. \A k \in T : h[k] <= h[m]
      BY <1>4, <1>6
    <2> QED
      BY <2>1
  <1>7. CASE ~(h[x] <= h[m])
    <2>1. \A k \in T : h[k] <= h[x]
      BY <1>4, <1>5, <1>7
    <2> QED
      BY <2>1
  <1> QED
    BY <1>6, <1>7

\* A sum does not depend on which member is taken first.
LEMMA SumWithout ==
  ASSUME NEW S, IsFiniteSet(S), NEW v \in [S -> Int], NEW f, IsSumOn(f, SUBSET S, v)
  PROVE  \A T \in SUBSET S : \A x \in T : f[T] = v[x] + f[T \ {x}]
  <1> DEFINE Bad == {T \in SUBSET S : \E x \in T : f[T] # v[x] + f[T \ {x}]}
  <1> SUFFICES ASSUME Bad # {} PROVE FALSE
    OBVIOUS
  <1>1. PICK T \in Bad : \A x \in T : T \ {x} \notin Bad
    <2>1. Bad \subseteq SUBSET S
      OBVIOUS
    <2> HIDE DEF Bad
    <2> QED
      BY <2>1, LeastBad
  <1>2. PICK x \in T : f[T] # v[x] + f[T \ {x}]
    OBVIOUS
  <1> DEFINE y == FirstOf(T)
  <1>3. y \in T
    BY <1>2 DEF FirstOf
  <1>4. f[T] = v[y] + f[T \ {y}]
    BY <1>2 DEF IsSumOn
  <1> HIDE DEF y
  <1>5. x # y
    BY <1>2, <1>4
  <1>6. x \in T \ {y} /\ y \in T \ {x} /\ T \ {x} \in SUBSET S /\ T \ {y} \in SUBSET S
    BY <1>3, <1>5
  <1>7. f[T \ {y}] = v[x] + f[(T \ {y}) \ {x}]
    BY <1>1, <1>3, <1>6
  <1>8. f[T \ {x}] = v[y] + f[(T \ {x}) \ {y}]
    BY <1>1, <1>6
  <1>9. (T \ {y}) \ {x} = (T \ {x}) \ {y}
    OBVIOUS
  <1>10. v[x] \in Int /\ v[y] \in Int /\ f[(T \ {x}) \ {y}] \in Int
    BY <1>3, <1>6 DEF IsSumOn
  <1>11. f[(T \ {y}) \ {x}] = f[(T \ {x}) \ {y}]
    BY <1>9
  <1>12. f[T] # v[x] + f[T \ {x}]
    BY <1>2
  <1> HIDE DEF Bad
  <1> QED
    BY <1>4, <1>7, <1>8, <1>10, <1>11, <1>12

\* Two sets without a common member add up.
LEMMA SumOfUnion ==
  ASSUME NEW S, IsFiniteSet(S), NEW v \in [S -> Int], NEW f, IsSumOn(f, SUBSET S, v)
  PROVE  \A A, B \in SUBSET S : A \cap B = {} => f[A \cup B] = f[A] + f[B]
  <1>00. ASSUME NEW U \in SUBSET S, NEW z \in U PROVE f[U] = v[z] + f[U \ {z}]
    BY SumWithout
  <1> SUFFICES ASSUME NEW A \in SUBSET S, NEW B \in SUBSET S, A \cap B = {}
               PROVE  f[A \cup B] = f[A] + f[B]
    OBVIOUS
  <1> DEFINE Bad == {T \in SUBSET B : f[A \cup T] # f[A] + f[T]}
  <1> SUFFICES ASSUME Bad # {} PROVE FALSE
    OBVIOUS
  <1>0. IsFiniteSet(B)
    BY FS_Subset
  <1>1. PICK T \in Bad : \A x \in T : T \ {x} \notin Bad
    <2>1. Bad \subseteq SUBSET B
      OBVIOUS
    <2> HIDE DEF Bad
    <2> QED
      BY <1>0, <2>1, LeastBad
  <1>2. \A U \in SUBSET S : f[U] \in Int
    BY DEF IsSumOn
  <1>3. T # {}
    <2> SUFFICES ASSUME T = {} PROVE FALSE
      OBVIOUS
    <2>1. f[{}] = 0 /\ A \cup T = A
      BY DEF IsSumOn
    <2> QED
      BY <1>2, <2>1
  <1>4. PICK x \in T : TRUE
    BY <1>3
  <1>5. T \ {x} \in SUBSET B /\ x \in S /\ x \in A \cup T /\ A \cup T \in SUBSET S /\ T \in SUBSET S
    OBVIOUS
  <1>6. (A \cup T) \ {x} = A \cup (T \ {x}) /\ A \cup (T \ {x}) \in SUBSET S
    OBVIOUS
  <1>7. f[A \cup (T \ {x})] = f[A] + f[T \ {x}]
    BY <1>1, <1>5
  <1>8. f[A \cup T] # f[A] + f[T]
    OBVIOUS
  <1> HIDE DEF Bad
  <1>9. f[A \cup T] = v[x] + f[A \cup (T \ {x})] /\ f[T] = v[x] + f[T \ {x}]
    <2>1. f[A \cup T] = v[x] + f[(A \cup T) \ {x}]
      BY <1>5, <1>00, Zenon
    <2>2. f[T] = v[x] + f[T \ {x}]
      BY <1>4, <1>5, <1>00, Zenon
    <2> QED
      BY <1>6, <2>1, <2>2, Zenon
  <1>10. v[x] \in Int /\ f[A] \in Int /\ f[T \ {x}] \in Int
    BY <1>2, <1>5
  <1> QED
    BY <1>7, <1>8, <1>9, <1>10

\* A sum over a part of a set.
LEMMA SumOfPart ==
  ASSUME NEW S, IsFiniteSet(S), NEW v \in [S -> Int], NEW f, IsSumOn(f, SUBSET S, v),
         NEW P \in SUBSET S, NEW w \in [P -> Int], \A x \in P : w[x] = v[x]
  PROVE  SumOver(P, w) = f[P]
  <1>0. IsFiniteSet(P)
    BY FS_Subset
  <1>1. PICK g : IsSumOn(g, SUBSET P, w) /\ SumOver(P, w) = g[P]
    BY <1>0, SumFacts
  <1> DEFINE Bad == {T \in SUBSET P : f[T] # g[T]}
  <1> SUFFICES ASSUME Bad # {} PROVE FALSE
    BY <1>1
  <1>2. PICK T \in Bad : \A x \in T : T \ {x} \notin Bad
    <2>1. Bad \subseteq SUBSET P
      OBVIOUS
    <2> HIDE DEF Bad
    <2> QED
      BY <1>0, <2>1, LeastBad
  <1>3. CASE T = {}
    BY <1>1, <1>3 DEF IsSumOn
  <1>4. CASE T # {}
    <2>1. PICK x \in T : TRUE
      BY <1>4
    <2>2. f[T] = v[x] + f[T \ {x}]
      BY <2>1, SumWithout
    <2>3. g[T] = w[x] + g[T \ {x}]
      BY <1>0, <1>1, <2>1, SumWithout
    <2>4. f[T \ {x}] = g[T \ {x}]
      BY <1>2, <2>1
    <2> QED
      BY <2>1, <2>2, <2>3, <2>4
  <1> QED
    BY <1>3, <1>4

\* f adds up v on the subsets of a finite set.
SumsUp(f, S, v) == IsFiniteSet(S) /\ v \in [S -> Int] /\ IsSumOn(f, SUBSET S, v)

\* A member of a set is taken from its sum.
LEMMA SumTakes ==
  ASSUME NEW S, NEW v, NEW f, SumsUp(f, S, v), NEW T \in SUBSET S, NEW x \in T
  PROVE  f[T] = v[x] + f[T \ {x}]
  BY SumWithout DEF SumsUp

\* w is u and v together.
Together(w, u, v, S) == \A x \in S : w[x] = u[x] + v[x]

\* The sum of two values is that of their sums.
LEMMA SumAdds ==
  ASSUME NEW S, NEW u, NEW v, NEW w, NEW f, NEW g, NEW h,
         SumsUp(f, S, u), SumsUp(g, S, v), SumsUp(h, S, w), Together(w, u, v, S)
  PROVE  \A T \in SUBSET S : h[T] = f[T] + g[T]
  <1> USE DEF SumsUp, Together
  <1> DEFINE Bad == {T \in SUBSET S : h[T] # f[T] + g[T]}
  <1> SUFFICES ASSUME Bad # {} PROVE FALSE
    OBVIOUS
  <1>1. PICK T \in Bad : \A x \in T : T \ {x} \notin Bad
    <2>1. Bad \subseteq SUBSET S
      OBVIOUS
    <2> HIDE DEF Bad
    <2> QED
      BY <2>1, LeastBad
  <1>0. f[{}] = 0 /\ g[{}] = 0 /\ h[{}] = 0
    <2>1. {} \in SUBSET S
      OBVIOUS
    <2> QED
      BY <2>1 DEF IsSumOn
  <1>2. CASE T = {}
    BY <1>0, <1>2
  <1>3. CASE T # {}
    <2>1. PICK x \in T : TRUE
      BY <1>3
    <2>2. f[T] = u[x] + f[T \ {x}] /\ g[T] = v[x] + g[T \ {x}] /\ h[T] = w[x] + h[T \ {x}]
      <3>1. f[T] = u[x] + f[T \ {x}]
        BY <2>1, SumWithout
      <3>2. g[T] = v[x] + g[T \ {x}]
        BY <2>1, SumWithout
      <3>3. h[T] = w[x] + h[T \ {x}]
        BY <2>1, SumWithout
      <3> QED
        BY <3>1, <3>2, <3>3
    <2>3. h[T \ {x}] = f[T \ {x}] + g[T \ {x}]
      BY <1>1, <2>1
    <2>4. u[x] \in Int /\ v[x] \in Int /\ f[T \ {x}] \in Int /\ g[T \ {x}] \in Int /\ x \in S
      BY <2>1 DEF IsSumOn
    <2>5. h[T] # f[T] + g[T]
      OBVIOUS
    <2> HIDE DEF Bad
    <2> QED
      BY <2>2, <2>3, <2>4, <2>5
  <1> QED
    BY <1>2, <1>3

\* a is b with the sign changed.
Negates(a, b, S) ==
  IsFiniteSet(S) /\ a \in [S -> Int] /\ b \in [S -> Int] /\ \A x \in S : a[x] = - b[x]

LEMMA SumNegates ==
  ASSUME NEW S, NEW a, NEW b, Negates(a, b, S)
  PROVE  SumOver(S, b) \in Int /\ SumOver(S, a) = - SumOver(S, b)
  <1> USE DEF Negates
  <1>1. PICK p \in Int : p = -1
    OBVIOUS
  <1>2. \A x \in S : a[x] \in Int /\ b[x] \in Int
    OBVIOUS
  <1>3. \A x \in S : a[x] <= p * b[x] /\ p * b[x] <= a[x]
    BY <1>1, <1>2
  <1>4. /\ SumOver(S, a) \in Int /\ SumOver(S, b) \in Int
        /\ SumOver(S, a) <= p * SumOver(S, b)
        /\ p * SumOver(S, b) <= SumOver(S, a)
    BY <1>1, <1>3, SumCompares
  <1> QED
    BY <1>1, <1>4

\* t has the sums of the groups that a key makes.
OfGroups(t, K, key, f, S) ==
  /\ IsFiniteSet(K) /\ key \in [S -> K] /\ t \in [K -> Int]
  /\ \A k \in K : t[k] = f[{x \in S : key[x] = k}]

\* Grouped by a key, the groups add up to the whole.
LEMMA SumByKey ==
  ASSUME NEW S, NEW v, NEW f, SumsUp(f, S, v), NEW K, NEW key, NEW t, OfGroups(t, K, key, f, S)
  PROVE  SumOver(K, t) = f[S]
  <1> USE DEF SumsUp, OfGroups
  <1>1. PICK g : IsSumOn(g, SUBSET K, t) /\ SumOver(K, t) = g[K]
    BY SumFacts
  <1>00. \A A, B \in SUBSET S : A \cap B = {} => f[A \cup B] = f[A] + f[B]
    BY SumOfUnion
  <1> DEFINE Of(L) == {x \in S : key[x] \in L}
             Bad   == {L \in SUBSET K : g[L] # f[Of(L)]}
  <1>2. Of(K) = S
    OBVIOUS
  <1> SUFFICES ASSUME Bad # {} PROVE FALSE
    BY <1>1, <1>2
  <1>3. PICK L \in Bad : \A k \in L : L \ {k} \notin Bad
    <2>1. Bad \subseteq SUBSET K
      OBVIOUS
    <2> HIDE DEF Bad
    <2> QED
      BY <2>1, LeastBad
  <1>4. CASE L = {}
    <2>1. Of(L) = {}
      BY <1>4
    <2> QED
      BY <1>1, <1>4, <2>1 DEF IsSumOn
  <1>5. CASE L # {}
    <2>1. PICK k \in L : TRUE
      BY <1>5
    <2> DEFINE Group == {x \in S : key[x] = k}
    <2>2. g[L] = t[k] + g[L \ {k}]
      BY <1>1, <2>1, SumWithout
    <2>3. g[L \ {k}] = f[Of(L \ {k})]
      BY <1>3, <2>1
    <2>4. Of(L) = Of(L \ {k}) \cup Group /\ Of(L \ {k}) \cap Group = {}
      BY <2>1
    <2>5. Of(L \ {k}) \in SUBSET S /\ Group \in SUBSET S
      OBVIOUS
    <2>6. g[L] # f[Of(L)]
      OBVIOUS
    <2>7. t[k] = f[Group]
      BY <2>1
    <2> HIDE DEF Group, Of, Bad
    <2>8. f[Of(L)] = f[Of(L \ {k})] + f[Group]
      <3> QED
        BY <2>4, <2>5, <1>00, Zenon
    <2>9. f[Of(L \ {k})] \in Int /\ f[Group] \in Int
      BY <2>5 DEF IsSumOn
    <2> QED
      BY <2>2, <2>3, <2>6, <2>7, <2>8, <2>9
  <1> QED
    BY <1>4, <1>5

\* The parts of a set have their own sums.
LEMMA SumSplits ==
  ASSUME NEW S, NEW v, NEW f, SumsUp(f, S, v), NEW A \in SUBSET S, NEW B \in SUBSET S, A \cap B = {}
  PROVE  f[A \cup B] = f[A] + f[B]
  BY SumOfUnion DEF SumsUp

\* A sum of the same value.
LEMMA SumOfSame ==
  ASSUME NEW S, NEW w, NEW k \in Int, IsFiniteSet(S), w = [x \in S |-> k]
  PROVE  SumOver(S, w) = k * Cardinality(S)
  <1> DEFINE one == [x \in S |-> 1]
  <1>1. PICK u : u = one
    OBVIOUS
  <1>2. w \in [S -> Int] /\ u \in [S -> Int]
    BY <1>1
  <1>3. SumOver(S, u) = Cardinality(S) /\ Cardinality(S) \in Int
    BY <1>1, SumOfOnes, FS_CardinalityType
  <1>4. \A x \in S : w[x] <= k * u[x] /\ k * u[x] <= w[x]
    <2>1. k * 1 = k
      OBVIOUS
    <2>2. \A x \in S : w[x] = k /\ u[x] = 1
      BY <1>1
    <2> QED
      BY <2>1, <2>2
  <1>5. SumOver(S, w) \in Int /\ SumOver(S, w) <= k * SumOver(S, u) /\ k * SumOver(S, u) <= SumOver(S, w)
    BY <1>2, <1>4, SumCompares
  <1> HIDE DEF one
  <1>6. k * SumOver(S, u) \in Int
    BY <1>3
  <1>7. SumOver(S, w) = k * SumOver(S, u)
    BY <1>5, <1>6
  <1> QED
    BY <1>3, <1>7

---------------------------------------------------------------------------
(* What is kept of a sequence, and sequences after one another.            *)

\* k has what is kept of the first members of s.
IsKept(k, s, chosen, n, S) ==
  /\ k \in [0 .. n -> Seq(S)]
  /\ \A m \in 0 .. n :
       k[m] = IF m = 0 THEN <<>>
              ELSE IF m \in chosen THEN Append(k[m - 1], s[m]) ELSE k[m - 1]

LEMMA KeptExists ==
  ASSUME NEW S, NEW s \in Seq(S), NEW chosen
  PROVE  \A n \in 0 .. Len(s) : \E k : IsKept(k, s, chosen, n, S)
  <1> DEFINE Bad == {n \in 0 .. Len(s) : ~ \E k : IsKept(k, s, chosen, n, S)}
  <1> SUFFICES ASSUME Bad # {} PROVE FALSE
    OBVIOUS
  <1>0. Len(s) \in Nat /\ \A m \in 1 .. Len(s) : s[m] \in S
    OBVIOUS
  <1>1. PICK n \in Bad : \A m \in Bad : n <= m
    <2>1. Bad \subseteq Nat
      BY <1>0
    <2> HIDE DEF Bad
    <2> QED
      BY <2>1, LeastOfNaturals
  <1>2. n \in 0 .. Len(s) /\ n \in Int
    BY <1>0
  <1>3. ~ \E k : IsKept(k, s, chosen, n, S)
    OBVIOUS
  <1>4. CASE n = 0
    <2> DEFINE k == [m \in 0 .. 0 |-> <<>>]
    <2>1. <<>> \in Seq(S)
      BY EmptySeq
    <2>2. \A m \in 0 .. 0 : m = 0
      OBVIOUS
    <2>3. k \in [0 .. 0 -> Seq(S)] /\ \A m \in 0 .. 0 : k[m] = <<>>
      BY <2>1
    <2> HIDE DEF k
    <2>4. IsKept(k, s, chosen, 0, S)
      BY <2>2, <2>3 DEF IsKept
    <2> QED
      BY <1>3, <1>4, <2>4
  <1>5. CASE n # 0
    <2>1. n - 1 \in 0 .. Len(s) /\ ~(n <= n - 1) /\ n \in 1 .. Len(s)
      BY <1>0, <1>2, <1>5
    <2>2. n - 1 \notin Bad
      BY <1>1, <2>1
    <2>3. PICK g : IsKept(g, s, chosen, n - 1, S)
      BY <2>1, <2>2
    <2> HIDE DEF Bad
    <2> DEFINE k == [m \in 0 .. n |->
                       IF m = n THEN IF n \in chosen THEN Append(g[n - 1], s[n]) ELSE g[n - 1]
                       ELSE g[m]]
    <2>4. \A m \in 0 .. n : m = n \/ (m \in 0 .. n - 1 /\ m # n)
      BY <1>2
    <2>5. \A m \in 0 .. n - 1 : m \in 0 .. n /\ m # n /\ k[m] = g[m] /\ g[m] \in Seq(S)
      BY <1>2, <2>3 DEF IsKept
    <2>6. n \in 0 .. n /\ n - 1 \in 0 .. n - 1
      BY <1>2, <1>5
    <2>7. k[n] = IF n \in chosen THEN Append(k[n - 1], s[n]) ELSE k[n - 1]
      BY <2>5, <2>6
    <2>8. k[n] \in Seq(S)
      <3>1. k[n - 1] \in Seq(S) /\ s[n] \in S
        BY <1>0, <2>1, <2>5, <2>6
      <3>2. Append(k[n - 1], s[n]) \in Seq(S)
        BY <3>1
      <3> HIDE DEF k
      <3> QED
        BY <2>7, <3>1, <3>2
    <2>9. k = [m \in 0 .. n |-> k[m]]
      OBVIOUS
    <2> HIDE DEF k
    <2>10. k \in [0 .. n -> Seq(S)]
      <3>1. \A m \in 0 .. n : k[m] \in Seq(S)
        BY <2>4, <2>5, <2>8
      <3> QED
        BY <2>9, <3>1
    <2>11. \A m \in 0 .. n - 1 : m # 0 => m - 1 \in 0 .. n - 1
      BY <1>2
    <2>12. ASSUME NEW m \in 0 .. n
           PROVE  k[m] = IF m = 0 THEN <<>>
                         ELSE IF m \in chosen THEN Append(k[m - 1], s[m]) ELSE k[m - 1]
      <3>1. CASE m = n
        BY <1>5, <2>7, <3>1
      <3>2. CASE m # n
        <4>1. m \in 0 .. n - 1
          BY <2>4, <3>2
        <4>2. g[m] = IF m = 0 THEN <<>>
                     ELSE IF m \in chosen THEN Append(g[m - 1], s[m]) ELSE g[m - 1]
          BY <2>3, <4>1 DEF IsKept
        <4>3. m # 0 => k[m - 1] = g[m - 1]
          BY <2>5, <2>11, <4>1
        <4> QED
          BY <2>5, <4>1, <4>2, <4>3
      <3> QED
        BY <3>1, <3>2
    <2>13. IsKept(k, s, chosen, n, S)
      BY <2>10, <2>12 DEF IsKept
    <2> QED
      BY <1>3, <2>13
  <1> QED
    BY <1>4, <1>5

\* What is kept of all members of a sequence.
LEMMA KeptFacts ==
  ASSUME NEW S, NEW s \in Seq(S), NEW chosen
  PROVE  \E k : IsKept(k, s, chosen, Len(s), S) /\ ItemsAt(s, chosen) = k[Len(s)]
  <1> DEFINE N == Len(s)
             eq(k) == k = [n \in 0 .. N |->
                             IF n = 0 THEN <<>>
                             ELSE IF n \in chosen THEN Append(k[n - 1], s[n]) ELSE k[n - 1]]
             kept == CHOOSE k : eq(k)
  <1>0. N \in Nat /\ N \in 0 .. N
    OBVIOUS
  <1>1. PICK g : IsKept(g, s, chosen, N, S)
    BY <1>0, KeptExists
  <1>2. eq(g)
    <2>1. g = [n \in 0 .. N |-> g[n]]
      BY <1>1 DEF IsKept
    <2>2. \A n \in 0 .. N :
            g[n] = IF n = 0 THEN <<>>
                   ELSE IF n \in chosen THEN Append(g[n - 1], s[n]) ELSE g[n - 1]
      BY <1>1 DEF IsKept
    <2> QED
      BY <2>1, <2>2, Zenon
  <1>3. eq(kept)
    <2> HIDE DEF eq
    <2> QED
      BY <1>2
  <1>4. ItemsAt(s, chosen) = kept[N]
    BY DEF ItemsAt
  <1> HIDE DEF kept
  <1>5. \A n \in 0 .. N : kept[n] = IF n = 0 THEN <<>>
                                    ELSE IF n \in chosen THEN Append(kept[n - 1], s[n])
                                    ELSE kept[n - 1]
    BY <1>3, Zenon
  <1> DEFINE Bad == {n \in 0 .. N : kept[n] \notin Seq(S)}
  <1>6. Bad = {}
    <2> SUFFICES ASSUME Bad # {} PROVE FALSE
      OBVIOUS
    <2>1. PICK n \in Bad : \A m \in Bad : n <= m
      <3>1. Bad \subseteq Nat
        BY <1>0
      <3> HIDE DEF Bad
      <3> QED
        BY <3>1, LeastOfNaturals
    <2>2. n \in 0 .. N /\ n \in Int /\ kept[n] \notin Seq(S)
      BY <1>0
    <2>3. CASE n = 0
      BY <1>5, <2>2, <2>3, EmptySeq
    <2>4. CASE n # 0
      <3>1. n - 1 \in 0 .. N /\ ~(n <= n - 1) /\ n \in 1 .. Len(s)
        BY <1>0, <2>2, <2>4
      <3>2. kept[n - 1] \in Seq(S) /\ s[n] \in S
        BY <2>1, <3>1
      <3>3. Append(kept[n - 1], s[n]) \in Seq(S)
        BY <3>2
      <3> QED
        BY <1>5, <2>2, <2>4, <3>2, <3>3
    <2> QED
      BY <2>3, <2>4
  <1>7. kept \in [0 .. N -> Seq(S)]
    <2>1. kept = [n \in 0 .. N |-> kept[n]]
      BY <1>3, Zenon
    <2>2. \A n \in 0 .. N : kept[n] \in Seq(S)
      BY <1>6
    <2> QED
      BY <2>1, <2>2
  <1>8. IsKept(kept, s, chosen, N, S)
    BY <1>5, <1>7 DEF IsKept
  <1> QED
    BY <1>4, <1>8

\* What is kept of a sequence is a sequence of the same kind.
LEMMA ItemsFacts ==
  ASSUME NEW S, NEW s \in Seq(S), NEW chosen
  PROVE  ItemsAt(s, chosen) \in Seq(S)
  <1>1. PICK k : IsKept(k, s, chosen, Len(s), S) /\ ItemsAt(s, chosen) = k[Len(s)]
    BY KeptFacts
  <1>2. Len(s) \in 0 .. Len(s)
    OBVIOUS
  <1> QED
    BY <1>1, <1>2 DEF IsKept

\* What is kept of a sequence is of the kind of the chosen items.
LEMMA KeptKind ==
  ASSUME NEW S, NEW s \in Seq(S), NEW chosen, NEW P \in SUBSET S,
         \A i \in DOMAIN s : i \in chosen => s[i] \in P
  PROVE  ItemsAt(s, chosen) \in Seq(P)
  <1>1. PICK k : IsKept(k, s, chosen, Len(s), S) /\ ItemsAt(s, chosen) = k[Len(s)]
    BY KeptFacts
  <1> DEFINE N == Len(s)
             Bad == {m \in 0 .. N : k[m] \notin Seq(P)}
  <1>2. N \in Nat /\ N \in 0 .. N /\ DOMAIN s = 1 .. N
    OBVIOUS
  <1>3. SUFFICES ASSUME Bad # {} PROVE FALSE
    BY <1>1, <1>2
  <1>4. Bad \subseteq Nat
    BY <1>2
  <1>5. PICK m \in Bad : \A j \in Bad : m <= j
    <2> HIDE DEF Bad
    <2> QED
      BY <1>3, <1>4, LeastOfNaturals
  <1>6. m \in 0 .. N /\ k[m] \notin Seq(P)
    BY <1>5
  <1>7. m # 0
    <2>1. k[0] = <<>>
      BY <1>1, <1>2 DEF IsKept
    <2>2. <<>> \in Seq(P)
      BY EmptySeq
    <2> QED
      BY <1>6, <2>1, <2>2
  <1>8. m - 1 \in 0 .. N /\ m - 1 \notin Bad /\ m \in 1 .. N
    BY <1>2, <1>5, <1>6, <1>7
  <1>9. k[m - 1] \in Seq(P)
    BY <1>8
  <1>10. k[m] = IF m \in chosen THEN Append(k[m - 1], s[m]) ELSE k[m - 1]
    BY <1>1, <1>6, <1>7 DEF IsKept
  <1>11. m \in chosen => s[m] \in P
    BY <1>2, <1>8
  <1>12. k[m] \in Seq(P)
    BY <1>9, <1>10, <1>11, AppendProperties
  <1> QED
    BY <1>6, <1>12

\* Of two sequences, one after the other, the indices chosen.
ChosenOfBoth(s, t, c, d, e) ==
  /\ \A i \in 1 .. Len(s) : i \in e <=> i \in c
  /\ \A i \in 1 .. Len(t) : Len(s) + i \in e <=> i \in d

\* What is kept of two sequences is kept of each.
LEMMA ItemsOfBoth ==
  ASSUME NEW S, NEW s \in Seq(S), NEW t \in Seq(S), NEW c, NEW d, NEW e, ChosenOfBoth(s, t, c, d, e)
  PROVE  ItemsAt(s \o t, e) = ItemsAt(s, c) \o ItemsAt(t, d)
  <1>0. PICK u \in Seq(S) : u = s \o t
    BY ConcatProperties
  <1>1. PICK M \in Nat, N \in Nat : M = Len(s) /\ N = Len(t)
    OBVIOUS
  <1>2. /\ Len(u) = M + N
        /\ \A i \in 1 .. M : u[i] = s[i] /\ s[i] \in S
        /\ \A i \in 1 .. N : u[M + i] = t[i] /\ t[i] \in S
    BY <1>0, <1>1
  <1>3. PICK f : IsKept(f, s, c, M, S) /\ ItemsAt(s, c) = f[M]
    BY <1>1, KeptFacts
  <1>4. PICK g : IsKept(g, t, d, N, S) /\ ItemsAt(t, d) = g[N]
    BY <1>1, KeptFacts
  <1>5. PICK h : IsKept(h, u, e, M + N, S) /\ ItemsAt(u, e) = h[M + N]
    <2>1. PICK h : IsKept(h, u, e, Len(u), S) /\ ItemsAt(u, e) = h[Len(u)]
      BY KeptFacts
    <2> QED
      BY <1>2, <2>1
  <1>6. /\ \A n \in 0 .. M : f[n] \in Seq(S)
        /\ \A n \in 0 .. M : f[n] = IF n = 0 THEN <<>>
                                    ELSE IF n \in c THEN Append(f[n - 1], s[n]) ELSE f[n - 1]
    BY <1>3 DEF IsKept
  <1>7. /\ \A n \in 0 .. N : g[n] \in Seq(S)
        /\ \A n \in 0 .. N : g[n] = IF n = 0 THEN <<>>
                                    ELSE IF n \in d THEN Append(g[n - 1], t[n]) ELSE g[n - 1]
    BY <1>4 DEF IsKept
  <1>8. \A n \in 0 .. M + N : h[n] = IF n = 0 THEN <<>>
                                     ELSE IF n \in e THEN Append(h[n - 1], u[n]) ELSE h[n - 1]
    BY <1>5 DEF IsKept
  <1>9. (\A i \in 1 .. M : i \in e <=> i \in c) /\ (\A i \in 1 .. N : M + i \in e <=> i \in d)
    BY <1>1 DEF ChosenOfBoth
  <1> DEFINE Bad == {n \in 0 .. M : h[n] # f[n]}
  <1>10. Bad = {}
    <2> SUFFICES ASSUME Bad # {} PROVE FALSE
      OBVIOUS
    <2>1. PICK n \in Bad : \A m \in Bad : n <= m
      <3>1. Bad \subseteq Nat
        OBVIOUS
      <3> HIDE DEF Bad
      <3> QED
        BY <3>1, LeastOfNaturals
    <2>2. n \in 0 .. M /\ n \in 0 .. M + N /\ h[n] # f[n]
      OBVIOUS
    <2>3. CASE n = 0
      BY <1>6, <1>8, <2>2, <2>3
    <2>4. CASE n # 0
      <3>1. n - 1 \in 0 .. M /\ ~(n <= n - 1) /\ n \in 1 .. M
        BY <2>2, <2>4
      <3>2. h[n - 1] = f[n - 1]
        BY <2>1, <3>1
      <3>3. f[n] = IF n \in c THEN Append(f[n - 1], s[n]) ELSE f[n - 1]
        BY <1>6, <2>2, <2>4
      <3>4. h[n] = IF n \in e THEN Append(h[n - 1], u[n]) ELSE h[n - 1]
        BY <1>8, <2>2, <2>4
      <3>5. (n \in e <=> n \in c) /\ u[n] = s[n]
        BY <1>2, <1>9, <3>1
      <3> HIDE DEF Bad
      <3>6. h[n] = f[n]
        BY <3>2, <3>3, <3>4, <3>5
      <3> QED
        BY <2>2, <3>6
    <2> QED
      BY <2>3, <2>4
  <1>11. h[M] = f[M] /\ f[M] \in Seq(S)
    BY <1>6, <1>10
  <1> DEFINE so(n) == h[M + n] = f[M] \o g[n]
             Worse == {n \in 0 .. N : ~so(n)}
  <1> HIDE DEF so
  <1>12. Worse = {}
    <2> SUFFICES ASSUME Worse # {} PROVE FALSE
      OBVIOUS
    <2>1. PICK n \in Worse : \A m \in Worse : n <= m
      <3>1. Worse \subseteq Nat
        OBVIOUS
      <3> HIDE DEF Worse
      <3> QED
        BY <3>1, LeastOfNaturals
    <2>2. n \in 0 .. N /\ M + n \in 0 .. M + N /\ ~so(n)
      OBVIOUS
    <2>3. CASE n = 0
      <3>1. M + n = M /\ g[n] = <<>>
        BY <1>7, <2>2, <2>3
      <3>2. f[M] \o <<>> = f[M]
        BY <1>11, ConcatEmptySeq
      <3> QED
        BY <1>11, <2>2, <3>1, <3>2 DEF so
    <2>4. CASE n # 0
      <3>1. n - 1 \in 0 .. N /\ ~(n <= n - 1) /\ n \in 1 .. N /\ M + n # 0 /\ M + n - 1 = M + (n - 1)
        BY <2>2, <2>4
      <3>2. h[M + (n - 1)] = f[M] \o g[n - 1]
        BY <2>1, <3>1 DEF so
      <3>3. g[n] = IF n \in d THEN Append(g[n - 1], t[n]) ELSE g[n - 1]
        BY <1>7, <2>2, <2>4
      <3>4. h[M + n] = IF M + n \in e THEN Append(h[M + (n - 1)], u[M + n]) ELSE h[M + (n - 1)]
        BY <1>8, <2>2, <3>1
      <3>5. (M + n \in e <=> n \in d) /\ u[M + n] = t[n] /\ t[n] \in S /\ g[n - 1] \in Seq(S)
        BY <1>2, <1>7, <1>9, <3>1
      <3> HIDE DEF Worse, Bad
      <3>6. Append(f[M] \o g[n - 1], t[n]) = f[M] \o Append(g[n - 1], t[n])
        <4>1. PICK p \in Seq(S), q \in Seq(S), x \in S : p = f[M] /\ q = g[n - 1] /\ x = t[n]
          BY <1>11, <3>5
        <4>2. <<x>> \in Seq(S)
          OBVIOUS
        <4>3. (p \o q) \o <<x>> = p \o (q \o <<x>>)
          BY <4>2, ConcatAssociative
        <4>4. Append(p \o q, x) = (p \o q) \o <<x>> /\ Append(q, x) = q \o <<x>>
          BY AppendIsConcat
        <4> QED
          BY <4>1, <4>3, <4>4
      <3>7. h[M + n] = f[M] \o g[n]
        BY <3>2, <3>3, <3>4, <3>5, <3>6
      <3> QED
        BY <2>2, <3>7 DEF so
    <2> QED
      BY <2>3, <2>4
  <1>13. h[M + N] = f[M] \o g[N]
    <2>1. N \in 0 .. N
      OBVIOUS
    <2>2. so(N)
      BY <1>12, <2>1
    <2> QED
      BY <2>2 DEF so
  <1> QED
    BY <1>0, <1>3, <1>4, <1>5, <1>13

\* j has the joined first sequences of parts.
IsJoined(j, parts, n, S) ==
  /\ j \in [0 .. n -> Seq(S)]
  /\ \A k \in 0 .. n : j[k] = IF k = 0 THEN <<>> ELSE j[k - 1] \o parts[k]

LEMMA JoinExists ==
  ASSUME NEW S, NEW parts \in Seq(Seq(S))
  PROVE  \A n \in 0 .. Len(parts) : \E j : IsJoined(j, parts, n, S)
  <1> DEFINE Bad == {n \in 0 .. Len(parts) : ~ \E j : IsJoined(j, parts, n, S)}
  <1> SUFFICES ASSUME Bad # {} PROVE FALSE
    OBVIOUS
  <1>0. Len(parts) \in Nat /\ \A k \in 1 .. Len(parts) : parts[k] \in Seq(S)
    OBVIOUS
  <1>1. PICK n \in Bad : \A m \in Bad : n <= m
    <2>1. Bad \subseteq Nat
      BY <1>0
    <2> HIDE DEF Bad
    <2> QED
      BY <2>1, LeastOfNaturals
  <1>2. n \in 0 .. Len(parts) /\ n \in Int
    BY <1>0
  <1>3. ~ \E j : IsJoined(j, parts, n, S)
    OBVIOUS
  <1>4. CASE n = 0
    <2> DEFINE j == [k \in 0 .. 0 |-> <<>>]
    <2>1. <<>> \in Seq(S)
      BY EmptySeq
    <2>2. \A k \in 0 .. 0 : k = 0
      OBVIOUS
    <2>3. j \in [0 .. 0 -> Seq(S)] /\ \A k \in 0 .. 0 : j[k] = <<>>
      BY <2>1
    <2> HIDE DEF j
    <2>4. IsJoined(j, parts, 0, S)
      BY <2>2, <2>3 DEF IsJoined
    <2> QED
      BY <1>3, <1>4, <2>4
  <1>5. CASE n # 0
    <2>1. n - 1 \in 0 .. Len(parts) /\ ~(n <= n - 1) /\ n \in 1 .. Len(parts)
      BY <1>0, <1>2, <1>5
    <2>2. PICK g : IsJoined(g, parts, n - 1, S)
      BY <1>1, <2>1
    <2> HIDE DEF Bad
    <2> DEFINE j == [k \in 0 .. n |-> IF k = n THEN g[n - 1] \o parts[n] ELSE g[k]]
    <2>3. \A k \in 0 .. n : k = n \/ (k \in 0 .. n - 1 /\ k # n)
      BY <1>2
    <2>4. \A k \in 0 .. n - 1 : k \in 0 .. n /\ k # n /\ g[k] \in Seq(S)
      BY <1>2, <2>2 DEF IsJoined
    <2>5. \A k \in 0 .. n - 1 : j[k] = g[k]
      BY <2>4
    <2>6. n \in 0 .. n /\ n - 1 \in 0 .. n - 1
      BY <1>2, <1>5
    <2>7. j[n] = g[n - 1] \o parts[n]
      BY <2>6
    <2>8. j = [k \in 0 .. n |-> j[k]]
      OBVIOUS
    <2> HIDE DEF j
    <2>9. j[n] \in Seq(S)
      BY <1>0, <2>1, <2>4, <2>6, <2>7, ConcatProperties
    <2>10. j \in [0 .. n -> Seq(S)]
      <3>1. \A k \in 0 .. n : j[k] \in Seq(S)
        BY <2>3, <2>4, <2>5, <2>9
      <3> QED
        BY <2>8, <3>1
    <2>11. \A k \in 0 .. n - 1 : k # 0 => k - 1 \in 0 .. n - 1
      BY <1>2
    <2>12. ASSUME NEW k \in 0 .. n
           PROVE  j[k] = IF k = 0 THEN <<>> ELSE j[k - 1] \o parts[k]
      <3>1. CASE k = n
        BY <1>5, <2>5, <2>6, <2>7, <3>1
      <3>2. CASE k # n
        <4>1. k \in 0 .. n - 1
          BY <2>3, <3>2
        <4>2. g[k] = IF k = 0 THEN <<>> ELSE g[k - 1] \o parts[k]
          BY <2>2, <4>1 DEF IsJoined
        <4>3. j[k] = g[k] /\ (k # 0 => j[k - 1] = g[k - 1])
          BY <2>5, <2>11, <4>1
        <4> QED
          BY <4>2, <4>3
      <3> QED
        BY <3>1, <3>2
    <2>13. IsJoined(j, parts, n, S)
      BY <2>10, <2>12 DEF IsJoined
    <2> QED
      BY <1>3, <2>13
  <1> QED
    BY <1>4, <1>5

\* Sequences are joined one by one.
LEMMA JoinFacts ==
  ASSUME NEW S, NEW parts \in Seq(Seq(S))
  PROVE  /\ \A n \in 0 .. Len(parts) : JoinedTo(parts, n) \in Seq(S)
         /\ JoinedTo(parts, 0) = <<>>
         /\ \A n \in 1 .. Len(parts) : JoinedTo(parts, n) = JoinedTo(parts, n - 1) \o parts[n]
  <1> DEFINE N == Len(parts)
             eq(j) == j = [k \in 0 .. N |-> IF k = 0 THEN <<>> ELSE j[k - 1] \o parts[k]]
             upTo == CHOOSE j : eq(j)
  <1>0. N \in Nat /\ N \in 0 .. N /\ 0 \in 0 .. N /\ \A k \in 1 .. N : parts[k] \in Seq(S)
    OBVIOUS
  <1>1. PICK g : IsJoined(g, parts, N, S)
    BY <1>0, JoinExists
  <1>2. eq(g)
    <2>1. g = [k \in 0 .. N |-> g[k]]
      BY <1>1 DEF IsJoined
    <2>2. \A k \in 0 .. N : g[k] = IF k = 0 THEN <<>> ELSE g[k - 1] \o parts[k]
      BY <1>1 DEF IsJoined
    <2> QED
      BY <2>1, <2>2, Zenon
  <1>3. eq(upTo)
    <2> HIDE DEF eq
    <2> QED
      BY <1>2
  <1>4. \A n : JoinedTo(parts, n) = upTo[n]
    BY DEF JoinedTo
  <1> HIDE DEF upTo
  <1>5. \A n \in 0 .. N : upTo[n] = IF n = 0 THEN <<>> ELSE upTo[n - 1] \o parts[n]
    BY <1>3, Zenon
  <1> DEFINE Bad == {n \in 0 .. N : upTo[n] \notin Seq(S)}
  <1>6. Bad = {}
    <2> SUFFICES ASSUME Bad # {} PROVE FALSE
      OBVIOUS
    <2>1. PICK n \in Bad : \A m \in Bad : n <= m
      <3>1. Bad \subseteq Nat
        BY <1>0
      <3> HIDE DEF Bad
      <3> QED
        BY <3>1, LeastOfNaturals
    <2>2. n \in 0 .. N /\ n \in Int /\ upTo[n] \notin Seq(S)
      BY <1>0
    <2>3. CASE n = 0
      BY <1>5, <2>2, <2>3, EmptySeq
    <2>4. CASE n # 0
      <3>1. n - 1 \in 0 .. N /\ ~(n <= n - 1) /\ n \in 1 .. N
        BY <1>0, <2>2, <2>4
      <3>2. upTo[n - 1] \in Seq(S) /\ parts[n] \in Seq(S)
        BY <1>0, <2>1, <3>1
      <3>3. upTo[n - 1] \o parts[n] \in Seq(S)
        BY <3>2, ConcatProperties
      <3> QED
        BY <1>5, <2>2, <2>4, <3>3
    <2> QED
      BY <2>3, <2>4
  <1>7. \A n \in 1 .. N : n \in 0 .. N /\ n # 0
    OBVIOUS
  <1>8. \A n \in 0 .. N : upTo[n] \in Seq(S)
    BY <1>6
  <1> HIDE DEF Bad, N, eq
  <1>9. \A n \in 1 .. N : upTo[n] = upTo[n - 1] \o parts[n]
    BY <1>5, <1>7
  <1>10. upTo[0] = <<>>
    BY <1>0, <1>5
  <1> QED
    BY <1>4, <1>8, <1>9, <1>10 DEF N

\* What is joined of a part is where the whole begins.
LEMMA JoinedBegins ==
  ASSUME NEW S, NEW parts \in Seq(Seq(S))
  PROVE  \A n \in 0 .. Len(parts) :
           \E rest \in Seq(S) : JoinedTo(parts, Len(parts)) = JoinedTo(parts, n) \o rest
  <1>0. PICK N \in Nat : N = Len(parts)
    OBVIOUS
  <1>1. PICK all : N = Len(parts) /\ all = JoinedTo(parts, N)
    BY <1>0
  <1> DEFINE begins(n) == \E rest \in Seq(S) : all = JoinedTo(parts, n) \o rest
             Bad == {k \in 0 .. N : ~begins(N - k)}
  <1> HIDE DEF begins
  <1>2. Bad = {}
    <2> SUFFICES ASSUME Bad # {} PROVE FALSE
      OBVIOUS
    <2>1. PICK k \in Bad : \A m \in Bad : k <= m
      <3>1. Bad \subseteq Nat
        OBVIOUS
      <3> HIDE DEF Bad
      <3> QED
        BY <3>1, LeastOfNaturals
    <2>2. k \in 0 .. N /\ ~begins(N - k)
      OBVIOUS
    <2>3. CASE k = 0
      <3>1. N - k = N /\ N \in 0 .. Len(parts)
        BY <1>1, <2>3
      <3>2. all \in Seq(S)
        BY <1>1, <3>1, JoinFacts
      <3>3. all \o <<>> = all /\ <<>> \in Seq(S)
        BY <3>2, ConcatEmptySeq, EmptySeq
      <3>4. begins(N)
        BY <1>1, <3>3 DEF begins
      <3> QED
        BY <2>2, <3>1, <3>4
    <2>4. CASE k # 0
      <3>1. k - 1 \in 0 .. N /\ ~(k <= k - 1) /\ N - (k - 1) = N - k + 1
        BY <2>2, <2>4
      <3>2. begins(N - k + 1)
        BY <2>1, <3>1
      <3>3. PICK n \in 1 .. N : n = N - k + 1 /\ n - 1 = N - k
        BY <2>2, <2>4
      <3> HIDE DEF Bad
      <3>4. PICK rest \in Seq(S) : all = JoinedTo(parts, n) \o rest
        BY <3>2, <3>3 DEF begins
      <3>5. /\ n \in 1 .. Len(parts) /\ n - 1 \in 0 .. Len(parts)
            /\ parts[n] \in Seq(S)
        BY <1>1, <3>3
      <3>6. JoinedTo(parts, n) = JoinedTo(parts, n - 1) \o parts[n] /\ JoinedTo(parts, n - 1) \in Seq(S)
        BY <3>5, JoinFacts
      <3>7. PICK p \in Seq(S), q \in Seq(S) : p = JoinedTo(parts, n - 1) /\ q = parts[n]
        BY <3>5, <3>6
      <3>8. (p \o q) \o rest = p \o (q \o rest) /\ q \o rest \in Seq(S)
        BY ConcatAssociative, ConcatProperties
      <3>9. begins(n - 1)
        BY <3>4, <3>6, <3>7, <3>8 DEF begins
      <3> QED
        BY <2>2, <3>3, <3>9
    <2> QED
      BY <2>3, <2>4
  <1>3. \A n \in 0 .. N : begins(n)
    <2> TAKE n \in 0 .. N
    <2>1. N - n \in 0 .. N /\ N - (N - n) = n
      OBVIOUS
    <2>2. begins(N - (N - n))
      BY <1>2, <2>1
    <2> QED
      BY <2>1, <2>2
  <1> QED
    BY <1>1, <1>3 DEF begins

\* Four sequences, one after the other.
Regrouped(a, b, c, d) == (a \o (b \o c)) \o d = (a \o b) \o (c \o d)

LEMMA FourJoined ==
  ASSUME NEW S, NEW a \in Seq(S), NEW b \in Seq(S), NEW c \in Seq(S), NEW d \in Seq(S)
  PROVE  Regrouped(a, b, c, d)
  BY DEF Regrouped

\* Three sequences, one after the other.
Nested(a, b, c) == a \o (b \o c) = (a \o b) \o c

LEMMA ThreeJoined ==
  ASSUME NEW S, NEW a \in Seq(S), NEW b \in Seq(S), NEW c \in Seq(S)
  PROVE  Nested(a, b, c)
  BY DEF Nested

\* Three values are a finite set.
LEMMA ThreeAreFinite ==
  \A a, b, c : IsFiniteSet({a, b, c})
  <1> TAKE a, b, c
  <1>1. {a, b, c} = ({a} \cup {b}) \cup {c}
    OBVIOUS
  <1>2. IsFiniteSet({a}) /\ IsFiniteSet({b}) /\ IsFiniteSet({c})
    BY FS_Singleton
  <1> QED
    BY <1>1, <1>2, FS_Union
===============================================================================
