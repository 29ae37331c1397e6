---------------------------- MODULE DecisionProofs ----------------------------
(***************************************************************************)
(* From an idea to a position and its record, for any values of the        *)
(* constants: the verdict on a market, the settings, the ideas under       *)
(* review, the slates, the order command, the ledger, the dashboard's view *)
(* of the account and what it says of P&L, the studies of the prices and   *)
(* of the teasers.                                                         *)
(* The components share no state; each has its own inductive invariant.    *)
(***************************************************************************)
EXTENDS SignalScoring, RuntimeConfig, IdeaReview, RiskLimits, OrderCommand, PositionLedger,
        AccountView, PnlAnalytics, PriceStudy, TeaserStudy, ReductionFacts, TLAPS

---------------------------------------------------------------------------
(* SignalScoring: the verdict on a market rests on its families and is     *)
(* taken at the price of the side it buys.                                 *)

\* The invariant of the scoring: its functions are pure, and their inputs typed.
ScoringIInv == ScoringTypeOK

\* What the estimates with data behind them are.
LEMMA EstimateTypes ==
  ASSUME ScoringIInv
  PROVE  /\ Usable \subseteq DOMAIN estimates /\ IsFiniteSet(Usable)
         /\ Cardinality(Usable) <= MaxEstimates
         /\ \A i \in Usable : /\ estimates[i].prob \in 1 .. 99
                              /\ estimates[i].weight \in 1 .. 100
  <1>1. /\ estimates \in Seq(SigEstimates) /\ Len(estimates) \in Nat
        /\ Len(estimates) <= MaxEstimates
        /\ DOMAIN estimates = 1 .. Len(estimates)
    BY DEF ScoringIInv, ScoringTypeOK
  <1>2. Usable \subseteq 1 .. Len(estimates)
    BY <1>1 DEF Usable
  <1>3. IsFiniteSet(1 .. Len(estimates)) /\ Cardinality(1 .. Len(estimates)) = Len(estimates)
    BY <1>1, FS_Interval
  <1>4. /\ IsFiniteSet(Usable) /\ Cardinality(Usable) <= Len(estimates)
        /\ Cardinality(Usable) \in Nat
    BY <1>2, <1>3, FS_Subset, FS_CardinalityType
  <1>5. \A i \in 1 .. Len(estimates) : estimates[i] \in SigEstimates
    BY <1>1
  <1>6. \A e \in SigEstimates : e.prob \in 1 .. 99 /\ e.weight \in 1 .. 100
    BY ScoringAssumption
  <1>7. MaxEstimates \in Nat
    BY ScoringAssumption
  <1> QED
    BY <1>1, <1>2, <1>4, <1>5, <1>6, <1>7

\* Dividing the scale by a size that divides its square.
LEMMA ScaleFacts ==
  ASSUME NEW n \in 1 .. MaxEstimates
  PROVE  \E k \in Nat \ {0} : Scale \div (n * n) = k /\ Scale \div n = k * n
  <1>1. n \in Nat \ {0}
    BY ScoringAssumption
  <1>2. Scale \in Nat \ {0}
    BY ScoringAssumption
  <1>3. PICK k \in Nat : Scale = k * (n * n)
    <2>1. PICK k \in 1 .. Scale : Scale = k * (n * n)
      BY ScoringAssumption
    <2> QED
      BY <1>2, <2>1
  <1>4. k # 0
    BY <1>1, <1>2, <1>3
  <1>5. \A a \in Nat, d \in Nat \ {0} : (a * d) \div d = a
    OBVIOUS
  <1>6. n * n \in Nat \ {0}
    BY <1>1
  <1>7. Scale = (k * n) * n /\ k * n \in Nat
    BY <1>1, <1>3
  <1> QED
    BY <1>1, <1>3, <1>4, <1>5, <1>6, <1>7

\* A source has a weight, and its probability lies among those of its slices.
LEMMA SourceFacts ==
  ASSUME ScoringIInv, NEW m \in SUBSET Usable, m # {}
  PROVE  LET s == SourceOf(m) IN
         /\ s.weight \in Nat \ {0} /\ s.weighted \in Int
         /\ \A p \in Int : (\A i \in m : p <= estimates[i].prob) => p * s.weight <= s.weighted
         /\ \A p \in Int : (\A i \in m : estimates[i].prob <= p) => s.weighted <= p * s.weight
  <1> DEFINE n == Cardinality(m)
             w == [i \in m |-> estimates[i].weight]
             q == [i \in m |-> estimates[i].prob]
             one == [i \in m |-> 1]
             W == SumOver(m, w)
             P == SumOver(m, q)
  <1>1. /\ IsFiniteSet(m) /\ n \in Nat \ {0} /\ n <= MaxEstimates
    <2>1. IsFiniteSet(m) /\ n <= Cardinality(Usable) /\ Cardinality(Usable) <= MaxEstimates
            /\ Cardinality(Usable) \in Nat
      BY EstimateTypes, FS_Subset, FS_CardinalityType
    <2>2. n \in Nat /\ n # 0
      BY <2>1, FS_CardinalityType, FS_EmptySet
    <2>3. MaxEstimates \in Nat
      BY ScoringAssumption
    <2> HIDE DEF n
    <2> QED
      BY <2>1, <2>2, <2>3
  <1>2. /\ w \in [m -> Int] /\ q \in [m -> Int] /\ one \in [m -> Int]
        /\ \A i \in m : /\ w[i] >= 1 /\ q[i] = estimates[i].prob /\ q[i] \in Int
                        /\ one[i] = 1 /\ w[i] \in Int
    BY EstimateTypes
  <1>3. PICK k \in Nat \ {0} : Scale \div (n * n) = k /\ Scale \div n = k * n
    <2>1. n \in 1 .. MaxEstimates
      <3>1. MaxEstimates \in Nat
        BY ScoringAssumption
      <3> HIDE DEF n
      <3> QED
        BY <1>1, <3>1
    <2> HIDE DEF n
    <2> QED
      BY <2>1, ScaleFacts
  <1>4. SourceOf(m).weight = W * (k * n) /\ SourceOf(m).weighted = W * P * k
    BY <1>3 DEF SourceOf
  <1>5. SumOver(m, one) = n
    BY <1>1, SumOfOnes
  <1> HIDE DEF n, w, q, one
  <1>6. W \in Int /\ P \in Int /\ 1 * n <= W
    <2>1. \A i \in m : 1 * one[i] <= w[i]
      BY <1>2
    <2> QED
      BY <1>1, <1>2, <1>5, <2>1, SumCompares
  <1>7. ASSUME NEW p \in Int, \A i \in m : p <= estimates[i].prob
        PROVE  p * n <= P
    <2>1. \A i \in m : p * one[i] <= q[i]
      BY <1>2, <1>7
    <2> QED
      BY <1>1, <1>2, <1>5, <2>1, SumCompares
  <1>8. ASSUME NEW p \in Int, \A i \in m : estimates[i].prob <= p
        PROVE  P <= p * n
    <2>1. \A i \in m : q[i] <= p * one[i]
      BY <1>2, <1>8
    <2> QED
      BY <1>1, <1>2, <1>5, <2>1, SumCompares
  <1> HIDE DEF W, P
  <1>9. W \in Nat \ {0} /\ W * k \in Nat
    <2>1. W \in Nat \ {0}
      BY <1>1, <1>6
    <2> QED
      BY <1>3, <2>1
  <1>10. /\ SourceOf(m).weight \in Nat \ {0} /\ SourceOf(m).weighted \in Int
    <2>1. W * (k * n) \in Nat \ {0} /\ W * P * k \in Int
      BY <1>1, <1>3, <1>6, <1>9
    <2> QED
      BY <1>4, <2>1
  <1>11. ASSUME NEW p \in Int
         PROVE  p * (W * (k * n)) = (p * n) * (W * k) /\ W * P * k = P * (W * k)
    BY <1>1, <1>3, <1>6
  <1>12. ASSUME NEW p \in Int, \A i \in m : p <= estimates[i].prob
         PROVE  p * SourceOf(m).weight <= SourceOf(m).weighted
    <2>1. p * n <= P /\ p * n \in Int
      BY <1>1, <1>7, <1>12
    <2>2. (p * n) * (W * k) <= P * (W * k)
      BY <1>6, <1>9, <2>1, TimesKeeps
    <2> QED
      BY <1>4, <1>11, <2>2
  <1>13. ASSUME NEW p \in Int, \A i \in m : estimates[i].prob <= p
         PROVE  SourceOf(m).weighted <= p * SourceOf(m).weight
    <2>1. P <= p * n /\ p * n \in Int
      BY <1>1, <1>8, <1>13
    <2>2. P * (W * k) <= (p * n) * (W * k)
      BY <1>6, <1>9, <2>1, TimesKeeps
    <2> QED
      BY <1>4, <1>11, <2>2
  <1> QED
    BY <1>10, <1>12, <1>13

\* The sources of a market combine to a probability among those that came in.
LEMMA CombinedFacts ==
  ASSUME ScoringIInv, UsableFamilies # {}
  PROVE  /\ Den(Collapse) \in Nat \ {0} /\ Num(Collapse) \in Int
         /\ \E i \in Usable : Num(Collapse) >= estimates[i].prob * Den(Collapse)
         /\ \E i \in Usable : Num(Collapse) <= estimates[i].prob * Den(Collapse)
         /\ 0 <= Num(Collapse) /\ Num(Collapse) <= 100 * Den(Collapse)
  <1> DEFINE F == UsableFamilies
             a == [f \in F |-> SourceOf(Slices(f)).weighted]
             b == [f \in F |-> SourceOf(Slices(f)).weight]
             one == [f \in F |-> 1]
  <1>1. IsFiniteSet(F)
    <2> DEFINE g == [i \in Usable |-> FamilyAt(i)]
    <2>1. F = {g[i] : i \in Usable}
      BY DEF UsableFamilies
    <2>2. IsFiniteSet(Usable) /\ DOMAIN g = Usable
      BY EstimateTypes
    <2>3. g \in Surjection(Usable, F)
      BY <2>1, <2>2 DEF Surjection
    <2> QED
      BY <2>2, <2>3, FS_Surjection
  <1>2. \A f \in F : Slices(f) \in SUBSET Usable /\ Slices(f) # {}
    BY DEF UsableFamilies, Slices
  <1>3. /\ Num(Collapse) = SumOver(F, a)
        /\ Den(Collapse) = SumOver(F, b)
    <2>1. DOMAIN Collapse = F /\ \A f \in F : Collapse[f] = SourceOf(Slices(f))
      BY DEF Collapse
    <2>2. /\ [f \in DOMAIN Collapse |-> Collapse[f].weighted] = a
          /\ [f \in DOMAIN Collapse |-> Collapse[f].weight] = b
      BY <2>1
    <2> QED
      BY <2>1, <2>2 DEF Num, Den
  <1>4. \A f \in F : /\ b[f] \in Nat \ {0} /\ a[f] \in Int
                     /\ \A p \in Int : (\A i \in Usable : p <= estimates[i].prob) =>
                          p * b[f] <= a[f]
                     /\ \A p \in Int : (\A i \in Usable : estimates[i].prob <= p) =>
                          a[f] <= p * b[f]
    BY <1>2, SourceFacts
  <1>5. a \in [F -> Int] /\ b \in [F -> Int] /\ one \in [F -> Int] /\ \A f \in F : one[f] = 1
    BY <1>4
  <1>6. SumOver(F, one) = Cardinality(F) /\ Cardinality(F) \in Nat \ {0}
    BY <1>1, SumOfOnes, FS_CardinalityType, FS_EmptySet
  <1> HIDE DEF F, a, b, one
  <1> DEFINE N == SumOver(F, a)
             D == SumOver(F, b)
  <1>7. N \in Int /\ D \in Nat \ {0}
    <2>1. \A f \in F : 1 * one[f] <= b[f]
      BY <1>4, <1>5
    <2>2. 1 * SumOver(F, one) <= D /\ D \in Int /\ N \in Int
      BY <1>1, <1>5, <2>1, SumCompares
    <2> HIDE DEF D, N
    <2> QED
      BY <1>6, <2>2
  <1>8. ASSUME NEW p \in Int, \A i \in Usable : p <= estimates[i].prob
        PROVE  p * D <= N
    <2>1. \A f \in F : p * b[f] <= a[f]
      BY <1>4, <1>8
    <2> QED
      BY <1>1, <1>5, <2>1, SumCompares
  <1>9. ASSUME NEW p \in Int, \A i \in Usable : estimates[i].prob <= p
        PROVE  N <= p * D
    <2>1. \A f \in F : a[f] <= p * b[f]
      BY <1>4, <1>9
    <2> QED
      BY <1>1, <1>5, <2>1, SumCompares
  <1> HIDE DEF N, D
  <1>10. Usable # {} /\ \A i \in Usable : estimates[i].prob \in 1 .. 99
    BY EstimateTypes DEF UsableFamilies
  <1>11. \E i \in Usable : \A j \in Usable : estimates[i].prob <= estimates[j].prob
    <2> DEFINE T == {estimates[i].prob : i \in Usable}
    <2>1. T \subseteq Nat /\ T # {}
      BY <1>10
    <2>2. PICK p \in T : \A q \in T : p <= q
      <3> HIDE DEF T
      <3> QED
        BY <2>1, LeastOfNaturals
    <2> QED
      BY <2>2
  <1>12. \E i \in Usable : \A j \in Usable : estimates[j].prob <= estimates[i].prob
    <2> DEFINE T == {100 - estimates[i].prob : i \in Usable}
    <2>1. T \subseteq Nat /\ T # {}
      BY <1>10
    <2>2. PICK p \in T : \A q \in T : p <= q
      <3> HIDE DEF T
      <3> QED
        BY <2>1, LeastOfNaturals
    <2>3. PICK i \in Usable : p = 100 - estimates[i].prob
      BY <2>2
    <2>4. \A j \in Usable : 100 - estimates[i].prob <= 100 - estimates[j].prob
      BY <2>2, <2>3
    <2>5. \A j \in Usable : estimates[j].prob \in Int
      BY <1>10
    <2> QED
      BY <2>4, <2>5
  <1>13. \E i \in Usable : N >= estimates[i].prob * D
    <2>1. PICK i \in Usable : \A j \in Usable : estimates[i].prob <= estimates[j].prob
      BY <1>11
    <2>2. estimates[i].prob * D <= N
      BY <1>8, <1>10, <2>1
    <2>3. estimates[i].prob * D \in Int
      BY <1>7, <1>10
    <2> QED
      BY <1>7, <2>2, <2>3
  <1>14. \E i \in Usable : N <= estimates[i].prob * D
    <2>1. PICK i \in Usable : \A j \in Usable : estimates[j].prob <= estimates[i].prob
      BY <1>12
    <2> QED
      BY <1>9, <1>10, <2>1
  <1>15. 0 * D <= N /\ N <= 100 * D
    <2>1. \A i \in Usable : 0 <= estimates[i].prob /\ estimates[i].prob <= 100
      BY <1>10
    <2> QED
      BY <1>8, <1>9, <2>1
  <1>16. Num(Collapse) = N /\ Den(Collapse) = D
    BY <1>3 DEF N, D
  <1> QED
    BY <1>7, <1>13, <1>14, <1>15, <1>16

\* One source per family.
LEMMA CollapseFacts ==
  DOMAIN Collapse = UsableFamilies
  BY DEF Collapse

\* The probability of a side, times Den.
SideProb(c, side) == IF side = "yes" THEN Num(c) ELSE 100 * Den(c) - Num(c)

\* A price with an edge after the fee is below the probability.
LEMMA EdgeNeedsProb ==
  ASSUME NEW prob \in Int, NEW price \in Int, 0 <= price, price <= 100,
         NEW d \in Nat \ {0}, NEW e \in Nat,
         (prob - price * d) * 10000 - 7 * price * (100 - price) * d > e * 10000 * d
  PROVE  prob > price * d
  <1>1. 100 - price \in Nat /\ price \in Nat
    OBVIOUS
  <1>2. 7 * price * (100 - price) \in Nat
    BY <1>1
  <1>3. (7 * price * (100 - price)) * d \in Nat /\ e * 10000 * d \in Nat
    BY <1>2
  <1>4. price * d \in Int
    OBVIOUS
  <1>5. \A fee \in Nat, bar \in Nat, x \in Int : x * 10000 - fee > bar => x > 0
    OBVIOUS
  <1>6. prob - price * d > 0
    BY <1>3, <1>4, <1>5
  <1> QED
    BY <1>4, <1>6

\* So is that of a side that clears the bar.
LEMMA ClearsNeedsProb ==
  ASSUME NEW c, Num(c) \in Int, Den(c) \in Nat \ {0}, NEW side,
         NEW price \in Int, 0 <= price, price <= 100, Clears(c, side, price)
  PROVE  SideProb(c, side) > price * Den(c)
  <1>1. MinEdge \in Nat
    BY ScoringAssumption
  <1> DEFINE prob == SideProb(c, side)
             d == Den(c)
  <1>2. prob \in Int
    BY DEF SideProb
  <1>3. (prob - price * d) * 10000 - 7 * price * (100 - price) * d > MinEdge * 10000 * d
    BY DEF Clears, FeeEdge, SideProb
  <1> HIDE DEF prob, d
  <1>4. d \in Nat \ {0}
    BY DEF d
  <1>5. prob > price * d
    BY <1>1, <1>2, <1>3, <1>4, EdgeNeedsProb
  <1> QED
    BY <1>5 DEF prob, d

\* A quote is in order.
LEMMA QuoteFacts ==
  ASSUME ScoringIInv
  PROVE  /\ quote.ask \in Int /\ 0 <= quote.ask /\ quote.ask <= 100
         /\ quote.bid = NoBid \/ (quote.bid \in Int /\ 0 <= quote.bid /\ quote.bid <= quote.ask)
  <1>1. quote \in SigQuotes
    BY DEF ScoringIInv, ScoringTypeOK
  <1>2. quote.ask \in 0 .. 100 /\ (quote.bid = NoBid \/ quote.bid \in 0 .. quote.ask)
    BY <1>1, ScoringAssumption
  <1> QED
    BY <1>2

\* The side the look at the ask leaves out never clears.
LEMMA SideTakenIsBestHolds == ScoringIInv => SideTakenIsBest(Collapse)
  <1> DEFINE c == Collapse
  <1> SUFFICES ASSUME ScoringIInv, quote.bid # NoBid, DOMAIN c # {}
               PROVE  /\ WorthTrading(c) <=>
                           \E side \in {"yes", "no"} : Clears(c, side, TakerPrice(side))
                      /\ WorthTrading(c) => Clears(c, SideTaken(c), TakerPrice(SideTaken(c)))
    BY DEF SideTakenIsBest
  <1>1. Num(c) \in Int /\ Den(c) \in Nat \ {0}
    BY CollapseFacts, CombinedFacts
  <1>2. /\ quote.ask \in Int /\ 0 <= quote.ask /\ quote.ask <= 100
        /\ quote.bid \in Int /\ 0 <= quote.bid /\ quote.bid <= quote.ask
    BY QuoteFacts
  <1> HIDE DEF c
  <1>3. /\ TakerPrice("yes") = quote.ask /\ TakerPrice("no") = 100 - quote.bid
        /\ EntryPrice("yes") = TakerPrice("yes") /\ EntryPrice("no") = TakerPrice("no")
    BY <1>2 DEF TakerPrice, EntryPrice
  <1>4. SideTaken(c) \in {"yes", "no"}
    BY DEF SideTaken
  <1>5. WorthTrading(c) <=> Clears(c, SideTaken(c), TakerPrice(SideTaken(c)))
    BY <1>3, <1>4 DEF WorthTrading
  <1>6. ASSUME Clears(c, "yes", TakerPrice("yes"))
        PROVE  SideTaken(c) = "yes"
    <2>1. Num(c) > quote.ask * Den(c)
      BY <1>1, <1>2, <1>3, <1>6, ClearsNeedsProb DEF SideProb
    <2>2. quote.ask * Den(c) \in Int
      BY <1>1, <1>2
    <2> QED
      BY <1>1, <2>1, <2>2 DEF SideTaken, YesLooksCheap
  <1>7. ASSUME Clears(c, "no", TakerPrice("no"))
        PROVE  SideTaken(c) = "no"
    <2> DEFINE price == 100 - quote.bid
               n == Num(c)
               d == Den(c)
    <2>1. price \in Int /\ 0 <= price /\ price <= 100
      BY <1>2
    <2>2. SideProb(c, "no") > price * d
      <3> HIDE DEF price
      <3>1. Clears(c, "no", price)
        BY <1>3, <1>7 DEF price
      <3> QED
        BY <1>1, <2>1, <3>1, ClearsNeedsProb
    <2>3. 100 * d - n > price * d
      BY <2>2 DEF SideProb
    <2>4. price * d = 100 * d - quote.bid * d
      BY <1>1, <1>2
    <2>5. quote.bid * d <= quote.ask * d
      BY <1>1, <1>2, TimesKeeps
    <2>6. n < quote.ask * d
      <3>1. /\ n \in Int /\ d \in Int /\ quote.bid * d \in Int /\ quote.ask * d \in Int
            /\ price * d \in Int
        BY <1>1, <1>2
      <3> HIDE DEF price, n, d
      <3> QED
        BY <2>3, <2>4, <2>5, <3>1
    <2> QED
      <3>1. n \in Int /\ quote.ask * d \in Int
        BY <1>1, <1>2
      <3> QED
        BY <2>6, <3>1 DEF SideTaken, YesLooksCheap
  <1> QED
    BY <1>4, <1>5, <1>6, <1>7

\* A verdict to trade has a stake.
LEMMA VerdictHasStakeHolds == ScoringIInv => VerdictHasStake(Collapse)
  <1> DEFINE c == Collapse
             side == SideTaken(c)
             price == EntryPrice(side)
  <1> SUFFICES ASSUME ScoringIInv, WorthTrading(c), price # 0
               PROVE  Staked(c)
    BY DEF VerdictHasStake
  <1>1. DOMAIN c # {} /\ Clears(c, side, price)
    BY DEF WorthTrading
  <1>2. /\ Num(c) \in Int /\ Den(c) \in Nat \ {0}
        /\ 0 <= Num(c) /\ Num(c) <= 100 * Den(c)
    BY <1>1, CollapseFacts, CombinedFacts
  <1> HIDE DEF c
  <1>3. price \in Int /\ 0 <= price /\ price <= 100
    <2>1. CASE side = "yes"
      BY <2>1, QuoteFacts DEF EntryPrice
    <2>2. CASE side # "yes" /\ quote.bid = NoBid
      BY <2>2, QuoteFacts DEF EntryPrice
    <2>3. CASE side # "yes" /\ quote.bid # NoBid
      <3>1. price = 100 - quote.bid
        BY <2>3 DEF EntryPrice
      <3>2. /\ quote.bid \in Int /\ 0 <= quote.bid /\ quote.bid <= quote.ask
            /\ quote.ask \in Int /\ quote.ask <= 100
        BY <2>3, QuoteFacts
      <3> QED
        BY <3>1, <3>2
    <2> QED
      BY <2>1, <2>2, <2>3
  <1> HIDE DEF side, price
  <1>4. SideProb(c, side) > price * Den(c)
    BY <1>1, <1>2, <1>3, ClearsNeedsProb
  <1>5. SideProb(c, side) <= 100 * Den(c) /\ SideProb(c, side) \in Int
    BY <1>2 DEF SideProb
  <1>6. price # 100
    <2> SUFFICES ASSUME price = 100 PROVE FALSE
      OBVIOUS
    <2> QED
      BY <1>2, <1>4, <1>5
  <1>7. price \in 1 .. 99
    BY <1>3, <1>6
  <1> QED
    BY <1>1, <1>4, <1>7 DEF Staked, SideProb, side, price

\* Families count once, and the combined probability is among those that came in.
LEMMA SlicesCountOnceHolds == ScoringIInv => SlicesCountOnce(Collapse)
  <1> SUFFICES ASSUME ScoringIInv PROVE SlicesCountOnce(Collapse)
    OBVIOUS
  <1>1. DOMAIN Collapse = UsableFamilies
    BY CollapseFacts
  <1>2. Boosted(Collapse) => Cardinality(UsableFamilies) >= 2
    BY <1>1 DEF Boosted
  <1>3. DOMAIN Collapse # {} =>
          /\ \E i \in Usable : Num(Collapse) >= estimates[i].prob * Den(Collapse)
          /\ \E i \in Usable : Num(Collapse) <= estimates[i].prob * Den(Collapse)
    BY <1>1, CombinedFacts
  <1> QED
    BY <1>1, <1>2, <1>3 DEF SlicesCountOnce

LEMMA ScoringStepInv == ScoringIInv /\ [ScoringNext]_scoringVars => ScoringIInv'
  <1> SUFFICES ASSUME ScoringIInv, [ScoringNext]_scoringVars PROVE ScoringIInv'
    OBVIOUS
  <1>0. /\ estimates \in Seq(SigEstimates) /\ Len(estimates) <= MaxEstimates
        /\ quote \in SigQuotes
    BY DEF ScoringIInv, ScoringTypeOK
  <1>1. ASSUME NEW e \in SigEstimates, EstimateArrives(e)
        PROVE  ScoringIInv'
    <2>1. /\ Len(estimates) < MaxEstimates /\ estimates' = Append(estimates, e)
          /\ quote' = quote
      BY <1>1 DEF EstimateArrives
    <2>2. estimates' \in Seq(SigEstimates) /\ Len(estimates') = Len(estimates) + 1
            /\ Len(estimates) \in Nat
      BY <1>0, <1>1, <2>1
    <2>3. MaxEstimates \in Nat
      BY ScoringAssumption
    <2> QED
      BY <1>0, <2>1, <2>2, <2>3 DEF ScoringIInv, ScoringTypeOK
  <1>2. CASE UNCHANGED scoringVars
    BY <1>0, <1>2 DEF scoringVars, ScoringIInv, ScoringTypeOK
  <1> QED
    BY <1>1, <1>2 DEF ScoringNext

(* The verdict on a market rests on its families, each of which counts     *)
(* once, is taken at the price of the side it buys and can be staked, for  *)
(* any number of estimates (scripts/score_signals.py).                     *)
THEOREM VerdictsAreSound == ScoringSpec => []ScoringIsSound
  <1>1. ScoringInit => ScoringIInv
    <2> SUFFICES ASSUME ScoringInit PROVE ScoringIInv
      OBVIOUS
    <2>1. estimates = <<>> /\ quote \in SigQuotes
      BY DEF ScoringInit
    <2>2. estimates \in Seq(SigEstimates) /\ Len(estimates) = 0
      BY <2>1, EmptySeq
    <2>3. MaxEstimates \in Nat
      BY ScoringAssumption
    <2> QED
      BY <2>1, <2>2, <2>3 DEF ScoringIInv, ScoringTypeOK
  <1>2. ScoringIInv => ScoringIsSound
    BY SideTakenIsBestHolds, SlicesCountOnceHolds, VerdictHasStakeHolds DEF ScoringIsSound
  <1> QED
    BY <1>1, <1>2, ScoringStepInv, PTL DEF ScoringSpec

---------------------------------------------------------------------------
(* RuntimeConfig: what is out of range in the settings was put there by    *)
(* hand, and the server's copy is the file's until someone else writes.    *)

(* What a command is about to write is as good as the file it has read,    *)
(* but for its own key.                                                    *)
PendingIsByHand ==
  \A c \in Commands, k \in CfgKeys :
    cmdRead[c][k] \notin ValidRange \cup {Unset} => k \in setByHand

\* The inductive invariant of the settings.
ConfigIInv ==
  /\ ConfigTypeOK
  /\ OutOfRangeIsByHand
  /\ PendingIsByHand
  /\ MemoryMatchesFile

\* The default is a value, and Unset is none.
LEMMA ConfigFacts ==
  /\ Default \in CfgValues /\ Default \in ValidRange
  /\ \A v \in CfgValues : v # Unset
  /\ Defaults \in Contents /\ Nothing \in Contents
  /\ Defaults \in [CfgKeys -> CfgValues]
  BY ConfigAssumption DEF Contents, Defaults, Nothing

\* What is read from the file, key by key.
LEMMA MergedFacts ==
  ASSUME ConfigTypeOK, OutOfRangeIsByHand
  PROVE  /\ Merged \in [CfgKeys -> CfgValues]
         /\ \A k \in CfgKeys : Merged[k] \notin ValidRange => k \in setByHand
  <1> SUFFICES ASSUME NEW k \in CfgKeys
               PROVE /\ Merged[k] \in CfgValues
                     /\ Merged[k] \notin ValidRange => k \in setByHand
    BY DEF Merged
  <1>1. CASE fileIs = "whole" /\ file[k] # Unset
    BY <1>1 DEF Merged, ConfigTypeOK, Contents, OutOfRangeIsByHand
  <1>2. CASE ~(fileIs = "whole" /\ file[k] # Unset)
    BY <1>2, ConfigFacts DEF Merged
  <1> QED
    BY <1>1, <1>2

\* The initial state satisfies the inductive invariant.
LEMMA ConfigInitInv == ConfigInit => ConfigIInv
  <1> SUFFICES ASSUME ConfigInit PROVE ConfigIInv
    OBVIOUS
  <1> USE ConfigFacts DEF ConfigInit
  <1>1. ConfigTypeOK
    BY DEF ConfigTypeOK, CmdStep
  <1>2. OutOfRangeIsByHand
    BY DEF OutOfRangeIsByHand, Defaults, Nothing
  <1>3. PendingIsByHand
    BY DEF PendingIsByHand, Nothing
  <1>4. MemoryMatchesFile
    BY DEF MemoryMatchesFile
  <1> QED
    BY <1>1, <1>2, <1>3, <1>4 DEF ConfigIInv

\* Every step preserves the inductive invariant.
LEMMA ConfigStep == ConfigIInv /\ [ConfigNext]_configVars => ConfigIInv'
  <1> SUFFICES ASSUME ConfigIInv, [ConfigNext]_configVars PROVE ConfigIInv'
    OBVIOUS
  <1> USE ConfigFacts DEF CmdStep
  <1>0. ConfigTypeOK /\ OutOfRangeIsByHand /\ PendingIsByHand /\ MemoryMatchesFile
    BY DEF ConfigIInv
  <1>1. CASE ServerStart
    <2>1. ConfigTypeOK'
      BY <1>0, <1>1, MergedFacts DEF ServerStart, ConfigTypeOK
    <2>2. OutOfRangeIsByHand' /\ PendingIsByHand'
      BY <1>0, <1>1, MergedFacts DEF ServerStart, OutOfRangeIsByHand, PendingIsByHand
    <2>3. MemoryMatchesFile'
      BY <1>1 DEF ServerStart, MemoryMatchesFile, Merged
    <2> QED
      BY <2>1, <2>2, <2>3 DEF ConfigIInv
  <1>2. ASSUME NEW updates \in Contents, PostConfig(updates) PROVE ConfigIInv'
    <2>1. \A k \in CfgKeys :
             /\ memory'[k] \in CfgValues
             /\ memory'[k] \in ValidRange \/ memory'[k] = memory[k]
      <3> SUFFICES ASSUME NEW k \in CfgKeys
                   PROVE /\ memory'[k] \in CfgValues
                         /\ memory'[k] \in ValidRange \/ memory'[k] = memory[k]
        OBVIOUS
      <3>1. CASE updates[k] = Unset
        BY <1>0, <1>2, <3>1 DEF PostConfig, ConfigTypeOK
      <3>2. CASE updates[k] # Unset
        BY <1>2, <3>2, ConfigAssumption DEF PostConfig, Acceptable
      <3> QED
        BY <3>1, <3>2
    <2>2. memory' = [k \in CfgKeys |-> memory'[k]]
      BY <1>2 DEF PostConfig
    <2>3. ConfigTypeOK'
      BY <1>0, <1>2, <2>1, <2>2 DEF PostConfig, ConfigTypeOK
    <2>4. OutOfRangeIsByHand' /\ PendingIsByHand'
      BY <1>0, <1>2, <2>1 DEF PostConfig, OutOfRangeIsByHand, PendingIsByHand
    <2>5. MemoryMatchesFile'
      BY <1>2 DEF PostConfig, MemoryMatchesFile
    <2> QED
      BY <2>3, <2>4, <2>5 DEF ConfigIInv
  <1>3. CASE ServerSaved
    <2>1. ConfigTypeOK'
      BY <1>0, <1>3 DEF ServerSaved, ConfigTypeOK, Contents
    <2>2. OutOfRangeIsByHand' /\ PendingIsByHand'
      BY <1>0, <1>3 DEF ServerSaved, OutOfRangeIsByHand, PendingIsByHand
    <2>3. fileIs' = "whole" /\ file' = memory /\ memory' = memory
      BY <1>3 DEF ServerSaved
    <2>4. \A k \in CfgKeys : memory[k] # Unset
      BY <1>0 DEF ConfigTypeOK
    <2>5. Merged' = [k \in CfgKeys |-> memory[k]]
      BY <2>3, <2>4 DEF Merged
    <2>6. MemoryMatchesFile'
      BY <1>0, <2>3, <2>5 DEF MemoryMatchesFile, ConfigTypeOK
    <2> QED
      BY <2>1, <2>2, <2>6 DEF ConfigIInv
  <1>4. CASE ServerDies
    BY <1>0, <1>4 DEF ServerDies, ConfigIInv, ConfigTypeOK, OutOfRangeIsByHand, PendingIsByHand,
                      MemoryMatchesFile
  <1>5. CASE PipelineCreates
    BY <1>0, <1>5 DEF PipelineCreates, ConfigIInv, ConfigTypeOK, OutOfRangeIsByHand,
                      PendingIsByHand, MemoryMatchesFile, Defaults
  <1>6. ASSUME NEW c \in Commands, NEW key \in CfgKeys, NEW value \in CfgValues,
               CommandRead(c, key, value)
        PROVE ConfigIInv'
    <2> DEFINE r == [k \in CfgKeys |-> IF k = key THEN value
                                       ELSE IF fileIs = "whole" THEN file[k] ELSE Unset]
    <2>1. \A k \in CfgKeys :
             /\ r[k] \in CfgValues \cup {Unset}
             /\ r[k] \notin ValidRange \cup {Unset} => k \in setByHand'
      <3> SUFFICES ASSUME NEW k \in CfgKeys
                   PROVE /\ r[k] \in CfgValues \cup {Unset}
                         /\ r[k] \notin ValidRange \cup {Unset} => k \in setByHand'
        OBVIOUS
      <3>1. CASE k = key
        BY <1>6, <3>1 DEF CommandRead
      <3>2. CASE k # key /\ fileIs = "whole"
        BY <1>0, <1>6, <3>2 DEF CommandRead, ConfigTypeOK, Contents, OutOfRangeIsByHand
      <3>3. CASE k # key /\ fileIs # "whole"
        BY <3>3
      <3> QED
        BY <3>1, <3>2, <3>3
    <2>2. r \in Contents
      BY <2>1 DEF Contents
    <2>3. cmdRead' = [cmdRead EXCEPT ![c] = r]
      BY <1>6 DEF CommandRead
    <2> HIDE DEF r
    <2>4. setByHand \subseteq setByHand' /\ setByHand' \subseteq CfgKeys
      BY <1>0, <1>6 DEF CommandRead, ConfigTypeOK
    <2>5. ConfigTypeOK'
      BY <1>0, <1>6, <2>2, <2>3, <2>4 DEF CommandRead, ConfigTypeOK
    <2>6. OutOfRangeIsByHand' /\ MemoryMatchesFile'
      BY <1>0, <1>6, <2>4 DEF CommandRead, OutOfRangeIsByHand, MemoryMatchesFile, Merged
    <2>7. PendingIsByHand'
      BY <1>0, <2>1, <2>3, <2>4 DEF PendingIsByHand, ConfigTypeOK
    <2> QED
      BY <2>5, <2>6, <2>7 DEF ConfigIInv
  <1>7. ASSUME NEW c \in Commands, CommandTruncates(c) PROVE ConfigIInv'
    BY <1>0, <1>7 DEF CommandTruncates, ConfigIInv, ConfigTypeOK, OutOfRangeIsByHand,
                      PendingIsByHand, MemoryMatchesFile
  <1>8. ASSUME NEW c \in Commands, CommandWrites(c) PROVE ConfigIInv'
    BY <1>0, <1>8 DEF CommandWrites, ConfigIInv, ConfigTypeOK, OutOfRangeIsByHand,
                      PendingIsByHand, MemoryMatchesFile
  <1>9. ASSUME NEW c \in Commands, CommandDies(c) PROVE ConfigIInv'
    BY <1>0, <1>9 DEF CommandDies, ConfigIInv, ConfigTypeOK, OutOfRangeIsByHand,
                      PendingIsByHand, MemoryMatchesFile, Merged
  <1>10. CASE UNCHANGED configVars
    BY <1>0, <1>10 DEF configVars, ConfigIInv, ConfigTypeOK, OutOfRangeIsByHand,
                       PendingIsByHand, MemoryMatchesFile, Merged
  <1> QED
    BY <1>1, <1>2, <1>3, <1>4, <1>5, <1>6, <1>7, <1>8, <1>9, <1>10 DEF ConfigNext

(* The dashboard never lets a value out of range into the settings, and    *)
(* shows what the file says until another program writes it, however the   *)
(* server, the commands and the pipelines start, write and die.            *)
THEOREM SettingsStaySound == ConfigSpec => []SettingsAreSound
  <1>1. ConfigIInv => SettingsAreSound
    BY DEF ConfigIInv, SettingsAreSound
  <1> QED
    BY <1>1, ConfigInitInv, ConfigStep, PTL DEF ConfigSpec

---------------------------------------------------------------------------
(* IdeaReview: an idea is decided once, and none vanishes.                 *)

\* A request that has not begun holds no idea and has saved none.
IdleHoldsNoIdea ==
  \A q \in Requests : requestAt[q] = "idle" => requestIdea[q] = NoIdea /\ q \notin savedIn

\* A request holds only what was posted, and one at work holds something.
TakenWasPosted ==
  \A q \in Requests :
    /\ requestIdea[q] \in posted \cup {NoIdea}
    /\ requestAt[q] \in {"took", "saving"} => requestIdea[q] \in posted

\* The request q has the idea, or its row is in the table.
Accounts(q, i) ==
  requestIdea[q] = i /\ (requestAt[q] \in {"took", "saving"} \/ q \in savedIn)

(* Stronger than NoIdeaVanishes: the reviewed list, which is cut, is not   *)
(* needed to account for an idea.                                          *)
Accounted ==
  \A i \in posted \ dropped : i \in pending \/ \E q \in Requests : Accounts(q, i)

\* The inductive invariant of the ideas.
IdeasIInv ==
  /\ IdeasTypeOK
  /\ IdleHoldsNoIdea
  /\ TakenWasPosted
  /\ ReviewedOnce
  /\ Accounted

\* The initial state satisfies the inductive invariant.
LEMMA IdeasInitInv == IdeasInit => IdeasIInv
  <1> SUFFICES ASSUME IdeasInit PROVE IdeasIInv
    OBVIOUS
  <1>1. IdeasTypeOK
    BY IdeasAssumption DEF IdeasInit, IdeasTypeOK, RequestStep, Decision
  <1>2. IdleHoldsNoIdea /\ TakenWasPosted /\ ReviewedOnce /\ Accounted
    BY DEF IdeasInit, IdleHoldsNoIdea, TakenWasPosted, ReviewedOnce, Accounted
  <1> QED
    BY <1>1, <1>2 DEF IdeasIInv

\* The reviewed list stays a list of ideas and within its length.
LEMMA ReviewedFacts ==
  ASSUME NEW i \in Ideas, reviewed \in Seq(Ideas)
  PROVE  Reviewed(i) \in Seq(Ideas) /\ Len(Reviewed(i)) <= ReviewedKept
  <1> DEFINE all == <<i>> \o reviewed
             n   == IF Len(all) < ReviewedKept THEN Len(all) ELSE ReviewedKept
  <1>1. all \in Seq(Ideas) /\ Len(all) \in Nat
    OBVIOUS
  <1>2. ReviewedKept \in Nat \ {0}
    BY IdeasAssumption
  <1>3. n \in Nat /\ n <= Len(all) /\ n <= ReviewedKept
    BY <1>1, <1>2
  <1>4. Reviewed(i) = SubSeq(all, 1, n)
    BY DEF Reviewed
  <1> HIDE DEF n, all
  <1>5. \A k \in 1 .. n : all[k] \in Ideas
    BY <1>1, <1>3
  <1>6. SubSeq(all, 1, n) \in Seq(Ideas) /\ Len(SubSeq(all, 1, n)) = IF 1 <= n THEN n - 1 + 1 ELSE 0
    BY <1>3, <1>5, SubSeqProperties
  <1> QED
    BY <1>2, <1>3, <1>4, <1>6

\* Every step preserves the types.
LEMMA IdeasTypeStep ==
  IdeasTypeOK /\ TakenWasPosted /\ IdleHoldsNoIdea /\ [IdeasNext]_ideaVars => IdeasTypeOK'
  <1> SUFFICES ASSUME IdeasTypeOK, TakenWasPosted, IdleHoldsNoIdea, [IdeasNext]_ideaVars
               PROVE IdeasTypeOK'
    OBVIOUS
  <1> USE DEF RequestStep, Decision, listVars, requestVars
  <1>0. \A q \in Requests : requestAt[q] \in {"took", "saving"} => requestIdea[q] \in Ideas
    BY DEF TakenWasPosted, IdeasTypeOK
  <1>1. ASSUME NEW batch \in SUBSET Ideas, PostIdeas(batch) PROVE IdeasTypeOK'
    BY <1>1 DEF PostIdeas, IdeasTypeOK
  <1>2. ASSUME NEW q \in Requests, NEW i \in Ideas, ApproveTake(q, i) PROVE IdeasTypeOK'
    BY <1>2 DEF ApproveTake, IdeasTypeOK
  <1>3. ASSUME NEW q \in Requests, ApproveDecide(q) PROVE IdeasTypeOK'
    <2>1. reviewed' \in Seq(Ideas) /\ Len(reviewed') <= ReviewedKept
      BY <1>0, <1>3, ReviewedFacts DEF ApproveDecide, IdeasTypeOK
    <2> QED
      BY <1>3, <2>1 DEF ApproveDecide, IdeasTypeOK
  <1>4. ASSUME NEW q \in Requests, NEW i \in Ideas, Reject(q, i) PROVE IdeasTypeOK'
    <2>1. reviewed' \in Seq(Ideas) /\ Len(reviewed') <= ReviewedKept
      BY <1>4, ReviewedFacts DEF Reject, IdeasTypeOK
    <2> QED
      BY <1>4, <2>1 DEF Reject, IdeasTypeOK
  <1>5. ASSUME NEW q \in Requests, NEW i \in Ideas, NotFound(q, i) PROVE IdeasTypeOK'
    BY <1>5 DEF NotFound, IdeasTypeOK
  <1>6. ASSUME NEW q \in Requests, Save(q) PROVE IdeasTypeOK'
    BY <1>0, <1>6 DEF Save, IdeasTypeOK
  <1>7. ASSUME NEW list \in SUBSET Ideas, PushPending(list) PROVE IdeasTypeOK'
    BY <1>7 DEF PushPending, IdeasTypeOK
  <1>8. CASE Restart
    <2>1. reviewed' \in Seq(Ideas) /\ Len(reviewed') <= ReviewedKept
      BY <1>8, IdeasAssumption DEF Restart
    <2>2. dropped' \subseteq Ideas
      BY <1>0, <1>8 DEF Restart, IdeasTypeOK
    <2>3. requestAt' \in [Requests -> RequestStep]
      BY <1>8 DEF Restart, IdeasTypeOK
    <2> QED
      BY <1>8, <2>1, <2>2, <2>3 DEF Restart, IdeasTypeOK
  <1>9. CASE UNCHANGED ideaVars
    BY <1>9 DEF ideaVars, IdeasTypeOK
  <1> QED
    BY <1>1, <1>2, <1>3, <1>4, <1>5, <1>6, <1>7, <1>8, <1>9 DEF IdeasNext

\* What the requests hold stays what they took.
LEMMA RequestsStep ==
  IdeasIInv /\ [IdeasNext]_ideaVars => IdleHoldsNoIdea' /\ TakenWasPosted'
  <1> SUFFICES ASSUME IdeasIInv, [IdeasNext]_ideaVars PROVE IdleHoldsNoIdea' /\ TakenWasPosted'
    OBVIOUS
  <1> USE DEF listVars, requestVars, IdleHoldsNoIdea, TakenWasPosted
  <1>0. IdeasTypeOK /\ IdleHoldsNoIdea /\ TakenWasPosted
    BY DEF IdeasIInv
  <1>1. ASSUME NEW batch \in SUBSET Ideas, PostIdeas(batch)
        PROVE IdleHoldsNoIdea' /\ TakenWasPosted'
    BY <1>0, <1>1 DEF PostIdeas
  <1>2. ASSUME NEW q \in Requests, NEW i \in Ideas, ApproveTake(q, i)
        PROVE IdleHoldsNoIdea' /\ TakenWasPosted'
    BY <1>0, <1>2 DEF ApproveTake, IdeasTypeOK
  <1>3. ASSUME NEW q \in Requests, ApproveDecide(q) PROVE IdleHoldsNoIdea' /\ TakenWasPosted'
    BY <1>0, <1>3 DEF ApproveDecide, IdeasTypeOK
  <1>4. ASSUME NEW q \in Requests, NEW i \in Ideas, Reject(q, i)
        PROVE IdleHoldsNoIdea' /\ TakenWasPosted'
    BY <1>0, <1>4 DEF Reject, IdeasTypeOK
  <1>5. ASSUME NEW q \in Requests, NEW i \in Ideas, NotFound(q, i)
        PROVE IdleHoldsNoIdea' /\ TakenWasPosted'
    BY <1>0, <1>5 DEF NotFound, IdeasTypeOK
  <1>6. ASSUME NEW q \in Requests, Save(q) PROVE IdleHoldsNoIdea' /\ TakenWasPosted'
    BY <1>0, <1>6 DEF Save, IdeasTypeOK
  <1>7. ASSUME NEW list \in SUBSET Ideas, PushPending(list)
        PROVE IdleHoldsNoIdea' /\ TakenWasPosted'
    BY <1>0, <1>7 DEF PushPending
  <1>8. CASE Restart
    BY <1>0, <1>8 DEF Restart, IdeasTypeOK
  <1>9. CASE UNCHANGED ideaVars
    BY <1>0, <1>9 DEF ideaVars
  <1> QED
    BY <1>1, <1>2, <1>3, <1>4, <1>5, <1>6, <1>7, <1>8, <1>9 DEF IdeasNext

\* A step that takes the idea i for the idle request q.
LEMMA TakeFacts ==
  ASSUME IdeasIInv, NEW q \in Requests, NEW i \in Ideas,
         requestAt[q] = "idle", i \in pending,
         pending' = pending \ {i},
         requestIdea' = [requestIdea EXCEPT ![q] = i],
         UNCHANGED <<posted, broughtBack, savedIn, dropped>>,
         NEW step \in {"took", "saving"},
         requestAt' = [requestAt EXCEPT ![q] = step]
  PROVE  ReviewedOnce' /\ Accounted'
  <1>1. IdeasTypeOK /\ IdleHoldsNoIdea /\ TakenWasPosted /\ ReviewedOnce /\ Accounted
    BY DEF IdeasIInv
  <1>2. \A r \in Requests : r # q => requestIdea'[r] = requestIdea[r] /\ requestAt'[r] = requestAt[r]
    BY <1>1 DEF IdeasTypeOK
  <1>3. requestIdea'[q] = i /\ requestAt'[q] = step
    BY <1>1 DEF IdeasTypeOK
  <1>4. ReviewedOnce'
    <2> SUFFICES ASSUME NEW r \in Requests,
                        requestIdea'[r] # NoIdea, requestIdea'[r] \notin broughtBack
                 PROVE /\ requestIdea'[r] \notin pending'
                       /\ \A o \in Requests \ {r} : requestIdea'[o] # requestIdea'[r]
      BY DEF ReviewedOnce
    <2>1. CASE r = q
      <3>1. \A o \in Requests : requestIdea[o] # i
        BY <1>1, <1>3, <2>1, IdeasAssumption DEF ReviewedOnce
      <3> QED
        BY <1>2, <1>3, <2>1, <3>1
    <2>2. CASE r # q
      <3>1. requestIdea[r] \notin pending
            /\ \A o \in Requests \ {r} : requestIdea[o] # requestIdea[r]
        BY <1>1, <1>2, <2>2 DEF ReviewedOnce
      <3> QED
        BY <1>2, <1>3, <2>2, <3>1
    <2> QED
      BY <2>1, <2>2
  <1>5. Accounted'
    <2> SUFFICES ASSUME NEW j \in posted \ dropped
                 PROVE j \in pending' \/ \E r \in Requests : Accounts(r, j)'
      BY DEF Accounted
    <2>1. CASE j = i
      BY <1>3, <2>1 DEF Accounts
    <2>2. CASE j # i
      <3>1. ASSUME NEW r \in Requests, Accounts(r, j) PROVE Accounts(r, j)'
        <4>1. r # q
          BY <1>1, <3>1, IdeasAssumption DEF Accounts, IdleHoldsNoIdea, IdeasTypeOK
        <4> QED
          BY <1>2, <3>1, <4>1 DEF Accounts
      <3> QED
        BY <1>1, <2>2, <3>1 DEF Accounted
    <2> QED
      BY <2>1, <2>2
  <1> QED
    BY <1>4, <1>5

\* Every step preserves the inductive invariant.
LEMMA IdeasStep == IdeasIInv /\ [IdeasNext]_ideaVars => IdeasIInv'
  <1> SUFFICES ASSUME IdeasIInv, [IdeasNext]_ideaVars PROVE ReviewedOnce' /\ Accounted'
    BY IdeasTypeStep, RequestsStep DEF IdeasIInv
  <1> USE DEF listVars, requestVars
  <1>0. IdeasTypeOK /\ IdleHoldsNoIdea /\ TakenWasPosted /\ ReviewedOnce /\ Accounted
    BY DEF IdeasIInv
  <1>1. ASSUME NEW batch \in SUBSET Ideas, PostIdeas(batch) PROVE ReviewedOnce' /\ Accounted'
    <2>1. \A q \in Requests : requestIdea[q] \notin batch
      BY <1>0, <1>1, IdeasAssumption DEF PostIdeas, TakenWasPosted
    <2> QED
      BY <1>0, <1>1, <2>1 DEF PostIdeas, ReviewedOnce, Accounted, Accounts
  <1>2. ASSUME NEW q \in Requests, NEW i \in Ideas, ApproveTake(q, i)
        PROVE ReviewedOnce' /\ Accounted'
    BY <1>2, TakeFacts DEF ApproveTake
  <1>3. ASSUME NEW q \in Requests, ApproveDecide(q) PROVE ReviewedOnce' /\ Accounted'
    BY <1>0, <1>3 DEF ApproveDecide, ReviewedOnce, Accounted, Accounts, IdeasTypeOK
  <1>4. ASSUME NEW q \in Requests, NEW i \in Ideas, Reject(q, i)
        PROVE ReviewedOnce' /\ Accounted'
    BY <1>4, TakeFacts DEF Reject
  <1>5. ASSUME NEW q \in Requests, NEW i \in Ideas, NotFound(q, i)
        PROVE ReviewedOnce' /\ Accounted'
    BY <1>0, <1>5 DEF NotFound, ReviewedOnce, Accounted, Accounts, IdeasTypeOK
  <1>6. ASSUME NEW q \in Requests, Save(q) PROVE ReviewedOnce' /\ Accounted'
    <2>1. ReviewedOnce'
      BY <1>0, <1>6 DEF Save, ReviewedOnce
    <2>2. Accounted'
      <3> SUFFICES ASSUME NEW j \in posted \ dropped'
                   PROVE j \in pending \/ \E r \in Requests : Accounts(r, j)'
        BY <1>6 DEF Save, Accounted
      <3>1. j \notin dropped
        BY <1>6 DEF Save
      <3>2. ASSUME NEW r \in Requests, Accounts(r, j) PROVE Accounts(r, j)'
        <4>1. CASE r = q
          BY <1>6, <3>2, <4>1 DEF Save, Accounts
        <4>2. CASE r # q
          BY <1>0, <1>6, <3>2, <4>2 DEF Save, Accounts, IdeasTypeOK
        <4> QED
          BY <4>1, <4>2
      <3> QED
        BY <1>0, <3>1, <3>2 DEF Accounted
    <2> QED
      BY <2>1, <2>2
  <1>7. ASSUME NEW list \in SUBSET Ideas, PushPending(list) PROVE ReviewedOnce' /\ Accounted'
    <2>1. ReviewedOnce'
      BY <1>0, <1>7 DEF PushPending, ReviewedOnce
    <2>2. Accounted'
      BY <1>0, <1>7 DEF PushPending, Accounted, Accounts
    <2> QED
      BY <2>1, <2>2
  <1>8. CASE Restart
    <2>1. ReviewedOnce'
      BY <1>0, <1>8 DEF Restart, ReviewedOnce
    <2>2. Accounted'
      <3> SUFFICES ASSUME NEW j \in posted \ dropped'
                   PROVE \E r \in Requests : Accounts(r, j)'
        BY <1>8 DEF Restart, Accounted
      <3>1. j \notin dropped /\ j \notin pending
        BY <1>8 DEF Restart
      <3>2. PICK r \in Requests : Accounts(r, j)
        BY <1>0, <3>1 DEF Accounted
      <3>3. requestAt[r] \notin {"took", "saving"}
        BY <1>8, <3>2 DEF Restart, Accounts
      <3> QED
        BY <1>8, <3>2, <3>3 DEF Restart, Accounts
    <2> QED
      BY <2>1, <2>2
  <1>9. CASE UNCHANGED ideaVars
    BY <1>0, <1>9 DEF ideaVars, ReviewedOnce, Accounted, Accounts
  <1> QED
    BY <1>1, <1>2, <1>3, <1>4, <1>5, <1>6, <1>7, <1>8, <1>9 DEF IdeasNext

\* The inductive invariant holds throughout.
LEMMA IdeasInvariant == IdeasSpec => []IdeasIInv
  BY IdeasInitInv, IdeasStep, PTL DEF IdeasSpec

(* However the requests of the dashboard interleave, an idea is approved   *)
(* or rejected once, and not offered again, unless a pushed list has       *)
(* brought it back.                                                        *)
THEOREM IdeasAreReviewedOnce == IdeasSpec => []ReviewedOnce
  <1>1. IdeasIInv => ReviewedOnce
    BY DEF IdeasIInv
  <1> QED
    BY <1>1, IdeasInvariant, PTL

(* No idea vanishes between the handlers: it is pending, in the hands of a *)
(* request, or saved, unless a list was replaced, the server restarted or  *)
(* the row was refused.                                                    *)
THEOREM IdeasDoNotVanish == IdeasSpec => []NoIdeaVanishes
  <1>1. IdeasIInv => NoIdeaVanishes
    BY DEF IdeasIInv, Accounted, Accounts, NoIdeaVanishes
  <1> QED
    BY <1>1, IdeasInvariant, PTL

---------------------------------------------------------------------------
(* RiskLimits: slates that are executed in turn stay within the total.     *)

\* f is the total of the sizes a over any set of ideas.
IsTotal(f, a) ==
  /\ f \in [SUBSET RIdeas -> Nat]
  /\ f[{}] = 0
  /\ \A S \in SUBSET RIdeas : \A i \in RIdeas \ S : f[S \cup {i}] = f[S] + a[i]

\* What a review has still to buy: its slate, or the rest of it.
Left(v) == IF reviewAt[v] = "buying" THEN toBuy[v] ELSE Slate(v)

\* Ideas wait in a review, sizes on a slate, and orders in an execution.
ReviewsInOrder ==
  \A v \in Reviews :
    /\ unchecked[v] # {} => reviewAt[v] = "checking"
    /\ reviewAt[v] = "idle" => approved[v] = NothingApproved
    /\ \A i \in unchecked[v] : approved[v][i] = 0
    /\ toBuy[v] # {} => reviewAt[v] = "buying"

(* What a review that nothing has overtaken leaves to buy fits in what it  *)
(* has counted beside the exposure.                                        *)
SlatesFit ==
  \A v \in Pending \ overtaken :
    \E f : IsTotal(f, approved[v]) /\ exposure + f[Left(v)] <= counted[v]

\* No review counts more than the limit, and no slate exceeds it.
CountedWithinTotal ==
  overtaken = {} => \A v \in Pending : counted[v] <= MaxTotal

\* The inductive invariant of reviews and slates.
RiskIInv ==
  /\ RiskTypeOK
  /\ ReviewsInOrder
  /\ SlatesFit
  /\ CountedWithinTotal
  /\ ExposureWithinTotal

\* Limits and stakes are counted.
LEMMA RiskBounds ==
  /\ MinSingle \in Nat /\ MaxSingle \in Nat /\ MaxCategory \in Nat /\ MaxTotal \in Nat
  /\ MaxKelly \in Nat /\ CategoryOf \in [RIdeas -> Categories]
  BY RiskAssumption

(* What is approved is within the largest position and within what the     *)
(* total leaves over what is counted.                                      *)
LEMMA ApprovedFacts ==
  ASSUME RiskTypeOK, NEW passes \in BOOLEAN, NEW kelly \in Nat, NEW c \in Categories,
         NEW total \in Nat
  PROVE  LET size == CheckTrade(passes, kelly, c, total, 0) IN
         /\ size \in 0 .. MaxSingle
         /\ size > 0 => total + size <= MaxTotal
  <1>1. Stake(kelly, c) \in Nat
    BY DEF Stake
  <1>2. Headroom(MaxTotal, total) \in Nat /\ Headroom(MaxCategory, 0) \in Nat
    BY RiskBounds DEF Headroom
  <1>3. /\ Clamp(Stake(kelly, c), total, 0) \in 0 .. MaxSingle
        /\ Clamp(Stake(kelly, c), total, 0) <= Headroom(MaxTotal, total)
    BY <1>1, <1>2, RiskBounds DEF Clamp, SmallerOf
  <1>4. total < MaxTotal => total + Headroom(MaxTotal, total) = MaxTotal
    BY RiskBounds DEF Headroom
  <1> QED
    BY <1>2, <1>3, <1>4, RiskBounds DEF CheckTrade

\* The total of sizes that are all zero.
LEMMA NoTotal == IsTotal([S \in SUBSET RIdeas |-> 0], NothingApproved)
  BY DEF IsTotal, NothingApproved

\* The total when one idea that had no size gets one.
LEMMA TotalGrows ==
  ASSUME NEW a \in [RIdeas -> Nat], NEW f, IsTotal(f, a),
         NEW i \in RIdeas, a[i] = 0, NEW size \in Nat
  PROVE  IsTotal([S \in SUBSET RIdeas |-> f[S] + (IF i \in S THEN size ELSE 0)],
                 [a EXCEPT ![i] = size])
  <1> DEFINE g == [S \in SUBSET RIdeas |-> f[S] + (IF i \in S THEN size ELSE 0)]
             b == [a EXCEPT ![i] = size]
  <1>1. g \in [SUBSET RIdeas -> Nat] /\ g[{}] = 0
    BY DEF IsTotal
  <1>2. ASSUME NEW S \in SUBSET RIdeas, NEW j \in RIdeas \ S
        PROVE  g[S \cup {j}] = g[S] + b[j]
    <2>1. /\ f[S \cup {j}] = f[S] + a[j] /\ f[S] \in Nat /\ a[j] \in Nat
          /\ S \cup {j} \in SUBSET RIdeas
      BY <1>2 DEF IsTotal
    <2>2. CASE j = i
      BY <2>1, <2>2
    <2>3. CASE j # i
      BY <2>1, <2>3
    <2> QED
      BY <2>2, <2>3
  <1> QED
    BY <1>1, <1>2 DEF IsTotal

\* What a review does of one idea, by the size it approves.
LEMMA ReviewFacts ==
  ASSUME RiskTypeOK, NEW v \in Reviews, NEW i \in RIdeas, NEW passes \in BOOLEAN,
         NEW kelly \in 0 .. MaxKelly, ReviewIdea(v, i, passes, kelly)
  PROVE  \E size \in 0 .. MaxSingle :
           /\ size > 0 => counted[v] + size <= MaxTotal
           /\ approved' = [approved EXCEPT ![v][i] = size]
           /\ counted' = [counted EXCEPT ![v] = @ + size]
           /\ unchecked' = [unchecked EXCEPT ![v] = @ \ {i}]
           /\ i \in unchecked[v]
           /\ UNCHANGED <<exposure, reviewAt, toBuy, streak, overtaken>>
  <1> DEFINE size == CheckTrade(passes, kelly, CategoryOf[i], counted[v], 0)
  <1>1. kelly \in Nat /\ CategoryOf[i] \in Categories /\ counted[v] \in Nat
    BY RiskBounds DEF RiskTypeOK
  <1>2. size \in 0 .. MaxSingle /\ (size > 0 => counted[v] + size <= MaxTotal)
    BY <1>1, ApprovedFacts
  <1> QED
    BY <1>2 DEF ReviewIdea

\* The initial state satisfies the inductive invariant.
LEMMA RiskInitInv == RiskInit => RiskIInv
  <1> SUFFICES ASSUME RiskInit PROVE RiskIInv
    OBVIOUS
  <1>1. /\ exposure \in Nat
        /\ reviewAt \in [Reviews -> ReviewStep]
        /\ counted \in [Reviews -> Nat]
    BY DEF RiskInit, ReviewStep
  <1>2. /\ unchecked \in [Reviews -> SUBSET RIdeas]
        /\ toBuy \in [Reviews -> SUBSET RIdeas]
    BY DEF RiskInit
  <1>3. NothingApproved \in [RIdeas -> 0 .. MaxSingle]
    BY RiskBounds DEF NothingApproved
  <1>4. approved \in [Reviews -> [RIdeas -> 0 .. MaxSingle]]
    BY <1>3 DEF RiskInit
  <1>5. streak \in [Categories -> 0 .. 3] /\ overtaken \subseteq Reviews
    BY DEF RiskInit
  <1>6. Pending = {}
    BY DEF RiskInit, Pending
  <1>7. ReviewsInOrder
    BY DEF RiskInit, ReviewsInOrder
  <1>8. exposure <= MaxTotal
    BY RiskBounds DEF RiskInit
  <1> QED
    BY <1>1, <1>2, <1>4, <1>5, <1>6, <1>7, <1>8
    DEF RiskIInv, RiskTypeOK, SlatesFit, CountedWithinTotal, ExposureWithinTotal

\* Every step keeps the variables in their types.
LEMMA RiskTypeStep == RiskTypeOK /\ [RiskNext]_riskVars => RiskTypeOK'
  <1> SUFFICES ASSUME RiskTypeOK, [RiskNext]_riskVars
               PROVE  RiskTypeOK'
    OBVIOUS
  <1>1. ASSUME NEW c \in Categories, RecordLoss(c) \/ RecordWins(c)
        PROVE  RiskTypeOK'
    <2>1. streak' \in [Categories -> 0 .. 3]
      BY <1>1 DEF RecordLoss, RecordWins, RiskTypeOK
    <2> QED
      BY <1>1, <2>1 DEF RecordLoss, RecordWins, RiskTypeOK
  <1>2. ASSUME NEW v \in Reviews, NEW batch \in SUBSET RIdeas, ReviewStart(v, batch)
        PROVE  RiskTypeOK'
    BY <1>2 DEF ReviewStart, RiskTypeOK, ReviewStep
  <1>3. ASSUME NEW v \in Reviews, NEW i \in RIdeas, NEW passes \in BOOLEAN,
               NEW kelly \in 0 .. MaxKelly, ReviewIdea(v, i, passes, kelly)
        PROVE  RiskTypeOK'
    <2>1. PICK size \in 0 .. MaxSingle :
            /\ approved' = [approved EXCEPT ![v][i] = size]
            /\ counted' = [counted EXCEPT ![v] = @ + size]
            /\ unchecked' = [unchecked EXCEPT ![v] = @ \ {i}]
            /\ UNCHANGED <<exposure, reviewAt, toBuy, streak, overtaken>>
      BY <1>3, ReviewFacts
    <2>3. approved' \in [Reviews -> [RIdeas -> 0 .. MaxSingle]]
      BY <2>1 DEF RiskTypeOK
    <2>4. counted' \in [Reviews -> Nat] /\ unchecked' \in [Reviews -> SUBSET RIdeas]
      BY <2>1 DEF RiskTypeOK
    <2> QED
      BY <2>1, <2>3, <2>4 DEF RiskTypeOK
  <1>4. ASSUME NEW v \in Reviews, ReviewEnd(v) \/ ExecuteEnd(v)
        PROVE  RiskTypeOK'
    BY <1>4 DEF ReviewEnd, ExecuteEnd, RiskTypeOK, ReviewStep
  <1>5. ASSUME NEW v \in Reviews, ExecuteStart(v)
        PROVE  RiskTypeOK'
    BY <1>5 DEF ExecuteStart, Slate, RiskTypeOK, ReviewStep
  <1>6. ASSUME NEW v \in Reviews, NEW i \in RIdeas, NEW cost \in 0 .. MaxSingle, Execute(v, i, cost)
        PROVE  RiskTypeOK'
    BY <1>6, RiskBounds DEF Execute, Pending, RiskTypeOK
  <1>7. CASE UNCHANGED riskVars
    BY <1>7 DEF riskVars, RiskTypeOK
  <1> QED
    BY <1>1, <1>2, <1>3, <1>4, <1>5, <1>6, <1>7 DEF RiskNext

\* Everything the invariant says of reviews, beside the types.
ReviewsInv == ReviewsInOrder /\ SlatesFit /\ CountedWithinTotal /\ ExposureWithinTotal

(* A review reads the exposure and approves nothing yet.                   *)
LEMMA StartKeeps ==
  ASSUME RiskTypeOK, ReviewsInv,
         NEW v \in Reviews, NEW batch \in SUBSET RIdeas, ReviewStart(v, batch)
  PROVE  ReviewsInv'
  <1>1. /\ reviewAt[v] = "idle" /\ approved[v] = NothingApproved /\ toBuy[v] = {}
        /\ reviewAt'[v] = "checking" /\ counted'[v] = exposure /\ unchecked'[v] = batch
        /\ \A w \in Reviews \ {v} :
             reviewAt'[w] = reviewAt[w] /\ counted'[w] = counted[w] /\ unchecked'[w] = unchecked[w]
        /\ UNCHANGED <<exposure, approved, toBuy, overtaken>>
    BY DEF ReviewStart, RiskTypeOK, ReviewsInv, ReviewsInOrder
  <1>2. ReviewsInOrder'
    <2> SUFFICES ASSUME NEW w \in Reviews
                 PROVE  /\ unchecked'[w] # {} => reviewAt'[w] = "checking"
                        /\ reviewAt'[w] = "idle" => approved'[w] = NothingApproved
                        /\ \A i \in unchecked'[w] : approved'[w][i] = 0
                        /\ toBuy'[w] # {} => reviewAt'[w] = "buying"
      BY DEF ReviewsInOrder
    <2>1. CASE w = v
      BY <1>1, <2>1 DEF NothingApproved
    <2>2. CASE w # v
      BY <1>1, <2>2 DEF ReviewsInv, ReviewsInOrder
    <2> QED
      BY <2>1, <2>2
  <1>3. SlatesFit'
    <2> SUFFICES ASSUME NEW w \in (Pending \ overtaken)'
                 PROVE  \E f : IsTotal(f, approved'[w]) /\ exposure' + f[Left(w)'] <= counted'[w]
      BY DEF SlatesFit
    <2>1. CASE w = v
      <3> DEFINE f == [S \in SUBSET RIdeas |-> 0]
      <3>1. Left(v)' = {}
        BY <1>1 DEF Left, Slate, NothingApproved
      <3>2. f[{}] = 0 /\ exposure \in Nat
        BY DEF RiskTypeOK
      <3> QED
        BY <1>1, <2>1, <3>1, <3>2, NoTotal
    <2>2. CASE w # v
      <3>1. w \in Pending \ overtaken /\ Left(w)' = Left(w)
        BY <1>1, <2>2 DEF Pending, Left, Slate
      <3> QED
        BY <1>1, <2>2, <3>1 DEF ReviewsInv, SlatesFit, Pending
    <2> QED
      BY <2>1, <2>2
  <1>4. CountedWithinTotal' /\ ExposureWithinTotal'
    BY <1>1 DEF ReviewsInv, CountedWithinTotal, ExposureWithinTotal, Pending
  <1> QED
    BY <1>2, <1>3, <1>4 DEF ReviewsInv

(* An idea that is approved is counted with its size.                      *)
LEMMA IdeaKeeps ==
  ASSUME RiskTypeOK, ReviewsInv, NEW v \in Reviews, NEW i \in RIdeas, NEW passes \in BOOLEAN,
         NEW kelly \in 0 .. MaxKelly, ReviewIdea(v, i, passes, kelly)
  PROVE  ReviewsInv'
  <1>1. PICK size \in 0 .. MaxSingle :
          /\ size > 0 => counted[v] + size <= MaxTotal
          /\ approved' = [approved EXCEPT ![v][i] = size]
          /\ counted' = [counted EXCEPT ![v] = @ + size]
          /\ unchecked' = [unchecked EXCEPT ![v] = @ \ {i}]
          /\ i \in unchecked[v]
          /\ UNCHANGED <<exposure, reviewAt, toBuy, streak, overtaken>>
    BY ReviewFacts
  <1>2. /\ reviewAt[v] = "checking" /\ approved[v][i] = 0
        /\ approved'[v] = [approved[v] EXCEPT ![i] = size]
        /\ counted'[v] = counted[v] + size /\ unchecked'[v] = unchecked[v] \ {i}
        /\ \A w \in Reviews \ {v} :
             approved'[w] = approved[w] /\ counted'[w] = counted[w] /\ unchecked'[w] = unchecked[w]
    BY <1>1 DEF RiskTypeOK, ReviewsInv, ReviewsInOrder
  <1>3. /\ approved[v] \in [RIdeas -> Nat] /\ counted[v] \in Nat /\ exposure \in Nat
        /\ size \in Nat /\ MaxTotal \in Nat
    BY RiskBounds DEF RiskTypeOK
  <1>4. ReviewsInOrder'
    <2> SUFFICES ASSUME NEW w \in Reviews
                 PROVE  /\ unchecked'[w] # {} => reviewAt'[w] = "checking"
                        /\ reviewAt'[w] = "idle" => approved'[w] = NothingApproved
                        /\ \A j \in unchecked'[w] : approved'[w][j] = 0
                        /\ toBuy'[w] # {} => reviewAt'[w] = "buying"
      BY DEF ReviewsInOrder
    <2>1. CASE w = v
      <3>1. \A j \in unchecked'[v] : approved'[v][j] = approved[v][j]
        BY <1>2, <1>3 DEF RiskTypeOK
      <3> QED
        BY <1>1, <1>2, <2>1, <3>1 DEF ReviewsInv, ReviewsInOrder
    <2>2. CASE w # v
      BY <1>1, <1>2, <2>2 DEF ReviewsInv, ReviewsInOrder
    <2> QED
      BY <2>1, <2>2
  <1>5. SlatesFit'
    <2> SUFFICES ASSUME NEW w \in (Pending \ overtaken)'
                 PROVE  \E f : IsTotal(f, approved'[w]) /\ exposure' + f[Left(w)'] <= counted'[w]
      BY DEF SlatesFit
    <2>1. w \in Pending \ overtaken
      BY <1>1 DEF Pending
    <2>2. PICK f : IsTotal(f, approved[w]) /\ exposure + f[Left(w)] <= counted[w]
      BY <2>1 DEF ReviewsInv, SlatesFit
    <2>3. CASE w = v
      <3> DEFINE g == [S \in SUBSET RIdeas |-> f[S] + (IF i \in S THEN size ELSE 0)]
      <3>0. IsTotal(f, approved[v])
        BY <2>2, <2>3
      <3>1. IsTotal(g, [approved[v] EXCEPT ![i] = size])
        <4> HIDE DEF g
        <4>1. approved[v] \in [RIdeas -> Nat] /\ approved[v][i] = 0 /\ size \in Nat
          BY <1>2, <1>3
        <4> QED
          BY <3>0, <4>1, TotalGrows DEF g
      <3>2. Left(v) = Slate(v) /\ Left(v)' = Slate(v)' /\ i \notin Slate(v)
        BY <1>1, <1>2 DEF Left, Slate
      <3>3. f[Slate(v)] \in Nat /\ f[Slate(v) \cup {i}] = f[Slate(v)] + 0
        <4>1. Slate(v) \in SUBSET RIdeas /\ i \in RIdeas \ Slate(v)
          BY <3>2 DEF Slate
        <4> HIDE DEF g
        <4> QED
          BY <1>2, <3>0, <4>1 DEF IsTotal
      <3>4. g[Slate(v)'] = f[Slate(v)] + size
        <4>1. CASE size > 0
          <5>1. Slate(v)' = Slate(v) \cup {i}
            BY <1>2, <1>3, <4>1 DEF Slate
          <5>2. Slate(v) \cup {i} \in SUBSET RIdeas
            BY DEF Slate
          <5>3. g[Slate(v) \cup {i}] = f[Slate(v) \cup {i}] + size
            BY <5>2
          <5> QED
            BY <5>1, <5>3, <3>3
        <4>2. CASE size = 0
          <5>1. Slate(v)' = Slate(v)
            BY <1>2, <1>3, <4>2 DEF Slate
          <5> QED
            BY <5>1, <3>2, <3>3, <4>2 DEF Slate
        <4> QED
          BY <4>1, <4>2, <1>3
      <3>5. exposure' + g[Left(v)'] <= counted'[v]
        BY <1>1, <1>2, <1>3, <2>2, <2>3, <3>2, <3>3, <3>4
      <3> QED
        BY <1>2, <2>3, <3>1, <3>5
    <2>4. CASE w # v
      <3>1. w \in Reviews /\ approved'[w] = approved[w] /\ counted'[w] = counted[w]
        BY <1>2, <2>1, <2>4 DEF Pending
      <3>2. Left(w)' = Left(w)
        BY <1>1, <3>1 DEF Left, Slate
      <3> QED
        BY <1>1, <2>2, <3>1, <3>2
    <2> QED
      BY <2>3, <2>4
  <1>6. CountedWithinTotal'
    BY <1>1, <1>2, <1>3 DEF ReviewsInv, CountedWithinTotal, Pending
  <1>7. ExposureWithinTotal'
    BY <1>1 DEF ReviewsInv, ExposureWithinTotal
  <1> QED
    BY <1>4, <1>5, <1>6, <1>7 DEF ReviewsInv

(* An execution spends what it takes off the slate, or less; what other    *)
(* reviews have counted is overtaken.                                      *)
LEMMA ExecuteKeeps ==
  ASSUME RiskTypeOK, ReviewsInv, NEW v \in Reviews, NEW i \in RIdeas,
         NEW cost \in 0 .. MaxSingle, Execute(v, i, cost)
  PROVE  ReviewsInv'
  <1>1. /\ i \in toBuy[v] /\ cost <= approved[v][i] /\ reviewAt[v] = "buying"
        /\ toBuy'[v] = toBuy[v] \ {i} /\ \A w \in Reviews \ {v} : toBuy'[w] = toBuy[w]
        /\ exposure' = exposure + cost
        /\ overtaken' = IF cost > 0 THEN overtaken \cup (Pending \ {v}) ELSE overtaken
        /\ UNCHANGED <<reviewAt, counted, unchecked, approved>>
    BY DEF Execute, RiskTypeOK, ReviewsInv, ReviewsInOrder
  <1>2. /\ approved[v] \in [RIdeas -> Nat] /\ counted[v] \in Nat /\ exposure \in Nat
        /\ cost \in Nat /\ MaxTotal \in Nat /\ toBuy[v] \in SUBSET RIdeas
    BY RiskBounds DEF RiskTypeOK
  <1>3. ASSUME NEW f, IsTotal(f, approved[v]), exposure + f[toBuy[v]] <= counted[v]
        PROVE  f[toBuy'[v]] \in Nat /\ exposure' + f[toBuy'[v]] <= counted[v]
    <2>1. /\ toBuy'[v] \in SUBSET RIdeas /\ i \in RIdeas \ toBuy'[v]
          /\ toBuy'[v] \cup {i} = toBuy[v]
      BY <1>1, <1>2
    <2>2. f[toBuy[v]] = f[toBuy'[v]] + approved[v][i] /\ f[toBuy'[v]] \in Nat
      BY <1>3, <2>1 DEF IsTotal
    <2> QED
      BY <1>1, <1>2, <1>3, <2>2
  <1>4. v \in Pending /\ Left(v) = toBuy[v] /\ Left(v)' = toBuy'[v] /\ Pending' = Pending
    BY <1>1 DEF Pending, Left
  <1>5. ReviewsInOrder'
    BY <1>1 DEF ReviewsInv, ReviewsInOrder
  <1>6. SlatesFit'
    <2> SUFFICES ASSUME NEW w \in (Pending \ overtaken)'
                 PROVE  \E f : IsTotal(f, approved'[w]) /\ exposure' + f[Left(w)'] <= counted'[w]
      BY DEF SlatesFit
    <2>1. w \in Pending \ overtaken /\ (w # v => ~(cost > 0))
      BY <1>1, <1>4
    <2>2. PICK f : IsTotal(f, approved[w]) /\ exposure + f[Left(w)] <= counted[w]
      BY <2>1 DEF ReviewsInv, SlatesFit
    <2>3. CASE w = v
      BY <1>1, <1>3, <1>4, <2>2, <2>3
    <2>4. CASE w # v
      <3>1. exposure' = exposure
        BY <1>1, <1>2, <2>1, <2>4
      <3>2. w \in Reviews /\ Left(w)' = Left(w)
        BY <1>1, <2>1, <2>4 DEF Left, Slate, Pending
      <3> QED
        BY <1>1, <2>2, <3>1, <3>2
    <2> QED
      BY <2>3, <2>4
  <1>7. overtaken' = {} => overtaken = {}
    BY <1>1
  <1>8. CountedWithinTotal'
    BY <1>1, <1>4, <1>7 DEF ReviewsInv, CountedWithinTotal
  <1>9. ASSUME overtaken' = {}
        PROVE  exposure' <= MaxTotal
    <2>1. PICK f : IsTotal(f, approved[v]) /\ exposure + f[Left(v)] <= counted[v]
      BY <1>4, <1>7, <1>9 DEF ReviewsInv, SlatesFit
    <2>2. exposure' + f[toBuy'[v]] <= counted[v] /\ f[toBuy'[v]] \in Nat
      BY <1>3, <1>4, <2>1
    <2>3. counted[v] <= MaxTotal
      BY <1>4, <1>7, <1>9 DEF ReviewsInv, CountedWithinTotal
    <2> QED
      BY <1>1, <1>2, <2>2, <2>3
  <1> QED
    BY <1>5, <1>6, <1>8, <1>9 DEF ReviewsInv, ExposureWithinTotal

(* The ends of a review and of an execution, and the beginning of an       *)
(* execution, which has the slate before it, or overtakes its review.      *)
LEMMA TurnKeeps ==
  ASSUME RiskTypeOK, ReviewsInv,
         NEW v \in Reviews, ReviewEnd(v) \/ ExecuteStart(v) \/ ExecuteEnd(v)
  PROVE  ReviewsInv'
  <1>1. /\ UNCHANGED <<exposure, counted, unchecked, approved>>
        /\ overtaken \subseteq overtaken'
        /\ \A w \in Reviews \ {v} : reviewAt'[w] = reviewAt[w] /\ toBuy'[w] = toBuy[w]
        /\ unchecked[v] = {}
        /\ reviewAt'[v] \in {"slate", "buying", "executed"}
        /\ toBuy'[v] # {} => reviewAt'[v] = "buying"
    BY DEF ReviewEnd, ExecuteStart, ExecuteEnd, RiskTypeOK, ReviewsInv, ReviewsInOrder
  <1>2. v \in (Pending \ overtaken)' => v \in Pending /\ Left(v)' = Left(v)
    <2>1. CASE ReviewEnd(v)
      BY <2>1 DEF ReviewEnd, RiskTypeOK, Pending, Left, Slate
    <2>2. CASE ExecuteStart(v)
      BY <2>2 DEF ExecuteStart, RiskTypeOK, Pending, Left, Slate
    <2>3. CASE ExecuteEnd(v)
      BY <2>3 DEF ExecuteEnd, RiskTypeOK, Pending
    <2> QED
      BY <2>1, <2>2, <2>3
  <1>3. ASSUME NEW w \in (Pending \ overtaken)'
        PROVE  w \in Pending \ overtaken /\ Left(w)' = Left(w)
    <2>1. CASE w = v
      BY <1>1, <1>2, <1>3, <2>1
    <2>2. CASE w # v
      BY <1>1, <1>3, <2>2 DEF Pending, Left, Slate
    <2> QED
      BY <2>1, <2>2
  <1>4. ReviewsInOrder'
    BY <1>1 DEF ReviewsInv, ReviewsInOrder
  <1>5. SlatesFit'
    BY <1>1, <1>3 DEF ReviewsInv, SlatesFit
  <1>6. CountedWithinTotal' /\ ExposureWithinTotal'
    BY <1>1, <1>3 DEF ReviewsInv, CountedWithinTotal, ExposureWithinTotal
  <1> QED
    BY <1>4, <1>5, <1>6 DEF ReviewsInv

\* Every step keeps the inductive invariant.
LEMMA RiskKeeps == RiskIInv /\ [RiskNext]_riskVars => RiskIInv'
  <1> SUFFICES ASSUME RiskTypeOK, ReviewsInv, [RiskNext]_riskVars
               PROVE  ReviewsInv'
    BY RiskTypeStep DEF RiskIInv, ReviewsInv
  <1>1. CASE \/ UNCHANGED riskVars
             \/ \E c \in Categories : RecordLoss(c) \/ RecordWins(c)
    <2>1. UNCHANGED <<exposure, reviewAt, counted, unchecked, approved, toBuy, overtaken>>
      BY <1>1 DEF riskVars, RecordLoss, RecordWins
    <2>2. Pending' = Pending /\ \A v : Left(v)' = Left(v)
      BY <2>1 DEF Pending, Left, Slate
    <2> QED
      BY <2>1, <2>2
      DEF ReviewsInv, ReviewsInOrder, SlatesFit, CountedWithinTotal, ExposureWithinTotal
  <1> QED
    BY <1>1, StartKeeps, IdeaKeeps, ExecuteKeeps, TurnKeeps DEF RiskNext

(* As long as every slate is executed once, and before the next review     *)
(* reads the positions, the account stays within the total: what a review  *)
(* approves fits beside the exposure it read, and what is bought of it is  *)
(* no more than what was approved.                                         *)
THEOREM SlatesStayWithinTotal == RiskSpec => []ExposureWithinTotal
  <1>1. RiskIInv => ExposureWithinTotal
    BY DEF RiskIInv
  <1> QED
    BY <1>1, RiskInitInv, RiskKeeps, PTL DEF RiskSpec

---------------------------------------------------------------------------
(* OrderCommand: an order that replaces others never oversells.            *)

\* A command that is past the quantity has one, and no other has.
QuantityIsRead ==
  /\ orderAt \in {"idle", "priced"} => count = NoQuantity
  /\ orderAt \in {"resolved", "cleared"} => count # NoQuantity /\ ~cancelOnly
  /\ orderAt = "cancelling" => cancelOnly \/ count # NoQuantity
  /\ cancelFirst => ~cancelOnly

\* The quantity of "all" is what is held until something moves.
QuantityIsRight == count # NoQuantity /\ sideIs = "held" /\ ~moved => count = holding

\* Until something moves, what rests is what is left to cancel.
RestIsListed ==
  ~moved =>
    /\ orderAt = "cancelling" /\ ~cancelOnly => Resting \subseteq toCancel
    /\ orderAt = "cleared" => Resting = {}

\* The inductive invariant of the order command.
OrderIInv ==
  OrderTypeOK /\ QuantityIsRead /\ QuantityIsRight /\ RestIsListed /\ ReplaceNeverOversells

\* Contracts and orders are counted.
LEMMA OrderBounds == MaxHeld \in Nat /\ MaxHeld >= 1 /\ NoQuantity \notin Nat
  BY OrderCommandAssumption

\* Nothing rests at first, and no command has begun.
LEMMA OrderInitInv == OrderInit => OrderIInv
  <1> SUFFICES ASSUME OrderInit PROVE OrderIInv
    OBVIOUS
  <1>1. Resting = {}
    BY DEF OrderInit, Resting
  <1>2. restingQty \in [OSlots -> 0 .. MaxHeld] /\ holding \in 0 .. MaxHeld
    BY OrderBounds DEF OrderInit
  <1>3. /\ orderAt = "idle" /\ cancelFirst = FALSE /\ cancelOnly = FALSE /\ sideGiven = FALSE
        /\ count = NoQuantity /\ sideIs = "held" /\ toCancel = {}
        /\ moved = FALSE /\ undisturbed = TRUE
    BY DEF OrderInit
  <1>4. OrderTypeOK
    BY <1>2, <1>3 DEF OrderTypeOK, OrderStep
  <1> QED
    BY <1>1, <1>3, <1>4
    DEF OrderIInv, QuantityIsRead, QuantityIsRight, RestIsListed, ReplaceNeverOversells

\* Every step keeps the variables in their types.
LEMMA OrderTypeStep == OrderTypeOK /\ QuantityIsRead /\ [OrderNext]_orderVars => OrderTypeOK'
  <1> SUFFICES ASSUME OrderTypeOK, QuantityIsRead, [OrderNext]_orderVars
               PROVE  OrderTypeOK'
    OBVIOUS
  <1> USE OrderBounds
  <1>1. ASSUME NEW o \in OSlots, FillOne(o)
        PROVE  OrderTypeOK'
    <2>1. restingQty[o] \in 1 .. MaxHeld /\ holding \in 1 .. MaxHeld
      BY <1>1 DEF FillOne, Resting, OrderTypeOK
    <2>2. restingQty' \in [OSlots -> 0 .. MaxHeld] /\ holding' \in 0 .. MaxHeld
      BY <1>1, <2>1 DEF FillOne, OrderTypeOK
    <2> QED
      BY <1>1, <2>2 DEF FillOne, OrderTypeOK, commandVars
  <1>2. ASSUME NEW o \in OSlots, OthersSell(o)
        PROVE  OrderTypeOK'
    BY <1>2 DEF OthersSell, OrderTypeOK, commandVars
  <1>3. ASSUME NEW first \in BOOLEAN, NEW only \in BOOLEAN, NEW given \in BOOLEAN,
               OrderStart(first, only, given)
        PROVE  OrderTypeOK'
    BY <1>3 DEF OrderStart, OrderTypeOK, OrderStep
  <1>4. CASE GivesUp
    BY <1>4 DEF GivesUp, CommandIdle, OrderTypeOK, OrderStep
  <1>5. CASE ResolveAll
    BY <1>5 DEF ResolveAll, OrderTypeOK, OrderStep
  <1>6. ASSUME NEW n \in 1 .. MaxHeld, ResolveNumber(n)
        PROVE  OrderTypeOK'
    BY <1>6 DEF ResolveNumber, OrderTypeOK, OrderStep
  <1>7. CASE ListResting
    BY <1>7 DEF ListResting, Resting, OrderTypeOK, OrderStep
  <1>8. ASSUME NEW o \in OSlots, CancelOne(o)
        PROVE  OrderTypeOK'
    BY <1>8 DEF CancelOne, OrderTypeOK
  <1>9. CASE Cancelled
    BY <1>9 DEF Cancelled, CommandIdle, OrderTypeOK, OrderStep
  <1>10. ASSUME NEW o \in OSlots, PlaceOrder(o)
         PROVE  OrderTypeOK'
    <2>1. count \in 0 .. MaxHeld
      BY <1>10 DEF PlaceOrder, QuantityIsRead, OrderTypeOK
    <2>2. restingQty' \in [OSlots -> 0 .. MaxHeld]
      BY <1>10, <2>1 DEF PlaceOrder, OrderTypeOK
    <2>3. undisturbed' \in BOOLEAN
      BY <1>10 DEF PlaceOrder, OrderTypeOK
    <2> QED
      BY <1>10, <2>2, <2>3 DEF PlaceOrder, CommandIdle, OrderTypeOK, OrderStep
  <1>11. CASE UNCHANGED orderVars
    BY <1>11 DEF orderVars, commandVars, OrderTypeOK
  <1> QED
    BY <1>1, <1>2, <1>3, <1>4, <1>5, <1>6, <1>7, <1>8, <1>9, <1>10, <1>11 DEF OrderNext

\* What is known of the command and its quantity.
CommandInv == QuantityIsRead /\ QuantityIsRight /\ RestIsListed

(* A fill, or an order of another program, moves what a quantity was read  *)
(* of; before that no list and no quantity is of any account.              *)
LEMMA AccountKeepsCommand ==
  ASSUME OrderTypeOK, CommandInv,
         NEW o \in OSlots, FillOne(o) \/ OthersSell(o)
  PROVE  CommandInv'
  <1>1. /\ UNCHANGED <<orderAt, cancelFirst, cancelOnly, count, sideIs, toCancel>>
        /\ moved' = (moved \/ count # NoQuantity)
    BY DEF FillOne, OthersSell, commandVars
  <1> QED
    BY <1>1 DEF CommandInv, QuantityIsRead, QuantityIsRight, RestIsListed

\* An end of the program forgets the quantity and the list.
LEMMA EndKeepsCommand ==
  ASSUME CommandIdle
  PROVE  CommandInv'
  BY DEF CommandIdle, CommandInv, QuantityIsRead, QuantityIsRight, RestIsListed

\* Every step of the command keeps what is known of it.
LEMMA CommandKeeps ==
  OrderTypeOK /\ CommandInv /\ [OrderNext]_orderVars => CommandInv'
  <1> SUFFICES ASSUME OrderTypeOK, CommandInv, [OrderNext]_orderVars
               PROVE  CommandInv'
    OBVIOUS
  <1> USE OrderBounds DEF CommandInv
  <1>1. ASSUME NEW o \in OSlots, FillOne(o) \/ OthersSell(o)
        PROVE  CommandInv'
    BY <1>1, AccountKeepsCommand
  <1>2. ASSUME NEW first \in BOOLEAN, NEW only \in BOOLEAN, NEW given \in BOOLEAN,
               OrderStart(first, only, given)
        PROVE  CommandInv'
    BY <1>2 DEF OrderStart, QuantityIsRead, QuantityIsRight, RestIsListed
  <1>3. CASE GivesUp
    BY <1>3, EndKeepsCommand DEF GivesUp
  <1>4. CASE ResolveAll
    BY <1>4 DEF ResolveAll, OrderTypeOK, QuantityIsRead, QuantityIsRight, RestIsListed
  <1>5. ASSUME NEW n \in 1 .. MaxHeld, ResolveNumber(n)
        PROVE  CommandInv'
    BY <1>5 DEF ResolveNumber, QuantityIsRead, QuantityIsRight, RestIsListed
  <1>6. CASE ListResting
    <2>1. Resting' = Resting
      BY <1>6 DEF ListResting, Resting
    <2> QED
      BY <1>6, <2>1 DEF ListResting, QuantityIsRead, QuantityIsRight, RestIsListed
  <1>7. ASSUME NEW o \in OSlots, CancelOne(o)
        PROVE  CommandInv'
    <2>1. Resting' \subseteq Resting \ {o}
      BY <1>7 DEF CancelOne, Resting, OrderTypeOK
    <2> QED
      BY <1>7, <2>1 DEF CancelOne, QuantityIsRead, QuantityIsRight, RestIsListed
  <1>8. CASE Cancelled
    <2>1. CASE cancelOnly
      BY <1>8, <2>1, EndKeepsCommand DEF Cancelled
    <2>2. CASE ~cancelOnly
      <3>1. Resting' = Resting
        BY <1>8 DEF Cancelled, Resting
      <3> QED
        BY <1>8, <2>2, <3>1 DEF Cancelled, QuantityIsRead, QuantityIsRight, RestIsListed
    <2> QED
      BY <2>1, <2>2
  <1>9. ASSUME NEW o \in OSlots, PlaceOrder(o)
        PROVE  CommandInv'
    BY <1>9, EndKeepsCommand DEF PlaceOrder
  <1>10. CASE UNCHANGED orderVars
    BY <1>10 DEF orderVars, commandVars, QuantityIsRead, QuantityIsRight, RestIsListed, Resting
  <1> QED
    BY <1>1, <1>2, <1>3, <1>4, <1>5, <1>6, <1>7, <1>8, <1>9, <1>10 DEF OrderNext

(* An order that replaces the others of a position that has not moved      *)
(* rests alone; a fill takes as much from the order as from the position.  *)
LEMMA ReplaceKeeps ==
  OrderTypeOK /\ CommandInv /\ ReplaceNeverOversells /\ [OrderNext]_orderVars => ReplaceNeverOversells'
  <1> SUFFICES ASSUME OrderTypeOK, CommandInv, ReplaceNeverOversells, [OrderNext]_orderVars,
                      undisturbed', NEW r \in Resting'
               PROVE  Resting' = {r} /\ restingQty'[r] <= holding'
    BY DEF ReplaceNeverOversells
  <1> USE OrderBounds
  <1>1. ASSUME NEW o \in OSlots, FillOne(o)
        PROVE  Resting' = {r} /\ restingQty'[r] <= holding'
    <2>1. Resting = {o} /\ restingQty[o] <= holding /\ restingQty[o] \in Nat /\ holding \in Nat
      BY <1>1 DEF FillOne, ReplaceNeverOversells, OrderTypeOK
    <2>2. \A p \in OSlots \ {o} : restingQty'[p] = restingQty[p] /\ ~(restingQty[p] > 0)
      BY <1>1, <2>1 DEF FillOne, OrderTypeOK, Resting
    <2>3. r = o /\ Resting' = {o}
      BY <2>2 DEF Resting
    <2>4. restingQty'[o] = restingQty[o] - 1 /\ holding' = holding - 1
      BY <1>1 DEF FillOne, OrderTypeOK
    <2> QED
      BY <2>1, <2>3, <2>4
  <1>2. ASSUME NEW o \in OSlots, OthersSell(o)
        PROVE  Resting' = {r} /\ restingQty'[r] <= holding'
    <2>1. restingQty'[o] = holding /\ \A p \in OSlots \ {o} : restingQty'[p] = restingQty[p]
      BY <1>2 DEF OthersSell, OrderTypeOK
    <2>2. r = o /\ Resting' = {o}
      BY <1>2, <2>1 DEF OthersSell, Resting
    <2> QED
      BY <1>2, <2>1, <2>2 DEF OthersSell, OrderTypeOK
  <1>3. ASSUME NEW o \in OSlots, CancelOne(o)
        PROVE  Resting' = {r} /\ restingQty'[r] <= holding'
    <2>1. Resting' = Resting \ {o}
      BY <1>3 DEF CancelOne, Resting, OrderTypeOK
    <2>2. FALSE
      BY <1>3, <2>1 DEF CancelOne, ReplaceNeverOversells
    <2> QED
      BY <2>2
  <1>4. ASSUME NEW o \in OSlots, PlaceOrder(o)
        PROVE  Resting' = {r} /\ restingQty'[r] <= holding'
    <2>1. CASE sideIs = "held" \/ sideGiven
      <3>1. cancelFirst /\ sideIs = "held" /\ ~moved /\ orderAt = "cleared"
        BY <1>4, <2>1 DEF PlaceOrder
      <3>2. Resting = {} /\ count = holding
        BY <3>1 DEF CommandInv, QuantityIsRead, QuantityIsRight, RestIsListed
      <3>3. restingQty'[o] = holding /\ \A p \in OSlots \ {o} : restingQty'[p] = restingQty[p]
        BY <1>4, <2>1, <3>2 DEF PlaceOrder, OrderTypeOK
      <3>4. r = o /\ Resting' = {o}
        BY <3>2, <3>3 DEF Resting
      <3> QED
        BY <1>4, <3>3, <3>4 DEF PlaceOrder, OrderTypeOK
    <2>2. CASE ~(sideIs = "held" \/ sideGiven)
      BY <1>4, <2>2 DEF PlaceOrder, ReplaceNeverOversells, Resting
    <2> QED
      BY <2>1, <2>2
  <1>5. CASE UNCHANGED <<holding, restingQty, undisturbed>>
    BY <1>5 DEF ReplaceNeverOversells, Resting
  <1> QED
    BY <1>1, <1>2, <1>3, <1>4, <1>5
    DEF OrderNext, orderVars, OrderStart, GivesUp, ResolveAll, ResolveNumber, ListResting, Cancelled

\* Every step keeps the inductive invariant.
LEMMA OrderKeeps == OrderIInv /\ [OrderNext]_orderVars => OrderIInv'
  BY OrderTypeStep, CommandKeeps, ReplaceKeeps DEF OrderIInv, CommandInv

(* After a cancel and replace of a whole position that stood still, one    *)
(* order rests at most, and it sells no more than is held; fills later on, *)
(* and cancels that fail half way, keep it so.                             *)
THEOREM ReplacementsStayCovered == OrderSpec => []ReplaceNeverOversells
  <1>1. OrderIInv => ReplaceNeverOversells
    BY DEF OrderIInv
  <1> QED
    BY <1>1, OrderInitInv, OrderKeeps, PTL DEF OrderSpec

---------------------------------------------------------------------------
(* PositionLedger: a trade records the exit of the call that closed its    *)
(* position, and a resolution leaves no signal behind but the late ones.   *)

\* What closed a position is recorded with it.
ClosedByCall ==
  \A k \in LTrades : position[k] # "closed" => closedWith[k] = LNone

\* The row of a call that has selected one, and of one that has closed it.
CallsKeepTheirRow ==
  \A c \in Closers :
    /\ closerAt[c] \in {"found", "won", "died"} => closerRow[c] \in LTrades
    /\ closerAt[c] \in {"won", "died"} => closedWith[closerRow[c]] = c

\* A resolution at work has the rest of its market's signals in hand.
ResolutionHoldsTheRest ==
  \A p \in Resolvers : resolverAt[p] = "update" =>
    SignalsOf(resolving[p]) \subseteq scoredSig \cup late \cup unscored[p]

\* The inductive invariant of the ledger.
LedgerIInv ==
  /\ LedgerTypeOK
  /\ ClosedByCall /\ CallsKeepTheirRow /\ ExitMatchesPosition
  /\ ResolutionHoldsTheRest /\ ResolvedMarketsAreScored

\* The initial state satisfies the inductive invariant.
LEMMA LedgerInitInv == LedgerInit => LedgerIInv
  <1> SUFFICES ASSUME LedgerInit PROVE LedgerIInv
    OBVIOUS
  <1> USE DEF LedgerInit
  <1>1. LedgerTypeOK
    BY DEF LedgerTypeOK, LPosition, CloserStep, ResolverStep
  <1>2. ClosedByCall /\ CallsKeepTheirRow /\ ExitMatchesPosition
    BY DEF ClosedByCall, CallsKeepTheirRow, ExitMatchesPosition
  <1>3. ResolutionHoldsTheRest /\ ResolvedMarketsAreScored
    BY DEF ResolutionHoldsTheRest, ResolvedMarketsAreScored
  <1> QED
    BY <1>1, <1>2, <1>3 DEF LedgerIInv

\* The trades and positions: one of their actions.
TradeStep ==
  \/ \E k \in LTrades, t \in LTickers : InsertTrade(k, t)
  \/ \E k \in LTrades : OpenPosition(k)
  \/ \E c \in Closers, t \in LTickers, order \in BOOLEAN : CloseSelect(c, t, order)
  \/ \E c \in Closers : CloseUpdate(c)
  \/ \E c \in Closers : CloseTrade(c)
  \/ \E c \in Closers : CloseDies(c)

\* The signals: one of their actions.
SignalStep ==
  \/ \E s \in LSignals, t \in LTickers, source \in LSources : InsertSignal(s, t, source)
  \/ \E batch \in SUBSET LSignals, k \in LTrades : LinkSignals(batch, k)
  \/ \E p \in Resolvers, t \in LTickers : ResolveBegin(p, t)
  \/ \E p \in Resolvers : ResolveSelect(p)
  \/ \E p \in Resolvers : ResolveUpdate(p)
  \/ \E p \in Resolvers : ResolveEnd(p)
  \/ \E p \in Resolvers : ResolveFails(p)

\* A step writes the trades and positions or the signals, never both.
LEMMA LedgerSteps ==
  /\ LedgerNext => TradeStep \/ SignalStep
  /\ TradeStep => UNCHANGED signalVars
  /\ SignalStep => UNCHANGED tradeVars
  <1>1. LedgerNext => TradeStep \/ SignalStep
    BY DEF LedgerNext, TradeStep, SignalStep
  <1>2. TradeStep => UNCHANGED signalVars
    BY DEF TradeStep, InsertTrade, OpenPosition, CloseSelect, CloseUpdate, CloseTrade, CloseDies
  <1>3. SignalStep => UNCHANGED tradeVars
    BY DEF SignalStep, InsertSignal, LinkSignals, ResolveBegin, ResolveSelect, ResolveUpdate,
           ResolveEnd, ResolveFails
  <1> QED
    BY <1>1, <1>2, <1>3

\* The part of the invariant about the trades, and the part about the signals.
TradeTypes ==
  /\ tradeTicker \in [LTrades -> LTickers \cup {LNone}]
  /\ exitOf \in [LTrades -> Closers \cup {LNone}]
  /\ position \in [LTrades -> LPosition]
  /\ closedWith \in [LTrades -> Closers \cup {LNone}]
  /\ closerAt \in [Closers -> CloserStep]
  /\ closerRow \in [Closers -> LTrades \cup {LNone}]
  /\ byOrder \in [Closers -> BOOLEAN]

SignalTypes ==
  /\ signal \in [LSignals -> (LTickers \X LSources) \cup {LNone}]
  /\ linked \in [LSignals -> LTrades \cup {LNone}]
  /\ scoredSig \subseteq LSignals
  /\ resolverAt \in [Resolvers -> ResolverStep]
  /\ resolving \in [Resolvers -> LTickers \cup {LNone}]
  /\ unscored \in [Resolvers -> SUBSET LSignals]
  /\ late \subseteq LSignals

TradeInv  == TradeTypes /\ ClosedByCall /\ CallsKeepTheirRow /\ ExitMatchesPosition
SignalInv == SignalTypes /\ ResolutionHoldsTheRest /\ ResolvedMarketsAreScored

\* The invariant is that of the trades and that of the signals.
LEMMA LedgerParts == LedgerIInv <=> TradeInv /\ SignalInv
  BY DEF LedgerIInv, LedgerTypeOK, TradeInv, SignalInv, TradeTypes, SignalTypes

\* A step of the trades preserves their part of the invariant.
LEMMA TradesStep == TradeInv /\ TradeStep => TradeInv'
  <1> SUFFICES ASSUME TradeInv, TradeStep PROVE TradeInv'
    OBVIOUS
  <1> USE LedgerNoneAssumption DEF LPosition, CloserStep
  <1>0. TradeTypes /\ ClosedByCall /\ CallsKeepTheirRow /\ ExitMatchesPosition
    BY DEF TradeInv
  <1>1. ASSUME NEW k \in LTrades, NEW t \in LTickers, InsertTrade(k, t) PROVE TradeInv'
    BY <1>0, <1>1 DEF InsertTrade, TradeInv, TradeTypes, ClosedByCall, CallsKeepTheirRow,
                      ExitMatchesPosition
  <1>2. ASSUME NEW k \in LTrades, OpenPosition(k) PROVE TradeInv'
    <2>1. TradeTypes'
      BY <1>0, <1>2 DEF OpenPosition, TradeTypes
    <2>2. ClosedByCall'
      BY <1>0, <1>2 DEF OpenPosition, TradeTypes, ClosedByCall
    <2>3. CallsKeepTheirRow' /\ ExitMatchesPosition'
      BY <1>0, <1>2 DEF OpenPosition, CallsKeepTheirRow, ExitMatchesPosition
    <2> QED
      BY <2>1, <2>2, <2>3 DEF TradeInv
  <1>3. ASSUME NEW c \in Closers, NEW t \in LTickers, NEW order \in BOOLEAN,
               CloseSelect(c, t, order)
        PROVE TradeInv'
    <2>1. TradeTypes'
      BY <1>0, <1>3 DEF CloseSelect, TradeTypes, OpenOf
    <2>2. ClosedByCall'
      BY <1>0, <1>3 DEF CloseSelect, ClosedByCall
    <2>3. CallsKeepTheirRow'
      <3>1. CASE OpenOf(t) = {} /\ closerAt' = [closerAt EXCEPT ![c] = "over"] /\ UNCHANGED closerRow
        BY <1>0, <1>3, <3>1 DEF CloseSelect, CallsKeepTheirRow, TradeTypes
      <3>2. ASSUME NEW k \in OpenOf(t),
                   closerAt' = [closerAt EXCEPT ![c] = "found"],
                   closerRow' = [closerRow EXCEPT ![c] = k]
            PROVE CallsKeepTheirRow'
        BY <1>0, <1>3, <3>2 DEF CloseSelect, CallsKeepTheirRow, TradeTypes, OpenOf
      <3> QED
        BY <1>3, <3>1, <3>2 DEF CloseSelect
    <2>4. ExitMatchesPosition'
      <3>1. \A d \in Closers : closerAt[d] \in {"won", "died"} =>
               closerAt'[d] = closerAt[d] /\ closerRow'[d] = closerRow[d]
        BY <1>0, <1>3 DEF CloseSelect, TradeTypes
      <3> QED
        BY <1>0, <1>3, <3>1 DEF CloseSelect, ExitMatchesPosition
    <2> QED
      BY <2>1, <2>2, <2>3, <2>4 DEF TradeInv
  <1>4. ASSUME NEW c \in Closers, CloseUpdate(c) PROVE TradeInv'
    <2> DEFINE k == closerRow[c]
    <2>0. closerAt[c] = "found" /\ k \in LTrades
      BY <1>0, <1>4 DEF CloseUpdate, CallsKeepTheirRow
    <2>1. CASE /\ position[k] = "open" /\ ~byOrder[c]
               /\ position' = [position EXCEPT ![k] = "closed"]
               /\ closedWith' = [closedWith EXCEPT ![k] = c]
               /\ closerAt' = [closerAt EXCEPT ![c] = "won"]
      <3>1. TradeTypes'
        BY <1>0, <1>4, <2>0, <2>1 DEF CloseUpdate, TradeTypes
      <3>2. ClosedByCall'
        BY <1>0, <1>4, <2>0, <2>1 DEF CloseUpdate, TradeTypes, ClosedByCall
      <3>3. closedWith[k] = LNone /\ exitOf[k] = LNone
        BY <1>0, <2>0, <2>1 DEF ClosedByCall, ExitMatchesPosition
      <3>4. CallsKeepTheirRow'
        <4> SUFFICES ASSUME NEW d \in Closers
                     PROVE /\ closerAt'[d] \in {"found", "won", "died"} => closerRow[d] \in LTrades
                           /\ closerAt'[d] \in {"won", "died"} => closedWith'[closerRow[d]] = d
          BY <1>4 DEF CloseUpdate, CallsKeepTheirRow
        <4>1. CASE d = c
          BY <1>0, <2>0, <2>1, <4>1 DEF TradeTypes
        <4>2. CASE d # c
          BY <1>0, <2>0, <2>1, <3>3, <4>2 DEF TradeTypes, CallsKeepTheirRow
        <4> QED
          BY <4>1, <4>2
      <3>5. ExitMatchesPosition'
        <4> SUFFICES ASSUME NEW j \in LTrades
                     PROVE \/ exitOf[j] = closedWith'[j]
                           \/ /\ exitOf[j] = LNone
                              /\ \E d \in Closers : closedWith'[j] = d /\ closerRow[d] = j
                                                    /\ closerAt'[d] \in {"won", "died"}
          BY <1>4 DEF CloseUpdate, ExitMatchesPosition
        <4>1. CASE j = k
          <5>1. closedWith'[j] = c /\ closerRow[c] = j /\ closerAt'[c] \in {"won", "died"}
            BY <1>0, <2>0, <2>1, <4>1 DEF TradeTypes
          <5> QED
            BY <3>3, <4>1, <5>1
        <4>2. CASE j # k
          <5>1. closedWith'[j] = closedWith[j]
            BY <1>0, <2>0, <2>1, <4>2 DEF TradeTypes
          <5>2. \A d \in Closers : closerAt[d] \in {"won", "died"} => closerAt'[d] = closerAt[d]
            BY <1>0, <2>0, <2>1 DEF TradeTypes
          <5> QED
            BY <1>0, <5>1, <5>2 DEF ExitMatchesPosition
        <4> QED
          BY <4>1, <4>2
      <3> QED
        BY <3>1, <3>2, <3>4, <3>5 DEF TradeInv
    <2>2. CASE closerAt' = [closerAt EXCEPT ![c] = "over"] /\ UNCHANGED <<position, closedWith>>
      BY <1>0, <1>4, <2>0, <2>2 DEF CloseUpdate, TradeInv, TradeTypes, ClosedByCall,
                                    CallsKeepTheirRow, ExitMatchesPosition
    <2> QED
      BY <1>4, <2>1, <2>2 DEF CloseUpdate
  <1>5. ASSUME NEW c \in Closers, CloseTrade(c) PROVE TradeInv'
    <2>0. closerRow[c] \in LTrades /\ closedWith[closerRow[c]] = c /\ closerAt[c] = "won"
      BY <1>0, <1>5 DEF CloseTrade, CallsKeepTheirRow
    <2>1. TradeTypes' /\ ClosedByCall' /\ CallsKeepTheirRow'
      BY <1>0, <1>5, <2>0 DEF CloseTrade, TradeTypes, ClosedByCall, CallsKeepTheirRow
    <2>2. ExitMatchesPosition'
      BY <1>0, <1>5, <2>0 DEF CloseTrade, TradeTypes, ExitMatchesPosition
    <2> QED
      BY <2>1, <2>2 DEF TradeInv
  <1>6. ASSUME NEW c \in Closers, CloseDies(c) PROVE TradeInv'
    <2>0. /\ closerAt' \in [Closers -> CloserStep]
          /\ \A d \in Closers : d # c => closerAt'[d] = closerAt[d]
          /\ closerAt[c] = "won" => closerAt'[c] = "died"
          /\ closerAt[c] # "won" => closerAt[c] = "found" /\ closerAt'[c] = "over"
      BY <1>0, <1>6 DEF CloseDies, TradeTypes
    <2>1. TradeTypes' /\ ClosedByCall'
      BY <1>0, <1>6, <2>0 DEF CloseDies, TradeTypes, ClosedByCall
    <2>2. CallsKeepTheirRow'
      BY <1>0, <1>6, <2>0 DEF CloseDies, CallsKeepTheirRow
    <2>3. ExitMatchesPosition'
      BY <1>0, <1>6, <2>0 DEF CloseDies, ExitMatchesPosition
    <2> QED
      BY <2>1, <2>2, <2>3 DEF TradeInv
  <1> QED
    BY <1>1, <1>2, <1>3, <1>4, <1>5, <1>6 DEF TradeStep

\* A step of the signals preserves their part of the invariant.
LEMMA SignalsStep == SignalInv /\ SignalStep /\ UNCHANGED tradeVars => SignalInv'
  <1> SUFFICES ASSUME SignalInv, SignalStep, UNCHANGED tradeVars PROVE SignalInv'
    OBVIOUS
  <1> USE LedgerNoneAssumption DEF ResolverStep
  <1>0. SignalTypes /\ ResolutionHoldsTheRest /\ ResolvedMarketsAreScored
    BY DEF SignalInv
  <1>1. ASSUME NEW s \in LSignals, NEW t \in LTickers, NEW source \in LSources,
               InsertSignal(s, t, source)
        PROVE SignalInv'
    <2>1. /\ late \subseteq late' /\ late' \subseteq LSignals
          /\ ResolutionBegun(t) => s \in late'
      BY <1>0, <1>1 DEF InsertSignal, SignalTypes
    <2>2. signal'[s] = <<t, source>> /\ \A u \in LSignals : u # s => signal'[u] = signal[u]
      BY <1>0, <1>1 DEF InsertSignal, SignalTypes
    <2>3. SignalTypes'
      BY <1>0, <1>1, <2>1 DEF InsertSignal, SignalTypes
    <2>4. ASSUME NEW p \in Resolvers, resolverAt[p] \in {"update", "over"},
                 NEW u \in SignalsOf(resolving[p])'
          PROVE u \in SignalsOf(resolving[p]) \/ u \in late'
      <3>1. resolving' = resolving /\ resolverAt' = resolverAt
        BY <1>1 DEF InsertSignal
      <3>2. u \in LSignals /\ signal'[u] # LNone /\ signal'[u][1] = resolving[p]
        BY <2>4, <3>1 DEF SignalsOf
      <3>3. CASE u = s
        <4>1. resolving[p] = t
          BY <2>2, <3>2, <3>3
        <4>2. ResolutionBegun(t)
          BY <2>4, <4>1 DEF ResolutionBegun
        <4> QED
          BY <2>1, <3>3, <4>2
      <3>4. CASE u # s
        BY <2>2, <3>2, <3>4 DEF SignalsOf
      <3> QED
        BY <3>3, <3>4
    <2>5. ResolutionHoldsTheRest' /\ ResolvedMarketsAreScored'
      BY <1>0, <1>1, <2>1, <2>4 DEF InsertSignal, ResolutionHoldsTheRest, ResolvedMarketsAreScored
    <2> QED
      BY <2>3, <2>5 DEF SignalInv
  <1>2. ASSUME NEW batch \in SUBSET LSignals, NEW k \in LTrades, LinkSignals(batch, k)
        PROVE SignalInv'
    <2>1. linked' \in [LSignals -> LTrades \cup {LNone}]
      BY <1>0, <1>2 DEF LinkSignals, SignalTypes
    <2> QED
      BY <1>0, <1>2, <2>1 DEF LinkSignals, SignalInv, SignalTypes, SignalsOf,
                              ResolutionHoldsTheRest, ResolvedMarketsAreScored
  <1>3. ASSUME NEW p \in Resolvers, NEW t \in LTickers, ResolveBegin(p, t) PROVE SignalInv'
    <2>1. SignalTypes'
      BY <1>0, <1>3 DEF ResolveBegin, SignalTypes
    <2>2. \A r \in Resolvers : resolverAt'[r] \in {"update", "over"} =>
            resolverAt'[r] = resolverAt[r] /\ resolving'[r] = resolving[r]
      BY <1>0, <1>3 DEF ResolveBegin, SignalTypes
    <2>3. ResolutionHoldsTheRest' /\ ResolvedMarketsAreScored'
      BY <1>0, <1>3, <2>2 DEF ResolveBegin, SignalsOf, ResolutionHoldsTheRest,
                              ResolvedMarketsAreScored
    <2> QED
      BY <2>1, <2>3 DEF SignalInv
  <1>4. ASSUME NEW p \in Resolvers, ResolveSelect(p) PROVE SignalInv'
    <2>0. SignalsOf(resolving[p]) \subseteq LSignals
      BY DEF SignalsOf
    <2>1. SignalTypes'
      BY <1>0, <1>4, <2>0 DEF ResolveSelect, SignalTypes
    <2>2. ResolutionHoldsTheRest'
      <3> SUFFICES ASSUME NEW r \in Resolvers, resolverAt'[r] = "update"
                   PROVE SignalsOf(resolving[r]) \subseteq scoredSig \cup late \cup unscored'[r]
        BY <1>4 DEF ResolveSelect, ResolutionHoldsTheRest, SignalsOf
      <3>1. CASE r = p
        BY <1>0, <1>4, <3>1 DEF ResolveSelect, SignalTypes
      <3>2. CASE r # p
        <4>1. resolverAt[r] = "update" /\ unscored'[r] = unscored[r]
          BY <1>0, <1>4, <3>2 DEF ResolveSelect, SignalTypes
        <4> QED
          BY <1>0, <4>1 DEF ResolutionHoldsTheRest
      <3> QED
        BY <3>1, <3>2
    <2>3. ResolvedMarketsAreScored'
      BY <1>0, <1>4 DEF ResolveSelect, SignalTypes, SignalsOf, ResolvedMarketsAreScored
    <2> QED
      BY <2>1, <2>2, <2>3 DEF SignalInv
  <1>5. ASSUME NEW p \in Resolvers, ResolveUpdate(p) PROVE SignalInv'
    <2>1. PICK s \in unscored[p] : /\ scoredSig' = scoredSig \cup {s}
                                   /\ unscored' = [unscored EXCEPT ![p] = unscored[p] \ {s}]
      BY <1>5 DEF ResolveUpdate
    <2>2. SignalTypes'
      BY <1>0, <1>5, <2>1 DEF ResolveUpdate, SignalTypes
    <2>3. \A r \in Resolvers : scoredSig \cup unscored[r] \subseteq scoredSig' \cup unscored'[r]
      BY <1>0, <2>1 DEF SignalTypes
    <2>4. ResolutionHoldsTheRest' /\ ResolvedMarketsAreScored'
      BY <1>0, <1>5, <2>1, <2>3 DEF ResolveUpdate, SignalsOf, ResolutionHoldsTheRest,
                                    ResolvedMarketsAreScored
    <2> QED
      BY <2>2, <2>4 DEF SignalInv
  <1>6. ASSUME NEW p \in Resolvers, ResolveEnd(p) PROVE SignalInv'
    <2>1. SignalTypes'
      BY <1>0, <1>6 DEF ResolveEnd, SignalTypes
    <2>2. \A r \in Resolvers : r # p => resolverAt'[r] = resolverAt[r]
      BY <1>0, <1>6 DEF ResolveEnd, SignalTypes
    <2>3. resolverAt'[p] = "over" /\ SignalsOf(resolving[p]) \subseteq scoredSig \cup late
      BY <1>0, <1>6 DEF ResolveEnd, SignalTypes, ResolutionHoldsTheRest
    <2>4. ResolutionHoldsTheRest' /\ ResolvedMarketsAreScored'
      BY <1>0, <1>6, <2>2, <2>3 DEF ResolveEnd, SignalsOf, ResolutionHoldsTheRest,
                                    ResolvedMarketsAreScored
    <2> QED
      BY <2>1, <2>4 DEF SignalInv
  <1>7. ASSUME NEW p \in Resolvers, ResolveFails(p) PROVE SignalInv'
    <2>0. late \subseteq late' /\ SignalsOf(resolving[p]) \subseteq scoredSig \cup late'
          /\ late' \subseteq LSignals
      BY <1>0, <1>7 DEF ResolveFails, SignalsOf, SignalTypes
    <2>1. SignalTypes'
      BY <1>0, <1>7, <2>0 DEF ResolveFails, SignalTypes
    <2>2. \A r \in Resolvers : r # p => resolverAt'[r] = resolverAt[r] /\ unscored'[r] = unscored[r]
      BY <1>0, <1>7 DEF ResolveFails, SignalTypes
    <2>3. resolverAt'[p] = "over"
      BY <1>0, <1>7 DEF ResolveFails, SignalTypes
    <2>4. ResolutionHoldsTheRest' /\ ResolvedMarketsAreScored'
      BY <1>0, <1>7, <2>0, <2>2, <2>3 DEF ResolveFails, SignalsOf, ResolutionHoldsTheRest,
                                          ResolvedMarketsAreScored
    <2> QED
      BY <2>1, <2>4 DEF SignalInv
  <1> QED
    BY <1>1, <1>2, <1>3, <1>4, <1>5, <1>6, <1>7 DEF SignalStep

\* Every step preserves the inductive invariant: each half by its own steps.
LEMMA LedgerStep == LedgerIInv /\ [LedgerNext]_ledgerVars => LedgerIInv'
  <1> SUFFICES ASSUME TradeInv, SignalInv, [LedgerNext]_ledgerVars PROVE TradeInv' /\ SignalInv'
    BY LedgerParts DEF LedgerIInv, LedgerTypeOK, TradeInv, SignalInv, TradeTypes, SignalTypes
  <1>1. ASSUME UNCHANGED tradeVars PROVE TradeInv'
    BY <1>1 DEF tradeVars, TradeInv, TradeTypes, ClosedByCall, CallsKeepTheirRow,
                ExitMatchesPosition
  <1>2. ASSUME UNCHANGED signalVars PROVE SignalInv'
    BY <1>2 DEF signalVars, SignalInv, SignalTypes, SignalsOf, ResolutionHoldsTheRest,
                ResolvedMarketsAreScored
  <1>3. CASE TradeStep
    BY <1>2, <1>3, LedgerSteps, TradesStep
  <1>4. CASE SignalStep
    BY <1>1, <1>4, LedgerSteps, SignalsStep
  <1>5. CASE UNCHANGED ledgerVars
    BY <1>1, <1>2, <1>5 DEF ledgerVars
  <1> QED
    BY <1>3, <1>4, <1>5, LedgerSteps

\* The inductive invariant holds throughout.
LEMMA LedgerInvariant == LedgerSpec => []LedgerIInv
  BY LedgerInitInv, LedgerStep, PTL DEF LedgerSpec

(* Of any number of calls of close_position on one position, the exit the  *)
(* trade records is that of the call that closed it, whichever of them     *)
(* die between their requests.                                             *)
THEOREM ExitsMatchPositions == LedgerSpec => []ExitMatchesPosition
  <1>1. LedgerIInv => ExitMatchesPosition
    BY DEF LedgerIInv
  <1> QED
    BY <1>1, LedgerInvariant, PTL

(* When a resolution of a market is over, the market's signals are scored, *)
(* came after the table was read, or were given up by one that failed.     *)
THEOREM ResolutionsScoreTheirMarket == LedgerSpec => []ResolvedMarketsAreScored
  <1>1. LedgerIInv => ResolvedMarketsAreScored
    BY DEF LedgerIInv
  <1> QED
    BY <1>1, LedgerInvariant, PTL

---------------------------------------------------------------------------
(* AccountView: what the dashboard shows is so, of what has not moved      *)
(* since it was read.                                                      *)

\* What the account poller has read is so, of what has not moved since.
AccountReadIsRight ==
  acctAt # "idle" => \A t \in ATickers \ acctMoved : t \in acctHeld <=> Held(t) > 0

\* So is what it shows.
OpenIsRight == \A t \in ATickers \ acctStale : t \in shownOpen <=> Held(t) > 0

\* What the fills poller has read is so, of what has not moved since.
FillsReadIsRight ==
  /\ fillsAt \in {"paged", "computed"} => \A t \in ATickers \ fillsMoved :
       t \in sawClosed <=> bought[t] > 0 /\ sold[t] >= bought[t]
  /\ fillsAt = "computed" => \A t \in ATickers \ fillsMoved :
       t \in sawSettled <=> t \in gone /\ bought[t] > 0

(* So is what it shows, unless the position was still shown open.          *)
ClosedIsRight ==
  \A t \in ATickers \ (fillsStale \cup passedOver) :
    t \in shownClosed <=> bought[t] > 0 /\ Held(t) = 0

\* The inductive invariant of the view of the account.
AccountIInv ==
  /\ AccountTypeOK
  /\ AccountReadIsRight /\ OpenIsRight
  /\ FillsReadIsRight /\ ClosedIsRight
  /\ FairValueShown


\* A position that is nothing is not held, and no more is.
LEMMA HeldFacts ==
  ASSUME AccountTypeOK, NEW t \in ATickers
  PROVE  /\ Held(t) > 0 <=> t \notin gone /\ bought[t] > sold[t]
         /\ Held(t) = 0 <=> t \in gone \/ sold[t] >= bought[t]
         /\ bought[t] \in Nat /\ sold[t] \in Nat /\ sold[t] <= bought[t]
  BY AccountBoundAssumption DEF AccountTypeOK, Held

\* The initial state satisfies the inductive invariant.
LEMMA AccountInitInv == AccountInit => AccountIInv
  <1> SUFFICES ASSUME AccountInit PROVE AccountIInv
    OBVIOUS
  <1> HIDE DEF AccountInit
  <1>1. AccountTypeOK
    <2>1. /\ bought \in [ATickers -> 0 .. MaxBought] /\ sold \in [ATickers -> 0 .. MaxBought]
          /\ \A t \in ATickers : sold[t] <= bought[t]
      BY AccountBoundAssumption DEF AccountInit
    <2>2. metadata \in [ATickers -> Metadata]
      BY DEF AccountInit, Metadata
    <2>3. {gone, resting, shownOpen, shownClosed, fairValue, openedAt, acctHeld, acctResting,
           sawClosed, sawBought, sawOpen, sawSettled, acctMoved, acctStale, fillsMoved, fillsStale,
           passedOver, noAnswer, beforeOrders} = {{}}
      BY DEF AccountInit
    <2>4. imported \in BOOLEAN
      BY DEF AccountInit
    <2>5. acctAt \in {"idle", "read", "orders"} /\ fillsAt \in {"idle", "paged", "computed", "shown"}
      BY DEF AccountInit
    <2> QED
      BY <2>1, <2>2, <2>3, <2>4, <2>5 DEF AccountTypeOK
  <1>2. ASSUME NEW t \in ATickers
        PROVE  bought[t] = 0 /\ sold[t] = 0 /\ ~(Held(t) > 0)
    <2>1. bought[t] = 0 /\ sold[t] = 0
      BY DEF AccountInit
    <2> QED
      BY <1>1, <2>1, HeldFacts
  <1>3. AccountReadIsRight /\ FillsReadIsRight
    BY DEF AccountInit, AccountReadIsRight, FillsReadIsRight
  <1>4. \A t \in ATickers : t \notin shownOpen /\ t \notin shownClosed
    BY DEF AccountInit
  <1>5. OpenIsRight
    BY <1>2, <1>4 DEF OpenIsRight
  <1>6. ClosedIsRight
    BY <1>2, <1>4 DEF ClosedIsRight
  <1>7. FairValueShown
    BY <1>4, <1>1 DEF FairValueShown, AccountTypeOK
  <1> QED
    BY <1>1, <1>3, <1>5, <1>6, <1>7 DEF AccountIInv

\* Every step keeps the variables in their types.
LEMMA AccountTypeStep == AccountTypeOK /\ [AccountNext]_accountVars => AccountTypeOK'
  <1> SUFFICES ASSUME AccountTypeOK, [AccountNext]_accountVars
               PROVE  AccountTypeOK'
    OBVIOUS
  <1> USE AccountBoundAssumption DEF AccountTypeOK
  <1>1. ASSUME NEW t \in ATickers, Buy(t)
        PROVE  AccountTypeOK'
    BY <1>1 DEF Buy, Moves, accountPoll, fillsPoll
  <1>2. ASSUME NEW t \in ATickers, Sell(t)
        PROVE  AccountTypeOK'
    <2>1. t \notin gone /\ sold[t] < bought[t]
      BY <1>2 DEF Sell, Held
    <2> QED
      BY <1>2, <2>1 DEF Sell, Moves, accountPoll, fillsPoll
  <1>3. ASSUME NEW t \in ATickers, Settles(t)
        PROVE  AccountTypeOK'
    BY <1>3 DEF Settles, Moves, accountPoll, fillsPoll
  <1>4. ASSUME NEW t \in ATickers, RestOrder(t) \/ OrderGoes(t)
        PROVE  AccountTypeOK'
    BY <1>4 DEF RestOrder, OrderGoes, accountPoll, fillsPoll, accountRows, fillsRows
  <1>5. CASE AccountRead
    BY <1>5 DEF AccountRead, HeldNow, exchangeVars, fillsPoll, accountRows, fillsRows
  <1>6. CASE AccountOrders
    BY <1>6 DEF AccountOrders, exchangeVars, fillsPoll, accountRows, fillsRows
  <1>7. ASSUME NEW answered \in SUBSET ATickers, AccountPositions(answered)
        PROVE  AccountTypeOK'
    BY <1>7 DEF AccountPositions, exchangeVars, fillsPoll, fillsRows
  <1>8. CASE AccountFails
    BY <1>8 DEF AccountFails, exchangeVars, fillsPoll, accountRows, fillsRows
  <1>9. ASSUME NEW rows \in SUBSET ATickers, PostPositions(rows)
        PROVE  AccountTypeOK'
    BY <1>9 DEF PostPositions, exchangeVars, accountPoll, fillsPoll, fillsRows
  <1>10. CASE FillsPage
    BY <1>10 DEF FillsPage, exchangeVars, accountPoll, accountRows, fillsRows
  <1>11. CASE FillsCompute
    BY <1>11 DEF FillsCompute, exchangeVars, accountPoll, accountRows, fillsRows
  <1>12. CASE FillsShow
    BY <1>12 DEF FillsShow, exchangeVars, accountPoll, accountRows
  <1>13. CASE FillsMetadata
    BY <1>13 DEF FillsMetadata, FillsLocals, exchangeVars, accountPoll, accountRows, fillsRows
  <1>14. CASE FillsFails
    BY <1>14 DEF FillsFails, FillsLocals, exchangeVars, accountPoll, accountRows, fillsRows
  <1>15. CASE UNCHANGED accountVars
    BY <1>15 DEF accountVars, exchangeVars, accountPoll, fillsPoll, accountRows, fillsRows
  <1> QED
    BY <1>1, <1>2, <1>3, <1>4, <1>5, <1>6, <1>7, <1>8, <1>9, <1>10, <1>11, <1>12, <1>13, <1>14, <1>15
    DEF AccountNext

\* The exchange as it was keeps what is held.
LEMMA HeldStays == UNCHANGED exchangeVars => \A t \in ATickers : Held(t)' = Held(t)
  BY DEF Held, exchangeVars

\* A trade or a settlement changes nothing of the other tickers.
LEMMA MoveFacts ==
  ASSUME AccountTypeOK, NEW t \in ATickers, Buy(t) \/ Sell(t) \/ Settles(t)
  PROVE  /\ Moves(t)
         /\ \A u \in ATickers \ {t} :
              /\ Held(u)' = Held(u)
              /\ bought'[u] = bought[u] /\ sold'[u] = sold[u]
              /\ u \in gone' <=> u \in gone
  BY DEF AccountTypeOK, Buy, Sell, Settles, Held

\* Every step keeps the inductive invariant.
LEMMA AccountStep == AccountIInv /\ [AccountNext]_accountVars => AccountIInv'
  <1> SUFFICES ASSUME AccountIInv, [AccountNext]_accountVars
               PROVE  AccountIInv'
    OBVIOUS
  <1>t. AccountTypeOK /\ AccountTypeOK'
    BY AccountTypeStep DEF AccountIInv
  <1>h. UNCHANGED exchangeVars => \A t \in ATickers : Held(t)' = Held(t)
    BY HeldStays
  <1> DEFINE Rest == AccountReadIsRight /\ OpenIsRight /\ FillsReadIsRight /\ ClosedIsRight
                     /\ FairValueShown
  <1>r. SUFFICES Rest'
    BY <1>t DEF AccountIInv
  <1>i. Rest
    BY DEF AccountIInv
  <1> HIDE DEF Rest
  <1>1. ASSUME NEW t \in ATickers, Buy(t) \/ Sell(t) \/ Settles(t)
        PROVE  Rest'
    <2>1. /\ Moves(t)
          /\ \A u \in ATickers \ {t} :
               /\ Held(u)' = Held(u)
               /\ bought'[u] = bought[u] /\ sold'[u] = sold[u]
               /\ u \in gone' <=> u \in gone
      BY <1>1, <1>t, MoveFacts
    <2> QED
      BY <2>1, <1>i
      DEF Rest, Moves, AccountReadIsRight, OpenIsRight, FillsReadIsRight, ClosedIsRight,
          FairValueShown, accountPoll, fillsPoll
  <1>2. ASSUME NEW t \in ATickers, RestOrder(t) \/ OrderGoes(t)
        PROVE  Rest'
    BY <1>2, <1>i
    DEF Rest, RestOrder, OrderGoes, AccountReadIsRight, OpenIsRight, FillsReadIsRight, ClosedIsRight,
        FairValueShown, Held, accountPoll, fillsPoll, accountRows, fillsRows
  <1>3. CASE AccountRead
    BY <1>3, <1>i, <1>h
    DEF Rest, AccountRead, HeldNow, AccountReadIsRight, OpenIsRight, FillsReadIsRight, ClosedIsRight,
        FairValueShown, exchangeVars, fillsPoll, accountRows, fillsRows
  <1>4. CASE AccountOrders \/ AccountFails
    BY <1>4, <1>i, <1>h
    DEF Rest, AccountOrders, AccountFails, AccountReadIsRight, OpenIsRight, FillsReadIsRight,
        ClosedIsRight, FairValueShown, exchangeVars, fillsPoll, accountRows, fillsRows
  <1>5. ASSUME NEW answered \in SUBSET ATickers, AccountPositions(answered)
        PROVE  Rest'
    BY <1>5, <1>i, <1>h
    DEF Rest, AccountPositions, AccountReadIsRight, OpenIsRight, FillsReadIsRight,
        ClosedIsRight, FairValueShown, exchangeVars, fillsPoll, fillsRows
  <1>6. ASSUME NEW rows \in SUBSET ATickers, PostPositions(rows)
        PROVE  Rest'
    BY <1>6, <1>i, <1>h
    DEF Rest, PostPositions, AccountReadIsRight, OpenIsRight, FillsReadIsRight,
        ClosedIsRight, FairValueShown, exchangeVars, accountPoll, fillsPoll, fillsRows
  <1>7. CASE FillsPage
    BY <1>7, <1>i, <1>h
    DEF Rest, FillsPage, AccountReadIsRight, OpenIsRight, FillsReadIsRight,
        ClosedIsRight, FairValueShown, exchangeVars, accountPoll, accountRows, fillsRows
  <1>8. CASE FillsCompute
    BY <1>8, <1>i, <1>h
    DEF Rest, FillsCompute, AccountReadIsRight, OpenIsRight, FillsReadIsRight,
        ClosedIsRight, FairValueShown, exchangeVars, accountPoll, accountRows, fillsRows
  <1>9. CASE FillsShow
    <2>1. /\ AccountReadIsRight' /\ OpenIsRight' /\ FillsReadIsRight' /\ FairValueShown'
      BY <1>9, <1>i, <1>h
      DEF Rest, FillsShow, AccountReadIsRight, OpenIsRight, FillsReadIsRight,
          FairValueShown, exchangeVars, accountPoll, accountRows
    <2>2. ASSUME NEW t \in ATickers \ (fillsStale' \cup passedOver')
          PROVE  t \in shownClosed' <=> bought'[t] > 0 /\ Held(t)' = 0
      <3>1. /\ t \in sawClosed <=> bought[t] > 0 /\ sold[t] >= bought[t]
            /\ t \in sawSettled <=> t \in gone /\ bought[t] > 0
            /\ t \notin sawClosed \cap sawOpen
            /\ Held(t)' = Held(t) /\ bought' = bought
            /\ shownClosed' = (sawClosed \ sawOpen) \cup sawSettled
        BY <1>9, <1>i, <1>h, <2>2 DEF Rest, FillsShow, FillsReadIsRight, exchangeVars
      <3>2. Held(t) = 0 <=> t \in gone \/ sold[t] >= bought[t]
        BY <1>t, HeldFacts
      <3> QED
        BY <3>1, <3>2
    <2> QED
      BY <2>1, <2>2 DEF Rest, ClosedIsRight
  <1>10. CASE FillsMetadata \/ FillsFails
    BY <1>10, <1>i, <1>h
    DEF Rest, FillsMetadata, FillsFails, AccountReadIsRight, OpenIsRight, FillsReadIsRight,
        ClosedIsRight, FairValueShown, exchangeVars, accountPoll, accountRows, fillsRows
  <1>11. CASE UNCHANGED accountVars
    BY <1>11, <1>i, <1>h
    DEF Rest, accountVars, AccountReadIsRight, OpenIsRight, FillsReadIsRight,
        ClosedIsRight, FairValueShown, exchangeVars, accountPoll, fillsPoll, accountRows, fillsRows
  <1> QED
    BY <1>1, <1>2, <1>3, <1>4, <1>5, <1>6, <1>7, <1>8, <1>9, <1>10, <1>11 DEF AccountNext

(* What the dashboard shows of a quiet account is right, and its rows show *)
(* the fair values the database has.                                       *)
THEOREM DashboardStaysRight == AccountSpec => []DashboardIsRight
  <1>1. AccountIInv => DashboardIsRight
    BY DEF AccountIInv, OpenIsRight, ClosedIsRight, DashboardIsRight, QuietViewIsRight
  <1> QED
    BY <1>1, AccountInitInv, AccountStep, PTL DEF AccountSpec

---------------------------------------------------------------------------
(* PnlAnalytics: the P&L tab means by its words what an account does.      *)

\* The types of fills and rows, by their index.
LEMMA FillTypes ==
  ASSUME PnlTypeOK
  PROVE  /\ DOMAIN fills = 1 .. Len(fills) /\ IsFiniteSet(DOMAIN fills)
         /\ \A i \in DOMAIN fills : fills[i].action \in Actions /\ Price(i) \in Int
  <1>1. fills \in Seq([action : Actions, yesPrice : FillPrices])
    BY DEF PnlTypeOK
  <1>2. /\ DOMAIN fills = 1 .. Len(fills) /\ Len(fills) \in Nat
        /\ \A i \in DOMAIN fills : fills[i] \in [action : Actions, yesPrice : FillPrices]
    <2> DEFINE S == [action : Actions, yesPrice : FillPrices]
    <2>1. fills \in Seq(S)
      BY <1>1
    <2> HIDE DEF S
    <2>2. /\ DOMAIN fills = 1 .. Len(fills) /\ Len(fills) \in Nat
          /\ \A i \in DOMAIN fills : fills[i] \in S
      BY <2>1
    <2> QED
      BY <2>2 DEF S
  <1>4. IsFiniteSet(DOMAIN fills)
    BY <1>2, FS_Interval
  <1>5. \A i \in DOMAIN fills : fills[i].yesPrice \in Int
    <2>1. \A p \in FillPrices : p \in Int
      BY PnlAssumption
    <2> QED
      BY <1>2, <2>1
  <1> QED
    BY <1>2, <1>4, <1>5 DEF Price

LEMMA RowTypes ==
  ASSUME PnlTypeOK
  PROVE  /\ DOMAIN tradeRows = 1 .. Len(tradeRows) /\ Len(tradeRows) \in Nat
         /\ IsFiniteSet(DOMAIN tradeRows)
         /\ \A i \in DOMAIN tradeRows : /\ tradeRows[i].realized \in Int
                                        /\ tradeRows[i].unrealized \in Int
                                        /\ tradeRows[i].closedAt \in Int
                                        /\ i \in Int
  <1>1. tradeRows \in Seq(PnlRows)
    BY DEF PnlTypeOK
  <1>2. DOMAIN tradeRows = 1 .. Len(tradeRows) /\ Len(tradeRows) \in Nat
    BY <1>1
  <1>3. \A i \in DOMAIN tradeRows : tradeRows[i] \in PnlRows
    BY <1>1
  <1>4. IsFiniteSet(DOMAIN tradeRows)
    BY <1>2, FS_Interval
  <1> QED
    BY <1>2, <1>3, <1>4, PnlAssumption

---------------------------------------------------------------------------

\* The P&L from average prices is the cash.
LEMMA CashFlowFacts ==
  ASSUME PnlTypeOK
  PROVE  RealizedIsCashFlow
  <1> DEFINE D       == DOMAIN fills
             Sold    == Only("sell")
             Bought  == Only("buy")
             cash    == [i \in D |-> IF fills[i].action = "sell" THEN Price(i) ELSE - Price(i)]
             minus   == [i \in Bought |-> - Price(i)]
             plus    == [i \in Bought |-> Price(i)]
             received == [i \in Sold |-> Price(i)]
  <1>1. /\ Sold \in SUBSET D /\ Bought \in SUBSET D
        /\ Sold \cup Bought = D /\ Sold \cap Bought = {}
    BY FillTypes DEF Only, Actions
  <1>2. \A i \in D : Price(i) \in Int
    BY FillTypes
  <1>3. cash \in [D -> Int] /\ IsFiniteSet(D)
    BY <1>2, FillTypes
  <1>4. minus \in [Bought -> Int] /\ plus \in [Bought -> Int] /\ received \in [Sold -> Int]
    BY <1>1, <1>2
  <1>5. /\ \A i \in Bought : minus[i] = cash[i] /\ minus[i] = - plus[i]
        /\ \A i \in Sold : received[i] = cash[i]
    BY <1>1, <1>2 DEF Only
  <1>6. IsFiniteSet(Sold) /\ IsFiniteSet(Bought)
    BY <1>1, <1>3, FS_Subset
  <1>7. CashFlow = SumOver(D, cash) /\ WeightedSum("sell") = SumOver(Sold, received)
        /\ WeightedSum("buy") = SumOver(Bought, plus)
    BY DEF CashFlow, WeightedSum
  <1> HIDE DEF D, Sold, Bought, cash, minus, plus, received
  <1>8. PICK f : IsSumOn(f, SUBSET D, cash) /\ SumOver(D, cash) = f[D]
    BY <1>3, SumFacts
  <1>9. SumOver(Sold, received) = f[Sold]
    BY <1>1, <1>3, <1>4, <1>5, <1>8, SumOfPart
  <1>10. SumOver(Bought, minus) = f[Bought]
    BY <1>1, <1>3, <1>4, <1>5, <1>8, SumOfPart
  <1>11. /\ SumOver(Bought, minus) \in Int /\ SumOver(Bought, plus) \in Int
         /\ SumOver(Bought, minus) = - SumOver(Bought, plus)
    <2>1. \A i \in Bought : minus[i] \in Int /\ plus[i] \in Int
      BY <1>4
    <2>2. Negates(minus, plus, Bought)
      BY <1>4, <1>5, <1>6, <2>1 DEF Negates
    <2>3. SumOver(Bought, plus) \in Int /\ SumOver(Bought, minus) = - SumOver(Bought, plus)
      BY <2>2, SumNegates
    <2> QED
      BY <2>3
  <1>12. f[D] = f[Sold] + f[Bought]
    <2>1. f[Sold \cup Bought] = f[Sold] + f[Bought]
      BY <1>1, <1>3, <1>8, SumOfUnion
    <2> QED
      BY <1>1, <2>1
  <1>13. f[Sold] \in Int
    BY <1>1, <1>8 DEF IsSumOn
  <1> DEFINE s == WeightedSum("sell")
             b == WeightedSum("buy")
  <1>14. s \in Int /\ b \in Int /\ CashFlow = s - b
    <2>1. s = f[Sold] /\ b = SumOver(Bought, plus)
      BY <1>7, <1>9
    <2>2. CashFlow = f[Sold] + SumOver(Bought, minus)
      BY <1>7, <1>8, <1>10, <1>12
    <2> HIDE DEF s, b
    <2> QED
      BY <1>11, <1>13, <2>1, <2>2
  <1> SUFFICES ASSUME Contracts("sell") = Contracts("buy")
               PROVE  GrossTimesSold = CashFlow * Contracts("sell")
    BY DEF RealizedIsCashFlow
  <1> DEFINE n == Contracts("sell")
  <1>15. n \in Int
    BY <1>6, FS_CardinalityType DEF Contracts, Sold
  <1>16. GrossTimesSold = s * n - b * n
    BY DEF GrossTimesSold
  <1> HIDE DEF s, b, n
  <1>17. s * n - b * n = (s - b) * n
    BY <1>14, <1>15
  <1> QED
    BY <1>14, <1>16, <1>17 DEF n

---------------------------------------------------------------------------

\* One function has the realized P&L of all sets of rows, and one the total.
LEMMA TotalFacts ==
  ASSUME PnlTypeOK
  PROVE  \E f, h, v, w :
           /\ v \in [DOMAIN tradeRows -> Int] /\ IsSumOn(f, SUBSET DOMAIN tradeRows, v)
           /\ w \in [DOMAIN tradeRows -> Int] /\ IsSumOn(h, SUBSET DOMAIN tradeRows, w)
           /\ \A i \in DOMAIN tradeRows : v[i] = tradeRows[i].realized
           /\ \A rows \in SUBSET DOMAIN tradeRows :
                Realized(rows) = f[rows] /\ Realized(rows) + Unrealized(rows) = h[rows]
  <1> DEFINE D == DOMAIN tradeRows
             v == [i \in D |-> tradeRows[i].realized]
             u == [i \in D |-> tradeRows[i].unrealized]
             w == [i \in D |-> tradeRows[i].realized + tradeRows[i].unrealized]
  <1>1. v \in [D -> Int] /\ u \in [D -> Int] /\ w \in [D -> Int] /\ IsFiniteSet(D)
    BY RowTypes
  <1>2. \A i \in D : w[i] = v[i] + u[i] /\ v[i] = tradeRows[i].realized
    OBVIOUS
  <1>3. ASSUME NEW rows \in SUBSET D
        PROVE  /\ [i \in rows |-> tradeRows[i].realized] \in [rows -> Int]
               /\ [i \in rows |-> tradeRows[i].unrealized] \in [rows -> Int]
               /\ \A i \in rows : [j \in rows |-> tradeRows[j].realized][i] = v[i]
               /\ \A i \in rows : [j \in rows |-> tradeRows[j].unrealized][i] = u[i]
    BY RowTypes
  <1> HIDE DEF v, u, w
  <1>4. PICK f : IsSumOn(f, SUBSET D, v)
    BY <1>1, SumFacts
  <1>5. PICK g : IsSumOn(g, SUBSET D, u)
    BY <1>1, SumFacts
  <1>6. PICK h : IsSumOn(h, SUBSET D, w)
    BY <1>1, SumFacts
  <1>7. ASSUME NEW T \in SUBSET D PROVE h[T] = f[T] + g[T]
    <2>1. \A x \in D : w[x] = v[x] + u[x]
      BY <1>2
    <2> HIDE DEF D
    <2>2. SumsUp(f, D, v) /\ SumsUp(g, D, u) /\ SumsUp(h, D, w) /\ Together(w, v, u, D)
      BY <1>1, <1>4, <1>5, <1>6, <2>1 DEF SumsUp, Together
    <2> QED
      BY <2>2, SumAdds
  <1>8. ASSUME NEW rows \in SUBSET D
        PROVE  Realized(rows) = f[rows] /\ Unrealized(rows) = g[rows]
    <2> DEFINE a == [i \in rows |-> tradeRows[i].realized]
               b == [i \in rows |-> tradeRows[i].unrealized]
    <2>1. /\ a \in [rows -> Int] /\ \A i \in rows : a[i] = v[i]
          /\ b \in [rows -> Int] /\ \A i \in rows : b[i] = u[i]
      BY <1>3
    <2>2. Realized(rows) = SumOver(rows, a) /\ Unrealized(rows) = SumOver(rows, b)
      BY DEF Realized, Unrealized
    <2> HIDE DEF a, b, D
    <2>3. SumOver(rows, a) = f[rows]
      BY <1>1, <1>4, <2>1, SumOfPart
    <2>4. SumOver(rows, b) = g[rows]
      BY <1>1, <1>5, <2>1, SumOfPart
    <2> QED
      BY <2>2, <2>3, <2>4
  <1>9. /\ v \in [D -> Int] /\ IsSumOn(f, SUBSET D, v) /\ w \in [D -> Int]
        /\ IsSumOn(h, SUBSET D, w) /\ \A i \in D : v[i] = tradeRows[i].realized
    BY <1>1, <1>2, <1>4, <1>6
  <1>10. \A rows \in SUBSET D : Realized(rows) = f[rows] /\ Realized(rows) + Unrealized(rows) = h[rows]
    BY <1>7, <1>8
  <1> QED
    BY <1>9, <1>10

\* Grouped by a key, the totals of the groups are that of all rows.
LEMMA GroupsAddUp ==
  ASSUME PnlTypeOK, NEW K, IsFiniteSet(K), NEW key \in [DOMAIN tradeRows -> K], NEW t,
         t = [k \in K |-> LET group == {i \in DOMAIN tradeRows : key[i] = k}
                          IN  Realized(group) + Unrealized(group)]
  PROVE  SumOver(K, t) = Summary.total
  <1> DEFINE D == DOMAIN tradeRows
  <1>1. PICK h, w : /\ w \in [D -> Int] /\ IsSumOn(h, SUBSET D, w)
                    /\ \A rows \in SUBSET D : Realized(rows) + Unrealized(rows) = h[rows]
    BY TotalFacts
  <1>2. \A k \in K : t[k] = h[{i \in D : key[i] = k}]
    BY <1>1
  <1>3. \A k \in K : {i \in D : key[i] = k} \in SUBSET D
    OBVIOUS
  <1>4. t \in [K -> Int]
    <2>1. \A k \in K : h[{i \in D : key[i] = k}] \in Int
      BY <1>1, <1>3 DEF IsSumOn
    <2> QED
      BY <1>2, <2>1
  <1>5. IsFiniteSet(D)
    BY RowTypes
  <1>6. SumOver(K, t) = h[D]
    <2>1. SumsUp(h, D, w) /\ OfGroups(t, K, key, h, D)
      BY <1>1, <1>2, <1>4, <1>5 DEF SumsUp, OfGroups
    <2> QED
      BY <2>1, SumByKey
  <1>7. Summary.total = h[D]
    <2>1. D \in SUBSET D
      OBVIOUS
    <2> QED
      BY <1>1, <2>1 DEF Summary
  <1> QED
    BY <1>6, <1>7

LEMMA BreakdownFacts ==
  ASSUME PnlTypeOK
  PROVE  BreakdownsAddUp
  <1>1. SumOver(MarketTypes, [x \in MarketTypes |-> TypeTotal(x)]) = Summary.total
    <2> DEFINE key == [i \in DOMAIN tradeRows |-> tradeRows[i].type]
    <2>1. key \in [DOMAIN tradeRows -> MarketTypes]
      BY DEF MarketTypes
    <2>2. IsFiniteSet(MarketTypes)
      <3>1. key \in Surjection(DOMAIN tradeRows, MarketTypes)
        BY <2>1 DEF MarketTypes, Surjection
      <3> QED
        BY <3>1, RowTypes, FS_Surjection
    <2>3. [x \in MarketTypes |-> TypeTotal(x)] =
            [x \in MarketTypes |-> LET group == {i \in DOMAIN tradeRows : key[i] = x}
                                   IN  Realized(group) + Unrealized(group)]
      BY DEF TypeTotal
    <2> HIDE DEF key
    <2> QED
      BY <2>1, <2>2, <2>3, GroupsAddUp
  <1>2. SumOver(Buckets, [x \in Buckets |-> BucketTotal(x)]) = Summary.total
    <2> DEFINE key == [i \in DOMAIN tradeRows |-> Bucket(tradeRows[i].days)]
    <2>1. key \in [DOMAIN tradeRows -> Buckets]
      BY DEF Bucket, Buckets
    <2>2. IsFiniteSet(Buckets)
      <3>1. IsFiniteSet({"<1d", "1-3d", "3-7d"}) /\ IsFiniteSet({"1-2wk", "2wk+", "unknown"})
        BY ThreeAreFinite
      <3>2. Buckets = {"<1d", "1-3d", "3-7d"} \cup {"1-2wk", "2wk+", "unknown"}
        BY DEF Buckets
      <3> QED
        BY <3>1, <3>2, FS_Union
    <2>3. [x \in Buckets |-> BucketTotal(x)] =
            [x \in Buckets |-> LET group == {i \in DOMAIN tradeRows : key[i] = x}
                               IN  Realized(group) + Unrealized(group)]
      BY DEF BucketTotal
    <2> HIDE DEF key
    <2> QED
      BY <2>1, <2>2, <2>3, GroupsAddUp
  <1> QED
    BY <1>1, <1>2 DEF BreakdownsAddUp

---------------------------------------------------------------------------
(* The order of closing.                                                   *)

\* The closed rows that come before one.
Before(i) == {j \in ClosedRows : Sooner(j, i)}

\* The places are one to one with the numbers up to the count.
LEMMA PlaceFacts ==
  ASSUME PnlTypeOK
  PROVE  /\ Cardinality(ClosedRows) \in Nat
         /\ \A i \in ClosedRows : Place(i) \in Int /\ 1 <= Place(i)
         /\ \A i, j \in ClosedRows : Place(i) = Place(j) => i = j
         /\ \A n \in 1 .. Cardinality(ClosedRows) :
              ByTime[n] \in ClosedRows /\ Place(ByTime[n]) = n
  <1> DEFINE N == Cardinality(ClosedRows)
             place == [i \in ClosedRows |-> Place(i)]
  <1>1. IsFiniteSet(ClosedRows) /\ N \in Nat /\ ClosedRows \subseteq DOMAIN tradeRows
    BY RowTypes, FS_Subset, FS_CardinalityType DEF ClosedRows
  <1>2. ASSUME NEW i \in ClosedRows
        PROVE  /\ IsFiniteSet(Before(i)) /\ Cardinality(Before(i)) \in Nat
               /\ Place(i) = 1 + Cardinality(Before(i))
               /\ Place(i) <= N
    <2>1. Before(i) \in SUBSET (ClosedRows \ {i})
      BY <1>1, RowTypes DEF Before, Sooner
    <2>2. /\ IsFiniteSet(ClosedRows \ {i}) /\ Cardinality(ClosedRows \ {i}) = N - 1
      BY <1>1, FS_RemoveElement
    <2>3. /\ IsFiniteSet(Before(i)) /\ Cardinality(Before(i)) <= N - 1
          /\ Cardinality(Before(i)) \in Nat
      BY <2>1, <2>2, FS_Subset, FS_CardinalityType
    <2>4. Place(i) = 1 + Cardinality(Before(i))
      BY DEF Place, Before
    <2> QED
      BY <1>1, <2>3, <2>4
  <1>3. ASSUME NEW i \in ClosedRows, NEW j \in ClosedRows, Sooner(i, j)
        PROVE  Place(i) < Place(j)
    <2>1. i \notin Before(i)
      BY <1>1, RowTypes DEF Before, Sooner
    <2>2. \A k \in ClosedRows : Sooner(k, i) => Sooner(k, j)
      BY <1>1, <1>3, RowTypes DEF Sooner
    <2>3. Before(i) \cup {i} \in SUBSET Before(j)
      BY <1>3, <2>2 DEF Before
    <2>4. Cardinality(Before(i) \cup {i}) = Cardinality(Before(i)) + 1
      BY <1>2, <2>1, FS_AddElement
    <2>5. Cardinality(Before(i) \cup {i}) <= Cardinality(Before(j))
      BY <1>2, <2>3, FS_Subset
    <2> QED
      BY <1>2, <2>4, <2>5
  <1>4. \A i, j \in ClosedRows : i = j \/ Sooner(i, j) \/ Sooner(j, i)
    BY <1>1, RowTypes DEF Sooner
  <1>5. \A i \in ClosedRows : Place(i) \in Int /\ 1 <= Place(i) /\ Place(i) <= N
    BY <1>2
  <1>6. \A i, j \in ClosedRows : Place(i) = Place(j) => i = j
    BY <1>3, <1>4, <1>5
  <1>7. \A n \in 1 .. N : \E i \in ClosedRows : Place(i) = n
    <2>1. place \in Injection(ClosedRows, 1 .. N)
      <3>1. place \in [ClosedRows -> 1 .. N]
        BY <1>1, <1>5
      <3>2. \A i, j \in ClosedRows : place[i] = place[j] => i = j
        BY <1>6
      <3> HIDE DEF place
      <3> QED
        BY <3>1, <3>2 DEF Injection, IsInjective
    <2>2. IsFiniteSet(1 .. N) /\ Cardinality(1 .. N) = N
      BY <1>1, FS_Interval
    <2>3. place \in Surjection(ClosedRows, 1 .. N)
      <3> HIDE DEF place
      <3> QED
        BY <2>1, <2>2, FS_Injection
    <2> QED
      BY <2>3 DEF Surjection
  <1>8. \A n \in 1 .. N : ByTime[n] \in ClosedRows /\ Place(ByTime[n]) = n
    BY <1>7 DEF ByTime
  <1> QED
    BY <1>1, <1>5, <1>6, <1>8

\* The level after the nth trade is the one before it and what it made.
LEMMA LevelFacts ==
  ASSUME PnlTypeOK
  PROVE  /\ Level(0) = 0
         /\ \A n : Level(n) \in Int
         /\ \A n \in 1 .. Cardinality(ClosedRows) :
              /\ tradeRows[ByTime[n]].realized \in Int
              /\ Level(n) = Level(n - 1) + tradeRows[ByTime[n]].realized
  <1> DEFINE D == DOMAIN tradeRows
             First(n) == {i \in ClosedRows : Place(i) <= n}
  <1>1. PICK f, v : /\ v \in [D -> Int] /\ IsSumOn(f, SUBSET D, v)
                    /\ \A i \in D : v[i] = tradeRows[i].realized
                    /\ \A rows \in SUBSET D : Realized(rows) = f[rows]
    BY TotalFacts
  <1>2. \A n : First(n) \in SUBSET D
    BY DEF ClosedRows
  <1>3. \A n : Level(n) = f[First(n)] /\ f[First(n)] \in Int
    <2>1. \A n : Level(n) = Realized(First(n))
      BY DEF Level
    <2>2. \A T \in SUBSET D : f[T] \in Int /\ Realized(T) = f[T]
      BY <1>1 DEF IsSumOn
    <2> HIDE DEF First, D
    <2> QED
      BY <1>2, <2>1, <2>2
  <1>4. Level(0) = 0
    <2>1. First(0) = {}
      BY PlaceFacts
    <2>2. f[{}] = 0
      BY <1>1 DEF IsSumOn
    <2> QED
      BY <1>3, <2>1, <2>2
  <1>5. ASSUME NEW n \in 1 .. Cardinality(ClosedRows)
        PROVE  /\ tradeRows[ByTime[n]].realized \in Int
               /\ Level(n) = Level(n - 1) + tradeRows[ByTime[n]].realized
    <2> DEFINE i == ByTime[n]
    <2>0. n \in Int
      BY PlaceFacts
    <2>1. i \in ClosedRows /\ Place(i) = n
      BY PlaceFacts
    <2>2. i \in D /\ v[i] = tradeRows[i].realized /\ v[i] \in Int
      BY <1>1, <2>1 DEF ClosedRows
    <2>3. i \in First(n) /\ First(n) \ {i} = First(n - 1)
      BY <2>0, <2>1, PlaceFacts
    <2> HIDE DEF i, First, D
    <2>4. f[First(n)] = v[i] + f[First(n) \ {i}]
      <3>1. IsFiniteSet(D)
        BY RowTypes DEF D
      <3>2. SumsUp(f, D, v)
        BY <1>1, <3>1 DEF SumsUp
      <3> QED
        BY <1>2, <2>3, <3>2, SumTakes
    <2>5. f[First(n)] = v[i] + f[First(n - 1)]
      BY <2>3, <2>4
    <2>6. Level(n) = f[First(n)] /\ Level(n - 1) = f[First(n - 1)] /\ f[First(n - 1)] \in Int
      BY <1>3
    <2> QED
      BY <2>2, <2>5, <2>6 DEF i
  <1> QED
    BY <1>3, <1>4, <1>5

---------------------------------------------------------------------------
(* The curve and its drawdown.                                             *)

\* p is the highest of the first n levels and of the start.
IsPeak(p, n) ==
  (\E m \in 0 .. n : p = Level(m)) /\ \A m \in 0 .. n : Level(m) <= p

Peak(n) == CHOOSE p \in Int : IsPeak(p, n)

LEMMA PeakFacts ==
  ASSUME PnlTypeOK
  PROVE  /\ \A n \in Nat : Peak(n) \in Int /\ IsPeak(Peak(n), n)
         /\ \A n : \A p, q \in Int : IsPeak(p, n) /\ IsPeak(q, n) => p = q
  <1>1. \A m : Level(m) \in Int
    BY LevelFacts
  <1>2. ASSUME NEW n \in Nat PROVE \E p \in Int : IsPeak(p, n)
    <2> DEFINE h == [m \in 0 .. n |-> Level(m)]
    <2>1. h \in [0 .. n -> Int]
      BY <1>1
    <2>2. IsFiniteSet(0 .. n) /\ 0 .. n # {}
      <3>1. IsFiniteSet(0 .. n) /\ 0 \in 0 .. n
        BY FS_Interval
      <3> QED
        BY <3>1
    <2>3. \A m \in 0 .. n : h[m] = Level(m)
      OBVIOUS
    <2> HIDE DEF h
    <2>4. PICK m \in 0 .. n : \A k \in 0 .. n : h[k] <= h[m]
      BY <2>1, <2>2, LargestValue
    <2> QED
      BY <1>1, <2>3, <2>4 DEF IsPeak
  <1>3. \A n \in Nat : Peak(n) \in Int /\ IsPeak(Peak(n), n)
    BY <1>2 DEF Peak
  <1>4. \A n : \A p, q \in Int : IsPeak(p, n) /\ IsPeak(q, n) => p = q
    <2> TAKE n
    <2> TAKE p, q \in Int
    <2> SUFFICES ASSUME IsPeak(p, n), IsPeak(q, n) PROVE p = q
      OBVIOUS
    <2>1. p <= q /\ q <= p
      BY DEF IsPeak
    <2> QED
      BY <2>1
  <1> QED
    BY <1>3, <1>4

\* What the curve is: the levels and their running peak.
Point(n) == [cumulative |-> Level(n), peak |-> Peak(n), drawdown |-> Level(n) - Peak(n)]

LEMMA PointFacts ==
  ASSUME PnlTypeOK
  PROVE  /\ Point(0) = [cumulative |-> 0, peak |-> 0, drawdown |-> 0]
         /\ \A n \in 1 .. Cardinality(ClosedRows) :
              Point(n) = Step(Point(n - 1), tradeRows[ByTime[n]].realized)
  <1>1. Point(0) = [cumulative |-> 0, peak |-> 0, drawdown |-> 0]
    <2>1. Level(0) = 0 /\ Peak(0) \in Int /\ IsPeak(Peak(0), 0)
      BY LevelFacts, PeakFacts
    <2>2. Peak(0) = 0
      BY <2>1 DEF IsPeak
    <2> QED
      BY <2>1, <2>2 DEF Point
  <1>2. ASSUME NEW n \in 1 .. Cardinality(ClosedRows)
        PROVE  Point(n) = Step(Point(n - 1), tradeRows[ByTime[n]].realized)
    <2> DEFINE next == IF Level(n) > Peak(n - 1) THEN Level(n) ELSE Peak(n - 1)
    <2>1. n \in Nat /\ n - 1 \in Nat
      BY PlaceFacts
    <2>2. /\ Level(n) \in Int
          /\ Level(n) = Level(n - 1) + tradeRows[ByTime[n]].realized
      BY LevelFacts
    <2>3. Peak(n - 1) \in Int /\ IsPeak(Peak(n - 1), n - 1)
      BY <2>1, PeakFacts
    <2>4. Peak(n) \in Int /\ IsPeak(Peak(n), n)
      BY <2>1, PeakFacts
    <2>5. next \in Int /\ IsPeak(next, n)
      <3>1. \A m \in 0 .. n : m \in 0 .. n - 1 \/ m = n
        BY <2>1
      <3>2. \A m \in 0 .. n - 1 : m \in 0 .. n /\ Level(m) \in Int
        BY <2>1, LevelFacts
      <3>3. n \in 0 .. n
        BY <2>1
      <3>4. CASE Level(n) > Peak(n - 1)
        BY <2>2, <2>3, <3>1, <3>2, <3>3, <3>4 DEF IsPeak
      <3>5. CASE ~(Level(n) > Peak(n - 1))
        BY <2>2, <2>3, <3>1, <3>2, <3>3, <3>5 DEF IsPeak
      <3> QED
        BY <3>4, <3>5
    <2>6. Peak(n) = next
      <3> HIDE DEF next
      <3> QED
        BY <2>4, <2>5, PeakFacts
    <2>7. Point(n - 1).cumulative = Level(n - 1) /\ Point(n - 1).peak = Peak(n - 1)
      BY DEF Point
    <2> QED
      BY <2>2, <2>6, <2>7 DEF Point, Step
  <1> QED
    BY <1>1, <1>2

\* The loop makes that curve.
LEMMA CurveFacts ==
  ASSUME PnlTypeOK
  PROVE  \A n \in 0 .. Cardinality(ClosedRows) : Curve[n] = Point(n)
  <1> DEFINE N == Cardinality(ClosedRows)
             eq(c) == c = [n \in 0 .. N |->
                             IF n = 0 THEN [cumulative |-> 0, peak |-> 0, drawdown |-> 0]
                             ELSE Step(c[n - 1], tradeRows[ByTime[n]].realized)]
             p == [n \in 0 .. N |-> Point(n)]
  <1>0. N \in Nat
    BY PlaceFacts
  <1>1. eq(p)
    <2>1. \A n \in 0 .. N : n # 0 => n \in 1 .. N /\ n - 1 \in 0 .. N
      BY <1>0
    <2>2. \A n \in 0 .. N :
            Point(n) = IF n = 0 THEN [cumulative |-> 0, peak |-> 0, drawdown |-> 0]
                       ELSE Step(p[n - 1], tradeRows[ByTime[n]].realized)
      <3> TAKE n \in 0 .. N
      <3>1. CASE n = 0
        BY <3>1, PointFacts
      <3>2. CASE n # 0
        <4>1. p[n - 1] = Point(n - 1)
          BY <2>1, <3>2
        <4>2. Point(n) = Step(Point(n - 1), tradeRows[ByTime[n]].realized)
          BY <2>1, <3>2, PointFacts
        <4> HIDE DEF p
        <4> QED
          BY <3>2, <4>1, <4>2
      <3> QED
        BY <3>1, <3>2
    <2> QED
      BY <2>2, Zenon
  <1>2. Curve = CHOOSE c : eq(c)
    BY DEF Curve
  <1>3. eq(Curve)
    <2> HIDE DEF eq
    <2> QED
      BY <1>1, <1>2
  <1> DEFINE Bad == {n \in 0 .. N : Curve[n] # Point(n)}
  <1> SUFFICES ASSUME Bad # {} PROVE FALSE
    OBVIOUS
  <1>4. PICK n \in Bad : \A m \in Bad : n <= m
    <2>1. Bad \subseteq Nat
      BY <1>0
    <2> HIDE DEF Bad
    <2> QED
      BY <2>1, LeastOfNaturals
  <1>5. n \in 0 .. N /\ n \in Int
    BY <1>0
  <1>6. Curve[n] = IF n = 0 THEN [cumulative |-> 0, peak |-> 0, drawdown |-> 0]
                   ELSE Step(Curve[n - 1], tradeRows[ByTime[n]].realized)
    BY <1>3, <1>5, Zenon
  <1>7. CASE n = 0
    BY <1>6, <1>7, PointFacts
  <1>8. CASE n # 0
    <2>1. n \in 1 .. N /\ n - 1 \in 0 .. N /\ ~(n <= n - 1)
      BY <1>0, <1>5, <1>8
    <2>2. Curve[n - 1] = Point(n - 1)
      BY <1>4, <2>1
    <2>3. Curve[n] = Point(n)
      BY <1>6, <1>8, <2>1, <2>2, PointFacts
    <2> QED
      BY <2>3
  <1> QED
    BY <1>7, <1>8

\* The least of the drawdowns is the worst decline.
LEMMA DrawdownFacts ==
  ASSUME PnlTypeOK
  PROVE  DrawdownIsWorstDecline
  <1> DEFINE N == Cardinality(ClosedRows)
             fall(n) == Level(n) - Peak(n)
  <1>0. N \in Nat /\ DOMAIN ByTime = 1 .. N
    BY PlaceFacts DEF ByTime
  <1>1. \A n \in 0 .. N : n \in Nat /\ Curve[n].drawdown = fall(n)
    <2>1. \A n \in 0 .. N : n \in Nat
      BY <1>0
    <2>2. \A n \in 0 .. N : Curve[n] = Point(n)
      BY CurveFacts
    <2>3. \A n : Point(n).drawdown = fall(n)
      BY DEF Point
    <2> QED
      BY <2>1, <2>2, <2>3
  <1>2. \A n : Level(n) \in Int
    BY LevelFacts
  <1>3. \A n \in Nat : Peak(n) \in Int /\ IsPeak(Peak(n), n)
    BY PeakFacts
  <1>4. \A n \in 1 .. N : n \in 0 .. N
    BY <1>0
  <1>5. CASE N = 0
    <2>1. MaxDrawdown = 0
      BY <1>0, <1>5 DEF MaxDrawdown
    <2>2. \A m, n \in 0 .. N : m = 0 /\ n = 0
      BY <1>5
    <2>3. 0 \in 0 .. N
      BY <1>5
    <2> QED
      BY <1>2, <2>1, <2>2, <2>3 DEF DrawdownIsWorstDecline
  <1>6. CASE N # 0
    <2> DEFINE h == [n \in 1 .. N |-> - fall(n)]
    <2>1. \A n \in 1 .. N : fall(n) \in Int
      BY <1>1, <1>2, <1>3, <1>4
    <2>2. h \in [1 .. N -> Int] /\ \A n \in 1 .. N : h[n] = - fall(n)
      BY <2>1
    <2>3. IsFiniteSet(1 .. N) /\ 1 \in 1 .. N
      BY <1>0, <1>6, FS_Interval
    <2> HIDE DEF h, fall
    <2>4. PICK w \in 1 .. N : \A n \in 1 .. N : h[n] <= h[w]
      <3>1. 1 .. N # {}
        BY <2>3
      <3> QED
        BY <2>2, <2>3, <3>1, LargestValue
    <2>5. \A n \in 1 .. N : fall(w) <= fall(n)
      BY <2>1, <2>2, <2>4
    <2>6. \A n \in 1 .. N : Curve[n].drawdown = fall(n)
      BY <1>1, <1>4
    <2>7. PICK l \in 1 .. N : MaxDrawdown = fall(l) /\ \A n \in 1 .. N : fall(l) <= fall(n)
      <3> DEFINE falls == {Curve[n].drawdown : n \in 1 .. N}
                 least(d) == \A n \in 1 .. N : d <= Curve[n].drawdown
      <3>1. fall(w) \in falls /\ least(fall(w))
        BY <2>4, <2>5, <2>6
      <3>2. MaxDrawdown = CHOOSE d \in falls : least(d)
        BY <1>0, <2>3 DEF MaxDrawdown
      <3>3. MaxDrawdown \in falls /\ least(MaxDrawdown)
        <4> HIDE DEF falls, least
        <4> QED
          BY <3>1, <3>2
      <3> QED
        BY <2>6, <3>3
    <2>8. l \in 0 .. N /\ l \in Nat
      BY <1>1, <1>4
    <2>9. PICK m \in 0 .. l : Peak(l) = Level(m)
      BY <1>3, <2>8 DEF IsPeak
    <2>10. m \in 0 .. N /\ m <= l
      BY <1>0, <2>8
    <2>11. MaxDrawdown = Level(l) - Level(m)
      BY <2>7, <2>9 DEF fall
    <2>12. ASSUME NEW a \in 0 .. N, NEW b \in 0 .. N, a <= b
           PROVE  fall(b) <= Level(b) - Level(a)
      <3>1. b \in Nat /\ a \in 0 .. b
        BY <1>0, <2>12
      <3>2. Level(a) <= Peak(b) /\ Peak(b) \in Int /\ Level(a) \in Int /\ Level(b) \in Int
        BY <1>2, <1>3, <3>1 DEF IsPeak
      <3> QED
        BY <3>2 DEF fall
    <2>13. ASSUME NEW a \in 0 .. N, NEW b \in 0 .. N, a <= b
           PROVE  fall(l) <= Level(b) - Level(a)
      <3>1. CASE b \in 1 .. N
        <4>1. fall(l) <= fall(b) /\ fall(b) <= Level(b) - Level(a)
          BY <2>7, <2>12, <2>13, <3>1
        <4>2. fall(l) \in Int /\ fall(b) \in Int /\ Level(b) \in Int /\ Level(a) \in Int
          BY <1>2, <2>1, <3>1
        <4> QED
          BY <4>1, <4>2
      <3>2. CASE b \notin 1 .. N
        <4>1. a = 0 /\ b = 0
          BY <1>0, <2>13, <3>2
        <4>2. fall(l) <= fall(1) /\ fall(1) <= Level(1) - Level(1)
          BY <1>4, <2>3, <2>7, <2>12
        <4>3. fall(l) \in Int /\ fall(1) \in Int /\ Level(1) \in Int /\ Level(0) \in Int
          BY <1>2, <2>1, <2>3
        <4> QED
          BY <4>1, <4>2, <4>3
      <3> QED
        BY <3>1, <3>2
    <2>14. \E x, y \in 0 .. N : x <= y /\ MaxDrawdown = Level(y) - Level(x)
      BY <2>8, <2>10, <2>11
    <2>15. \A x, y \in 0 .. N : x <= y => MaxDrawdown <= Level(y) - Level(x)
      BY <2>7, <2>13
    <2> QED
      BY <2>14, <2>15 DEF DrawdownIsWorstDecline
  <1> QED
    BY <1>5, <1>6

---------------------------------------------------------------------------

LEMMA PnlStep ==
  ASSUME PnlTypeOK, [PnlNext]_pnlVars
  PROVE  PnlTypeOK'
  <1>1. CASE UNCHANGED pnlVars
    BY <1>1 DEF pnlVars, PnlTypeOK
  <1>2. CASE ChooseSide
    BY <1>2 DEF ChooseSide, PnlTypeOK
  <1>3. ASSUME NEW a \in Actions, NEW p \in FillPrices, AddFill([action |-> a, yesPrice |-> p])
        PROVE  PnlTypeOK'
    <2> DEFINE S == [action : Actions, yesPrice : FillPrices]
               r == [action |-> a, yesPrice |-> p]
    <2>1. r \in S
      OBVIOUS
    <2>2. fills \in Seq(S) /\ fills' = Append(fills, r)
          /\ noSide' = noSide /\ tradeRows' = tradeRows
      BY <1>3 DEF AddFill, PnlTypeOK
    <2> HIDE DEF S, r
    <2>3. fills' \in Seq(S)
      BY <2>1, <2>2
    <2> QED
      BY <2>2, <2>3 DEF PnlTypeOK, S
  <1>4. ASSUME NEW r \in PnlRows, AddRow(r)
        PROVE  PnlTypeOK'
    BY <1>4 DEF AddRow, PnlTypeOK
  <1> QED
    BY <1>1, <1>2, <1>3, <1>4 DEF PnlNext

(* What the P&L tab says of realized P&L, drawdown and breakdown is what   *)
(* an account means by these words: compute_closed_positions of server.py, *)
(* compute_pnl_over_time, _max_drawdown_dollars and the two groupings of   *)
(* pnl_analytics.py.                                                       *)
THEOREM AnalyticsStayRight == PnlSpec => []AnalyticsAreRight
  <1>1. PnlInit => PnlTypeOK
    BY EmptySeq DEF PnlInit, PnlTypeOK
  <1>2. PnlTypeOK /\ [PnlNext]_pnlVars => PnlTypeOK'
    BY PnlStep
  <1>3. PnlTypeOK => AnalyticsAreRight
    BY CashFlowFacts, DrawdownFacts, BreakdownFacts DEF AnalyticsAreRight
  <1> QED
    BY <1>1, <1>2, <1>3, PTL DEF PnlSpec

---------------------------------------------------------------------------
(* PriceStudy: a price is of its time, and the scores add up.              *)

\* Of all constants, the mean has the least squares.
LEMMA MeanIsBest ==
  ASSUME NEW n \in Nat, NEW y \in Nat, y <= n, NEW c \in Int
  PROVE  (Square(10 * y) * (n - y) + Square(10 * y - 10 * n) * y) * 10000
           <= (Square(c) * (n - y) + Square(c - 1000) * y) * n * n
  <1> DEFINE d == n * c - 1000 * y
             left == (Square(10 * y) * (n - y) + Square(10 * y - 10 * n) * y) * 10000
             right == (Square(c) * (n - y) + Square(c - 1000) * y) * n * n
  <1>1. left = 1000000 * (y * n * (n - y))
    BY DEF Square
  <1>2. right = n * (d * d) + 1000000 * (y * n * (n - y))
    BY DEF Square
  <1>3. d \in Int /\ d * d >= 0
    <2>1. d \in Int
      OBVIOUS
    <2> HIDE DEF d
    <2> QED
      BY <2>1
  <1> DEFINE q == d * d
  <1>4. q \in Int /\ q >= 0 /\ n \in Int /\ n >= 0
    BY <1>3
  <1> HIDE DEF q
  <1>5. n * q >= 0
    BY <1>4
  <1> DEFINE e == 1000000 * (y * n * (n - y))
  <1>6. e \in Int /\ n * q \in Int
    BY <1>4
  <1>7. left = e /\ right = n * q + e
    BY <1>1, <1>2 DEF q
  <1> HIDE DEF e, left, right
  <1>8. left <= right
    BY <1>5, <1>6, <1>7
  <1> QED
    BY <1>8 DEF left, right

PriceSources == {"traded", "mid_no_trade"}

\* [sample, price, source, candles]
PriceRow ==
  [sample : DOMAIN StudySamples, price : 0 .. 1000, source : PriceSources, candles : CandleAnswers]

PriceTypes ==
  /\ studied \in 0 .. Len(StudySamples)
  /\ pricedRows \in Seq(PriceRow)
  /\ studySkips \in [StudySkips -> Nat]

(* A row has the price that the selection makes of its candles.            *)
RowsWereSelected ==
  \A i \in DOMAIN pricedRows :
    SelectAsofPrice(pricedRows[i].candles, SampleOf(i).closes)
      = [price |-> pricedRows[i].price, source |-> pricedRows[i].source]

(* Each sample gone through is a row or counted as skipped.                *)
SamplesAreCounted ==
  Len(pricedRows) + studySkips["no_close_time"] + studySkips["candle_error"]
    + studySkips["price_missing"] = studied

PriceIInv == PriceTypes /\ RowsWereSelected /\ SamplesAreCounted

StudyCandles ==
  [end : Int, close : Int \cup {Unquoted}, bid : Int \cup {Unquoted},
   ask : Int \cup {Unquoted}, mean : Int \cup {Unquoted}, volume : Nat]

\* A set of candles has a latest one.
LEMMA LatestFacts ==
  ASSUME NEW window \in Seq(StudyCandles), NEW chosen, chosen \subseteq DOMAIN window, chosen # {}
  PROVE  LatestOf(window, chosen) \in chosen
  <1>1. DOMAIN window = 1 .. Len(window) /\ Len(window) \in Nat
    BY DEF StudyCandles
  <1>2. \A i \in chosen : window[i].end \in Int /\ i \in Int
    <2>1. \A i \in DOMAIN window : window[i] \in StudyCandles
      <3> HIDE DEF StudyCandles
      <3> QED
        OBVIOUS
    <2>2. \A c \in StudyCandles : c.end \in Int
      BY DEF StudyCandles
    <2> QED
      BY <1>1, <2>1, <2>2
  <1>3. IsFiniteSet(chosen)
    <2>1. IsFiniteSet(1 .. Len(window))
      BY <1>1, FS_Interval
    <2> QED
      BY <1>1, <2>1, FS_Subset
  <1> DEFINE h == [i \in chosen |-> window[i].end]
  <1>4. h \in [chosen -> Int] /\ \A i \in chosen : h[i] = window[i].end
    BY <1>2
  <1> HIDE DEF h
  <1>5. PICK m \in chosen : \A j \in chosen : h[j] <= h[m]
    BY <1>3, <1>4, LargestValue
  <1> DEFINE last == {i \in chosen : window[i].end = window[m].end}
             g    == [i \in last |-> i]
  <1>6. last \subseteq chosen /\ m \in last /\ IsFiniteSet(last)
    BY <1>3, FS_Subset
  <1>7. g \in [last -> Int] /\ \A i \in last : g[i] = i
    BY <1>2
  <1>8. PICK l \in last : \A j \in last : g[j] <= g[l]
    <2> HIDE DEF g, last
    <2>1. last # {}
      BY <1>6
    <2> QED
      BY <1>6, <1>7, <2>1, LargestValue
  <1>9. \A j \in chosen : \/ window[j].end < window[l].end
                          \/ window[j].end = window[l].end /\ j <= l
    <2> TAKE j \in chosen
    <2>1. window[j].end \in Int /\ window[l].end \in Int /\ window[j].end <= window[l].end
      BY <1>2, <1>4, <1>5
    <2>2. CASE window[j].end = window[l].end
      BY <1>7, <1>8, <2>2
    <2>3. CASE window[j].end # window[l].end
      BY <2>1, <2>3
    <2> QED
      BY <2>2, <2>3
  <1>10. l \in chosen
    BY <1>6
  <1> QED
    BY <1>9, <1>10 DEF LatestOf

\* What a selection returns.
LEMMA SelectedFacts ==
  ASSUME NEW candles \in CandleAnswers, NEW closes,
         SelectAsofPrice(candles, closes) # NoPrice
  PROVE  /\ SelectAsofPrice(candles, closes).price \in 0 .. 1000
         /\ SelectAsofPrice(candles, closes).source \in PriceSources
         /\ SelectAsofPrice(candles, closes)
              = [price |-> SelectAsofPrice(candles, closes).price,
                 source |-> SelectAsofPrice(candles, closes).source]
  <1> DEFINE window == InWindow(candles, closes)
             traded == {i \in DOMAIN window : window[i].close # Unquoted /\ window[i].volume > 0}
             quoted == {i \in DOMAIN window : HasMid(window[i])}
             last   == window[LatestOf(window, traded)]
             mid    == window[LatestOf(window, quoted)]
             asof   == SelectAsofPrice(candles, closes)
  <1>1. asof = IF traded # {}
                 THEN [price |-> UnitPrice(last.close * 10), source |-> "traded"]
               ELSE IF quoted # {}
                 THEN [price |-> UnitPrice(MidPrice(mid)), source |-> "mid_no_trade"]
               ELSE NoPrice
    BY DEF SelectAsofPrice
  <1>2. \A p \in Int : UnitPrice(p) \in 0 .. 1000
    BY DEF UnitPrice
  <1> DEFINE S == StudyCandles
  <1>3. window \in Seq(S)
    <2>1. candles \in Seq(StudyCandles)
      BY PriceAssumption DEF StudyCandles
    <2> QED
      BY <2>1, ItemsFacts DEF InWindow, EndedBy
  <1>4. \A i \in DOMAIN window : window[i] \in S
    <2> HIDE DEF S, window
    <2> QED
      BY <1>3
  <1>5. \A c \in S : c.close # Unquoted => c.close \in Int
    BY DEF StudyCandles
  <1>6. \A c \in S : HasMid(c) => MidPrice(c) \in Int
    BY DEF StudyCandles, HasMid, MidPrice
  <1>7. CASE traded # {}
    <2>1. LatestOf(window, traded) \in traded
      <3>1. traded \subseteq DOMAIN window
        OBVIOUS
      <3> HIDE DEF window, traded
      <3> QED
        BY <1>3, <1>7, <3>1, LatestFacts
    <2>2. last \in S /\ last.close # Unquoted
      <3> HIDE DEF S, window
      <3> QED
        BY <1>4, <2>1
    <2>3. last.close * 10 \in Int
      <3> HIDE DEF S, last
      <3> QED
        BY <1>5, <2>2
    <2> HIDE DEF asof, traded, quoted, last, mid, S, window
    <2>4. asof = [price |-> UnitPrice(last.close * 10), source |-> "traded"]
      BY <1>1, <1>7
    <2>5. UnitPrice(last.close * 10) \in 0 .. 1000
      BY <1>2, <2>3
    <2> QED
      BY <2>4, <2>5 DEF PriceSources, asof
  <1>8. CASE traded = {} /\ quoted # {}
    <2>1. LatestOf(window, quoted) \in quoted
      <3>1. quoted \subseteq DOMAIN window
        OBVIOUS
      <3> HIDE DEF window, quoted
      <3> QED
        BY <1>3, <1>8, <3>1, LatestFacts
    <2>2. mid \in S /\ HasMid(mid)
      <3> HIDE DEF S, window
      <3> QED
        BY <1>4, <2>1
    <2>3. MidPrice(mid) \in Int
      <3> HIDE DEF S, mid
      <3> QED
        BY <1>6, <2>2
    <2> HIDE DEF asof, traded, quoted, last, mid, S, window
    <2>4. asof = [price |-> UnitPrice(MidPrice(mid)), source |-> "mid_no_trade"]
      BY <1>1, <1>8
    <2>5. UnitPrice(MidPrice(mid)) \in 0 .. 1000
      BY <1>2, <2>3
    <2> QED
      BY <2>4, <2>5 DEF PriceSources, asof
  <1> HIDE DEF asof, traded, quoted, last, mid
  <1>9. CASE traded = {} /\ quoted = {}
    BY <1>1, <1>9 DEF asof
  <1> QED
    BY <1>7, <1>8, <1>9

\* What the middle of a book stands for has no trade before it.
LEMMA MidFacts ==
  ASSUME NEW candles, NEW closes, SelectAsofPrice(candles, closes).source = "mid_no_trade"
  PROVE  \A j \in DOMAIN InWindow(candles, closes) :
           \/ InWindow(candles, closes)[j].close = Unquoted
           \/ ~(InWindow(candles, closes)[j].volume > 0)
  <1> DEFINE window == InWindow(candles, closes)
             traded == {i \in DOMAIN window : window[i].close # Unquoted /\ window[i].volume > 0}
  <1> SUFFICES ASSUME traded # {} PROVE FALSE
    OBVIOUS
  <1> DEFINE p == UnitPrice(window[LatestOf(window, traded)].close * 10)
  <1>1. SelectAsofPrice(candles, closes) = [price |-> p, source |-> "traded"]
    BY DEF SelectAsofPrice
  <1> HIDE DEF p
  <1> QED
    BY <1>1

LEMMA PriceStarts == PriceInit => PriceIInv
  <1> SUFFICES ASSUME PriceInit PROVE PriceIInv
    OBVIOUS
  <1>1. studied = 0 /\ pricedRows = <<>> /\ studySkips = [why \in StudySkips |-> 0]
    BY DEF PriceInit
  <1>2. Len(StudySamples) \in Nat
    BY PriceAssumption
  <1>3. PriceTypes
    BY <1>1, <1>2, EmptySeq DEF PriceTypes
  <1>4. RowsWereSelected
    BY <1>1 DEF RowsWereSelected
  <1>5. SamplesAreCounted
    BY <1>1 DEF SamplesAreCounted, StudySkips
  <1> QED
    BY <1>3, <1>4, <1>5 DEF PriceIInv

\* A sample that is skipped.
LEMMA SkipKeeps ==
  ASSUME PriceIInv, NEW why \in StudySkips, studied < Len(StudySamples), Skip(why)
  PROVE  PriceIInv'
  <1>1. /\ studied' = studied + 1 /\ pricedRows' = pricedRows
        /\ studySkips' = [studySkips EXCEPT ![why] = @ + 1]
    BY DEF Skip
  <1>2. PriceTypes'
    <2>1. studied' \in 0 .. Len(StudySamples) /\ studySkips' \in [StudySkips -> Nat]
      BY <1>1, PriceAssumption DEF PriceIInv, PriceTypes
    <2> QED
      BY <1>1, <2>1 DEF PriceIInv, PriceTypes
  <1>3. RowsWereSelected'
    BY <1>1 DEF PriceIInv, RowsWereSelected, SampleOf
  <1>4. SamplesAreCounted'
    <2>1. /\ "no_close_time" \in StudySkips /\ "candle_error" \in StudySkips
          /\ "price_missing" \in StudySkips
      BY DEF StudySkips
    <2>2. why = "no_close_time" \/ why = "candle_error" \/ why = "price_missing"
      BY DEF StudySkips
    <2>4. /\ studySkips["no_close_time"] \in Nat /\ studySkips["candle_error"] \in Nat
          /\ studySkips["price_missing"] \in Nat /\ Len(pricedRows) \in Nat /\ studied \in Int
      BY <2>1 DEF PriceIInv, PriceTypes
    <2>5. Len(pricedRows) + studySkips["no_close_time"] + studySkips["candle_error"]
            + studySkips["price_missing"] = studied
      BY DEF PriceIInv, SamplesAreCounted
    <2>6. Len(pricedRows') + studySkips'["no_close_time"] + studySkips'["candle_error"]
            + studySkips'["price_missing"] = studied'
      <3> DEFINE n == Len(pricedRows)
                 a == studySkips["no_close_time"]
                 b == studySkips["candle_error"]
                 c == studySkips["price_missing"]
      <3>0. n \in Int /\ a \in Int /\ b \in Int /\ c \in Int /\ n + a + b + c = studied
        BY <2>4, <2>5
      <3>1. Len(pricedRows') = n /\ studied' = studied + 1
        BY <1>1
      <3>2. CASE why = "no_close_time"
        <4>1. studySkips'["no_close_time"] = a + 1
          BY <1>1, <2>1, <3>2 DEF PriceIInv, PriceTypes
        <4>2. studySkips'["candle_error"] = b
          BY <1>1, <2>1, <3>2 DEF PriceIInv, PriceTypes
        <4>3. studySkips'["price_missing"] = c
          BY <1>1, <2>1, <3>2 DEF PriceIInv, PriceTypes
        <4> HIDE DEF n, a, b, c
        <4> QED
          BY <3>0, <3>1, <4>1, <4>2, <4>3
      <3>3. CASE why = "candle_error"
        <4>1. studySkips'["no_close_time"] = a
          BY <1>1, <2>1, <3>3 DEF PriceIInv, PriceTypes
        <4>2. studySkips'["candle_error"] = b + 1
          BY <1>1, <2>1, <3>3 DEF PriceIInv, PriceTypes
        <4>3. studySkips'["price_missing"] = c
          BY <1>1, <2>1, <3>3 DEF PriceIInv, PriceTypes
        <4> HIDE DEF n, a, b, c
        <4> QED
          BY <3>0, <3>1, <4>1, <4>2, <4>3
      <3>4. CASE why = "price_missing"
        <4>1. studySkips'["no_close_time"] = a
          BY <1>1, <2>1, <3>4 DEF PriceIInv, PriceTypes
        <4>2. studySkips'["candle_error"] = b
          BY <1>1, <2>1, <3>4 DEF PriceIInv, PriceTypes
        <4>3. studySkips'["price_missing"] = c + 1
          BY <1>1, <2>1, <3>4 DEF PriceIInv, PriceTypes
        <4> HIDE DEF n, a, b, c
        <4> QED
          BY <3>0, <3>1, <4>1, <4>2, <4>3
      <3> QED
        BY <2>2, <3>2, <3>3, <3>4
    <2> QED
      BY <2>6 DEF SamplesAreCounted
  <1> QED
    BY <1>2, <1>3, <1>4 DEF PriceIInv

LEMMA PricedKeeps ==
  ASSUME PriceIInv, NEW candles \in CandleAnswers, SamplePriced(candles)
  PROVE  PriceIInv'
  <1> DEFINE asof == SelectAsofPrice(candles, AtSample.closes)
             row  == [sample |-> studied + 1, price |-> asof.price, source |-> asof.source,
                      candles |-> candles]
  <1>1. /\ studied < Len(StudySamples) /\ asof # NoPrice
        /\ pricedRows' = Append(pricedRows, row) /\ studied' = studied + 1
        /\ studySkips' = studySkips
    BY DEF SamplePriced
  <1>2. /\ asof.price \in 0 .. 1000 /\ asof.source \in PriceSources
        /\ asof = [price |-> asof.price, source |-> asof.source]
    BY <1>1, SelectedFacts
  <1>3. /\ row.sample = studied + 1 /\ row.price = asof.price /\ row.source = asof.source
        /\ row.candles = candles
    OBVIOUS
  <1>4. studied + 1 \in DOMAIN StudySamples /\ studied' \in 0 .. Len(StudySamples)
    BY <1>1, PriceAssumption DEF PriceIInv, PriceTypes
  <1>5. row \in PriceRow
    BY <1>2, <1>4 DEF PriceRow
  <1>6. SelectAsofPrice(row.candles, StudySamples[row.sample].closes)
          = [price |-> row.price, source |-> row.source]
    BY <1>2, <1>3 DEF AtSample
  <1> HIDE DEF row, asof
  <1>7. pricedRows \in Seq(PriceRow)
    BY DEF PriceIInv, PriceTypes
  <1>8. PriceTypes'
    <2>1. pricedRows' \in Seq(PriceRow)
      BY <1>1, <1>5, <1>7
    <2> QED
      BY <1>1, <1>4, <2>1 DEF PriceIInv, PriceTypes
  <1>9. /\ Len(pricedRows') = Len(pricedRows) + 1 /\ Len(pricedRows) \in Nat
        /\ DOMAIN pricedRows' = 1 .. Len(pricedRows) + 1 /\ DOMAIN pricedRows = 1 .. Len(pricedRows)
        /\ pricedRows'[Len(pricedRows) + 1] = row
        /\ \A i \in 1 .. Len(pricedRows) : pricedRows'[i] = pricedRows[i]
    BY <1>1, <1>5, <1>7
  <1>10. RowsWereSelected'
    <2> SUFFICES ASSUME NEW i \in DOMAIN pricedRows'
                 PROVE  SelectAsofPrice(pricedRows'[i].candles,
                                        StudySamples[pricedRows'[i].sample].closes)
                          = [price |-> pricedRows'[i].price, source |-> pricedRows'[i].source]
      BY DEF RowsWereSelected, SampleOf
    <2>1. i \in 1 .. Len(pricedRows) \/ i = Len(pricedRows) + 1
      BY <1>9
    <2>2. CASE i = Len(pricedRows) + 1
      BY <1>6, <1>9, <2>2
    <2>3. CASE i \in 1 .. Len(pricedRows)
      BY <1>9, <2>3 DEF PriceIInv, RowsWereSelected, SampleOf
    <2> QED
      BY <2>1, <2>2, <2>3
  <1>11. SamplesAreCounted'
    <2>1. /\ studySkips["no_close_time"] \in Nat /\ studySkips["candle_error"] \in Nat
          /\ studySkips["price_missing"] \in Nat /\ studied \in Int
      BY DEF PriceIInv, PriceTypes, StudySkips
    <2>2. Len(pricedRows) + studySkips["no_close_time"] + studySkips["candle_error"]
            + studySkips["price_missing"] = studied
      BY DEF PriceIInv, SamplesAreCounted
    <2>3. Len(pricedRows') + studySkips'["no_close_time"] + studySkips'["candle_error"]
            + studySkips'["price_missing"] = studied'
      BY <1>1, <1>9, <2>1, <2>2
    <2> QED
      BY <2>3 DEF SamplesAreCounted
  <1> QED
    BY <1>8, <1>10, <1>11 DEF PriceIInv

LEMMA PriceStep == PriceIInv /\ [PriceNext]_priceVars => PriceIInv'
  <1> SUFFICES ASSUME PriceIInv, [PriceNext]_priceVars PROVE PriceIInv'
    OBVIOUS
  <1>1. CASE SampleWithoutClose
    BY <1>1, SkipKeeps DEF SampleWithoutClose, StudySkips
  <1>2. CASE CandlesFail
    BY <1>2, SkipKeeps DEF CandlesFail, StudySkips
  <1>3. ASSUME NEW candles \in CandleAnswers, SamplePriced(candles) PROVE PriceIInv'
    BY <1>3, PricedKeeps
  <1>4. ASSUME NEW candles \in CandleAnswers, SampleUnpriced(candles) PROVE PriceIInv'
    BY <1>4, SkipKeeps DEF SampleUnpriced, StudySkips
  <1>5. CASE UNCHANGED priceVars
    BY <1>5 DEF priceVars, PriceIInv, PriceTypes, RowsWereSelected, SamplesAreCounted, SampleOf
  <1> QED
    BY <1>1, <1>2, <1>3, <1>4, <1>5 DEF PriceNext

\* What the selection makes of the candles of its window.
PriceOfWindow(window) ==
  LET traded == {i \in DOMAIN window : window[i].close # Unquoted /\ window[i].volume > 0}
      quoted == {i \in DOMAIN window : HasMid(window[i])}
  IN IF traded # {}
       THEN [price |-> UnitPrice(window[LatestOf(window, traded)].close * 10), source |-> "traded"]
     ELSE IF quoted # {}
       THEN [price |-> UnitPrice(MidPrice(window[LatestOf(window, quoted)])),
             source |-> "mid_no_trade"]
     ELSE NoPrice

\* The candles after the as-of time say nothing.
LEMMA SelectionIsAsOf ==
  PriceIInv => PricesAreAsOf
  <1> SUFFICES ASSUME PriceIInv, NEW i \in DOMAIN pricedRows
               PROVE  LET row == pricedRows[i]
                          upTo(candles) == EndedBy(candles, SampleOf(i).closes - AsofMinutes)
                      IN /\ \A other \in CandleAnswers : upTo(other) = upTo(row.candles) =>
                              SelectAsofPrice(other, SampleOf(i).closes)
                                = [price |-> row.price, source |-> row.source]
                         /\ row.source = "mid_no_trade" =>
                              \A j \in DOMAIN upTo(row.candles) :
                                upTo(row.candles)[j].close = Unquoted \/ upTo(row.candles)[j].volume = 0
    BY DEF PricesAreAsOf
  <1> DEFINE candles == pricedRows[i].candles
             closes  == SampleOf(i).closes
             window  == EndedBy(candles, closes - AsofMinutes)
  <1>1. SelectAsofPrice(candles, closes)
          = [price |-> pricedRows[i].price, source |-> pricedRows[i].source]
    BY DEF PriceIInv, RowsWereSelected
  <1>2. ASSUME NEW other, EndedBy(other, closes - AsofMinutes) = window
        PROVE  SelectAsofPrice(other, closes) = SelectAsofPrice(candles, closes)
    <2>1. InWindow(other, closes) = InWindow(candles, closes)
      BY <1>2 DEF InWindow
    <2>2. /\ SelectAsofPrice(other, closes) = PriceOfWindow(InWindow(other, closes))
          /\ SelectAsofPrice(candles, closes) = PriceOfWindow(InWindow(candles, closes))
      BY DEF SelectAsofPrice, PriceOfWindow
    <2> QED
      BY <2>1, <2>2
  <1>3. candles \in CandleAnswers
    <2>1. pricedRows[i] \in PriceRow
      BY DEF PriceIInv, PriceTypes
    <2>2. \A r \in PriceRow : r.candles \in CandleAnswers
      BY DEF PriceRow
    <2> QED
      BY <2>1, <2>2
  <1>4. candles \in Seq(StudyCandles)
    BY <1>3, PriceAssumption DEF StudyCandles
  <1>5. window \in Seq(StudyCandles)
    BY <1>4, ItemsFacts DEF EndedBy
  <1>6. \A j \in DOMAIN window : window[j].volume \in Nat
    <2>1. \A j \in DOMAIN window : window[j] \in StudyCandles
      <3> HIDE DEF window
      <3> QED
        BY <1>5
    <2>2. \A c \in StudyCandles : c.volume \in Nat
      BY DEF StudyCandles
    <2> QED
      BY <2>1, <2>2
  <1>7. ASSUME pricedRows[i].source = "mid_no_trade", NEW j \in DOMAIN window
        PROVE  window[j].close = Unquoted \/ window[j].volume = 0
    <2>1. SelectAsofPrice(candles, closes).source = "mid_no_trade"
      BY <1>1, <1>7
    <2>2. InWindow(candles, closes) = window
      BY DEF InWindow
    <2>3. window[j].close = Unquoted \/ ~(window[j].volume > 0)
      <3> HIDE DEF window, candles, closes
      <3>1. j \in DOMAIN InWindow(candles, closes)
        BY <2>2, <1>7
      <3> QED
        BY <2>1, <2>2, <3>1, MidFacts
    <2>4. window[j].volume \in Nat
      BY <1>6
    <2> QED
      BY <2>3, <2>4
  <1> QED
    BY <1>1, <1>2, <1>7

\* The squares of a prediction that is the same for all rows.
LEMMA BrierOfConstant ==
  ASSUME NEW R, IsFiniteSet(R), NEW p \in Int, NEW u \in Int,
         \A i \in R : SampleOf(i).realized \in {0, 1}
  PROVE  LET y == RealizedYes(R)
             n == Cardinality(R)
         IN /\ y \in Nat /\ n \in Nat /\ y <= n
            /\ BrierSum(R, [i \in R |-> p], u) = Square(p) * (n - y) + Square(p - u) * y
  <1> DEFINE P == {i \in R : SampleOf(i).realized = 1}
             Q == {i \in R : SampleOf(i).realized # 1}
             a == Square(p)
             b == Square(p - u)
             of == [i \in R |-> Square([j \in R |-> p][i] - SampleOf(i).realized * u)]
             vP == [i \in P |-> b]
             vQ == [i \in Q |-> a]
  <1>1. a \in Int /\ b \in Int
    BY DEF Square
  <1>2. \A i \in R : [j \in R |-> p][i] = p
    OBVIOUS
  <1>0. PICK v : v = of
    OBVIOUS
  <1>3. \A i \in R : v[i] = Square(p - SampleOf(i).realized * u)
    BY <1>0, <1>2
  <1>4. \A i \in P : v[i] = b
    <2>1. p - 1 * u = p - u
      OBVIOUS
    <2> QED
      BY <1>3, <2>1
  <1>5. \A i \in Q : v[i] = a
    <2>1. p - 0 * u = p
      OBVIOUS
    <2>2. \A i \in Q : SampleOf(i).realized = 0
      OBVIOUS
    <2>3. \A i \in Q : v[i] = Square(p - 0 * u)
      BY <1>3, <2>2
    <2> QED
      BY <2>1, <2>3
  <1>6. BrierSum(R, [i \in R |-> p], u) = SumOver(R, v)
    BY <1>0 DEF BrierSum
  <1>7. v = [i \in R |-> v[i]]
    BY <1>0
  <1>8. P \in SUBSET R /\ Q \in SUBSET R /\ P \cap Q = {} /\ P \cup Q = R
    OBVIOUS
  <1>9. vP = [i \in P |-> b] /\ vQ = [i \in Q |-> a]
    OBVIOUS
  <1>10. RealizedYes(R) = Cardinality(P)
    BY DEF RealizedYes
  <1> HIDE DEF a, b, of, P, Q, vP, vQ
  <1>11. v \in [R -> Int]
    <2>1. \A i \in R : v[i] \in Int
      BY <1>1, <1>4, <1>5, <1>8
    <2> QED
      BY <1>7, <2>1
  <1>12. vP \in [P -> Int] /\ vQ \in [Q -> Int] /\ (\A i \in P : vP[i] = v[i])
         /\ (\A i \in Q : vQ[i] = v[i])
    BY <1>1, <1>4, <1>5, <1>9
  <1>13. IsFiniteSet(P) /\ IsFiniteSet(Q)
    BY <1>8, FS_Subset
  <1>14. PICK f : IsSumOn(f, SUBSET R, v) /\ SumOver(R, v) = f[R]
    BY <1>11, SumFacts
  <1>15. f[R] = f[P] + f[Q]
    <2>1. SumsUp(f, R, v)
      BY <1>11, <1>14 DEF SumsUp
    <2>2. f[P \cup Q] = f[P] + f[Q]
      BY <1>8, <2>1, SumSplits
    <2> QED
      BY <1>8, <2>2
  <1>16. f[P] = SumOver(P, vP) /\ f[Q] = SumOver(Q, vQ)
    BY <1>8, <1>11, <1>12, <1>14, SumOfPart
  <1>17. SumOver(P, vP) = b * Cardinality(P) /\ SumOver(Q, vQ) = a * Cardinality(Q)
    BY <1>1, <1>9, <1>13, SumOfSame
  <1> DEFINE y == Cardinality(P)
             z == Cardinality(Q)
             n == Cardinality(R)
  <1>18. y \in Nat /\ z \in Nat /\ n \in Nat /\ n = y + z
    <2>1. Cardinality(P \cup Q) = y + z - Cardinality(P \cap Q)
      BY <1>13, FS_Union
    <2>2. y \in Nat /\ z \in Nat /\ Cardinality({}) = 0
      BY <1>13, FS_CardinalityType, FS_EmptySet
    <2>3. n = y + z - 0
      BY <1>8, <2>1, <2>2
    <2> HIDE DEF y, z, n
    <2> QED
      BY <2>2, <2>3
  <1> HIDE DEF y, z, n
  <1>19. z = n - y /\ y <= n
    BY <1>18
  <1>20. BrierSum(R, [i \in R |-> p], u) = a * (n - y) + b * y
    <2>1. f[R] = b * y + a * z
      BY <1>15, <1>16, <1>17 DEF y, z
    <2>2. b * y \in Int /\ a * z \in Int
      BY <1>1, <1>18
    <2>3. f[R] = a * z + b * y
      BY <2>1, <2>2
    <2> QED
      BY <1>6, <1>14, <1>19, <2>3
  <1> QED
    BY <1>10, <1>18, <1>19, <1>20 DEF y, n, a, b

\* The bins that a price is in.
BinsWith(bins, x) == {k \in DOMAIN bins : bins[k][1] <= x /\ x < bins[k][2]}

LEMMA OneBin ==
  ASSUME NEW x \in 0 .. 1000
  PROVE  /\ Cardinality(BinsWith(ReliabilityBins, x)) = 1
         /\ Cardinality(BinsWith(FavoriteLongshotBins, x)) = 1
  <1>1. ASSUME NEW k PROVE Cardinality({k}) = 1
    BY FS_Singleton
  <1>2. Cardinality(BinsWith(ReliabilityBins, x)) = 1
    <2>1. x < 150 \/ (150 <= x /\ x < 500) \/ (500 <= x /\ x < 850) \/ 850 <= x
      OBVIOUS
    <2>2. CASE x < 150
      <3>1. BinsWith(ReliabilityBins, x) = {1}
        BY <2>2 DEF BinsWith, ReliabilityBins
      <3> QED
        BY <1>1, <3>1
    <2>3. CASE 150 <= x /\ x < 500
      <3>1. BinsWith(ReliabilityBins, x) = {2}
        BY <2>3 DEF BinsWith, ReliabilityBins
      <3> QED
        BY <1>1, <3>1
    <2>4. CASE 500 <= x /\ x < 850
      <3>1. BinsWith(ReliabilityBins, x) = {3}
        BY <2>4 DEF BinsWith, ReliabilityBins
      <3> QED
        BY <1>1, <3>1
    <2>5. CASE 850 <= x
      <3>1. BinsWith(ReliabilityBins, x) = {4}
        BY <2>5 DEF BinsWith, ReliabilityBins
      <3> QED
        BY <1>1, <3>1
    <2> QED
      BY <2>1, <2>2, <2>3, <2>4, <2>5
  <1>3. Cardinality(BinsWith(FavoriteLongshotBins, x)) = 1
    <2>1. \/ x < 50
          \/ 50 <= x /\ x < 150
          \/ 150 <= x /\ x < 500
          \/ 500 <= x /\ x < 850
          \/ 850 <= x /\ x < 950
          \/ 950 <= x
      OBVIOUS
    <2>2. CASE x < 50
      <3>1. BinsWith(FavoriteLongshotBins, x) = {1}
        BY <2>2 DEF BinsWith, FavoriteLongshotBins
      <3> QED
        BY <1>1, <3>1
    <2>3. CASE 50 <= x /\ x < 150
      <3>1. BinsWith(FavoriteLongshotBins, x) = {2}
        BY <2>3 DEF BinsWith, FavoriteLongshotBins
      <3> QED
        BY <1>1, <3>1
    <2>4. CASE 150 <= x /\ x < 500
      <3>1. BinsWith(FavoriteLongshotBins, x) = {3}
        BY <2>4 DEF BinsWith, FavoriteLongshotBins
      <3> QED
        BY <1>1, <3>1
    <2>5. CASE 500 <= x /\ x < 850
      <3>1. BinsWith(FavoriteLongshotBins, x) = {4}
        BY <2>5 DEF BinsWith, FavoriteLongshotBins
      <3> QED
        BY <1>1, <3>1
    <2>6. CASE 850 <= x /\ x < 950
      <3>1. BinsWith(FavoriteLongshotBins, x) = {5}
        BY <2>6 DEF BinsWith, FavoriteLongshotBins
      <3> QED
        BY <1>1, <3>1
    <2>7. CASE 950 <= x
      <3>1. BinsWith(FavoriteLongshotBins, x) = {6}
        BY <2>7 DEF BinsWith, FavoriteLongshotBins
      <3> QED
        BY <1>1, <3>1
    <2> QED
      BY <2>1, <2>2, <2>3, <2>4, <2>5, <2>6, <2>7
  <1> QED
    BY <1>2, <1>3

LEMMA RowFacts ==
  ASSUME PriceIInv
  PROVE  /\ IsFiniteSet(DOMAIN pricedRows) /\ Cardinality(DOMAIN pricedRows) = Len(pricedRows)
         /\ \A i \in DOMAIN pricedRows :
              /\ pricedRows[i].sample \in DOMAIN StudySamples
              /\ pricedRows[i].price \in 0 .. 1000
              /\ pricedRows[i].source \in PriceSources
              /\ pricedRows[i].candles \in CandleAnswers
              /\ SampleOf(i).realized \in {0, 1}
              /\ SampleOf(i).sports \in BOOLEAN
  <1>1. pricedRows \in Seq(PriceRow)
    BY DEF PriceIInv, PriceTypes
  <1>2. DOMAIN pricedRows = 1 .. Len(pricedRows) /\ Len(pricedRows) \in Nat
    BY <1>1
  <1>3. IsFiniteSet(1 .. Len(pricedRows)) /\ Cardinality(1 .. Len(pricedRows)) = Len(pricedRows)
    <2>1. PICK n \in Nat : n = Len(pricedRows)
      BY <1>2
    <2>2. IsFiniteSet(1 .. n) /\ Cardinality(1 .. n) = IF 1 > n THEN 0 ELSE n - 1 + 1
      BY FS_Interval
    <2>3. Cardinality(1 .. n) = n
      BY <2>2
    <2> QED
      BY <2>1, <2>2, <2>3
  <1>4. ASSUME NEW i \in DOMAIN pricedRows
        PROVE  /\ pricedRows[i].sample \in DOMAIN StudySamples
               /\ pricedRows[i].price \in 0 .. 1000
               /\ pricedRows[i].source \in PriceSources
               /\ pricedRows[i].candles \in CandleAnswers
               /\ SampleOf(i).realized \in {0, 1}
               /\ SampleOf(i).sports \in BOOLEAN
    <2>1. pricedRows[i] \in PriceRow
      BY <1>1
    <2>2. \A r \in PriceRow : /\ r.sample \in DOMAIN StudySamples /\ r.price \in 0 .. 1000
                              /\ r.source \in PriceSources /\ r.candles \in CandleAnswers
      BY DEF PriceRow
    <2> DEFINE Sample == [closes : Int \cup {NoClose}, realized : {0, 1}, sports : BOOLEAN]
    <2>3. \A k \in DOMAIN StudySamples : StudySamples[k] \in Sample
      <3>1. StudySamples \in Seq(Sample)
        BY PriceAssumption
      <3> HIDE DEF Sample
      <3> QED
        BY <3>1
    <2>4. \A s \in Sample : s.realized \in {0, 1} /\ s.sports \in BOOLEAN
      OBVIOUS
    <2> HIDE DEF Sample
    <2>5. SampleOf(i) \in Sample
      BY <2>1, <2>2, <2>3 DEF SampleOf
    <2> QED
      BY <2>1, <2>2, <2>4, <2>5
  <1> QED
    BY <1>2, <1>3, <1>4

\* No constant beats the mean outcome.
LEMMA BaseRateIsBest ==
  ASSUME NEW R, IsFiniteSet(R), \A i \in R : SampleOf(i).realized \in {0, 1},
         NEW constant \in Int, NEW n, n = Cardinality(R)
  PROVE  MeanIsNoWorse(R, n, constant)
  <1>1. PICK yes : yes = RealizedYes(R)
    OBVIOUS
  <1>2. yes \in Nat /\ n \in Nat /\ yes <= n
    <2>1. 0 \in Int
      OBVIOUS
    <2> QED
      BY <1>1, <2>1, BrierOfConstant
  <1>3. 10 * yes \in Int /\ 10 * n \in Int /\ 1000 \in Int
    BY <1>2
  <1>4. PICK p \in Int, u \in Int : p = 10 * yes /\ u = 10 * n
    BY <1>3
  <1>5. BrierSum(R, [i \in R |-> p], u) = Square(p) * (n - yes) + Square(p - u) * yes
    BY <1>1, BrierOfConstant
  <1>6. BrierSum(R, [i \in R |-> constant], 1000)
          = Square(constant) * (n - yes) + Square(constant - 1000) * yes
    <2>1. PICK unit \in Int : unit = 1000
      OBVIOUS
    <2>2. BrierSum(R, [i \in R |-> constant], unit)
            = Square(constant) * (n - yes) + Square(constant - unit) * yes
      BY <1>1, BrierOfConstant
    <2> QED
      BY <2>1, <2>2
  <1>7. (Square(10 * yes) * (n - yes) + Square(10 * yes - 10 * n) * yes) * 10000
           <= (Square(constant) * (n - yes) + Square(constant - 1000) * yes) * n * n
    BY <1>2, MeanIsBest
  <1>8. BrierSum(R, [i \in R |-> p], u) * 10000
           <= BrierSum(R, [i \in R |-> constant], 1000) * n * n
    BY <1>4, <1>5, <1>6, <1>7
  <1>9. [i \in R |-> p] = [i \in R |-> 10 * RealizedYes(R)] /\ u = 10 * n
    BY <1>1, <1>4
  <1> QED
    BY <1>8, <1>9 DEF MeanIsNoWorse

LEMMA StudyIsWhole == PriceIInv => StudyAddsUp
  <1> SUFFICES ASSUME PriceIInv PROVE StudyAddsUp
    OBVIOUS
  <1>1. Len(pricedRows) + studySkips["no_close_time"] + studySkips["candle_error"]
          + studySkips["price_missing"] = studied
    BY DEF PriceIInv, SamplesAreCounted
  <1>2. SubtypeRows(TRUE) \cup SubtypeRows(FALSE) = DOMAIN pricedRows
    BY RowFacts DEF SubtypeRows
  <1>3. ASSUME NEW bins \in {ReliabilityBins, FavoriteLongshotBins} PROVE IsSplitBy(bins)
    <2> SUFFICES ASSUME NEW i \in DOMAIN pricedRows
                 PROVE  Cardinality({b \in DOMAIN bins : i \in BinRows(DOMAIN pricedRows, bins[b])}) = 1
      BY DEF IsSplitBy
    <2> DEFINE x == pricedRows[i].price
               with == {b \in DOMAIN bins : i \in BinRows(DOMAIN pricedRows, bins[b])}
    <2>1. x \in 0 .. 1000
      BY RowFacts
    <2>2. with = BinsWith(bins, x)
      BY DEF BinRows, BinsWith
    <2> HIDE DEF x, with
    <2>3. Cardinality(BinsWith(bins, x)) = 1
      BY <1>3, <2>1, OneBin
    <2>4. Cardinality(with) = 1
      BY <2>2, <2>3
    <2> QED
      BY <2>4 DEF with
  <1>4. ASSUME NEW constant \in {0, 250, 500, 1000}
        PROVE  MeanIsNoWorse(DOMAIN pricedRows, Len(pricedRows), constant)
    <2>1. constant \in Int
      BY <1>4
    <2> QED
      BY <2>1, RowFacts, BaseRateIsBest
  <1>5. \A bins \in {ReliabilityBins, FavoriteLongshotBins} : IsSplitBy(bins)
    BY <1>3, Zenon
  <1>6. \A constant \in {0, 250, 500, 1000} :
          MeanIsNoWorse(DOMAIN pricedRows, Len(pricedRows), constant)
    BY <1>4, Zenon
  <1> QED
    BY <1>1, <1>2, <1>5, <1>6, Zenon DEF StudyAddsUp

(* The price study: a price is what could be had at the as-of time, each   *)
(* sample is a row or counted as skipped, each row is in one bin of each   *)
(* table, and no constant scores better than the base rate, whatever the   *)
(* samples and the candles.                                                *)
THEOREM PricesAreOfTheirTime == PriceSpec => []PriceStudyIsSound
  <1>1. PriceIInv => PriceStudyIsSound
    BY SelectionIsAsOf, StudyIsWhole DEF PriceStudyIsSound
  <1> QED
    BY PriceStarts, PriceStep, <1>1, PTL DEF PriceSpec

---------------------------------------------------------------------------
(* TeaserStudy: a teaser is of the day of its market, and the first        *)
(* markets of the listing are scored.                                      *)

\* What is scored of two lists is scored of each.
LEMMA ScoredOfBoth ==
  ASSUME NEW s \in Seq(TeaserMarkets), NEW t \in Seq(TeaserMarkets)
  PROVE  /\ Scorables(s) \in Seq(TeaserMarkets)
         /\ Scorables(s \o t) = Scorables(s) \o Scorables(t)
  <1> DEFINE c == {i \in DOMAIN s : Scorable(s[i])}
             d == {i \in DOMAIN t : Scorable(t[i])}
             e == {i \in DOMAIN (s \o t) : Scorable((s \o t)[i])}
  <1>1. ChosenOfBoth(s, t, c, d, e)
    <2>1. /\ DOMAIN s = 1 .. Len(s) /\ DOMAIN t = 1 .. Len(t) /\ Len(s) \in Nat /\ Len(t) \in Nat
          /\ DOMAIN (s \o t) = 1 .. Len(s) + Len(t)
          /\ \A i \in 1 .. Len(s) : (s \o t)[i] = s[i]
          /\ \A i \in 1 .. Len(t) : (s \o t)[Len(s) + i] = t[i]
      OBVIOUS
    <2>2. \A i \in 1 .. Len(s) : i \in 1 .. Len(s) + Len(t)
      BY <2>1
    <2>3. \A i \in 1 .. Len(t) : Len(s) + i \in 1 .. Len(s) + Len(t)
      BY <2>1
    <2> QED
      BY <2>1, <2>2, <2>3 DEF ChosenOfBoth
  <1>2. Scorables(s) = ItemsAt(s, c) /\ Scorables(t) = ItemsAt(t, d) /\ Scorables(s \o t) = ItemsAt(s \o t, e)
    BY DEF Scorables
  <1> HIDE DEF c, d, e
  <1>3. ItemsAt(s \o t, e) = ItemsAt(s, c) \o ItemsAt(t, d)
    BY <1>1, ItemsOfBoth
  <1> QED
    BY <1>2, <1>3, ItemsFacts

AllSeries == [s \in DOMAIN SettledPages |-> ListedBy(s)]

\* What the pages before the p-th of the s-th series list.
ListedBefore(s, p) ==
  JoinedTo(AllSeries, s - 1)
    \o (IF s <= Len(SettledPages) THEN JoinedTo(SettledPages[s], p - 1) ELSE <<>>)

\* A place in the listing.
IsPlace(s, p) ==
  /\ s \in 1 .. Len(SettledPages) + 1
  /\ p \in Nat \ {0}
  /\ IF s <= Len(SettledPages) THEN p <= Len(SettledPages[s]) ELSE p = 1

LEMMA SeriesFacts ==
  /\ Len(SettledPages) \in Nat /\ DOMAIN SettledPages = 1 .. Len(SettledPages)
  /\ AllSeries \in Seq(Seq(TeaserMarkets)) /\ Len(AllSeries) = Len(SettledPages)
  /\ \A s \in 1 .. Len(SettledPages) :
       /\ SettledPages[s] \in Seq(Seq(TeaserMarkets)) /\ Len(SettledPages[s]) \in Nat \ {0}
       /\ AllSeries[s] = JoinedTo(SettledPages[s], Len(SettledPages[s]))
       /\ AllSeries[s] \in Seq(TeaserMarkets)
  <1> DEFINE Pages == Seq(Seq(TeaserMarkets))
  <1>1. SettledPages \in Seq(Pages)
    BY TeaserAssumption
  <1> HIDE DEF Pages
  <1>2. Len(SettledPages) \in Nat /\ DOMAIN SettledPages = 1 .. Len(SettledPages)
    BY <1>1
  <1>3. \A s \in 1 .. Len(SettledPages) : SettledPages[s] \in Pages
    BY <1>1
  <1>4. \A s \in 1 .. Len(SettledPages) : SettledPages[s] # <<>>
    BY <1>2, TeaserAssumption
  <1>5. \A s \in 1 .. Len(SettledPages) : Len(SettledPages[s]) \in Nat \ {0}
    <2> TAKE s \in 1 .. Len(SettledPages)
    <2>1. PICK q \in Seq(Seq(TeaserMarkets)) : q = SettledPages[s] /\ q # <<>>
      BY <1>3, <1>4 DEF Pages
    <2>2. Len(q) \in Nat /\ Len(q) # 0
      BY <2>1, EmptySeq
    <2> QED
      BY <2>1, <2>2
  <1>6. \A s \in 1 .. Len(SettledPages) :
          /\ AllSeries[s] = JoinedTo(SettledPages[s], Len(SettledPages[s]))
          /\ AllSeries[s] \in Seq(TeaserMarkets)
    <2> TAKE s \in 1 .. Len(SettledPages)
    <2>1. AllSeries[s] = JoinedTo(SettledPages[s], Len(SettledPages[s]))
      BY <1>2 DEF AllSeries, ListedBy
    <2>2. PICK q \in Seq(Seq(TeaserMarkets)) : q = SettledPages[s]
      BY <1>3 DEF Pages
    <2>3. Len(q) \in 0 .. Len(q)
      BY <2>2
    <2>4. JoinedTo(q, Len(q)) \in Seq(TeaserMarkets)
      BY <2>3, JoinFacts
    <2> QED
      BY <2>1, <2>2, <2>4
  <1>7. AllSeries \in [1 .. Len(SettledPages) -> Seq(TeaserMarkets)]
    <2>1. AllSeries = [s \in 1 .. Len(SettledPages) |-> AllSeries[s]]
      BY <1>2 DEF AllSeries
    <2> QED
      BY <1>6, <2>1
  <1>8. AllSeries \in Seq(Seq(TeaserMarkets)) /\ Len(AllSeries) = Len(SettledPages)
    BY <1>2, <1>7
  <1> QED
    BY <1>2, <1>3, <1>5, <1>6, <1>8 DEF Pages

\* Where the listing begins and ends.
LEMMA ListingEnds ==
  /\ ListedBefore(1, 1) = <<>>
  /\ \A p : ListedBefore(Len(SettledPages) + 1, p) = AllListed
  <1>1. PICK N \in Nat : N = Len(SettledPages)
    BY SeriesFacts
  <1>2. JoinedTo(AllSeries, 0) = <<>> /\ JoinedTo(AllSeries, N) \in Seq(TeaserMarkets)
    <2>1. N \in 0 .. Len(AllSeries)
      BY <1>1, SeriesFacts
    <2> QED
      BY <2>1, SeriesFacts, JoinFacts
  <1>3. JoinedTo(AllSeries, N) \o <<>> = JoinedTo(AllSeries, N) /\ <<>> \o <<>> = <<>>
    BY <1>2, ConcatEmptySeq, EmptySeq
  <1>4. \A p : ListedBefore(N + 1, p) = AllListed
    <2>1. N + 1 - 1 = N /\ ~(N + 1 <= N)
      OBVIOUS
    <2>2. AllListed = JoinedTo(AllSeries, N)
      BY <1>1 DEF AllListed, AllSeries
    <2> QED
      BY <1>1, <1>3, <2>1, <2>2 DEF ListedBefore
  <1>5. ListedBefore(1, 1) = <<>>
    <2>1. 1 - 1 = 0
      OBVIOUS
    <2>2. CASE 1 <= N
      <3>1. 1 \in 1 .. Len(SettledPages)
        BY <1>1, <2>2
      <3>2. JoinedTo(SettledPages[1], 0) = <<>>
        BY <3>1, SeriesFacts, JoinFacts
      <3> QED
        BY <1>1, <1>2, <1>3, <2>1, <2>2, <3>2 DEF ListedBefore
    <2>3. CASE ~(1 <= N)
      BY <1>1, <1>2, <1>3, <2>1, <2>3 DEF ListedBefore
    <2> QED
      BY <2>2, <2>3
  <1> QED
    BY <1>1, <1>4, <1>5

\* Inside the list of series.
LEMMA ListedWithin ==
  ASSUME NEW s, NEW p, s <= Len(SettledPages)
  PROVE  ListedBefore(s, p) = JoinedTo(AllSeries, s - 1) \o JoinedTo(SettledPages[s], p - 1)
  BY DEF ListedBefore

\* One page further.
LEMMA ListingGoesOn ==
  ASSUME NEW s, NEW p, IsPlace(s, p), s <= Len(SettledPages)
  PROVE  /\ SettledPages[s][p] \in Seq(TeaserMarkets)
         /\ ListedBefore(s, p) \in Seq(TeaserMarkets)
         /\ p < Len(SettledPages[s]) =>
              IsPlace(s, p + 1) /\ ListedBefore(s, p + 1) = ListedBefore(s, p) \o SettledPages[s][p]
         /\ p = Len(SettledPages[s]) =>
              IsPlace(s + 1, 1) /\ ListedBefore(s + 1, 1) = ListedBefore(s, p) \o SettledPages[s][p]
         /\ \E rest \in Seq(TeaserMarkets) : AllListed = ListedBefore(s, p) \o rest
  <1>1. PICK N \in Nat : N = Len(SettledPages)
    BY SeriesFacts
  <1>2. s \in 1 .. N /\ p \in Nat \ {0} /\ p <= Len(SettledPages[s])
    BY <1>1 DEF IsPlace
  <1>3. PICK pages \in Seq(Seq(TeaserMarkets)), L \in Nat \ {0} : pages = SettledPages[s] /\ L = Len(pages)
    BY <1>1, <1>2, SeriesFacts
  <1>4. p \in 1 .. L /\ p - 1 \in 0 .. L /\ p + 1 - 1 = p /\ p \in 0 .. L
    BY <1>2, <1>3
  <1>5. PICK page \in Seq(TeaserMarkets) : page = pages[p]
    BY <1>3, <1>4
  <1>6. s - 1 \in 0 .. N /\ s \in 1 .. N /\ s \in 0 .. N /\ s + 1 - 1 = s /\ s <= N
    BY <1>2
  <1>7. PICK head \in Seq(TeaserMarkets) : head = JoinedTo(AllSeries, s - 1)
    BY <1>1, <1>6, SeriesFacts, JoinFacts
  <1>8. PICK part \in Seq(TeaserMarkets) : part = JoinedTo(pages, p - 1)
    BY <1>3, <1>4, JoinFacts
  <1>9. JoinedTo(pages, p) = part \o page
    BY <1>3, <1>4, <1>5, <1>8, JoinFacts
  <1>10. ListedBefore(s, p) = head \o part
    BY <1>1, <1>3, <1>6, <1>7, <1>8 DEF ListedBefore
  <1>11. head \o part \in Seq(TeaserMarkets) /\ part \o page \in Seq(TeaserMarkets)
    BY ConcatProperties
  <1>12. head \o (part \o page) = (head \o part) \o page
    <2>1. head \in Seq(TeaserMarkets) /\ part \in Seq(TeaserMarkets) /\ page \in Seq(TeaserMarkets)
      BY <1>5, <1>7, <1>8
    <2>2. Nested(head, part, page)
      BY <2>1, ThreeJoined
    <2> QED
      BY <2>2 DEF Nested
  <1>13. ASSUME p < L
         PROVE  IsPlace(s, p + 1) /\ ListedBefore(s, p + 1) = ListedBefore(s, p) \o page
    <2>1. IsPlace(s, p + 1)
      BY <1>1, <1>2, <1>3, <1>13 DEF IsPlace
    <2>2. ListedBefore(s, p + 1) = head \o (part \o page)
      <3>1. ListedBefore(s, p + 1) = JoinedTo(AllSeries, s - 1) \o JoinedTo(SettledPages[s], p + 1 - 1)
        BY <1>1, <1>2, <1>6 DEF ListedBefore
      <3>2. ListedBefore(s, p + 1) = head \o JoinedTo(pages, p)
        BY <1>2, <1>3, <1>4, <1>7, <3>1
      <3> QED
        BY <1>9, <3>2
    <2> QED
      BY <1>10, <1>12, <2>1, <2>2
  <1>14. AllSeries[s] = JoinedTo(pages, L) /\ JoinedTo(AllSeries, s) = head \o JoinedTo(pages, L)
    <2>1. s \in 1 .. Len(AllSeries)
      BY <1>1, <1>6, SeriesFacts
    <2>2. JoinedTo(AllSeries, s) = JoinedTo(AllSeries, s - 1) \o AllSeries[s]
      BY <2>1, SeriesFacts, JoinFacts
    <2>3. AllSeries[s] = JoinedTo(pages, L)
      BY <1>1, <1>3, <1>6, SeriesFacts
    <2> QED
      BY <1>7, <2>2, <2>3
  <1>15. ASSUME p = L
         PROVE  IsPlace(s + 1, 1) /\ ListedBefore(s + 1, 1) = ListedBefore(s, p) \o page
    <2>1. JoinedTo(AllSeries, s) = head \o (part \o page)
      BY <1>9, <1>14, <1>15
    <2>2. PICK q \in Seq(TeaserMarkets) : q = head \o (part \o page)
      BY <1>11, ConcatProperties
    <2>3. q \o <<>> = q
      BY ConcatEmptySeq
    <2>4. s + 1 <= N => s + 1 \in 1 .. N
      BY <1>6
    <2>5. s + 1 <= N => Len(SettledPages[s + 1]) \in Nat \ {0} /\ JoinedTo(SettledPages[s + 1], 0) = <<>>
      BY <1>1, <2>4, SeriesFacts, JoinFacts
    <2>6. IsPlace(s + 1, 1)
      <3>1. s + 1 \in 1 .. N + 1 /\ 1 \in Nat \ {0}
        BY <1>6
      <3>2. s + 1 <= N => 1 <= Len(SettledPages[s + 1])
        BY <2>5
      <3> QED
        BY <1>1, <3>1, <3>2 DEF IsPlace
    <2>7. ListedBefore(s + 1, 1) = q
      <3>1. 1 - 1 = 0
        OBVIOUS
      <3>2. CASE s + 1 <= N
        <4>0. s + 1 <= Len(SettledPages)
          BY <1>1, <3>2
        <4>1. PICK next, first, before, none :
                next = s + 1 /\ first = 1 /\ before = s /\ none = 0
          OBVIOUS
        <4>2. next - 1 = before /\ first - 1 = none /\ next <= Len(SettledPages)
          BY <1>6, <4>0, <4>1
        <4>3. ListedBefore(next, first)
                = JoinedTo(AllSeries, next - 1) \o JoinedTo(SettledPages[next], first - 1)
          BY <4>2, ListedWithin, Zenon
        <4>4. JoinedTo(SettledPages[next], none) = <<>>
          BY <2>5, <3>2, <4>1, Zenon
        <4>5. ListedBefore(next, first) = JoinedTo(AllSeries, before) \o <<>>
          BY <4>2, <4>3, <4>4, Zenon
        <4>6. ListedBefore(s + 1, 1) = JoinedTo(AllSeries, s) \o <<>>
          BY <4>1, <4>5, Zenon
        <4> QED
          BY <2>1, <2>2, <2>3, <4>6
      <3>3. CASE ~(s + 1 <= N)
        BY <1>1, <1>6, <2>1, <2>2, <2>3, <3>3 DEF ListedBefore
      <3> QED
        BY <3>2, <3>3
    <2> QED
      BY <1>10, <1>12, <2>2, <2>6, <2>7
  <1>16. \E rest \in Seq(TeaserMarkets) : AllListed = ListedBefore(s, p) \o rest
    <2>1. AllListed = JoinedTo(AllSeries, N)
      BY <1>1 DEF AllListed, AllSeries
    <2>2. PICK later \in Seq(TeaserMarkets) : AllListed = JoinedTo(AllSeries, s) \o later
      <3>1. N = Len(AllSeries)
        BY <1>1, SeriesFacts
      <3>2. PICK series \in Seq(Seq(TeaserMarkets)) : series = AllSeries
        BY SeriesFacts
      <3>3. s \in 0 .. Len(series) /\ AllListed = JoinedTo(series, Len(series))
        BY <1>6, <2>1, <3>1, <3>2
      <3>4. \E later \in Seq(TeaserMarkets) :
              JoinedTo(series, Len(series)) = JoinedTo(series, s) \o later
        BY <3>3, JoinedBegins
      <3> QED
        BY <3>2, <3>3, <3>4
    <2>3. PICK tail \in Seq(TeaserMarkets) : JoinedTo(pages, L) = part \o tail
      <3>1. p - 1 \in 0 .. Len(pages)
        BY <1>3, <1>4
      <3>2. pages \in Seq(Seq(TeaserMarkets))
        BY <1>3
      <3>3. \E tail \in Seq(TeaserMarkets) :
              JoinedTo(pages, Len(pages)) = JoinedTo(pages, p - 1) \o tail
        BY <3>1, <3>2, JoinedBegins
      <3> QED
        BY <1>3, <1>8, <3>3, Zenon
    <2>4. /\ part \o tail \in Seq(TeaserMarkets) /\ tail \o later \in Seq(TeaserMarkets)
      BY ConcatProperties
    <2>5. (head \o (part \o tail)) \o later = (head \o part) \o (tail \o later)
      <3>1. /\ head \in Seq(TeaserMarkets) /\ part \in Seq(TeaserMarkets)
            /\ tail \in Seq(TeaserMarkets) /\ later \in Seq(TeaserMarkets)
        BY <1>7, <1>8, <2>2, <2>3
      <3>2. Regrouped(head, part, tail, later)
        BY <3>1, FourJoined
      <3> QED
        BY <3>2 DEF Regrouped
    <2>6. AllListed = ListedBefore(s, p) \o (tail \o later)
      BY <1>10, <1>14, <2>2, <2>3, <2>5
    <2> QED
      BY <2>4, <2>6
  <1> QED
    BY <1>3, <1>5, <1>10, <1>11, <1>13, <1>15, <1>16

TeaserSample ==
  [found : SUBSET Teasers, heard : SUBSET Teasers, matched : BOOLEAN, probability : 10 .. 990,
   realized : {0, 1}]

TeaserTypes ==
  /\ uploaded \in SUBSET Teasers
  /\ IsPlace(seriesAt, pageAt)
  /\ collected \in Seq(TeaserMarkets)
  /\ teaserSamples \in Seq(TeaserSample)
  /\ Len(teaserSamples) <= Len(collected)

(* What is collected is what the pages so far list of the markets that can *)
(* be scored, cut at the maximum; nothing is predicted before that is so.  *)
CollectedIsListed ==
  LET scored == Scorables(ListedBefore(seriesAt, pageAt))
  IN /\ collected = SubSeq(scored, 1, Len(collected))
     /\ Len(collected) <= Len(scored) /\ Len(collected) <= MaxMarkets
     /\ Len(collected) = Len(scored) \/ Len(collected) = MaxMarkets
     /\ Listing => teaserSamples = <<>>

(* A sample says of its market what the search and the outcome said.       *)
SamplesSaySo ==
  \A i \in DOMAIN teaserSamples :
    /\ teaserSamples[i].found \in {{}, Found(collected[i], uploaded)}
    /\ teaserSamples[i].probability
         = Certain(IF teaserSamples[i].matched THEN ConfirmProb ELSE SilentProb)
    /\ teaserSamples[i].realized = IF collected[i].result = "yes" THEN 1 ELSE 0

TeaserIInv == TeaserTypes /\ CollectedIsListed /\ SamplesSaySo

LEMMA CertainFacts ==
  ASSUME NEW p \in Int, 0 <= p, p <= 1000
  PROVE  /\ Certain(p) \in 10 .. 990
         /\ (p < 500 => Certain(p) < 500) /\ (p > 500 => Certain(p) > 500)
  BY DEF Certain

LEMMA ProbFacts ==
  /\ Certain(SilentProb) \in 10 .. 990 /\ (SilentProb < 500 => Certain(SilentProb) < 500)
  /\ Certain(ConfirmProb) \in 10 .. 990 /\ (ConfirmProb > 500 => Certain(ConfirmProb) > 500)
  <1>2. ConfirmProb \in 0 .. 1000 /\ SilentProb \in 0 .. 1000
    BY TeaserAssumption, Zenon
  <1>3. /\ SilentProb \in Int /\ 0 <= SilentProb /\ SilentProb <= 1000
        /\ ConfirmProb \in Int /\ 0 <= ConfirmProb /\ ConfirmProb <= 1000
    BY <1>2
  <1>4. PICK a \in Int, b \in Int : a = SilentProb /\ b = ConfirmProb
    BY <1>3
  <1>5. 0 <= a /\ a <= 1000 /\ 0 <= b /\ b <= 1000
    BY <1>3, <1>4
  <1>6. Certain(a) \in 10 .. 990 /\ (a < 500 => Certain(a) < 500)
    BY <1>5, CertainFacts
  <1>7. Certain(b) \in 10 .. 990 /\ (b > 500 => Certain(b) > 500)
    BY <1>5, CertainFacts
  <1> QED
    BY <1>4, <1>6, <1>7

LEMMA TeaserStarts == TeaserInit => TeaserIInv
  <1> SUFFICES ASSUME TeaserInit PROVE TeaserIInv
    OBVIOUS
  <1>1. /\ uploaded \in SUBSET Teasers /\ seriesAt = 1 /\ pageAt = 1 /\ collected = <<>>
        /\ teaserSamples = <<>>
    BY DEF TeaserInit
  <1>2. IsPlace(1, 1)
    <2>1. PICK N \in Nat : N = Len(SettledPages)
      BY SeriesFacts
    <2>2. 1 \in 1 .. N + 1 /\ 1 \in Nat \ {0}
      OBVIOUS
    <2>3. 1 <= N => 1 <= Len(SettledPages[1])
      <3>1. 1 <= N => 1 \in 1 .. N
        OBVIOUS
      <3>2. 1 <= N => Len(SettledPages[1]) \in Nat \ {0}
        BY <2>1, <3>1, SeriesFacts
      <3> QED
        BY <3>2
    <2> QED
      BY <2>1, <2>2, <2>3 DEF IsPlace
  <1>3. <<>> \in Seq(TeaserMarkets) /\ <<>> \in Seq(TeaserSample) /\ Len(<<>>) = 0
    BY EmptySeq
  <1>4. TeaserTypes
    BY <1>1, <1>2, <1>3 DEF TeaserTypes
  <1>5. CollectedIsListed
    <2>1. Scorables(<<>>) = <<>>
      <3>1. PICK s \in Seq(TeaserMarkets) : s = <<>>
        BY <1>3
      <3>2. Scorables(s) \in Seq(TeaserMarkets) /\ Scorables(s \o s) = Scorables(s) \o Scorables(s)
        BY ScoredOfBoth
      <3>3. s \o s = s
        BY <3>1, <1>3, ConcatEmptySeq
      <3>4. PICK q \in Seq(TeaserMarkets) : q = Scorables(s) /\ q = q \o q
        BY <3>2, <3>3
      <3>5. q = <<>>
        BY <3>4, ConcatEqualIffEmpty
      <3> QED
        BY <3>1, <3>4, <3>5
    <2>2. ListedBefore(seriesAt, pageAt) = <<>>
      BY <1>1, ListingEnds
    <2>3. SubSeq(<<>>, 1, 0) = <<>>
      OBVIOUS
    <2>4. 0 <= MaxMarkets
      BY TeaserAssumption
    <2> QED
      BY <1>1, <1>3, <2>1, <2>2, <2>3, <2>4 DEF CollectedIsListed
  <1>6. SamplesSaySo
    BY <1>1 DEF SamplesSaySo
  <1> QED
    BY <1>4, <1>5, <1>6 DEF TeaserIInv

\* The listing goes to the next page.
LEMMA ListedKeeps ==
  ASSUME TeaserIInv, ListSettledPage
  PROVE  TeaserIInv'
  <1> DEFINE pages == SettledPages[seriesAt]
             all   == collected \o Scorables(pages[pageAt])
             cut   == IF Len(all) < MaxMarkets THEN Len(all) ELSE MaxMarkets
  <1>1. /\ seriesAt <= Len(SettledPages) /\ Len(collected) < MaxMarkets /\ Listing
        /\ collected' = SubSeq(all, 1, cut)
        /\ IF pageAt = Len(pages) THEN seriesAt' = seriesAt + 1 /\ pageAt' = 1
           ELSE pageAt' = pageAt + 1 /\ seriesAt' = seriesAt
        /\ uploaded' = uploaded /\ teaserSamples' = teaserSamples
    BY DEF ListSettledPage, Listing
  <1>2. /\ IsPlace(seriesAt, pageAt) /\ collected \in Seq(TeaserMarkets)
        /\ uploaded \in SUBSET Teasers /\ teaserSamples = <<>>
    BY <1>1 DEF TeaserIInv, TeaserTypes, CollectedIsListed
  <1>3. PICK before \in Seq(TeaserMarkets), page \in Seq(TeaserMarkets) :
          before = ListedBefore(seriesAt, pageAt) /\ page = pages[pageAt]
    BY <1>1, <1>2, ListingGoesOn
  <1>4. IsPlace(seriesAt', pageAt') /\ ListedBefore(seriesAt', pageAt') = before \o page
    <2>1. pageAt < Len(pages) \/ pageAt = Len(pages)
      <3>1. seriesAt \in 1 .. Len(SettledPages)
        BY <1>1, <1>2, SeriesFacts DEF IsPlace
      <3>2. Len(pages) \in Nat /\ pageAt \in Nat /\ pageAt <= Len(pages)
        BY <1>1, <1>2, <3>1, SeriesFacts DEF IsPlace
      <3> HIDE DEF pages
      <3> QED
        BY <3>2
    <2>2. CASE pageAt < Len(pages)
      <3>1. pageAt # Len(pages)
        <4>1. pageAt \in Int
          BY <1>2 DEF IsPlace
        <4> HIDE DEF pages
        <4> QED
          BY <2>2, <4>1
      <3> QED
        BY <1>1, <1>2, <1>3, <2>2, <3>1, ListingGoesOn
    <2>3. CASE pageAt = Len(pages)
      BY <1>1, <1>2, <1>3, <2>3, ListingGoesOn
    <2> QED
      BY <2>1, <2>2, <2>3
  <1>5. PICK p \in Seq(TeaserMarkets), q \in Seq(TeaserMarkets) : p = Scorables(before) /\ q = Scorables(page)
    BY <1>3, ScoredOfBoth
  <1>6. Scorables(before \o page) = p \o q
    BY <1>3, <1>5, ScoredOfBoth
  <1>7. collected = p
    <2>1. /\ collected = SubSeq(p, 1, Len(collected))
          /\ Len(collected) = Len(p) \/ Len(collected) = MaxMarkets
      BY <1>3, <1>5 DEF TeaserIInv, CollectedIsListed
    <2>2. MaxMarkets \in Nat /\ Len(collected) \in Nat
      BY <1>2, TeaserAssumption
    <2> HIDE DEF all, pages, cut
    <2>0. ~(Len(collected) = MaxMarkets)
      <3>1. Len(collected) < MaxMarkets
        BY <1>1
      <3> QED
        BY <2>2, <3>1
    <2>3. Len(collected) = Len(p)
      BY <2>0, <2>1
    <2> QED
      BY <1>5, <2>1, <2>3, SubSeqFull
  <1>8. PICK s \in Seq(TeaserMarkets), n \in Nat, m \in Nat : s = p \o q /\ n = Len(s) /\ m = MaxMarkets
    <2>1. PICK s : s = p \o q
      OBVIOUS
    <2>2. s \in Seq(TeaserMarkets)
      BY <1>5, <2>1, ConcatProperties
    <2>3. Len(s) \in Nat /\ MaxMarkets \in Nat
      BY <2>2, TeaserAssumption
    <2> QED
      BY <2>1, <2>2, <2>3
  <1>9. all = s
    BY <1>3, <1>5, <1>7, <1>8
  <1> HIDE DEF all
  <1>10. PICK k \in Nat : k = cut /\ k <= n /\ k <= m /\ (k = n \/ k = m)
    BY <1>8, <1>9
  <1> HIDE DEF cut
  <1>11. collected' = SubSeq(s, 1, k) /\ collected' \in Seq(TeaserMarkets) /\ Len(collected') = k
    <2>1. /\ SubSeq(s, 1, k) \in Seq(TeaserMarkets)
          /\ Len(SubSeq(s, 1, k)) = k
      BY <1>8, <1>10
    <2> QED
      BY <1>1, <1>9, <1>10, <2>1
  <1>12. TeaserTypes'
    BY <1>1, <1>2, <1>4, <1>11 DEF TeaserIInv, TeaserTypes
  <1>13. CollectedIsListed'
    <2>1. Scorables(ListedBefore(seriesAt', pageAt')) = s
      BY <1>4, <1>6, <1>8
    <2>2. teaserSamples' = <<>>
      BY <1>1, <1>2
    <2> QED
      BY <1>8, <1>10, <1>11, <2>1, <2>2 DEF CollectedIsListed
  <1>14. SamplesSaySo'
    BY <1>1, <1>2 DEF SamplesSaySo
  <1> QED
    BY <1>12, <1>13, <1>14 DEF TeaserIInv

\* A market is predicted.
LEMMA PredictedKeeps ==
  ASSUME TeaserIInv, NEW found \in SUBSET Teasers, NEW heard \in SUBSET found,
         PredictMarket(found, heard)
  PROVE  TeaserIInv'
  <1> DEFINE i == Len(teaserSamples) + 1
             m == collected[i]
             matched == Tells(found, heard, m.event)
             sample == [found |-> found, heard |-> heard, matched |-> matched,
                        probability |-> Certain(IF matched THEN ConfirmProb ELSE SilentProb),
                        realized |-> IF m.result = "yes" THEN 1 ELSE 0]
  <1>1. /\ ~Listing /\ Len(teaserSamples) < Len(collected)
        /\ found \in {{}, Found(m, uploaded)}
        /\ teaserSamples' = Append(teaserSamples, sample)
        /\ uploaded' = uploaded /\ seriesAt' = seriesAt /\ pageAt' = pageAt
        /\ collected' = collected
    BY DEF PredictMarket
  <1>2. /\ sample.found = found
        /\ sample.probability = Certain(IF sample.matched THEN ConfirmProb ELSE SilentProb)
        /\ sample.realized = IF m.result = "yes" THEN 1 ELSE 0
    OBVIOUS
  <1>3. sample \in TeaserSample
    <2>1. matched \in BOOLEAN
      BY DEF Tells
    <2>3. Certain(IF matched THEN ConfirmProb ELSE SilentProb) \in 10 .. 990
      <3>1. Certain(ConfirmProb) \in 10 .. 990 /\ Certain(SilentProb) \in 10 .. 990
        BY ProbFacts
      <3> HIDE DEF matched
      <3> QED
        BY <3>1
    <2>4. heard \in SUBSET Teasers /\ (IF m.result = "yes" THEN 1 ELSE 0) \in {0, 1}
      OBVIOUS
    <2> HIDE DEF matched, m
    <2> QED
      BY <2>1, <2>3, <2>4 DEF TeaserSample
  <1> HIDE DEF sample
  <1>4. /\ teaserSamples \in Seq(TeaserSample) /\ collected \in Seq(TeaserMarkets)
        /\ Len(teaserSamples) \in Nat /\ Len(collected) \in Nat
    BY DEF TeaserIInv, TeaserTypes
  <1>5. /\ teaserSamples' \in Seq(TeaserSample) /\ Len(teaserSamples') = i
        /\ DOMAIN teaserSamples' = 1 .. i /\ teaserSamples'[i] = sample
        /\ DOMAIN teaserSamples = 1 .. Len(teaserSamples)
        /\ \A j \in 1 .. Len(teaserSamples) : teaserSamples'[j] = teaserSamples[j]
    BY <1>1, <1>3, <1>4
  <1>6. TeaserTypes'
    <2>1. i <= Len(collected)
      BY <1>1, <1>4
    <2> QED
      BY <1>1, <1>5, <2>1 DEF TeaserIInv, TeaserTypes
  <1>7. CollectedIsListed'
    <2>1. Listing' = Listing
      BY <1>1 DEF Listing
    <2> QED
      BY <1>1, <2>1 DEF TeaserIInv, CollectedIsListed
  <1>8. SamplesSaySo'
    <2> SUFFICES ASSUME NEW j \in DOMAIN teaserSamples'
                 PROVE  /\ teaserSamples'[j].found \in {{}, Found(collected[j], uploaded)}
                        /\ teaserSamples'[j].probability
                             = Certain(IF teaserSamples'[j].matched THEN ConfirmProb ELSE SilentProb)
                        /\ teaserSamples'[j].realized
                             = IF collected[j].result = "yes" THEN 1 ELSE 0
      BY <1>1 DEF SamplesSaySo
    <2>1. j = i \/ j \in 1 .. Len(teaserSamples)
      BY <1>4, <1>5
    <2>2. CASE j = i
      BY <1>1, <1>2, <1>5, <2>2
    <2>3. CASE j \in 1 .. Len(teaserSamples)
      <3>1. teaserSamples'[j] = teaserSamples[j] /\ j \in DOMAIN teaserSamples
        BY <1>5, <2>3
      <3> QED
        BY <3>1, Zenon DEF TeaserIInv, SamplesSaySo
    <2> QED
      BY <2>1, <2>2, <2>3
  <1> QED
    BY <1>6, <1>7, <1>8 DEF TeaserIInv

LEMMA TeaserStep == TeaserIInv /\ [TeaserNext]_teaserVars => TeaserIInv'
  <1> SUFFICES ASSUME TeaserIInv, [TeaserNext]_teaserVars PROVE TeaserIInv'
    OBVIOUS
  <1>1. CASE ListSettledPage
    BY <1>1, ListedKeeps
  <1>2. ASSUME NEW found \in SUBSET Teasers, NEW heard \in SUBSET found, PredictMarket(found, heard)
        PROVE  TeaserIInv'
    BY <1>2, PredictedKeeps
  <1>3. CASE UNCHANGED teaserVars
    BY <1>3 DEF teaserVars, TeaserIInv, TeaserTypes, CollectedIsListed, SamplesSaySo, Listing
  <1> QED
    BY <1>1, <1>2, <1>3 DEF TeaserNext

\* The teasers of a dated market are of its day.
LEMMA TeasersWereOfTheDay == TeaserIInv => TeasersAreOfTheDay
  <1> SUFFICES ASSUME TeaserIInv, NEW i \in DOMAIN teaserSamples,
                      Dated(collected[i]), teaserSamples[i].found # {}
               PROVE  LET m == collected[i]
                          before(t) == m.closes = NoDate \/ t.at <= m.closes
                          ofTheDay(videos) ==
                            {t \in videos : t.at \in DayStart(m) .. DayStart(m) + 24 /\ before(t)}
                      IN /\ teaserSamples[i].found \subseteq ofTheDay(uploaded)
                         /\ \A other \in SUBSET Teasers : ofTheDay(other) = ofTheDay(uploaded) =>
                              Found(m, other) = teaserSamples[i].found
    BY DEF TeasersAreOfTheDay
  <1>1. PICK m \in TeaserMarkets : m = collected[i]
    <2>1. i \in DOMAIN collected
      BY DEF TeaserIInv, TeaserTypes
    <2> QED
      BY <2>1 DEF TeaserIInv, TeaserTypes
  <1>2. teaserSamples[i].found = Found(m, uploaded) /\ uploaded \in SUBSET Teasers
    BY <1>1 DEF TeaserIInv, SamplesSaySo, TeaserTypes
  <1>3. Dated(m)
    BY <1>1
  <1>4. m.day \in Nat \cup {NoDate} /\ m.closes \in Nat \cup {NoDate} /\ NoDate \notin Nat
    BY TeaserAssumption
  <1>5. DayStart(m) \in Int
    <2>1. m.day # NoDate => m.day * 24 \in Int
      BY <1>4
    <2>2. m.closes # NoDate => (m.closes \div 24) * 24 \in Int
      <3> SUFFICES ASSUME m.closes # NoDate PROVE (m.closes \div 24) * 24 \in Int
        OBVIOUS
      <3>1. m.closes \div 24 \in Int
        BY <1>4
      <3> QED
        BY <3>1
    <2> QED
      BY <1>3, <2>1, <2>2 DEF DayStart, Dated
  <1> DEFINE before(t) == m.closes = NoDate \/ t.at <= m.closes
             ofTheDay(videos) ==
               {t \in videos : t.at \in DayStart(m) .. DayStart(m) + 24 /\ before(t)}
             inWindow(videos) == {t \in videos : Dated(m) => InDay(m, t)}
  <1>6. ASSUME NEW videos \in SUBSET Teasers PROVE inWindow(videos) = ofTheDay(videos)
    <2>1. \A t \in videos : t.at \in Int
      BY TeaserAssumption
    <2>2. \A t \in videos : InDay(m, t) <=> t.at \in DayStart(m) .. DayStart(m) + 24 /\ before(t)
      BY <1>5, <2>1 DEF InDay
    <2> QED
      BY <1>3, <2>2
  <1> HIDE DEF ofTheDay
  <1>7. ASSUME NEW videos, NEW others, inWindow(videos) = inWindow(others)
        PROVE  Found(m, videos) = Found(m, others)
    <2>1. \A v : Found(m, v)
                   = {t \in inWindow(v) : Cardinality({u \in inWindow(v) : u.at > t.at}) < SearchResults}
      BY DEF Found
    <2> HIDE DEF inWindow
    <2> QED
      BY <1>7, <2>1
  <1>8. Found(m, uploaded) \subseteq inWindow(uploaded)
    BY DEF Found
  <1> HIDE DEF inWindow
  <1>9. teaserSamples[i].found \subseteq ofTheDay(uploaded)
    BY <1>2, <1>6, <1>8
  <1>10. ASSUME NEW other \in SUBSET Teasers, ofTheDay(other) = ofTheDay(uploaded)
         PROVE  Found(m, other) = teaserSamples[i].found
    BY <1>2, <1>6, <1>7, <1>10
  <1> QED
    BY <1>1, <1>9, <1>10 DEF ofTheDay

\* The bins of a probability.
LEMMA OneCalibrationBin ==
  ASSUME NEW x \in 10 .. 990
  PROVE  Cardinality(BinsWith(CalibrationBins, x)) = 1
  <1>1. ASSUME NEW k PROVE Cardinality({k}) = 1
    BY FS_Singleton
  <1>2. x < 200 \/ (200 <= x /\ x < 400) \/ (400 <= x /\ x < 600) \/ (600 <= x /\ x < 800) \/ 800 <= x
    OBVIOUS
  <1>3. CASE x < 200
    <2>1. BinsWith(CalibrationBins, x) = {1}
      BY <1>3 DEF BinsWith, CalibrationBins
    <2> QED
      BY <1>1, <2>1
  <1>4. CASE 200 <= x /\ x < 400
    <2>1. BinsWith(CalibrationBins, x) = {2}
      BY <1>4 DEF BinsWith, CalibrationBins
    <2> QED
      BY <1>1, <2>1
  <1>5. CASE 400 <= x /\ x < 600
    <2>1. BinsWith(CalibrationBins, x) = {3}
      BY <1>5 DEF BinsWith, CalibrationBins
    <2> QED
      BY <1>1, <2>1
  <1>6. CASE 600 <= x /\ x < 800
    <2>1. BinsWith(CalibrationBins, x) = {4}
      BY <1>6 DEF BinsWith, CalibrationBins
    <2> QED
      BY <1>1, <2>1
  <1>7. CASE 800 <= x
    <2>1. BinsWith(CalibrationBins, x) = {5}
      BY <1>7 DEF BinsWith, CalibrationBins
    <2> QED
      BY <1>1, <2>1
  <1> QED
    BY <1>2, <1>3, <1>4, <1>5, <1>6, <1>7

\* What is collected begins what is listed, and ends with it.
LEMMA CollectedBegins ==
  ASSUME TeaserIInv
  PROVE  /\ Len(collected) <= Len(Scorables(AllListed))
         /\ collected = SubSeq(Scorables(AllListed), 1, Len(collected))
         /\ ~Listing => Len(collected) = MaxMarkets \/ collected = Scorables(AllListed)
  <1>1. PICK N \in Nat : N = Len(SettledPages)
    BY SeriesFacts
  <1>2. /\ IsPlace(seriesAt, pageAt) /\ collected \in Seq(TeaserMarkets)
        /\ seriesAt \in Int /\ seriesAt <= N + 1
    BY <1>1 DEF TeaserIInv, TeaserTypes, IsPlace
  <1>3. PICK before \in Seq(TeaserMarkets), rest \in Seq(TeaserMarkets) :
          /\ before = ListedBefore(seriesAt, pageAt) /\ AllListed = before \o rest
          /\ seriesAt > N => before = AllListed
    <2>1. CASE seriesAt <= N
      <3>1. ~(seriesAt > N)
        BY <1>2, <2>1
      <3> QED
        BY <1>1, <1>2, <2>1, <3>1, ListingGoesOn
    <2>2. CASE ~(seriesAt <= N)
      <3>1. seriesAt = N + 1
        BY <1>2, <2>2
      <3>2. ListedBefore(seriesAt, pageAt) = AllListed
        BY <1>1, <3>1, ListingEnds
      <3>3. AllListed \in Seq(TeaserMarkets)
        <4>1. N \in 0 .. Len(AllSeries)
          BY <1>1, SeriesFacts
        <4>2. JoinedTo(AllSeries, N) \in Seq(TeaserMarkets)
          BY <4>1, SeriesFacts, JoinFacts
        <4> QED
          BY <1>1, <4>2 DEF AllListed, AllSeries
      <3>4. AllListed \o <<>> = AllListed /\ <<>> \in Seq(TeaserMarkets)
        BY <3>3, ConcatEmptySeq, EmptySeq
      <3> QED
        BY <3>2, <3>3, <3>4
    <2> QED
      BY <2>1, <2>2
  <1>4. PICK p \in Seq(TeaserMarkets), q \in Seq(TeaserMarkets) : p = Scorables(before) /\ q = Scorables(rest)
    BY <1>3, ScoredOfBoth
  <1>5. Scorables(AllListed) = p \o q
    BY <1>3, <1>4, ScoredOfBoth
  <1>6. PICK k \in Nat : k = Len(collected)
    BY <1>2
  <1>7. /\ collected = SubSeq(p, 1, k) /\ k <= Len(p) /\ k <= MaxMarkets
        /\ k = Len(p) \/ k = MaxMarkets
    BY <1>3, <1>4, <1>6 DEF TeaserIInv, CollectedIsListed
  <1>8. SubSeq(p \o q, 1, k) = SubSeq(p, 1, k) /\ k <= Len(p \o q)
    <2>1. Len(p \o q) = Len(p) + Len(q) /\ Len(p) \in Nat /\ Len(q) \in Nat
      BY <1>4
    <2>2. SubSeq(p \o q, 1, k) = SubSeq(p, 1, k)
      BY <1>4, <1>6, <1>7
    <2> QED
      BY <1>7, <2>1, <2>2
  <1>9. ASSUME ~Listing, k # MaxMarkets PROVE collected = Scorables(AllListed)
    <2>1. seriesAt > N
      <3>1. MaxMarkets \in Int
        BY TeaserAssumption
      <3>2. k < MaxMarkets
        BY <1>7, <1>9, <3>1
      <3> QED
        BY <1>1, <1>2, <1>6, <1>9, <3>2 DEF Listing
    <2>2. k = Len(p)
      BY <1>7, <1>9
    <2>3. collected = p
      BY <1>4, <1>7, <2>2, SubSeqFull
    <2> QED
      BY <1>3, <1>4, <2>1, <2>3
  <1> QED
    BY <1>5, <1>6, <1>7, <1>8, <1>9

LEMMA SamplesWereScored == TeaserIInv => SamplesAreScored
  <1> SUFFICES ASSUME TeaserIInv PROVE SamplesAreScored
    OBVIOUS
  <1>1. ASSUME NEW i \in DOMAIN teaserSamples
        PROVE  /\ teaserSamples[i].probability \in 10 .. 990
               /\ teaserSamples[i].matched \in BOOLEAN
               /\ teaserSamples[i].probability
                    = Certain(IF teaserSamples[i].matched THEN ConfirmProb ELSE SilentProb)
               /\ teaserSamples[i].realized = IF collected[i].result = "yes" THEN 1 ELSE 0
    <2>1. teaserSamples[i] \in TeaserSample
      BY DEF TeaserIInv, TeaserTypes
    <2>2. \A s \in TeaserSample : s.probability \in 10 .. 990 /\ s.matched \in BOOLEAN
      BY DEF TeaserSample
    <2> QED
      BY <2>1, <2>2 DEF TeaserIInv, SamplesSaySo
  <1>2. ASSUME NEW i \in DOMAIN teaserSamples
        PROVE  Cardinality({b \in DOMAIN CalibrationBins : i \in Calibrated(CalibrationBins[b])}) = 1
    <2> DEFINE x == teaserSamples[i].probability
               with == {b \in DOMAIN CalibrationBins : i \in Calibrated(CalibrationBins[b])}
    <2>1. x \in 10 .. 990
      BY <1>1
    <2>2. with = BinsWith(CalibrationBins, x)
      BY <1>2 DEF Calibrated, BinsWith
    <2> HIDE DEF x, with
    <2>3. Cardinality(with) = 1
      BY <2>1, <2>2, OneCalibrationBin
    <2> QED
      BY <2>3 DEF with
  <1>3. ASSUME NEW i \in DOMAIN teaserSamples, SilentProb < 500, ConfirmProb > 500
        PROVE  i \in Hits <=> (teaserSamples[i].matched <=> collected[i].result = "yes")
    <2>1. /\ Certain(SilentProb) \in Int /\ Certain(SilentProb) < 500
          /\ Certain(ConfirmProb) \in Int /\ Certain(ConfirmProb) > 500
      BY <1>3, ProbFacts
    <2>2. teaserSamples[i].probability \in 10 .. 990
      BY <1>1
    <2>3. PICK x \in Int : x = teaserSamples[i].probability
      BY <2>2
    <2>4. x # 500 /\ (x > 500 <=> teaserSamples[i].matched)
      <3>1. CASE teaserSamples[i].matched
        <4>1. x = Certain(ConfirmProb)
          BY <1>1, <2>3, <3>1
        <4> QED
          BY <2>1, <3>1, <4>1
      <3>2. CASE ~teaserSamples[i].matched
        <4>1. x = Certain(SilentProb)
          BY <1>1, <2>3, <3>2
        <4> QED
          BY <2>1, <3>2, <4>1
      <3> QED
        BY <3>1, <3>2
    <2>5. teaserSamples[i].realized = 1 <=> collected[i].result = "yes"
      BY <1>1
    <2>6. i \in Hits <=> (x > 500 <=> teaserSamples[i].realized = 1)
      BY <2>3, <2>4 DEF Hits, Decisive
    <2> QED
      BY <2>4, <2>5, <2>6
  <1> QED
    BY <1>2, <1>3, CollectedBegins DEF SamplesAreScored

(* The teaser backtest: a dated market is predicted from teasers of its    *)
(* day alone, and what is scored are the first settled markets of the      *)
(* listing, each in one bin, whatever the pages and the teasers.           *)
THEOREM TeasersAreOfTheirDay == TeaserSpec => []TeaserStudyIsSound
  <1>1. TeaserIInv => TeaserStudyIsSound
    BY TeasersWereOfTheDay, SamplesWereScored DEF TeaserStudyIsSound
  <1> QED
    BY TeaserStarts, TeaserStep, <1>1, PTL DEF TeaserSpec
=============================================================================
