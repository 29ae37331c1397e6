----------------------------- MODULE SignalScoring -----------------------------
(***************************************************************************)
(* scripts/score_signals.py: from the estimates of the signal agents for   *)
(* one market to a side, an edge and a verdict.  The functions are pure;   *)
(* they are evaluated on estimates that arrive one at a time.              *)
(*                                                                         *)
(* Probabilities are in percent and prices in cents.  A combined           *)
(* probability is the quotient of two whole numbers and nothing is         *)
(* rounded.  The discount for age is part of a weight: the slices of one   *)
(* family come from one call and are of one age.                           *)
(***************************************************************************)
EXTENDS Integers, Sequences, FiniteSets, Reductions

CONSTANTS
  Sources,          \* names of estimates' sources
  FamilyOf,         \* [Sources -> families]: _source_family
  SigEstimates,     \* estimates that occur
  SigQuotes,        \* [bid, ask] of the market; a bid may be NoBid
  NoBid,
  MinEdge, MaxEntry, AgreementSpread,   \* settings, in cents and percent
  Scale,            \* divisible by n * n for every family size n
  MaxEstimates      \* bound

ASSUME ScoringAssumption ==
  /\ MaxEstimates \in Nat \ {0} /\ Scale \in Nat \ {0}
  /\ \A n \in 1 .. MaxEstimates : \E k \in 1 .. Scale : Scale = k * (n * n)
  /\ {MinEdge, MaxEntry, AgreementSpread} \subseteq Nat
  /\ SigEstimates \subseteq [source : Sources, prob : 1 .. 99, weight : 1 .. 100,
                              informative : BOOLEAN, independent : BOOLEAN]
  /\ \A q \in SigQuotes : q.ask \in 0 .. 100 /\ (q.bid = NoBid \/ q.bid \in 0 .. q.ask)

VARIABLES estimates, quote
scoringVars == <<estimates, quote>>

ScoringTypeOK ==
  estimates \in Seq(SigEstimates) /\ Len(estimates) <= MaxEstimates /\ quote \in SigQuotes

---------------------------------------------------------------------------

\* usable_estimates: those with data behind them, by their index.
Usable == {i \in DOMAIN estimates : estimates[i].informative}
FamilyAt(i) == FamilyOf[estimates[i].source]
UsableFamilies == {FamilyAt(i) : i \in Usable}
Slices(f) == {i \in Usable : FamilyAt(i) = f}

\* Slices as one source: the mean weight and the mean probability, and
\* independent if they all are.
SourceOf(slices) ==
  LET n == Cardinality(slices)
      weights == SumOver(slices, [i \in slices |-> estimates[i].weight])
      probs   == SumOver(slices, [i \in slices |-> estimates[i].prob])
  IN  [n |-> n, total |-> probs,
       weight |-> weights * (Scale \div n),
       weighted |-> weights * probs * (Scale \div (n * n)),
       independent |-> \A i \in slices : estimates[i].independent]

\* Mutant: every slice is a source of its own.
BugCollapse == [i \in Usable |-> SourceOf({i})]

\* collapse_source_families: one source per family.
Collapse == [f \in UsableFamilies |-> SourceOf(Slices(f))]

\* combine_signals: the combined probability of the sources c is
\* Num(c) / Den(c) percent.
Num(c) == SumOver(DOMAIN c, [i \in DOMAIN c |-> c[i].weighted])
Den(c) == SumOver(DOMAIN c, [i \in DOMAIN c |-> c[i].weight])

\* The spread of the sources' probabilities is within s percent.
Agree(c, s) ==
  \A i, j \in DOMAIN c : c[i].total * c[j].n - c[j].total * c[i].n <= s * c[i].n * c[j].n

\* The independence-gated agreement boost.
Boosted(c) ==
  Cardinality(DOMAIN c) >= 2 /\ Agree(c, AgreementSpread) /\ \A i \in DOMAIN c : c[i].independent

---------------------------------------------------------------------------
(* compute_edge_and_kelly, and what score_market makes of no source.       *)

YesLooksCheap(c) == Num(c) >= quote.ask * Den(c)

\* Mutant: NO is priced from the ask although there is a bid.
BugEntryPrice(side) == IF side = "yes" THEN quote.ask ELSE 100 - quote.ask

EntryPrice(side) ==
  IF side = "yes" THEN quote.ask
  ELSE IF quote.bid = NoBid THEN 100 - quote.ask ELSE 100 - quote.bid

\* The fee-adjusted edge of a side at a price, in ten-thousandths of a cent
\* and times Den.
FeeEdge(c, side, price) ==
  LET prob == IF side = "yes" THEN Num(c) ELSE 100 * Den(c) - Num(c)
  IN  (prob - price * Den(c)) * 10000 - 7 * price * (100 - price) * Den(c)

Clears(c, side, price) ==
  FeeEdge(c, side, price) > MinEdge * 10000 * Den(c) /\ price <= MaxEntry

SideTaken(c) == IF YesLooksCheap(c) THEN "yes" ELSE "no"
WorthTrading(c) == DOMAIN c # {} /\ Clears(c, SideTaken(c), EntryPrice(SideTaken(c)))

\* kelly_fraction > 0: the stake of a price that is neither 0 nor 100.
Staked(c) ==
  LET price == EntryPrice(SideTaken(c)) IN
  /\ DOMAIN c # {} /\ price \in 1 .. 99
  /\ (IF SideTaken(c) = "yes" THEN Num(c) ELSE 100 * Den(c) - Num(c)) > price * Den(c)

---------------------------------------------------------------------------

ScoringInit == estimates = <<>> /\ quote \in SigQuotes

EstimateArrives(e) ==
  /\ Len(estimates) < MaxEstimates
  /\ estimates' = Append(estimates, e)
  /\ UNCHANGED quote

ScoringNext == \E e \in SigEstimates : EstimateArrives(e)

ScoringSpec == ScoringInit /\ [][ScoringNext]_scoringVars

---------------------------------------------------------------------------

\* What buying a side costs at the exchange.
TakerPrice(side) == IF side = "yes" THEN quote.ask ELSE 100 - quote.bid

(* With a bid in the input: the side is chosen by a look at the ask alone, *)
(* and still nothing is lost by it.  A market is worth trading exactly     *)
(* when one of the two sides clears the bar at its taker price, and the    *)
(* side taken is one that does.                                            *)
SideTakenIsBest(c) ==
  quote.bid # NoBid /\ DOMAIN c # {} =>
    /\ WorthTrading(c) <=> \E side \in {"yes", "no"} : Clears(c, side, TakerPrice(side))
    /\ WorthTrading(c) => Clears(c, SideTaken(c), TakerPrice(SideTaken(c)))

(* However many slices a family sends it counts once, the combined         *)
(* probability stays between the lowest and the highest that came in, and  *)
(* the boost needs two families.                                           *)
SlicesCountOnce(c) ==
  /\ Cardinality(DOMAIN c) = Cardinality(UsableFamilies)
  /\ Boosted(c) => Cardinality(UsableFamilies) >= 2
  /\ DOMAIN c # {} =>
       /\ \E i \in Usable : Num(c) >= estimates[i].prob * Den(c)
       /\ \E i \in Usable : Num(c) <= estimates[i].prob * Den(c)

(* A verdict to trade has a stake: only a market that is offered at        *)
(* nothing is worth trading without one.                                   *)
VerdictHasStake(c) == WorthTrading(c) => Staked(c) \/ EntryPrice(SideTaken(c)) = 0

(* The three together: the verdict on a market rests on independent        *)
(* sources, is taken at the price of the side it buys, and can be staked.  *)
ScoringIsSound ==
  SideTakenIsBest(Collapse) /\ SlicesCountOnce(Collapse) /\ VerdictHasStake(Collapse)
=============================================================================
