----------------------------- MODULE PnlAnalytics -----------------------------
(***************************************************************************)
(* The pure functions behind the dashboard's P&L tab:                      *)
(* kalshi_trader/ui/pnl_analytics.py and the reconstruction of closed      *)
(* positions from fills in kalshi_trader/ui/server.py.  They are evaluated *)
(* on histories that grow by one fill or one trade row at a time, and      *)
(* compared with what an account or a chart means by the same words.       *)
(*                                                                         *)
(* Money is in whole cents and exact: the functions' rounding to cents for *)
(* the response is left out.  A trade row is its status, its realized and  *)
(* unrealized P&L, its market type, its whole days to settlement           *)
(* (NoDays when a timestamp is missing) and when it was closed.            *)
(***************************************************************************)
EXTENDS Integers, Sequences, FiniteSets, Reductions

CONSTANTS
  FillPrices,   \* YES prices, in cents
  PnlRows,      \* trade rows that may occur
  MaxFills, MaxRows,   \* bounds on the two histories
  NoDays

ASSUME PnlAssumption ==
  /\ FillPrices \subseteq 0 .. 100
  /\ \A r \in PnlRows : {r.realized, r.unrealized, r.closedAt} \subseteq Int

VARIABLES
  fills,        \* the fills of one ticker, all on one side
  noSide,       \* BOOLEAN: that side is NO
  tradeRows

pnlVars == <<fills, noSide, tradeRows>>

Actions == {"buy", "sell"}

PnlTypeOK ==
  /\ fills \in Seq([action : Actions, yesPrice : FillPrices])
  /\ noSide \in BOOLEAN
  /\ tradeRows \in Seq(PnlRows)

---------------------------------------------------------------------------
(* server.py: a fill is one contract.  Fills and rows are selected by      *)
(* their index.                                                            *)

Only(a)  == {i \in DOMAIN fills : fills[i].action = a}
Price(i) == IF noSide THEN 100 - fills[i].yesPrice ELSE fills[i].yesPrice

\* Mutant: the YES price, whatever the side, of what was sold.
BugWeightedSum(a) ==
  SumOver(Only(a), [i \in Only(a) |-> IF a = "sell" THEN fills[i].yesPrice ELSE Price(i)])

\* The numerator of _avco_price; the denominator is the number of contracts.
WeightedSum(a) == SumOver(Only(a), [i \in Only(a) |-> Price(i)])

Contracts(a) == Cardinality(Only(a))

\* compute_closed_positions: bought, and at least as much sold.
ClosedByFills == Contracts("buy") > 0 /\ Contracts("sell") >= Contracts("buy")

\* (exit - entry) * total_bought, times the number sold: AVCO prices are
\* quotients.
GrossTimesSold == WeightedSum("sell") * Contracts("buy") - WeightedSum("buy") * Contracts("sell")

---------------------------------------------------------------------------
(* pnl_analytics.py                                                        *)

Realized(rows)   == SumOver(rows, [i \in rows |-> tradeRows[i].realized])
Unrealized(rows) == SumOver(rows, [i \in rows |-> tradeRows[i].unrealized])

ClosedRows == {i \in DOMAIN tradeRows : tradeRows[i].status = "closed"}

\* The sort by closed_at is stable.
Sooner(i, j) ==
  \/ tradeRows[i].closedAt < tradeRows[j].closedAt
  \/ tradeRows[i].closedAt = tradeRows[j].closedAt /\ i < j
Place(i) == 1 + Cardinality({j \in ClosedRows : Sooner(j, i)})
ByTime   == [n \in 1 .. Cardinality(ClosedRows) |-> CHOOSE i \in ClosedRows : Place(i) = n]

\* One step of compute_pnl_over_time: [cumulative, peak, drawdown].
Step(p, realized) ==
  LET cumulative == p.cumulative + realized
      peak       == IF cumulative > p.peak THEN cumulative ELSE p.peak
  IN  [cumulative |-> cumulative, peak |-> peak, drawdown |-> cumulative - peak]

Curve ==
  LET c[n \in 0 .. Cardinality(ClosedRows)] ==
        IF n = 0 THEN [cumulative |-> 0, peak |-> 0, drawdown |-> 0]
        ELSE Step(c[n - 1], tradeRows[ByTime[n]].realized)
  IN c

\* Mutant: the running peak starts at the first point of the curve.
BugMaxDrawdown ==
  LET points   == DOMAIN ByTime
      worst(n) == Curve[n].cumulative - Curve[1].cumulative
  IN  IF points = {} THEN 0
      ELSE CHOOSE d \in {worst(n) : n \in points} : \A n \in points : d <= worst(n)

MaxDrawdown ==
  LET points == DOMAIN ByTime IN
  IF points = {} THEN 0
  ELSE CHOOSE d \in {Curve[n].drawdown : n \in points} : \A n \in points : d <= Curve[n].drawdown

\* compute_summary_metrics; a row at zero is neither won nor lost.
Summary ==
  [closed |-> Cardinality(ClosedRows),
   open |-> Len(tradeRows) - Cardinality(ClosedRows),
   total |-> Realized(DOMAIN tradeRows) + Unrealized(DOMAIN tradeRows),
   won |-> Cardinality({i \in ClosedRows : tradeRows[i].realized > 0}),
   lost |-> Cardinality({i \in ClosedRows : tradeRows[i].realized < 0}),
   drawdown |-> MaxDrawdown]

\* bucket_days_to_settlement: no bucket reaches below zero.
Bucket(d) ==
  CASE d = NoDays \/ d < 0 -> "unknown"
    [] d = 0               -> "<1d"
    [] d \in 1 .. 2        -> "1-3d"
    [] d \in 3 .. 6        -> "3-7d"
    [] d \in 7 .. 13       -> "1-2wk"
    [] OTHER               -> "2wk+"

Buckets == {"<1d", "1-3d", "3-7d", "1-2wk", "2wk+", "unknown"}

\* _summarize_group, per group of group_by_market_type ...
MarketTypes == {tradeRows[i].type : i \in DOMAIN tradeRows}
TypeTotal(type) ==
  LET group == {i \in DOMAIN tradeRows : tradeRows[i].type = type}
  IN  Realized(group) + Unrealized(group)

\* Mutant: the rows without a date are left out of the buckets.
BugBucketTotal(label) ==
  LET group == {i \in DOMAIN tradeRows :
                  tradeRows[i].days # NoDays /\ Bucket(tradeRows[i].days) = label}
  IN  Realized(group) + Unrealized(group)

\* ... and of group_by_days_to_settlement.
BucketTotal(label) ==
  LET group == {i \in DOMAIN tradeRows : Bucket(tradeRows[i].days) = label}
  IN  Realized(group) + Unrealized(group)

---------------------------------------------------------------------------

PnlInit == fills = <<>> /\ noSide = FALSE /\ tradeRows = <<>>

ChooseSide ==
  /\ fills = <<>> /\ tradeRows = <<>>
  /\ noSide' = ~noSide
  /\ UNCHANGED <<fills, tradeRows>>

AddFill(f) ==
  /\ tradeRows = <<>>
  /\ Len(fills) < MaxFills
  /\ fills' = Append(fills, f)
  /\ UNCHANGED <<noSide, tradeRows>>

AddRow(r) ==
  /\ fills = <<>>
  /\ Len(tradeRows) < MaxRows
  /\ tradeRows' = Append(tradeRows, r)
  /\ UNCHANGED <<fills, noSide>>

PnlNext ==
  \/ ChooseSide
  \/ \E a \in Actions, p \in FillPrices : AddFill([action |-> a, yesPrice |-> p])
  \/ \E r \in PnlRows : AddRow(r)

PnlSpec == PnlInit /\ [][PnlNext]_pnlVars

---------------------------------------------------------------------------

\* What the fills moved: received for what was sold, paid for what was bought.
CashFlow == SumOver(DOMAIN fills, [i \in DOMAIN fills |->
              IF fills[i].action = "sell" THEN Price(i) ELSE - Price(i)])

(* When as much has been sold as bought, on either side, the P&L that      *)
(* compute_closed_positions makes of average prices is the cash the fills  *)
(* moved.                                                                  *)
RealizedIsCashFlow ==
  ClosedByFills /\ Contracts("sell") = Contracts("buy") =>
    GrossTimesSold = CashFlow * Contracts("sell")

\* Realized P&L of the first n trades closed.
Level(n) == Realized({i \in ClosedRows : Place(i) <= n})

(* The drawdown reported is the worst decline from any earlier level of    *)
(* the account (its start included) to a later one, whatever the order in  *)
(* which the rows arrive; and the open rows do not enter it.               *)
DrawdownIsWorstDecline ==
  LET levels == 0 .. Cardinality(ClosedRows) IN
  /\ \E m, n \in levels : m <= n /\ MaxDrawdown = Level(n) - Level(m)
  /\ \A m, n \in levels : m <= n => MaxDrawdown <= Level(n) - Level(m)

(* Neither breakdown loses a trade: by market type and by days to          *)
(* settlement the groups add up to the total of the summary.               *)
BreakdownsAddUp ==
  /\ SumOver(MarketTypes, [x \in MarketTypes |-> TypeTotal(x)]) = Summary.total
  /\ SumOver(Buckets, [x \in Buckets |-> BucketTotal(x)]) = Summary.total

(* The three together: what the P&L tab says of realized P&L, drawdown and *)
(* breakdown is what an account means by these words.                      *)
AnalyticsAreRight ==
  /\ fills # <<>> => RealizedIsCashFlow
  /\ tradeRows # <<>> => DrawdownIsWorstDecline /\ BreakdownsAddUp
=============================================================================
