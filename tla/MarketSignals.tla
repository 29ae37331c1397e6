----------------------------- MODULE MarketSignals -----------------------------
(***************************************************************************)
(* What the system reads out of a market's own data: how actionable the    *)
(* market is (kalshi_trader/actionability/signals.py and scorer.py), and   *)
(* which way it leans (signals/microstructure.py, agents/                  *)
(* kalshi_bias_agent.py, agents/market_maker_agent.py).  Both halves       *)
(* compute the same quantities with code of their own.  The functions are  *)
(* pure; they are evaluated on data that arrives bit by bit.               *)
(*                                                                         *)
(* Prices are in cents, scores and probabilities in thousandths, cut off   *)
(* towards zero.  A score that cannot be had is Absent.  Candles are the   *)
(* hourly ones, oldest first; a daily history is its volumes.              *)
(***************************************************************************)
EXTENDS Integers, Sequences, FiniteSets, Reductions

CONSTANTS
  SnapMarkets,   \* [bid, ask, volume, oi, hours]: rows of the snapshot
  DailyVolumes,  \* sequences of volumes
  HourCandles,   \* [volume, oi, close]; a close may be Absent
  Takers,        \* [side, count]: public trades
  LiveBooks,     \* [yes, no]: sequences of <<price, size>>
  Absent, NoneLive,
  MaxCandles, MaxTakers   \* bounds

\* Absent and NoneLive stand for None.  Of one market's orders the exchange
\* keeps none that could trade with another: a best YES bid and a best NO bid
\* do not add up to a dollar.
ASSUME MarketAssumption ==
  /\ Absent \notin Int
  /\ NoneLive \notin LiveBooks
  /\ SnapMarkets \subseteq [bid : 0 .. 100, ask : 0 .. 100, volume : Nat, oi : Nat, hours : Nat]
  /\ DailyVolumes \subseteq Seq(Nat)
  /\ HourCandles \subseteq [volume : Nat, oi : Nat, close : 0 .. 100 \cup {Absent}]
  /\ Takers \subseteq [side : {"yes", "no"}, count : Nat]
  /\ LiveBooks \subseteq [yes : Seq((1 .. 99) \X Nat), no : Seq((1 .. 99) \X Nat)]
  /\ \A book \in LiveBooks : \A i \in DOMAIN book.yes, j \in DOMAIN book.no :
       book.yes[i][1] + book.no[j][1] < 100
  /\ MaxCandles \in Nat /\ MaxTakers \in Nat

VARIABLES
  snap,    \* the market as it is known
  daily, hourly,
  takers,
  depth    \* NoneLive, or the book enrich_with_live was given

marketVars == <<snap, daily, hourly, takers, depth>>

MarketTypeOK ==
  /\ snap \in [bid : 0 .. 100, ask : 0 .. 100, volume : Nat, oi : Nat, hours : Nat]
  /\ daily \in DailyVolumes
  /\ hourly \in Seq(HourCandles) /\ Len(hourly) <= MaxCandles
  /\ takers \in Seq(Takers) /\ Len(takers) <= MaxTakers
  /\ depth \in LiveBooks \cup {NoneLive}

---------------------------------------------------------------------------
(* Arithmetic.                                                             *)

LesserOf(a, b)  == IF a < b THEN a ELSE b
GreaterOf(a, b) == IF a > b THEN a ELSE b
Magnitude(a)    == GreaterOf(a, -a)
Within(lo, a, hi) == GreaterOf(lo, LesserOf(hi, a))
Ratio(a, b) == IF a >= 0 THEN a \div b ELSE -((-a) \div b)
LowestOf(s)  == s[CHOOSE i \in DOMAIN s : \A j \in DOMAIN s : s[i] <= s[j]]
HighestOf(s) == s[CHOOSE i \in DOMAIN s : \A j \in DOMAIN s : s[i] >= s[j]]

---------------------------------------------------------------------------
(* actionability/signals.py.                                               *)

Mid == (snap.bid + snap.ask) \div 2

VolumeOiRatio ==
  IF snap.oi = 0 THEN 0 ELSE LesserOf(1000, (snap.volume * 2000) \div snap.oi)

\* Mutant: a book with one side is a tight one.
BugSpreadPenalty(bid, ask) ==
  LET spread == GreaterOf(0, ask - bid) IN
  CASE spread <= 2 -> 1000 [] spread \in 3 .. 5 -> 950 [] spread \in 6 .. 10 -> 850
    [] spread \in 11 .. 20 -> 700 [] spread > 20 -> 550

SpreadPenalty(bid, ask) ==
  LET spread == GreaterOf(0, ask - bid) IN
  CASE bid = 0 \/ ask = 0 -> 500
    [] bid # 0 /\ ask # 0 ->
         CASE spread <= 2 -> 1000 [] spread \in 3 .. 5 -> 950 [] spread \in 6 .. 10 -> 850
           [] spread \in 11 .. 20 -> 700 [] spread > 20 -> 550

Proximity(hours) ==
  CASE hours <= 24 -> 1000 [] hours \in 25 .. 72 -> 900 [] hours \in 73 .. 168 -> 780
    [] hours \in 169 .. 720 -> 600 [] hours \in 721 .. 2160 -> 420 [] hours > 2160 -> 280

RelativeVolume ==
  LET active == {i \in DOMAIN daily : daily[i] > 0}
      days   == Cardinality(active)
      total  == SumOver(active, [i \in active |-> daily[i]])
  IN IF days < 3 THEN Absent
     ELSE Within(0, Ratio((snap.volume * days - total) * 500, total), 1000)

(* The volume of an hour against the mean of the hours before it, which   *)
(* says little where few were seen or few contracts were traded.           *)
Spike(last, hours, base) ==
  LET times == (last * hours * 1000) \div base    \* the ratio to the mean
      score == IF base = 0 THEN 1000
               ELSE IF times <= 1000 THEN 0
               ELSE IF times <= 2500 THEN (times - 1000) \div 3
               ELSE LesserOf(1000, 500 + (times - 2500) \div 5)
      thin  == IF last < 25 THEN LesserOf(score, 400) ELSE score
  IN IF last < 10 THEN 0 ELSE IF hours < 3 THEN LesserOf(thin, 850) ELSE thin

VolumeBefore(candles) ==
  SumOver(1 .. Len(candles) - 1, [i \in 1 .. Len(candles) - 1 |-> candles[i].volume])

VolumeSpike(candles) ==
  IF Len(candles) < 2 THEN Absent
  ELSE Spike(candles[Len(candles)].volume, Len(candles) - 1, VolumeBefore(candles))

(* The oldest candle of the cache, whatever its age, is what the latest is *)
(* compared with.                                                          *)
OiChange(candles) ==
  LET old == candles[1].oi IN
  IF Len(candles) < 2 THEN Absent
  ELSE IF old = 0 THEN Absent
  ELSE Within(0, Ratio((candles[Len(candles)].oi - old) * 10000, old), 1000)

Closes(candles) ==
  ItemsAt([i \in DOMAIN candles |-> candles[i].close],
          {i \in DOMAIN candles : candles[i].close # Absent})
LastFour(candles) == SubSeq(candles, Len(candles) - 3, Len(candles))

Momentum(candles) ==
  LET closes == Closes(LastFour(candles)) IN
  IF Len(candles) < 4 THEN Absent
  ELSE IF Len(closes) < 2 THEN 0
  ELSE LesserOf(1000, Magnitude(closes[Len(closes)] - closes[1]) * 100)

HlPosition(candles) ==
  LET prices == Append(Closes(candles), Mid)
      low == LowestOf(prices)
      range == HighestOf(prices) - low
  IN IF candles = <<>> \/ Len(prices) < 2 \/ range < 2 THEN Absent
     ELSE Magnitude(((Mid - low) * 2000) \div range - 1000)

TakenOn(side) ==
  LET taken == {i \in DOMAIN takers : takers[i].side = side}
  IN SumOver(taken, [i \in taken |-> takers[i].count])

OfiScore ==
  LET total == TakenOn("yes") + TakenOn("no") IN
  IF total = 0 THEN Absent ELSE (Magnitude(TakenOn("yes") - TakenOn("no")) * 1000) \div total

Prices(levels) == [i \in DOMAIN levels |-> levels[i][1]]

\* Mutant: the lowest NO bid stands for the best one.
BugTopOfBook(book) ==
  [bid |-> IF book.yes = <<>> THEN Absent ELSE HighestOf(Prices(book.yes)),
   ask |-> IF book.no = <<>> THEN Absent ELSE 100 - LowestOf(Prices(book.no))]

(* live_top_of_book.                                                       *)
TopOfBook(book) ==
  [bid |-> IF book.yes = <<>> THEN Absent ELSE HighestOf(Prices(book.yes)),
   ask |-> IF book.no = <<>> THEN Absent ELSE 100 - HighestOf(Prices(book.no))]

(* The depth within five cents of the middle of a side's own levels.       *)
DepthNearMid(levels) ==
  LET twiceMid == LowestOf(Prices(levels)) + HighestOf(Prices(levels))
      near == {i \in DOMAIN levels : Magnitude(2 * levels[i][1] - twiceMid) <= 10}
  IN IF levels = <<>> THEN 0 ELSE SumOver(near, [i \in near |-> levels[i][2]])

SkewScore(book) ==
  LET yes == DepthNearMid(book.yes)
      total == yes + DepthNearMid(book.no)
  IN IF total = 0 THEN 500 ELSE Magnitude((yes * 2000) \div total - 1000)

---------------------------------------------------------------------------
(* actionability/scorer.py.                                                *)

Weights ==
  [relative_historical_volume |-> 25, volume_spike_short_term |-> 20, price_momentum |-> 15,
   volume_oi_ratio |-> 10, oi_change |-> 10, intraday_hl |-> 8, ofi |-> 7, weekly_hl |-> 4,
   orderbook_skew |-> 1]
MinCoverage == 30

(* weekly_hl has no candle here: a daily history is its volumes.           *)
Scores ==
  [relative_historical_volume |-> RelativeVolume, volume_spike_short_term |-> VolumeSpike(hourly),
   price_momentum |-> Momentum(hourly), volume_oi_ratio |-> VolumeOiRatio,
   oi_change |-> OiChange(hourly), intraday_hl |-> HlPosition(hourly),
   ofi |-> IF depth = NoneLive THEN Absent ELSE OfiScore, weekly_hl |-> Absent,
   orderbook_skew |-> IF depth = NoneLive THEN Absent ELSE SkewScore(depth)]

Present(scores) == {n \in DOMAIN Weights : scores[n] # Absent}

\* coverage_fraction, in percent.
Coverage(scores) == SumOver(Present(scores), [n \in Present(scores) |-> Weights[n]])

Weighted(scores) == SumOver(Present(scores), [n \in Present(scores) |-> Weights[n] * scores[n]])

\* Mutant: the weights of the absent scores count.
BugComposite(scores) ==
  IF Coverage(scores) < MinCoverage THEN 0
  ELSE Weighted(scores) \div 100

(* _composite.                                                             *)
Composite(scores) ==
  IF Coverage(scores) < MinCoverage THEN 0
  ELSE Weighted(scores) \div Coverage(scores)

---------------------------------------------------------------------------
(* signals/microstructure.py.                                              *)

SignedMomentum(candles) ==
  LET closes == Closes(LastFour(candles)) IN
  IF Len(candles) < 4 THEN Absent
  ELSE IF Len(closes) < 2 THEN Absent
  ELSE closes[Len(closes)] - closes[1]

SignedOfi ==
  LET total == TakenOn("yes") + TakenOn("no") IN
  IF total = 0 THEN Absent ELSE Ratio((TakenOn("yes") - TakenOn("no")) * 1000, total)

SignedSkew(book) ==
  LET yes == DepthNearMid(book.yes)
      no  == DepthNearMid(book.no)
  IN IF yes + no = 0 THEN Absent ELSE Ratio((yes - no) * 1000, yes + no)

RangePosition(candles) ==
  LET prices == Append(Closes(candles), Mid)
      low == LowestOf(prices)
      range == HighestOf(prices) - low
  IN IF candles = <<>> \/ Len(prices) < 2 \/ range < 2 THEN Absent
     ELSE ((Mid - low) * 1000) \div range

\* Mutant: a price near its high goes on rising.
BugReversion(position) ==
  IF position > 800 THEN (position - 800) * 5
  ELSE IF position < 200 THEN -((200 - position) * 5) ELSE Absent

(* An extreme position reverts.                                            *)
Reversion(position) ==
  IF position > 800 THEN -((position - 800) * 5)
  ELSE IF position < 200 THEN (200 - position) * 5 ELSE Absent

(* The components of estimate_from_signed, those that cannot be had Absent. *)
Components ==
  LET momentum == SignedMomentum(hourly)
      position == RangePosition(hourly)
  IN [momentum  |-> IF momentum = Absent THEN Absent ELSE Within(-1000, momentum * 100, 1000),
      ofi       |-> IF depth = NoneLive THEN Absent ELSE SignedOfi,
      skew      |-> IF depth = NoneLive THEN Absent ELSE SignedSkew(depth),
      reversion |-> IF position = Absent THEN Absent ELSE Reversion(position)]

ComponentWeights == [momentum |-> 35, ofi |-> 30, skew |-> 15, reversion |-> 20]

Felt(components) == {n \in DOMAIN ComponentWeights : components[n] # Absent}

Pressure(components) ==
  SumOver(Felt(components), [n \in Felt(components) |-> ComponentWeights[n] * components[n]])

FeltWeight(components) ==
  SumOver(Felt(components), [n \in Felt(components) |-> ComponentWeights[n]])

\* At most eight cents.
Nudge(components) == Ratio(Pressure(components) * 80, FeltWeight(components) * 1000)

(* estimate_from_signed: Absent, or a probability and a direction.         *)
Nudged(price, nudge) ==
  LET prob == Within(20, price + nudge, 980) IN
  IF Magnitude(prob - price) < 10 THEN Absent
  ELSE [prob |-> prob, direction |-> IF nudge > 0 THEN "yes" ELSE "no"]

Microstructure ==
  IF Mid = 0 \/ Mid = 100 \/ Felt(Components) = {} THEN Absent
  ELSE Nudged(Mid * 10, Nudge(Components))

(* kalshi_bias_agent.compute_bias_adjustment, with its settings.           *)
Horizon(hours) == IF hours < 12 THEN 30 ELSE IF hours < 48 THEN 60 ELSE 100

BiasAdjusted(price, political, hours) ==
  LET push ==
        IF political
          THEN CASE price > 500 -> 65 [] price < 500 -> -65 [] price = 500 -> 0
          ELSE CASE price < 150 -> -((price * 35) \div 100)
                 [] price > 850 -> ((1000 - price) * 35) \div 100
                 [] price \in 150 .. 850 -> 0
      adjusted == Within(10, price + Ratio(push * Horizon(hours), 100), 990)
  IN IF Magnitude(adjusted - price) < 10 THEN price ELSE adjusted

(* market_maker_agent._parse_orderbook: its ask comes from the lowest NO   *)
(* bid.                                                                    *)
MakerSpread(book) ==
  IF book.yes = <<>> \/ book.no = <<>> THEN Absent
  ELSE (100 - LowestOf(Prices(book.no))) - TopOfBook(book).bid

RestingSize(levels) == SumOver(DOMAIN levels, [i \in DOMAIN levels |-> levels[i][2]])

MakerImbalance(book) ==
  LET yes == RestingSize(book.yes)
      no  == RestingSize(book.no)
  IN IF yes + no = 0 THEN 0 ELSE Ratio((yes - no) * 1000, yes + no)

(* _build_market_maker_signal, anchored to the known quote.                *)
MakerProb(book) ==
  IF ~(MakerSpread(book) # Absent /\ MakerSpread(book) > 8) /\ Magnitude(MakerImbalance(book)) <= 400
    THEN Absent
    ELSE Within(100, Mid * 10 + Ratio(MakerImbalance(book) * 25, 100), 900)

---------------------------------------------------------------------------

MarketInit ==
  /\ snap \in SnapMarkets
  /\ daily \in DailyVolumes
  /\ hourly = <<>> /\ takers = <<>>
  /\ depth = NoneLive

HourIsCached(c) ==
  /\ depth = NoneLive /\ takers = <<>>
  /\ Len(hourly) < MaxCandles
  /\ hourly' = Append(hourly, c)
  /\ UNCHANGED <<snap, daily, takers, depth>>

TakerTrades(t) ==
  /\ depth = NoneLive
  /\ Len(takers) < MaxTakers
  /\ takers' = Append(takers, t)
  /\ UNCHANGED <<snap, daily, hourly, depth>>

(* enrich_with_live: a side of the book that has no level leaves the quote *)
(* as it was.                                                              *)
EnrichWithLive(book) ==
  LET top == TopOfBook(book) IN
  /\ depth = NoneLive
  /\ depth' = book
  /\ snap' = [snap EXCEPT !.bid = IF top.bid = Absent THEN @ ELSE top.bid,
                          !.ask = IF top.ask = Absent THEN @ ELSE top.ask]
  /\ UNCHANGED <<daily, hourly, takers>>

MarketNext ==
  \/ \E c \in HourCandles : HourIsCached(c)
  \/ \E t \in Takers : TakerTrades(t)
  \/ \E book \in LiveBooks : EnrichWithLive(book)

MarketSpec == MarketInit /\ [][MarketNext]_marketVars

---------------------------------------------------------------------------

(* The magnitudes the ranking uses and the signed components the estimate  *)
(* uses are of one quantity, though two modules compute them: each score   *)
(* is the size of its signed twin, but for rounding.                       *)
MagnitudesMatchDirections ==
  LET momentum == SignedMomentum(hourly)
      position == RangePosition(hourly)
      about(a, b) == Magnitude(a - b) <= 3
  IN /\ momentum # Absent => Momentum(hourly) = LesserOf(1000, Magnitude(momentum) * 100)
     /\ (position = Absent) <=> (HlPosition(hourly) = Absent)
     /\ position # Absent => about(HlPosition(hourly), Magnitude(2 * position - 1000))
     /\ (SignedOfi = Absent) <=> (OfiScore = Absent)
     /\ SignedOfi # Absent => OfiScore = Magnitude(SignedOfi)
     /\ depth # NoneLive /\ SignedSkew(depth) # Absent =>
          about(SkewScore(depth), Magnitude(SignedSkew(depth)))

(* A market is never put last for its spread or its date alone; a tighter  *)
(* book, one with both sides or a nearer date never ranks lower.           *)
PenaltiesAreFair ==
  LET quotes == {<<0, 40>>, <<40, 0>>, <<40, 41>>, <<40, 44>>, <<40, 50>>, <<40, 55>>, <<40, 70>>}
      oneSided(q) == q[1] = 0 \/ q[2] = 0
      dates == {0, 24, 25, 100, 500, 1000, 3000}
  IN /\ \A q \in quotes : SpreadPenalty(q[1], q[2]) > 0
     /\ \A q, r \in quotes :
          ~oneSided(q) /\ (oneSided(r) \/ q[2] - q[1] <= r[2] - r[1]) =>
            SpreadPenalty(q[1], q[2]) >= SpreadPenalty(r[1], r[2])
     /\ \A d, e \in dates : d <= e => Proximity(d) >= Proximity(e) /\ Proximity(e) > 0

(* A score lies among the scores it is made of, however many are missing,  *)
(* and more volume in the last hour never makes a smaller spike.           *)
RankingIsFair(scores) ==
  LET raw    == Composite(scores)
      parts  == {scores[n] : n \in {m \in DOMAIN Weights : scores[m] # Absent}}
  IN /\ PenaltiesAreFair
     /\ raw # 0 => (\E p \in parts : p <= raw) /\ (\E p \in parts : raw <= p)
     /\ hourly # <<>> => \A c, d \in HourCandles : c.volume <= d.volume =>
          VolumeSpike(Append(hourly, c)) <= VolumeSpike(Append(hourly, d))

(* What is ranked and entered is the live quote: where the book has both   *)
(* sides, the market's quote is its best levels and is not crossed.        *)
QuoteIsLive ==
  depth # NoneLive /\ depth.yes # <<>> /\ depth.no # <<>> =>
    /\ \A i \in DOMAIN depth.yes : depth.yes[i][1] <= snap.bid
    /\ \A i \in DOMAIN depth.no : snap.ask <= 100 - depth.no[i][1]
    /\ snap.bid < snap.ask

(* The estimate moves the way its pressure points, by eight cents at most; *)
(* prices under two and over 98 cents excepted, where the bounds on a      *)
(* probability can move it against the pressure.  The bias correction      *)
(* never crosses the middle, and fades towards the settlement.             *)
EstimatesFollowPressure(m, price) ==
  /\ m # Absent /\ price \in 20 .. 980 =>
       /\ Magnitude(m.prob - price) <= 80
       /\ (m.direction = "yes") <=> (m.prob > price)
  /\ m # Absent /\ hourly # <<>> /\ depth = NoneLive /\ SignedMomentum(hourly) = Absent =>
       \* reversion alone: away from the extreme
       (m.direction = "yes") <=> (RangePosition(hourly) < 500)
  /\ price \in 10 .. 990 => \A political \in BOOLEAN :
       LET far == BiasAdjusted(price, political, 100)
           near == BiasAdjusted(price, political, 6)
       IN /\ price <= 500 => far <= 500 /\ far <= near
          /\ price >= 500 => far >= 500 /\ far >= near

(* The market maker's spread is the live one where each side has one level *)
(* or its NO levels are all at one price.                                  *)
MakerSpreadIsLive ==
  depth # NoneLive /\ MakerSpread(depth) # Absent =>
    /\ MakerSpread(depth) >= TopOfBook(depth).ask - TopOfBook(depth).bid
    /\ (\A i, j \in DOMAIN depth.no : depth.no[i][1] = depth.no[j][1]) =>
         MakerSpread(depth) = TopOfBook(depth).ask - TopOfBook(depth).bid
    /\ MakerProb(depth) # Absent /\ Mid \in 10 .. 90 =>
         (MakerProb(depth) > Mid * 10 => MakerImbalance(depth) > 0)

(* The two readings of a market agree with its data and with one another.  *)
MarketIsReadRight ==
  /\ MagnitudesMatchDirections
  /\ RankingIsFair(Scores)
  /\ QuoteIsLive
  /\ EstimatesFollowPressure(Microstructure, Mid * 10)
  /\ MakerSpreadIsLive
=============================================================================
