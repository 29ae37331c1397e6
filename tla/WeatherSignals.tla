----------------------------- MODULE WeatherSignals -----------------------------
(***************************************************************************)
(* How a weather event becomes probabilities: the estimates of             *)
(* kalshi_trader/signals/weather.py, on the day the event settles, with    *)
(* the observations of external/noaa.py arriving and scripts/weather_scan  *)
(* looking at any moment of the day.                                       *)
(*                                                                         *)
(* Temperatures are in half degrees and rain in two-hundredths of an inch; *)
(* thresholds are in degrees and hundredths.  Locks are in 24ths, so a     *)
(* blended member is in 48ths of a threshold unit and exact.               *)
(* Probabilities and uncertainties are in thousandths.  A day is a few of  *)
(* its local hours.                                                        *)
(***************************************************************************)
EXTENDS Integers, Sequences, FiniteSets

CONSTANTS
  Events,       \* [metric, members, outlook]: members a sequence, and the outlook
                \* [high, low, precip, posts, confident, independent]
  Readings,     \* what the station may report
  Hours,        \* local hours at which something may happen
  UtcAhead,     \* hours UTC is ahead of the station
  Strikes,      \* thresholds; a band is from one to the next
  MinMembers,   \* ensemble_min_members
  NoReading, NoScan, Missing

Temperatures == {"temp_high", "temp_low"}
Metrics == Temperatures \cup {"precipitation"}

Outlooks == [high : Int \cup {Missing}, low : Int \cup {Missing}, precip : Int \cup {Missing},
             posts : Nat, confident : BOOLEAN, independent : BOOLEAN]

ASSUME WeatherAssumption ==
  /\ Hours \subseteq 0 .. 23 /\ 0 \notin Hours
  /\ UtcAhead \in 0 .. 12
  /\ Readings \subseteq Int /\ Strikes \subseteq Int /\ MinMembers \in Nat \ {0}
  /\ NoReading \notin Int /\ Missing \notin Int
  /\ Events \subseteq [metric : Metrics, members : Seq(Int), outlook : Outlooks]

VARIABLES
  metric, members,   \* the event and its ensemble
  outlook,           \* what NOAA, or the authorities, forecast
  localHour,
  observed,          \* realized_extreme so far
  latest,            \* hour of the latest reading
  seenAt             \* NoScan, or what weather_scan saw last: [hour, members, observation, lock]

weatherVars == <<metric, members, outlook, localHour, observed, latest, seenAt>>

WeatherTypeOK ==
  /\ metric \in Metrics /\ [metric |-> metric, members |-> members, outlook |-> outlook] \in Events
  /\ localHour \in 0 .. 23 /\ latest \in 0 .. localHour
  /\ observed \in Int \cup {NoReading} /\ (observed = NoReading) = (latest = 0)
  /\ seenAt # NoScan =>
       /\ seenAt.hour \in 0 .. localHour
       /\ seenAt.members \in {<<>>, members}
       /\ seenAt.lock \in 0 .. 24
       /\ seenAt.observation = NoReading => seenAt.lock = 0

LeastOf(a, b) == IF a < b THEN a ELSE b
MostOf(a, b)  == IF a > b THEN a ELSE b
Clamped(lo, a, hi) == MostOf(lo, LeastOf(a, hi))
CountIn(s, Test(_)) == Cardinality({i \in DOMAIN s : Test(s[i])})

---------------------------------------------------------------------------
(* The station and the lock.                                               *)

(* get_observed_extreme after one more reading.                            *)
Extreme(realized, r) ==
  CASE realized = NoReading -> r
    [] realized # NoReading -> CASE metric = "temp_high" -> MostOf(realized, r)
                                 [] metric = "temp_low" -> LeastOf(realized, r)
                                 [] metric = "precipitation" -> realized + r

LockHour == [temp_low |-> 9, temp_high |-> 17]
LockRamp == 3

(* observation_lock_fraction, of the hour of the latest reading.           *)
Lock(hour) ==
  IF metric = "precipitation" THEN hour
  ELSE Clamped(0, (hour - (LockHour[metric] - LockRamp)) * 8, 24)

---------------------------------------------------------------------------
(* build_ensemble_signal, for one strike [op, low, high].                  *)

Single(op, n) == [op |-> op, low |-> n, high |-> n]
Band(lo, hi)  == [op |-> "between", low |-> lo, high |-> hi]

\* Mutant: members are bounded by the observation, never drawn to it.
BugReconciled(member, realized, lock) ==
  24 * (IF metric = "temp_low" THEN LeastOf(member, realized) ELSE MostOf(member, realized))

(* A member is bounded by what has happened, then drawn to it.             *)
Reconciled(member, realized, lock) ==
  LET bounded == IF metric = "temp_low" THEN LeastOf(member, realized)
                                        ELSE MostOf(member, realized)
  IN bounded * (24 - lock) + realized * lock

(* _round_to_settlement_degree: half a degree rounds up.                   *)
Settlement(value) == (value + 24) \div 48

(* The comparison of a strike with a settled value.                        *)
Meets(strike, value) ==
  CASE strike.op = "between" -> strike.low <= value /\ value <= strike.high
    [] strike.op = "above" -> value > strike.low
    [] strike.op = "below" -> value < strike.low

\* Rain is compared as it is, and always from above.
Wetter(strike, value) == value > 48 * MostOf(strike.low, 1)

MembersOf(scan) ==
  [i \in DOMAIN scan.members |->
     IF scan.observation = NoReading THEN 24 * scan.members[i]
     ELSE Reconciled(scan.members[i], scan.observation, scan.lock)]

Satisfying(scan, strike) ==
  IF metric = "precipitation" THEN CountIn(MembersOf(scan), LAMBDA v : Wetter(strike, v))
  ELSE CountIn(MembersOf(scan), LAMBDA v : Meets(strike, Settlement(v)))

BoundedProb(p) == Clamped(10, p, 990)

IsEmpty(scan) == Len(scan.members) < MinMembers

EnsembleProb(scan, strike) ==
  IF IsEmpty(scan) THEN 500
  ELSE BoundedProb((Satisfying(scan, strike) * 1000) \div Len(scan.members))

EnsembleBase == IF metric = "precipitation" THEN 50 ELSE 70
ObservationFloor == 20

EnsembleUncertainty(scan) ==
  IF IsEmpty(scan) THEN 1000
  ELSE IF scan.observation = NoReading THEN EnsembleBase
  ELSE (EnsembleBase * (24 - scan.lock) + ObservationFloor * scan.lock) \div 24

---------------------------------------------------------------------------
(* _metric_to_probability: the parametric estimate.                        *)

\* The normal distribution at quarters of a standard deviation.
UpperPhi == <<599, 691, 773, 841, 894, 933, 960, 977, 988, 994, 997, 999>>
Phi(quarters) ==
  LET q == Clamped(-12, quarters, 12) IN
  CASE q = 0 -> 500 [] q > 0 -> UpperPhi[q] [] q < 0 -> 1000 - UpperPhi[-q]

Known(value, default) == IF value = Missing THEN default ELSE value

(* Centred on the traded metric; 85 and 65 degrees stand for what NOAA     *)
(* does not say.  The deviation is a sixth of the range, at least two      *)
(* degrees: in twelfths of a degree it is the range in half degrees.       *)
Mean == IF metric = "temp_high" THEN Known(outlook.high, 170) ELSE Known(outlook.low, 130)
Deviation == MostOf(Known(outlook.high, 170) - Known(outlook.low, 130), 24)

\* CDF at x half degrees, rounded away from the middle.
Cdf(x) ==
  LET z == (x - Mean) * 24 IN
  IF z >= 0 THEN Phi((z + Deviation - 1) \div Deviation)
            ELSE Phi(-((Deviation - 1 - z) \div Deviation))

\* Mutant: no continuity correction.
BugParametric(strike) ==
  IF metric = "precipitation" THEN Known(outlook.precip, 0) * 10
  ELSE CASE strike.op = "between" -> Cdf(2 * strike.high) - Cdf(2 * strike.low)
         [] strike.op = "above" -> 1000 - Cdf(2 * strike.low)
         [] strike.op = "below" -> Cdf(2 * strike.low)

Parametric(strike) ==
  IF metric = "precipitation" THEN Known(outlook.precip, 0) * 10
  ELSE CASE strike.op = "between" -> Cdf(2 * strike.high + 1) - Cdf(2 * strike.low - 1)
         [] strike.op = "above" -> 1000 - Cdf(2 * strike.low + 1)
         [] strike.op = "below" -> Cdf(2 * strike.low - 1)

(* build_weather_signal and build_authority_signal.                        *)
NoaaProb(strike) == BoundedProb(Parametric(strike))

Needed == CASE metric = "temp_high" -> outlook.high [] metric = "temp_low" -> outlook.low
            [] metric = "precipitation" -> outlook.precip
AuthorityIsEmpty == Needed = Missing \/ outlook.posts = 0
AuthorityProb(strike) == IF AuthorityIsEmpty THEN 500 ELSE NoaaProb(strike)
AuthorityUncertainty ==
  IF AuthorityIsEmpty THEN 1000
  ELSE (IF metric = "precipitation" THEN 70 ELSE 100)
         + (IF ~outlook.confident \/ outlook.posts = 1 THEN 50 ELSE 0)
         + (IF outlook.independent THEN 0 ELSE 50)

---------------------------------------------------------------------------
(* weather_report.py.                                                      *)

(* score_sides: the side with the larger edge, YES on a tie.               *)
BetterSide(prob, bid, ask) ==
  CASE ask = Missing /\ bid = Missing -> [side |-> "YES", edge |-> Missing]
    [] ask = Missing /\ bid # Missing -> [side |-> "NO", edge |-> bid * 10 - prob]
    [] ask # Missing /\ bid = Missing -> [side |-> "YES", edge |-> prob - ask * 10]
    [] ask # Missing /\ bid # Missing ->
         IF bid * 10 - prob > prob - ask * 10
           THEN [side |-> "NO", edge |-> bid * 10 - prob]
           ELSE [side |-> "YES", edge |-> prob - ask * 10]

---------------------------------------------------------------------------

WeatherInit ==
  /\ \E e \in Events : metric = e.metric /\ members = e.members /\ outlook = e.outlook
  /\ localHour = 0 /\ latest = 0
  /\ observed = NoReading
  /\ seenAt = NoScan

(* An hour comes, with or without a reading.                               *)
HourComes(h) ==
  /\ localHour < h
  /\ localHour' = h
  /\ UNCHANGED <<metric, members, outlook, observed, latest, seenAt>>

StationReports(r) ==
  /\ localHour # 0 /\ latest < localHour
  /\ metric = "precipitation" => r >= 0
  /\ observed' = Extreme(observed, r)
  /\ latest' = localHour
  /\ UNCHANGED <<metric, members, outlook, localHour, seenAt>>

\* The date of the program: UTC.
UtcIsSameDay == localHour + UtcAhead < 24

\* Mutant: a same-day event is scored without its observation.
BugScoreEvent(answered) ==
  /\ localHour # 0
  /\ seenAt' = [hour |-> localHour, members |-> IF UtcIsSameDay THEN members ELSE <<>>,
                observation |-> NoReading, lock |-> 0, answered |-> answered]
  /\ UNCHANGED <<metric, members, outlook, localHour, observed, latest>>

(* _score_event: when UTC has the next date already, the event is not of   *)
(* today and get_ensemble_members has nothing for a date that is over; the *)
(* station may not answer.                                                 *)
ScoreEvent(answered) ==
  LET uses == UtcIsSameDay /\ answered /\ observed # NoReading IN
  /\ localHour # 0
  /\ seenAt' = [hour |-> localHour, members |-> IF UtcIsSameDay THEN members ELSE <<>>,
                observation |-> IF uses THEN observed ELSE NoReading,
                lock |-> IF uses THEN Lock(latest) ELSE 0, answered |-> answered]
  /\ UNCHANGED <<metric, members, outlook, localHour, observed, latest>>

WeatherNext ==
  \/ \E h \in Hours : HourComes(h)
  \/ \E r \in Readings : StationReports(r)
  \/ \E answered \in BOOLEAN : ScoreEvent(answered)

WeatherSpec == WeatherInit /\ [][WeatherNext]_weatherVars

---------------------------------------------------------------------------

AllStrikes ==
  {Single(op, n) : op \in {"above", "below"}, n \in Strikes}
  \cup {Band(n, n + 1) : n \in Strikes}

Outcome(strike, realized) ==
  IF metric = "precipitation" THEN Wetter(strike, 24 * realized)
  ELSE Meets(strike, Settlement(24 * realized))

Scored == seenAt # NoScan /\ ~IsEmpty(seenAt)

(* Has the observation settled the strike, whatever the day still brings?  *)
Decided(strike, realized) ==
  LET at == Settlement(24 * realized) IN
  CASE metric = "precipitation" -> Wetter(strike, 24 * realized)
    [] metric = "temp_high" -> IF strike.op = "between" THEN at > strike.high
                               ELSE IF strike.op = "above" THEN at > strike.low
                               ELSE at >= strike.low
    [] metric = "temp_low" -> IF strike.op = "between" THEN at < strike.low
                              ELSE IF strike.op = "above" THEN at <= strike.low
                              ELSE at < strike.low

(* A strike the station's readings had decided when the scan looked is     *)
(* priced at the bound of its outcome, and that is still its outcome at    *)
(* every later hour.  Past the hour of the extreme every strike is priced  *)
(* at the outcome of the extreme seen.  The scan never prices today's      *)
(* event from the bare ensemble while the station answers: when UTC is on  *)
(* the next date there is no ensemble either.                              *)
DecidedIsPriced ==
  /\ Scored /\ seenAt.observation # NoReading =>
       \A strike \in AllStrikes :
         /\ Decided(strike, seenAt.observation) =>
              /\ EnsembleProb(seenAt, strike) =
                   (IF Outcome(strike, observed) THEN 990 ELSE 10)
              /\ Outcome(strike, observed) = Outcome(strike, seenAt.observation)
         /\ seenAt.lock = 24 =>
              EnsembleProb(seenAt, strike) =
                (IF Outcome(strike, seenAt.observation) THEN 990 ELSE 10)
  /\ Scored /\ seenAt.answered /\ seenAt.hour = localHour /\ latest < localHour =>
       seenAt.observation = observed

(* The strikes of an event are priced as one distribution: above, below    *)
(* and at a degree make a whole, in the ensemble and in the normal         *)
(* estimate; a higher threshold is never likelier to be exceeded; and a    *)
(* forecast at which every member stands is on the same side of each       *)
(* strike in both, and on a side unless it lies between two degrees.       *)
OneDistribution ==
  metric \in Temperatures =>
    /\ Scored => \A n \in Strikes :
         Satisfying(seenAt, Single("above", n)) + Satisfying(seenAt, Single("below", n))
           + Satisfying(seenAt, Band(n, n)) = Len(seenAt.members)
    /\ \A n \in Strikes :
         Parametric(Single("above", n)) + Parametric(Single("below", n))
           + Parametric(Band(n, n)) = 1000
    /\ \A m, n \in Strikes : m < n =>
         /\ Scored => EnsembleProb(seenAt, Single("above", m)) >= EnsembleProb(seenAt, Single("above", n))
         /\ Parametric(Single("above", m)) >= Parametric(Single("above", n))
    /\ LET unanimous == [hour |-> 0, observation |-> NoReading, lock |-> 0,
                         members |-> [i \in 1 .. MinMembers |-> Mean]]
       IN \A n \in Strikes : \A op \in {"above", "below"} :
            LET prob == EnsembleProb(unanimous, Single(op, n))
                normal == Parametric(Single(op, n))
            IN /\ prob = 990 => normal >= 500
               /\ prob = 10 => normal <= 500
               /\ Mean % 2 = 0 => normal # 500

\* An observation only ever makes the estimate surer, never surer than the floor.
SurerWithTheLock ==
  /\ seenAt # NoScan => EnsembleUncertainty(seenAt) \in ObservationFloor .. EnsembleBase \cup {1000}
  /\ Scored /\ seenAt.observation # NoReading =>
       \A lock \in 0 .. seenAt.lock :
         EnsembleUncertainty(seenAt) <= EnsembleUncertainty([seenAt EXCEPT !.lock = lock])

\* What has no data behind it carries no weight.
NoDataNoWeight ==
  /\ AuthorityIsEmpty <=> AuthorityUncertainty = 1000
  /\ AuthorityIsEmpty => \A strike \in AllStrikes : AuthorityProb(strike) = 500

\* The larger of two edges is the one shown.
LargerEdgeIsShown ==
  Scored => \A strike \in AllStrikes : \A q \in {<<30, 40>>, <<60, Missing>>, <<Missing, 20>>} :
    LET better == BetterSide(EnsembleProb(seenAt, strike), q[1], q[2]) IN
    /\ q[1] # Missing => better.edge >= q[1] * 10 - EnsembleProb(seenAt, strike)
    /\ q[2] # Missing => better.edge >= EnsembleProb(seenAt, strike) - q[2] * 10

(* No estimate is surer than the data behind it.                           *)
SureAsTheData == SurerWithTheLock /\ NoDataNoWeight /\ LargerEdgeIsShown

(* The estimates of a weather event agree with the day, with one another   *)
(* and with what is known.                                                 *)
WeatherIsReadRight == DecidedIsPriced /\ OneDistribution /\ SureAsTheData
=============================================================================
