------------------------------ MODULE RiskLimits ------------------------------
(***************************************************************************)
(* From ideas to orders: scripts/run_risk.py checks a batch of ideas       *)
(* against the limits of kalshi_trader/config.py with                      *)
(* RiskManager.check_trade (kalshi_trader/risk.py), the approved ones      *)
(* become a slate, and scripts/execute_slate.py buys a slate through       *)
(* kalshi_trader/executor.py, without another look at the limits and       *)
(* without a note of what it has bought.  Reviews and executions are        *)
(* separate runs of separate programs.                                     *)
(*                                                                         *)
(* Money is in units of MIN_SINGLE_POSITION_DOLLARS.  The Kelly stake is   *)
(* any amount; edge, fees and prices are left out but for the rejections   *)
(* they cause.                                                             *)
(***************************************************************************)
EXTENDS Naturals, FiniteSets

CONSTANTS
  RIdeas,           \* bound: ideas of one slate
  Categories,
  Reviews,          \* bound: runs of run_risk.py
  CategoryOf,       \* [RIdeas -> Categories]
  MinSingle, MaxSingle, MaxCategory, MaxTotal,   \* the limits of config.py
  MaxKelly,         \* bound: the largest Kelly stake
  ExposureSeen      \* bound on the exposure followed

ASSUME RiskAssumption ==
  /\ {MinSingle, MaxSingle, MaxCategory, MaxTotal, MaxKelly, ExposureSeen} \subseteq Nat
  /\ CategoryOf \in [RIdeas -> Categories]
  /\ IsFiniteSet(RIdeas) /\ IsFiniteSet(Categories)

VARIABLES
  exposure,     \* Nat: what the account has at stake
  reviewAt,     \* [Reviews -> ReviewStep]
  counted,      \* [Reviews -> Nat]: portfolio.total_exposure_dollars
  unchecked,    \* [Reviews -> SUBSET RIdeas]: ideas still to come
  approved,     \* [Reviews -> [RIdeas -> Nat]]: approved sizes, 0 if rejected
  toBuy,        \* [Reviews -> SUBSET RIdeas]: ideas an execution has not come to
  streak,       \* [Categories -> 0 .. 3]: _consecutive_losses of a review
  overtaken     \* history: reviews whose exposure was out of date when their
                \* slate was executed, and those executed again

riskVars == <<exposure, reviewAt, counted, unchecked, approved, toBuy, streak, overtaken>>

ReviewStep == {"idle", "checking", "slate", "buying", "executed"}

NothingApproved == [i \in RIdeas |-> 0]

RiskTypeOK ==
  /\ exposure \in Nat
  /\ reviewAt \in [Reviews -> ReviewStep]
  /\ counted \in [Reviews -> Nat]
  /\ unchecked \in [Reviews -> SUBSET RIdeas]
  /\ approved \in [Reviews -> [RIdeas -> 0 .. MaxSingle]]
  /\ toBuy \in [Reviews -> SUBSET RIdeas]
  /\ streak \in [Categories -> 0 .. 3]
  /\ overtaken \subseteq Reviews

RiskInit ==
  /\ exposure = 0
  /\ reviewAt = [v \in Reviews |-> "idle"]
  /\ counted = [v \in Reviews |-> 0]
  /\ unchecked = [v \in Reviews |-> {}]
  /\ approved = [v \in Reviews |-> NothingApproved]
  /\ toBuy = [v \in Reviews |-> {}]
  /\ streak = [c \in Categories |-> 0]
  /\ overtaken = {}

---------------------------------------------------------------------------
(* RiskManager.                                                            *)

SmallerOf(a, b) == IF a < b THEN a ELSE b
Headroom(limit, used) == IF used < limit THEN limit - used ELSE 0

\* _kelly_stake_size: half the stake after three losses in the category.
Stake(kelly, category) == IF streak[category] >= 3 THEN kelly \div 2 ELSE kelly

\* Mutant: the clamp to the total has gone.
BugClamp(stake, total, categoryTotal) ==
  SmallerOf(SmallerOf(stake, Headroom(MaxCategory, categoryTotal)), MaxSingle)

\* check_trade, the sizing: the smallest of the stake and the headrooms.
Clamp(stake, total, categoryTotal) ==
  SmallerOf(SmallerOf(stake, Headroom(MaxCategory, categoryTotal)),
            SmallerOf(Headroom(MaxTotal, total), MaxSingle))

\* check_trade: zero is a rejection.  "passes" stands for the checks of the
\* daily loss, the time to settlement and the edge.
CheckTrade(passes, kelly, category, total, categoryTotal) ==
  LET size == Clamp(Stake(kelly, category), total, categoryTotal) IN
  IF ~passes \/ total >= MaxTotal \/ categoryTotal >= MaxCategory \/ size < MinSingle
    THEN 0 ELSE size

\* record_loss and record_win, which no program of the repository calls.
RecordLoss(c) ==
  /\ streak' = [streak EXCEPT ![c] = IF @ = 3 THEN 3 ELSE @ + 1]
  /\ UNCHANGED <<exposure, reviewAt, counted, unchecked, approved, toBuy, overtaken>>

\* A third win in a row.
RecordWins(c) ==
  /\ streak' = [streak EXCEPT ![c] = 0]
  /\ UNCHANGED <<exposure, reviewAt, counted, unchecked, approved, toBuy, overtaken>>

---------------------------------------------------------------------------
(* scripts/run_risk.py                                                     *)

(* The positions file is the account's exposure as it is now.  No category *)
(* is filled in: exposure_by_category stays empty.                         *)
ReviewStart(v, batch) ==
  /\ reviewAt[v] = "idle"
  /\ reviewAt' = [reviewAt EXCEPT ![v] = "checking"]
  /\ counted' = [counted EXCEPT ![v] = exposure]
  /\ unchecked' = [unchecked EXCEPT ![v] = batch]
  /\ UNCHANGED <<exposure, approved, toBuy, streak, overtaken>>

(* One idea; what is approved counts for the ideas after it.  An idea      *)
(* without hours_to_close is rejected (passes = FALSE).                    *)
ReviewIdea(v, i, passes, kelly) ==
  LET size == CheckTrade(passes, kelly, CategoryOf[i], counted[v], 0) IN
  /\ i \in unchecked[v]
  /\ unchecked' = [unchecked EXCEPT ![v] = @ \ {i}]
  /\ approved' = [approved EXCEPT ![v][i] = size]
  /\ counted' = [counted EXCEPT ![v] = @ + size]
  /\ UNCHANGED <<exposure, reviewAt, toBuy, streak, overtaken>>

ReviewEnd(v) ==
  /\ reviewAt[v] = "checking"
  /\ unchecked[v] = {}
  /\ reviewAt' = [reviewAt EXCEPT ![v] = "slate"]
  /\ UNCHANGED <<exposure, counted, unchecked, approved, toBuy, streak, overtaken>>

---------------------------------------------------------------------------
(* scripts/execute_slate.py                                                *)

Slate(v) == {i \in RIdeas : approved[v][i] > 0}

(* It may be run again on the same file.                                   *)
ExecuteStart(v) ==
  /\ reviewAt[v] \in {"slate", "executed"}
  /\ reviewAt' = [reviewAt EXCEPT ![v] = "buying"]
  /\ toBuy' = [toBuy EXCEPT ![v] = Slate(v)]
  /\ overtaken' = IF reviewAt[v] = "executed" THEN overtaken \cup {v} ELSE overtaken
  /\ UNCHANGED <<exposure, counted, unchecked, approved, streak>>

\* Reviews that are under way, or whose slate is not all bought.
Pending == {v \in Reviews : reviewAt[v] \in {"checking", "slate", "buying"}}

(* TradeExecutor.execute: whole contracts for at most the approved size;   *)
(* or create_order refuses, and the loop goes on.                          *)
Execute(v, i, cost) ==
  /\ i \in toBuy[v]
  /\ cost <= approved[v][i]
  /\ toBuy' = [toBuy EXCEPT ![v] = @ \ {i}]
  /\ exposure + cost <= ExposureSeen
  /\ exposure' = exposure + cost
  /\ overtaken' = IF cost > 0 THEN overtaken \cup (Pending \ {v}) ELSE overtaken
  /\ UNCHANGED <<reviewAt, counted, unchecked, approved, streak>>

ExecuteEnd(v) ==
  /\ reviewAt[v] = "buying"
  /\ toBuy[v] = {}
  /\ reviewAt' = [reviewAt EXCEPT ![v] = "executed"]
  /\ UNCHANGED <<exposure, counted, unchecked, approved, toBuy, streak, overtaken>>

---------------------------------------------------------------------------

RiskNext ==
  \/ \E c \in Categories : RecordLoss(c)
  \/ \E c \in Categories : RecordWins(c)
  \/ \E v \in Reviews, batch \in SUBSET RIdeas : ReviewStart(v, batch)
  \/ \E v \in Reviews, i \in RIdeas, passes \in BOOLEAN, kelly \in 0 .. MaxKelly :
       ReviewIdea(v, i, passes, kelly)
  \/ \E v \in Reviews : ReviewEnd(v)
  \/ \E v \in Reviews : ExecuteStart(v)
  \/ \E v \in Reviews, i \in RIdeas, cost \in 0 .. MaxSingle : Execute(v, i, cost)
  \/ \E v \in Reviews : ExecuteEnd(v)

RiskSpec == RiskInit /\ [][RiskNext]_riskVars

---------------------------------------------------------------------------

(* The account's exposure stays within MAX_TOTAL_EXPOSURE_DOLLARS as long  *)
(* as every slate is executed before the next review reads the positions,  *)
(* and once: the limit is a promise of one review about one execution.     *)
ExposureWithinTotal == overtaken = {} => exposure <= MaxTotal
=============================================================================
