----------------------------- MODULE OrderCommand -----------------------------
(***************************************************************************)
(* scripts/place_order.py selling one position, with the exchange and the  *)
(* account's other programs acting between its requests: the price is      *)
(* taken from the book, the quantity from the positions, then the resting  *)
(* orders are cancelled one at a time, and half a second later the new     *)
(* order is placed.  scripts/exit_position.py is the last request alone.   *)
(*                                                                         *)
(* One market, in which a number of contracts of one side is held.  Orders *)
(* are sells of that side; prices are OrderPricing's.                      *)
(***************************************************************************)
EXTENDS Naturals, FiniteSets

CONSTANTS
  OSlots,       \* bound: resting sell orders of the market
  MaxHeld,      \* bound: contracts held
  NoQuantity

ASSUME OrderCommandAssumption ==
  /\ MaxHeld \in Nat \ {0} /\ IsFiniteSet(OSlots) /\ NoQuantity \notin Nat

VARIABLES
  holding,      \* contracts held
  restingQty,   \* [OSlots -> Nat]: contracts of each resting sell; 0 if none
  orderAt,      \* OrderStep
  cancelFirst,  \* BOOLEAN: cancel and replace
  cancelOnly,   \* BOOLEAN
  sideGiven,    \* BOOLEAN: --side, or a side in the instruction
  count,        \* contracts to sell; NoQuantity before resolve_quantity
  sideIs,       \* "held" side, or "action": what resolve_quantity returned
  toCancel,     \* orders listed and not yet cancelled
  moved,        \* history: since the quantity was read something was filled,
                \* or another program placed an order
  undisturbed   \* history: the last order the command placed was for the whole
                \* position, after a cancel, and nothing had moved

commandVars == <<orderAt, cancelFirst, cancelOnly, sideGiven, count, sideIs, toCancel>>
orderVars   == <<holding, restingQty, commandVars, moved, undisturbed>>

OrderStep == {"idle", "priced", "resolved", "cancelling", "cleared"}

OrderTypeOK ==
  /\ holding \in 0 .. MaxHeld
  /\ restingQty \in [OSlots -> 0 .. MaxHeld]
  /\ orderAt \in OrderStep
  /\ cancelFirst \in BOOLEAN /\ cancelOnly \in BOOLEAN /\ sideGiven \in BOOLEAN
  /\ count \in 0 .. MaxHeld \cup {NoQuantity}
  /\ sideIs \in {"held", "action"}
  /\ toCancel \subseteq OSlots
  /\ moved \in BOOLEAN /\ undisturbed \in BOOLEAN

CommandIdle ==
  /\ orderAt' = "idle" /\ cancelFirst' = FALSE /\ cancelOnly' = FALSE /\ sideGiven' = FALSE
  /\ count' = NoQuantity /\ sideIs' = "held" /\ toCancel' = {}

OrderInit ==
  /\ holding = MaxHeld
  /\ restingQty = [o \in OSlots |-> 0]
  /\ orderAt = "idle" /\ cancelFirst = FALSE /\ cancelOnly = FALSE /\ sideGiven = FALSE
  /\ count = NoQuantity /\ sideIs = "held" /\ toCancel = {}
  /\ moved = FALSE /\ undisturbed = TRUE

Resting == {o \in OSlots : restingQty[o] > 0}

---------------------------------------------------------------------------
(* The account around the command.                                         *)

FillOne(o) ==
  /\ o \in Resting /\ holding > 0
  /\ holding' = holding - 1
  /\ restingQty' = [restingQty EXCEPT ![o] = @ - 1]
  /\ moved' = (moved \/ count # NoQuantity)
  /\ UNCHANGED <<commandVars, undisturbed>>

(* exit_position.py, or the exit monitor, sells all there is to sell.      *)
OthersSell(o) ==
  /\ Resting = {} /\ holding > 0
  /\ restingQty' = [restingQty EXCEPT ![o] = holding]
  /\ moved' = (moved \/ count # NoQuantity)
  /\ UNCHANGED <<holding, commandVars, undisturbed>>

---------------------------------------------------------------------------
(* The command.                                                            *)

OrderStart(first, only, given) ==
  /\ orderAt = "idle"
  /\ ~(first /\ only)
  /\ orderAt' = "priced"
  /\ cancelFirst' = first /\ cancelOnly' = only /\ sideGiven' = given
  /\ moved' = FALSE
  /\ UNCHANGED <<holding, restingQty, count, sideIs, toCancel, undisturbed>>

\* An empty book, no position, or a request that raises: the program ends.
GivesUp ==
  /\ orderAt # "idle"
  /\ CommandIdle
  /\ UNCHANGED <<holding, restingQty, moved, undisturbed>>

(* resolve_quantity.  "all", the default of a sell, is the position; a     *)
(* number is taken as it is, and the action is returned for the side.      *)
ResolveAll ==
  /\ orderAt = "priced" /\ ~cancelOnly
  /\ holding > 0
  /\ count' = holding /\ sideIs' = "held"
  /\ orderAt' = "resolved"
  /\ UNCHANGED <<holding, restingQty, cancelFirst, cancelOnly, sideGiven, toCancel, moved, undisturbed>>

ResolveNumber(n) ==
  /\ orderAt = "priced" /\ ~cancelOnly
  /\ count' = n /\ sideIs' = "action"
  /\ orderAt' = "resolved"
  /\ UNCHANGED <<holding, restingQty, cancelFirst, cancelOnly, sideGiven, toCancel, moved, undisturbed>>

\* Mutant: only the first of the market's orders is cancelled.
BugListResting ==
  /\ \/ orderAt = "resolved" /\ cancelFirst
     \/ orderAt = "priced" /\ cancelOnly
  /\ orderAt' = "cancelling"
  /\ toCancel' \in IF Resting = {} THEN {{}} ELSE {{o} : o \in Resting}
  /\ UNCHANGED <<holding, restingQty, cancelFirst, cancelOnly, sideGiven, count, sideIs, moved, undisturbed>>

(* cancel_orders: the market's resting orders ...                          *)
ListResting ==
  /\ \/ orderAt = "resolved" /\ cancelFirst
     \/ orderAt = "priced" /\ cancelOnly
  /\ orderAt' = "cancelling"
  /\ toCancel' = Resting
  /\ UNCHANGED <<holding, restingQty, cancelFirst, cancelOnly, sideGiven, count, sideIs, moved, undisturbed>>

(* ... one at a time.  An order that has filled meanwhile cannot be        *)
(* cancelled: the request raises (GivesUp).                                *)
CancelOne(o) ==
  /\ orderAt = "cancelling"
  /\ o \in toCancel \cap Resting
  /\ restingQty' = [restingQty EXCEPT ![o] = 0]
  /\ toCancel' = toCancel \ {o}
  /\ UNCHANGED <<holding, orderAt, cancelFirst, cancelOnly, sideGiven, count, sideIs, moved, undisturbed>>

Cancelled ==
  /\ orderAt = "cancelling" /\ toCancel = {}
  /\ IF cancelOnly THEN CommandIdle
     ELSE /\ orderAt' = "cleared"
          /\ UNCHANGED <<cancelFirst, cancelOnly, sideGiven, count, sideIs, toCancel>>
  /\ UNCHANGED <<holding, restingQty, moved, undisturbed>>

(* place_order_op.  The exchange refuses an order whose side is an action. *)
PlaceOrder(o) ==
  LET accepted == sideIs = "held" \/ sideGiven IN
  /\ orderAt = (IF cancelFirst THEN "cleared" ELSE "resolved")
  /\ restingQty[o] = 0
  /\ restingQty' = IF accepted THEN [restingQty EXCEPT ![o] = count] ELSE restingQty
  /\ undisturbed' = IF accepted THEN cancelFirst /\ sideIs = "held" /\ ~moved ELSE undisturbed
  /\ CommandIdle
  /\ UNCHANGED <<holding, moved>>

---------------------------------------------------------------------------

OrderNext ==
  \/ \E o \in OSlots : FillOne(o)
  \/ \E o \in OSlots : OthersSell(o)
  \/ \E first, only, given \in BOOLEAN : OrderStart(first, only, given)
  \/ GivesUp
  \/ ResolveAll
  \/ \E n \in 1 .. MaxHeld : ResolveNumber(n)
  \/ ListResting
  \/ \E o \in OSlots : CancelOne(o)
  \/ Cancelled
  \/ \E o \in OSlots : PlaceOrder(o)

OrderSpec == OrderInit /\ [][OrderNext]_orderVars

---------------------------------------------------------------------------

(* After a cancel and replace of the whole position at most one order      *)
(* rests, and never for more contracts than are held, unless an order      *)
(* filled, or another program placed one, between the reading of the       *)
(* quantity and the placing: every order that rested is gone before the    *)
(* new one rests.                                                          *)
ReplaceNeverOversells ==
  undisturbed => \A o \in Resting : Resting = {o} /\ restingQty[o] <= holding
=============================================================================
