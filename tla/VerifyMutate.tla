----------------------------- MODULE VerifyMutate -----------------------------
(***************************************************************************)
(* The mutate pass of verify.py: three probes that change nothing, the     *)
(* search for a contract, then it lifts the position limit and the cash    *)
(* cap, takes a hibernated order and a basket of one through their lives,  *)
(* cancels whatever is left and puts the limits back.  The reconciliation  *)
(* pass lifts and restores them the same way (_relax_order_limits).        *)
(*                                                                         *)
(* A call is answered, or raises: without effect, with its effect applied, *)
(* or, for a limit, with a request that still arrives afterwards.          *)
(***************************************************************************)
EXTENDS Naturals

CONSTANTS
  Limits,   \* position limits of a desk
  Lifted,   \* the limit the pass works under
  Caps,     \* cash caps of a desk
  NoCap,    \* the cap field unset
  Unread,   \* a prior value that was never read
  Scoped    \* whether the key is member-scoped

ASSUME LimitAssumption == Unread \notin Limits \cup {Lifted}
ASSUME CapAssumption == NoCap \notin Caps /\ Unread \notin Caps \cup {NoCap}
ASSUME ScopedAssumption == Scoped \in BOOLEAN

VARIABLES
  step,      \* the step to run next
  priorPos,  \* prior_pos_limit
  priorCap,  \* _CapRestore: the cap to put back
  failed,    \* whether a step was a [FAIL]
  warned,    \* whether a restore was given up with a warning
  limit,     \* gateway: the position limit
  cap,       \* gateway: the cash cap
  late,      \* requests that outlived their call
  order,     \* the hibernated order
  basket,    \* the basket's order
  locked,    \* gateway: a modify of the order is in flight
  unseen,    \* history: orders left over behind the pass's back
  before,    \* history: the limit and the cap when the pass began
  overtaken  \* history: a late request undid a restore

clientVars == <<step, priorPos, priorCap, failed, warned>>
limitVars == <<limit, cap, late, overtaken>>
orderVars == <<order, basket, locked, unseen>>
vars == <<clientVars, limitVars, orderVars, before>>

OrderStates == {"none", "travelling", "entering", "live", "cancelling", "gone"}
Probing == {"history", "recall", "ack"}
InSetup == {"readLimit", "liftLimit", "readCap", "liftCap"}
Swept == {"restoreLimit", "restoreCap", "end"}
Steps == Probing \cup InSetup \cup Swept \cup {"list", "find"} \cup
  { "submit", "confirm", "watch", "modify", "cancel", "basket", "cancelBasket",
    "sweep" }

Init ==
  /\ step = "history" /\ priorPos = Unread /\ priorCap = Unread
  /\ failed = FALSE /\ warned = FALSE
  /\ limit \in Limits /\ cap \in Caps \cup {NoCap}
  /\ before = [limit |-> limit, cap |-> cap]
  /\ late = {} /\ overtaken = FALSE
  /\ order = "none" /\ basket = "none" /\ locked = FALSE /\ unseen = {}

Pass(next) == step' = next /\ UNCHANGED <<priorPos, priorCap, failed, warned>>
Fail(next) ==
  /\ step' = next /\ failed' = TRUE /\ UNCHANGED <<priorPos, priorCap, warned>>
Rest == UNCHANGED <<limitVars, before>>

-----------------------------------------------------------------------------
(* Before the limits are touched.                                          *)

(* Restore trade history, recall a trade that is not held, acknowledge a   *)
(* fault for no reason: each is gated, and the pass goes on after it.      *)
AfterProbe == [history |-> "recall", recall |-> "ack", ack |-> "list"]
Probe ==
  /\ step \in Probing /\ (Pass(AfterProbe[step]) \/ Fail(AfterProbe[step]))
  /\ UNCHANGED orderVars /\ Rest

(* No contract listed is a [SKIP] of the rest of the pass.                 *)
ListContracts ==
  /\ step = "list" /\ (Pass("find") \/ Pass("end") \/ Fail("end"))
  /\ UNCHANGED orderVars /\ Rest

(* So is none of the listed ones that takes orders now.                    *)
FindContract ==
  /\ step = "find" /\ (Pass("readLimit") \/ Pass("end"))
  /\ UNCHANGED orderVars /\ Rest

-----------------------------------------------------------------------------
(* The limits.                                                             *)

(* A limit or cap reaches the gateway, or is refused, or is still on its   *)
(* way when the call is over.                                              *)
Reaches(setting, value) ==
  /\ limit' = IF setting = "limit" THEN value ELSE limit
  /\ cap' = IF setting = "cap" THEN value ELSE cap
  /\ UNCHANGED <<late, overtaken>>
Strays(setting, value) ==
  /\ late' = late \cup {[setting |-> setting, value |-> value]}
  /\ UNCHANGED <<limit, cap, overtaken>>
SetRaises(setting, value) ==
  UNCHANGED limitVars \/ Reaches(setting, value) \/ Strays(setting, value)

ReadLimit ==
  /\ step = "readLimit"
  /\ step' = "liftLimit" /\ priorPos' = limit
  /\ UNCHANGED <<priorCap, failed, warned, limitVars, orderVars, before>>

LiftLimit ==
  /\ step = "liftLimit" /\ Reaches("limit", Lifted) /\ step' = "readCap"
  /\ UNCHANGED <<priorPos, priorCap, failed, warned, orderVars, before>>

(* release: no cap, nothing to lift; else it is noted before it is lifted. *)
ReadCap ==
  /\ step = "readCap"
  /\ step' = IF cap = NoCap THEN "submit" ELSE "liftCap"
  /\ priorCap' = IF cap = NoCap THEN Unread ELSE cap
  /\ UNCHANGED <<priorPos, failed, warned, limitVars, orderVars, before>>

LiftCap ==
  /\ step = "liftCap" /\ Reaches("cap", NoCap) /\ step' = "submit"
  /\ UNCHANGED <<priorPos, priorCap, failed, warned, orderVars, before>>

(* Mutant: the cap counts as lifted only once the call was answered.       *)
SetupRaisesForgetting ==
  /\ step \in InSetup /\ step' = "submit"
  /\ \/ step = "liftLimit" /\ SetRaises("limit", Lifted)
     \/ step = "liftCap" /\ SetRaises("cap", NoCap)
     \/ step \in {"readLimit", "readCap"} /\ UNCHANGED limitVars
  /\ priorCap' = Unread
  /\ UNCHANGED <<priorPos, failed, warned, orderVars, before>>

(* Whatever raises in the setup, the pass warns and goes on.               *)
SetupRaises ==
  /\ step \in InSetup /\ step' = "submit"
  /\ \/ step = "liftLimit" /\ SetRaises("limit", Lifted)
     \/ step = "liftCap" /\ SetRaises("cap", NoCap)
     \/ step \in {"readLimit", "readCap"} /\ UNCHANGED limitVars
  /\ UNCHANGED <<priorPos, priorCap, failed, warned, orderVars, before>>

(* Mutant: the prior value is put back whether or not it was read.         *)
RestoreUnread(setting, prior) ==
  \/ Reaches(setting, prior) /\ UNCHANGED warned
  \/ SetRaises(setting, prior) /\ warned' = TRUE

(* A value that was read is put back; a failure is warned about.           *)
Restore(setting, prior) ==
  \/ prior = Unread /\ UNCHANGED <<limitVars, warned>>
  \/ prior # Unread /\ Reaches(setting, prior) /\ UNCHANGED warned
  \/ prior # Unread /\ SetRaises(setting, prior) /\ warned' = TRUE

RestoreLimit ==
  /\ step = "restoreLimit" /\ step' = "restoreCap"
  /\ Restore("limit", priorPos)
  /\ UNCHANGED <<priorPos, priorCap, failed, orderVars, before>>

RestoreCap ==
  /\ step = "restoreCap" /\ step' = "end"
  /\ Restore("cap", priorCap)
  /\ UNCHANGED <<priorPos, priorCap, failed, orderVars, before>>

(* External: a set whose call is over reaches the gateway.                 *)
Arrives(m) ==
  /\ late' = late \ {m}
  /\ limit' = IF m.setting = "limit" THEN m.value ELSE limit
  /\ cap' = IF m.setting = "cap" THEN m.value ELSE cap
  /\ overtaken' = (overtaken \/ step = "end"
                     \/ (m.setting = "limit" /\ step = "restoreCap"))
  /\ UNCHANGED <<clientVars, orderVars, before>>
LateArrives == \E m \in late : Arrives(m)

-----------------------------------------------------------------------------
(* The orders.                                                             *)

(* An answer that names no client_order_id ends the pass, cancelling       *)
(* nothing and failing nothing.                                            *)
SubmitAnswered ==
  /\ step = "submit" /\ order' = "entering"
  /\ \/ Pass("confirm") /\ UNCHANGED unseen
     \/ Pass("restoreLimit") /\ unseen' = unseen \cup {"order"}
  /\ UNCHANGED <<basket, locked>> /\ Rest

(* Mutant: a submit that raised is not counted.                            *)
SubmitRaisedQuietly ==
  /\ step = "submit" /\ order' \in {"none", "travelling", "entering"}
  /\ Pass("restoreLimit")
  /\ UNCHANGED <<basket, locked, unseen>> /\ Rest

(* The pass ends here: the order may be on its way for all that.           *)
SubmitRaised ==
  /\ step = "submit" /\ order' \in {"none", "travelling", "entering"}
  /\ Fail("restoreLimit")
  /\ UNCHANGED <<basket, locked, unseen>> /\ Rest

Confirmed ==
  /\ step = "confirm" /\ order = "live" /\ Pass("watch")
  /\ UNCHANGED orderVars /\ Rest

(* Rejected, still pending after five seconds, or get_order raised: watch, *)
(* modify and cancel are skipped, "nothing to cancel".                     *)
NotConfirmed ==
  /\ step = "confirm" /\ Fail("basket") /\ UNCHANGED orderVars /\ Rest

Watch ==
  /\ step = "watch"
  /\ Pass("modify") \/ Fail("modify")
  /\ UNCHANGED orderVars /\ Rest

(* Answered on its report, answered on the receipt alone, or raised.       *)
Modify ==
  /\ step = "modify" /\ locked' \in BOOLEAN
  /\ Pass("cancel") \/ Fail("cancel")
  /\ UNCHANGED <<order, basket, unseen>> /\ Rest

(* "modify in progress" is tried again until the modify has settled ...    *)
CancelAcknowledged ==
  /\ step = "cancel" /\ ~locked /\ order = "live"
  /\ order' = "cancelling" /\ Pass("basket")
  /\ UNCHANGED <<basket, locked, unseen>> /\ Rest

(* ... or five seconds are over; any other error ends the step too.        *)
CancelRaised ==
  /\ step = "cancel" /\ Fail("basket")
  /\ \/ UNCHANGED order
     \/ ~locked /\ order = "live" /\ order' = "cancelling"
  /\ UNCHANGED <<basket, locked, unseen>> /\ Rest

BasketAnswered ==
  /\ step = "basket" /\ basket' = "entering" /\ Pass("cancelBasket")
  /\ UNCHANGED <<order, locked, unseen>> /\ Rest

BasketRaised ==
  /\ step = "basket" /\ basket' \in {"none", "travelling", "entering"}
  /\ Fail("sweep")
  /\ UNCHANGED <<order, locked, unseen>> /\ Rest

Cancelled(o) == IF o = "live" THEN "cancelling" ELSE o

(* The answer is a success whatever it says of the order: one the exchange *)
(* has not acknowledged is not cancelled.                                  *)
CancelBasketAnswered ==
  /\ step = "cancelBasket" /\ basket' = Cancelled(basket) /\ Pass("sweep")
  /\ UNCHANGED <<order, locked, unseen>> /\ Rest

CancelBasketRaised ==
  /\ step = "cancelBasket" /\ basket' \in {basket, Cancelled(basket)}
  /\ Fail("sweep")
  /\ UNCHANGED <<order, locked, unseen>> /\ Rest

(* CancelAllOrders.  A member's sweep fails on an unacknowledged order; an *)
(* account-wide cancel does not see one.                                   *)
SweepAnswered ==
  /\ step = "sweep"
  /\ Scoped => order # "entering" /\ basket # "entering"
  /\ order' = Cancelled(order) /\ basket' = Cancelled(basket)
  /\ Pass("restoreLimit")
  /\ UNCHANGED <<locked, unseen>> /\ Rest

SweepRaised ==
  /\ step = "sweep"
  /\ order' \in {order, Cancelled(order)} /\ basket' \in {basket, Cancelled(basket)}
  /\ Fail("restoreLimit")
  /\ UNCHANGED <<locked, unseen>> /\ Rest

-----------------------------------------------------------------------------
(* The gateway and the exchange (external).                                *)

Moves(o) ==
  CASE o = "travelling" -> {"entering"}
    [] o = "entering"   -> {"live", "gone"}
    [] o = "cancelling" -> {"gone"}
    [] OTHER            -> {}

OrdersMove ==
  /\ \/ order' \in Moves(order) /\ UNCHANGED <<basket, locked>>
     \/ basket' \in Moves(basket) /\ UNCHANGED <<order, locked>>
     \/ locked /\ locked' = FALSE /\ UNCHANGED <<order, basket>>
  /\ UNCHANGED <<clientVars, unseen>> /\ Rest

(* The exchange may refuse a cancel it has acknowledged.  What is refused  *)
(* before the sweep, the sweep cancels again.                              *)
CancelDeclined ==
  /\ \/ /\ order = "cancelling" /\ order' = "live" /\ UNCHANGED basket
        /\ unseen' = unseen \cup {x \in {"order"} : step \in Swept}
     \/ /\ basket = "cancelling" /\ basket' = "live" /\ UNCHANGED order
        /\ unseen' = unseen \cup {x \in {"basket"} : step \in Swept}
  /\ UNCHANGED <<locked, clientVars>> /\ Rest

Next ==
  \/ Probe \/ ListContracts \/ FindContract
  \/ ReadLimit \/ LiftLimit \/ ReadCap \/ LiftCap \/ SetupRaises
  \/ SubmitAnswered \/ SubmitRaised \/ Confirmed \/ NotConfirmed
  \/ Watch \/ Modify \/ CancelAcknowledged \/ CancelRaised
  \/ BasketAnswered \/ BasketRaised \/ CancelBasketAnswered \/ CancelBasketRaised
  \/ SweepAnswered \/ SweepRaised \/ RestoreLimit \/ RestoreCap
  \/ LateArrives \/ OrdersMove \/ CancelDeclined

Spec == Init /\ [][Next]_vars

-----------------------------------------------------------------------------
(* Properties.                                                             *)

Messages ==
  [setting : {"limit"}, value : Limits \cup {Lifted}]
    \cup [setting : {"cap"}, value : Caps \cup {NoCap}]

MutateTypeOK ==
  /\ step \in Steps
  /\ priorPos \in Limits \cup {Lifted, Unread} /\ priorCap \in Caps \cup {Unread}
  /\ failed \in BOOLEAN /\ warned \in BOOLEAN
  /\ limit \in Limits \cup {Lifted} /\ cap \in Caps \cup {NoCap}
  /\ late \subseteq Messages
  /\ order \in OrderStates /\ basket \in OrderStates /\ locked \in BOOLEAN
  /\ unseen \subseteq {"order", "basket"}
  /\ before \in [limit : Limits, cap : Caps \cup {NoCap}]
  /\ overtaken \in BOOLEAN

(* "Both are put back after" (_relax_order_limits): wherever the setup     *)
(* failed, a pass that warned of no failed restore ends with the limit and *)
(* the cap it began with, unless a set that outlived its call undid it.    *)
PutBack ==
  step = "end" /\ ~warned /\ ~overtaken
    => limit = before.limit /\ cap = before.cap

(* The pass is not green over an order of its own that is on the book, or  *)
(* on its way there: but for one the gateway did not name in its answer,   *)
(* and one whose cancel the exchange refused, acknowledged, after the      *)
(* sweep was over.                                                         *)
Open(o) == o \in {"travelling", "entering", "live"}
OnlyUnseenOpen ==
  /\ Open(order) => "order" \in unseen
  /\ Open(basket) => "basket" \in unseen
LeftoverReported == step = "end" /\ ~failed => OnlyUnseenOpen
=============================================================================
