------------------------------ MODULE CancelAll ------------------------------
(***************************************************************************)
(* cancel_all_orders: the kill switch.  For a member-scoped caller the     *)
(* gateway sends one cancel per order and may stop half-way; for an        *)
(* account-wide caller it sends one command.  A caller that got an error   *)
(* may call again, while cancels of an earlier call are still on their     *)
(* way to the exchange.  The gateway and the exchange are external.        *)
(***************************************************************************)
EXTENDS OrderErrors, Integers, FiniteSets

CONSTANTS
  Orders,       \* the caller's orders
  MaxCalls,     \* bound on how often the caller calls
  AccountWide,  \* the one command of an account-wide caller
  RefusalCodes  \* codes a call is refused with before anything is sent

ASSUME AccountWideAssumption == AccountWide \notin Orders
ASSUME MaxCallsAssumption == MaxCalls \in Nat
ASSUME CodesAssumption == RefusalCodes \subseteq StatusCodes \ UncertainCodes

VARIABLES
  scoped,   \* whether the caller is member-scoped
  barred,   \* orders in a delivery area their member may not trade
  current,  \* number of the latest call
  phase,    \* that call's request: idle, wire, sweep, waiting, answered, over
  answer,   \* its answer on the way to the client
  outcome,  \* what each call gave its caller
  targets,  \* the sweep: the orders it set out to cancel
  todo,     \* the sweep: commands it has still to send
  acked,    \* the sweep: orders whose cancel was acknowledged
  cause,    \* the sweep: its first failure
  target,   \* the sweep: the command whose receipt it waits for
  command,  \* exchange: each call's commands
  order,    \* exchange: each order
  present   \* history: the orders on the market when each call was made

caller == <<scoped, barred>>
sweepVars == <<targets, todo, acked, cause, target>>
vars == <<caller, current, phase, answer, outcome, sweepVars, command, order,
          present>>

CallNumbers == 1 .. MaxCalls
Sent == CallNumbers \X (Orders \cup {AccountWide})

NoStatus == [code |-> "OK", marker |-> "none", clause |-> FALSE]
NoAnswer == [kind |-> "none"]
NoOutcome == [kind |-> "none"]
Outcomes == {NoOutcome} \cup [kind : {"deleted"}, orders : SUBSET Orders]
              \cup [kind : {"raised"}, cls : ErrorClasses, rejected : BOOLEAN]

Init ==
  /\ scoped \in BOOLEAN
  /\ barred \in IF scoped THEN SUBSET Orders ELSE {{}}
  /\ current = 0 /\ phase = "idle" /\ answer = NoAnswer
  /\ outcome = [i \in CallNumbers |-> NoOutcome]
  /\ targets = {} /\ todo = {} /\ acked = {}
  /\ cause = NoStatus /\ target = AccountWide
  /\ command = [m \in Sent |-> "none"]
  /\ order \in [Orders -> {"unsent", "resting"}]
  /\ present = [i \in CallNumbers |-> {}]

(* The orders on the market: the live ones, and those the exchange has not *)
(* acknowledged yet, which no cancel can name.                             *)
Live == {o \in Orders : order[o] = "resting"}
Unacknowledged == {o \in Orders : order[o] = "entering"}

-----------------------------------------------------------------------------
(* The client.  A call is over once its caller has an outcome.             *)

CancelAllOrders ==
  /\ phase \in {"idle", "over"} /\ current < MaxCalls
  /\ current' = current + 1
  /\ phase' = "wire" /\ answer' = NoAnswer
  /\ present' = [present EXCEPT ![current + 1] = Live \cup Unacknowledged]
  /\ UNCHANGED <<caller, outcome, sweepVars, command, order>>

Conclude(o) ==
  /\ phase \notin {"idle", "over"} /\ phase' = "over"
  /\ outcome' = [outcome EXCEPT ![current] = o]
  /\ UNCHANGED <<caller, current, answer, sweepVars, command, order, present>>

RaisedFor(status) ==
  LET error == ErrorOf("CancelAllOrders", status, TRUE) IN
  [kind |-> "raised", cls |-> error.cls, rejected |-> error.rejected]

(* Mutant: a partial sweep's error is taken for a short list of orders.    *)
DeliverCounting ==
  /\ phase = "answered"
  /\ \/ answer.kind = "deleted" /\ Conclude(answer)
     \/ /\ answer.kind = "status"
        /\ Conclude(IF answer.status.clause THEN [kind |-> "deleted", orders |-> acked]
                    ELSE RaisedFor(answer.status))

Deliver ==
  /\ phase = "answered"
  /\ \/ answer.kind = "deleted" /\ Conclude(answer)
     \/ answer.kind = "status" /\ Conclude(RaisedFor(answer.status))

(* The deadline passes: the call raises, and the sweep stops where it is.  *)
DeadlinePasses == Conclude(RaisedFor(Failure("DEADLINE_EXCEEDED")))

(* So does a broken or closed connection.                                  *)
ConnectionFails ==
  \E code \in {"UNAVAILABLE", "CANCELLED"} : Conclude(RaisedFor(Failure(code)))

-----------------------------------------------------------------------------
(* The gateway (external).                                                 *)

Reply(a) == phase' = "answered" /\ answer' = a

RefuseCall ==
  /\ phase = "wire"
  /\ \E code \in RefusalCodes :
       Reply([kind |-> "status", status |-> Failure(code)])
  /\ UNCHANGED <<caller, current, outcome, sweepVars, command, order, present>>

(* A member's sweep is after all of its orders on the market, but for      *)
(* those in an area it may not trade: neither cancelled nor counted.       *)
BeginSweep ==
  /\ phase = "wire" /\ phase' = "sweep"
  /\ targets' = IF scoped THEN (Live \cup Unacknowledged) \ barred ELSE Live
  /\ todo' = IF scoped THEN Live \ barred ELSE {AccountWide}
  /\ acked' = {} /\ cause' = NoStatus
  /\ UNCHANGED <<caller, current, answer, outcome, target, command, order, present>>

FirstCause(status) == IF cause = NoStatus THEN status ELSE cause

(* A cancel is published, and the gateway waits for its receipt.           *)
SendCancel(x) ==
  /\ phase = "sweep" /\ x \in todo
  /\ phase' = "waiting" /\ target' = x /\ todo' = todo \ {x}
  /\ command' = [command EXCEPT ![<<current, x>>] = "sent"]
  /\ UNCHANGED <<caller, current, answer, outcome, targets, acked, cause, order,
                 present>>

(* Its product has no price scale: it is left out, and the sweep goes on.  *)
CannotScale(o) ==
  /\ phase = "sweep" /\ o \in todo \cap Orders
  /\ todo' = todo \ {o}
  /\ cause' = FirstCause(Failure("FAILED_PRECONDITION"))
  /\ UNCHANGED <<caller, current, phase, answer, outcome, targets, acked,
                 target, command, order, present>>

(* Nothing can be published any more, or the member is order-restricted:   *)
(* the sweep stops at this order.                                          *)
CannotSend ==
  /\ phase = "sweep" /\ todo # {} /\ todo' = {}
  /\ \E code \in {"UNAVAILABLE", "FAILED_PRECONDITION"} :
       cause' = FirstCause(Failure(code))
  /\ UNCHANGED <<caller, current, phase, answer, outcome, targets, acked,
                 target, command, order, present>>

Command == command[<<current, target>>]
Receipted == {"received", "executed", "declined"}
Covered(x) == IF x = AccountWide THEN Orders ELSE {x}

(* Mutant: the one command is counted for every order of the account.      *)
HearReceiptUncut ==
  /\ phase = "waiting" /\ phase' = "sweep"
  /\ Command \in Receipted
  /\ acked' = acked \cup Covered(target)
  /\ UNCHANGED <<caller, current, answer, outcome, targets, todo, cause, target,
                 command, order, present>>

(* The exchange acknowledges the cancel; the gateway counts its orders.    *)
HearReceipt ==
  /\ phase = "waiting" /\ phase' = "sweep"
  /\ Command \in Receipted
  /\ acked' = acked \cup (Covered(target) \cap targets)
  /\ UNCHANGED <<caller, current, answer, outcome, targets, todo, cause, target,
                 command, order, present>>

(* The exchange refuses this cancel; the others still go out.              *)
HearRefusal ==
  /\ phase = "waiting" /\ phase' = "sweep"
  /\ Command = "refused"
  /\ cause' = FirstCause(Failure("ABORTED"))
  /\ UNCHANGED <<caller, current, answer, outcome, targets, todo, acked, target,
                 command, order, present>>

(* The route to the exchange fails: returned undelivered, or no receipt in *)
(* time, after which the command may still be carried out.                 *)
RouteFails ==
  /\ phase = "waiting" /\ phase' = "sweep" /\ todo' = {}
  /\ \/ /\ Command = "sent"
        /\ command' = [command EXCEPT ![<<current, target>>] = "returned"]
        /\ cause' = FirstCause(Marked("UNAVAILABLE", "NOT_PROCESSED"))
     \/ /\ cause' = FirstCause(Failure("DEADLINE_EXCEEDED"))
        /\ UNCHANGED command
  /\ UNCHANGED <<caller, current, answer, outcome, targets, acked, target, order,
                 present>>

(* Success only if every target was acknowledged; otherwise the first      *)
(* failure's status, with the counts at its end if the caller is scoped.   *)
EndSweep ==
  /\ phase = "sweep" /\ todo = {}
  /\ LET pending == Marked("ABORTED", "ORDER_PENDING")
         status == [FirstCause(pending) EXCEPT !.clause = scoped]
     IN  Reply(IF cause = NoStatus /\ acked = targets
               THEN [kind |-> "deleted", orders |-> acked]
               ELSE [kind |-> "status", status |-> status])
  /\ UNCHANGED <<caller, current, outcome, sweepVars, command, order, present>>

-----------------------------------------------------------------------------
(* The exchange (external), and the caller's other orders.                 *)

world == <<caller, current, phase, answer, outcome, sweepVars, present>>

Receive(m) ==
  /\ command[m] = "sent"
  /\ \/ command' = [command EXCEPT ![m] = "received"]
     \/ command' = [command EXCEPT ![m] = "refused"]
  /\ UNCHANGED <<world, order>>

(* After its receipt the exchange may still refuse a cancel.               *)
Decline(m) ==
  /\ command[m] = "received"
  /\ command' = [command EXCEPT ![m] = "declined"]
  /\ UNCHANGED <<world, order>>

(* Receipt comes before deletion: an order may be filled in between.       *)
Execute(m) ==
  /\ command[m] = "received"
  /\ command' = [command EXCEPT ![m] = "executed"]
  /\ order' = [o \in Orders |->
       IF o \in Covered(m[2]) /\ order[o] = "resting" THEN "off" ELSE order[o]]
  /\ UNCHANGED world

OrderMoves(o) ==
  /\ \/ order[o] = "unsent"   /\ order' = [order EXCEPT ![o] = "entering"]
     \/ order[o] = "entering" /\ order' = [order EXCEPT ![o] = "resting"]
     \/ order[o] = "resting"  /\ order' = [order EXCEPT ![o] = "off"]
  /\ UNCHANGED <<world, command>>

-----------------------------------------------------------------------------
ClientStep == CancelAllOrders \/ Deliver \/ DeadlinePasses \/ ConnectionFails

GatewayStep ==
  \/ RefuseCall \/ BeginSweep
  \/ \E x \in Orders \cup {AccountWide} : SendCancel(x)
  \/ \E o \in Orders : CannotScale(o)
  \/ CannotSend \/ HearReceipt \/ HearRefusal \/ RouteFails \/ EndSweep

ExchangeStep ==
  \/ \E m \in Sent : Receive(m) \/ Decline(m) \/ Execute(m)
  \/ \E o \in Orders : OrderMoves(o)

Next == ClientStep \/ GatewayStep \/ ExchangeStep
Spec == Init /\ [][Next]_vars

-----------------------------------------------------------------------------
(* Properties.                                                             *)

Phases == {"idle", "wire", "sweep", "waiting", "answered", "over"}
CommandStates ==
  {"none", "sent", "received", "executed", "declined", "refused", "returned"}

(* Types, and the shape of a sweep: what it still has to send and what was *)
(* acknowledged are apart, and both are targets.                           *)
SweepTypeOK ==
  /\ scoped \in BOOLEAN /\ barred \subseteq Orders
  /\ current \in 0 .. MaxCalls /\ phase \in Phases
  /\ outcome \in [CallNumbers -> Outcomes]
  /\ targets \subseteq Orders /\ acked \subseteq targets
  /\ todo \subseteq Orders \cup {AccountWide}
  /\ phase \in {"sweep", "waiting"} => todo \cap acked = {}
  /\ target \in Orders \cup {AccountWide}
  /\ command \in [Sent -> CommandStates]
  /\ order \in [Orders -> {"unsent", "entering", "resting", "off"}]

(* A cancel-all that reports request_definitely_rejected = True cancelled  *)
(* nothing, and nothing it sent can still be carried out: an incomplete    *)
(* sweep never claims that, whatever the type of its first failure.        *)
SweepHonest ==
  \A i \in CallNumbers :
    outcome[i].kind = "raised" /\ outcome[i].rejected =>
      \A x \in Orders \cup {AccountWide} :
        command[<<i, x>>] \in {"none", "refused", "returned"}

(* A member-scoped cancel-all that returns has overlooked no order that    *)
(* was on the market when it was called and that it may cancel, one still  *)
(* unacknowledged included.  It is no proof that the book is clear: what   *)
(* is left had its cancel acknowledged, and the exchange has yet to carry  *)
(* it out or has refused it since.                                         *)
NoneOverlooked ==
  scoped => \A i \in CallNumbers :
    outcome[i].kind = "deleted" =>
      \A o \in present[i] \ barred :
        order[o] = "off" \/ command[<<i, o>>] \in {"received", "declined"}
=============================================================================
