------------------------------- MODULE Baskets -------------------------------
(***************************************************************************)
(* submit_basket and cancel_basket: several orders entered as one under a  *)
(* basket_ref, and the cancel of what rests of them.  One caller, whose    *)
(* next call starts when the last has ended: it submits again under the    *)
(* reference after an error, with new client_order_ids, while requests of  *)
(* its earlier calls are still on their way.  The gateway and the exchange *)
(* are external.                                                           *)
(***************************************************************************)
EXTENDS OrderErrors, Integers

CONSTANTS
  Orders,      \* the orders of the basket
  MaxCalls,    \* bound on the caller's calls
  MaxRestarts  \* bound on gateway restarts

ASSUME BasketBounds == MaxCalls \in Nat /\ MaxRestarts \in Nat

(* build_submit_basket_request refuses a basket that carries no order.     *)
ASSUME BasketCarries == Orders # {}

VARIABLES
  inst,     \* list_exec_inst of the basket: none, valid, linked
  current,  \* number of the latest call
  open,     \* whether its caller still waits
  method,   \* what each call was: none, submit, cancel
  told,     \* what each call gave its caller
  reply,    \* the gateway's answer, on its way to the latest call
  entry,    \* where the request of each submission is
  seen,     \* gateway: what it holds of each order entered
  sweep,    \* gateway: the cancel at work
  command,  \* exchange: the cancels of each call
  lot,      \* exchange: each order entered
  present,  \* history: the orders the gateway held when each call was made
  restarts  \* history: gateway restarts so far

clientVars == <<inst, current, method, present>>
vars == <<clientVars, open, told, reply, entry, seen, sweep, command, lot, restarts>>

Calls == 1 .. MaxCalls
Items == Calls \X Orders

NoReply == [kind |-> "none"]
Fail(status) == [kind |-> "status", status |-> status]
States(f) == [kind |-> "states", states |-> f]
Results(f) == [kind |-> "results", results |-> f]
NotTold == [kind |-> "none"]

Idle == [phase |-> "idle"]
Swept == sweep.results

-----------------------------------------------------------------------------
(* The client.                                                             *)

Begin(m) ==
  /\ ~open /\ current < MaxCalls
  /\ open' = TRUE /\ current' = current + 1
  /\ method' = [method EXCEPT ![current + 1] = m]
  /\ present' = [present EXCEPT ![current + 1] =
                   {x \in Items : seen[x] \in {"pending", "resting"}}]
  /\ UNCHANGED <<inst, told, reply, seen, command, lot, restarts>>

SubmitBasket ==
  /\ Begin("submit")
  /\ entry' = [entry EXCEPT ![current + 1] = "wire"]
  /\ UNCHANGED sweep

CancelBasket ==
  /\ Begin("cancel") /\ current > 0
  /\ sweep' = [phase |-> "wire"]
  /\ UNCHANGED entry

(* The call ends; a submission goes on without it, a cancel stops.         *)
Conclude(o) ==
  /\ open /\ open' = FALSE
  /\ told' = [told EXCEPT ![current] = o]
  /\ reply' = NoReply /\ sweep' = Idle
  /\ UNCHANGED <<clientVars, entry, seen, command, lot, restarts>>

(* Mutant: the basket methods forget order_mutating=True.                  *)
RaisedForPlain(status) ==
  LET error == ErrorOf("Basket", status, FALSE) IN
  [kind |-> "raised", cls |-> error.cls, rejected |-> error.rejected]

RaisedFor(status) ==
  LET error == ErrorOf("Basket", status, TRUE) IN
  [kind |-> "raised", cls |-> error.cls, rejected |-> error.rejected]

Deliver ==
  \/ reply.kind = "status" /\ Conclude(RaisedFor(reply.status))
  \/ reply.kind \in {"states", "results"} /\ Conclude(reply)

(* The deadline passes, the connection breaks, the channel is closed.      *)
CallFails ==
  \E code \in {"DEADLINE_EXCEEDED", "UNAVAILABLE", "CANCELLED"} :
    Conclude(RaisedFor(Failure(code)))

-----------------------------------------------------------------------------
(* The gateway (external): entering a basket.                              *)

Waits(c) == open /\ current = c /\ reply = NoReply
ReplyTo(c, r) == reply' = IF Waits(c) THEN r ELSE reply

Settle(c, stage, r) ==
  /\ entry' = [entry EXCEPT ![c] = stage] /\ ReplyTo(c, r)
  /\ UNCHANGED <<clientVars, open, told, sweep, command, lot, restarts>>

LoseRequest(c) == entry[c] = "wire" /\ Settle(c, "over", reply) /\ UNCHANGED seen

InUse == \E x \in Items : seen[x] # "none"

(* Refused whole, before anything is sent: a check one of its orders fails *)
(* or a reference in use.                                                  *)
RefuseBasket(c) ==
  /\ entry[c] = "wire"
  /\ \/ \E code \in {"PERMISSION_DENIED", "FAILED_PRECONDITION"} :
          Settle(c, "over", Fail(Failure(code)))
     \/ InUse /\ Settle(c, "over", Fail(Failure("INVALID_ARGUMENT")))
  /\ UNCHANGED seen

Holding(c, state) == [x \in Items |-> IF x[1] = c THEN state ELSE seen[x]]

Publish(c) ==
  /\ entry[c] = "wire" /\ ~InUse
  /\ Settle(c, "exchange", reply)
  /\ seen' = Holding(c, "pending")

(* The caller has an answer that rests on the exchange's receipt.          *)
Receipted(c) ==
  told[c].kind = "states" \/ (current = c /\ reply.kind = "states")

BrokerReturns(c) ==
  /\ entry[c] = "exchange" /\ ~Receipted(c)
  /\ Settle(c, "over", Fail(Marked("UNAVAILABLE", "NOT_PROCESSED")))
  /\ seen' = Holding(c, "none")

(* Mutant: no acknowledgement in time frees the reference.                 *)
GiveUpFreeing(c) ==
  /\ entry[c] \in {"exchange", "decided", "dropped"} /\ Waits(c)
  /\ Settle(c, entry[c], Fail(Failure("DEADLINE_EXCEEDED")))
  /\ seen' = Holding(c, "none")

GiveUp(c) ==
  /\ entry[c] \in {"exchange", "decided", "dropped"} /\ Waits(c)
  /\ Settle(c, entry[c], Fail(Failure("DEADLINE_EXCEEDED")))
  /\ UNCHANGED seen

(* Acknowledged; an order not heard of by the end of the wait is PENDING.  *)
StateOf(x) ==
  CASE seen[x] \in {"pending", "none"} -> "PENDING"
    [] seen[x] = "rejected"            -> "REJECTED"
    [] OTHER                           -> "ACCEPTED"

AnswerBasket(c) ==
  /\ entry[c] \in {"exchange", "decided"} /\ Waits(c)
  /\ Settle(c, entry[c], States([p \in Orders |-> StateOf(<<c, p>>)]))
  /\ UNCHANGED seen

HearStates(f) ==
  /\ seen' = f
  /\ UNCHANGED <<clientVars, open, told, reply, entry, sweep, command, lot, restarts>>

(* The report of one order.                                                *)
HearReport(x) ==
  /\ lot[x] \in {"resting", "filled", "off"} /\ lot[x] # seen[x]
  /\ seen[x] \in {"pending", "resting"} \/ lot[x] = "resting"
  /\ HearStates([seen EXCEPT ![x] = lot[x]])

(* Mutant: only the orders a refusal names are taken for refused.          *)
HearRefusedNamed(c) ==
  \E named \in (SUBSET {p \in Orders : lot[<<c, p>>] = "rejected"}) \ {{}} :
    /\ \A p \in named : seen[<<c, p>>] = "pending"
    /\ HearStates([x \in Items |->
         IF x[1] = c /\ x[2] \in named THEN "rejected" ELSE seen[x]])

(* A refusal names some orders; a valid or linked list is refused whole.   *)
HearRefused(c) ==
  \E named \in (SUBSET {p \in Orders : lot[<<c, p>>] = "rejected"}) \ {{}} :
    /\ \A p \in named : seen[<<c, p>>] = "pending"
    /\ HearStates([x \in Items |->
         IF x[1] = c /\ (inst # "none" \/ x[2] \in named) THEN "rejected" ELSE seen[x]])

(* A basket that can be executed no more keeps its reference for good.     *)
Reap(c) ==
  /\ entry[c] = "dropped" /\ Settle(c, "over", reply)
  /\ seen' = [x \in Items |->
                IF x[1] = c /\ seen[x] = "pending" THEN "retired" ELSE seen[x]]

ForgetFinished(x) ==
  /\ seen[x] \in {"filled", "off", "rejected"} /\ ~Waits(x[1])
  /\ HearStates([seen EXCEPT ![x] = "none"])

-----------------------------------------------------------------------------
(* The gateway (external): cancelling one.                                 *)

Sweeping(s) ==
  /\ sweep' = s
  /\ UNCHANGED <<clientVars, open, told, entry, seen, lot, restarts>>

(* Mutant: an order not yet acknowledged is left out of the results.       *)
BeginCancelSilently ==
  /\ sweep.phase = "wire"
  /\ IF InUse
     THEN /\ Sweeping([phase |-> "sweep", todo |-> {x \in Items : seen[x] = "resting"},
                       results |-> [x \in Items |-> "none"]])
          /\ UNCHANGED reply
     ELSE Sweeping(Idle) /\ reply' = Fail(Failure("NOT_FOUND"))
  /\ UNCHANGED command

(* One cancel per resting order; one not yet acknowledged is reported.     *)
BeginCancel ==
  /\ sweep.phase = "wire"
  /\ \/ /\ InUse
        /\ Sweeping([phase |-> "sweep", todo |-> {x \in Items : seen[x] = "resting"},
                     results |-> [x \in Items |->
                       IF seen[x] = "pending" THEN "ORDER_PENDING" ELSE "none"]])
        /\ UNCHANGED reply
     \/ ~InUse /\ Sweeping(Idle) /\ reply' = Fail(Failure("NOT_FOUND"))
     \/ Sweeping(Idle) /\ reply' = Fail(Failure("PERMISSION_DENIED"))
  /\ UNCHANGED command

SendCancel(x) ==
  /\ sweep.phase = "sweep" /\ x \in sweep.todo
  /\ Sweeping([phase |-> "waiting", todo |-> sweep.todo \ {x}, results |-> Swept,
               target |-> x])
  /\ command' = [command EXCEPT ![current][x] = "sent"]
  /\ UNCHANGED reply

NextOrder(result) ==
  Sweeping([phase |-> "sweep", todo |-> sweep.todo,
            results |-> [Swept EXCEPT ![sweep.target] = result]])

(* The cancels the exchange acknowledged, carried out or refused since.     *)
Taken == {"received", "executed", "declined"}

HearCancel ==
  /\ sweep.phase = "waiting"
  /\ \/ command[current][sweep.target] \in Taken
        /\ NextOrder("cancelled")
     \/ command[current][sweep.target] = "refused" /\ NextOrder("refused")
  /\ UNCHANGED <<reply, command>>

(* Mutant: a failure of the route is the call's error in any case.         *)
StopAlways(left, status) == Sweeping(Idle) /\ reply' = Fail(status)

(* A failure of the route stops the cancel: the call's error, or after an  *)
(* acknowledged cancel the result of every order left.                     *)
Stop(left, status) ==
  IF \E x \in Items : Swept[x] = "cancelled"
  THEN /\ Sweeping([phase |-> "sweep", todo |-> {},
                    results |-> [x \in Items |-> IF x \in left THEN "route" ELSE Swept[x]]])
       /\ UNCHANGED reply
  ELSE Sweeping(Idle) /\ reply' = Fail(status)

CannotSend ==
  /\ sweep.phase = "sweep" /\ sweep.todo # {}
  /\ \E code \in {"UNAVAILABLE", "FAILED_PRECONDITION"} : Stop(sweep.todo, Failure(code))
  /\ UNCHANGED command

RouteFails ==
  /\ sweep.phase = "waiting"
  /\ LET left == sweep.todo \cup {sweep.target} IN
     \/ Stop(left, Failure("DEADLINE_EXCEEDED")) /\ UNCHANGED command
     \/ /\ command[current][sweep.target] = "sent"
        /\ Stop(left, Marked("UNAVAILABLE", "NOT_PROCESSED"))
        /\ command' = [command EXCEPT ![current][sweep.target] = "returned"]

EndCancel ==
  /\ sweep.phase = "sweep" /\ sweep.todo = {}
  /\ reply' = Results(Swept) /\ Sweeping(Idle)
  /\ UNCHANGED command

(* The connections break and the records are rebuilt from what is on the   *)
(* market; the exchange may have deleted the orders of the basket.         *)
Restart ==
  /\ restarts < MaxRestarts /\ restarts' = restarts + 1
  /\ \E kept \in BOOLEAN :
       lot' = IF kept THEN lot
              ELSE [x \in Items |-> IF lot[x] = "resting" THEN "off" ELSE lot[x]]
  /\ seen' = [x \in Items |-> IF lot'[x] = "resting" THEN "resting" ELSE "none"]
  /\ entry' = [c \in Calls |-> IF entry[c] = "wire" THEN "over" ELSE entry[c]]
  /\ reply' = IF open /\ reply = NoReply THEN Fail(Failure("UNAVAILABLE")) ELSE reply
  /\ sweep' = Idle
  /\ UNCHANGED <<clientVars, open, told, command>>

-----------------------------------------------------------------------------
(* The exchange (external).                                                *)

(* What a list of this kind can come to.                                   *)
Fates ==
  LET all(s) == [p \in Orders |-> s] IN
  CASE inst = "none"   -> [Orders -> {"resting", "rejected"}]
    [] inst = "valid"  -> {all("resting"), all("rejected")}
    [] inst = "linked" -> {all("filled"), all("off"), all("rejected")}

Decide(c) ==
  /\ entry[c] = "exchange"
  /\ entry' = [entry EXCEPT ![c] = "decided"]
  /\ \E f \in Fates : lot' = [x \in Items |-> IF x[1] = c THEN f[x[2]] ELSE lot[x]]
  /\ UNCHANGED <<clientVars, open, told, reply, seen, sweep, command, restarts>>

DropExpired(c) ==
  /\ entry[c] = "exchange" /\ ~Receipted(c)
  /\ entry' = [entry EXCEPT ![c] = "dropped"]
  /\ UNCHANGED <<clientVars, open, told, reply, seen, sweep, command, lot, restarts>>

Fill(x) ==
  /\ lot[x] = "resting" /\ lot' = [lot EXCEPT ![x] = "filled"]
  /\ UNCHANGED <<clientVars, open, told, reply, entry, seen, sweep, command, restarts>>

ReceiveCancel(c, x) ==
  /\ command[c][x] = "sent"
  /\ \E s \in {"received", "refused"} : command' = [command EXCEPT ![c][x] = s]
  /\ UNCHANGED <<clientVars, open, told, reply, entry, seen, sweep, lot, restarts>>

(* After its receipt the exchange may still refuse a cancel.               *)
DeclineCancel(c, x) ==
  /\ command[c][x] = "received" /\ command' = [command EXCEPT ![c][x] = "declined"]
  /\ UNCHANGED <<clientVars, open, told, reply, entry, seen, sweep, lot, restarts>>

ExecuteCancel(c, x) ==
  /\ command[c][x] = "received" /\ command' = [command EXCEPT ![c][x] = "executed"]
  /\ lot' = [lot EXCEPT ![x] = IF @ = "resting" THEN "off" ELSE @]
  /\ UNCHANGED <<clientVars, open, told, reply, entry, seen, sweep, restarts>>

-----------------------------------------------------------------------------
Init ==
  /\ inst \in {"none", "valid", "linked"}
  /\ current = 0 /\ open = FALSE /\ reply = NoReply /\ sweep = Idle
  /\ method = [c \in Calls |-> "none"]
  /\ told = [c \in Calls |-> NotTold]
  /\ entry = [c \in Calls |-> "none"]
  /\ seen = [x \in Items |-> "none"] /\ lot = [x \in Items |-> "none"]
  /\ command = [c \in Calls |-> [x \in Items |-> "none"]]
  /\ present = [c \in Calls |-> {}]
  /\ restarts = 0

ClientStep == SubmitBasket \/ CancelBasket \/ Deliver \/ CallFails

EntryStep(c) ==
  \/ LoseRequest(c) \/ RefuseBasket(c) \/ Publish(c) \/ BrokerReturns(c)
  \/ GiveUp(c) \/ AnswerBasket(c) \/ HearRefused(c) \/ Reap(c)
  \/ Decide(c) \/ DropExpired(c)

CancelStep ==
  \/ BeginCancel \/ HearCancel \/ CannotSend \/ RouteFails \/ EndCancel
  \/ \E x \in Items : SendCancel(x)
  \/ \E c \in Calls, x \in Items :
       ReceiveCancel(c, x) \/ DeclineCancel(c, x) \/ ExecuteCancel(c, x)

OrderStep(x) == HearReport(x) \/ ForgetFinished(x) \/ Fill(x)

Next ==
  \/ ClientStep \/ CancelStep \/ Restart
  \/ \E c \in Calls : EntryStep(c)
  \/ \E x \in Items : OrderStep(x)

Spec == Init /\ [][Next]_vars

-----------------------------------------------------------------------------
(* Properties.                                                             *)

Untouched(c) == \A x \in Items : command[c][x] \in {"none", "refused", "returned"}
NotPlaced(c) ==
  entry[c] \in {"over", "dropped"} /\ \A p \in Orders : lot[<<c, p>>] = "none"

(* What a basket call says for certain is so, and stays so: an error with  *)
(* request_definitely_rejected placed or cancelled nothing; an order that  *)
(* is answered REJECTED or a cancel that was refused had no effect, and of *)
(* a valid or linked list one REJECTED order means all.                    *)
BasketHonest ==
  \A c \in Calls :
    /\ told[c].kind = "raised" /\ told[c].rejected =>
         IF method[c] = "submit" THEN NotPlaced(c) ELSE Untouched(c)
    /\ told[c].kind = "states" =>
         \A p \in Orders :
           /\ told[c].states[p] = "REJECTED" => lot[<<c, p>>] = "rejected"
           /\ told[c].states[p] = "ACCEPTED" => lot[<<c, p>>] \in {"resting", "filled", "off"}
           /\ told[c].states[p] = "REJECTED" /\ inst # "none" =>
                \A q \in Orders : told[c].states[q] = "REJECTED"
    /\ told[c].kind = "results" =>
         \A x \in Items :
           told[c].results[x] \in {"refused", "ORDER_PENDING"} =>
             command[c][x] \in {"none", "refused", "returned"}

(* While the gateway keeps its records, a basket_ref enters one basket at  *)
(* a time, whatever was submitted again after errors and timeouts.         *)
Alive(c) == entry[c] = "exchange" \/ \E p \in Orders : lot[<<c, p>>] = "resting"
OneBasketPerRef ==
  restarts = 0 => \A c, d \in Calls : Alive(c) /\ Alive(d) => c = d

(* A cancel_basket that reports nothing but acknowledged cancels has       *)
(* forgotten no order the gateway held under the reference when it was     *)
(* called, as one still pending would be: each can trade no more, or its   *)
(* cancel was acknowledged, which is no proof that it was carried out.     *)
NoneForgotten ==
  \A c \in Calls :
    /\ told[c].kind = "results"
    /\ \A x \in Items : told[c].results[x] \in {"none", "cancelled"}
    => \A x \in present[c] :
         \/ lot[x] # "resting" /\ entry[x[1]] # "exchange"
         \/ command[c][x] \in {"received", "declined"}

(* What an observer of the exchange would say of each order and of each    *)
(* cancel, and that it is what BasketPromise promises: whatever is lost,   *)
(* late or entered again, a call shows its caller one basket decided once. *)
FateOf(x) ==
  CASE lot[x] = "rejected"                      -> "rejected"
    [] lot[x] \in {"resting", "filled", "off"}  -> "placed"
    [] lot[x] = "none" /\ entry[x[1]] \in {"dropped", "over"} -> "lapsed"
    [] OTHER                                    -> "open"
GripOf(c, x) ==
  CASE command[c][x] = "received"                -> "held"
    [] command[c][x] = "executed"                -> "done"
    [] command[c][x] = "declined"                -> "declined"
    [] command[c][x] \in {"refused", "returned"} -> "never"
    [] command[c][x] = "none" /\ told[c].kind # "none" -> "never"
    [] OTHER                                    -> "open"

Promise == INSTANCE BasketPromise
  WITH fate <- [x \in Items |-> FateOf(x)],
       grip <- [c \in Calls |-> [x \in Items |-> GripOf(c, x)]]
KeepsBasketPromise == Promise!Spec
=============================================================================
