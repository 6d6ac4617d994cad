----------------------------- MODULE OrderCalls -----------------------------
(***************************************************************************)
(* The order path: VoltnirClient's order methods and the _unary helper     *)
(* they share, against the gateway and the exchange they talk to.          *)
(*                                                                         *)
(* A call's request goes on after the call has failed at the client: a     *)
(* deadline or a broken connection ends the call, not the request.  The    *)
(* gateway and the exchange are not in this repository; their actions are  *)
(* modelled from what the SDK's error mapping and docs rely on.            *)
(***************************************************************************)
EXTENDS OrderErrors, Integers

CONSTANTS
  Calls,        \* invocations of an order method, each made at most once
  Keys,         \* client_order_id values
  RefusalCodes, \* codes the gateway refuses a request with before sending it
  GiveUpCodes,  \* codes it ends a published request with, knowing nothing
  NoCall,       \* nobody holds the modify lock / the record
  MaxRev,       \* bound on the revisions of an exchange order
  MaxRestarts   \* bound on gateway restarts

ASSUME NoCallAssumption == NoCall \notin Calls
ASSUME RefusalAssumption == RefusalCodes \subseteq StatusCodes
ASSUME GiveUpAssumption == GiveUpCodes \subseteq UncertainCodes
ASSUME BoundsAssumption == MaxRev \in Nat /\ MaxRestarts \in Nat

VARIABLES
  call,      \* client side of the invocation: idle, open, done
  req,       \* its request: the RPC and the key it names
  outcome,   \* what the method gave its caller
  stage,     \* where its request is now
  base,      \* the revision the gateway built the command on
  reply,     \* the gateway's answer, on its way to the client
  record,    \* gateway: what it holds under each key
  holder,    \* gateway: the submission a pending record came from
  known,     \* gateway: the order's revision as last reported
  lock,      \* gateway: the modify in flight on the order
  book,      \* exchange: number of resting orders entered under the key
  rev,       \* exchange: the order's revision
  applied,   \* history: whether the request took effect at the exchange
  restarts   \* history: gateway restarts so far

clientVars   == <<call, req, outcome>>
gatewayVars  == <<record, holder, known, lock>>
exchangeVars == <<book, rev, applied>>
vars == <<call, req, outcome, stage, base, reply,
          record, holder, known, lock, book, rev, applied, restarts>>

-----------------------------------------------------------------------------
(* Requests, answers and outcomes.                                         *)

Rpcs == {"SubmitOrder", "ModifyOrder", "CancelOrder"}
Requests == [rpc : Rpcs, key : Keys]
NoRequest == [rpc |-> "none"]

Answers == {"ACTIVE", "PENDING", "REJECTED", "CONFIRMED", "ACKNOWLEDGED"}
NoReply == [kind |-> "none"]
Answer(a) == [kind |-> "answer", answer |-> a]
Fail(status) == [kind |-> "status", status |-> status]
Replies == {NoReply} \cup [kind : {"answer"}, answer : Answers]
                     \cup [kind : {"status"}, status : Statuses]

NoOutcome == [kind |-> "none"]
Returned(a) == [kind |-> "returned", answer |-> a]
Raised(error) ==
  [kind |-> "raised", cls |-> error.cls, rejected |-> error.rejected]
Outcomes == {NoOutcome} \cup [kind : {"returned"}, answer : Answers]
              \cup [kind : {"raised"}, cls : ErrorClasses, rejected : BOOLEAN]

(* wire: sent, not received.  exchange: published, may yet be executed.    *)
(* executed, changed, refused: the exchange has decided and the gateway    *)
(* has not heard.  dropped: expired in the exchange's queue.  over: done.  *)
Stages == { "none", "wire", "exchange", "executed", "changed", "refused",
            "dropped", "over" }

Records == {"free", "pending", "live", "finished", "rejected", "retired"}

IsSubmit(c) == req[c].rpc = "SubmitOrder"
IsModify(c) == req[c].rpc = "ModifyOrder"
KeyOf(c) == req[c].key

Init ==
  /\ call = [c \in Calls |-> "idle"]
  /\ req = [c \in Calls |-> NoRequest]
  /\ outcome = [c \in Calls |-> NoOutcome]
  /\ stage = [c \in Calls |-> "none"]
  /\ base = [c \in Calls |-> 0]
  /\ reply = [c \in Calls |-> NoReply]
  /\ record = [k \in Keys |-> "free"]
  /\ holder = [k \in Keys |-> NoCall]
  /\ known = [k \in Keys |-> 0]
  /\ lock = [k \in Keys |-> NoCall]
  /\ book = [k \in Keys |-> 0]
  /\ rev = [k \in Keys |-> 0]
  /\ applied = [c \in Calls |-> FALSE]
  /\ restarts = 0

-----------------------------------------------------------------------------
(* The client: _unary and the order methods.                               *)

(* The stub is invoked: from here on the request is out of the SDK's hands. *)
Invoke(c, rpc, k) ==
  /\ call[c] = "idle"
  /\ call' = [call EXCEPT ![c] = "open"]
  /\ req' = [req EXCEPT ![c] = [rpc |-> rpc, key |-> k]]
  /\ stage' = [stage EXCEPT ![c] = "wire"]
  /\ UNCHANGED <<outcome, base, reply, gatewayVars, exchangeVars, restarts>>

SubmitOrder(c, k) == Invoke(c, "SubmitOrder", k)
ModifyOrder(c, k) == Invoke(c, "ModifyOrder", k)
CancelOrder(c, k) == Invoke(c, "CancelOrder", k)

(* The call ends and its caller gets o; the request carries on.            *)
Conclude(c, o) ==
  /\ call' = [call EXCEPT ![c] = "done"]
  /\ outcome' = [outcome EXCEPT ![c] = o]
  /\ reply' = [reply EXCEPT ![c] = NoReply]
  /\ UNCHANGED <<req, stage, base, gatewayVars, exchangeVars, restarts>>

(* Mutant: an order method that forgets order_mutating=True.               *)
RaisedForPlain(c, status) == Raised(ErrorOf(req[c].rpc, status, FALSE))

(* The error translate builds for an order method, order_mutating=True.    *)
RaisedFor(c, status) == Raised(ErrorOf(req[c].rpc, status, TRUE))

(* The deadline every unary call carries runs out at the client.           *)
DeadlineExpires(c) ==
  /\ call[c] = "open"
  /\ Conclude(c, RaisedFor(c, Failure("DEADLINE_EXCEEDED")))

(* The connection breaks, or the channel is closed, under the call.        *)
TransportCodes == {"UNAVAILABLE", "INTERNAL", "UNKNOWN", "CANCELLED"}

TransportFails(c, code) ==
  /\ call[c] = "open"
  /\ Conclude(c, RaisedFor(c, Failure(code)))

(* The gateway's answer reaches the call.                                  *)
Deliver(c) ==
  /\ call[c] = "open"
  /\ \/ /\ reply[c].kind = "answer"
        /\ Conclude(c, Returned(reply[c].answer))
     \/ /\ reply[c].kind = "status"
        /\ Conclude(c, RaisedFor(c, reply[c].status))

-----------------------------------------------------------------------------
(* The gateway (external).                                                 *)

(* The reply of c becomes r, unless it has one or nobody waits for it.     *)
ReplyWith(c, r) ==
  IF call[c] = "open" /\ reply[c] = NoReply
  THEN [reply EXCEPT ![c] = r]
  ELSE reply

Unlock(c) ==
  [lock EXCEPT ![KeyOf(c)] = IF @ = c THEN NoCall ELSE @]

(* The request is lost before it reaches the gateway.                      *)
LoseRequest(c) ==
  /\ stage[c] = "wire"
  /\ stage' = [stage EXCEPT ![c] = "over"]
  /\ UNCHANGED <<clientVars, base, reply, gatewayVars, exchangeVars, restarts>>

(* Answered by the gateway itself: nothing goes to the exchange.           *)
Refuse(c, status) ==
  /\ stage[c] = "wire"
  /\ stage' = [stage EXCEPT ![c] = "over"]
  /\ reply' = ReplyWith(c, Fail(status))
  /\ UNCHANGED <<clientVars, base, gatewayVars, exchangeVars, restarts>>

(* Permission, limits, kill switch, rate bound, unknown product scale...   *)
RefuseRequest(c) ==
  \E code \in RefusalCodes : Refuse(c, Failure(code))

(* A key is refused for as long as the gateway holds a record under it.    *)
RefuseUsedKey(c) ==
  /\ stage[c] = "wire" /\ IsSubmit(c) /\ record[KeyOf(c)] # "free"
  /\ Refuse(c, Failure("INVALID_ARGUMENT"))

(* A command on an order that cannot take one.                             *)
RefuseCommand(c) ==
  LET k == KeyOf(c) IN
  /\ stage[c] = "wire" /\ ~IsSubmit(c)
  /\ \/ /\ record[k] = "pending"
        /\ Refuse(c, Marked("ABORTED", "ORDER_PENDING"))
     \/ /\ record[k] = "live" /\ lock[k] # NoCall
        /\ Refuse(c, Failure("ABORTED"))
     \/ /\ record[k] \notin {"pending", "live"}
        /\ Refuse(c, Failure("NOT_FOUND"))

(* A new order is recorded as pending and published.                       *)
PublishSubmit(c) ==
  LET k == KeyOf(c) IN
  /\ stage[c] = "wire"
  /\ IsSubmit(c) /\ record[k] = "free"
  /\ stage' = [stage EXCEPT ![c] = "exchange"]
  /\ record' = [record EXCEPT ![k] = "pending"]
  /\ holder' = [holder EXCEPT ![k] = c]
  /\ UNCHANGED <<clientVars, base, reply, known, lock, exchangeVars, restarts>>

(* A command is built on the revision the gateway holds and published; a   *)
(* modify takes the order's lock.                                          *)
PublishCommand(c) ==
  LET k == KeyOf(c) IN
  /\ stage[c] = "wire"
  /\ ~IsSubmit(c) /\ record[k] = "live" /\ lock[k] = NoCall
  /\ stage' = [stage EXCEPT ![c] = "exchange"]
  /\ base' = [base EXCEPT ![c] = known[k]]
  /\ lock' = [lock EXCEPT ![k] = IF IsModify(c) THEN c ELSE @]
  /\ UNCHANGED <<clientVars, reply, record, holder, known, exchangeVars,
                 restarts>>

(* The caller's answer says that the exchange acknowledged receipt.        *)
Receipted(c) ==
  \E a \in {"PENDING", "ACKNOWLEDGED"} :
    reply[c] = Answer(a) \/ outcome[c] = Returned(a)

(* The broker hands the request back undelivered: the exchange never saw   *)
(* it, and a new order's key is free again.                                *)
BrokerReturns(c) ==
  LET k == KeyOf(c) IN
  /\ stage[c] = "exchange" /\ ~Receipted(c)
  /\ stage' = [stage EXCEPT ![c] = "over"]
  /\ reply' = ReplyWith(c, Fail(Marked("UNAVAILABLE", "NOT_PROCESSED")))
  /\ record' = [record EXCEPT ![k] =
                  IF IsSubmit(c) /\ @ = "pending" /\ holder[k] = c
                  THEN "free" ELSE @]
  /\ lock' = Unlock(c)
  /\ UNCHANGED <<clientVars, base, holder, known, exchangeVars, restarts>>

(* Mutant: a submission whose acknowledgement is late gives its key back.  *)
GatewayGivesUpFreeing(c) ==
  /\ stage[c] \in {"exchange", "executed", "changed", "refused", "dropped"}
  /\ call[c] = "open" /\ reply[c] = NoReply
  /\ reply' = [reply EXCEPT ![c] = Fail(Failure("DEADLINE_EXCEEDED"))]
  /\ record' = [record EXCEPT ![KeyOf(c)] = IF @ = "pending" THEN "free" ELSE @]
  /\ UNCHANGED <<clientVars, stage, base, holder, known, lock, exchangeVars,
                 restarts>>

(* The gateway stops waiting, with no word from the exchange, or fails.    *)
Published == {"exchange", "executed", "changed", "refused", "dropped"}

GatewayGivesUp(c) ==
  /\ stage[c] \in Published
  /\ call[c] = "open" /\ reply[c] = NoReply
  /\ \E code \in GiveUpCodes :
       reply' = [reply EXCEPT ![c] = Fail(Failure(code))]
  /\ UNCHANGED <<clientVars, stage, base, gatewayVars, exchangeVars, restarts>>

(* The exchange acknowledged receipt, and the answer says no more.         *)
GatewayAcknowledges(c) ==
  /\ stage[c] \in Published \ {"dropped"}
  /\ call[c] = "open" /\ reply[c] = NoReply
  /\ reply' = [reply EXCEPT ![c] =
                 Answer(IF IsSubmit(c) THEN "PENDING" ELSE "ACKNOWLEDGED")]
  /\ UNCHANGED <<clientVars, stage, base, gatewayVars, exchangeVars, restarts>>

(* The execution report of the request reaches the gateway.  A command's   *)
(* report moves a live record only; a submission's opens its own.          *)
Reported(c) ==
  LET k == KeyOf(c)
      current == IF book[k] > 0 THEN "live" ELSE "finished"
      takes == IF IsSubmit(c) THEN record[k] # "pending" \/ holder[k] = c
                              ELSE record[k] = "live"
  IN  IF takes THEN current ELSE record[k]

HearExecuted(c) ==
  LET k == KeyOf(c) IN
  /\ stage[c] = "executed"
  /\ stage' = [stage EXCEPT ![c] = "over"]
  /\ reply' = ReplyWith(c, Answer(IF IsSubmit(c) THEN "ACTIVE"
                                                 ELSE "CONFIRMED"))
  /\ record' = [record EXCEPT ![k] = Reported(c)]
  /\ known' = [known EXCEPT ![k] = rev[k]]
  /\ lock' = Unlock(c)
  /\ UNCHANGED <<clientVars, base, holder, exchangeVars, restarts>>

(* The exchange's refusal reaches the gateway.  A refused new order is a   *)
(* normal answer in state REJECTED; a refused command is ABORTED.          *)
HearRefused(c) ==
  LET k == KeyOf(c) IN
  /\ stage[c] \in {"refused", "changed"}
  /\ stage' = [stage EXCEPT ![c] = "over"]
  /\ reply' = ReplyWith(c,
                IF IsSubmit(c) THEN Answer("REJECTED")
                ELSE IF stage[c] = "changed"
                THEN Fail(Marked("ABORTED", "ORDER_CHANGED"))
                ELSE Fail(Failure("ABORTED")))
  /\ record' = [record EXCEPT ![k] =
                  IF IsSubmit(c) /\ @ = "pending" /\ holder[k] = c
                  THEN "rejected" ELSE @]
  /\ lock' = Unlock(c)
  /\ UNCHANGED <<clientVars, base, holder, known, exchangeVars, restarts>>

(* The order feed brings the gateway up to date on a live order.           *)
HearFill(k) ==
  /\ record[k] = "live"
  /\ known[k] # rev[k] \/ book[k] = 0
  /\ known' = [known EXCEPT ![k] = rev[k]]
  /\ record' = [record EXCEPT ![k] =
                  IF book[k] > 0 THEN "live" ELSE "finished"]
  /\ UNCHANGED <<clientVars, stage, base, reply, holder, lock, exchangeVars,
                 restarts>>

(* The modify lock expires on its own.                                     *)
LockLapses(k) ==
  /\ lock[k] # NoCall
  /\ lock' = [lock EXCEPT ![k] = NoCall]
  /\ UNCHANGED <<clientVars, stage, base, reply, record, holder, known,
                 exchangeVars, restarts>>

(* A submission that can no longer be executed is written off at its       *)
(* expiry bound; its key is retired.                                       *)
Reap(k) ==
  /\ record[k] = "pending"
  /\ holder[k] # NoCall /\ stage[holder[k]] = "dropped"
  /\ record' = [record EXCEPT ![k] = "retired"]
  /\ UNCHANGED <<clientVars, stage, base, reply, holder, known, lock,
                 exchangeVars, restarts>>

(* A resubscription or the contract sweep drops a finished order's record. *)
ForgetFinished(k) ==
  /\ record[k] \in {"finished", "rejected"}
  /\ record' = [record EXCEPT ![k] = "free"]
  /\ UNCHANGED <<clientVars, stage, base, reply, holder, known, lock,
                 exchangeVars, restarts>>

(* The gateway restarts: connections break, and the records are rebuilt    *)
(* from the exchange's snapshot of the orders still on the market.         *)
Restart ==
  /\ restarts < MaxRestarts
  /\ restarts' = restarts + 1
  /\ stage' = [c \in Calls |-> IF stage[c] = "wire" THEN "over" ELSE stage[c]]
  /\ reply' = [c \in Calls |->
                 IF call[c] = "open" /\ reply[c] = NoReply
                 THEN Fail(Failure("UNAVAILABLE")) ELSE reply[c]]
  /\ record' = [k \in Keys |-> IF book[k] > 0 THEN "live" ELSE "free"]
  /\ holder' = [k \in Keys |-> NoCall]
  /\ known' = rev
  /\ lock' = [k \in Keys |-> NoCall]
  /\ UNCHANGED <<clientVars, base, exchangeVars>>

-----------------------------------------------------------------------------
(* The exchange (external).                                                *)

(* A new order is entered, or refused.                                     *)
ExecuteSubmit(c) ==
  LET k == KeyOf(c) IN
  /\ stage[c] = "exchange" /\ IsSubmit(c)
  /\ \/ /\ stage' = [stage EXCEPT ![c] = "executed"]
        /\ book' = [book EXCEPT ![k] = @ + 1]
        /\ applied' = [applied EXCEPT ![c] = TRUE]
     \/ /\ stage' = [stage EXCEPT ![c] = "refused"]
        /\ UNCHANGED <<book, applied>>
  /\ UNCHANGED <<clientVars, base, reply, gatewayVars, rev, restarts>>

(* A command built on the order's current revision is executed.            *)
ExecuteCommand(c) ==
  LET k == KeyOf(c) IN
  /\ stage[c] = "exchange" /\ ~IsSubmit(c)
  /\ book[k] > 0 /\ base[c] = rev[k]
  /\ \/ /\ IsModify(c) /\ rev[k] < MaxRev
        /\ rev' = [rev EXCEPT ![k] = @ + 1]
        /\ UNCHANGED book
     \/ /\ ~IsModify(c)
        /\ book' = [book EXCEPT ![k] = @ - 1]
        /\ UNCHANGED rev
  /\ stage' = [stage EXCEPT ![c] = "executed"]
  /\ applied' = [applied EXCEPT ![c] = TRUE]
  /\ UNCHANGED <<clientVars, base, reply, gatewayVars, restarts>>

(* A command is refused: the order moved, or it is gone, or the exchange   *)
(* will not have it.                                                       *)
RefuseExecution(c) ==
  LET k == KeyOf(c) IN
  /\ stage[c] = "exchange" /\ ~IsSubmit(c)
  /\ \/ /\ book[k] > 0 /\ base[c] # rev[k]
        /\ stage' = [stage EXCEPT ![c] = "changed"]
     \/ stage' = [stage EXCEPT ![c] = "refused"]
  /\ UNCHANGED <<clientVars, base, reply, gatewayVars, exchangeVars, restarts>>

(* The request expires in the exchange's queue, and nobody is told.        *)
DropExpired(c) ==
  /\ stage[c] = "exchange" /\ ~Receipted(c)
  /\ stage' = [stage EXCEPT ![c] = "dropped"]
  /\ UNCHANGED <<clientVars, base, reply, gatewayVars, exchangeVars, restarts>>

(* The market fills a resting order, in part or in full.                   *)
Fill(k) ==
  /\ book[k] > 0
  /\ \/ /\ rev[k] < MaxRev
        /\ rev' = [rev EXCEPT ![k] = @ + 1]
        /\ UNCHANGED book
     \/ /\ book' = [book EXCEPT ![k] = @ - 1]
        /\ UNCHANGED rev
  /\ UNCHANGED <<clientVars, stage, base, reply, gatewayVars, applied,
                 restarts>>

-----------------------------------------------------------------------------
ClientStep(c) ==
  \/ \E k \in Keys : SubmitOrder(c, k) \/ ModifyOrder(c, k) \/ CancelOrder(c, k)
  \/ DeadlineExpires(c)
  \/ \E code \in TransportCodes : TransportFails(c, code)
  \/ Deliver(c)

GatewayStep(c) ==
  \/ LoseRequest(c) \/ RefuseRequest(c) \/ RefuseUsedKey(c) \/ RefuseCommand(c)
  \/ PublishSubmit(c) \/ PublishCommand(c) \/ BrokerReturns(c)
  \/ GatewayGivesUp(c) \/ GatewayAcknowledges(c)
  \/ HearExecuted(c) \/ HearRefused(c)

ExchangeStep(c) ==
  \/ ExecuteSubmit(c) \/ ExecuteCommand(c) \/ RefuseExecution(c)
  \/ DropExpired(c)

OrderStep(k) ==
  HearFill(k) \/ LockLapses(k) \/ Reap(k) \/ ForgetFinished(k) \/ Fill(k)

Next ==
  \/ \E c \in Calls : ClientStep(c) \/ GatewayStep(c) \/ ExchangeStep(c)
  \/ \E k \in Keys : OrderStep(k)
  \/ Restart

Spec == Init /\ [][Next]_vars

-----------------------------------------------------------------------------
(* Properties.                                                             *)

TypeOK ==
  /\ call \in [Calls -> {"idle", "open", "done"}]
  /\ req \in [Calls -> Requests \cup {NoRequest}]
  /\ outcome \in [Calls -> Outcomes]
  /\ stage \in [Calls -> Stages]
  /\ base \in [Calls -> Nat]
  /\ reply \in [Calls -> Replies]
  /\ record \in [Keys -> Records]
  /\ holder \in [Keys -> Calls \cup {NoCall}]
  /\ known \in [Keys -> Nat]
  /\ lock \in [Keys -> Calls \cup {NoCall}]
  /\ book \in [Keys -> Nat]
  /\ rev \in [Keys -> Nat]
  /\ applied \in [Calls -> BOOLEAN]
  /\ restarts \in Nat

(* The request of c had no effect at the exchange and never will.          *)
Void(c) == ~applied[c] /\ stage[c] \notin {"none", "wire", "exchange"}

(* What the caller of c was told, as the docs of errors.py read it.        *)
ToldRejected(c) ==
  \/ outcome[c].kind = "raised" /\ outcome[c].rejected
  \/ outcome[c] = Returned("REJECTED")
ToldApplied(c) == outcome[c] \in {Returned("ACTIVE"), Returned("CONFIRMED")}

(* The inductive invariant behind HonestRejection.                         *)
StageInv ==
  \A c \in Calls :
    /\ call[c] = "idle" <=> stage[c] = "none"
    /\ stage[c] # "none" => req[c] \in Requests
    /\ applied[c] => stage[c] \in {"executed", "over"}
    /\ stage[c] = "executed" => applied[c]
OutcomeInv ==
  \A c \in Calls :
    /\ call[c] # "done" => outcome[c] = NoOutcome
    /\ ToldRejected(c) => Void(c)
    /\ ToldApplied(c) => applied[c]

(* What the answer on its way to the client will tell its caller.          *)
ReplyRejects(c) ==
  \/ reply[c].kind = "status" /\ RaisedFor(c, reply[c].status).rejected
  \/ reply[c] = Answer("REJECTED")
ReplyInv ==
  \A c \in Calls :
    /\ reply[c] # NoReply => call[c] = "open"
    /\ ReplyRejects(c) => Void(c)
    /\ reply[c] \in {Answer("ACTIVE"), Answer("CONFIRMED")} => applied[c]

CallInv == TypeOK /\ StageInv /\ OutcomeInv /\ ReplyInv

(* An order error with request_definitely_rejected = True, or a submit     *)
(* that returns REJECTED, is a proof: the request has not touched the      *)
(* exchange and cannot do so later, whatever was delayed or restarted.     *)
HonestRejection == \A c \in Calls : ToldRejected(c) => Void(c)

(* A client_order_id protects a retry: as long as the gateway keeps its    *)
(* records, no two orders rest under one key, however often the key is     *)
(* submitted after timeouts and after RequestNotProcessed.                 *)
KeyProtection == restarts = 0 => \A k \in Keys : book[k] <= 1

(* RequestNotProcessed hands its key back: the record under the key is not *)
(* the one the returned submission made.                                   *)
NotProcessedFreesKey ==
  \A c \in Calls :
    /\ outcome[c].kind = "raised" /\ outcome[c].cls = "RequestNotProcessed"
    /\ IsSubmit(c)
    => ~ /\ record[KeyOf(c)] \in {"pending", "rejected", "retired"}
         /\ holder[KeyOf(c)] = c

(* Abstract view: the fate of each request, and what its caller was told.  *)
Fate == [c \in Calls |-> IF applied[c] THEN "applied"
                         ELSE IF Void(c) THEN "void" ELSE "open"]
Told == [c \in Calls |-> IF call[c] # "done" THEN "nothing"
                         ELSE IF ToldRejected(c) THEN "rejected"
                         ELSE IF ToldApplied(c) THEN "applied"
                         ELSE "unknown"]

Promise == INSTANCE OutcomePromise WITH fate <- Fate, told <- Told

(* The order path implements the abstract promise: each request meets one  *)
(* fate, and no answer ever contradicts it.                                *)
KeepsPromise == Promise!Spec
=============================================================================
