--------------------------- MODULE CancelAll_proofs ---------------------------
(***************************************************************************)
(* Proofs about CancelAll, for any orders, any number of calls and any     *)
(* codes a call is refused with.                                           *)
(***************************************************************************)
EXTENDS CancelAll, TLAPS

USE AccountWideAssumption, MaxCallsAssumption, CodesAssumption
  DEF sweepVars, caller, vars, world

AnswerSet ==
  {NoAnswer} \cup [kind : {"deleted"}, orders : SUBSET Orders]
    \cup [kind : {"status"}, status : Statuses]

(* The commands a sweep is made of: one per order, or the one for them all. *)
Commands == IF scoped THEN targets ELSE {AccountWide}

(* The types, with those of the answer and of the history, and the shape   *)
(* of a sweep under way: a command goes out once.                          *)
ShapeInv ==
  /\ SweepTypeOK
  /\ answer \in AnswerSet
  /\ cause \in Statuses \cup {NoStatus}
  /\ phase # "idle" => current \in CallNumbers
  /\ present \in [CallNumbers -> SUBSET Orders]
  /\ phase \in {"sweep", "waiting"} => todo \subseteq Commands
  /\ phase = "waiting" => target \in Commands \ todo

(* The statuses the gateway answers with are statuses.                     *)
LEMMA StatusTypes ==
  /\ \A code \in StatusCodes, m \in Markers :
       Failure(code) \in Statuses /\ Marked(code, m) \in Statuses
  /\ RefusalCodes \subseteq StatusCodes
  /\ NoStatus \notin Statuses
  BY DEF Failure, Marked, Statuses, Markers, NoStatus, StatusCodes

(* Every status code has an error class.                                   *)
LEMMA CancelClassType ==
  ASSUME NEW code \in StatusCodes
  PROVE  ClassOfCode(code) \in ErrorClasses
  BY SMTT(30) DEF ClassOfCode, CodeToClass, ErrorClasses

(* What a failed cancel-all raises is an outcome, known by its kind.       *)
LEMMA RaisedType ==
  ASSUME NEW s \in Statuses
  PROVE  /\ RaisedFor(s) \in Outcomes
         /\ RaisedFor(s).kind = "raised"
         /\ RaisedFor(s).rejected = ErrorOf("CancelAllOrders", s, TRUE).rejected
<1>1. ClassOfCode(s.code) \in ErrorClasses
  BY CancelClassType DEF Statuses
<1>2. Translate(s, TRUE) \in ErrorClasses
  BY <1>1 DEF Translate, ErrorClasses
<1>3. DefinitelyRejected(Translate(s, TRUE), "CancelAllOrders", s) \in BOOLEAN
  BY DEF DefinitelyRejected, ClassRejects, IsIncompleteCancelAll, Statuses
<1> QED BY <1>2, <1>3 DEF RaisedFor, ErrorOf, Outcomes

(* An outcome is stored only for the call under way.                       *)
LEMMA ConcludeShape ==
  ASSUME ShapeInv, NEW o \in Outcomes, Conclude(o)
  PROVE  ShapeInv'
<1>1. outcome' \in [CallNumbers -> Outcomes]
  BY DEF Conclude, ShapeInv, SweepTypeOK
<1> QED BY <1>1 DEF Conclude, ShapeInv, SweepTypeOK, Phases, Commands

(* A step of the gateway keeps the shape of the sweep.                     *)
LEMMA GatewayShape ==
  ASSUME ShapeInv, GatewayStep
  PROVE  ShapeInv'
<1> USE DEF ShapeInv, SweepTypeOK, Phases, Commands
<1>1. CASE RefuseCall
  <2>1. PICK code \in RefusalCodes :
          Reply([kind |-> "status", status |-> Failure(code)])
    BY <1>1 DEF RefuseCall
  <2>2. answer' \in AnswerSet
    BY <2>1, StatusTypes DEF Reply, AnswerSet, Markers
  <2> QED BY <1>1, <2>1, <2>2 DEF RefuseCall, Reply
<1>2. CASE BeginSweep
  BY <1>2 DEF BeginSweep, Live, Unacknowledged
<1>3. CASE \E x \in Orders \cup {AccountWide} : SendCancel(x)
  <2>1. PICK x \in Orders \cup {AccountWide} : SendCancel(x)
    BY <1>3
  <2>2. command' \in [Sent -> CommandStates]
    BY <2>1 DEF SendCancel, Sent, CommandStates
  <2> QED BY <2>1, <2>2 DEF SendCancel
<1>4. CASE \E o \in Orders : CannotScale(o)
  <2>1. FirstCause(Failure("FAILED_PRECONDITION")) \in Statuses
    BY StatusTypes DEF FirstCause, StatusCodes, Markers
  <2> QED BY <1>4, <2>1 DEF CannotScale
<1>5. CASE CannotSend
  <2>1. \A code \in {"UNAVAILABLE", "FAILED_PRECONDITION"} :
          FirstCause(Failure(code)) \in Statuses
    BY StatusTypes DEF FirstCause, StatusCodes, Markers
  <2> QED BY <1>5, <2>1 DEF CannotSend
<1>6. CASE HearReceipt
  BY <1>6 DEF HearReceipt, Covered
<1>7. CASE HearRefusal
  <2>1. FirstCause(Failure("ABORTED")) \in Statuses
    BY StatusTypes DEF FirstCause, StatusCodes, Markers
  <2> QED BY <1>7, <2>1 DEF HearRefusal
<1>8. CASE RouteFails
  <2>1. /\ FirstCause(Marked("UNAVAILABLE", "NOT_PROCESSED")) \in Statuses
        /\ FirstCause(Failure("DEADLINE_EXCEEDED")) \in Statuses
    BY StatusTypes DEF FirstCause, StatusCodes, Markers
  <2>2. command' \in [Sent -> CommandStates]
    BY <1>8 DEF RouteFails, CommandStates
  <2> QED BY <1>8, <2>1, <2>2 DEF RouteFails
<1>9. CASE EndSweep
  <2>1. FirstCause(Marked("ABORTED", "ORDER_PENDING")) \in Statuses
    BY StatusTypes DEF FirstCause, StatusCodes, Markers
  <2> DEFINE status == [FirstCause(Marked("ABORTED", "ORDER_PENDING"))
                          EXCEPT !.clause = scoped]
  <2>2. status \in Statuses
    BY <2>1 DEF Statuses
  <2>3. answer' \in {[kind |-> "deleted", orders |-> acked],
                     [kind |-> "status", status |-> status]}
    BY <1>9 DEF EndSweep, Reply
  <2> HIDE DEF status
  <2>4. answer' \in AnswerSet
    BY <2>2, <2>3 DEF AnswerSet
  <2> QED BY <1>9, <2>4 DEF EndSweep, Reply
<1> QED BY <1>1, <1>2, <1>3, <1>4, <1>5, <1>6, <1>7, <1>8, <1>9 DEF GatewayStep

(* So do the client's steps and those of the exchange.                     *)
LEMMA OtherShape ==
  ASSUME ShapeInv, ClientStep \/ ExchangeStep
  PROVE  ShapeInv'
<1>1. CASE CancelAllOrders
  <2>1. present' \in [CallNumbers -> SUBSET Orders]
    BY <1>1 DEF CancelAllOrders, ShapeInv, Live, Unacknowledged
  <2>2. current' \in CallNumbers /\ current' \in 0 .. MaxCalls
    BY <1>1 DEF CancelAllOrders, ShapeInv, SweepTypeOK, CallNumbers
  <2> QED BY <1>1, <2>1, <2>2 DEF CancelAllOrders, ShapeInv, SweepTypeOK, Phases,
             AnswerSet, Commands
<1>2. CASE Deliver
  <2>1. CASE answer.kind = "deleted" /\ Conclude(answer)
    <3>1. answer \in Outcomes
      BY <2>1 DEF ShapeInv, AnswerSet, NoAnswer, Outcomes
    <3> QED BY <2>1, <3>1, ConcludeShape
  <2>2. CASE answer.kind = "status" /\ Conclude(RaisedFor(answer.status))
    <3>1. answer.status \in Statuses
      BY <2>2 DEF ShapeInv, AnswerSet, NoAnswer
    <3> QED BY <2>2, <3>1, RaisedType, ConcludeShape
  <2> QED BY <1>2, <2>1, <2>2 DEF Deliver
<1>3. CASE DeadlinePasses \/ ConnectionFails
  <2>1. PICK code \in StatusCodes : Conclude(RaisedFor(Failure(code)))
    BY <1>3 DEF DeadlinePasses, ConnectionFails, StatusCodes
  <2>2. Failure(code) \in Statuses
    BY StatusTypes DEF Markers
  <2> QED BY <2>1, <2>2, RaisedType, ConcludeShape
<1>4. CASE \E m \in Sent : Receive(m) \/ Decline(m) \/ Execute(m)
  <2>1. PICK m \in Sent : Receive(m) \/ Decline(m) \/ Execute(m)
    BY <1>4
  <2>2. command' \in [Sent -> CommandStates]
    BY <2>1 DEF Receive, Decline, Execute, ShapeInv, SweepTypeOK, CommandStates
  <2>3. order' \in [Orders -> {"unsent", "entering", "resting", "off"}]
    BY <2>1 DEF Receive, Decline, Execute, ShapeInv, SweepTypeOK
  <2> QED BY <2>1, <2>2, <2>3 DEF Receive, Decline, Execute, ShapeInv, SweepTypeOK, Commands
<1>5. CASE \E o \in Orders : OrderMoves(o)
  <2>1. PICK o \in Orders : OrderMoves(o)
    BY <1>5
  <2>2. order' \in [Orders -> {"unsent", "entering", "resting", "off"}]
    BY <2>1 DEF OrderMoves, ShapeInv, SweepTypeOK
  <2> QED BY <2>1, <2>2 DEF OrderMoves, ShapeInv, SweepTypeOK, Commands
<1> QED BY <1>1, <1>2, <1>3, <1>4, <1>5 DEF ClientStep, ExchangeStep

(* ShapeInv holds in every state.                                          *)
LEMMA Shape == Spec => []ShapeInv
<1>1. Init => ShapeInv
  BY DEF Init, ShapeInv, SweepTypeOK, Phases, AnswerSet, Outcomes, Commands,
         CallNumbers, Sent, CommandStates
<1>2. ShapeInv /\ [Next]_vars => ShapeInv'
  <2> SUFFICES ASSUME ShapeInv, [Next]_vars PROVE ShapeInv'
    OBVIOUS
  <2>1. CASE UNCHANGED vars
    BY <2>1 DEF ShapeInv, SweepTypeOK, Commands
  <2> QED BY <2>1, GatewayShape, OtherShape DEF Next
<1> QED BY <1>1, <1>2, PTL DEF Spec

(* The type invariant of cancel-all, with the shape of its sweep.          *)
THEOREM SweepTypes == Spec => []SweepTypeOK
<1>1. ShapeInv => SweepTypeOK
  BY DEF ShapeInv
<1> QED BY <1>1, Shape, PTL

-----------------------------------------------------------------------------
(* What request_definitely_rejected is worth.                              *)

Rejects(s) == ErrorOf("CancelAllOrders", s, TRUE).rejected

(* Nothing of call i has reached the exchange, or ever will.               *)
Spent == {"none", "refused", "returned"}
NothingDone(i) ==
  \A x \in Orders \cup {AccountWide} : command[<<i, x>>] \in Spent

(* An account-wide call: its one command is unsent, or on its way, or the  *)
(* sweep knows what became of it, or could not tell.                       *)
OneCommandInv ==
  ~scoped =>
    /\ phase \in {"sweep", "waiting"} =>
         \A o \in Orders : command[<<current, o>>] = "none"
    /\ phase = "waiting" => todo = {} /\ cause = NoStatus
    /\ phase = "sweep" =>
         \/ todo # {} /\ cause = NoStatus /\ command[<<current, AccountWide>>] = "none"
         \/ todo = {} /\ cause = NoStatus /\ acked = targets
         \/ /\ todo = {} /\ cause \in Statuses /\ ~cause.clause
            /\ Rejects(cause) => command[<<current, AccountWide>>] \in Spent

(* The answer to a call, and what its caller was told, claim a definite    *)
(* rejection only if nothing was done.                                     *)
HonestInv ==
  /\ OneCommandInv
  /\ \A i \in CallNumbers :
       i > current \/ (i = current /\ phase = "wire") =>
         \A x \in Orders \cup {AccountWide} : command[<<i, x>>] = "none"
  /\ \A i \in CallNumbers :
       i > current \/ (i = current /\ phase # "over") => outcome[i].kind = "none"
  /\ phase = "answered" /\ answer.kind = "status" /\ Rejects(answer.status)
       => NothingDone(current)
  /\ SweepHonest

(* A scoped sweep's status, with its clause, and an uncertain code without *)
(* a marker claim nothing.                                                 *)
LEMMA WhoRejects ==
  /\ \A s \in Statuses : s.clause => ~Rejects(s)
  /\ \A code \in UncertainCodes : ~Rejects(Failure(code))
  BY DEF Rejects, ErrorOf, DefinitelyRejected, ClassRejects,
         IsIncompleteCancelAll, Statuses, Failure, Translate, UncertainCodes

(* An outcome is honest if what it claims is so when it is stored: nothing *)
(* is sent for a call that is over.                                        *)
LEMMA ConcludeHonest ==
  ASSUME ShapeInv, HonestInv, NEW o, Conclude(o),
         o.kind = "raised" /\ o.rejected => NothingDone(current)
  PROVE  HonestInv'
<1>1. /\ current \in CallNumbers /\ phase' = "over"
      /\ outcome' = [outcome EXCEPT ![current] = o]
      /\ UNCHANGED <<scoped, barred, current, command>>
  BY DEF Conclude, ShapeInv
<1>2. OneCommandInv'
  BY <1>1 DEF OneCommandInv
<1>3. SweepHonest'
  BY <1>1 DEF HonestInv, SweepHonest, NothingDone, Spent, ShapeInv, SweepTypeOK
<1>4. (\A i \in CallNumbers :
         i > current \/ (i = current /\ phase = "wire") =>
           \A x \in Orders \cup {AccountWide} : command[<<i, x>>] = "none")'
  BY <1>1 DEF HonestInv
<1>5. (\A i \in CallNumbers :
         i > current \/ (i = current /\ phase # "over") => outcome[i].kind = "none")'
  <2>1. ASSUME NEW i \in CallNumbers, i > current
        PROVE  outcome'[i] = outcome[i] /\ outcome[i].kind = "none"
    <3>1. i # current
      BY <1>1, <2>1 DEF CallNumbers
    <3> QED BY <1>1, <2>1, <3>1 DEF HonestInv, ShapeInv, SweepTypeOK
  <2> QED BY <1>1, <2>1
<1> QED BY <1>1, <1>2, <1>3, <1>4, <1>5 DEF HonestInv

(* The client's steps.                                                     *)
LEMMA ClientHonest ==
  ASSUME ShapeInv, HonestInv, ClientStep
  PROVE  HonestInv'
<1>1. CASE CancelAllOrders
  <2>1. /\ phase \in {"idle", "over"} /\ phase' = "wire" /\ current' = current + 1
        /\ UNCHANGED <<scoped, barred, outcome, command>>
    BY <1>1 DEF CancelAllOrders
  <2>2. OneCommandInv' /\ SweepHonest'
    BY <2>1 DEF OneCommandInv, HonestInv, SweepHonest
  <2>3. current \in Nat /\ CallNumbers \subseteq Nat
    BY DEF ShapeInv, SweepTypeOK, CallNumbers
  <2>4. \A i \in CallNumbers : i > current' \/ i = current' => i > current
    BY <2>1, <2>3
  <2> QED BY <2>1, <2>2, <2>4 DEF HonestInv
<1>2. CASE Deliver
  <2>1. CASE answer.kind = "deleted" /\ Conclude(answer)
    BY <2>1, ConcludeHonest
  <2>2. CASE answer.kind = "status" /\ Conclude(RaisedFor(answer.status))
    <3>1. answer.status \in Statuses
      BY <2>2 DEF ShapeInv, AnswerSet, NoAnswer
    <3>2. RaisedFor(answer.status).rejected => NothingDone(current)
      BY <1>2, <2>2, <3>1, RaisedType DEF Deliver, HonestInv, Rejects
    <3> QED BY <2>2, <3>2, ConcludeHonest
  <2> QED BY <1>2, <2>1, <2>2 DEF Deliver
<1>3. CASE DeadlinePasses \/ ConnectionFails
  <2>1. PICK code \in UncertainCodes : Conclude(RaisedFor(Failure(code)))
    BY <1>3 DEF DeadlinePasses, ConnectionFails, UncertainCodes
  <2>2. Failure(code) \in Statuses
    BY StatusTypes DEF Markers, UncertainCodes, StatusCodes
  <2>3. ~RaisedFor(Failure(code)).rejected
    BY <2>2, WhoRejects, RaisedType DEF Rejects
  <2> QED BY <2>1, <2>3, ConcludeHonest
<1> QED BY <1>1, <1>2, <1>3 DEF ClientStep

(* A command that cannot be carried out any more stays what it is, so the  *)
(* exchange's steps keep every claim.                                      *)
LEMMA ExchangeHonest ==
  ASSUME ShapeInv, HonestInv, ExchangeStep
  PROVE  HonestInv'
<1>1. UNCHANGED world
  BY DEF ExchangeStep, Receive, Decline, Execute, OrderMoves
<1>2. \A n \in Sent : command[n] \in Spent => command'[n] = command[n]
  BY DEF ExchangeStep, Receive, Decline, Execute, OrderMoves, Spent, ShapeInv, SweepTypeOK
<1>3. \A i \in CallNumbers, x \in Orders \cup {AccountWide} : <<i, x>> \in Sent
  BY DEF Sent
<1>4. \A i \in CallNumbers : NothingDone(i) => NothingDone(i)'
  BY <1>2, <1>3 DEF NothingDone
<1>5. \A i \in CallNumbers, x \in Orders \cup {AccountWide} :
        command[<<i, x>>] = "none" => command'[<<i, x>>] = "none"
  BY <1>2, <1>3 DEF Spent
<1>6. SweepHonest'
  BY <1>1, <1>4 DEF HonestInv, SweepHonest, NothingDone, Spent
<1>7. OneCommandInv'
  <2>1. phase \in {"sweep", "waiting"} => current \in CallNumbers
    BY DEF ShapeInv
  <2>2. phase = "sweep" /\ command[<<current, AccountWide>>] \in Spent
          => command'[<<current, AccountWide>>] = command[<<current, AccountWide>>]
    BY <1>2, <1>3, <2>1
  <2> QED BY <1>1, <1>5, <2>1, <2>2 DEF HonestInv, OneCommandInv, Spent
<1>8. phase = "answered" => current \in CallNumbers
  BY DEF ShapeInv
<1> QED BY <1>1, <1>4, <1>5, <1>6, <1>7, <1>8 DEF HonestInv

(* A step of the gateway at a call in its sweep or before it sends nothing *)
(* but one command, and tells nobody anything.                             *)
LEMMA GatewayTells ==
  ASSUME ShapeInv, HonestInv, GatewayStep
  PROVE  /\ UNCHANGED <<scoped, barred, current, outcome, present>>
         /\ current \in CallNumbers
         /\ phase \in {"wire", "sweep", "waiting"}
         /\ phase' \in {"sweep", "waiting", "answered"}
         /\ \A n \in Sent : n[1] # current => command'[n] = command[n]
<1> USE DEF ShapeInv, SweepTypeOK
<1>1. CASE RefuseCall \/ BeginSweep \/ EndSweep
  BY <1>1 DEF RefuseCall, BeginSweep, EndSweep, Reply
<1>2. CASE \E x \in Orders \cup {AccountWide} : SendCancel(x)
  BY <1>2 DEF SendCancel
<1>3. CASE (\E o \in Orders : CannotScale(o)) \/ CannotSend
  BY <1>3 DEF CannotScale, CannotSend
<1>4. CASE HearReceipt \/ HearRefusal
  BY <1>4 DEF HearReceipt, HearRefusal
<1>5. CASE RouteFails
  BY <1>5 DEF RouteFails
<1> QED BY <1>1, <1>2, <1>3, <1>4, <1>5 DEF GatewayStep

(* A sweep that serves a whole account ends with what became of its one    *)
(* command: its success is that of every target.                           *)
LEMMA SweepsOneCommand ==
  ASSUME ShapeInv, HonestInv, GatewayStep
  PROVE  OneCommandInv'
<1> SUFFICES ASSUME ~scoped PROVE OneCommandInv'
  BY GatewayTells DEF OneCommandInv
<1> USE DEF OneCommandInv, HonestInv, ShapeInv, SweepTypeOK
<1>0. \A x \in Orders \cup {AccountWide} : <<current, x>> \in Sent
  BY GatewayTells DEF Sent
<1>1. CASE RefuseCall \/ EndSweep
  BY <1>1 DEF RefuseCall, EndSweep, Reply
<1>2. CASE BeginSweep
  BY <1>2, GatewayTells DEF BeginSweep
<1>3. CASE \E x \in Orders \cup {AccountWide} : SendCancel(x)
  <2>1. PICK x \in Orders \cup {AccountWide} : SendCancel(x)
    BY <1>3
  <2>2. x = AccountWide /\ todo = {AccountWide} /\ phase = "sweep"
    BY <2>1 DEF SendCancel, Commands
  <2>3. cause = NoStatus
    BY <2>2
  <2> QED BY <1>0, <2>1, <2>2, <2>3 DEF SendCancel
<1>4. CASE \E o \in Orders : CannotScale(o)
  BY <1>4 DEF CannotScale, Commands
<1>5. CASE CannotSend
  <2>1. \A code \in {"UNAVAILABLE", "FAILED_PRECONDITION"} :
          Failure(code) \in Statuses /\ ~Failure(code).clause
    BY StatusTypes DEF StatusCodes, Markers, Failure
  <2>2. /\ phase = "sweep" /\ phase' = "sweep" /\ todo # {} /\ todo' = {}
        /\ UNCHANGED <<scoped, barred, current, command>>
    BY <1>5 DEF CannotSend
  <2>3. cause = NoStatus /\ command[<<current, AccountWide>>] = "none"
    BY <2>2
  <2>4. cause' \in Statuses /\ ~cause'.clause
    BY <1>5, <2>1, <2>3 DEF CannotSend, FirstCause
  <2> QED BY <2>2, <2>3, <2>4 DEF Spent
<1>6. CASE HearReceipt
  <2>1. target = AccountWide
    BY <1>6 DEF HearReceipt, Commands
  <2> QED BY <1>6, <2>1 DEF HearReceipt, Covered
<1>7. CASE HearRefusal
  <2>1. target = AccountWide
    BY <1>7 DEF HearRefusal, Commands
  <2>2. Failure("ABORTED") \in Statuses /\ ~Failure("ABORTED").clause
    BY StatusTypes DEF StatusCodes, Markers, Failure
  <2> QED BY <1>7, <2>1, <2>2 DEF HearRefusal, Command, FirstCause, Spent
<1>8. CASE RouteFails
  <2>1. target = AccountWide /\ cause = NoStatus /\ todo = {}
    BY <1>8 DEF RouteFails, Commands
  <2>2. CASE UNCHANGED command /\ cause' = FirstCause(Failure("DEADLINE_EXCEEDED"))
    <3>1. /\ Failure("DEADLINE_EXCEEDED") \in Statuses
          /\ ~Failure("DEADLINE_EXCEEDED").clause
          /\ ~Rejects(Failure("DEADLINE_EXCEEDED"))
      BY StatusTypes, WhoRejects DEF StatusCodes, Markers, Failure, UncertainCodes
    <3> QED BY <1>8, <2>1, <2>2, <3>1 DEF RouteFails, FirstCause
  <2>3. CASE /\ command' = [command EXCEPT ![<<current, target>>] = "returned"]
             /\ cause' = FirstCause(Marked("UNAVAILABLE", "NOT_PROCESSED"))
    <3>1. /\ Marked("UNAVAILABLE", "NOT_PROCESSED") \in Statuses
          /\ ~Marked("UNAVAILABLE", "NOT_PROCESSED").clause
      BY StatusTypes DEF StatusCodes, Markers, Marked
    <3>2. command'[<<current, AccountWide>>] = "returned"
      BY <1>0, <2>1, <2>3
    <3>3. \A o \in Orders : command'[<<current, o>>] = command[<<current, o>>]
      BY <1>0, <2>1, <2>3
    <3> QED BY <1>8, <2>1, <2>3, <3>1, <3>2, <3>3 DEF RouteFails, FirstCause, Spent
  <2> QED BY <1>8, <2>2, <2>3 DEF RouteFails
<1> QED BY <1>1, <1>2, <1>3, <1>4, <1>5, <1>6, <1>7, <1>8 DEF GatewayStep

(* The answer of a sweep claims a definite rejection only if nothing of it *)
(* was or will be carried out.                                             *)
LEMMA AnswerHonest ==
  ASSUME ShapeInv, HonestInv, GatewayStep,
         phase' = "answered", answer'.kind = "status", Rejects(answer'.status)
  PROVE  NothingDone(current)'
<1>1. CASE RefuseCall
  BY <1>1, GatewayTells DEF RefuseCall, Reply, HonestInv, NothingDone, Spent
<1>2. CASE EndSweep
  <2> DEFINE status == [FirstCause(Marked("ABORTED", "ORDER_PENDING"))
                          EXCEPT !.clause = scoped]
  <2>1. /\ ~(cause = NoStatus /\ acked = targets)
        /\ answer'.status = status /\ todo = {} /\ phase = "sweep"
        /\ UNCHANGED command
    BY <1>2 DEF EndSweep, Reply
  <2>2. FirstCause(Marked("ABORTED", "ORDER_PENDING")) \in Statuses
    BY StatusTypes DEF FirstCause, StatusCodes, Markers, ShapeInv
  <2>3. status \in Statuses /\ status.clause = scoped
    BY <2>2 DEF Statuses, ShapeInv, SweepTypeOK
  <2> HIDE DEF status
  <2>4. ~scoped
    BY <2>1, <2>3, WhoRejects
  <2>5. cause \in Statuses /\ ~cause.clause
    BY <2>1, <2>4 DEF HonestInv, OneCommandInv
  <2>6. status = cause
    BY <2>4, <2>5, StatusTypes DEF status, FirstCause, Statuses, ShapeInv, SweepTypeOK
  <2>7. Rejects(cause)
    BY <2>1, <2>6
  <2>8. command[<<current, AccountWide>>] \in Spent
    BY <2>1, <2>4, <2>5, <2>7, StatusTypes DEF HonestInv, OneCommandInv
  <2>9. \A o \in Orders : command[<<current, o>>] = "none"
    BY <2>1, <2>4 DEF HonestInv, OneCommandInv
  <2> QED BY <2>1, <2>8, <2>9, GatewayTells DEF NothingDone, Spent
<1>3. ~(RefuseCall \/ EndSweep) => phase' \in {"sweep", "waiting"}
  BY DEF GatewayStep, BeginSweep, SendCancel, CannotScale, CannotSend,
         HearReceipt, HearRefusal, RouteFails
<1> QED BY <1>1, <1>2, <1>3

(* The gateway's steps.                                                    *)
LEMMA GatewayHonest ==
  ASSUME ShapeInv, HonestInv, GatewayStep
  PROVE  HonestInv'
<1>1. \A i \in CallNumbers, x \in Orders \cup {AccountWide} :
        i # current => command'[<<i, x>>] = command[<<i, x>>]
  BY GatewayTells DEF Sent
<1>2. current \in Nat /\ CallNumbers \subseteq Nat
  BY DEF ShapeInv, SweepTypeOK, CallNumbers
<1>3. \A i \in CallNumbers :
        i > current \/ (i = current /\ phase' = "wire") =>
          \A x \in Orders \cup {AccountWide} : command'[<<i, x>>] = "none"
  <2>1. phase' # "wire"
    BY GatewayTells
  <2>2. \A i \in CallNumbers : i > current => i # current
    BY <1>2
  <2> QED BY <1>1, <2>1, <2>2 DEF HonestInv
<1>4. \A i \in CallNumbers :
        i > current \/ (i = current /\ phase' # "over") => outcome'[i].kind = "none"
  BY GatewayTells DEF HonestInv
<1>5. outcome[current].kind = "none"
  BY GatewayTells DEF HonestInv
<1>6. SweepHonest'
  BY <1>1, <1>5, GatewayTells DEF HonestInv, SweepHonest
<1> QED BY <1>3, <1>4, <1>6, GatewayTells, SweepsOneCommand, AnswerHonest DEF HonestInv

(* What a cancel-all claims holds in every state.                          *)
LEMMA Honest == Spec => []HonestInv
<1>1. Init => HonestInv
  BY DEF Init, HonestInv, OneCommandInv, SweepHonest, NoOutcome, NoAnswer, Sent
<1>2. ShapeInv /\ HonestInv /\ [Next]_vars => HonestInv'
  <2> SUFFICES ASSUME ShapeInv, HonestInv, [Next]_vars PROVE HonestInv'
    OBVIOUS
  <2>1. CASE UNCHANGED vars
    BY <2>1 DEF HonestInv, OneCommandInv, SweepHonest, NothingDone
  <2> QED BY <2>1, ClientHonest, GatewayHonest, ExchangeHonest DEF Next
<1> QED BY <1>1, <1>2, Shape, PTL DEF Spec

(* A cancel-all whose error says request_definitely_rejected = True        *)
(* cancelled nothing, and nothing it sent can still be carried out, for    *)
(* scoped and account-wide callers alike and whatever its first failure.   *)
THEOREM SweepTellsTruth == Spec => []SweepHonest
<1>1. HonestInv => SweepHonest
  BY DEF HonestInv
<1> QED BY <1>1, Honest, PTL

-----------------------------------------------------------------------------
(* What the success of a scoped cancel-all is worth.                       *)

Done == {"received", "executed", "declined"}

(* The orders call i was to cancel are off, or their cancel acknowledged.  *)
Cleared(i) ==
  \A o \in present[i] \ barred : order[o] = "off" \/ command[<<i, o>>] \in Done

(* A command names an order that rests or has rested; one carried out took *)
(* it off.                                                                 *)
CommandsInv ==
  \A i \in CallNumbers, o \in Orders :
    /\ command[<<i, o>>] # "none" => order[o] \in {"resting", "off"}
    /\ command[<<i, o>>] = "executed" => order[o] = "off"

(* A sweep under way is after every order that was on the market when its  *)
(* call was made and is still there, and acked are those whose cancel was  *)
(* acknowledged.                                                           *)
SweepInv ==
  /\ phase = "wire" => \A o \in present[current] : order[o] # "unsent"
  /\ phase \in {"sweep", "waiting"} =>
       /\ \A o \in todo \cap Orders : order[o] \in {"resting", "off"}
       /\ \A o \in acked : command[<<current, o>>] \in Done
       /\ \A o \in present[current] \ barred : o \in targets \/ order[o] = "off"

ClearInv ==
  scoped =>
    /\ CommandsInv /\ SweepInv
    /\ phase = "answered" /\ answer.kind = "deleted" => Cleared(current)
    /\ \A i \in CallNumbers : outcome[i].kind = "deleted" => Cleared(i)

(* Orders only move forward, and never come back to the market.            *)
OnlyForward ==
  \A o \in Orders :
    /\ order[o] # "unsent" => order'[o] # "unsent"
    /\ order[o] \in {"resting", "off"} => order'[o] \in {"resting", "off"}
    /\ order[o] = "off" => order'[o] = "off"

(* A step of the exchange keeps ClearInv.                                  *)
LEMMA ExchangeClears ==
  ASSUME ShapeInv, ClearInv, scoped, ExchangeStep
  PROVE  ClearInv'
<1> USE DEF ShapeInv, SweepTypeOK
<1>1. UNCHANGED world
  BY DEF ExchangeStep, Receive, Decline, Execute, OrderMoves
<1>2. OnlyForward
  BY DEF ExchangeStep, Receive, Decline, Execute, OrderMoves, OnlyForward
<1>3. \A n \in Sent : /\ command[n] \in Done => command'[n] \in Done
                      /\ command[n] = "none" => command'[n] = "none"
  BY DEF ExchangeStep, Receive, Decline, Execute, OrderMoves, Done
<1>4. \A i \in CallNumbers, o \in Orders : <<i, o>> \in Sent
  BY DEF Sent
<1>5. CommandsInv'
  <2>1. CASE \E o \in Orders : OrderMoves(o)
    BY <2>1, <1>2 DEF OrderMoves, OnlyForward, CommandsInv, ClearInv
  <2>2. CASE \E m \in Sent : Receive(m)
    BY <2>2, <1>2, <1>4 DEF Receive, OnlyForward, CommandsInv, ClearInv
  <2>4. CASE \E m \in Sent : Decline(m)
    BY <2>4, <1>2, <1>4 DEF Decline, OnlyForward, CommandsInv, ClearInv
  <2>3. CASE \E m \in Sent : Execute(m)
    <3>1. PICK m \in Sent : Execute(m)
      BY <2>3
    <3>2. ASSUME NEW i \in CallNumbers, NEW o \in Orders, command'[<<i, o>>] = "executed"
          PROVE  order'[o] = "off"
      <4>1. CASE <<i, o>> = m
        <5>1. m[2] = o /\ command[<<i, o>>] = "received"
          BY <4>1, <3>1 DEF Execute
        <5>2. order[o] \in {"resting", "off"}
          BY <5>1 DEF CommandsInv, ClearInv
        <5> QED BY <3>1, <5>1, <5>2 DEF Execute, Covered
      <4>2. CASE <<i, o>> # m
        BY <4>2, <3>1, <3>2, <1>2, <1>4 DEF Execute, CommandsInv, ClearInv, OnlyForward
      <4> QED BY <4>1, <4>2
    <3>3. ASSUME NEW i \in CallNumbers, NEW o \in Orders, command'[<<i, o>>] # "none"
          PROVE  order'[o] \in {"resting", "off"}
      BY <3>3, <1>2, <1>3, <1>4 DEF CommandsInv, ClearInv, OnlyForward
    <3> QED BY <3>2, <3>3 DEF CommandsInv
  <2> QED BY <2>1, <2>2, <2>3, <2>4 DEF ExchangeStep
<1>6. \A i \in CallNumbers : Cleared(i) => Cleared(i)'
  BY <1>1, <1>2, <1>3, <1>4 DEF Cleared, OnlyForward
<1>7. SweepInv'
  BY <1>1, <1>2, <1>3, <1>4 DEF ClearInv, SweepInv, OnlyForward, Commands
<1> QED BY <1>1, <1>5, <1>6, <1>7 DEF ClearInv

(* A step of the client does: a call that begins takes note of the market, *)
(* one that ends says what its answer said.                                *)
LEMMA ClientClears ==
  ASSUME ShapeInv, HonestInv, ClearInv, scoped, ClientStep
  PROVE  ClearInv'
<1> USE DEF ShapeInv, SweepTypeOK
<1>1. CASE CancelAllOrders
  <2>1. /\ phase' = "wire" /\ current' = current + 1
        /\ present' = [present EXCEPT ![current + 1] = Live \cup Unacknowledged]
        /\ UNCHANGED <<scoped, barred, outcome, command, order>>
    BY <1>1 DEF CancelAllOrders
  <2>2. current' \in CallNumbers /\ current' > current
    BY <1>1 DEF CancelAllOrders, CallNumbers
  <2>3. outcome[current'].kind = "none"
    BY <2>2 DEF HonestInv
  <2>4. SweepInv'
    BY <2>1, <2>2 DEF SweepInv, Live, Unacknowledged
  <2>5. CommandsInv'
    BY <2>1 DEF ClearInv, CommandsInv
  <2>6. ASSUME NEW i \in CallNumbers, outcome'[i].kind = "deleted"
        PROVE  Cleared(i)'
    <3>1. i # current' /\ present'[i] = present[i]
      BY <2>1, <2>3, <2>6
    <3> QED BY <2>1, <2>6, <3>1 DEF ClearInv, Cleared
  <2> QED BY <2>1, <2>4, <2>5, <2>6 DEF ClearInv
<1>2. ASSUME NEW o, Conclude(o), o.kind = "deleted" => Cleared(current)
      PROVE  ClearInv'
  <2>1. /\ current \in CallNumbers /\ phase' = "over"
        /\ outcome' = [outcome EXCEPT ![current] = o]
        /\ UNCHANGED <<scoped, barred, current, command, order, present>>
    BY <1>2 DEF Conclude
  <2>2. CommandsInv' /\ SweepInv'
    BY <2>1 DEF ClearInv, CommandsInv, SweepInv
  <2>3. \A i \in CallNumbers : outcome'[i].kind = "deleted" => Cleared(i)
    BY <1>2, <2>1 DEF ClearInv
  <2>4. \A i \in CallNumbers : Cleared(i) => Cleared(i)'
    BY <2>1 DEF Cleared
  <2> QED BY <2>1, <2>2, <2>3, <2>4 DEF ClearInv
<1>3. CASE Deliver
  <2>1. CASE answer.kind = "deleted" /\ Conclude(answer)
    BY <1>3, <2>1, <1>2 DEF Deliver, ClearInv
  <2>2. CASE answer.kind = "status" /\ Conclude(RaisedFor(answer.status))
    BY <2>2, <1>2 DEF RaisedFor
  <2> QED BY <1>3, <2>1, <2>2 DEF Deliver
<1>4. CASE DeadlinePasses \/ ConnectionFails
  BY <1>4, <1>2 DEF DeadlinePasses, ConnectionFails, RaisedFor
<1> QED BY <1>1, <1>3, <1>4 DEF ClientStep

(* And the gateway's steps: a sweep is answered with success only when the *)
(* cancel of each of its targets was acknowledged.                         *)
LEMMA GatewayClears ==
  ASSUME ShapeInv, HonestInv, ClearInv, scoped, GatewayStep
  PROVE  ClearInv'
<1> USE DEF ShapeInv, SweepTypeOK
<1>1. \A i \in CallNumbers, o \in Orders : <<i, o>> \in Sent
  BY DEF Sent
<1>2. /\ UNCHANGED <<scoped, barred, current, outcome, present, order>>
      /\ current \in CallNumbers /\ outcome[current].kind = "none"
      /\ phase \in {"wire", "sweep", "waiting"}
  <2>1. UNCHANGED order
    BY DEF GatewayStep, RefuseCall, BeginSweep, SendCancel, CannotScale, CannotSend,
           HearReceipt, HearRefusal, RouteFails, EndSweep
  <2> QED BY <2>1, GatewayTells DEF HonestInv
<1>3. ASSUME NEW i \in CallNumbers, outcome'[i].kind = "deleted"
      PROVE  Cleared(i)'
  <2>1. i # current /\ Cleared(i)
    BY <1>2, <1>3 DEF ClearInv
  <2>2. \A o \in Orders : command'[<<i, o>>] = command[<<i, o>>]
    BY <1>1, <2>1, GatewayTells
  <2> QED BY <1>2, <2>1, <2>2 DEF Cleared
<1>4. ASSUME UNCHANGED command PROVE CommandsInv'
  BY <1>2, <1>4 DEF ClearInv, CommandsInv
<1>5. SUFFICES /\ CommandsInv' /\ SweepInv'
               /\ phase' = "answered" /\ answer'.kind = "deleted" => Cleared(current)'
  BY <1>2, <1>3 DEF ClearInv
<1>6. CASE RefuseCall
  BY <1>2, <1>4, <1>6 DEF RefuseCall, Reply, SweepInv
<1>7. CASE BeginSweep
  <2>1. SweepInv'
    BY <1>2, <1>7 DEF BeginSweep, ClearInv, SweepInv, Live, Unacknowledged
  <2> QED BY <1>4, <1>7, <2>1 DEF BeginSweep
<1>8. CASE \E x \in Orders \cup {AccountWide} : SendCancel(x)
  <2>1. PICK x \in Orders \cup {AccountWide} : SendCancel(x)
    BY <1>8
  <2>2. x \in Orders /\ order[x] \in {"resting", "off"} /\ x \notin acked
    BY <2>1 DEF SendCancel, ClearInv, SweepInv, Commands
  <2>3. CommandsInv'
    BY <1>1, <1>2, <2>1, <2>2 DEF SendCancel, ClearInv, CommandsInv
  <2>4. SweepInv'
    BY <1>1, <1>2, <2>1, <2>2 DEF SendCancel, ClearInv, SweepInv
  <2> QED BY <2>1, <2>3, <2>4 DEF SendCancel
<1>9. CASE (\E o \in Orders : CannotScale(o)) \/ CannotSend
  BY <1>2, <1>4, <1>9 DEF CannotScale, CannotSend, ClearInv, SweepInv
<1>10. CASE HearReceipt
  <2>1. target \in Orders
    BY <1>10 DEF HearReceipt, Commands
  <2>2. SweepInv'
    BY <1>2, <1>10, <2>1 DEF HearReceipt, Receipted, Command, Covered, ClearInv, SweepInv, Done
  <2> QED BY <1>4, <1>10, <2>2 DEF HearReceipt
<1>11. CASE HearRefusal
  BY <1>2, <1>4, <1>11 DEF HearRefusal, ClearInv, SweepInv
<1>12. CASE RouteFails
  <2>1. /\ phase = "waiting" /\ phase' = "sweep" /\ todo' = {}
        /\ UNCHANGED <<targets, acked>>
    BY <1>12 DEF RouteFails
  <2>2. target \in Orders
    BY <1>12 DEF RouteFails, Commands
  <2>3. \/ UNCHANGED command
        \/ /\ command[<<current, target>>] = "sent"
           /\ command' = [command EXCEPT ![<<current, target>>] = "returned"]
    BY <1>12 DEF RouteFails, Command
  <2>4. CommandsInv'
    BY <1>1, <1>2, <2>2, <2>3 DEF ClearInv, CommandsInv
  <2>5. SweepInv'
    BY <1>1, <1>2, <2>1, <2>2, <2>3 DEF ClearInv, SweepInv, Done
  <2> QED BY <2>1, <2>4, <2>5
<1>13. CASE EndSweep
  <2>1. /\ phase = "sweep" /\ phase' = "answered" /\ UNCHANGED command
        /\ answer'.kind = "deleted" => acked = targets
    BY <1>13 DEF EndSweep, Reply
  <2>2. acked = targets => Cleared(current)
    BY <2>1 DEF ClearInv, SweepInv, Cleared
  <2>3. Cleared(current) => Cleared(current)'
    BY <1>2, <2>1 DEF Cleared
  <2> QED BY <1>4, <2>1, <2>2, <2>3 DEF SweepInv
<1> QED BY <1>6, <1>7, <1>8, <1>9, <1>10, <1>11, <1>12, <1>13 DEF GatewayStep

(* A member-scoped cancel-all that returned overlooked none of the orders  *)
(* it may cancel that were on the market when it was called, one not yet   *)
(* acknowledged included: each is off, or its cancel was acknowledged.     *)
THEOREM SuccessOverlooksNone == Spec => []NoneOverlooked
<1>1. Init => ClearInv
  BY DEF Init, ClearInv, CommandsInv, SweepInv, Sent, NoOutcome
<1>2. ShapeInv /\ HonestInv /\ ClearInv /\ [Next]_vars => ClearInv'
  <2> SUFFICES ASSUME ShapeInv, HonestInv, ClearInv, [Next]_vars PROVE ClearInv'
    OBVIOUS
  <2>1. CASE UNCHANGED vars
    BY <2>1 DEF ClearInv, CommandsInv, SweepInv, Cleared
  <2>2. scoped' = scoped
    BY <2>1 DEF Next, ClientStep, GatewayStep, ExchangeStep, CancelAllOrders,
         Deliver, DeadlinePasses, ConnectionFails, Conclude, RefuseCall, BeginSweep,
         SendCancel, CannotScale, CannotSend, HearReceipt, HearRefusal, RouteFails,
         EndSweep, Receive, Decline, Execute, OrderMoves
  <2> QED BY <2>1, <2>2, ClientClears, GatewayClears, ExchangeClears DEF Next, ClearInv
<1>3. ShapeInv /\ ClearInv => NoneOverlooked
  <2> SUFFICES ASSUME ShapeInv, ClearInv, scoped, NEW i \in CallNumbers,
                      outcome[i].kind = "deleted", NEW o \in present[i] \ barred
               PROVE  order[o] = "off" \/ command[<<i, o>>] \in {"received", "declined"}
    BY DEF NoneOverlooked
  <2>1. o \in Orders
    BY DEF ShapeInv
  <2>2. order[o] = "off" \/ command[<<i, o>>] \in Done
    BY DEF ClearInv, Cleared
  <2> QED BY <2>1, <2>2 DEF ClearInv, CommandsInv, Done
<1> QED BY <1>1, <1>2, <1>3, Shape, Honest, PTL DEF Spec
=============================================================================
