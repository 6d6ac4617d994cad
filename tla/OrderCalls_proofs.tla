-------------------------- MODULE OrderCalls_proofs --------------------------
(***************************************************************************)
(* Proofs about OrderCalls, for any set of calls and keys, any refusal     *)
(* codes and any number of gateway restarts.  The last part is about the   *)
(* reconciliation pass, which makes such calls: its steps are steps of     *)
(* OrderCalls, and what is proved of those calls and of their keys is the  *)
(* ground of what the pass concludes.  Nothing before that part cites an   *)
(* assumption of VerifyReconcile.                                          *)
(***************************************************************************)
EXTENDS VerifyReconcile, TLAPS

(* A call of an order method that ends with an uncertain code and no       *)
(* marker never claims a definite rejection.                               *)
LEMMA UncertainIsUnknown ==
  \A code \in UncertainCodes : \A rpc :
    /\ ErrorOf(rpc, Failure(code), TRUE) =
         [cls |-> "OrderOutcomeUnknown", rejected |-> FALSE]
    /\ ErrorOf(rpc, Failure(code), TRUE).rejected = FALSE
  BY DEF ErrorOf, Failure, Translate, DefinitelyRejected, ClassRejects,
         UncertainCodes

(* Every status code has an error class.                                   *)
LEMMA ClassOfCodeType ==
  ASSUME NEW code \in StatusCodes
  PROVE  ClassOfCode(code) \in ErrorClasses
  BY SMTT(30) DEF ClassOfCode, CodeToClass, ErrorClasses

(* translate always builds one of the SDK's error classes.                 *)
LEMMA ErrorType ==
  ASSUME NEW status \in Statuses, NEW rpc, NEW flag \in BOOLEAN
  PROVE  /\ ErrorOf(rpc, status, flag).cls \in ErrorClasses
         /\ ErrorOf(rpc, status, flag).rejected \in BOOLEAN
<1>1. ClassOfCode(status.code) \in ErrorClasses
  BY ClassOfCodeType DEF Statuses
<1>2. Translate(status, flag) \in ErrorClasses
  BY <1>1 DEF Translate, ErrorClasses
<1> QED BY <1>2 DEF ErrorOf, DefinitelyRejected, ClassRejects, IsIncompleteCancelAll

USE NoCallAssumption DEF clientVars, gatewayVars, exchangeVars

(* Every value a step may put in reply or outcome has its type.            *)
LEMMA ReplyTypes ==
  /\ \A a \in Answers : Answer(a) \in Replies /\ Returned(a) \in Outcomes
  /\ \A s \in Statuses : Fail(s) \in Replies
  /\ \A code \in StatusCodes, m \in Markers :
       Failure(code) \in Statuses /\ Marked(code, m) \in Statuses
  /\ \A s \in Statuses, c \in Calls : RaisedFor(c, s) \in Outcomes
  /\ UncertainCodes \subseteq StatusCodes
  /\ NoOutcome \in Outcomes /\ NoReply \in Replies
<1>1. \A a \in Answers : Answer(a) \in Replies /\ Returned(a) \in Outcomes
  BY DEF Answer, Returned, Replies, Outcomes
<1>2. \A s \in Statuses : Fail(s) \in Replies
  BY DEF Fail, Replies
<1>3. \A code \in StatusCodes, m \in Markers :
        Failure(code) \in Statuses /\ Marked(code, m) \in Statuses
  BY DEF Failure, Marked, Statuses, Markers
<1>4. \A s \in Statuses, c \in Calls : RaisedFor(c, s) \in Outcomes
  BY ErrorType DEF RaisedFor, Raised, Outcomes
<1>5. UncertainCodes \subseteq StatusCodes
  BY DEF UncertainCodes, StatusCodes
<1>6. NoOutcome \in Outcomes /\ NoReply \in Replies
  BY DEF Outcomes, Replies
<1> QED BY <1>1, <1>2, <1>3, <1>4, <1>5, <1>6

(* The initial state is well typed.                                        *)
LEMMA InitType == Init => TypeOK
  BY ReplyTypes DEF Init, TypeOK, Stages, Records

(* Ending a call with a well-typed outcome keeps the types.                *)
LEMMA ConcludeType ==
  ASSUME TypeOK, NEW c \in Calls, NEW o \in Outcomes, Conclude(c, o)
  PROVE  TypeOK'
  BY ReplyTypes DEF TypeOK, Conclude

(* The replies stay well typed when one is added.                          *)
LEMMA ReplyWithType ==
  ASSUME TypeOK, NEW c \in Calls, NEW r \in Replies
  PROVE  ReplyWith(c, r) \in [Calls -> Replies]
  BY DEF TypeOK, ReplyWith

(* The statuses the gateway refuses a request with.                        *)
LEMMA RefusalCodeTypes ==
  /\ \A code \in RefusalCodes : Failure(code) \in Statuses
  /\ Failure("INVALID_ARGUMENT") \in Statuses
  /\ Failure("ABORTED") \in Statuses
  /\ Failure("NOT_FOUND") \in Statuses
  /\ Failure("DEADLINE_EXCEEDED") \in Statuses
  /\ Failure("UNAVAILABLE") \in Statuses
  /\ Marked("ABORTED", "ORDER_PENDING") \in Statuses
  /\ Marked("ABORTED", "ORDER_CHANGED") \in Statuses
  /\ Marked("UNAVAILABLE", "NOT_PROCESSED") \in Statuses
  /\ \A code \in TransportCodes \cup GiveUpCodes : Failure(code) \in Statuses
  BY RefusalAssumption, GiveUpAssumption
     DEF Failure, Marked, Statuses, Markers, StatusCodes, TransportCodes,
         UncertainCodes

(* The steps of the model, one disjunct per action.                        *)
LEMMA NextCases ==
  ASSUME [Next]_vars
  PROVE
    \/ \E c \in Calls, rpc \in Rpcs, k \in Keys : Invoke(c, rpc, k)
    \/ \E c \in Calls : DeadlineExpires(c)
    \/ \E c \in Calls, code \in TransportCodes : TransportFails(c, code)
    \/ \E c \in Calls : Deliver(c)
    \/ \E c \in Calls : LoseRequest(c)
    \/ \E c \in Calls, status \in Statuses : Refuse(c, status)
    \/ \E c \in Calls : PublishSubmit(c)
    \/ \E c \in Calls : PublishCommand(c)
    \/ \E c \in Calls : BrokerReturns(c)
    \/ \E c \in Calls : GatewayGivesUp(c)
    \/ \E c \in Calls : GatewayAcknowledges(c)
    \/ \E c \in Calls : HearExecuted(c)
    \/ \E c \in Calls : HearRefused(c)
    \/ \E c \in Calls : ExecuteSubmit(c)
    \/ \E c \in Calls : ExecuteCommand(c)
    \/ \E c \in Calls : RefuseExecution(c)
    \/ \E c \in Calls : DropExpired(c)
    \/ \E k \in Keys : OrderStep(k)
    \/ Restart
    \/ UNCHANGED vars
  BY RefusalAssumption, RefusalCodeTypes
     DEF Next, ClientStep, GatewayStep, ExchangeStep, SubmitOrder, ModifyOrder,
         CancelOrder, RefuseRequest, RefuseUsedKey, RefuseCommand, Rpcs

(* Every step keeps the types.                                              *)
LEMMA StepType ==
  ASSUME CallInv, [Next]_vars
  PROVE  TypeOK'
<1> USE DEF CallInv, TypeOK, StageInv, Conclude, ReplyWith, Unlock, Requests,
            Stages, Records, KeyOf, IsSubmit, IsModify, Answers, Published,
            Reported
<1>1. ASSUME NEW c \in Calls, NEW rpc \in Rpcs, NEW k \in Keys,
             Invoke(c, rpc, k)
      PROVE  TypeOK'
  BY <1>1, ReplyTypes, RefusalCodeTypes DEF Invoke
<1>2. ASSUME NEW c \in Calls, DeadlineExpires(c)
      PROVE  TypeOK'
  BY <1>2, ReplyTypes, RefusalCodeTypes DEF DeadlineExpires
<1>3. ASSUME NEW c \in Calls, NEW code \in TransportCodes,
             TransportFails(c, code)
      PROVE  TypeOK'
  BY <1>3, ReplyTypes, RefusalCodeTypes DEF TransportFails
<1>4. ASSUME NEW c \in Calls, Deliver(c)
      PROVE  TypeOK'
  <2>1. CASE reply[c].kind = "answer"
    <3>1. reply[c].answer \in Answers
      BY <2>1 DEF Replies, NoReply
    <3>2. Conclude(c, Returned(reply[c].answer))
      BY <1>4, <2>1 DEF Deliver
    <3> HIDE DEF Answers, Conclude
    <3> QED BY <3>1, <3>2, ReplyTypes, ConcludeType
  <2>2. CASE reply[c].kind = "status"
    <3>1. reply[c].status \in Statuses
      BY <2>2 DEF Replies, NoReply
    <3>2. Conclude(c, RaisedFor(c, reply[c].status))
      BY <1>4, <2>2 DEF Deliver
    <3> HIDE DEF Answers, Conclude
    <3> QED BY <3>1, <3>2, ReplyTypes, ConcludeType
  <2> QED BY <1>4, <2>1, <2>2 DEF Deliver
<1>5. ASSUME NEW c \in Calls, LoseRequest(c)
      PROVE  TypeOK'
  BY <1>5, ReplyTypes, RefusalCodeTypes DEF LoseRequest
<1>6. ASSUME NEW c \in Calls, NEW status \in Statuses,
             Refuse(c, status)
      PROVE  TypeOK'
  BY <1>6, ReplyTypes, RefusalCodeTypes DEF Refuse
<1>7. ASSUME NEW c \in Calls, PublishSubmit(c)
      PROVE  TypeOK'
  BY <1>7, ReplyTypes, RefusalCodeTypes DEF PublishSubmit
<1>8. ASSUME NEW c \in Calls, PublishCommand(c)
      PROVE  TypeOK'
  BY <1>8, ReplyTypes, RefusalCodeTypes DEF PublishCommand
<1>9. ASSUME NEW c \in Calls, BrokerReturns(c)
      PROVE  TypeOK'
  BY <1>9, ReplyTypes, RefusalCodeTypes DEF BrokerReturns
<1>10. ASSUME NEW c \in Calls, GatewayGivesUp(c)
      PROVE  TypeOK'
  BY <1>10, ReplyTypes, RefusalCodeTypes DEF GatewayGivesUp
<1>11. ASSUME NEW c \in Calls, GatewayAcknowledges(c)
      PROVE  TypeOK'
  BY <1>11, ReplyTypes, RefusalCodeTypes DEF GatewayAcknowledges
<1>12. ASSUME NEW c \in Calls, HearExecuted(c)
      PROVE  TypeOK'
  BY <1>12, ReplyTypes, RefusalCodeTypes DEF HearExecuted
<1>13. ASSUME NEW c \in Calls, HearRefused(c)
      PROVE  TypeOK'
  BY <1>13, ReplyTypes, RefusalCodeTypes DEF HearRefused
<1>14. ASSUME NEW c \in Calls, ExecuteSubmit(c)
      PROVE  TypeOK'
  <2>1. KeyOf(c) \in Keys
    BY <1>14 DEF ExecuteSubmit
  <2>2. stage' \in [Calls -> Stages] /\ applied' \in [Calls -> BOOLEAN]
    BY <1>14 DEF ExecuteSubmit
  <2>3. book' \in [Keys -> Nat]
    BY <1>14, <2>1 DEF ExecuteSubmit
  <2> QED BY <1>14, <2>2, <2>3 DEF ExecuteSubmit
<1>15. ASSUME NEW c \in Calls, ExecuteCommand(c)
      PROVE  TypeOK'
  BY <1>15, ReplyTypes, RefusalCodeTypes DEF ExecuteCommand
<1>16. ASSUME NEW c \in Calls, RefuseExecution(c)
      PROVE  TypeOK'
  BY <1>16, ReplyTypes, RefusalCodeTypes DEF RefuseExecution
<1>17. ASSUME NEW c \in Calls, DropExpired(c)
      PROVE  TypeOK'
  BY <1>17, ReplyTypes, RefusalCodeTypes DEF DropExpired
<1>18. ASSUME NEW k \in Keys, OrderStep(k)
      PROVE  TypeOK'
  BY <1>18, ReplyTypes, RefusalCodeTypes DEF OrderStep, HearFill, LockLapses, Reap, ForgetFinished, Fill
<1>19. ASSUME Restart
      PROVE  TypeOK'
  BY <1>19, ReplyTypes, RefusalCodeTypes DEF Restart
<1>20. ASSUME UNCHANGED vars
      PROVE  TypeOK'
  BY <1>20, ReplyTypes, RefusalCodeTypes DEF vars
<1> QED
  BY <1>1, <1>2, <1>3, <1>4, <1>5, <1>6, <1>7, <1>8, <1>9, <1>10,
     <1>11, <1>12, <1>13, <1>14, <1>15, <1>16, <1>17, <1>18, <1>19, <1>20,
     NextCases

(* A request is on its way or beyond exactly when its call was made, and    *)
(* only a request the exchange executed has taken effect.                   *)
LEMMA StepStage ==
  ASSUME CallInv, [Next]_vars
  PROVE  StageInv'
<1> USE DEF CallInv, TypeOK, StageInv, Conclude, Requests, KeyOf, Published
<1>1. ASSUME NEW c \in Calls, NEW rpc \in Rpcs, NEW k \in Keys,
             Invoke(c, rpc, k)
      PROVE  StageInv'
  BY <1>1 DEF Invoke
<1>2. ASSUME NEW c \in Calls, DeadlineExpires(c)
      PROVE  StageInv'
  BY <1>2 DEF DeadlineExpires
<1>3. ASSUME NEW c \in Calls, NEW code \in TransportCodes,
             TransportFails(c, code)
      PROVE  StageInv'
  BY <1>3 DEF TransportFails
<1>4. ASSUME NEW c \in Calls, Deliver(c)
      PROVE  StageInv'
  BY <1>4 DEF Deliver
<1>5. ASSUME NEW c \in Calls, LoseRequest(c)
      PROVE  StageInv'
  BY <1>5 DEF LoseRequest
<1>6. ASSUME NEW c \in Calls, NEW status \in Statuses,
             Refuse(c, status)
      PROVE  StageInv'
  BY <1>6 DEF Refuse
<1>7. ASSUME NEW c \in Calls, PublishSubmit(c)
      PROVE  StageInv'
  BY <1>7 DEF PublishSubmit
<1>8. ASSUME NEW c \in Calls, PublishCommand(c)
      PROVE  StageInv'
  BY <1>8 DEF PublishCommand
<1>9. ASSUME NEW c \in Calls, BrokerReturns(c)
      PROVE  StageInv'
  BY <1>9 DEF BrokerReturns
<1>10. ASSUME NEW c \in Calls, GatewayGivesUp(c)
      PROVE  StageInv'
  BY <1>10 DEF GatewayGivesUp
<1>11. ASSUME NEW c \in Calls, GatewayAcknowledges(c)
      PROVE  StageInv'
  BY <1>11 DEF GatewayAcknowledges
<1>12. ASSUME NEW c \in Calls, HearExecuted(c)
      PROVE  StageInv'
  BY <1>12 DEF HearExecuted
<1>13. ASSUME NEW c \in Calls, HearRefused(c)
      PROVE  StageInv'
  BY <1>13 DEF HearRefused
<1>14. ASSUME NEW c \in Calls, ExecuteSubmit(c)
      PROVE  StageInv'
  BY <1>14 DEF ExecuteSubmit
<1>15. ASSUME NEW c \in Calls, ExecuteCommand(c)
      PROVE  StageInv'
  BY <1>15 DEF ExecuteCommand
<1>16. ASSUME NEW c \in Calls, RefuseExecution(c)
      PROVE  StageInv'
  BY <1>16 DEF RefuseExecution
<1>17. ASSUME NEW c \in Calls, DropExpired(c)
      PROVE  StageInv'
  BY <1>17 DEF DropExpired
<1>18. ASSUME NEW k \in Keys, OrderStep(k)
      PROVE  StageInv'
  BY <1>18 DEF OrderStep, HearFill, LockLapses, Reap, ForgetFinished, Fill
<1>19. ASSUME Restart
      PROVE  StageInv'
  BY <1>19 DEF Restart
<1>20. ASSUME UNCHANGED vars
      PROVE  StageInv'
  BY <1>20 DEF vars
<1> QED
  BY <1>1, <1>2, <1>3, <1>4, <1>5, <1>6, <1>7, <1>8, <1>9, <1>10,
     <1>11, <1>12, <1>13, <1>14, <1>15, <1>16, <1>17, <1>18, <1>19, <1>20,
     NextCases

(* What is settled stays settled: a void request stays void, an applied     *)
(* one applied, and a request that was sent keeps its content.              *)
LEMMA Settled ==
  ASSUME CallInv, [Next]_vars
  PROVE  \A d \in Calls :
           /\ Void(d) => Void(d)'
           /\ applied[d] => applied'[d]
           /\ call[d] # "idle" => req'[d] = req[d]
<1> DEFINE Settles == \A d \in Calls :
           /\ Void(d) => Void(d)'
           /\ applied[d] => applied'[d]
           /\ call[d] # "idle" => req'[d] = req[d]
<1> USE DEF CallInv, TypeOK, StageInv, Conclude, Void, KeyOf, Published
<1>1. ASSUME NEW c \in Calls, NEW rpc \in Rpcs, NEW k \in Keys,
             Invoke(c, rpc, k)
      PROVE  Settles
  BY <1>1 DEF Invoke
<1>2. ASSUME NEW c \in Calls, DeadlineExpires(c)
      PROVE  Settles
  BY <1>2 DEF DeadlineExpires
<1>3. ASSUME NEW c \in Calls, NEW code \in TransportCodes,
             TransportFails(c, code)
      PROVE  Settles
  BY <1>3 DEF TransportFails
<1>4. ASSUME NEW c \in Calls, Deliver(c)
      PROVE  Settles
  BY <1>4 DEF Deliver
<1>5. ASSUME NEW c \in Calls, LoseRequest(c)
      PROVE  Settles
  BY <1>5 DEF LoseRequest
<1>6. ASSUME NEW c \in Calls, NEW status \in Statuses,
             Refuse(c, status)
      PROVE  Settles
  BY <1>6 DEF Refuse
<1>7. ASSUME NEW c \in Calls, PublishSubmit(c)
      PROVE  Settles
  BY <1>7 DEF PublishSubmit
<1>8. ASSUME NEW c \in Calls, PublishCommand(c)
      PROVE  Settles
  BY <1>8 DEF PublishCommand
<1>9. ASSUME NEW c \in Calls, BrokerReturns(c)
      PROVE  Settles
  BY <1>9 DEF BrokerReturns
<1>10. ASSUME NEW c \in Calls, GatewayGivesUp(c)
      PROVE  Settles
  BY <1>10 DEF GatewayGivesUp
<1>11. ASSUME NEW c \in Calls, GatewayAcknowledges(c)
      PROVE  Settles
  BY <1>11 DEF GatewayAcknowledges
<1>12. ASSUME NEW c \in Calls, HearExecuted(c)
      PROVE  Settles
  BY <1>12 DEF HearExecuted
<1>13. ASSUME NEW c \in Calls, HearRefused(c)
      PROVE  Settles
  BY <1>13 DEF HearRefused
<1>14. ASSUME NEW c \in Calls, ExecuteSubmit(c)
      PROVE  Settles
  BY <1>14 DEF ExecuteSubmit
<1>15. ASSUME NEW c \in Calls, ExecuteCommand(c)
      PROVE  Settles
  BY <1>15 DEF ExecuteCommand
<1>16. ASSUME NEW c \in Calls, RefuseExecution(c)
      PROVE  Settles
  BY <1>16 DEF RefuseExecution
<1>17. ASSUME NEW c \in Calls, DropExpired(c)
      PROVE  Settles
  BY <1>17 DEF DropExpired
<1>18. ASSUME NEW k \in Keys, OrderStep(k)
      PROVE  Settles
  BY <1>18 DEF OrderStep, HearFill, LockLapses, Reap, ForgetFinished, Fill
<1>19. ASSUME Restart
      PROVE  Settles
  BY <1>19 DEF Restart
<1>20. ASSUME UNCHANGED vars
      PROVE  Settles
  BY <1>20 DEF vars
<1> QED
  BY <1>1, <1>2, <1>3, <1>4, <1>5, <1>6, <1>7, <1>8, <1>9, <1>10,
     <1>11, <1>12, <1>13, <1>14, <1>15, <1>16, <1>17, <1>18, <1>19, <1>20,
     NextCases

(* The part of ReplyInv that is about one call.                            *)
ReplyHonest(d) ==
  /\ reply[d] # NoReply => call[d] = "open"
  /\ ReplyRejects(d) => Void(d)
  /\ reply[d] \in {Answer("ACTIVE"), Answer("CONFIRMED")} => applied[d]

(* An answer nobody touched stays honest; no answer is honest.             *)
LEMMA ReplyKept ==
  ASSUME CallInv, [Next]_vars, NEW d \in Calls,
         \/ reply'[d] = reply[d] /\ call'[d] = call[d]
         \/ reply'[d] = NoReply
  PROVE  ReplyHonest(d)'
<1>1. CASE reply'[d] = NoReply
  BY <1>1 DEF ReplyHonest, ReplyRejects, NoReply, Answer
<1>2. CASE reply[d] # NoReply /\ reply'[d] = reply[d] /\ call'[d] = call[d]
  <2>1. call[d] = "open" /\ ReplyHonest(d)
    BY <1>2 DEF CallInv, ReplyInv, ReplyHonest
  <2>2. req'[d] = req[d] /\ (Void(d) => Void(d)') /\ (applied[d] => applied'[d])
    BY <2>1, Settled
  <2> QED BY <1>2, <2>1, <2>2 DEF ReplyHonest, ReplyRejects, RaisedFor
<1> QED BY <1>1, <1>2

(* An uncertain failure with no marker will not claim a rejection.         *)
LEMMA UncertainReply ==
  ASSUME NEW d \in Calls, NEW code \in UncertainCodes,
         reply'[d] = Fail(Failure(code))
  PROVE  ~ReplyRejects(d)'
<1> DEFINE error == ErrorOf(req'[d].rpc, Failure(code), TRUE)
<1>1. error.rejected = FALSE
  BY UncertainIsUnknown, Zenon
<1>2. RaisedFor(d, Failure(code))' = Raised(error)
  BY DEF RaisedFor
<1> HIDE DEF error
<1>3. reply'[d].status = Failure(code) /\ reply'[d] # Answer("REJECTED")
  BY DEF Fail, Answer
<1>4. RaisedFor(d, reply[d].status)' = RaisedFor(d, Failure(code))'
  BY <1>3 DEF RaisedFor
<1> QED BY <1>1, <1>2, <1>3, <1>4 DEF ReplyRejects, Raised

(* Every answer on its way to a client is honest.                          *)
LEMMA StepReply ==
  ASSUME CallInv, [Next]_vars
  PROVE  ReplyInv'
<1> SUFFICES ASSUME NEW d \in Calls PROVE ReplyHonest(d)'
  BY DEF ReplyInv, ReplyHonest
<1> USE DEF CallInv, TypeOK
<1>1. CASE reply' = reply /\ call' = call
  BY <1>1, ReplyKept
<1>2. ASSUME NEW c \in Calls, NEW rpc \in Rpcs, NEW k \in Keys,
             Invoke(c, rpc, k)
      PROVE  ReplyHonest(d)'
  <2>1. reply[c] = NoReply
    BY <1>2 DEF Invoke, ReplyInv
  <2> QED BY <1>2, <2>1, ReplyKept DEF Invoke
<1>3. ASSUME NEW c \in Calls, NEW o, Conclude(c, o)
      PROVE  ReplyHonest(d)'
  BY <1>3, ReplyKept DEF Conclude
<1>4. ASSUME NEW c \in Calls, NEW r, reply' = ReplyWith(c, r), call' = call,
             ReplyRejects(c)' => Void(c)',
             r \in {Answer("ACTIVE"), Answer("CONFIRMED")} => applied'[c]
      PROVE  ReplyHonest(d)'
  <2>1. CASE reply'[d] = reply[d]
    BY <1>4, <2>1, ReplyKept
  <2>2. CASE d = c /\ call[c] = "open" /\ reply'[c] = r
    BY <1>4, <2>2 DEF ReplyHonest
  <2> QED BY <1>4, <2>1, <2>2 DEF ReplyWith
<1>5. ASSUME NEW c \in Calls, Void(c)'
      PROVE  ReplyRejects(c)' => Void(c)'
  BY <1>5
<1>6. ASSUME NEW c \in Calls, NEW status \in Statuses, Refuse(c, status)
      PROVE  ReplyHonest(d)'
  <2>1. Void(c)'
    BY <1>6 DEF Refuse, Void, StageInv
  <2>2. Fail(status) \notin {Answer("ACTIVE"), Answer("CONFIRMED")}
    BY DEF Fail, Answer
  <2> QED BY <1>6, <2>1, <2>2, <1>4 DEF Refuse
<1>7. ASSUME NEW c \in Calls, BrokerReturns(c)
      PROVE  ReplyHonest(d)'
  <2>1. Void(c)'
    BY <1>7 DEF BrokerReturns, Void, StageInv
  <2>2. Fail(Marked("UNAVAILABLE", "NOT_PROCESSED"))
          \notin {Answer("ACTIVE"), Answer("CONFIRMED")}
    BY DEF Fail, Answer
  <2> QED BY <1>7, <2>1, <2>2, <1>4 DEF BrokerReturns
<1>8. ASSUME NEW c \in Calls, HearRefused(c)
      PROVE  ReplyHonest(d)'
  <2>1. Void(c)'
    BY <1>8 DEF HearRefused, Void, StageInv
  <2>2. PICK r : /\ reply' = ReplyWith(c, r)
                 /\ r \notin {Answer("ACTIVE"), Answer("CONFIRMED")}
    BY <1>8 DEF HearRefused, Fail, Answer
  <2> QED BY <1>8, <2>1, <2>2, <1>4 DEF HearRefused
<1>9. ASSUME NEW c \in Calls, GatewayGivesUp(c)
      PROVE  ReplyHonest(d)'
  <2>1. PICK code \in GiveUpCodes : reply' = [reply EXCEPT ![c] = Fail(Failure(code))]
    BY <1>9 DEF GatewayGivesUp
  <2>2. reply'[c] = Fail(Failure(code))
    BY <2>1
  <2>4. ~ReplyRejects(c)'
    BY <2>2, UncertainReply, GiveUpAssumption
  <2>3. Fail(Failure(code)) \notin {Answer("ACTIVE"), Answer("CONFIRMED")}
    BY DEF Fail, Answer
  <2> QED BY <1>9, <2>1, <2>2, <2>3, <2>4, ReplyKept DEF GatewayGivesUp, ReplyHonest
<1>10. ASSUME NEW c \in Calls, GatewayAcknowledges(c)
       PROVE  ReplyHonest(d)'
  <2>1. PICK a \in {"PENDING", "ACKNOWLEDGED"} :
          reply' = [reply EXCEPT ![c] = Answer(a)]
    BY <1>10 DEF GatewayAcknowledges
  <2>2. reply'[c] = Answer(a) /\ ~ReplyRejects(c)'
    BY <2>1 DEF ReplyRejects, Answer
  <2>3. Answer(a) \notin {Answer("ACTIVE"), Answer("CONFIRMED")}
    BY DEF Answer
  <2> QED BY <1>10, <2>1, <2>2, <2>3, ReplyKept
          DEF GatewayAcknowledges, ReplyHonest
<1>11. ASSUME NEW c \in Calls, HearExecuted(c)
       PROVE  ReplyHonest(d)'
  <2>1. PICK a \in {"ACTIVE", "CONFIRMED"} :
          reply' = ReplyWith(c, Answer(a))
    BY <1>11 DEF HearExecuted
  <2>2. applied'[c]
    BY <1>11 DEF HearExecuted, StageInv
  <2>3. CASE reply'[d] = reply[d]
    BY <1>11, <2>3, ReplyKept DEF HearExecuted
  <2>4. CASE d = c /\ call'[d] = "open" /\ reply'[d] = Answer(a)
    BY <2>2, <2>4 DEF ReplyHonest, ReplyRejects, Answer
  <2> QED BY <1>11, <2>1, <2>3, <2>4 DEF HearExecuted, ReplyWith
<1>12. ASSUME Restart
       PROVE  ReplyHonest(d)'
  <2>1. CASE reply'[d] = reply[d]
    BY <1>12, <2>1, ReplyKept DEF Restart
  <2>2. CASE call'[d] = "open" /\ reply'[d] = Fail(Failure("UNAVAILABLE"))
    <3>1. "UNAVAILABLE" \in UncertainCodes
      BY DEF UncertainCodes
    <3>2. ~ReplyRejects(d)'
      BY <2>2, <3>1, UncertainReply
    <3> QED BY <2>2, <3>2 DEF ReplyHonest, Fail, Answer
  <2> QED BY <1>12, <2>1, <2>2 DEF Restart
<1>13. ASSUME NEW c \in Calls, \/ DeadlineExpires(c)
                               \/ \E code \in TransportCodes : TransportFails(c, code)
                               \/ Deliver(c)
       PROVE  \E o : Conclude(c, o)
  BY <1>13 DEF DeadlineExpires, TransportFails, Deliver
<1>14. ASSUME NEW c \in Calls,
              \/ LoseRequest(c) \/ PublishSubmit(c) \/ PublishCommand(c)
              \/ ExecuteSubmit(c) \/ ExecuteCommand(c) \/ RefuseExecution(c)
              \/ DropExpired(c)
       PROVE  reply' = reply /\ call' = call
  BY <1>14 DEF LoseRequest, PublishSubmit, PublishCommand, ExecuteSubmit,
       ExecuteCommand, RefuseExecution, DropExpired
<1>15. ASSUME \/ \E k \in Keys : OrderStep(k)
              \/ UNCHANGED vars
       PROVE  reply' = reply /\ call' = call
  BY <1>15 DEF OrderStep, HearFill, LockLapses, Reap, ForgetFinished, Fill, vars
<1> QED BY <1>1, <1>2, <1>3, <1>6, <1>7, <1>8, <1>9, <1>10, <1>11, <1>12,
           <1>13, <1>14, <1>15, NextCases

(* The part of OutcomeInv that is about one call.                          *)
OutcomeHonest(d) ==
  /\ call[d] # "done" => outcome[d] = NoOutcome
  /\ ToldRejected(d) => Void(d)
  /\ ToldApplied(d) => applied[d]

(* An outcome given stays honest: what it says can no longer change.       *)
LEMMA OutcomeKept ==
  ASSUME CallInv, [Next]_vars, NEW d \in Calls,
         outcome'[d] = outcome[d],
         call[d] = "done" => call'[d] = "done"
  PROVE  OutcomeHonest(d)'
<1>1. OutcomeHonest(d)
  BY DEF CallInv, OutcomeInv, OutcomeHonest
<1>2. (Void(d) => Void(d)') /\ (applied[d] => applied'[d])
  BY Settled
<1> QED BY <1>1, <1>2
        DEF OutcomeHonest, ToldRejected, ToldApplied, NoOutcome, Returned

(* Ending a call is honest when the outcome is.                            *)
LEMMA ConcludeHonest ==
  ASSUME CallInv, [Next]_vars, NEW c \in Calls, NEW o, Conclude(c, o),
         (o.kind = "raised" /\ o.rejected) \/ o = Returned("REJECTED") => Void(c),
         o \in {Returned("ACTIVE"), Returned("CONFIRMED")} => applied[c],
         NEW d \in Calls
  PROVE  OutcomeHonest(d)'
<1> USE DEF CallInv, TypeOK
<1>1. CASE d # c
  BY <1>1, OutcomeKept DEF Conclude
<1>2. CASE d = c
  <2>1. call'[c] = "done" /\ outcome'[c] = o /\ (Void(c) => Void(c)')
        /\ (applied[c] => applied'[c])
    BY Settled DEF Conclude
  <2> QED BY <1>2, <2>1 DEF OutcomeHonest, ToldRejected, ToldApplied
<1> QED BY <1>1, <1>2

(* Every outcome a caller was given is honest.                             *)
LEMMA StepOutcome ==
  ASSUME CallInv, [Next]_vars
  PROVE  OutcomeInv'
<1> SUFFICES ASSUME NEW d \in Calls PROVE OutcomeHonest(d)'
  BY DEF OutcomeInv, OutcomeHonest
<1> USE DEF CallInv, TypeOK
<1>1. CASE outcome' = outcome /\ (call[d] = "done" => call'[d] = "done")
  BY <1>1, OutcomeKept
<1>2. ASSUME NEW c \in Calls, NEW code \in UncertainCodes,
             Conclude(c, RaisedFor(c, Failure(code)))
      PROVE  OutcomeHonest(d)'
  <2>1. RaisedFor(c, Failure(code)) =
          [kind |-> "raised", cls |-> "OrderOutcomeUnknown", rejected |-> FALSE]
    <3> DEFINE error == ErrorOf(req[c].rpc, Failure(code), TRUE)
    <3>1. error = [cls |-> "OrderOutcomeUnknown", rejected |-> FALSE]
      BY UncertainIsUnknown, Zenon
    <3>2. RaisedFor(c, Failure(code)) = Raised(error)
      BY DEF RaisedFor
    <3> HIDE DEF error
    <3> QED BY <3>1, <3>2 DEF Raised
  <2> HIDE DEF CallInv
  <2> QED BY <1>2, <2>1, ConcludeHonest DEF Returned
<1>3. ASSUME NEW c \in Calls, Deliver(c)
      PROVE  OutcomeHonest(d)'
  <2>1. ReplyHonest(c)
    BY DEF ReplyInv, ReplyHonest
  <2>2. CASE reply[c].kind = "answer"
    <3>1. Conclude(c, Returned(reply[c].answer))
      BY <1>3, <2>2 DEF Deliver
    <3>2. reply[c] = Answer(reply[c].answer)
      BY <2>2 DEF Replies, Answer, NoReply
    <3> HIDE DEF CallInv
    <3> QED BY <2>1, <3>1, <3>2, ConcludeHonest
            DEF ReplyHonest, ReplyRejects, Returned
  <2>3. CASE reply[c].kind = "status"
    <3>1. Conclude(c, RaisedFor(c, reply[c].status))
      BY <1>3, <2>3 DEF Deliver
    <3>2. RaisedFor(c, reply[c].status).rejected => Void(c)
      BY <2>1, <2>3 DEF ReplyHonest, ReplyRejects
    <3>3. \A a : RaisedFor(c, reply[c].status) # Returned(a)
      BY DEF RaisedFor, Raised, Returned
    <3> HIDE DEF CallInv
    <3> QED BY <3>1, <3>2, <3>3, ConcludeHonest
  <2> QED BY <1>3, <2>2, <2>3 DEF Deliver
<1>4. ASSUME NEW c \in Calls, DeadlineExpires(c)
      PROVE  OutcomeHonest(d)'
  BY <1>4, <1>2 DEF DeadlineExpires, UncertainCodes
<1>5. ASSUME NEW c \in Calls, NEW code \in TransportCodes,
             TransportFails(c, code)
      PROVE  OutcomeHonest(d)'
  BY <1>5, <1>2 DEF TransportFails, TransportCodes, UncertainCodes
<1>6. ASSUME NEW c \in Calls, NEW rpc \in Rpcs, NEW k \in Keys,
             Invoke(c, rpc, k)
      PROVE  OutcomeHonest(d)'
  BY <1>6, <1>1 DEF Invoke
<1>7. ASSUME NEW c \in Calls,
             \/ LoseRequest(c) \/ (\E status \in Statuses : Refuse(c, status))
             \/ PublishSubmit(c) \/ PublishCommand(c) \/ BrokerReturns(c)
             \/ GatewayGivesUp(c) \/ GatewayAcknowledges(c)
             \/ HearExecuted(c) \/ HearRefused(c)
             \/ ExecuteSubmit(c) \/ ExecuteCommand(c) \/ RefuseExecution(c)
             \/ DropExpired(c)
      PROVE  outcome' = outcome /\ call' = call
  BY <1>7 DEF LoseRequest, Refuse, PublishSubmit, PublishCommand,
       BrokerReturns, GatewayGivesUp, GatewayAcknowledges, HearExecuted,
       HearRefused, ExecuteSubmit, ExecuteCommand, RefuseExecution, DropExpired
<1>8. ASSUME (\E k \in Keys : OrderStep(k)) \/ Restart \/ UNCHANGED vars
      PROVE  outcome' = outcome /\ call' = call
  BY <1>8 DEF OrderStep, HearFill, LockLapses, Reap, ForgetFinished, Fill,
       Restart, vars
<1> QED BY <1>1, <1>3, <1>4, <1>5, <1>6, <1>7, <1>8, NextCases

(* The initial state satisfies the inductive invariant.                    *)
LEMMA InitInv == Init => CallInv
<1> SUFFICES ASSUME Init PROVE CallInv
  OBVIOUS
<1>1. TypeOK
  BY InitType
<1>2. StageInv
  BY DEF Init, StageInv
<1>3. OutcomeInv
  BY DEF Init, OutcomeInv, ToldRejected, ToldApplied, NoOutcome, Returned
<1>4. ReplyInv
  BY DEF Init, ReplyInv, ReplyRejects, NoReply, Answer
<1> QED BY <1>1, <1>2, <1>3, <1>4 DEF CallInv

(* The inductive invariant: for any calls, keys, refusal codes and number  *)
(* of restarts, every answer under way and every outcome given is honest.  *)
THEOREM CallInvariant == Spec => []CallInv
<1>1. CallInv /\ [Next]_vars => CallInv'
  BY StepType, StepStage, StepOutcome, StepReply DEF CallInv
<1> QED BY <1>1, InitInv, PTL DEF Spec

(* Type correctness of the order path.                                     *)
THEOREM TypeCorrect == Spec => []TypeOK
<1>1. CallInv => TypeOK
  BY DEF CallInv
<1> QED BY <1>1, CallInvariant, PTL

(* request_definitely_rejected = True, and a submit's REJECTED, prove that *)
(* the request has not touched the exchange and never will.                *)
THEOREM HonestRejectionHolds == Spec => []HonestRejection
<1>1. CallInv => HonestRejection
  BY DEF CallInv, OutcomeInv, HonestRejection
<1> QED BY <1>1, CallInvariant, PTL

(***************************************************************************)
(* The order path implements OutcomePromise.                               *)
(***************************************************************************)

(* What a step does to the state the promise is about: it ends one call,   *)
(* or executes one request, or executes none and ends no call.             *)
LEMMA StepKinds ==
  ASSUME CallInv, [Next]_vars
  PROVE  \/ \E c \in Calls : \E o : call[c] = "open" /\ Conclude(c, o)
         \/ /\ UNCHANGED <<call, outcome>>
            /\ \E c \in Calls :
                 /\ stage[c] = "exchange"
                 /\ stage' = [stage EXCEPT ![c] = "executed"]
                 /\ applied' = [applied EXCEPT ![c] = TRUE]
         \/ UNCHANGED <<call, outcome, applied>>
         \/ \E c \in Calls : /\ call[c] = "idle" /\ stage[c] = "none"
                             /\ call' = [call EXCEPT ![c] = "open"]
                             /\ stage' = [stage EXCEPT ![c] = "wire"]
                             /\ UNCHANGED <<outcome, applied>>
<1>1. ASSUME NEW c \in Calls, NEW rpc \in Rpcs, NEW k \in Keys,
             Invoke(c, rpc, k)
      PROVE  /\ call[c] = "idle" /\ stage[c] = "none"
             /\ call' = [call EXCEPT ![c] = "open"]
             /\ stage' = [stage EXCEPT ![c] = "wire"]
             /\ UNCHANGED <<outcome, applied>>
  BY <1>1 DEF Invoke, CallInv, StageInv
<1>2. ASSUME NEW c \in Calls, \/ DeadlineExpires(c)
                              \/ \E code \in TransportCodes : TransportFails(c, code)
                              \/ Deliver(c)
      PROVE  \E o : call[c] = "open" /\ Conclude(c, o)
  BY <1>2 DEF DeadlineExpires, TransportFails, Deliver
<1>3. ASSUME NEW c \in Calls, ExecuteSubmit(c) \/ ExecuteCommand(c)
      PROVE  \/ UNCHANGED <<call, outcome, applied>>
             \/ /\ UNCHANGED <<call, outcome>>
                /\ stage[c] = "exchange"
                /\ stage' = [stage EXCEPT ![c] = "executed"]
                /\ applied' = [applied EXCEPT ![c] = TRUE]
  BY <1>3 DEF ExecuteSubmit, ExecuteCommand
<1>4. ASSUME NEW c \in Calls,
             \/ LoseRequest(c) \/ (\E status \in Statuses : Refuse(c, status))
             \/ PublishSubmit(c) \/ PublishCommand(c) \/ BrokerReturns(c)
             \/ GatewayGivesUp(c) \/ GatewayAcknowledges(c)
             \/ HearExecuted(c) \/ HearRefused(c) \/ RefuseExecution(c)
             \/ DropExpired(c)
      PROVE  UNCHANGED <<call, outcome, applied>>
  BY <1>4 DEF LoseRequest, Refuse, PublishSubmit, PublishCommand,
       BrokerReturns, GatewayGivesUp, GatewayAcknowledges, HearExecuted,
       HearRefused, RefuseExecution, DropExpired
<1>5. ASSUME (\E k \in Keys : OrderStep(k)) \/ Restart \/ UNCHANGED vars
      PROVE  UNCHANGED <<call, outcome, applied>>
  BY <1>5 DEF OrderStep, HearFill, LockLapses, Reap, ForgetFinished, Fill,
       Restart, vars
<1> QED BY <1>1, <1>2, <1>3, <1>4, <1>5, NextCases

(* Every step of the order path is a step of the promise, or a stutter.    *)
LEMMA StepPromise ==
  ASSUME CallInv, CallInv', [Next]_vars
  PROVE  [Promise!Next]_<<Fate, Told>>
<1>1. CASE UNCHANGED <<call, outcome, applied>>
  <2> DEFINE S == {d \in Calls : Fate[d] = "open" /\ Void(d)'}
  <2>1. Told' = Told
    BY <1>1 DEF Told, ToldRejected, ToldApplied
  <2>2. \A d \in Calls : Void(d) => Void(d)'
    BY Settled
  <2>3. Fate' = [d \in Calls |-> IF d \in S THEN "void" ELSE Fate[d]]
    BY <1>1, <2>2, Zenon DEF Fate, Void
  <2>4. S \in SUBSET Calls /\ \A d \in S : Fate[d] = "open"
    OBVIOUS
  <2> HIDE DEF S
  <2>5. Promise!Lapse(S)
    BY <2>1, <2>3, <2>4 DEF Promise!Lapse
  <2> QED BY <2>4, <2>5 DEF Promise!Next
<1>2. ASSUME NEW c \in Calls, UNCHANGED <<call, outcome>>,
             stage[c] = "exchange",
             stage' = [stage EXCEPT ![c] = "executed"],
             applied' = [applied EXCEPT ![c] = TRUE]
      PROVE  Promise!Apply(c)
  <2>1. Told' = Told
    BY <1>2 DEF Told, ToldRejected, ToldApplied
  <2>2. Fate[c] = "open"
    BY <1>2 DEF Fate, Void, CallInv, StageInv
  <2>3. Fate' = [Fate EXCEPT ![c] = "applied"]
    BY <1>2 DEF Fate, Void, CallInv, TypeOK
  <2> QED BY <2>1, <2>2, <2>3 DEF Promise!Apply
<1>3. ASSUME NEW c \in Calls, NEW o, call[c] = "open", Conclude(c, o)
      PROVE  Promise!Next
  <2>1. Fate' = Fate
    BY <1>3 DEF Conclude, Fate, Void
  <2>2. Told[c] = "nothing"
    BY <1>3 DEF Told
  <2>3. Told' = [Told EXCEPT ![c] = Told'[c]]
    BY <1>3 DEF Conclude, Told, ToldRejected, ToldApplied, CallInv, TypeOK
  <2>4. Told'[c] \in {"unknown", "applied", "rejected"}
    BY <1>3 DEF Conclude, Told, CallInv, TypeOK
  <2>5. Told'[c] = "applied" => Fate'[c] = "applied"
    BY DEF CallInv, OutcomeInv, Told, Fate
  <2>6. Told'[c] = "rejected" => Fate'[c] = "void"
    BY DEF CallInv, OutcomeInv, Told, Fate, Void
  <2>7. Promise!Tell(c, Told'[c])
    BY <2>1, <2>2, <2>3, <2>5, <2>6 DEF Promise!Tell
  <2> QED BY <2>4, <2>7 DEF Promise!Next, Promise!Tellings
<1>4. ASSUME NEW c \in Calls, call[c] = "idle", stage[c] = "none",
             call' = [call EXCEPT ![c] = "open"],
             stage' = [stage EXCEPT ![c] = "wire"],
             UNCHANGED <<outcome, applied>>
      PROVE  UNCHANGED <<Fate, Told>>
  BY <1>4 DEF Fate, Told, Void, ToldRejected, ToldApplied, CallInv, TypeOK
<1> QED BY <1>1, <1>2, <1>3, <1>4, StepKinds DEF Promise!Next

(* The order path implements the promise: every request meets one fate,    *)
(* its caller is told once, and no answer ever contradicts the fate.       *)
THEOREM PromiseKept == Spec => KeepsPromise
<1>1. Init => Promise!Init
  BY DEF Init, Promise!Init, Fate, Told, Void
<1>2. CallInv /\ CallInv' /\ [Next]_vars => [Promise!Next]_<<Fate, Told>>
  BY StepPromise
<1> QED BY <1>1, <1>2, CallInvariant, PTL DEF Spec, KeepsPromise, Promise!Spec

-----------------------------------------------------------------------------
(* What a client_order_id is worth.                                        *)

(* While the gateway keeps its records, a submission that is out is the    *)
(* holder of its key's pending record.                                     *)
OutHeld(c) ==
  stage[c] \in {"exchange", "executed", "refused"} /\ IsSubmit(c) =>
    record[KeyOf(c)] = "pending" /\ holder[KeyOf(c)] = c

(* An order rests under a key only if the record is live, or its           *)
(* submission is executed and the gateway has not yet heard of it.         *)
RestsOnce(k) ==
  /\ book[k] <= 1
  /\ book[k] > 0 =>
       \/ record[k] = "live"
       \/ /\ record[k] = "pending" /\ holder[k] \in Calls
          /\ stage[holder[k]] = "executed"
          /\ IsSubmit(holder[k]) /\ KeyOf(holder[k]) = k

KeyInv ==
  restarts = 0 => (\A c \in Calls : OutHeld(c)) /\ (\A k \in Keys : RestsOnce(k))

(* The types the key's invariant needs.                                    *)
LEMMA KeyTypes ==
  ASSUME CallInv
  PROVE  /\ restarts \in Nat /\ book \in [Keys -> Nat]
         /\ DOMAIN stage = Calls /\ DOMAIN req = Calls
         /\ DOMAIN record = Keys /\ DOMAIN holder = Keys
         /\ \A c \in Calls : stage[c] # "none" => KeyOf(c) \in Keys
         /\ \A c \in Calls : call[c] = "idle" => stage[c] = "none"
  BY DEF CallInv, TypeOK, StageInv, Requests, KeyOf

(* Every step keeps the key's invariant.                                   *)
LEMMA StepKey ==
  ASSUME CallInv, KeyInv, [Next]_vars, restarts' = 0
  PROVE  (\A c \in Calls : OutHeld(c))' /\ (\A k \in Keys : RestsOnce(k))'
<1> DEFINE Kept == (\A c \in Calls : OutHeld(c))' /\ (\A k \in Keys : RestsOnce(k))'
<1>0. /\ restarts \in Nat /\ book \in [Keys -> Nat]
      /\ DOMAIN stage = Calls /\ DOMAIN req = Calls
      /\ DOMAIN record = Keys /\ DOMAIN holder = Keys
      /\ \A c \in Calls : stage[c] # "none" => KeyOf(c) \in Keys
      /\ \A c \in Calls : call[c] = "idle" => stage[c] = "none"
  BY KeyTypes
<1>1. ASSUME Restart PROVE FALSE
  BY <1>0, <1>1 DEF Restart
<1>2. restarts = 0
  <2>1. Restart \/ UNCHANGED restarts
    BY NextCases DEF vars, Invoke, DeadlineExpires, TransportFails, Deliver, Conclude,
       LoseRequest, Refuse, PublishSubmit, PublishCommand, BrokerReturns, GatewayGivesUp,
       GatewayAcknowledges, HearExecuted, HearRefused, ExecuteSubmit, ExecuteCommand,
       RefuseExecution, DropExpired, OrderStep, HearFill, LockLapses, Reap,
       ForgetFinished, Fill
  <2> QED BY <1>1, <2>1
<1>3. (\A c \in Calls : OutHeld(c)) /\ (\A k \in Keys : RestsOnce(k))
  BY <1>2 DEF KeyInv
<1> USE DEF OutHeld, RestsOnce, KeyOf, IsSubmit
<1>4. ASSUME NEW c \in Calls, NEW rpc \in Rpcs, NEW k \in Keys, Invoke(c, rpc, k)
      PROVE  Kept
  <2>1. /\ stage[c] = "none" /\ stage' = [stage EXCEPT ![c] = "wire"]
        /\ \A d \in Calls : d # c => req'[d] = req[d]
        /\ UNCHANGED <<record, holder, book>>
    BY <1>0, <1>4 DEF Invoke
  <2>2. \A d \in Calls : d # c => stage'[d] = stage[d]
    BY <1>0, <2>1
  <2>3. stage'[c] = "wire"
    BY <1>0, <2>1
  <2> QED BY <1>3, <2>1, <2>2, <2>3
<1>5. ASSUME NEW c \in Calls,
             DeadlineExpires(c) \/ Deliver(c) \/ \E code \in TransportCodes : TransportFails(c, code)
      PROVE  Kept
  <2>1. UNCHANGED <<req, stage, record, holder, book>>
    BY <1>5 DEF DeadlineExpires, TransportFails, Deliver, Conclude
  <2> QED BY <1>0, <1>3, <2>1
<1>6. ASSUME NEW c \in Calls,
             LoseRequest(c) \/ GatewayGivesUp(c) \/ GatewayAcknowledges(c)
             \/ DropExpired(c) \/ (\E status \in Statuses : Refuse(c, status))
      PROVE  Kept
  BY <1>0, <1>3, <1>6 DEF LoseRequest, GatewayGivesUp, GatewayAcknowledges, DropExpired, Refuse
<1>7. ASSUME NEW c \in Calls, PublishSubmit(c) PROVE Kept
  BY <1>0, <1>3, <1>7 DEF PublishSubmit
<1>8. ASSUME NEW c \in Calls, PublishCommand(c) PROVE Kept
  BY <1>0, <1>3, <1>8 DEF PublishCommand
<1>9. ASSUME NEW c \in Calls, BrokerReturns(c) PROVE Kept
  BY <1>0, <1>3, <1>9 DEF BrokerReturns
<1>10. ASSUME NEW c \in Calls, HearExecuted(c) PROVE Kept
  <2> DEFINE k == KeyOf(c)
  <2>1. /\ k \in Keys /\ stage[c] = "executed"
        /\ stage' = [stage EXCEPT ![c] = "over"]
        /\ record' = [record EXCEPT ![k] = Reported(c)]
        /\ UNCHANGED <<req, holder, book>>
    BY <1>0, <1>10 DEF HearExecuted
  <2>2. /\ Reported(c) = record[k] \/ Reported(c) = IF book[k] > 0 THEN "live" ELSE "finished"
        /\ IsSubmit(c) => Reported(c) = IF book[k] > 0 THEN "live" ELSE "finished"
        /\ ~IsSubmit(c) /\ record[k] # "live" => Reported(c) = record[k]
    BY <1>3, <2>1 DEF Reported
  <2> HIDE DEF Reported
  <2>3. ASSUME NEW d \in Calls PROVE OutHeld(d)'
    <3>1. CASE d = c
      BY <1>0, <2>1, <3>1
    <3>2. CASE d # c
      BY <1>0, <1>3, <2>1, <2>2, <3>2
    <3> QED BY <3>1, <3>2
  <2>4. ASSUME NEW x \in Keys PROVE RestsOnce(x)'
    <3>1. CASE x = k
      BY <1>0, <1>3, <2>1, <2>2, <3>1
    <3>2. CASE x # k
      <4>1. record'[x] = record[x] /\ book'[x] = book[x] /\ holder'[x] = holder[x]
        BY <1>0, <2>1, <3>2
      <4>2. record[x] = "pending" /\ holder[x] = c => book[x] = 0
        BY <1>0, <1>3, <2>1, <3>2
      <4> QED BY <1>0, <1>3, <2>1, <4>1, <4>2
    <3> QED BY <3>1, <3>2
  <2> QED BY <2>3, <2>4
<1>11. ASSUME NEW c \in Calls, HearRefused(c) PROVE Kept
  BY <1>0, <1>3, <1>11 DEF HearRefused
<1>12. ASSUME NEW c \in Calls, ExecuteSubmit(c) PROVE Kept
  BY <1>0, <1>3, <1>12 DEF ExecuteSubmit
<1>13. ASSUME NEW c \in Calls, ExecuteCommand(c) PROVE Kept
  BY <1>0, <1>3, <1>13 DEF ExecuteCommand
<1>14. ASSUME NEW c \in Calls, RefuseExecution(c) PROVE Kept
  BY <1>0, <1>3, <1>14 DEF RefuseExecution
<1>15. ASSUME NEW k \in Keys, OrderStep(k) PROVE Kept
  <2>1. CASE HearFill(k)
    BY <1>0, <1>3, <2>1 DEF HearFill
  <2>2. CASE LockLapses(k)
    BY <1>0, <1>3, <2>2 DEF LockLapses
  <2>3. CASE Reap(k)
    BY <1>0, <1>3, <2>3 DEF Reap
  <2>4. CASE ForgetFinished(k)
    BY <1>0, <1>3, <2>4 DEF ForgetFinished
  <2>5. CASE Fill(k)
    BY <1>0, <1>3, <2>5 DEF Fill
  <2> QED BY <1>15, <2>1, <2>2, <2>3, <2>4, <2>5 DEF OrderStep
<1>16. ASSUME UNCHANGED vars PROVE Kept
  BY <1>0, <1>3, <1>16 DEF vars
<1> HIDE DEF Kept, OutHeld, RestsOnce, KeyOf, IsSubmit
<1>17. Kept
  <2>1. CASE \E c \in Calls : DeadlineExpires(c) \/ Deliver(c)
             \/ \E code \in TransportCodes : TransportFails(c, code)
    BY <1>5, <2>1
  <2>2. CASE \E c \in Calls :
             LoseRequest(c) \/ GatewayGivesUp(c) \/ GatewayAcknowledges(c)
             \/ DropExpired(c) \/ (\E status \in Statuses : Refuse(c, status))
    BY <1>6, <2>2
  <2> QED BY <1>1, <1>4, <2>1, <2>2, <1>7, <1>8, <1>9, <1>10, <1>11, <1>12, <1>13,
            <1>14, <1>15, <1>16, NextCases
<1> QED BY <1>17 DEF Kept

(* The invariant of the keys.                                              *)
LEMMA KeyKept == Spec => []KeyInv
<1>1. Init => KeyInv
  BY DEF Init, KeyInv, OutHeld, RestsOnce
<1>2. CallInv /\ KeyInv /\ [Next]_vars => KeyInv'
  BY StepKey DEF KeyInv
<1> QED BY <1>1, <1>2, CallInvariant, PTL DEF Spec

(* No two orders rest under one key as long as the gateway keeps its       *)
(* records, however often the key is submitted.                            *)
THEOREM KeyProtects == Spec => []KeyProtection
<1>1. KeyInv => KeyProtection
  BY DEF KeyInv, KeyProtection, RestsOnce
<1> QED BY <1>1, KeyKept, PTL

-----------------------------------------------------------------------------
(* A key that RequestNotProcessed hands back.                              *)

(* The caller of c hears RequestNotProcessed, or an answer that says so is *)
(* on its way.                                                             *)
NotProcessed(c) ==
  \/ outcome[c].kind = "raised" /\ outcome[c].cls = "RequestNotProcessed"
  \/ reply[c].kind = "status" /\ Translate(reply[c].status, TRUE) = "RequestNotProcessed"

(* The record under the key is the one the submission c left there.        *)
Blocks(c) ==
  /\ record[KeyOf(c)] \in {"pending", "rejected", "retired"}
  /\ holder[KeyOf(c)] = c

(* Only a request that was published holds its key, its record is settled  *)
(* only when it is no longer at the exchange, and a submission that was    *)
(* handed back has none.                                                   *)
FreedInv ==
  \A c \in Calls :
    /\ stage[c] \in {"none", "wire"} => \A k \in Keys : holder[k] # c
    /\ stage[c] = "exchange" /\ IsSubmit(c) /\ holder[KeyOf(c)] = c
         => record[KeyOf(c)] \notin {"rejected", "retired"}
    /\ NotProcessed(c) /\ IsSubmit(c) => stage[c] = "over" /\ ~Blocks(c)

(* Of the errors of an order method only the broker's return, which the    *)
(* gateway marks, is a RequestNotProcessed.                                *)
LEMMA OnlyMarked ==
  ASSUME NEW status \in Statuses
  PROVE  /\ Translate(status, TRUE) = "RequestNotProcessed"
              => status.code = "UNAVAILABLE" /\ status.marker = "NOT_PROCESSED"
         /\ \A c \in Calls : RaisedFor(c, status).cls = Translate(status, TRUE)
<1>1. ClassOfCode(status.code) # "RequestNotProcessed"
  BY SMTT(30) DEF ClassOfCode, CodeToClass
<1> QED BY <1>1 DEF RaisedFor, Raised, ErrorOf, Translate

(* A plain status, and the statuses of a refused command, are not one.     *)
LEMMA PlainStatus ==
  /\ \A code \in StatusCodes : Translate(Failure(code), TRUE) # "RequestNotProcessed"
  /\ Translate(Marked("ABORTED", "ORDER_CHANGED"), TRUE) # "RequestNotProcessed"
<1>1. \A code \in StatusCodes : Failure(code) \in Statuses /\ Failure(code).marker = "none"
  BY ReplyTypes DEF Failure, Markers
<1>2. /\ Marked("ABORTED", "ORDER_CHANGED") \in Statuses
      /\ Marked("ABORTED", "ORDER_CHANGED").marker = "ORDER_CHANGED"
  BY RefusalCodeTypes DEF Marked
<1> QED BY <1>1, <1>2, OnlyMarked

(* The types the invariant needs, and what a call is before it is made.    *)
LEMMA FreedTypes ==
  ASSUME CallInv
  PROVE  /\ DOMAIN stage = Calls /\ DOMAIN req = Calls /\ DOMAIN reply = Calls
         /\ DOMAIN outcome = Calls /\ DOMAIN record = Keys /\ DOMAIN holder = Keys
         /\ \A c \in Calls : stage[c] # "none" => KeyOf(c) \in Keys
         /\ \A c \in Calls : call[c] = "idle" => stage[c] = "none" /\ ~NotProcessed(c)
         /\ \A c \in Calls : reply[c].kind = "status" => reply[c].status \in Statuses
<1>1. ASSUME NEW c \in Calls, call[c] = "idle" PROVE ~NotProcessed(c)
  <2>1. outcome[c] = NoOutcome /\ reply[c] = NoReply
    BY <1>1 DEF CallInv, OutcomeInv, ReplyInv
  <2>2. outcome[c].kind # "raised" /\ reply[c].kind # "status"
    BY <2>1 DEF NoOutcome, NoReply
  <2> QED BY <2>2 DEF NotProcessed
<1>2. \A c \in Calls : reply[c].kind = "status" => reply[c].status \in Statuses
  BY DEF CallInv, TypeOK, Replies, NoReply
<1>3. /\ DOMAIN stage = Calls /\ DOMAIN req = Calls /\ DOMAIN reply = Calls
      /\ DOMAIN outcome = Calls /\ DOMAIN record = Keys /\ DOMAIN holder = Keys
  BY DEF CallInv, TypeOK
<1>4. \A c \in Calls : stage[c] # "none" => KeyOf(c) \in Keys
  BY DEF CallInv, StageInv, Requests, KeyOf
<1>5. \A c \in Calls : call[c] = "idle" => stage[c] = "none"
  BY DEF CallInv, StageInv
<1> QED BY <1>1, <1>2, <1>3, <1>4, <1>5

(* An answer on its way to a caller makes no RequestNotProcessed.          *)
LEMMA AnswerKeeps ==
  ASSUME CallInv, NEW c \in Calls, NEW a, UNCHANGED outcome,
         reply' = ReplyWith(c, Answer(a)) \/ reply' = [reply EXCEPT ![c] = Answer(a)]
  PROVE  \A d \in Calls : NotProcessed(d)' => NotProcessed(d)
<1>1. \A d \in Calls : reply'[d] = reply[d] \/ reply'[d] = Answer(a)
  BY FreedTypes DEF ReplyWith
<1>2. Answer(a).kind = "answer"
  BY DEF Answer
<1> HIDE DEF Answer
<1> QED BY <1>1, <1>2 DEF NotProcessed

(* Nor does a status that translate makes something else of.               *)
LEMMA FailKeeps ==
  ASSUME CallInv, NEW c \in Calls, NEW status, UNCHANGED outcome,
         reply' = ReplyWith(c, Fail(status)) \/ reply' = [reply EXCEPT ![c] = Fail(status)],
         Translate(status, TRUE) # "RequestNotProcessed"
  PROVE  \A d \in Calls : NotProcessed(d)' => NotProcessed(d)
<1>1. \A d \in Calls : reply'[d] = reply[d] \/ reply'[d] = Fail(status)
  BY FreedTypes DEF ReplyWith
<1>2. Fail(status).status = status
  BY DEF Fail
<1> QED BY <1>1, <1>2 DEF NotProcessed

(* What a call that concludes tells its caller was on its way already.     *)
LEMMA ConcludeKeeps ==
  ASSUME CallInv, NEW c \in Calls,
         reply' = [reply EXCEPT ![c] = NoReply],
         \A d \in Calls \ {c} : outcome'[d] = outcome[d],
         outcome'[c].kind = "raised" /\ outcome'[c].cls = "RequestNotProcessed"
           => NotProcessed(c)
  PROVE  \A d \in Calls : NotProcessed(d)' => NotProcessed(d)
<1>1. /\ reply'[c].kind # "status"
      /\ \A d \in Calls \ {c} : reply'[d] = reply[d]
  BY FreedTypes DEF NoReply
<1>2. NotProcessed(c)' => NotProcessed(c)
  BY <1>1 DEF NotProcessed
<1>3. \A d \in Calls \ {c} : NotProcessed(d)' <=> NotProcessed(d)
  BY <1>1 DEF NotProcessed
<1> QED BY <1>2, <1>3

(* Every step keeps the invariant of keys handed back.                     *)
LEMMA StepFreed ==
  ASSUME CallInv, FreedInv, [Next]_vars
  PROVE  FreedInv'
<1> USE DEF FreedInv, Blocks
<1>0. /\ DOMAIN stage = Calls /\ DOMAIN req = Calls /\ DOMAIN reply = Calls
      /\ DOMAIN outcome = Calls /\ DOMAIN record = Keys /\ DOMAIN holder = Keys
      /\ \A c \in Calls : stage[c] # "none" => KeyOf(c) \in Keys
      /\ \A c \in Calls : call[c] = "idle" => stage[c] = "none" /\ ~NotProcessed(c)
      /\ \A c \in Calls : reply[c].kind = "status" => reply[c].status \in Statuses
  BY FreedTypes
<1>1. ASSUME NEW c \in Calls, NEW rpc \in Rpcs, NEW k \in Keys, Invoke(c, rpc, k)
      PROVE  FreedInv'
  <2>1. /\ stage[c] = "none" /\ ~NotProcessed(c)
        /\ \A d \in Calls : NotProcessed(d)' = NotProcessed(d)
        /\ \A d \in Calls : d # c => req'[d] = req[d] /\ stage'[d] = stage[d]
        /\ stage'[c] = "wire" /\ UNCHANGED <<record, holder>>
    BY <1>0, <1>1 DEF Invoke, NotProcessed
  <2> QED BY <2>1 DEF KeyOf, IsSubmit
<1>2. ASSUME NEW c \in Calls,
             DeadlineExpires(c) \/ Deliver(c)
               \/ (\E code \in TransportCodes : TransportFails(c, code))
      PROVE  FreedInv'
  <2>1. UNCHANGED <<req, stage, record, holder>>
    BY <1>2 DEF DeadlineExpires, TransportFails, Deliver, Conclude
  <2>2. \A code \in StatusCodes :
          RaisedFor(c, Failure(code)).cls # "RequestNotProcessed"
    BY ReplyTypes, OnlyMarked, PlainStatus DEF Markers
  <2>3. /\ reply' = [reply EXCEPT ![c] = NoReply]
        /\ \A d \in Calls \ {c} : outcome'[d] = outcome[d]
    BY <1>0, <1>2 DEF DeadlineExpires, TransportFails, Deliver, Conclude
  <2>4. ASSUME outcome'[c].kind = "raised", outcome'[c].cls = "RequestNotProcessed"
        PROVE  NotProcessed(c)
    <3>1. CASE DeadlineExpires(c) \/ \E code \in TransportCodes : TransportFails(c, code)
      <4>1. PICK code \in StatusCodes : Conclude(c, RaisedFor(c, Failure(code)))
        BY <3>1 DEF DeadlineExpires, TransportFails, TransportCodes, StatusCodes
      <4>2. outcome'[c] = RaisedFor(c, Failure(code))
        BY <1>0, <4>1 DEF Conclude
      <4> QED BY <2>2, <2>4, <4>2
    <3>2. CASE reply[c].kind = "answer" /\ Conclude(c, Returned(reply[c].answer))
      <4>1. outcome'[c] = Returned(reply[c].answer)
        BY <1>0, <3>2 DEF Conclude
      <4> QED BY <2>4, <4>1 DEF Returned
    <3>3. CASE reply[c].kind = "status" /\ Conclude(c, RaisedFor(c, reply[c].status))
      <4>1. outcome'[c] = RaisedFor(c, reply[c].status)
        BY <1>0, <3>3 DEF Conclude
      <4>2. RaisedFor(c, reply[c].status).cls = Translate(reply[c].status, TRUE)
        BY <1>0, <3>3, OnlyMarked
      <4> QED BY <2>4, <3>3, <4>1, <4>2 DEF NotProcessed
    <3> QED BY <1>2, <3>1, <3>2, <3>3 DEF Deliver
  <2>5. \A d \in Calls : NotProcessed(d)' => NotProcessed(d)
    BY <2>3, <2>4, ConcludeKeeps
  <2> QED BY <2>1, <2>5 DEF KeyOf, IsSubmit
<1>3. ASSUME NEW c \in Calls, NEW status \in Statuses, Refuse(c, status)
      PROVE  FreedInv'
  <2>1. /\ stage[c] = "wire" /\ stage'[c] = "over"
        /\ \A d \in Calls : d # c => stage'[d] = stage[d] /\ reply'[d] = reply[d]
        /\ UNCHANGED <<req, outcome, record, holder>>
    BY <1>0, <1>3 DEF Refuse, ReplyWith
  <2>2. \A d \in Calls : d # c => (NotProcessed(d)' <=> NotProcessed(d))
    BY <2>1 DEF NotProcessed
  <2>3. KeyOf(c) \in Keys
    BY <1>0, <2>1
  <2> QED BY <2>1, <2>2, <2>3 DEF KeyOf, IsSubmit
<1>4. ASSUME NEW c \in Calls, UNCHANGED <<req, reply, outcome>>,
             \/ LoseRequest(c) \/ PublishSubmit(c) \/ PublishCommand(c)
             \/ ExecuteSubmit(c) \/ ExecuteCommand(c) \/ RefuseExecution(c)
             \/ DropExpired(c)
      PROVE  FreedInv'
  <2>1. \A d \in Calls : NotProcessed(d)' <=> NotProcessed(d)
    BY <1>4 DEF NotProcessed
  <2>2. CASE PublishSubmit(c)
    BY <1>0, <1>4, <2>1, <2>2 DEF PublishSubmit, KeyOf, IsSubmit
  <2>3. CASE ~PublishSubmit(c)
    <3>1. /\ stage[c] \in {"wire", "exchange"} /\ UNCHANGED <<record, holder>>
          /\ \A d \in Calls : d # c => stage'[d] = stage[d]
          /\ \/ stage'[c] \notin {"none", "wire", "exchange"}
             \/ ~IsSubmit(c) /\ stage'[c] = "exchange"
      BY <1>0, <1>4, <2>3 DEF LoseRequest, PublishCommand, ExecuteSubmit, ExecuteCommand,
         RefuseExecution, DropExpired
    <3> QED BY <1>0, <1>4, <2>1, <3>1 DEF KeyOf, IsSubmit
  <2> QED BY <2>2, <2>3
<1>5. ASSUME NEW c \in Calls, BrokerReturns(c) PROVE FreedInv'
  <2>1. /\ stage[c] = "exchange" /\ stage'[c] = "over"
        /\ \A d \in Calls : d # c => stage'[d] = stage[d] /\ reply'[d] = reply[d]
        /\ record' = [record EXCEPT ![KeyOf(c)] =
                        IF IsSubmit(c) /\ record[KeyOf(c)] = "pending" /\ holder[KeyOf(c)] = c
                        THEN "free" ELSE record[KeyOf(c)]]
        /\ UNCHANGED <<req, outcome, holder>> /\ KeyOf(c) \in Keys
    BY <1>0, <1>5 DEF BrokerReturns, ReplyWith
  <2>2. \A d \in Calls : d # c => (NotProcessed(d)' <=> NotProcessed(d))
    BY <2>1 DEF NotProcessed
  <2>3. \A k \in Keys : record'[k] = record[k] \/ record'[k] = "free"
    BY <1>0, <2>1
  <2>4. IsSubmit(c) => ~Blocks(c)'
    BY <1>0, <2>1 DEF KeyOf, IsSubmit
  <2> QED BY <1>0, <2>1, <2>2, <2>3, <2>4 DEF KeyOf, IsSubmit
<1>6. ASSUME NEW c \in Calls, GatewayGivesUp(c) \/ GatewayAcknowledges(c)
      PROVE  FreedInv'
  <2>1. CASE GatewayGivesUp(c)
    <3>1. PICK code \in GiveUpCodes : reply' = [reply EXCEPT ![c] = Fail(Failure(code))]
      BY <2>1 DEF GatewayGivesUp
    <3>2. Translate(Failure(code), TRUE) # "RequestNotProcessed"
      <4>1. code \in StatusCodes
        BY GiveUpAssumption DEF UncertainCodes, StatusCodes
      <4> QED BY <4>1, PlainStatus
    <3>3. UNCHANGED <<req, stage, record, holder, outcome>>
      BY <2>1 DEF GatewayGivesUp
    <3>4. \A d \in Calls : NotProcessed(d)' => NotProcessed(d)
      BY <3>1, <3>2, <3>3, FailKeeps
    <3> QED BY <3>3, <3>4 DEF KeyOf, IsSubmit
  <2>2. CASE GatewayAcknowledges(c)
    <3>1. UNCHANGED <<req, stage, record, holder, outcome>>
      BY <2>2 DEF GatewayAcknowledges
    <3>2. \A d \in Calls : NotProcessed(d)' => NotProcessed(d)
      BY <2>2, <3>1, AnswerKeeps DEF GatewayAcknowledges
    <3> QED BY <3>1, <3>2 DEF KeyOf, IsSubmit
  <2> QED BY <1>6, <2>1, <2>2
<1>7. ASSUME NEW c \in Calls, HearExecuted(c) PROVE FreedInv'
  <2>1. \A d \in Calls : NotProcessed(d)' => NotProcessed(d)
    BY <1>7, AnswerKeeps DEF HearExecuted
  <2>2. /\ stage[c] = "executed" /\ stage'[c] = "over"
        /\ \A d \in Calls : d # c => stage'[d] = stage[d]
        /\ \A k \in Keys : record'[k] \in {record[k], "live", "finished"}
        /\ UNCHANGED <<req, holder>>
    BY <1>0, <1>7 DEF HearExecuted, Reported
  <2> QED BY <1>0, <2>1, <2>2 DEF KeyOf, IsSubmit
<1>8. ASSUME NEW c \in Calls, HearRefused(c) PROVE FreedInv'
  <2>1. \A d \in Calls : NotProcessed(d)' => NotProcessed(d)
    <3>1. Translate(Failure("ABORTED"), TRUE) # "RequestNotProcessed"
      BY PlainStatus DEF StatusCodes
    <3>2. /\ UNCHANGED outcome
          /\ \/ reply' = ReplyWith(c, Answer("REJECTED"))
             \/ reply' = ReplyWith(c, Fail(Marked("ABORTED", "ORDER_CHANGED")))
             \/ reply' = ReplyWith(c, Fail(Failure("ABORTED")))
      BY <1>8 DEF HearRefused
    <3>3. CASE reply' = ReplyWith(c, Answer("REJECTED"))
      BY <3>2, <3>3, AnswerKeeps
    <3>4. CASE reply' = ReplyWith(c, Fail(Marked("ABORTED", "ORDER_CHANGED")))
      BY <3>2, <3>4, PlainStatus, FailKeeps
    <3>5. CASE reply' = ReplyWith(c, Fail(Failure("ABORTED")))
      BY <3>1, <3>2, <3>5, FailKeeps
    <3> QED BY <3>2, <3>3, <3>4, <3>5
  <2>2. /\ stage[c] \in {"refused", "changed"} /\ stage'[c] = "over"
        /\ \A d \in Calls : d # c => stage'[d] = stage[d]
        /\ \A k \in Keys : record'[k] = record[k] \/ holder[k] = c
        /\ UNCHANGED <<req, holder>>
    BY <1>0, <1>8 DEF HearRefused
  <2> QED BY <1>0, <2>1, <2>2 DEF KeyOf, IsSubmit
<1>9. ASSUME NEW k \in Keys, OrderStep(k) PROVE FreedInv'
  <2>1. UNCHANGED <<req, reply, outcome, stage, holder>>
    BY <1>9 DEF OrderStep, HearFill, LockLapses, Reap, ForgetFinished, Fill
  <2>2. \A d \in Calls : NotProcessed(d)' <=> NotProcessed(d)
    BY <2>1 DEF NotProcessed
  <2>3. \A x \in Keys : record'[x] \in {record[x], "live", "finished", "free"}
          \/ (record[x] = "pending" /\ stage[holder[x]] = "dropped")
    BY <1>0, <1>9 DEF OrderStep, HearFill, LockLapses, Reap, ForgetFinished, Fill
  <2> QED BY <1>0, <2>1, <2>2, <2>3 DEF KeyOf, IsSubmit
<1>10. CASE Restart
  <2>1. \A k \in Keys : holder'[k] \notin Calls
    BY <1>10 DEF Restart
  <2>2. \A d \in Calls : NotProcessed(d)' => NotProcessed(d)
    <3>1. Translate(Failure("UNAVAILABLE"), TRUE) # "RequestNotProcessed"
      BY PlainStatus DEF StatusCodes
    <3> QED BY <1>10, <3>1 DEF Restart, NotProcessed, Fail
  <2>3. \A d \in Calls : stage'[d] \in {stage[d], "over"} /\ (stage[d] = "over" => stage'[d] = "over")
    BY <1>10 DEF Restart
  <2>4. UNCHANGED req
    BY <1>10 DEF Restart
  <2>5. \A d \in Calls : stage[d] = "over" => KeyOf(d) \in Keys
    BY <1>0
  <2> QED BY <1>0, <2>1, <2>2, <2>3, <2>4, <2>5 DEF KeyOf, IsSubmit
<1>11. CASE UNCHANGED vars
  BY <1>11 DEF vars, NotProcessed, KeyOf, IsSubmit
<1> HIDE DEF FreedInv
<1>12. CASE \E c \in Calls : DeadlineExpires(c) \/ Deliver(c)
              \/ (\E code \in TransportCodes : TransportFails(c, code))
  BY <1>2, <1>12
<1>13. CASE \E c \in Calls :
              \/ LoseRequest(c) \/ PublishSubmit(c) \/ PublishCommand(c)
              \/ ExecuteSubmit(c) \/ ExecuteCommand(c) \/ RefuseExecution(c)
              \/ DropExpired(c)
  <2>1. UNCHANGED <<req, reply, outcome>>
    BY <1>13 DEF LoseRequest, PublishSubmit, PublishCommand, ExecuteSubmit,
       ExecuteCommand, RefuseExecution, DropExpired
  <2> QED BY <1>4, <1>13, <2>1
<1> QED BY <1>1, <1>3, <1>5, <1>6, <1>7, <1>8, <1>9, <1>10, <1>11, <1>12, <1>13,
          NextCases

(* A RequestNotProcessed hands its key back: no record that would refuse a *)
(* retry is the one its own submission made.                               *)
THEOREM NotProcessedFrees == Spec => []NotProcessedFreesKey
<1>1. Init => FreedInv
  <2>1. ASSUME Init, NEW c \in Calls
        PROVE  (\A k \in Keys : holder[k] # c) /\ ~NotProcessed(c) /\ stage[c] = "none"
    <3>1. /\ outcome[c] = NoOutcome /\ reply[c] = NoReply /\ stage[c] = "none"
          /\ \A k \in Keys : holder[k] = NoCall
      BY <2>1 DEF Init
    <3>2. outcome[c].kind # "raised" /\ reply[c].kind # "status"
      BY <3>1 DEF NoOutcome, NoReply
    <3> QED BY <3>1, <3>2 DEF NotProcessed
  <2> QED BY <2>1 DEF FreedInv
<1>2. CallInv /\ FreedInv /\ [Next]_vars => FreedInv'
  BY StepFreed
<1>3. FreedInv => NotProcessedFreesKey
  BY DEF FreedInv, NotProcessedFreesKey, NotProcessed, Blocks
<1> QED BY <1>1, <1>2, <1>3, CallInvariant, PTL DEF Spec

-----------------------------------------------------------------------------
(* The reconciliation pass of verify.py.                                   *)

USE ProbeAssumption

(* The record of an order that has been on the market, or was refused.     *)
Firm == {"live", "finished", "rejected"}

(* The pass makes each of its calls once, at its place, and no other.      *)
MadeInv ==
  /\ \A c \in Calls \ {"probe", "reuse", "cancel"} : call[c] = "idle"
  /\ call["probe"] # "idle" => req["probe"] = [rpc |-> "SubmitOrder", key |-> Coid]
  /\ call["reuse"] # "idle" => req["reuse"] = [rpc |-> "SubmitOrder", key |-> Coid]
  /\ call["cancel"] # "idle" => req["cancel"] = [rpc |-> "CancelOrder", key |-> Coid]
  /\ call["probe"] = "idle" <=> pc = "start"
  /\ pc \notin {"start", "probe"} => call["probe"] = "done"
  /\ pc \notin {"cancelling", "done"} => call["cancel"] = "idle"
  /\ call["reuse"] # "idle" => verdict = "live"

(* What the pass has read of its order, and what it made of that.          *)
ReadInv ==
  /\ pc \in {"start", "probe"} => seen = "nothing"
  /\ pc = "reconcile" =>
       seen \in {"nothing", "absent", "pending"} /\ (seen = "pending" => sawPending)
  /\ pc \in {"polled", "cleaning"} => seen # "nothing"
  /\ pc \in {"reuse", "reusing"} => verdict = "live"
  /\ pc \in {"start", "probe", "reconcile", "polled"} => verdict = "none"

(* A restart is met; without a receipt an answer is the outcome itself.    *)
Fits(c, a) == a \in IF IsSubmit(c) THEN {"ACTIVE", "REJECTED"} ELSE {"CONFIRMED"}
MetInv ==
  /\ restarts > 0 => "restart" \in met
  /\ "receipt" \notin met =>
       \A c \in Calls :
         /\ reply[c].kind = "answer" => Fits(c, reply[c].answer)
         /\ outcome[c].kind = "returned" => Fits(c, outcome[c].answer)

(* An error of another class than the unknown outcome is a rejection.      *)
ErrorsInv ==
  \A c \in Calls :
    outcome[c].kind = "raised" /\ outcome[c].cls # "OrderOutcomeUnknown" => outcome[c].rejected

(* Until it is cancelled the probe's order stays on the book, and on       *)
(* record once it is reported.                                             *)
RestingInv ==
  "restart" \notin met /\ call["cancel"] = "idle" /\ applied["probe"] =>
    book[Coid] > 0 /\ (stage["probe"] = "over" => record[Coid] = "live")

(* A record that is found, or that a cancel was built on, stays: its key   *)
(* takes no other order.                                                   *)
FoundInv ==
  met \cap {"rebuild", "restart"} = {} =>
    /\ \/ verdict = "live"
       \/ pc \in {"polled", "cleaning"} /\ seen = "confirmed"
       \/ stage["cancel"] \in Published \/ applied["cancel"]
       => record[Coid] \in Firm
    /\ stage["reuse"] \in {"none", "wire", "over"}
    /\ reply["reuse"].kind # "answer" /\ outcome["reuse"].kind # "returned"

(* An order that was not there at the clean-up never will be, and a        *)
(* cancelled one is no more.                                               *)
Nowhere == Void("probe") /\ call["reuse"] = "idle" /\ book[Coid] = 0
CleanInv ==
  met = {} =>
    /\ pc = "cleanup" => stage["probe"] # "wire" \/ record[Coid] \in Firm
    /\ pc = "cleaning" /\ seen = "absent" => Nowhere
    /\ pc = "done" /\ call["cancel"] = "idle" => Nowhere
    /\ applied["cancel"] => book[Coid] = 0
    /\ pc = "done" => \/ call["cancel"] = "idle" \/ "cleanup" \in fails
                      \/ outcome["cancel"].kind = "returned"

PassInv ==
  /\ PassTypeOK /\ MadeInv /\ ReadInv /\ MetInv /\ ErrorsInv
  /\ RestingInv /\ FoundInv /\ CleanInv
  /\ AbsentIsFinal /\ ReuseNeverAccepted

-----------------------------------------------------------------------------
(* The steps of the pass, and what they are to its calls.                  *)

(* A step of the world around the pass: a call ends, the gateway or the    *)
(* exchange does something, or a trouble is met.                           *)
Around ==
  \/ World /\ UNCHANGED passVars
  \/ Trouble /\ UNCHANGED <<pc, seen, sawPending, verdict, passes, fails>>

(* The actions such a step may be.                                         *)
LEMMA WorldCases ==
  ASSUME Around
  PROVE
    /\ UNCHANGED <<pc, seen, sawPending, verdict, passes, fails>> /\ met \subseteq met'
    /\ \/ \E c \in Calls :
            \/ DeadlineExpires(c) \/ Deliver(c)
            \/ \E code \in TransportCodes : TransportFails(c, code)
       \/ \E c \in Calls : LoseRequest(c) \/ \E status \in Statuses : Refuse(c, status)
       \/ \E c \in Calls : PublishSubmit(c)
       \/ \E c \in Calls : PublishCommand(c)
       \/ \E c \in Calls : BrokerReturns(c)
       \/ \E c \in Calls : GatewayGivesUp(c)
       \/ \E c \in Calls : HearExecuted(c)
       \/ \E c \in Calls : HearRefused(c)
       \/ \E c \in Calls : ExecuteSubmit(c)
       \/ \E c \in Calls : ExecuteCommand(c)
       \/ \E c \in Calls : RefuseExecution(c) \/ DropExpired(c)
       \/ HearFill(Coid) \/ Reap(Coid)
       \/ "receipt" \in met' /\ \E c \in Calls : GatewayAcknowledges(c)
       \/ "rebuild" \in met' /\ ForgetFinished(Coid)
       \/ "restart" \in met' /\ Restart
<1>1. UNCHANGED <<pc, seen, sawPending, verdict, passes, fails>> /\ met \subseteq met'
  BY DEF Around, passVars, Trouble, Rebuild, Crash, Receipt, Meet
<1>2. ASSUME NEW c \in Calls, RefuseRequest(c) \/ RefuseUsedKey(c) \/ RefuseCommand(c)
      PROVE  \E status \in Statuses : Refuse(c, status)
  BY <1>2, RefusalCodeTypes DEF RefuseRequest, RefuseUsedKey, RefuseCommand
<1>3. CASE World
  BY <1>1, <1>2, <1>3 DEF World, CallEnds, WorldStep, ExchangeStep, OrderFeed
<1>4. CASE Trouble
  BY <1>1, <1>4 DEF Trouble, Rebuild, Crash, Receipt, Meet
<1> QED BY <1>3, <1>4 DEF Around

(* What the invariants say of the types.                                   *)
LEMMA PassTypes ==
  ASSUME CallInv
  PROVE  /\ DOMAIN call = Calls /\ DOMAIN stage = Calls /\ DOMAIN req = Calls
         /\ DOMAIN reply = Calls /\ DOMAIN outcome = Calls /\ DOMAIN applied = Calls
         /\ DOMAIN record = Keys /\ DOMAIN holder = Keys
         /\ book \in [Keys -> Nat] /\ restarts \in Nat
         /\ \A c \in Calls : call[c] \in {"idle", "open", "done"} /\ applied[c] \in BOOLEAN
         /\ \A c \in Calls : stage[c] \in Stages
         /\ \A c \in Calls : call[c] = "idle" <=> stage[c] = "none"
         /\ \A c \in Calls : stage[c] # "none" => KeyOf(c) \in Keys
         /\ \A c \in Calls : applied[c] => stage[c] \in {"executed", "over"}
  BY DEF CallInv, TypeOK, StageInv, Requests, KeyOf

(* The requests of the pass, by what they are.                             *)
LEMMA Made ==
  ASSUME CallInv, MadeInv, NEW c \in Calls, stage[c] # "none"
  PROVE  /\ c \in {"probe", "reuse", "cancel"} /\ KeyOf(c) = Coid
         /\ IsSubmit(c) <=> c # "cancel"
         /\ ~IsModify(c)
  BY PassTypes DEF MadeInv, KeyOf, IsSubmit, IsModify

(* A call ends, and its request stays what it is.                          *)
LEMMA CallMoves ==
  ASSUME CallInv, Around
  PROVE  /\ UNCHANGED req
         /\ \A c \in Calls : call'[c] = call[c] \/ (call[c] = "open" /\ call'[c] = "done")
         /\ restarts' = restarts \/ "restart" \in met'
<1>1. ASSUME NEW c \in Calls, DeadlineExpires(c) \/ Deliver(c)
               \/ \E code \in TransportCodes : TransportFails(c, code)
      PROVE  /\ call[c] = "open" /\ call' = [call EXCEPT ![c] = "done"]
             /\ UNCHANGED <<req, restarts>>
  BY <1>1 DEF DeadlineExpires, TransportFails, Deliver, Conclude
<1>2. ASSUME NEW c \in Calls,
             \/ LoseRequest(c) \/ (\E status \in Statuses : Refuse(c, status))
             \/ PublishSubmit(c) \/ PublishCommand(c) \/ BrokerReturns(c) \/ GatewayGivesUp(c)
             \/ HearExecuted(c) \/ HearRefused(c) \/ GatewayAcknowledges(c)
             \/ ExecuteSubmit(c) \/ ExecuteCommand(c) \/ RefuseExecution(c) \/ DropExpired(c)
      PROVE  UNCHANGED <<call, req, restarts>>
  BY <1>2 DEF LoseRequest, Refuse, PublishSubmit, PublishCommand, BrokerReturns, GatewayGivesUp,
     HearExecuted, HearRefused, GatewayAcknowledges, ExecuteSubmit, ExecuteCommand,
     RefuseExecution, DropExpired
<1>3. ASSUME HearFill(Coid) \/ Reap(Coid) \/ ForgetFinished(Coid)
      PROVE  UNCHANGED <<call, req, restarts>>
  BY <1>3 DEF HearFill, Reap, ForgetFinished
<1>4. ASSUME Restart PROVE UNCHANGED <<call, req>>
  BY <1>4 DEF Restart
<1> QED BY <1>1, <1>2, <1>3, <1>4, WorldCases, PassTypes

(* Only an answer tells one: without a receipt, the outcome itself.        *)
LEMMA AnswersMove ==
  ASSUME CallInv, Around, NEW c \in Calls
  PROVE  /\ reply'[c].kind = "answer" =>
              \/ reply'[c] = reply[c]
              \/ /\ stage[c] \in Published
                 /\ Fits(c, reply'[c].answer) \/ "receipt" \in met'
         /\ outcome'[c].kind = "returned" =>
              \/ outcome'[c] = outcome[c]
              \/ reply[c].kind = "answer" /\ outcome'[c].answer = reply[c].answer
<1> USE PassTypes
<1>1. ASSUME NEW d \in Calls, DeadlineExpires(d) \/ Deliver(d)
               \/ \E code \in TransportCodes : TransportFails(d, code)
      PROVE  /\ reply'[c] = reply[c] \/ reply'[c] = NoReply
             /\ \/ outcome'[c] = outcome[c]
                \/ reply[c].kind = "answer" /\ outcome'[c] = Returned(reply[c].answer)
                \/ \E status : outcome'[c] = RaisedFor(c, status)
  BY <1>1 DEF DeadlineExpires, TransportFails, Deliver, Conclude
<1>2. NoReply.kind # "answer" /\ (\A a : Returned(a).answer = a)
        /\ \A status : RaisedFor(c, status).kind # "returned"
  BY DEF NoReply, Returned, RaisedFor, Raised
<1>3. ASSUME NEW d \in Calls,
             \/ LoseRequest(d) \/ PublishSubmit(d) \/ PublishCommand(d)
             \/ ExecuteSubmit(d) \/ ExecuteCommand(d) \/ RefuseExecution(d) \/ DropExpired(d)
      PROVE  UNCHANGED <<reply, outcome>>
  BY <1>3 DEF LoseRequest, PublishSubmit, PublishCommand, ExecuteSubmit, ExecuteCommand,
     RefuseExecution, DropExpired
<1>4. ASSUME NEW d \in Calls,
             \/ (\E status \in Statuses : Refuse(d, status)) \/ BrokerReturns(d)
             \/ GatewayGivesUp(d)
      PROVE  /\ reply'[c] = reply[c] \/ \E status : reply'[c] = Fail(status)
             /\ UNCHANGED outcome
  BY <1>4 DEF Refuse, BrokerReturns, GatewayGivesUp, ReplyWith
<1>5. \A status : Fail(status).kind # "answer"
  BY DEF Fail
<1>6. \A a : Answer(a).answer = a
  BY DEF Answer
<1>7. ASSUME NEW d \in Calls, HearExecuted(d)
      PROVE  /\ \/ reply'[c] = reply[c]
                \/ /\ stage[c] \in Published
                   /\ reply'[c] = Answer(IF IsSubmit(c) THEN "ACTIVE" ELSE "CONFIRMED")
             /\ UNCHANGED outcome
  BY <1>7 DEF HearExecuted, ReplyWith, Published
<1>8. ASSUME NEW d \in Calls, HearRefused(d)
      PROVE  /\ \/ reply'[c] = reply[c]
                \/ /\ stage[c] \in Published /\ IsSubmit(c)
                   /\ reply'[c] = Answer("REJECTED")
                \/ \E status : reply'[c] = Fail(status)
             /\ UNCHANGED outcome
  BY <1>8 DEF HearRefused, ReplyWith, Published
<1>9. ASSUME NEW d \in Calls, GatewayAcknowledges(d)
      PROVE  (reply'[c] = reply[c] \/ stage[c] \in Published) /\ UNCHANGED outcome
  BY <1>9 DEF GatewayAcknowledges
<1>10. ASSUME HearFill(Coid) \/ Reap(Coid) \/ ForgetFinished(Coid)
       PROVE  UNCHANGED <<reply, outcome>>
  BY <1>10 DEF HearFill, Reap, ForgetFinished
<1>11. ASSUME Restart
       PROVE  /\ reply'[c] = reply[c] \/ \E status : reply'[c] = Fail(status)
              /\ UNCHANGED outcome
  BY <1>11 DEF Restart
<1>12. CASE \E d \in Calls : DeadlineExpires(d) \/ Deliver(d)
              \/ \E code \in TransportCodes : TransportFails(d, code)
  BY <1>1, <1>2, <1>12
<1>13. CASE UNCHANGED <<reply, outcome>>
  BY <1>13
<1>14. CASE (reply'[c] = reply[c] \/ \E status : reply'[c] = Fail(status)) /\ UNCHANGED outcome
  BY <1>5, <1>14
<1>15. CASE \E d \in Calls : HearExecuted(d)
  BY <1>6, <1>7, <1>15 DEF Fits
<1>16. CASE \E d \in Calls : HearRefused(d)
  BY <1>5, <1>6, <1>8, <1>16 DEF Fits
<1>17. CASE "receipt" \in met' /\ \E d \in Calls : GatewayAcknowledges(d)
  BY <1>9, <1>17
<1> QED BY <1>3, <1>4, <1>10, <1>11, <1>12, <1>13, <1>14, <1>15, <1>16, <1>17, WorldCases

(* What a caller was told is told once.                                    *)
LEMMA OutcomeStays ==
  ASSUME CallInv, Around, NEW c \in Calls, call[c] # "open"
  PROVE  outcome'[c] = outcome[c]
<1> USE PassTypes
<1>1. ASSUME NEW d \in Calls, DeadlineExpires(d) \/ Deliver(d)
               \/ \E code \in TransportCodes : TransportFails(d, code)
      PROVE  outcome'[c] = outcome[c]
  BY <1>1 DEF DeadlineExpires, TransportFails, Deliver, Conclude
<1>2. ASSUME NEW d \in Calls,
             \/ LoseRequest(d) \/ (\E status \in Statuses : Refuse(d, status))
             \/ PublishSubmit(d) \/ PublishCommand(d) \/ BrokerReturns(d) \/ GatewayGivesUp(d)
             \/ HearExecuted(d) \/ HearRefused(d) \/ GatewayAcknowledges(d)
             \/ ExecuteSubmit(d) \/ ExecuteCommand(d) \/ RefuseExecution(d) \/ DropExpired(d)
      PROVE  outcome' = outcome
  BY <1>2 DEF LoseRequest, Refuse, PublishSubmit, PublishCommand, BrokerReturns, GatewayGivesUp,
     HearExecuted, HearRefused, GatewayAcknowledges, ExecuteSubmit, ExecuteCommand,
     RefuseExecution, DropExpired
<1>3. ASSUME HearFill(Coid) \/ Reap(Coid) \/ ForgetFinished(Coid) \/ Restart
      PROVE  outcome' = outcome
  BY <1>3 DEF HearFill, Reap, ForgetFinished, Restart
<1> QED BY <1>1, <1>2, <1>3, WorldCases

(* Where the request of a call goes, and what the record must be for it to *)
(* be published.                                                           *)
LEMMA StagesMove ==
  ASSUME CallInv, MadeInv, Around, NEW c \in Calls
  PROVE  \/ stage'[c] = stage[c] /\ applied'[c] = applied[c]
         \/ stage[c] = "wire" /\ stage'[c] = "over" /\ applied'[c] = applied[c]
         \/ /\ stage[c] = "wire" /\ stage'[c] = "exchange" /\ applied'[c] = applied[c]
            /\ record[Coid] = IF IsSubmit(c) THEN "free" ELSE "live"
         \/ /\ stage[c] = "exchange" /\ stage'[c] \in {"refused", "changed", "dropped", "over"}
            /\ applied'[c] = applied[c]
         \/ /\ stage[c] = "exchange" /\ stage'[c] = "executed" /\ applied'[c]
            /\ IsSubmit(c) => book'[Coid] = book[Coid] + 1
            /\ ~IsSubmit(c) => book'[Coid] = book[Coid] - 1
         \/ /\ stage[c] = "executed" /\ stage'[c] = "over" /\ applied'[c] = applied[c]
            /\ record'[Coid] = Reported(c) /\ UNCHANGED book
         \/ stage[c] \in {"refused", "changed"} /\ stage'[c] = "over" /\ applied'[c] = applied[c]
<1> USE PassTypes, Made
<1>1. ASSUME NEW d \in Calls, DeadlineExpires(d) \/ Deliver(d)
               \/ (\E code \in TransportCodes : TransportFails(d, code))
               \/ GatewayGivesUp(d) \/ GatewayAcknowledges(d)
      PROVE  UNCHANGED <<stage, applied>>
  BY <1>1 DEF DeadlineExpires, TransportFails, Deliver, Conclude, GatewayGivesUp,
     GatewayAcknowledges
<1>2. ASSUME HearFill(Coid) \/ Reap(Coid) \/ ForgetFinished(Coid)
      PROVE  UNCHANGED <<stage, applied>>
  BY <1>2 DEF HearFill, Reap, ForgetFinished
<1>3. CASE \E d \in Calls : LoseRequest(d) \/ \E status \in Statuses : Refuse(d, status)
  BY <1>3 DEF LoseRequest, Refuse
<1>4. CASE \E d \in Calls : PublishSubmit(d)
  BY <1>4 DEF PublishSubmit
<1>5. CASE \E d \in Calls : PublishCommand(d)
  BY <1>5 DEF PublishCommand
<1>6. CASE \E d \in Calls : BrokerReturns(d)
  BY <1>6 DEF BrokerReturns
<1>7. CASE \E d \in Calls : HearExecuted(d)
  BY <1>7 DEF HearExecuted
<1>8. CASE \E d \in Calls : HearRefused(d)
  BY <1>8 DEF HearRefused
<1>9. CASE \E d \in Calls : ExecuteSubmit(d)
  BY <1>9 DEF ExecuteSubmit
<1>10. CASE \E d \in Calls : ExecuteCommand(d)
  <2>1. ASSUME NEW d \in Calls, ExecuteCommand(d)
        PROVE  /\ stage[d] = "exchange" /\ ~IsSubmit(d)
               /\ stage' = [stage EXCEPT ![d] = "executed"]
               /\ applied' = [applied EXCEPT ![d] = TRUE]
               /\ book' = [book EXCEPT ![Coid] = book[Coid] - 1]
    BY <2>1 DEF ExecuteCommand
  <2>2. ASSUME NEW d \in Calls, ExecuteCommand(d), d # c
        PROVE  stage'[c] = stage[c] /\ applied'[c] = applied[c]
    BY <2>1, <2>2
  <2>3. CASE ExecuteCommand(c)
    BY <2>1, <2>3
  <2> QED BY <1>10, <2>2, <2>3
<1>11. CASE \E d \in Calls : RefuseExecution(d) \/ DropExpired(d)
  BY <1>11 DEF RefuseExecution, DropExpired
<1>12. CASE Restart
  BY <1>12 DEF Restart
<1> QED BY <1>1, <1>2, <1>3, <1>4, <1>5, <1>6, <1>7, <1>8, <1>9, <1>10, <1>11, <1>12,
          WorldCases

(* The book takes an order from a submission at the exchange, and gives    *)
(* one up only to the cancel: nothing fills a hibernated order.            *)
LEMMA BookMoves ==
  ASSUME CallInv, MadeInv, Around
  PROVE  \/ book'[Coid] = book[Coid]
         \/ /\ book'[Coid] = book[Coid] + 1
            /\ \E c \in {"probe", "reuse"} : stage[c] = "exchange" /\ IsSubmit(c)
         \/ /\ stage["cancel"] = "exchange" /\ book[Coid] > 0 /\ book'[Coid] = book[Coid] - 1
<1> USE PassTypes, Made
<1>1. ASSUME NEW d \in Calls,
             \/ DeadlineExpires(d) \/ Deliver(d)
             \/ (\E code \in TransportCodes : TransportFails(d, code))
             \/ LoseRequest(d) \/ (\E status \in Statuses : Refuse(d, status))
             \/ PublishSubmit(d) \/ PublishCommand(d) \/ BrokerReturns(d)
             \/ GatewayGivesUp(d) \/ GatewayAcknowledges(d)
             \/ HearExecuted(d) \/ HearRefused(d) \/ RefuseExecution(d) \/ DropExpired(d)
      PROVE  book' = book
  BY <1>1 DEF DeadlineExpires, TransportFails, Deliver, Conclude, LoseRequest, Refuse,
     PublishSubmit, PublishCommand, BrokerReturns, GatewayGivesUp, GatewayAcknowledges,
     HearExecuted, HearRefused, RefuseExecution, DropExpired
<1>2. ASSUME HearFill(Coid) \/ Reap(Coid) \/ ForgetFinished(Coid) \/ Restart
      PROVE  book' = book
  BY <1>2 DEF HearFill, Reap, ForgetFinished, Restart
<1>3. CASE \E d \in Calls : ExecuteSubmit(d)
  BY <1>3 DEF ExecuteSubmit
<1>4. CASE \E d \in Calls : ExecuteCommand(d)
  BY <1>4 DEF ExecuteCommand
<1> QED BY <1>1, <1>2, <1>3, <1>4, WorldCases

(* What the gateway holds once it has taken the probe's order in: without  *)
(* a resubscription or a restart a record that is firm stays so, and that  *)
(* of a resting order stays live.                                          *)
LEMMA RecordMoves ==
  ASSUME CallInv, MadeInv, Around, "restart" \notin met'
  PROVE  /\ record[Coid] = "live" /\ book[Coid] > 0 => record'[Coid] = "live"
         /\ "rebuild" \notin met' /\ record[Coid] \in Firm => record'[Coid] \in Firm
<1> USE PassTypes, Made DEF Firm
<1>1. ASSUME NEW d \in Calls,
             \/ DeadlineExpires(d) \/ Deliver(d)
             \/ (\E code \in TransportCodes : TransportFails(d, code))
             \/ LoseRequest(d) \/ (\E status \in Statuses : Refuse(d, status))
             \/ PublishCommand(d) \/ GatewayGivesUp(d) \/ GatewayAcknowledges(d)
             \/ ExecuteSubmit(d) \/ ExecuteCommand(d) \/ RefuseExecution(d) \/ DropExpired(d)
      PROVE  record' = record
  BY <1>1 DEF DeadlineExpires, TransportFails, Deliver, Conclude, LoseRequest, Refuse,
     PublishCommand, GatewayGivesUp, GatewayAcknowledges, ExecuteSubmit, ExecuteCommand,
     RefuseExecution, DropExpired
<1>2. CASE \E d \in Calls : PublishSubmit(d)
  BY <1>2 DEF PublishSubmit
<1>3. CASE \E d \in Calls : BrokerReturns(d) \/ HearRefused(d)
  BY <1>3 DEF BrokerReturns, HearRefused
<1>4. CASE \E d \in Calls : HearExecuted(d)
  BY <1>4 DEF HearExecuted, Reported
<1>5. CASE HearFill(Coid) \/ Reap(Coid)
  BY <1>5 DEF HearFill, Reap
<1>6. CASE "rebuild" \in met' /\ ForgetFinished(Coid)
  BY <1>6 DEF ForgetFinished
<1> QED BY <1>1, <1>2, <1>3, <1>4, <1>5, <1>6, WorldCases

(* The steps of the pass and of the world are steps of the calls.          *)
LEMMA PassIsNext ==
  ASSUME [PassNext]_allVars
  PROVE  [Next]_vars
<1>1. CASE PassStep
  BY <1>1 DEF PassStep, SubmitProbe, ProbeUnknown, ProbeFails, ProbeAnswered, Poll, PollFails,
     PollConfirmed, PollAgain, WindowEnds, ReuseKey, ReuseRefused, ReuseAccepted, CleanupReads,
     CleanupReadFails, CleanupAbsent, CleanupCancels, CancelReturned, CancelFailed, Next,
     ClientStep
<1>2. CASE World
  BY <1>2 DEF World, CallEnds, WorldStep, OrderFeed, Next, ClientStep, GatewayStep, OrderStep
<1>3. CASE Trouble
  BY <1>3 DEF Trouble, Rebuild, Crash, Receipt, Next, GatewayStep, OrderStep
<1> QED BY <1>1, <1>2, <1>3 DEF PassNext, allVars

-----------------------------------------------------------------------------
(* The world around the pass keeps the invariant.                          *)

Held == CallInv /\ KeyInv /\ PassInv

(* Without a restart a submission that is out holds its key's record, and  *)
(* of orders under a key there is at most one.                             *)
LEMMA KeyHeld ==
  ASSUME Held, "restart" \notin met
  PROVE  /\ restarts = 0 /\ book[Coid] \in {0, 1}
         /\ \A c \in Calls : stage[c] \in {"exchange", "executed", "refused"} /\ IsSubmit(c)
              => record[Coid] = "pending" /\ holder[Coid] = c
         /\ book[Coid] > 0 => record[Coid] \in {"live", "pending"}
<1>1. restarts = 0 /\ book[Coid] \in Nat
  BY PassTypes DEF Held, PassInv, MetInv
<1>2. (\A c \in Calls : OutHeld(c)) /\ RestsOnce(Coid)
  BY <1>1 DEF Held, KeyInv
<1> QED BY <1>1, <1>2, PassTypes, Made DEF Held, PassInv, OutHeld, RestsOnce

(* A call's error is translated from a status of its own method, never of  *)
(* a cancel-all.                                                           *)
LEMMA AroundKeepsErrors ==
  ASSUME Held, Around
  PROVE  ErrorsInv'
<1>1. CallInv
  BY DEF Held
<1>2. ASSUME NEW c \in Calls, call[c] = "open", NEW status,
             RaisedFor(c, status).cls # "OrderOutcomeUnknown"
      PROVE  RaisedFor(c, status).rejected
  <2>1. req[c].rpc # "CancelAllOrders"
    BY <1>1, <1>2 DEF CallInv, StageInv, Requests, Rpcs
  <2> QED BY <1>2, <2>1 DEF RaisedFor, Raised, ErrorOf, DefinitelyRejected, ClassRejects,
        IsIncompleteCancelAll
<1>3. ASSUME NEW c \in Calls, DeadlineExpires(c) \/ Deliver(c)
               \/ \E code \in TransportCodes : TransportFails(c, code)
      PROVE  /\ call[c] = "open" /\ \A d \in Calls : d # c => outcome'[d] = outcome[d]
             /\ \/ outcome'[c] = Returned(reply[c].answer)
                \/ \E status : outcome'[c] = RaisedFor(c, status)
  BY <1>1, <1>3, PassTypes DEF DeadlineExpires, TransportFails, Deliver, Conclude
<1>4. \A a : Returned(a).kind # "raised"
  BY DEF Returned
<1>5. ASSUME NEW c \in Calls, DeadlineExpires(c) \/ Deliver(c)
               \/ \E code \in TransportCodes : TransportFails(c, code)
      PROVE  ErrorsInv'
  BY <1>2, <1>3, <1>4, <1>5 DEF Held, PassInv, ErrorsInv
<1>6. ASSUME NEW c \in Calls,
             \/ LoseRequest(c) \/ (\E status \in Statuses : Refuse(c, status))
             \/ PublishSubmit(c) \/ PublishCommand(c) \/ BrokerReturns(c) \/ GatewayGivesUp(c)
             \/ HearExecuted(c) \/ HearRefused(c) \/ GatewayAcknowledges(c)
             \/ ExecuteSubmit(c) \/ ExecuteCommand(c) \/ RefuseExecution(c) \/ DropExpired(c)
      PROVE  outcome' = outcome
  BY <1>6 DEF LoseRequest, Refuse, PublishSubmit, PublishCommand, BrokerReturns, GatewayGivesUp,
     HearExecuted, HearRefused, GatewayAcknowledges, ExecuteSubmit, ExecuteCommand,
     RefuseExecution, DropExpired
<1>7. ASSUME HearFill(Coid) \/ Reap(Coid) \/ ForgetFinished(Coid) \/ Restart
      PROVE  outcome' = outcome
  BY <1>7 DEF HearFill, Reap, ForgetFinished, Restart
<1>8. CASE outcome' = outcome
  BY <1>8 DEF Held, PassInv, ErrorsInv
<1> QED BY <1>5, <1>6, <1>7, <1>8, WorldCases

(* Who calls, what was read and what is reported stays true.               *)
LEMMA AroundKeepsPass ==
  ASSUME Held, CallInv', Around
  PROVE  PassTypeOK' /\ MadeInv' /\ ReadInv' /\ MetInv' /\ AbsentIsFinal' /\ ReuseNeverAccepted'
<1>1. UNCHANGED <<pc, seen, sawPending, verdict, passes, fails>> /\ met \subseteq met'
  BY WorldCases
<1>2. met' \subseteq Troubles
  BY DEF Held, PassInv, PassTypeOK, Around, passVars, Trouble, Rebuild, Crash, Receipt, Meet
<1>3. PassTypeOK'
  BY <1>1, <1>2 DEF Held, PassInv, PassTypeOK, CallInv
<1>4. MadeInv'
  BY <1>1, CallMoves DEF Held, PassInv, MadeInv
<1>5. ReadInv'
  BY <1>1 DEF Held, PassInv, ReadInv
<1>6. MetInv'
  <2>1. restarts' > 0 => "restart" \in met'
    BY <1>1, CallMoves DEF Held, PassInv, MetInv
  <2>2. ASSUME "receipt" \notin met', NEW c \in Calls
        PROVE  /\ reply'[c].kind = "answer" => Fits(c, reply'[c].answer)
               /\ outcome'[c].kind = "returned" => Fits(c, outcome'[c].answer)
    BY <1>1, <2>2, AnswersMove DEF Held, PassInv, MetInv
  <2>3. \A c \in Calls : \A a : Fits(c, a)' <=> Fits(c, a)
    BY CallMoves DEF Fits, IsSubmit, Held
  <2>4. ASSUME "receipt" \notin met', NEW c \in Calls
        PROVE  /\ reply'[c].kind = "answer" => Fits(c, reply[c].answer)'
               /\ outcome'[c].kind = "returned" => Fits(c, outcome[c].answer)'
    BY <2>2, <2>4, CallMoves DEF Fits, IsSubmit, Held
  <2> QED BY <2>1, <2>4 DEF MetInv
<1>7. [Next]_vars
  BY PassIsNext DEF Around, PassNext
<1>8. AbsentIsFinal'
  <2>1. Void("probe") => Void("probe")'
    BY <1>7, Settled DEF Held
  <2> QED BY <1>1, <2>1 DEF Held, PassInv, AbsentIsFinal
<1>9. ReuseNeverAccepted'
  BY <1>1 DEF Held, PassInv, ReuseNeverAccepted
<1> QED BY <1>3, <1>4, <1>5, <1>6, <1>8, <1>9

(* The order stays on the book until it is cancelled.                      *)
LEMMA AroundKeepsResting ==
  ASSUME Held, Around
  PROVE  RestingInv'
<1> SUFFICES ASSUME "restart" \notin met', call'["cancel"] = "idle", applied'["probe"]
             PROVE  book'[Coid] > 0 /\ (stage'["probe"] = "over" => record'[Coid] = "live")
  BY DEF RestingInv
<1>1. "restart" \notin met /\ call["cancel"] = "idle" /\ stage["cancel"] = "none"
  BY WorldCases, CallMoves, PassTypes DEF Held
<1>2. CallInv /\ MadeInv
  BY DEF Held, PassInv
<1>3. CASE stage["probe"] = "exchange"
  <2>1. IsSubmit("probe") /\ applied["probe"] = FALSE
    BY <1>2, <1>3, Made, PassTypes
  <2> QED BY <1>2, <1>3, <2>1, StagesMove, PassTypes
<1>4. CASE stage["probe"] # "exchange"
  <2>1. applied["probe"]
    BY <1>2, <1>4, StagesMove
  <2>2. book[Coid] > 0 /\ (stage["probe"] = "over" => record[Coid] = "live")
    BY <1>1, <2>1 DEF Held, PassInv, RestingInv
  <2>3. book'[Coid] > 0
    BY <1>1, <1>2, <2>2, BookMoves, PassTypes
  <2>4. CASE stage["probe"] = "over"
    BY <1>2, <2>2, <2>3, <2>4, RecordMoves
  <2>5. CASE stage["probe"] = "executed"
    <3>1. record[Coid] = "pending" /\ holder[Coid] = "probe" /\ KeyOf("probe") = Coid
          /\ IsSubmit("probe")
      BY <1>1, <1>2, <2>5, KeyHeld, Made
    <3>2. Reported("probe") = "live"
      BY <2>2, <3>1 DEF Reported
    <3> QED BY <1>2, <2>3, <2>5, <3>2, StagesMove
  <2> QED BY <1>2, <2>1, <2>3, <2>4, <2>5, PassTypes
<1> QED BY <1>3, <1>4

(* A record that was found stays, and its key takes no other order.        *)
LEMMA AroundKeepsFound ==
  ASSUME Held, Around
  PROVE  FoundInv'
<1> SUFFICES ASSUME met' \cap {"rebuild", "restart"} = {}
             PROVE  /\ \/ verdict = "live" \/ (pc \in {"polled", "cleaning"} /\ seen = "confirmed")
                       \/ stage'["cancel"] \in Published \/ applied'["cancel"]
                       => record'[Coid] \in Firm
                    /\ stage'["reuse"] \in {"none", "wire", "over"}
                    /\ reply'["reuse"].kind # "answer" /\ outcome'["reuse"].kind # "returned"
  BY WorldCases DEF FoundInv
<1>1. met \cap {"rebuild", "restart"} = {} /\ met \subseteq met'
  BY WorldCases
<1>2. CallInv /\ MadeInv
  BY DEF Held, PassInv
<1>3. /\ \/ verdict = "live" \/ (pc \in {"polled", "cleaning"} /\ seen = "confirmed")
         \/ stage["cancel"] \in Published \/ applied["cancel"]
         => record[Coid] \in Firm
      /\ stage["reuse"] \in {"none", "wire", "over"}
      /\ reply["reuse"].kind # "answer" /\ outcome["reuse"].kind # "returned"
  BY <1>1 DEF Held, PassInv, FoundInv
<1>4. record[Coid] \in Firm => record'[Coid] \in Firm
  BY <1>2, RecordMoves
<1>5. stage'["cancel"] \in Published \/ applied'["cancel"] => record[Coid] \in Firm
  <2>1. CASE stage["cancel"] = "wire"
    <3>1. ~IsSubmit("cancel") /\ ~applied["cancel"]
      BY <1>2, <2>1, Made, PassTypes
    <3> QED BY <1>2, <2>1, <3>1, StagesMove DEF Published, Firm
  <2>2. CASE stage["cancel"] # "wire"
    BY <1>2, <1>3, <2>2, StagesMove DEF Published
  <2> QED BY <2>1, <2>2
<1>6. stage'["reuse"] \in {"none", "wire", "over"}
  <2>1. CASE stage["reuse"] = "wire"
    <3>1. IsSubmit("reuse") /\ record[Coid] \in Firm
      BY <1>2, <1>3, <2>1, Made, PassTypes DEF MadeInv
    <3> QED BY <1>2, <2>1, <3>1, StagesMove DEF Firm
  <2>2. CASE stage["reuse"] # "wire"
    BY <1>2, <1>3, <2>2, StagesMove
  <2> QED BY <2>1, <2>2
<1>7. reply'["reuse"].kind # "answer" /\ outcome'["reuse"].kind # "returned"
  BY <1>2, <1>3, AnswersMove DEF Published
<1> QED BY <1>3, <1>4, <1>5, <1>6, <1>7

(* What is nowhere stays nowhere, and what was cancelled is no more.       *)
LEMMA AroundKeepsClean ==
  ASSUME Held, Around
  PROVE  CleanInv'
<1> SUFFICES ASSUME met' = {}
             PROVE  /\ pc = "cleanup" => stage'["probe"] # "wire" \/ record'[Coid] \in Firm
                    /\ pc = "cleaning" /\ seen = "absent" => Nowhere'
                    /\ pc = "done" /\ call'["cancel"] = "idle" => Nowhere'
                    /\ applied'["cancel"] => book'[Coid] = 0
                    /\ pc = "done" => \/ call'["cancel"] = "idle" \/ "cleanup" \in fails
                                      \/ outcome'["cancel"].kind = "returned"
  BY WorldCases DEF CleanInv
<1>1. met = {}
  BY WorldCases
<1>2. CallInv /\ MadeInv
  BY DEF Held, PassInv
<1>3. CleanInv /\ met = {}
  BY <1>1 DEF Held, PassInv
<1>4. record[Coid] \in Firm => record'[Coid] \in Firm
  BY <1>2, RecordMoves
<1>5. stage["probe"] # "wire" => stage'["probe"] # "wire"
  BY <1>2, StagesMove, PassTypes
<1>6. Nowhere => Nowhere'
  <2> SUFFICES ASSUME Nowhere PROVE Nowhere'
    OBVIOUS
  <2>1. Void("probe")'
    <3>1. [Next]_vars
      BY PassIsNext DEF Around, PassNext
    <3> QED BY <1>2, <3>1, Settled DEF Nowhere
  <2>2. call'["reuse"] = "idle" /\ stage["reuse"] = "none"
    BY <1>2, CallMoves, PassTypes DEF Nowhere
  <2>3. book'[Coid] = 0
    BY <1>2, <2>2, BookMoves DEF Nowhere, Void
  <2> QED BY <2>1, <2>2, <2>3 DEF Nowhere
<1>7. applied'["cancel"] => book'[Coid] = 0
  <2>1. CASE applied["cancel"]
    <3>1. book[Coid] = 0 /\ record[Coid] \in Firm
      BY <1>1, <2>1 DEF Held, PassInv, CleanInv, FoundInv
    <3>2. \A c \in Calls : stage[c] = "exchange" => ~IsSubmit(c)
      BY <1>1, <3>1, KeyHeld DEF Firm
    <3> QED BY <1>2, <3>1, <3>2, BookMoves
  <2>2. CASE ~applied["cancel"] /\ applied'["cancel"]
    <3>1. stage["cancel"] = "exchange" /\ (~IsSubmit("cancel") => book'[Coid] = book[Coid] - 1)
      BY <1>2, <2>2, StagesMove
    <3>2. ~IsSubmit("cancel")
      BY <1>2, <3>1, Made
    <3>3. book'[Coid] \in Nat
      <4>1. book[Coid] \in Nat
        BY <1>2, PassTypes
      <4> QED BY <1>2, <3>1, <3>2, <4>1, BookMoves
    <3> QED BY <1>1, <3>1, <3>2, <3>3, KeyHeld
  <2> QED BY <2>1, <2>2
<1>8. call'["cancel"] = "idle" <=> call["cancel"] = "idle"
  BY <1>2, CallMoves
<1>9. call["cancel"] # "open" => outcome'["cancel"] = outcome["cancel"]
  BY <1>2, OutcomeStays
<1>10. pc = "done" /\ outcome["cancel"].kind = "returned" => outcome'["cancel"].kind = "returned"
  BY <1>2, <1>9 DEF CallInv, OutcomeInv, NoOutcome
<1> QED BY <1>3, <1>4, <1>5, <1>6, <1>7, <1>8, <1>10 DEF CleanInv

-----------------------------------------------------------------------------
(* The pass's own steps keep the invariant.                                *)

(* Nothing is held under the key of a request that has left the wire: it   *)
(* has come to nothing, or what came of it is gone.                        *)
LEMMA AbsentVoid ==
  ASSUME Held, "restart" \notin met, call["probe"] # "idle", call["cancel"] = "idle",
         stage["probe"] # "wire", Reading = "absent"
  PROVE  Void("probe") /\ book[Coid] = 0
<1>1. record[Coid] \notin Firm \cup {"pending"}
  BY DEF Reading, Firm
<1>2. stage["probe"] # "none"
  BY PassTypes DEF Held
<1>3. IsSubmit("probe")
  BY <1>2, Made DEF Held, PassInv
<1>4. stage["probe"] \notin {"exchange", "executed", "refused"}
  BY <1>1, <1>3, KeyHeld
<1>5. ~applied["probe"]
  BY <1>1, <1>4, PassTypes DEF Held, PassInv, RestingInv, Firm
<1>6. book[Coid] = 0
  BY <1>1, KeyHeld DEF Firm
<1> QED BY <1>2, <1>4, <1>5, <1>6 DEF Void

(* The probe's request has left the wire when its answer is not unknown.   *)
LEMMA ProbeGone ==
  ASSUME Held
  PROVE  /\ met = {} /\ GaveAnswer("probe") => stage["probe"] # "wire"
         /\ ProbeFails => stage["probe"] # "wire"
<1>1. ASSUME met = {}, GaveAnswer("probe") PROVE stage["probe"] # "wire"
  <2>1. outcome["probe"].answer \in {"ACTIVE", "REJECTED", "CONFIRMED"}
    BY <1>1 DEF GaveAnswer, Held, PassInv, MetInv, Fits
  <2>2. outcome["probe"] = Returned(outcome["probe"].answer)
    BY <1>1 DEF GaveAnswer, Held, CallInv, TypeOK, Outcomes, NoOutcome, Returned
  <2>3. ToldApplied("probe") \/ ToldRejected("probe")
    BY <2>1, <2>2 DEF ToldApplied, ToldRejected
  <2> QED BY <2>3, PassTypes DEF Held, CallInv, OutcomeInv, Void
<1>2. ASSUME ProbeFails PROVE stage["probe"] # "wire"
  <2>1. ToldRejected("probe")
    BY <1>2 DEF ProbeFails, Failed, ToldRejected, Held, PassInv, ErrorsInv
  <2> QED BY <2>1 DEF Held, CallInv, OutcomeInv, Void
<1> QED BY <1>1, <1>2

(* A step that reads or reports, and makes no call.                        *)
LEMMA ReadingKeeps ==
  ASSUME Held, CallInv', UNCHANGED vars,
         \/ ProbeUnknown \/ ProbeFails \/ ProbeAnswered \/ Poll \/ PollFails \/ PollConfirmed
         \/ PollAgain \/ WindowEnds \/ ReuseRefused \/ ReuseAccepted \/ CleanupReads
         \/ CleanupReadFails \/ CleanupAbsent \/ CancelReturned \/ CancelFailed
  PROVE  PassInv'
<1>0. /\ UNCHANGED <<call, req, outcome, stage, reply, record, book, applied, restarts>>
      /\ TypeOK' /\ (Reading = Reading')
      /\ PassInv
  BY DEF vars, CallInv, Reading, Held
<1> USE DEF ProbeUnknown, ProbeFails, ProbeAnswered, Poll, PollFails, PollConfirmed, PollAgain,
     WindowEnds, ReuseRefused, ReuseAccepted, CleanupReads, CleanupReadFails, CleanupAbsent,
     CancelReturned, CancelFailed, Meet, Pass, Report, Goto
<1>1. /\ met \subseteq met' /\ met' \subseteq met \cup Troubles
      /\ pc' \in {"reconcile", "polled", "reuse", "cleanup", "cleaning", "done"}
      /\ passes' \subseteq passes \cup StepNames /\ fails \subseteq fails'
      /\ fails' \subseteq fails \cup StepNames
      /\ seen' \in {seen, Reading} /\ sawPending' \in {sawPending, (sawPending \/ seen = "pending")}
      /\ verdict' \in {verdict, "live", "absent"}
  BY DEF StepNames
<1>2. PassTypeOK'
  <2>1. sawPending' \in BOOLEAN
    BY <1>0, <1>1, Zenon DEF PassInv, PassTypeOK
  <2>2. Reading \in {"absent", "pending", "confirmed"}
    BY DEF Reading
  <2> QED BY <1>0, <1>1, <2>1, <2>2 DEF PassInv, PassTypeOK
<1>3. MetInv' /\ ErrorsInv' /\ RestingInv'
  BY <1>0, <1>1 DEF PassInv, MetInv, ErrorsInv, RestingInv, Fits, IsSubmit
<1>4. MadeInv'
  <2>1. /\ pc # "start" /\ (pc = "probe" => call["probe"] = "done")
        /\ pc = "cancelling" => pc' = "done"
        /\ pc # "cancelling" /\ pc # "done" => call["cancel"] = "idle"
    BY <1>0 DEF PassInv, MadeInv, Failed, GaveAnswer, Ended
  <2>2. verdict = "live" => verdict' = "live"
    BY <1>0 DEF PassInv, ReadInv
  <2> QED BY <1>0, <1>1, <2>1, <2>2 DEF PassInv, MadeInv
<1>5. ReadInv'
  BY <1>0 DEF PassInv, ReadInv, PassTypeOK, Reading
<1>6. FoundInv'
  <2> SUFFICES ASSUME met' \cap {"rebuild", "restart"} = {}
               PROVE  /\ verdict' = "live" => record[Coid] \in Firm
                      /\ pc' \in {"polled", "cleaning"} /\ seen' = "confirmed" => record[Coid] \in Firm
    BY <1>0, <1>1 DEF FoundInv, PassInv
  <2>1. /\ verdict = "live" => record[Coid] \in Firm
        /\ pc = "polled" /\ seen = "confirmed" => record[Coid] \in Firm
    BY <1>0, <1>1 DEF FoundInv, PassInv
  <2>2. Reading = "confirmed" => record[Coid] \in Firm
    BY DEF Reading, Firm
  <2> QED BY <2>1, <2>2
<1>7. AbsentIsFinal'
  <2>1. ASSUME WindowEnds, verdict' = "absent", met' \cap {"late", "restart"} = {}
        PROVE  Void("probe")
    <3>1. /\ seen = "absent" /\ seen = Reading /\ stage["probe"] # "wire" /\ met' = met
      BY <1>0, <2>1 DEF PassInv, ReadInv
    <3>2. "restart" \notin met /\ call["probe"] # "idle" /\ call["cancel"] = "idle"
      BY <1>0, <2>1, <3>1 DEF PassInv, MadeInv
    <3> QED BY <3>1, <3>2, AbsentVoid
  <2>2. ~WindowEnds => verdict' = verdict \/ verdict' = "live"
    OBVIOUS
  <2>3. Void("probe")' <=> Void("probe")
    BY <1>0 DEF Void
  <2> QED BY <1>0, <1>1, <2>1, <2>2, <2>3 DEF PassInv, AbsentIsFinal
<1>8. ReuseNeverAccepted'
  <2>1. ASSUME ReuseAccepted PROVE met \cap {"rebuild", "restart"} # {}
    BY <1>0, <2>1 DEF PassInv, FoundInv, GaveAnswer
  <2>2. ~ReuseAccepted /\ "reuse" \in fails' => "reuse" \in fails
    OBVIOUS
  <2> QED BY <1>0, <1>1, <2>1, <2>2 DEF PassInv, ReuseNeverAccepted
<1>9. CleanInv'
  <2> SUFFICES ASSUME met' = {}
               PROVE  /\ pc' = "cleanup" => stage["probe"] # "wire" \/ record[Coid] \in Firm
                      /\ pc' = "cleaning" /\ seen' = "absent" => Nowhere
                      /\ pc' = "done" /\ call["cancel"] = "idle" => Nowhere
                      /\ pc' = "done" => \/ call["cancel"] = "idle" \/ "cleanup" \in fails'
                                         \/ outcome["cancel"].kind = "returned"
    BY <1>0, <1>1 DEF CleanInv, PassInv, Nowhere, Void
  <2>1. met = {} /\ met' = {}
    BY <1>1
  <2>2. /\ pc = "cleanup" => stage["probe"] # "wire" \/ record[Coid] \in Firm
        /\ pc = "cleaning" /\ seen = "absent" => Nowhere
        /\ verdict = "live" => record[Coid] \in Firm
    BY <1>0, <2>1 DEF PassInv, CleanInv, FoundInv
  <2>3. ASSUME pc' = "cleanup" PROVE stage["probe"] # "wire" \/ record[Coid] \in Firm
    <3>1. CASE ProbeFails \/ ProbeAnswered
      BY <2>1, <3>1, ProbeGone
    <3>2. CASE ReuseRefused \/ ReuseAccepted
      BY <1>0, <2>2, <3>2 DEF PassInv, ReadInv
    <3> QED BY <2>1, <2>3, <3>1, <3>2
  <2>4. ASSUME pc' = "cleaning", seen' = "absent" PROVE Nowhere
    <3>1. pc = "cleanup" /\ Reading = "absent"
      BY <2>4
    <3>2. record[Coid] \notin Firm
      BY <3>1 DEF Reading, Firm
    <3>3. /\ stage["probe"] # "wire" /\ verdict # "live"
          /\ call["probe"] # "idle" /\ call["cancel"] = "idle" /\ call["reuse"] = "idle"
      BY <1>0, <2>2, <3>1, <3>2 DEF PassInv, MadeInv
    <3> QED BY <2>1, <3>1, <3>3, AbsentVoid DEF Nowhere
  <2>5. ASSUME pc' = "done", call["cancel"] = "idle" PROVE Nowhere
    <3>1. CASE CleanupAbsent
      BY <2>2, <3>1
    <3>2. CASE CancelReturned \/ CancelFailed
      BY <2>5, <3>2 DEF GaveAnswer, Failed, Ended
    <3> QED BY <2>1, <2>5, <3>1, <3>2
  <2>6. ASSUME pc' = "done"
        PROVE  \/ call["cancel"] = "idle" \/ "cleanup" \in fails'
               \/ outcome["cancel"].kind = "returned"
    <3>1. CASE CleanupAbsent
      BY <1>0, <3>1 DEF PassInv, MadeInv
    <3>2. CASE CancelReturned \/ CancelFailed
      BY <3>2 DEF GaveAnswer
    <3> QED BY <2>1, <2>6, <3>1, <3>2
  <2> QED BY <2>3, <2>4, <2>5, <2>6
<1> QED BY <1>2, <1>3, <1>4, <1>5, <1>6, <1>7, <1>8, <1>9 DEF PassInv

(* A step that makes a call.                                               *)
LEMMA CallingKeeps ==
  ASSUME Held, CallInv', SubmitProbe \/ ReuseKey \/ CleanupCancels
  PROVE  PassInv'
<1> DEFINE c == IF SubmitProbe THEN "probe" ELSE IF ReuseKey THEN "reuse" ELSE "cancel"
           rpc == IF SubmitProbe \/ ReuseKey THEN "SubmitOrder" ELSE "CancelOrder"
<1>0. /\ CallInv /\ PassInv /\ TypeOK' /\ c \in Calls
      /\ UNCHANGED <<met, seen, sawPending, verdict, passes, fails>>
      /\ \/ SubmitProbe /\ pc = "start" /\ c = "probe" /\ pc' = "probe"
         \/ ReuseKey /\ pc = "reuse" /\ c = "reuse" /\ pc' = "reusing"
         \/ CleanupCancels /\ pc = "cleaning" /\ c = "cancel" /\ pc' = "cancelling"
      /\ Invoke(c, rpc, Coid)
  BY DEF Held, CallInv, SubmitProbe, ReuseKey, CleanupCancels, SubmitOrder, CancelOrder, Goto
<1> HIDE DEF rpc
<1>1. /\ call[c] = "idle" /\ stage[c] = "none"
      /\ call' = [call EXCEPT ![c] = "open"] /\ stage' = [stage EXCEPT ![c] = "wire"]
      /\ req' = [req EXCEPT ![c] = [rpc |-> rpc, key |-> Coid]]
      /\ UNCHANGED <<outcome, reply, record, book, applied, restarts>>
  BY <1>0, PassTypes DEF Invoke
<1>2. /\ outcome[c] = NoOutcome /\ reply[c] = NoReply /\ ~applied[c]
      /\ NoOutcome.kind = "none" /\ NoReply.kind = "none"
  BY <1>0, <1>1, PassTypes DEF CallInv, OutcomeInv, ReplyInv, NoOutcome, NoReply
<1>3. \A d \in Calls : d # c => call'[d] = call[d] /\ stage'[d] = stage[d] /\ req'[d] = req[d]
  BY <1>0, <1>1, PassTypes
<1>4. call'[c] = "open" /\ stage'[c] = "wire" /\ req'[c] = [rpc |-> rpc, key |-> Coid]
  BY <1>0, <1>1, PassTypes
<1>5. PassTypeOK' /\ ReadInv'
  BY <1>0 DEF PassInv, PassTypeOK, ReadInv
<1>6. MadeInv'
  BY <1>0, <1>1, <1>3, <1>4 DEF PassInv, MadeInv, ReadInv, rpc
<1>7. MetInv' /\ ErrorsInv'
  <2>1. \A d \in Calls : reply[d].kind = "answer" \/ outcome[d].kind = "returned" => d # c
    BY <1>2
  <2>2. \A d \in Calls : \A a : d # c => (Fits(d, a)' <=> Fits(d, a))
    BY <1>3 DEF Fits, IsSubmit
  <2>3. \A d \in Calls : d # c => (IsSubmit(d)' <=> IsSubmit(d))
    BY <1>3 DEF IsSubmit
  <2> QED BY <1>0, <1>1, <2>1, <2>3 DEF PassInv, MetInv, ErrorsInv, Fits
<1>8. RestingInv'
  <2>1. c = "cancel" => call'["cancel"] # "idle"
    BY <1>4
  <2>2. applied["probe"] => c # "probe"
    BY <1>2
  <2> QED BY <1>0, <1>1, <1>3, <2>1, <2>2 DEF PassInv, RestingInv
<1>9. FoundInv'
  <2>1. stage'["cancel"] \in Published => stage["cancel"] \in Published
    BY <1>3, <1>4 DEF Published
  <2>2. stage'["reuse"] \in {stage["reuse"], "wire"}
    BY <1>3, <1>4
  <2> QED BY <1>0, <1>1, <2>1, <2>2 DEF PassInv, FoundInv
<1>10. CleanInv'
  <2>1. pc' \notin {"cleanup", "cleaning", "done"}
    BY <1>0
  <2> QED BY <1>0, <1>1, <2>1 DEF PassInv, CleanInv
<1>11. AbsentIsFinal' /\ ReuseNeverAccepted'
  <2>1. Void("probe") => Void("probe")'
    BY <1>1, <1>3 DEF Void
  <2> QED BY <1>0, <2>1 DEF PassInv, AbsentIsFinal, ReuseNeverAccepted
<1> QED BY <1>5, <1>6, <1>7, <1>8, <1>9, <1>10, <1>11 DEF PassInv

-----------------------------------------------------------------------------
(* What the pass does is done by calls of the clients, a gateway and an    *)
(* exchange as in OrderCalls: what is proved there holds here.             *)
THEOREM PassIsCalls == PassSpec => Spec
<1>1. PassInit => Init
  BY DEF PassInit
<1> QED BY <1>1, PassIsNext, PTL DEF PassSpec, Spec

(* The invariant of the pass, on that of the calls and their keys.         *)
THEOREM PassInvariant == PassSpec => []PassInv
<1>1. CallInv /\ PassInit => PassInv
  <2> SUFFICES ASSUME CallInv, PassInit PROVE PassInv
    OBVIOUS
  <2>1. /\ \A c \in Calls : /\ call[c] = "idle" /\ stage[c] = "none" /\ ~applied[c]
                            /\ outcome[c] = NoOutcome /\ reply[c] = NoReply
        /\ restarts = 0 /\ pc = "start" /\ met = {} /\ seen = "nothing" /\ sawPending = FALSE
        /\ verdict = "none" /\ passes = {} /\ fails = {}
    BY DEF PassInit, Init
  <2>2. NoOutcome.kind = "none" /\ NoReply.kind = "none"
    BY DEF NoOutcome, NoReply
  <2>3. PassTypeOK /\ MadeInv /\ ReadInv
    BY <2>1 DEF CallInv, PassTypeOK, MadeInv, ReadInv
  <2>4. MetInv /\ ErrorsInv /\ RestingInv
    BY <2>1, <2>2 DEF MetInv, ErrorsInv, RestingInv
  <2>5. FoundInv /\ CleanInv /\ AbsentIsFinal /\ ReuseNeverAccepted
    BY <2>1, <2>2 DEF FoundInv, CleanInv, AbsentIsFinal, ReuseNeverAccepted, Published
  <2> QED BY <2>3, <2>4, <2>5 DEF PassInv
<1>2. CallInv /\ CallInv' /\ KeyInv /\ PassInv /\ [PassNext]_allVars => PassInv'
  <2> SUFFICES ASSUME Held, CallInv', [PassNext]_allVars PROVE PassInv'
    BY DEF Held
  <2>1. CASE PassStep
    <3>1. SubmitProbe \/ ReuseKey \/ CleanupCancels \/ UNCHANGED vars
      BY <2>1 DEF PassStep, ProbeUnknown, ProbeFails, ProbeAnswered, Poll, PollFails,
         PollConfirmed, PollAgain, WindowEnds, ReuseRefused, ReuseAccepted, CleanupReads,
         CleanupReadFails, CleanupAbsent, CancelReturned, CancelFailed
    <3> QED BY <2>1, <3>1, ReadingKeeps, CallingKeeps DEF PassStep
  <2>2. CASE Around
    BY <2>2, AroundKeepsPass, AroundKeepsErrors, AroundKeepsResting, AroundKeepsFound,
       AroundKeepsClean DEF PassInv
  <2>3. CASE UNCHANGED allVars
    <3>1. /\ UNCHANGED <<call, req, outcome, stage, reply, record, book, applied, restarts>>
          /\ UNCHANGED <<met, pc, seen, sawPending, verdict, passes, fails>> /\ TypeOK'
      BY <2>3 DEF allVars, vars, passVars, CallInv
    <3>2. PassTypeOK' /\ MadeInv' /\ ReadInv'
      BY <3>1 DEF Held, PassInv, PassTypeOK, MadeInv, ReadInv
    <3>3. MetInv' /\ ErrorsInv' /\ RestingInv'
      BY <3>1 DEF Held, PassInv, MetInv, ErrorsInv, RestingInv, Fits, IsSubmit
    <3>4. FoundInv' /\ CleanInv' /\ AbsentIsFinal' /\ ReuseNeverAccepted'
      BY <3>1 DEF Held, PassInv, FoundInv, CleanInv, AbsentIsFinal, ReuseNeverAccepted,
         Nowhere, Void
    <3> QED BY <3>2, <3>3, <3>4 DEF PassInv
  <2> QED BY <2>1, <2>2, <2>3 DEF PassNext, Around
<1> QED BY <1>1, <1>2, PassIsCalls, CallInvariant, KeyKept, PTL DEF PassSpec

(* _reconcile: "definitive: order never landed" is true for good, unless   *)
(* the probe reached the gateway after the last poll or a restart made it  *)
(* forget a request still at the exchange.                                 *)
THEOREM AbsentFinal == PassSpec => []AbsentIsFinal
<1>1. PassInv => AbsentIsFinal
  BY DEF PassInv
<1> QED BY <1>1, PassInvariant, PTL

(* _reuse_key: the key of an order that was found is refused, as long as   *)
(* the gateway has not forgotten it.                                       *)
THEOREM KeyStaysUsed == PassSpec => []ReuseNeverAccepted
<1>1. PassInv => ReuseNeverAccepted
  BY DEF PassInv
<1> QED BY <1>1, PassInvariant, PTL

(* _reconcile_cleanup: the pass ends with no probe order on the book, or   *)
(* with a [FAIL] of the clean-up, when nothing of TroubleWords was met.    *)
THEOREM ProbeIsAccounted == PassSpec => []ProbeAccounted
<1>1. CallInv /\ PassInv => ProbeAccounted
  <2> SUFFICES ASSUME CallInv, PassInv, met = {}, pc = "done", book[Coid] > 0
               PROVE  "cleanup" \in fails
    BY DEF ProbeAccounted, ProbeAlwaysAccounted
  <2>1. CASE call["cancel"] = "idle"
    BY <2>1 DEF PassInv, CleanInv, Nowhere
  <2>2. CASE outcome["cancel"].kind = "returned"
    <3>1. req["cancel"].rpc = "CancelOrder" /\ ~IsSubmit("cancel")
      BY <2>2 DEF CallInv, OutcomeInv, NoOutcome, PassInv, MadeInv, IsSubmit
    <3>2. outcome["cancel"].answer = "CONFIRMED"
      BY <2>2, <3>1 DEF PassInv, MetInv, Fits
    <3>3. outcome["cancel"] = Returned("CONFIRMED")
      BY <2>2, <3>2 DEF CallInv, TypeOK, Outcomes, NoOutcome, Returned
    <3>4. applied["cancel"]
      BY <3>3 DEF CallInv, OutcomeInv, ToldApplied
    <3> QED BY <3>4 DEF PassInv, CleanInv
  <2> QED BY <2>1, <2>2 DEF PassInv, CleanInv
<1>2. PassSpec => []CallInv
  BY PassIsCalls, CallInvariant, PTL
<1> QED BY <1>1, <1>2, PassInvariant, PTL
=============================================================================
