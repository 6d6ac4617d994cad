--------------------------- MODULE VerifyReconcile ---------------------------
(***************************************************************************)
(* The reconciliation pass of verify.py, one probe of it: submit an order  *)
(* with a deadline meant to fail, find out with get_order what became of   *)
(* it, try its key again, clean up.  The pass is the client process; the   *)
(* calls it makes, the gateway and the exchange are those of OrderCalls.   *)
(*                                                                         *)
(* The probe order is hibernated, so the market never fills it.            *)
(***************************************************************************)
EXTENDS OrderCalls

CONSTANTS
  Coid,     \* the probe's client_order_id
  Troubles  \* what may go wrong around the pass, of the words below

(* "read"     get_order may fail for another reason than NotFound;         *)
(* "late"     the probe may reach the gateway after the window's last poll; *)
(* "receipt"  a waited call may be answered on the exchange's receipt;     *)
(* "rebuild"  the order feed is resubscribed, which frees finished keys;   *)
(* "restart"  the gateway restarts.                                        *)
TroubleWords == {"read", "late", "receipt", "rebuild", "restart"}
ASSUME ProbeAssumption == /\ {"probe", "reuse", "cancel"} \subseteq Calls
                          /\ Coid \in Keys
ASSUME TroublesAssumption == Troubles \subseteq TroubleWords

VARIABLES
  met,        \* history: the troubles met so far
  pc,         \* where the pass is
  seen,       \* what the last get_order answered
  sawPending, \* whether any poll of this window saw the order pending
  verdict,    \* what the reconcile step returned
  passes,     \* steps reported [PASS]
  fails       \* steps reported [FAIL]

passVars == <<met, pc, seen, sawPending, verdict, passes, fails>>
allVars == <<vars, passVars>>

PassInit ==
  /\ Init
  /\ met = {} /\ pc = "start" /\ seen = "nothing" /\ sawPending = FALSE
  /\ verdict = "none" /\ passes = {} /\ fails = {}

-----------------------------------------------------------------------------
(* What get_order answers: the pending store first, then the confirmed one, *)
(* which also holds finished and rejected orders; else NotFound.           *)
Reading ==
  IF record[Coid] = "pending" THEN "pending"
  ELSE IF record[Coid] \in {"live", "finished", "rejected"} THEN "confirmed"
  ELSE "absent"

Meet(trouble) == trouble \in Troubles /\ met' = met \cup {trouble}

Ended(c) == call[c] = "done"
GaveAnswer(c) == Ended(c) /\ outcome[c].kind = "returned"
Failed(c) == Ended(c) /\ outcome[c].kind = "raised"

Pass(name, next) ==
  /\ passes' = passes \cup {name} /\ pc' = next /\ UNCHANGED fails
Report(name, next) ==
  /\ fails' = fails \cup {name} /\ pc' = next /\ UNCHANGED passes
Goto(next) == pc' = next /\ UNCHANGED <<passes, fails>>

-----------------------------------------------------------------------------
(* The probe: submit_order under a deadline meant to expire.               *)

SubmitProbe ==
  /\ pc = "start" /\ SubmitOrder("probe", Coid)
  /\ Goto("probe") /\ UNCHANGED <<seen, sawPending, verdict, met>>

(* The deadline struck: the failure is typed as unknown, as it should be.  *)
ProbeUnknown ==
  /\ pc = "probe" /\ Failed("probe")
  /\ outcome["probe"].cls = "OrderOutcomeUnknown"
  /\ ~outcome["probe"].rejected
  /\ Pass("probe", "reconcile")
  /\ UNCHANGED <<vars, seen, sawPending, verdict, met>>

(* Any other error, or an unknown one that claims a rejection: [FAIL].     *)
ProbeFails ==
  /\ pc = "probe" /\ Failed("probe")
  /\ outcome["probe"].cls # "OrderOutcomeUnknown" \/ outcome["probe"].rejected
  /\ Report("probe", "cleanup")
  /\ UNCHANGED <<vars, seen, sawPending, verdict, met>>

(* The server answered first; there is nothing to reconcile.               *)
ProbeAnswered ==
  /\ pc = "probe" /\ GaveAnswer("probe")
  /\ Pass("probe", "cleanup")
  /\ UNCHANGED <<vars, seen, sawPending, verdict, met>>

-----------------------------------------------------------------------------
(* _reconcile: poll get_order for five seconds.                            *)

Poll ==
  /\ pc = "reconcile"
  /\ seen' = Reading
  /\ Goto("polled") /\ UNCHANGED <<vars, sawPending, verdict, met>>

(* Only NotFound is caught in the loop; any other error fails the step.    *)
PollFails ==
  /\ pc = "reconcile" /\ Meet("read")
  /\ Report("reconcile", "cleanup")
  /\ UNCHANGED <<vars, seen, sawPending, verdict>>

PollConfirmed ==
  /\ pc = "polled" /\ seen = "confirmed"
  /\ verdict' = "live"
  /\ Pass("reconcile", "reuse") /\ UNCHANGED <<vars, seen, sawPending, met>>

(* Mutant: the first NotFound is taken for an answer.                      *)
PollAgainHasty ==
  /\ pc = "polled" /\ seen = "absent"
  /\ verdict' = "absent"
  /\ Pass("reconcile", "cleanup") /\ UNCHANGED <<vars, seen, sawPending, met>>

PollAgain ==
  /\ pc = "polled" /\ seen # "confirmed"
  /\ sawPending' = (sawPending \/ seen = "pending")
  /\ Goto("reconcile") /\ UNCHANGED <<vars, seen, verdict, met>>

(* Mutant: the window is left open for as long as the order is pending.    *)
WindowEndsResolved ==
  /\ pc = "reconcile" /\ seen # "nothing" /\ ~sawPending
  /\ \/ stage["probe"] # "wire" /\ seen = Reading /\ UNCHANGED met
     \/ (stage["probe"] = "wire" \/ seen # Reading) /\ Meet("late")
  /\ verdict' = "absent"
  /\ Pass("reconcile", "cleanup") /\ UNCHANGED <<vars, seen, sawPending>>

(* Five seconds have passed, and one poll at least was made.  Unless the   *)
(* gateway is late, the last poll came after the probe's arrival.          *)
WindowEnds ==
  /\ pc = "reconcile" /\ seen # "nothing"
  /\ \/ stage["probe"] # "wire" /\ seen = Reading /\ UNCHANGED met
     \/ (stage["probe"] = "wire" \/ seen # Reading) /\ Meet("late")
  /\ \/ /\ sawPending
        /\ Report("reconcile", "cleanup") /\ UNCHANGED verdict
     \/ /\ ~sawPending
        /\ verdict' = "absent" /\ Pass("reconcile", "cleanup")
  /\ UNCHANGED <<vars, seen, sawPending>>

-----------------------------------------------------------------------------
(* _reuse_key: the same client_order_id again, with the default deadline.  *)

(* Mutant: the resubmission draws a key of its own.                        *)
ReuseKeyFresh ==
  /\ pc = "reuse" /\ \E k \in Keys \ {Coid} : SubmitOrder("reuse", k)
  /\ Goto("reusing") /\ UNCHANGED <<seen, sawPending, verdict, met>>

ReuseKey ==
  /\ pc = "reuse" /\ SubmitOrder("reuse", Coid)
  /\ Goto("reusing") /\ UNCHANGED <<seen, sawPending, verdict, met>>

(* Every VoltnirError is reported as "correctly refused".                  *)
ReuseRefused ==
  /\ pc = "reusing" /\ Failed("reuse")
  /\ Pass("reuse", "cleanup")
  /\ UNCHANGED <<vars, seen, sawPending, verdict, met>>

ReuseAccepted ==
  /\ pc = "reusing" /\ GaveAnswer("reuse")
  /\ Report("reuse", "cleanup")
  /\ UNCHANGED <<vars, seen, sawPending, verdict, met>>

-----------------------------------------------------------------------------
(* _reconcile_cleanup.                                                     *)

CleanupReads ==
  /\ pc = "cleanup"
  /\ seen' = Reading
  /\ Goto("cleaning") /\ UNCHANGED <<vars, sawPending, verdict, met>>

CleanupReadFails ==
  /\ pc = "cleanup" /\ Meet("read")
  /\ Report("cleanup", "done")
  /\ UNCHANGED <<vars, seen, sawPending, verdict>>

(* Mutant: only a confirmed order is worth cancelling.                     *)
CleanupAbsentOrPending ==
  /\ pc = "cleaning" /\ seen \in {"absent", "pending"}
  /\ Goto("done") /\ UNCHANGED <<vars, seen, sawPending, verdict, met>>

(* NotFound: nothing to cancel, and nothing is reported.                   *)
CleanupAbsent ==
  /\ pc = "cleaning" /\ seen = "absent"
  /\ Goto("done") /\ UNCHANGED <<vars, seen, sawPending, verdict, met>>

CleanupCancels ==
  /\ pc = "cleaning" /\ seen \in {"confirmed", "pending"}
  /\ CancelOrder("cancel", Coid)
  /\ Goto("cancelling") /\ UNCHANGED <<seen, sawPending, verdict, met>>

(* Whatever outcome the response carries, the order is reported cancelled. *)
CancelReturned ==
  /\ pc = "cancelling" /\ GaveAnswer("cancel")
  /\ Pass("cleanup", "done")
  /\ UNCHANGED <<vars, seen, sawPending, verdict, met>>

CancelFailed ==
  /\ pc = "cancelling" /\ Failed("cancel")
  /\ Report("cleanup", "done")
  /\ UNCHANGED <<vars, seen, sawPending, verdict, met>>

-----------------------------------------------------------------------------
PassStep ==
  \/ SubmitProbe \/ ProbeUnknown \/ ProbeFails \/ ProbeAnswered
  \/ Poll \/ PollFails \/ PollConfirmed \/ PollAgain \/ WindowEnds
  \/ ReuseKey \/ ReuseRefused \/ ReuseAccepted
  \/ CleanupReads \/ CleanupReadFails \/ CleanupAbsent \/ CleanupCancels
  \/ CancelReturned \/ CancelFailed

(* The ways a call under way ends; the gateway and the exchange, of whose  *)
(* actions an hibernated order on an active contract sees these.           *)
CallEnds(c) ==
  \/ DeadlineExpires(c)
  \/ \E code \in TransportCodes : TransportFails(c, code)
  \/ Deliver(c)

WorldStep(c) ==
  \/ LoseRequest(c) \/ RefuseRequest(c) \/ RefuseUsedKey(c) \/ RefuseCommand(c)
  \/ PublishSubmit(c) \/ PublishCommand(c) \/ BrokerReturns(c)
  \/ GatewayGivesUp(c) \/ HearExecuted(c) \/ HearRefused(c)
  \/ ExchangeStep(c)

OrderFeed == HearFill(Coid) \/ Reap(Coid)

(* The ones a run may switch on.                                           *)
Receipt(c) == Meet("receipt") /\ GatewayAcknowledges(c)
Rebuild ==
  /\ Meet("rebuild")
  /\ record[Coid] = "finished" /\ ForgetFinished(Coid)
Crash == Meet("restart") /\ Restart

World ==
  \/ \E c \in Calls : CallEnds(c) \/ WorldStep(c)
  \/ OrderFeed

Trouble == Rebuild \/ Crash \/ \E c \in Calls : Receipt(c)

PassNext ==
  \/ PassStep
  \/ World /\ UNCHANGED passVars
  \/ Trouble /\ UNCHANGED <<pc, seen, sawPending, verdict, passes, fails>>
PassSpec == PassInit /\ [][PassNext]_allVars

(* The pass is a running process, every call has a deadline, and the clock *)
(* the window is measured with does not stop.                              *)
FairPassSpec ==
  /\ PassSpec
  /\ WF_allVars(PassStep)
  /\ SF_allVars(WindowEnds)
  /\ \A c \in Calls : WF_allVars(DeadlineExpires(c) /\ UNCHANGED passVars)

-----------------------------------------------------------------------------
(* Properties.                                                             *)

StepNames == {"probe", "reconcile", "reuse", "cleanup"}
PassTypeOK ==
  /\ TypeOK
  /\ met \subseteq Troubles
  /\ pc \in { "start", "probe", "reconcile", "polled", "reuse", "reusing",
              "cleanup", "cleaning", "cancelling", "done" }
  /\ seen \in {"nothing", "absent", "pending", "confirmed"}
  /\ sawPending \in BOOLEAN
  /\ verdict \in {"none", "live", "absent"}
  /\ passes \subseteq StepNames /\ fails \subseteq StepNames

(* "definitive: order never landed" is true for good: the request cannot   *)
(* put an order on the book afterwards, unless it was still on its way to  *)
(* the gateway when the five seconds were over, or a restart made the      *)
(* gateway forget a request the exchange had still to carry out.           *)
AbsentIsFinal ==
  verdict = "absent" /\ met \cap {"late", "restart"} = {} => Void("probe")

(* A key whose order was found is refused: the pass never has to report    *)
(* that resubmitting a live client_order_id was accepted, unless the       *)
(* gateway has forgotten the key meanwhile.                                *)
ReuseNeverAccepted == "reuse" \in fails => met \cap {"rebuild", "restart"} # {}

(* "each is cancelled on every exit path", and "a cleanup failure is a     *)
(* FAIL": once the pass has ended and no request is under way, a resting   *)
(* probe order has a cleanup [FAIL].                                       *)
Quiet == \A c \in Calls : stage[c] \notin {"wire", "exchange"}
ProbeAlwaysAccounted ==
  pc = "done" /\ Quiet /\ book[Coid] > 0 => "cleanup" \in fails

(* The same of a pass whose reads were answered, by a gateway that was not *)
(* late, forgot nothing and answers a cancel on its outcome.               *)
ProbeAccounted == met = {} => ProbeAlwaysAccounted

(* The pass ends, whatever its calls meet.                                 *)
PassEnds == <>(pc = "done")
=============================================================================
