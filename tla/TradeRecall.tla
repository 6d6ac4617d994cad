----------------------------- MODULE TradeRecall -----------------------------
(***************************************************************************)
(* recall_trade and recall_order_trades, called by the reader of a         *)
(* watch_trades stream: the gateway answers a recall of one trade with the *)
(* status of its one result, so a recall that did not go through arrives   *)
(* as a failure, and _recall.py finds the result in that failure's         *)
(* trailer.  The gateway and the exchange are external.                    *)
(***************************************************************************)
EXTENDS Streams, OrderErrors

CONSTANTS
  Recalls, \* calls of recall_trade or recall_order_trades
  NoRecall \* no recall of the trade awaits the exchange

ASSUME NoRecallAssumption == NoRecall \notin Recalls

VARIABLES
  rcall,    \* client side of the call: idle, open, done
  rreq,     \* the method, the trade, the revision_no given or 0
  rstage,   \* where its request is
  rreply,   \* the gateway's answer, on its way to the client
  rtold,    \* what the method gave its caller
  granted,  \* history: the exchange took the recall up
  awaiting, \* gateway: the recall of the trade that awaits the exchange
  moved,    \* gateway: the trade is in a recall state
  recalled  \* exchange: a recall of the trade is registered

recallVars ==
  <<rcall, rreq, rstage, rreply, rtold, granted, awaiting, moved, recalled>>

Outcomes == { "requested", "submitted", "refused", "unknown", "not_recallable",
              "not_sent" }
NoAnswer == [ok |-> FALSE, status |-> Failure("UNKNOWN"), result |-> "nothing"]
NotTold == [kind |-> "none"]
Returned(o) == [kind |-> "returned", outcome |-> o]
Raised(status) ==
  [kind |-> "raised", cls |-> ErrorOf("RecallTrade", status, FALSE).cls]

RecallInit ==
  /\ StreamInit
  /\ rcall = [c \in Recalls |-> "idle"]
  /\ rreq = [c \in Recalls |-> [method |-> "recall_trade", trade |-> Watched, rev |-> 0]]
  /\ rstage = [c \in Recalls |-> "none"]
  /\ rreply = [c \in Recalls |-> NoAnswer]
  /\ rtold = [c \in Recalls |-> NotTold]
  /\ granted = [c \in Recalls |-> FALSE]
  /\ awaiting = [t \in Rows |-> NoRecall]
  /\ moved = [t \in Rows |-> FALSE]
  /\ recalled = [t \in Rows |-> FALSE]

TradeOf(c) == rreq[c].trade

-----------------------------------------------------------------------------
(* The client: _recall.py.                                                 *)

(* A trade of the view is recalled, at the revision it shows or at any; or *)
(* the order it is the one trade of.                                       *)
Call(c, t) ==
  /\ kind = "view" /\ rcall[c] = "idle" /\ view[t] > 0
  /\ \E m \in {"recall_trade", "recall_order_trades"}, n \in {0, view[t]} :
       /\ m = "recall_order_trades" => n = 0
       /\ rreq' = [rreq EXCEPT ![c] = [method |-> m, trade |-> t, rev |-> n]]
  /\ rcall' = [rcall EXCEPT ![c] = "open"]
  /\ rstage' = [rstage EXCEPT ![c] = "wire"]
  /\ UNCHANGED <<streamVars, rreply, rtold, granted, awaiting, moved, recalled>>

(* Mutant: a failure that carries no result is read as a recall not sent.  *)
ReturningResultAlways(r) ==
  IF r.ok \/ r.result # "none" THEN Returned(r.result) ELSE Returned("not_sent")

(* returning_result: the failure's result if it carries one, or the error. *)
ReturningResult(r) ==
  IF r.ok \/ r.result # "none" THEN Returned(r.result) ELSE Raised(r.status)

Conclude(c, o) ==
  /\ rcall' = [rcall EXCEPT ![c] = "done"]
  /\ rtold' = [rtold EXCEPT ![c] = o]
  /\ rreply' = [rreply EXCEPT ![c] = NoAnswer]
  /\ UNCHANGED <<streamVars, rreq, rstage, granted, awaiting, moved, recalled>>

Deliver(c) ==
  /\ rcall[c] = "open" /\ rreply[c] # NoAnswer
  /\ Conclude(c, ReturningResult(rreply[c]))

(* The client's own deadline, or its connection: no trailer, no result.    *)
CallFails(c) ==
  /\ rcall[c] = "open"
  /\ \E code \in {"DEADLINE_EXCEEDED", "UNAVAILABLE"} :
       Conclude(c, ReturningResult(
         [ok |-> FALSE, status |-> Failure(code), result |-> "none"]))

-----------------------------------------------------------------------------
(* The gateway (external).                                                 *)

StatusOfOutcome(o) ==
  CASE o \in {"refused", "not_recallable"} -> Failure("FAILED_PRECONDITION")
    [] o = "unknown"  -> Failure("DEADLINE_EXCEEDED")
    [] o = "not_sent" -> Marked("UNAVAILABLE", "NOT_PROCESSED")
    [] OTHER          -> Failure("UNKNOWN")

(* A recall of one trade ends with its outcome's status, a recall of an    *)
(* order with OK; both carry the result, if the trailer comes through.     *)
AnswersWith(c, o) ==
  IF rreq[c].method = "recall_order_trades" \/ o \in {"requested", "submitted"}
  THEN {[ok |-> TRUE, status |-> StatusOfOutcome(o), result |-> o]}
  ELSE {[ok |-> FALSE, status |-> StatusOfOutcome(o), result |-> x] : x \in {o, "none"}}

Unanswered(c) == rcall[c] = "open" /\ rreply[c] = NoAnswer
Answer(c, o) ==
  IF Unanswered(c)
  THEN \E a \in AnswersWith(c, o) : rreply' = [rreply EXCEPT ![c] = a]
  ELSE UNCHANGED rreply
Over(c) == rstage' = [rstage EXCEPT ![c] = "over"]

LoseRecall(c) ==
  /\ rstage[c] = "wire" /\ Over(c)
  /\ UNCHANGED <<streamVars, rcall, rreq, rreply, rtold, granted, awaiting, moved, recalled>>

(* The whole request is refused: the caller may not, or the revision it    *)
(* names is not the gateway's (TRADE_CHANGED).  There is no result.        *)
RefuseRequest(c) ==
  /\ rstage[c] = "wire" /\ Over(c)
  /\ LET changed == rreq[c].rev # 0 /\ table[TradeOf(c)] > rreq[c].rev
         codes == {"PERMISSION_DENIED", "NOT_FOUND"} \cup (IF changed THEN {"ABORTED"} ELSE {})
     IN IF Unanswered(c)
        THEN \E code \in codes :
               rreply' = [rreply EXCEPT ![c] =
                 [ok |-> FALSE, status |-> Failure(code), result |-> "none"]]
        ELSE UNCHANGED rreply
  /\ UNCHANGED <<streamVars, rcall, rreq, rtold, granted, awaiting, moved, recalled>>

Recallable(c) ==
  LET t == TradeOf(c) IN
  /\ awaiting[t] = NoRecall /\ ~moved[t]
  /\ rreq[c].rev = 0 \/ table[t] = rreq[c].rev

NotRecallable(c) ==
  /\ rstage[c] = "wire"
  /\ awaiting[TradeOf(c)] # NoRecall \/ moved[TradeOf(c)]
  /\ Over(c) /\ Answer(c, "not_recallable")
  /\ UNCHANGED <<streamVars, rcall, rreq, rtold, granted, awaiting, moved, recalled>>

SendRecall(c) ==
  /\ rstage[c] = "wire" /\ Recallable(c)
  /\ rstage' = [rstage EXCEPT ![c] = "exchange"]
  /\ awaiting' = [awaiting EXCEPT ![TradeOf(c)] = c]
  /\ UNCHANGED <<streamVars, rcall, rreq, rreply, rtold, granted, moved, recalled>>

(* Mutant: no acknowledgement in time is taken for a recall not sent.      *)
GiveUpNotSent(c) ==
  /\ rstage[c] \in {"exchange", "registered", "refused"} /\ Unanswered(c)
  /\ Answer(c, "not_sent")
  /\ UNCHANGED <<streamVars, rcall, rreq, rstage, rtold, granted, awaiting, moved, recalled>>

(* No acknowledgement in time; or one, and the trade does not move.        *)
GiveUp(c) ==
  /\ rstage[c] \in {"exchange", "registered", "refused"} /\ Unanswered(c)
  /\ \/ Answer(c, "unknown")
     \/ rstage[c] # "exchange" /\ Answer(c, "submitted")
  /\ UNCHANGED <<streamVars, rcall, rreq, rstage, rtold, granted, awaiting, moved, recalled>>

Unblock(c) ==
  awaiting' = [awaiting EXCEPT ![TradeOf(c)] = IF @ = c THEN NoRecall ELSE @]

(* The broker hands the request back.                                      *)
BrokerReturnsRecall(c) ==
  /\ rstage[c] = "exchange"
  /\ \A o \in {"submitted"} : rtold[c] # Returned(o) /\ rreply[c].result # o
  /\ Over(c) /\ Answer(c, "not_sent") /\ Unblock(c)
  /\ UNCHANGED <<streamVars, rcall, rreq, rtold, granted, moved, recalled>>

HearRefusedRecall(c) ==
  /\ rstage[c] = "refused"
  /\ Over(c) /\ Answer(c, "refused") /\ Unblock(c)
  /\ UNCHANGED <<streamVars, rcall, rreq, rtold, granted, moved, recalled>>

(* The trade report arrives: the trade has a new revision, in a recall     *)
(* state, and the trade stream shows it.                                   *)
HearMoved(c) ==
  LET t == TradeOf(c) IN
  /\ rstage[c] = "registered"
  /\ Over(c) /\ Answer(c, "requested") /\ Unblock(c)
  /\ moved' = [moved EXCEPT ![t] = TRUE]
  /\ IF table[t] < MaxRev
     THEN /\ table' = [table EXCEPT ![t] = @ + 1]
          /\ Emit(<<Upsert(t, table[t] + 1)>>)
     ELSE UNCHANGED <<table, queue, behind, gap, page>>
  /\ UNCHANGED <<kind, options, sub, view, upsets, rcall, rreq, rtold, granted, recalled>>

(* Sixty seconds after a recall was sent another may be.                   *)
BlockLapses(t) ==
  /\ awaiting[t] # NoRecall /\ ~Unanswered(awaiting[t])
  /\ awaiting' = [awaiting EXCEPT ![t] = NoRecall]
  /\ UNCHANGED <<streamVars, rcall, rreq, rstage, rreply, rtold, granted, moved, recalled>>

-----------------------------------------------------------------------------
(* The exchange (external): it registers one recall of a trade.            *)

RegisterRecall(c) ==
  /\ rstage[c] = "exchange" /\ ~recalled[TradeOf(c)]
  /\ rstage' = [rstage EXCEPT ![c] = "registered"]
  /\ granted' = [granted EXCEPT ![c] = TRUE]
  /\ recalled' = [recalled EXCEPT ![TradeOf(c)] = TRUE]
  /\ UNCHANGED <<streamVars, rcall, rreq, rreply, rtold, awaiting, moved>>

RefuseRecall(c) ==
  /\ rstage[c] = "exchange"
  /\ rstage' = [rstage EXCEPT ![c] = "refused"]
  /\ UNCHANGED <<streamVars, rcall, rreq, rreply, rtold, granted, awaiting, moved, recalled>>

-----------------------------------------------------------------------------
RecallStep(c) ==
  \/ \E t \in Rows : Call(c, t)
  \/ Deliver(c) \/ CallFails(c)
  \/ LoseRecall(c) \/ RefuseRequest(c) \/ NotRecallable(c) \/ SendRecall(c)
  \/ GiveUp(c) \/ BrokerReturnsRecall(c) \/ HearRefusedRecall(c) \/ HearMoved(c)
  \/ RegisterRecall(c) \/ RefuseRecall(c)

Next ==
  \/ StreamNext /\ UNCHANGED recallVars
  \/ \E c \in Recalls : RecallStep(c)
  \/ \E t \in Rows : BlockLapses(t)

Spec == RecallInit /\ [][Next]_<<streamVars, recallVars>>
FairSpec == Spec /\ StreamFairness

-----------------------------------------------------------------------------
(* Properties.                                                             *)

RecallTypeOK ==
  /\ StreamTypeOK
  /\ rcall \in [Recalls -> {"idle", "open", "done"}]
  /\ rstage \in [Recalls -> {"none", "wire", "exchange", "registered", "refused", "over"}]
  /\ awaiting \in [Rows -> Recalls \cup {NoRecall}]
  /\ \A c \in Recalls : rcall[c] = "done" <=> rtold[c] # NotTold
  /\ \A t \in Rows : moved[t] => recalled[t]

(* The recall had no effect at the exchange and never will.                *)
NoEffect(c) == ~granted[c] /\ rstage[c] \in {"refused", "over"}

(* A result or an error by which the trade stands unasked.                 *)
Untouched(o) ==
  \/ o \in {Returned("refused"), Returned("not_recallable"), Returned("not_sent")}
  \/ o.kind = "raised" /\ o.cls \in
       {"Aborted", "FailedPrecondition", "NotFound", "PermissionDenied"}

(* A result or an error that says the trade stands unasked is true, with   *)
(* or without its trailer and whatever is still on its way: such a recall  *)
(* never reaches the trade.  "requested" means the exchange has it.        *)
RecallHonest ==
  \A c \in Recalls :
    /\ Untouched(rtold[c]) => NoEffect(c)
    /\ rtold[c] = Returned("requested") => granted[c]

(* What an observer of the exchange would say of each recall and of what   *)
(* its caller was told, and that it is what OutcomePromise promises: one   *)
(* fate, told once and never the opposite.                                 *)
FateOf(c) == CASE granted[c] -> "applied" [] NoEffect(c) -> "void" [] OTHER -> "open"
WordFor(o) ==
  CASE o = NotTold               -> "nothing"
    [] o = Returned("requested") -> "applied"
    [] Untouched(o)              -> "rejected"
    [] OTHER                     -> "unknown"

Promise == INSTANCE OutcomePromise
  WITH Calls <- Recalls,
       fate <- [c \in Recalls |-> FateOf(c)],
       told <- [c \in Recalls |-> WordFor(rtold[c])]
RecallKeepsPromise == Promise!Spec
=============================================================================
