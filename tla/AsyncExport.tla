----------------------------- MODULE AsyncExport -----------------------------
(***************************************************************************)
(* ReportExport as both clients run it.  The blocking client runs it all   *)
(* in the caller's thread.  The async client runs each blocking function   *)
(* (start, poll, next_chunk) as one work item of the loop's executor and   *)
(* the rest on the loop, where its task can be cancelled at any await: a   *)
(* work item that waits in the queue is then dropped, one that runs goes   *)
(* on to the end of its function with nobody to take its result.           *)
(***************************************************************************)
EXTENDS ReportExport

VARIABLES
  isAsync, \* an AsyncVoltnirClient's export
  thread,  \* its work item: idle, queued, running, returned
  task,    \* the task that iterates: active, cancelled, ended
  resp,    \* the file's response: none, open, shut (its socket), closed
  owned,   \* a Download holds the response, and the finally clause with it
  closing, \* download.close waits for a worker
  late     \* history: requests sent after the task ended

asyncVars == <<isAsync, thread, task, resp, owned, closing, late>>
allVars == <<vars, asyncVars>>

AsyncInit ==
  /\ Init
  /\ isAsync \in BOOLEAN
  /\ thread = IF isAsync THEN "idle" ELSE "running"
  /\ task = "active" /\ resp = "none"
  /\ owned = FALSE /\ closing = FALSE /\ late = 0

-----------------------------------------------------------------------------
(* The worker threads.                                                     *)

(* Mutant: start and the polls after it are one work item.                 *)
BetweenItemsLong == {"paused", "open", "held", "done"}

(* Where one blocking function has returned and the next is not yet called. *)
BetweenItems == {"answered", "paused", "open", "held", "done"}

(* A step of the function the worker runs.                                 *)
Work ==
  /\ isAsync /\ thread = "running"
  /\ thread' = IF pc' \in BetweenItems THEN "returned" ELSE "running"
  /\ resp' = IF pc' = "open" THEN "open" ELSE resp
  /\ late' = IF task = "ended" /\ pc # "opening" /\ pc' = "opening"
             THEN late + 1 ELSE late
  /\ UNCHANGED <<isAsync, task, owned, closing>>

WorkerStep ==
  /\ \/ Start \/ SocketSilent \/ Poll \/ Pending \/ Ready \/ BuildFailed
     \/ NextChunk \/ FileRead
  /\ Work
WorkerHears == NetworkStep /\ Work

(* A read of a response whose socket was shut comes back with nothing.     *)
ReadWakes == resp \in {"shut", "closed"} /\ ConnectionEnds /\ Work

TakeItem ==
  /\ thread = "queued" /\ thread' = "running"
  /\ UNCHANGED <<vars, isAsync, task, resp, owned, closing, late>>

(* download.close, which waits for the lock a read under way holds.        *)
Close ==
  /\ closing /\ ~(thread = "running" /\ pc = "reading")
  /\ closing' = FALSE /\ resp' = "closed"
  /\ UNCHANGED <<vars, isAsync, thread, task, owned, late>>

-----------------------------------------------------------------------------
(* aexport, on the loop.                                                   *)

(* The generator is resumed with what its work item returned, or for the   *)
(* first time, and puts the next one on the queue.                         *)
Dispatch ==
  /\ isAsync /\ task = "active"
  /\ \/ thread = "idle" /\ pc \in {"start", "held"}
     \/ thread = "returned" /\ pc \in {"answered", "open"}
  /\ thread' = "queued" /\ owned' = (owned \/ pc = "open")
  /\ UNCHANGED <<vars, isAsync, task, resp, closing, late>>

SleepEnds ==
  /\ isAsync /\ task = "active" /\ Wake
  /\ thread' = "queued"
  /\ UNCHANGED <<isAsync, task, resp, owned, closing, late>>

Yield ==
  /\ isAsync /\ task = "active" /\ thread = "returned" /\ pc = "held"
  /\ thread' = "idle"
  /\ UNCHANGED <<vars, isAsync, task, resp, owned, closing, late>>

(* Mutant: the finally clause closes in a worker and shuts no socket.      *)
ReleaseNoAbort ==
  /\ task' = "ended"
  /\ closing' = owned /\ resp' = resp

(* The generator ends: its finally clause, once a Download was made, shuts *)
(* the socket and leaves the close to a worker.                            *)
Release ==
  /\ task' = "ended"
  /\ closing' = owned
  /\ resp' = IF owned THEN "shut" ELSE resp

Finish ==
  /\ isAsync /\ task = "active" /\ thread = "returned" /\ pc = "done"
  /\ Release
  /\ UNCHANGED <<vars, isAsync, thread, owned, late>>

ConsumerBreaks ==
  /\ isAsync /\ task = "active" /\ thread = "idle" /\ BreakOut
  /\ Release
  /\ UNCHANGED <<isAsync, thread, owned, late>>

(* The task is cancelled at an await: CancelledError comes with its next   *)
(* step, whatever its work item returns until then.                        *)
Cancel ==
  /\ isAsync /\ task = "active"
  /\ thread # "idle"
  /\ task' = "cancelled"
  /\ thread' = IF thread = "queued" THEN "idle" ELSE thread
  /\ UNCHANGED <<vars, isAsync, resp, owned, closing, late>>

Unwind ==
  /\ task = "cancelled"
  /\ Release
  /\ UNCHANGED <<vars, isAsync, thread, owned, late>>

-----------------------------------------------------------------------------
(* Around it (external).                                                   *)

(* The interpreter collects a response no Download ever held.              *)
Collect ==
  /\ task = "ended" /\ ~owned /\ resp = "open" /\ thread = "returned"
  /\ resp' = "closed"
  /\ UNCHANGED <<vars, isAsync, thread, task, owned, closing, late>>

(* The work item, or the task, waits for its turn.  (A pause is measured   *)
(* where its poll returns, so nothing is counted between the two.)         *)
WaitTick ==
  /\ isAsync /\ thread \in {"queued", "returned"} /\ task = "active"
  /\ pc # "paused"
  /\ remaining' = Passed
  /\ UNCHANGED <<timeout, pc, requestVars, delay, sleep, received, outcome,
                 gatewayVars, asyncVars>>

AroundStep == (GatewayStep \/ Tick) /\ UNCHANGED asyncVars

BlockingStep == ~isAsync /\ ExportStep /\ UNCHANGED asyncVars
BlockingHears == ~isAsync /\ NetworkStep /\ UNCHANGED asyncVars

AsyncNext ==
  \/ BlockingStep \/ BlockingHears
  \/ WorkerStep \/ WorkerHears \/ ReadWakes \/ TakeItem \/ Close
  \/ Dispatch \/ SleepEnds \/ Yield \/ Finish \/ ConsumerBreaks
  \/ Cancel \/ Unwind
  \/ Collect \/ WaitTick \/ AroundStep

AsyncSpec == AsyncInit /\ [][AsyncNext]_allVars

LoopStep == Dispatch \/ SleepEnds \/ Yield \/ Finish \/ ConsumerBreaks \/ Unwind

(* The threads and the loop run, and the executor has a worker to spare.   *)
(* Neither the network nor the clock owes anything.                        *)
FairAsyncSpec ==
  /\ AsyncSpec
  /\ WF_allVars(BlockingStep)
  /\ WF_allVars(WorkerStep \/ ReadWakes) /\ WF_allVars(TakeItem)
  /\ WF_allVars(Close) /\ WF_allVars(LoopStep)

-----------------------------------------------------------------------------
(* Properties.                                                             *)

AsyncTypeOK ==
  /\ ExportTypeOK
  /\ thread \in {"idle", "queued", "running", "returned"}
  /\ task \in {"active", "cancelled", "ended"}
  /\ resp \in {"none", "open", "shut", "closed"}
  /\ owned => resp # "none"
  /\ ~isAsync => thread = "running" /\ task = "active"

(* Once its task has ended, an export sends one more request at most: the  *)
(* work item under way goes on, and no other is started.                   *)
OneLateRequest == late <= 1

(* A cancelled, abandoned or failed async export lets go of the download:  *)
(* the task ends at once and the response is closed, though the gateway be *)
(* silent and no socket timeout ever pass.  A response that a poll brings  *)
(* after the cancel has no Download and is left to the interpreter.        *)
CancelReleases ==
  task # "active" ~> task = "ended" /\ (owned => resp = "closed")

(* With a clock that runs, an export ends if it has a timeout, or if the   *)
(* gateway's builds end: a silent connection never holds it for ever.      *)
Over == IF isAsync THEN task = "ended" ELSE pc = "done"
ExportEnds ==
  WF_allVars(AroundStep /\ Tick) =>
    (Timed \/ []<>(build # "building") => <>Over)
=============================================================================
