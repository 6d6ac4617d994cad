------------------------- MODULE AsyncExport_proofs -------------------------
(***************************************************************************)
(* Proofs about ReportExport and AsyncExport, for every timeout, every     *)
(* interval and every file size: an export is whole or an error, it keeps  *)
(* the caller's timeout, and a cancelled one sends one request at most.    *)
(***************************************************************************)
EXTENDS AsyncExport, TLAPS

-----------------------------------------------------------------------------
(* The inductive invariant of the export.                                  *)

PcInv ==
  /\ pc \in { "start", "opening", "token", "answered", "paused", "open",
              "reading", "held", "done" }
  /\ outcome \in Errors \cup {"none", "complete", "abandoned"}
  /\ request \in {"post", "get"}
  /\ build \in {"none", "building", "ready", "failed", "expired"}
  /\ pc = "done" <=> outcome # "none"
CountInv ==
  /\ timeout \in Timeouts /\ size \in Nat /\ received \in 0 .. size
  /\ quiet \in Nat /\ limit \in 0 .. RequestTimeout /\ waits \in 0 .. HeadWaits
  /\ delay \in FirstPoll .. MaxPoll /\ sleep \in 0 .. MaxPoll
  /\ Timed => remaining \in Int

(* What is left of the timeout covers the pause under way, or what the     *)
(* socket in use may still take: in a body it is all of it, in the head of *)
(* an answer what the waits before this one took has come off.             *)
OnTime ==
  Timed =>
    /\ pc = "paused" => remaining >= sleep
    /\ pc \in {"token", "reading"} => quiet <= limit /\ remaining >= limit - quiet
    /\ pc = "opening" =>
         /\ waits >= 1 /\ quiet <= limit
         /\ remaining >= limit - quiet - (HeadWaits - waits) * RequestTimeout

ExportInv == PcInv /\ CountInv /\ OnTime /\ WholeFileOnly

(* And of the worker and the task around it.                               *)
RolesInv ==
  /\ thread \in {"idle", "queued", "running", "returned"}
  /\ task \in {"active", "cancelled", "ended"}
  /\ resp \in {"none", "open", "shut", "closed"}
  /\ ~isAsync => thread = "running" /\ task = "active"

(* Between two work items the export waits for nothing.                    *)
ItemsInv ==
  /\ thread # "running" => pc \in {"start"} \cup BetweenItems
  /\ thread = "queued" => task = "active"
HeldInv ==
  /\ owned => resp # "none"
  /\ isAsync /\ pc = "open" => resp # "none"

(* A request of an ended task was the last: its worker is past the points  *)
(* a request is sent from, and is given no other item.                     *)
LateInv ==
  /\ late \in {0, 1}
  /\ late = 1 => /\ task = "ended"
                 /\ thread = "running" => pc \notin {"start", "answered"}

AsyncInv == ExportInv /\ RolesInv /\ ItemsInv /\ HeldInv /\ LateInv

-----------------------------------------------------------------------------
(* The kinds of step an export takes.                                      *)

USE TimeoutsAssumption, TicksAssumption

Fixed == UNCHANGED <<timeout, size, stated>>

Ends ==
  /\ pc' = "done" /\ outcome' \in Errors \cup {"complete", "abandoned"}
  /\ outcome' = "complete" /\ stated => received = size
  /\ waits' \in {waits} \cup (1 .. HeadWaits) /\ build' \in {build, "building"}
  /\ Fixed /\ UNCHANGED <<remaining, limit, quiet, request, delay, sleep, received>>
Opens ==
  /\ pc \in {"start", "answered"} /\ pc' = "opening" /\ ~Expired
  /\ limit' = SocketTimeout /\ quiet' = 0 /\ waits' \in 1 .. HeadWaits
  /\ request' \in {"post", "get"}
  /\ Fixed /\ UNCHANGED <<remaining, delay, sleep, received, outcome, build>>
Reads ==
  /\ pc \in {"opening", "token", "open", "held"} /\ pc' \in {"token", "reading"}
  /\ ~Expired /\ limit' = SocketTimeout /\ quiet' = 0
  /\ \/ waits' \in {waits} \cup (1 .. HeadWaits)
     \/ waits > 1 /\ waits' = waits - 1
  /\ build' \in {build, "building"}
  /\ Fixed /\ UNCHANGED <<remaining, request, delay, sleep, received, outcome>>
GoesOn ==
  /\ pc \in {"token", "opening", "paused"} /\ pc' \in {"answered", "open"}
  /\ Fixed /\ UNCHANGED <<remaining, limit, quiet, waits, request, delay, sleep,
                          received, outcome, build>>
Pauses ==
  /\ pc = "opening" /\ pc' = "paused" /\ ~Expired
  /\ sleep' = IF Timed THEN Lesser(delay, remaining) ELSE delay
  /\ delay' = NextDelay
  /\ Fixed /\ UNCHANGED <<remaining, limit, quiet, waits, request, received, outcome,
                          build>>
Builds ==
  /\ build' \in {"none", "building", "ready", "failed", "expired"}
  /\ Fixed /\ UNCHANGED <<pc, remaining, limit, quiet, waits, request, delay, sleep,
                          received, outcome>>

(* One of the two outcomes of a read.                                      *)
LEMMA ReadIs ==
  ASSUME NEW body \in {"token", "reading"}, Read(body)
  PROVE  \/ pc' = "done" /\ outcome' = "DeadlineExceeded" /\ UNCHANGED <<limit, quiet>>
         \/ /\ ~Expired /\ pc' = body /\ UNCHANGED outcome
            /\ limit' = SocketTimeout /\ quiet' = 0
  BY DEF Read, End, Stay

(* A step of the exporter's own is of one of these kinds.                  *)
LEMMA ExportKinds ==
  ASSUME PcInv, CountInv, ExportStep
  PROVE  Ends \/ Opens \/ Reads \/ GoesOn \/ Pauses
<1> USE DEF Fixed, requestVars, gatewayVars
<1>1. CASE Start
  BY <1>1 DEF Start, Open, End, Stay, Ends, Opens, Errors, PcInv
<1>2. CASE Poll
  BY <1>2 DEF Poll, Open, End, Stay, Ends, Opens, Errors, PcInv
<1>3. CASE SocketSilent
  BY <1>3 DEF SocketSilent, End, Ends, Errors
<1>4. CASE Pending
  BY <1>4 DEF Pending, End, Stay, Ends, Pauses, Errors
<1>5. CASE Wake
  BY <1>5 DEF Wake, GoesOn
<1>6. CASE Ready
  BY <1>6 DEF Ready, Stay, GoesOn
<1>7. CASE BuildFailed
  BY <1>7 DEF BuildFailed, End, Ends, Errors
<1>8. CASE NextChunk
  BY <1>8, ReadIs DEF NextChunk, Ends, Reads, Errors
<1>9. CASE BreakOut
  BY <1>9 DEF BreakOut, End, Ends
<1>10. CASE FileRead
  BY <1>10 DEF FileRead, AllReceived, End, Ends
<1>11. QED
  BY <1>1, <1>2, <1>3, <1>4, <1>5, <1>6, <1>7, <1>8, <1>9, <1>10 DEF ExportStep

(* So is what the network brings, but for a piece of a head or of the file. *)
LEMMA NetworkKinds ==
  ASSUME PcInv, CountInv, NetworkStep
  PROVE  Ends \/ Reads \/ GoesOn \/ HeadArrives \/ ChunkArrives
<1> USE DEF Fixed, requestVars, gatewayVars
<1>1. CASE Accepted
  <2>1. CASE others
    BY <1>1, <2>1 DEF Accepted, End, Ends, Errors
  <2>2. CASE ~others
    BY <1>1, <2>2, ReadIs DEF Accepted, Ends, Reads, Errors
  <2>3. QED
    BY <2>1, <2>2
<1>2. CASE Refused
  BY <1>2 DEF Refused, End, Ends, Errors
<1>3. CASE TokenPiece
  <2>1. waits' \in 1 .. HeadWaits
    BY <1>3 DEF TokenPiece, CountInv
  <2>2. QED
    BY <1>3, <2>1, ReadIs DEF TokenPiece, Ends, Reads, Errors
<1>4. CASE TokenEnds
  BY <1>4 DEF TokenEnds, End, Stay, Ends, GoesOn, Errors
<1>5. CASE ConnectionFails
  BY <1>5 DEF ConnectionFails, End, Ends, Errors
<1>6. CASE ConnectionEnds
  BY <1>6 DEF ConnectionEnds, End, Ends, Errors
<1>7. QED
  BY <1>1, <1>2, <1>3, <1>4, <1>5, <1>6 DEF NetworkStep

(* And what the gateway does by itself.                                    *)
LEMMA GatewayKinds ==
  ASSUME PcInv, GatewayStep
  PROVE  Builds
  BY DEF GatewayStep, GatewayBuilds, TokenLost, OthersChange, Builds, Fixed,
         requestVars, PcInv

(* A step of any of them.                                                  *)
Kind == \/ Ends \/ Opens \/ Reads \/ GoesOn \/ Pauses \/ Builds
        \/ HeadArrives \/ ChunkArrives \/ Tick

-----------------------------------------------------------------------------
(* What each kind leaves true.                                             *)

(* A socket's timeout is a request's, or what is left of the caller's.     *)
LEMMA SocketTimeoutIs ==
  ASSUME CountInv, ~Expired
  PROVE  /\ SocketTimeout \in 0 .. RequestTimeout
         /\ Timed => remaining > 0 /\ SocketTimeout <= remaining
<1>1. CASE Timed
  <2>1. remaining \in Int /\ remaining > 0
    BY <1>1 DEF CountInv, Expired
  <2>2. QED
    BY <1>1, <2>1 DEF SocketTimeout, Lesser
<1>2. CASE ~Timed
  BY <1>2 DEF SocketTimeout
<1>3. QED
  BY <1>1, <1>2

(* Where the export is, and how it ended.                                  *)
LEMMA PcKept ==
  ASSUME PcInv, Kind
  PROVE  PcInv'
<1>1. CASE Ends
  BY <1>1 DEF PcInv, Ends, Errors
<1>2. CASE Opens
  BY <1>2 DEF PcInv, Opens
<1>3. CASE Reads
  BY <1>3 DEF PcInv, Reads
<1>4. CASE GoesOn
  BY <1>4 DEF PcInv, GoesOn
<1>5. CASE Pauses
  BY <1>5 DEF PcInv, Pauses
<1>6. CASE Builds
  BY <1>6 DEF PcInv, Builds
<1>7. CASE HeadArrives
  BY <1>7 DEF PcInv, HeadArrives, gatewayVars
<1>8. CASE ChunkArrives
  BY <1>8 DEF PcInv, ChunkArrives, gatewayVars
<1>9. CASE Tick
  BY <1>9 DEF PcInv, Tick, gatewayVars
<1>10. QED
  BY <1>1, <1>2, <1>3, <1>4, <1>5, <1>6, <1>7, <1>8, <1>9 DEF Kind

(* The counters keep their bounds.                                         *)
LEMMA CountKept ==
  ASSUME CountInv, Kind
  PROVE  CountInv'
<1> USE DEF Timed
<1>1. CASE Ends
  BY <1>1 DEF CountInv, Ends, Fixed
<1>2. CASE Opens
  BY <1>2, SocketTimeoutIs DEF CountInv, Opens, Fixed
<1>3. CASE Reads
  BY <1>3, SocketTimeoutIs DEF CountInv, Reads, Fixed
<1>4. CASE GoesOn
  BY <1>4 DEF CountInv, GoesOn, Fixed
<1>5. CASE Pauses
  <2>1. delay' \in FirstPoll .. MaxPoll
    BY <1>5 DEF CountInv, Pauses, NextDelay, Lesser
  <2>2. sleep' \in 0 .. MaxPoll
    BY <1>5 DEF CountInv, Pauses, Expired, Lesser
  <2>3. QED
    BY <1>5, <2>1, <2>2 DEF CountInv, Pauses, Fixed
<1>6. CASE Builds
  BY <1>6 DEF CountInv, Builds, Fixed
<1>7. CASE HeadArrives
  BY <1>7 DEF CountInv, HeadArrives, gatewayVars
<1>8. CASE ChunkArrives
  BY <1>8 DEF CountInv, ChunkArrives, gatewayVars
<1>9. CASE Tick
  <2>1. Timed' => remaining' \in Int
    BY <1>9 DEF CountInv, Tick, Passed
  <2>2. quiet' \in Nat /\ sleep' \in 0 .. MaxPoll
    BY <1>9 DEF CountInv, Tick
  <2>3. QED
    BY <1>9, <2>1, <2>2 DEF CountInv, Tick, gatewayVars
<1>10. QED
  BY <1>1, <1>2, <1>3, <1>4, <1>5, <1>6, <1>7, <1>8, <1>9 DEF Kind

(* The waits before this one took at most their number times the longest.  *)
LEMMA WaitsBefore ==
  ASSUME NEW w \in 1 .. HeadWaits
  PROVE  /\ (HeadWaits - w) * RequestTimeout \in Nat
         /\ (HeadWaits - w) * RequestTimeout <= OverrunBound
         /\ w > 1 => (HeadWaits - (w - 1)) * RequestTimeout
                       = (HeadWaits - w) * RequestTimeout + RequestTimeout
<1>1. \A a \in Nat, b \in Nat : a * b \in Nat
  OBVIOUS
<1>2. HeadWaits - w \in Nat /\ w - 1 \in Nat /\ RequestTimeout \in Nat
  OBVIOUS
<1>3. (HeadWaits - w) * RequestTimeout \in Nat /\ (w - 1) * RequestTimeout \in Nat
  BY <1>1, <1>2
<1>4. OverrunBound = (HeadWaits - w) * RequestTimeout + (w - 1) * RequestTimeout
  BY <1>2 DEF OverrunBound
<1>5. (HeadWaits - (w - 1)) * RequestTimeout
        = (HeadWaits - w) * RequestTimeout + RequestTimeout
  BY <1>2
<1>6. QED
  BY <1>3, <1>4, <1>5

(* And so does what is left of the timeout.                                *)
LEMMA OnTimeKept ==
  ASSUME CountInv, OnTime, Kind
  PROVE  OnTime'
<1> SUFFICES ASSUME Timed'  PROVE
      /\ pc' = "paused" => remaining' >= sleep'
      /\ pc' \in {"token", "reading"} =>
           quiet' <= limit' /\ remaining' >= limit' - quiet'
      /\ pc' = "opening" =>
           /\ waits' >= 1 /\ quiet' <= limit'
           /\ remaining' >= limit' - quiet' - (HeadWaits - waits') * RequestTimeout
  BY DEF OnTime
<1>0. Timed /\ timeout' = timeout
  BY DEF Kind, Ends, Opens, Reads, GoesOn, Pauses, Builds, HeadArrives, ChunkArrives,
         Tick, Fixed, Timed
<1>1. remaining \in Int /\ quiet \in Nat /\ limit \in 0 .. RequestTimeout
      /\ waits \in 0 .. HeadWaits /\ sleep \in Nat
  BY <1>0 DEF CountInv
<1>2. CASE Ends
  BY <1>2 DEF Ends
<1>3. CASE Opens
  <2>1. waits' \in 1 .. HeadWaits /\ limit' = SocketTimeout /\ quiet' = 0
        /\ remaining' = remaining /\ pc' = "opening" /\ ~Expired
    BY <1>3 DEF Opens
  <2> DEFINE before == (HeadWaits - waits') * RequestTimeout
  <2>2. before \in Nat
    BY <2>1, WaitsBefore
  <2>3. SocketTimeout \in 0 .. RequestTimeout /\ SocketTimeout <= remaining
    BY <1>0, <2>1, SocketTimeoutIs
  <2>4. remaining' >= limit' - quiet' - before
    <3> HIDE DEF before
    <3>1. QED
      BY <1>1, <2>1, <2>2, <2>3
  <2>5. QED
    BY <2>1, <2>3, <2>4
<1>4. CASE Reads
  <2>1. limit' = SocketTimeout /\ quiet' = 0 /\ remaining' = remaining
        /\ pc' \in {"token", "reading"} /\ ~Expired
    BY <1>4 DEF Reads
  <2>2. SocketTimeout \in 0 .. RequestTimeout /\ SocketTimeout <= remaining
    BY <1>0, <2>1, SocketTimeoutIs
  <2>3. QED
    BY <1>1, <2>1, <2>2
<1>5. CASE GoesOn
  BY <1>5 DEF GoesOn
<1>6. CASE Pauses
  <2>1. sleep' = Lesser(delay, remaining) /\ remaining' = remaining /\ pc' = "paused"
    BY <1>0, <1>6 DEF Pauses
  <2>2. delay \in Nat
    BY DEF CountInv
  <2>3. QED
    BY <1>1, <2>1, <2>2 DEF Lesser
<1>7. CASE Builds
  BY <1>0, <1>7 DEF Builds, OnTime
<1>8. CASE HeadArrives
  <2>1. /\ pc = "opening" /\ pc' = pc /\ waits > 1 /\ waits' = waits - 1
        /\ quiet' = 0 /\ limit' = limit /\ remaining' = remaining
    BY <1>8 DEF HeadArrives
  <2>2. quiet <= limit
        /\ remaining >= limit - quiet - (HeadWaits - waits) * RequestTimeout
    BY <1>0, <2>1 DEF OnTime
  <2>3. (HeadWaits - waits') * RequestTimeout
          = (HeadWaits - waits) * RequestTimeout + RequestTimeout
    BY <1>1, <2>1, WaitsBefore
  <2>4. (HeadWaits - waits) * RequestTimeout \in Int
    BY <1>1
  <2>5. QED
    BY <1>1, <2>1, <2>2, <2>3, <2>4
<1>9. CASE ChunkArrives
  BY <1>9 DEF ChunkArrives
<1>10. CASE Tick
  <2>1. pc' = pc /\ limit' = limit /\ waits' = waits /\ remaining' >= remaining - 1
        /\ remaining' \in Int
    BY <1>1, <1>10 DEF Tick, Passed
  <2>2. CASE pc = "paused"
    <3>1. sleep' = sleep - 1 /\ remaining >= sleep
      BY <1>0, <1>10, <2>2 DEF Tick, OnTime, OnSocket, AllReceived
    <3>2. QED
      BY <1>1, <2>1, <2>2, <3>1
  <2>3. CASE pc \in {"token", "reading"}
    <3>1. quiet' = quiet + 1 /\ quiet < limit /\ remaining >= limit - quiet
      BY <1>0, <1>10, <2>3 DEF Tick, OnTime, OnSocket
    <3>2. QED
      BY <1>1, <2>1, <2>3, <3>1
  <2>4. CASE pc = "opening"
    <3>1. /\ quiet' = quiet + 1 /\ quiet < limit /\ waits >= 1
          /\ remaining >= limit - quiet - (HeadWaits - waits) * RequestTimeout
      BY <1>0, <1>10, <2>4 DEF Tick, OnTime, OnSocket
    <3>2. (HeadWaits - waits) * RequestTimeout \in Int
      BY <1>1
    <3>3. QED
      BY <1>1, <2>1, <2>4, <3>1, <3>2
  <2>5. QED
    BY <2>1, <2>2, <2>3, <2>4
<1>11. QED
  BY <1>2, <1>3, <1>4, <1>5, <1>6, <1>7, <1>8, <1>9, <1>10 DEF Kind

(* A file that counts as whole stays so.                                   *)
LEMMA WholeKept ==
  ASSUME PcInv, WholeFileOnly, Kind
  PROVE  WholeFileOnly'
<1>1. CASE Ends
  BY <1>1, Zenon DEF WholeFileOnly, Ends, Fixed
<1>2. CASE UNCHANGED <<outcome, stated, received, size>>
  BY <1>2, Zenon DEF WholeFileOnly
<1>3. CASE ChunkArrives
  <2>1. outcome' = "none"
    BY <1>3 DEF ChunkArrives, PcInv
  <2>2. QED
    BY <2>1 DEF WholeFileOnly
<1>4. QED
  BY <1>1, <1>2, <1>3 DEF Kind, Opens, Reads, GoesOn, Pauses, Builds, HeadArrives,
                          Tick, Fixed, gatewayVars

(* No kind of step breaks the export's invariant.                          *)
LEMMA ExportKept ==
  ASSUME ExportInv, Kind
  PROVE  ExportInv'
  BY PcKept, CountKept, OnTimeKept, WholeKept DEF ExportInv

-----------------------------------------------------------------------------
(* The export by itself.                                                   *)

(* The invariant holds to begin with.                                      *)
LEMMA ExportInit == Init => ExportInv
<1> SUFFICES ASSUME Init  PROVE ExportInv
  OBVIOUS
<1>1. PcInv
  BY DEF Init, PcInv, Errors
<1>2. CountInv
  <2>1. Timed => remaining \in Int
    BY DEF Init, Timed
  <2>2. QED
    BY <2>1 DEF Init, CountInv
<1>3. OnTime
  BY DEF Init, OnTime
<1>4. WholeFileOnly
  BY DEF Init, WholeFileOnly
<1>5. QED
  BY <1>1, <1>2, <1>3, <1>4 DEF ExportInv

(* A step that leaves the export alone leaves the invariant alone.         *)
LEMMA ExportStutter ==
  ASSUME ExportInv, UNCHANGED vars
  PROVE  ExportInv'
<1> USE DEF vars, requestVars, gatewayVars
<1>1. PcInv'
  BY DEF ExportInv, PcInv
<1>2. CountInv'
  BY DEF ExportInv, CountInv, Timed
<1>3. OnTime'
  BY DEF ExportInv, OnTime, Timed
<1>4. WholeFileOnly'
  BY Zenon DEF ExportInv, WholeFileOnly
<1>5. QED
  BY <1>1, <1>2, <1>3, <1>4 DEF ExportInv

(* The inductive invariant of an export that runs in the caller's thread   *)
(* and waits for no worker.                                                *)
THEOREM ExportInvariant == Spec => []ExportInv
<1>1. ExportInv /\ [Next]_vars => ExportInv'
  <2>1. ASSUME ExportInv, Next
        PROVE  Kind
    BY <2>1, ExportKinds, NetworkKinds, GatewayKinds DEF Next, Kind, ExportInv
  <2>2. QED
    BY <2>1, ExportKept, ExportStutter
<1>2. QED
  BY <1>1, ExportInit, PTL DEF Spec

-----------------------------------------------------------------------------
(* The export with its worker and its task.                                *)

(* A step of the function a worker runs.                                   *)
Worked ==
  Work /\ ( Ends \/ Opens \/ Reads \/ GoesOn \/ Pauses \/ HeadArrives \/ ChunkArrives )

(* A step of the loop, of an executor or of the interpreter, which the     *)
(* export itself does not notice.                                          *)
Aside ==
  /\ UNCHANGED vars
  /\ TakeItem \/ Close \/ Dispatch \/ Yield \/ Finish \/ Cancel \/ Unwind \/ Collect

(* What a step of the two together does to the export.                     *)
LEMMA AsyncKinds ==
  ASSUME ExportInv, AsyncNext
  PROVE  \/ ~isAsync /\ Kind /\ UNCHANGED asyncVars
         \/ Worked
         \/ Aside
         \/ SleepEnds /\ GoesOn
         \/ ConsumerBreaks /\ Ends
         \/ WaitTick
         \/ (Builds \/ Tick) /\ UNCHANGED asyncVars
<1>0. PcInv /\ CountInv
  BY DEF ExportInv
<1>1. CASE BlockingStep \/ BlockingHears
  BY <1>0, <1>1, ExportKinds, NetworkKinds DEF BlockingStep, BlockingHears, Kind
<1>2. CASE WorkerStep
  BY <1>0, <1>2, ExportKinds DEF WorkerStep, ExportStep, Worked
<1>3. CASE WorkerHears \/ ReadWakes
  BY <1>0, <1>3, NetworkKinds DEF WorkerHears, ReadWakes, NetworkStep, Worked
<1>4. CASE TakeItem \/ Close \/ Dispatch \/ Yield \/ Finish \/ Cancel \/ Unwind \/ Collect
  BY <1>4 DEF TakeItem, Close, Dispatch, Yield, Finish, Cancel, Unwind, Collect, Aside
<1>5. CASE SleepEnds
  BY <1>5 DEF SleepEnds, Wake, GoesOn, Fixed, requestVars, gatewayVars
<1>6. CASE ConsumerBreaks
  BY <1>6 DEF ConsumerBreaks, BreakOut, End, Ends, Fixed, requestVars, gatewayVars
<1>7. CASE AroundStep
  BY <1>0, <1>7, GatewayKinds DEF AroundStep
<1>8. QED
  BY <1>1, <1>2, <1>3, <1>4, <1>5, <1>6, <1>7 DEF AsyncNext

(* A worker or a task that waits its turn costs the export time, but at    *)
(* moments when it waits for nothing else.                                 *)
LEMMA WaitKept ==
  ASSUME ExportInv, ItemsInv, WaitTick
  PROVE  ExportInv'
<1>1. /\ UNCHANGED <<timeout, pc, limit, quiet, waits, request, delay, sleep, received,
                     outcome, build, size, stated>>
      /\ remaining' = Passed /\ thread # "running" /\ pc # "paused"
  BY DEF WaitTick, requestVars, gatewayVars
<1>2. pc \notin {"opening", "token", "reading", "paused"}
  BY <1>1 DEF ItemsInv, BetweenItems
<1>3. PcInv'
  BY <1>1 DEF ExportInv, PcInv
<1>4. CountInv'
  <2>1. Timed' => remaining' \in Int
    BY <1>1 DEF ExportInv, CountInv, Passed, Timed
  <2>2. QED
    BY <1>1, <2>1 DEF ExportInv, CountInv
<1>5. OnTime'
  BY <1>1, <1>2 DEF OnTime
<1>6. WholeFileOnly'
  BY <1>1, Zenon DEF ExportInv, WholeFileOnly
<1>7. QED
  BY <1>3, <1>4, <1>5, <1>6 DEF ExportInv

(* The export's invariant survives every step of the two.                  *)
LEMMA ExportKeptAsync ==
  ASSUME AsyncInv, AsyncNext
  PROVE  ExportInv'
  BY AsyncKinds, ExportKept, ExportStutter, WaitKept
  DEF AsyncInv, Kind, Worked, Aside

(* Thread, task and response are in one of their states.                   *)
LEMMA RolesKept ==
  ASSUME AsyncInv, AsyncNext
  PROVE  RolesInv'
<1> USE DEF RolesInv
<1>0. RolesInv /\ ItemsInv
  BY DEF AsyncInv
<1>1. CASE UNCHANGED asyncVars
  BY <1>0, <1>1, Zenon DEF asyncVars
<1>2. CASE Worked
  BY <1>0, <1>2 DEF Worked, Work
<1>3. CASE TakeItem \/ Close \/ Dispatch \/ Yield \/ Cancel \/ Collect \/ SleepEnds
  <2>1. CASE TakeItem
    BY <1>0, <2>1 DEF TakeItem
  <2>2. CASE Close
    BY <1>0, <2>2 DEF Close
  <2>3. CASE Dispatch
    BY <1>0, <2>3 DEF Dispatch
  <2>4. CASE Yield
    BY <1>0, <2>4 DEF Yield
  <2>5. CASE Cancel
    BY <1>0, <2>5 DEF Cancel
  <2>6. CASE Collect
    BY <1>0, <2>6 DEF Collect
  <2>7. CASE SleepEnds
    BY <1>0, <2>7 DEF SleepEnds
  <2>8. QED
    BY <1>3, <2>1, <2>2, <2>3, <2>4, <2>5, <2>6, <2>7
<1>4. CASE Finish \/ ConsumerBreaks \/ Unwind
  <2>1. UNCHANGED <<isAsync, thread>> /\ task' = "ended" /\ resp' \in {"shut", resp}
    BY <1>4 DEF Finish, ConsumerBreaks, Unwind, Release
  <2>2. isAsync
    BY <1>0, <1>4, Zenon DEF Finish, ConsumerBreaks, Unwind
  <2>3. QED
    BY <1>0, <2>1, <2>2
<1>5. CASE WaitTick
  BY <1>1, <1>5 DEF WaitTick
<1>6. QED
  BY <1>1, <1>2, <1>3, <1>4, <1>5, AsyncKinds DEF AsyncInv, Aside

(* Between two items the export stands where one has returned.             *)
LEMMA ItemsKept ==
  ASSUME AsyncInv, AsyncNext
  PROVE  ItemsInv'
<1> USE DEF ItemsInv
<1>0. RolesInv /\ ItemsInv
  BY DEF AsyncInv
<1>1. CASE ~isAsync /\ UNCHANGED asyncVars
  BY <1>0, <1>1 DEF asyncVars, RolesInv
<1>2. CASE Worked
  BY <1>2 DEF Worked, Work
<1>3. CASE Aside
  <2>1. pc' = pc
    BY <1>3 DEF Aside, vars
  <2>2. CASE TakeItem
    BY <1>0, <2>1, <2>2 DEF TakeItem
  <2>3. CASE Close \/ Collect
    BY <1>0, <2>1, <2>3 DEF Close, Collect
  <2>4. CASE Dispatch
    BY <1>0, <2>1, <2>4 DEF Dispatch, BetweenItems
  <2>5. CASE Yield
    BY <1>0, <2>1, <2>5 DEF Yield
  <2>6. CASE Cancel
    BY <1>0, <2>1, <2>6 DEF Cancel
  <2>7. CASE Finish \/ Unwind
    BY <1>0, <2>1, <2>7 DEF Finish, Unwind
  <2>8. QED
    BY <1>3, <2>2, <2>3, <2>4, <2>5, <2>6, <2>7 DEF Aside
<1>4. CASE SleepEnds
  BY <1>4 DEF SleepEnds, Wake, BetweenItems
<1>5. CASE ConsumerBreaks
  BY <1>5 DEF ConsumerBreaks, BreakOut, End, BetweenItems
<1>6. CASE WaitTick
  BY <1>0, <1>6 DEF WaitTick, asyncVars
<1>7. CASE (Builds \/ Tick) /\ UNCHANGED asyncVars
  BY <1>0, <1>7 DEF Builds, Tick, asyncVars
<1>8. QED
  BY <1>1, <1>2, <1>3, <1>4, <1>5, <1>6, <1>7, AsyncKinds DEF AsyncInv

(* A Download holds a response there is.                                   *)
LEMMA HeldKept ==
  ASSUME AsyncInv, AsyncNext
  PROVE  HeldInv'
<1>0. HeldInv
  BY DEF AsyncInv
<1>1. CASE UNCHANGED asyncVars /\ (~isAsync \/ pc' = pc)
  <2>1. owned' = owned /\ resp' = resp /\ isAsync' = isAsync
    BY <1>1 DEF asyncVars
  <2>2. QED
    BY <1>0, <1>1, <2>1, Zenon DEF HeldInv
<1>2. CASE Worked
  <2>1. owned' = owned /\ resp' = (IF pc' = "open" THEN "open" ELSE resp)
    BY <1>2 DEF Worked, Work
  <2>2. resp' # "none" \/ resp' = resp
    BY <2>1
  <2>3. QED
    BY <1>0, <2>1, <2>2, Zenon DEF HeldInv
<1>3. CASE (Close \/ Collect) /\ Aside
  <2>1. resp' = "closed"
    BY <1>3 DEF Close, Collect
  <2>2. QED
    BY <2>1 DEF HeldInv
<1>4. CASE Dispatch /\ Aside
  <2>1. isAsync /\ resp' = resp /\ pc' = pc
    BY <1>4 DEF Dispatch, Aside, vars
  <2>2. CASE pc = "open"
    BY <1>0, <2>1, <2>2, Zenon DEF HeldInv
  <2>3. CASE pc # "open"
    <3>1. owned' <=> owned
      BY <1>4, <2>3, Zenon DEF Dispatch
    <3>2. QED
      BY <1>0, <2>1, <2>3, <3>1, Zenon DEF HeldInv
  <2>4. QED
    BY <2>2, <2>3
<1>5. CASE (TakeItem \/ Yield \/ Cancel) /\ Aside
  <2>1. owned' = owned /\ resp' = resp /\ isAsync' = isAsync /\ pc' = pc
    BY <1>5 DEF TakeItem, Yield, Cancel, Aside, vars
  <2>2. QED
    BY <1>0, <2>1, Zenon DEF HeldInv
<1>6. CASE (Finish \/ Unwind) /\ Aside
  <2>1. /\ owned' = owned /\ isAsync' = isAsync /\ pc' = pc
        /\ resp' = (IF owned THEN "shut" ELSE resp)
    BY <1>6 DEF Finish, Unwind, Release, Aside, vars
  <2>2. resp' = "shut" \/ resp' = resp
    BY <2>1
  <2>3. QED
    BY <1>0, <2>1, <2>2, Zenon DEF HeldInv
<1>7. CASE ConsumerBreaks
  <2>1. /\ owned' = owned /\ pc' = "done"
        /\ resp' = (IF owned THEN "shut" ELSE resp)
    BY <1>7 DEF ConsumerBreaks, BreakOut, End, Release
  <2>2. resp' = "shut" \/ resp' = resp
    BY <2>1
  <2>3. QED
    BY <1>0, <2>1, <2>2, Zenon DEF HeldInv
<1>8. CASE SleepEnds
  <2>1. owned' = owned /\ resp' = resp /\ pc' = "answered"
    BY <1>8 DEF SleepEnds, Wake
  <2>2. QED
    BY <1>0, <2>1, Zenon DEF HeldInv
<1>9. CASE WaitTick
  BY <1>1, <1>9 DEF WaitTick
<1>10. CASE (Builds \/ Tick) /\ UNCHANGED asyncVars
  BY <1>1, <1>10 DEF Builds, Tick
<1>11. QED
  BY <1>1, <1>2, <1>3, <1>4, <1>5, <1>6, <1>7, <1>8, <1>9, <1>10, AsyncKinds
  DEF AsyncInv, Aside

(* After its task has ended an export sends one request at most.           *)
LEMMA LateKept ==
  ASSUME AsyncInv, AsyncNext
  PROVE  LateInv'
<1>0. LateInv /\ RolesInv /\ ItemsInv /\ PcInv
  BY DEF AsyncInv, ExportInv
<1>1. CASE UNCHANGED asyncVars /\ (~isAsync \/ pc' = pc)
  <2>1. late' = late /\ task' = task /\ thread' = thread
    BY <1>1 DEF asyncVars
  <2>2. CASE ~isAsync
    BY <1>0, <2>1, <2>2 DEF LateInv, RolesInv
  <2>3. CASE pc' = pc
    BY <1>0, <2>1, <2>3 DEF LateInv
  <2>4. QED
    BY <1>1, <2>2, <2>3
<1>2. CASE Worked
  <2>1. /\ thread = "running" /\ task' = task
        /\ thread' = (IF pc' \in BetweenItems THEN "returned" ELSE "running")
        /\ late' = (IF task = "ended" /\ pc # "opening" /\ pc' = "opening"
                    THEN late + 1 ELSE late)
    BY <1>2 DEF Worked, Work
  <2>2. /\ pc' = "opening" /\ pc # "opening" => pc \in {"start", "answered"}
        /\ pc' # "start"
    BY <1>2 DEF Worked, Ends, Opens, Reads, GoesOn, Pauses, HeadArrives, ChunkArrives
  <2>3. thread' = "running" => pc' # "answered"
    BY <2>1 DEF BetweenItems
  <2>4. CASE task = "ended" /\ pc # "opening" /\ pc' = "opening"
    <3>1. late = 0
      BY <1>0, <2>1, <2>2, <2>4 DEF LateInv
    <3>2. QED
      BY <2>1, <2>4, <3>1 DEF LateInv
  <2>5. CASE ~(task = "ended" /\ pc # "opening" /\ pc' = "opening")
    BY <1>0, <2>1, <2>2, <2>3, <2>5 DEF LateInv
  <2>6. QED
    BY <2>4, <2>5
<1>3. CASE task = "active" /\ late' = late
  BY <1>0, <1>3 DEF LateInv
<1>4. CASE Aside
  <2>1. pc' = pc
    BY <1>4 DEF Aside, vars
  <2>2. CASE Dispatch \/ Yield \/ Finish \/ Cancel
    BY <1>3, <2>2 DEF Dispatch, Yield, Finish, Cancel
  <2>3. CASE TakeItem
    BY <1>0, <1>3, <2>3 DEF TakeItem, ItemsInv
  <2>4. CASE Close \/ Collect
    BY <1>0, <2>1, <2>4 DEF Close, Collect, LateInv
  <2>5. CASE Unwind
    BY <1>0, <2>1, <2>5 DEF Unwind, Release, LateInv
  <2>6. QED
    BY <1>4, <2>2, <2>3, <2>4, <2>5 DEF Aside
<1>5. CASE SleepEnds \/ ConsumerBreaks
  BY <1>3, <1>5 DEF SleepEnds, ConsumerBreaks
<1>6. CASE WaitTick
  BY <1>1, <1>6 DEF WaitTick
<1>7. CASE (Builds \/ Tick) /\ UNCHANGED asyncVars
  BY <1>1, <1>7 DEF Builds, Tick
<1>8. QED
  BY <1>1, <1>2, <1>4, <1>5, <1>6, <1>7, AsyncKinds DEF AsyncInv

(* The whole invariant: to begin with and at every step.                   *)
LEMMA AsyncStart == AsyncInit => AsyncInv
<1> SUFFICES ASSUME AsyncInit  PROVE AsyncInv
  OBVIOUS
<1>1. ExportInv /\ pc = "start"
  BY ExportInit DEF AsyncInit, Init
<1>2. RolesInv
  BY DEF AsyncInit, RolesInv
<1>3. ItemsInv
  BY <1>1 DEF AsyncInit, ItemsInv
<1>4. HeldInv
  BY <1>1 DEF AsyncInit, HeldInv
<1>5. LateInv
  BY DEF AsyncInit, LateInv
<1>6. QED
  BY <1>1, <1>2, <1>3, <1>4, <1>5 DEF AsyncInv

(* Every step, of either client, keeps the invariant.                      *)
LEMMA AsyncStep == AsyncInv /\ [AsyncNext]_allVars => AsyncInv'
<1> SUFFICES ASSUME AsyncInv, [AsyncNext]_allVars  PROVE AsyncInv'
  OBVIOUS
<1>1. CASE AsyncNext
  BY <1>1, ExportKeptAsync, RolesKept, ItemsKept, HeldKept, LateKept DEF AsyncInv
<1>2. CASE UNCHANGED allVars
  <2>1. UNCHANGED vars /\ UNCHANGED asyncVars
    BY <1>2 DEF allVars
  <2>2. ExportInv'
    BY <2>1, ExportStutter DEF AsyncInv
  <2>3. UNCHANGED <<pc, isAsync, thread, task, resp, owned, closing, late>>
    BY <2>1 DEF vars, asyncVars
  <2>4. RolesInv' /\ ItemsInv' /\ HeldInv' /\ LateInv'
    BY <2>3, Zenon DEF AsyncInv, RolesInv, ItemsInv, HeldInv, LateInv
  <2>5. QED
    BY <2>2, <2>4 DEF AsyncInv
<1>3. QED
  BY <1>1, <1>2

-----------------------------------------------------------------------------
(* The theorems.                                                           *)

(* The inductive invariant of an export as either client runs it.          *)
THEOREM AsyncInvariant == AsyncSpec => []AsyncInv
  BY AsyncStart, AsyncStep, PTL DEF AsyncSpec

(* Type correctness of both clients' exports: an export is done exactly    *)
(* when it has an outcome, a Download only ever holds a response there is, *)
(* and the blocking client never leaves its caller's thread.               *)
THEOREM AsyncTypes == AsyncSpec => []AsyncTypeOK
<1>1. AsyncInv => AsyncTypeOK
  <2> SUFFICES ASSUME AsyncInv  PROVE AsyncTypeOK
    OBVIOUS
  <2>1. ExportTypeOK
    BY DEF AsyncInv, ExportInv, PcInv, CountInv, ExportTypeOK
  <2>2. QED
    BY <2>1, Zenon DEF AsyncInv, RolesInv, HeldInv, AsyncTypeOK
<1>2. QED
  BY <1>1, AsyncInvariant, PTL

(* Download.next_chunk: an export that ends without an error has yielded   *)
(* as much as the gateway said there was.                                  *)
THEOREM WholeFile == AsyncSpec => []WholeFileOnly
<1>1. AsyncInv => WholeFileOnly
  BY DEF AsyncInv, ExportInv
<1>2. QED
  BY <1>1, AsyncInvariant, PTL

(* Deadline: no pause and no read of a body outlasts the caller's timeout, *)
(* and a request does by no more than its later waits on the socket.       *)
THEOREM TimeoutHolds == AsyncSpec => []TimeoutKept
<1>1. AsyncInv => TimeoutKept
  <2> SUFFICES ASSUME AsyncInv, Timed  PROVE
        /\ pc \in {"token", "paused", "reading"} => remaining >= 0
        /\ Waiting => remaining >= - OverrunBound
    BY DEF TimeoutKept
  <2>1. CountInv /\ OnTime
    BY DEF AsyncInv, ExportInv
  <2>2. remaining \in Int /\ quiet \in Nat /\ limit \in 0 .. RequestTimeout
        /\ waits \in 0 .. HeadWaits /\ sleep \in Nat
    BY <2>1 DEF CountInv
  <2>3. pc \in {"token", "paused", "reading"} => remaining >= 0
    BY <2>1, <2>2 DEF OnTime
  <2>4. OverrunBound >= 0 /\ OverrunBound \in Int
    <3>1. 1 \in 1 .. HeadWaits
      OBVIOUS
    <3>2. (HeadWaits - 1) * RequestTimeout \in Nat
      BY <3>1, WaitsBefore
    <3>3. QED
      BY <3>2 DEF OverrunBound
  <2>5. pc = "opening" => remaining >= - OverrunBound
    <3> SUFFICES ASSUME pc = "opening"  PROVE remaining >= - OverrunBound
      OBVIOUS
    <3> DEFINE before == (HeadWaits - waits) * RequestTimeout
    <3>1. waits >= 1 /\ quiet <= limit /\ remaining >= limit - quiet - before
      BY <2>1 DEF OnTime
    <3>2. before \in Nat /\ before <= OverrunBound
      BY <2>2, <3>1, WaitsBefore
    <3>3. QED
      <4> HIDE DEF before
      <4>1. QED
        BY <2>2, <2>4, <3>1, <3>2
  <2>6. QED
    BY <2>2, <2>3, <2>4, <2>5 DEF Waiting
<1>2. QED
  BY <1>1, AsyncInvariant, PTL

(* aexport: a cancelled or abandoned export sends at most one request      *)
(* more, the one its work item under way had still to send.                *)
THEOREM LateRequestIsOne == AsyncSpec => []OneLateRequest
<1>1. AsyncInv => OneLateRequest
  BY DEF AsyncInv, LateInv, OneLateRequest
<1>2. QED
  BY <1>1, AsyncInvariant, PTL
=============================================================================
