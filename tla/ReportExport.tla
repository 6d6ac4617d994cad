---------------------------- MODULE ReportExport ----------------------------
(***************************************************************************)
(* A report export (_rest_export.py): request it, poll until the gateway   *)
(* has built it, read the file; all of it under the caller's one timeout.  *)
(* Time is counted in ticks, and passes only while the export waits: for   *)
(* a socket, in a pause between polls, or for its consumer.                *)
(*                                                                         *)
(* A request opens a connection and waits on its socket several times: to  *)
(* connect, and for the pieces the head of the answer arrives in.          *)
(***************************************************************************)
EXTENDS Integers

CONSTANTS
  Timeouts,       \* the caller's timeout: ticks, or NoTimeout
  NoTimeout,
  RequestTimeout, \* REQUEST_TIMEOUT_S
  FirstPoll,      \* FIRST_POLL_S
  MaxPoll,        \* MAX_POLL_S
  HeadWaits,      \* bound on the socket waits before a request is answered
  FileSizes,      \* chunks in the file
  MaxPause        \* bound on the ticks a consumer keeps a chunk

ASSUME TimeoutsAssumption == Timeouts \subseteq Nat \cup {NoTimeout}
ASSUME TicksAssumption ==
  /\ RequestTimeout \in Nat \ {0} /\ FirstPoll \in Nat \ {0}
  /\ MaxPoll \in Nat /\ FirstPoll <= MaxPoll
  /\ HeadWaits \in Nat \ {0} /\ MaxPause \in Nat
  /\ FileSizes \subseteq Nat

VARIABLES
  timeout,   \* the caller's timeout
  remaining, \* Deadline.remaining(), negative once it has passed
  pc,        \* start, opening, token, answered, paused, open, reading, held, done
  limit,     \* timeout of the socket in use
  quiet,     \* ticks since something last arrived on it
  waits,     \* socket waits of the request still to come
  request,   \* the request being made: "post" or "get"
  delay,     \* the next wait between polls
  sleep,     \* ticks left of the pause
  received,  \* chunks handed to the consumer
  outcome,   \* how the export ended
  build,     \* gateway: none, building, ready, failed, expired
  others,    \* gateway: another user's report is being built
  size,      \* gateway: chunks of the file, and what it says of them
  stated     \*   in Content-Length

requestVars == <<limit, quiet, waits, request>>
gatewayVars == <<build, others, size, stated>>
vars == <<timeout, remaining, pc, requestVars, delay, sleep, received, outcome,
          gatewayVars>>

Errors == { "DeadlineExceeded", "Unavailable", "ExportBusy", "NotFound",
            "Internal", "ResourceExhausted", "VoltnirError" }

Init ==
  /\ timeout \in Timeouts /\ remaining = timeout
  /\ pc = "start" /\ outcome = "none"
  /\ limit = 0 /\ quiet = 0 /\ waits = 0 /\ request = "post"
  /\ delay = FirstPoll /\ sleep = 0 /\ received = 0
  /\ build = "none" /\ others \in BOOLEAN
  /\ size \in FileSizes /\ stated \in BOOLEAN

-----------------------------------------------------------------------------
(* Deadline.                                                               *)

Lesser(a, b) == IF a < b THEN a ELSE b

Timed == timeout # NoTimeout
Expired == Timed /\ remaining <= 0
(* Mutant: a request may always take its full time.                        *)
SocketTimeoutUncut == RequestTimeout

SocketTimeout ==
  IF Timed THEN Lesser(RequestTimeout, remaining) ELSE RequestTimeout

End(o) == pc' = "done" /\ outcome' = o
Stay == UNCHANGED outcome

(* _read: one read of a body, of the token or of the file.                 *)
Read(body) ==
  \/ /\ Expired /\ End("DeadlineExceeded") /\ UNCHANGED <<limit, quiet>>
  \/ /\ ~Expired /\ pc' = body /\ Stay
     /\ limit' = SocketTimeout /\ quiet' = 0

-----------------------------------------------------------------------------
(* _open: one request, for start and for each poll.                        *)

Open(r) ==
  \/ /\ Expired /\ End("DeadlineExceeded") /\ UNCHANGED requestVars
  \/ /\ ~Expired
     /\ pc' = "opening" /\ Stay
     /\ limit' = SocketTimeout /\ quiet' = 0
     /\ waits' \in 1 .. HeadWaits /\ request' = r

Start ==
  /\ pc = "start" /\ Open("post")
  /\ UNCHANGED <<timeout, remaining, delay, sleep, received, gatewayVars>>

(* The connection stands, or a piece of the head has come.                 *)
HeadArrives ==
  /\ pc = "opening" /\ waits > 1
  /\ waits' = waits - 1 /\ quiet' = 0
  /\ UNCHANGED <<timeout, remaining, pc, limit, request, delay, sleep, received,
                 outcome, gatewayVars>>

(* All the bytes the gateway stated have come: nothing more is awaited.    *)
AllReceived == pc = "reading" /\ stated /\ received = size
OnSocket == pc \in {"opening", "token", "reading"} /\ ~AllReceived

(* Mutant: only a caller's timeout puts a timeout on the socket.           *)
SocketSilentTimed ==
  /\ Timed /\ OnSocket /\ quiet >= limit
  /\ End("DeadlineExceeded")
  /\ UNCHANGED <<timeout, remaining, requestVars, delay, sleep, received,
                 gatewayVars>>

(* A socket that stays silent for its whole timeout.                       *)
SocketSilent ==
  /\ OnSocket /\ quiet >= limit
  /\ End("DeadlineExceeded")
  /\ UNCHANGED <<timeout, remaining, requestVars, delay, sleep, received,
                 gatewayVars>>

ConnectionFails ==
  /\ OnSocket
  /\ End("Unavailable")
  /\ UNCHANGED <<timeout, remaining, requestVars, delay, sleep, received,
                 gatewayVars>>

-----------------------------------------------------------------------------
(* start: POST the request and read the token.                             *)

(* The gateway builds one report at a time and queues none: HTTP 409.      *)
Accepted ==
  /\ pc = "opening" /\ waits = 1 /\ request = "post"
  /\ IF others
     THEN End("ExportBusy") /\ UNCHANGED <<build, limit, quiet, waits>>
     ELSE build' = "building" /\ waits' \in 1 .. HeadWaits /\ Read("token")
  /\ UNCHANGED <<timeout, remaining, request, delay, sleep, received,
                 others, size, stated>>

Refused ==
  /\ pc = "opening" /\ waits = 1
  /\ \E e \in {"ResourceExhausted", "VoltnirError"} : End(e)
  /\ UNCHANGED <<timeout, remaining, requestVars, delay, sleep, received,
                 gatewayVars>>

(* The token's body may take several reads.                                *)
TokenPiece ==
  /\ pc = "token" /\ waits > 1
  /\ waits' = waits - 1 /\ Read("token")
  /\ UNCHANGED <<timeout, remaining, request, delay, sleep, received,
                 gatewayVars>>

(* It ends, with a token in it or, no answer to an export, without.        *)
TokenEnds ==
  /\ pc = "token" /\ waits = 1
  /\ \/ pc' = "answered" /\ Stay
     \/ End("VoltnirError")
  /\ UNCHANGED <<timeout, remaining, requestVars, delay, sleep, received,
                 gatewayVars>>

-----------------------------------------------------------------------------
(* poll, pause and next_delay.                                             *)

Poll ==
  /\ pc = "answered" /\ Open("get")
  /\ UNCHANGED <<timeout, remaining, delay, sleep, received, gatewayVars>>

(* Mutant: the wait doubles without end.                                   *)
NextDelayUncut == delay * 2

NextDelay == Lesser(delay * 2, MaxPoll)

(* Mutant: the wait between polls is not cut.                              *)
PendingUncut ==
  /\ pc = "opening" /\ waits = 1 /\ request = "get" /\ build = "building"
  /\ pc' = "paused" /\ Stay
  /\ sleep' = delay /\ delay' = NextDelay
  /\ UNCHANGED <<timeout, remaining, requestVars, received, gatewayVars>>

(* HTTP 202: the wait is cut to what the timeout leaves.                   *)
Pending ==
  /\ pc = "opening" /\ waits = 1 /\ request = "get" /\ build = "building"
  /\ \/ /\ Expired /\ End("DeadlineExceeded") /\ UNCHANGED <<delay, sleep>>
     \/ /\ ~Expired /\ pc' = "paused" /\ Stay
        /\ sleep' = IF Timed THEN Lesser(delay, remaining) ELSE delay
        /\ delay' = NextDelay
  /\ UNCHANGED <<timeout, remaining, requestVars, received, gatewayVars>>

Wake ==
  /\ pc = "paused" /\ sleep = 0 /\ pc' = "answered"
  /\ UNCHANGED <<timeout, remaining, requestVars, delay, sleep, received,
                 outcome, gatewayVars>>

BuildFailed ==
  /\ pc = "opening" /\ waits = 1 /\ request = "get"
  /\ \/ build = "failed"  /\ End("Internal")
     \/ build = "expired" /\ End("NotFound")
  /\ UNCHANGED <<timeout, remaining, requestVars, delay, sleep, received,
                 gatewayVars>>

-----------------------------------------------------------------------------
(* Download.next_chunk and _read.                                          *)

(* HTTP 200: the file, its response open and no byte of it read.           *)
Ready ==
  /\ pc = "opening" /\ waits = 1 /\ request = "get" /\ build = "ready"
  /\ pc' = "open" /\ Stay
  /\ UNCHANGED <<timeout, remaining, requestVars, delay, sleep, received,
                 gatewayVars>>

ChunkArrives ==
  /\ pc = "reading" /\ received < size
  /\ received' = received + 1 /\ pc' = "held" /\ quiet' = 0
  /\ UNCHANGED <<timeout, remaining, limit, waits, request, delay, sleep,
                 outcome, gatewayVars>>

(* next_chunk, the first and each the consumer asks for; or it breaks out  *)
(* of the loop.                                                            *)
NextChunk ==
  /\ pc \in {"open", "held"} /\ Read("reading")
  /\ UNCHANGED <<timeout, remaining, waits, request, delay, sleep, received,
                 gatewayVars>>

BreakOut ==
  /\ pc = "held" /\ End("abandoned")
  /\ UNCHANGED <<timeout, remaining, requestVars, delay, sleep, received,
                 gatewayVars>>

FileRead ==
  /\ AllReceived /\ End("complete")
  /\ UNCHANGED <<timeout, remaining, requestVars, delay, sleep, received,
                 gatewayVars>>

(* Mutant: the end of the body is the end of the file.                     *)
ConnectionEndsWhole ==
  /\ OnSocket /\ pc = "reading" /\ End("complete")
  /\ UNCHANGED <<timeout, remaining, requestVars, delay, sleep, received,
                 gatewayVars>>

(* The connection ends: short of the stated size, or, without one, perhaps *)
(* short of the file.                                                      *)
ConnectionEnds ==
  /\ OnSocket /\ pc = "reading"
  /\ End(IF stated THEN "Unavailable" ELSE "complete")
  /\ UNCHANGED <<timeout, remaining, requestVars, delay, sleep, received,
                 gatewayVars>>

-----------------------------------------------------------------------------
(* Time, and the gateway (external).                                       *)

OverrunBound == (HeadWaits - 1) * RequestTimeout

(* No further is counted than the longest overrun and one tick more.       *)
Passed == IF Timed /\ remaining >= - OverrunBound
          THEN remaining - 1 ELSE remaining

Tick ==
  /\ \/ /\ OnSocket /\ quiet < limit
        /\ quiet' = quiet + 1 /\ UNCHANGED sleep
     \/ /\ pc = "paused" /\ sleep > 0
        /\ sleep' = sleep - 1 /\ UNCHANGED quiet
     \/ /\ pc = "held" /\ quiet < MaxPause
        /\ quiet' = quiet + 1 /\ UNCHANGED sleep
  /\ remaining' = Passed
  /\ UNCHANGED <<timeout, pc, limit, waits, request, delay, received, outcome,
                 gatewayVars>>

GatewayBuilds ==
  /\ build = "building" /\ build' \in {"ready", "failed"}
  /\ UNCHANGED <<timeout, remaining, pc, requestVars, delay, sleep, received,
                 outcome, others, size, stated>>

(* The token is lost: after an hour, or with a restart of the gateway.     *)
TokenLost ==
  /\ build \in {"building", "ready", "failed"} /\ build' = "expired"
  /\ UNCHANGED <<timeout, remaining, pc, requestVars, delay, sleep, received,
                 outcome, others, size, stated>>

(* Another user's report is requested, or is ready.                        *)
OthersChange ==
  /\ build # "building" /\ others' = ~others
  /\ UNCHANGED <<timeout, remaining, pc, requestVars, delay, sleep, received,
                 outcome, build, size, stated>>

-----------------------------------------------------------------------------
ExportStep ==
  \/ Start \/ SocketSilent \/ Poll \/ Pending \/ Wake \/ Ready \/ BuildFailed
  \/ NextChunk \/ BreakOut \/ FileRead
NetworkStep ==
  \/ HeadArrives \/ Accepted \/ Refused \/ TokenPiece \/ TokenEnds
  \/ ConnectionFails \/ ChunkArrives \/ ConnectionEnds
GatewayStep == GatewayBuilds \/ TokenLost \/ OthersChange

Next == ExportStep \/ NetworkStep \/ GatewayStep \/ Tick
Spec == Init /\ [][Next]_vars

-----------------------------------------------------------------------------
(* Properties.                                                             *)

Waiting == pc \in {"opening", "token", "paused", "reading"}
ExportTypeOK ==
  /\ timeout \in Timeouts
  /\ pc \in { "start", "opening", "token", "answered", "paused", "open",
              "reading", "held", "done" }
  /\ quiet \in Nat /\ limit \in 0 .. RequestTimeout /\ waits \in 0 .. HeadWaits
  /\ request \in {"post", "get"} /\ delay \in FirstPoll .. MaxPoll
  /\ sleep \in 0 .. MaxPoll /\ received \in 0 .. size
  /\ outcome \in Errors \cup {"none", "complete", "abandoned"}
  /\ build \in {"none", "building", "ready", "failed", "expired"}
  /\ pc = "done" <=> outcome # "none"

(* An export that ends without an error has yielded the whole file, if the *)
(* gateway stated its size: a connection cut early is never a short file.  *)
WholeFileOnly == outcome = "complete" /\ stated => received = size

(* No pause and no wait for a piece of a body reaches beyond the caller's  *)
(* timeout, whatever the consumer and the earlier requests took; and a     *)
(* request outlasts it by its later socket waits at most.                  *)
TimeoutKept ==
  Timed => /\ pc \in {"token", "paused", "reading"} => remaining >= 0
           /\ Waiting => remaining >= - OverrunBound
=============================================================================
