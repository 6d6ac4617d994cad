--------------------------- MODULE ClientLifecycle ---------------------------
(***************************************************************************)
(* One client object: its _unary and _stream helpers, and close().         *)
(*                                                                         *)
(* A synchronous client may be shared by threads, and a thread may be      *)
(* interrupted between any two steps; a coroutine gives way only where it  *)
(* awaits.  The server runs each call on a handler of a bounded pool.      *)
(***************************************************************************)
EXTENDS OrderErrors, Integers, FiniteSets

CONSTANTS
  Calls,    \* calls made on the client, each from a thread or task of its own
  PoolSize  \* handlers of the server

ASSUME PoolAssumption == PoolSize \in Nat \ {0}

VARIABLES
  isAsync,  \* AsyncVoltnirClient rather than VoltnirClient
  closed,   \* the client's _closed flag
  channel,  \* its channel: "open" or "closed"
  kind,     \* what each call is: "order", "read" or "stream"
  pc,       \* where it is: idle, checked, open, left, ended
  result,   \* what it ended with
  handler,  \* server: the call is absent, queued, served or cancelled
  late,     \* history: calls begun when the client was already closed
  cutOff    \* history: calls under way that close() cut off

vars == <<isAsync, closed, channel, kind, pc, result, handler, late, cutOff>>

Kinds == {"order", "read", "stream"}
(* ValueError is gRPC's own error for a call on a closed channel, and      *)
(* CancelledError asyncio's for one its own channel has cancelled: neither *)
(* is a grpc.RpcError, and neither is translated.                          *)
Escapes == {"ValueError", "CancelledError"}
Results == ErrorClasses \cup Escapes \cup {"none", "ok", "ClientClosed"}

Init ==
  /\ isAsync \in BOOLEAN
  /\ closed = FALSE /\ channel = "open"
  /\ kind \in [Calls -> Kinds]
  /\ pc = [c \in Calls |-> "idle"]
  /\ result = [c \in Calls |-> "none"]
  /\ handler = [c \in Calls |-> "absent"]
  /\ late = {} /\ cutOff = {}

-----------------------------------------------------------------------------
(* _unary and _stream.                                                     *)

Class(c, code) == Translate(Failure(code), kind[c] = "order")

End(c, r) ==
  /\ pc' = [pc EXCEPT ![c] = "ended"]
  /\ result' = [result EXCEPT ![c] = r]

(* `if self._closed: raise ClientClosed`.                                  *)
RefuseClosed(c) ==
  /\ closed /\ End(c, "ClientClosed") /\ UNCHANGED handler

(* The stub's method is invoked: refused by gRPC on a closed channel.      *)
Invoke(c) ==
  \/ /\ channel = "open"
     /\ pc' = [pc EXCEPT ![c] = "open"]
     /\ handler' = [handler EXCEPT ![c] = "queued"]
     /\ UNCHANGED result
  \/ /\ channel = "closed"
     /\ End(c, "ValueError") /\ UNCHANGED handler

(* Mutant: the flag is not read.                                           *)
CheckNothing(c) ==
  /\ pc[c] = "idle"
  /\ late' = IF closed THEN late \cup {c} ELSE late
  /\ pc' = [pc EXCEPT ![c] = "checked"] /\ UNCHANGED <<result, handler>>
  /\ UNCHANGED <<isAsync, closed, channel, kind, cutOff>>

(* A call begins: for a stream, at the first item asked for.  Without an   *)
(* await between the two, a coroutine checks and invokes in one step.      *)
Check(c) ==
  /\ pc[c] = "idle"
  /\ late' = IF closed THEN late \cup {c} ELSE late
  /\ \/ RefuseClosed(c)
     \/ /\ ~closed /\ isAsync /\ Invoke(c)
     \/ /\ ~closed /\ ~isAsync
        /\ pc' = [pc EXCEPT ![c] = "checked"] /\ UNCHANGED <<result, handler>>
  /\ UNCHANGED <<isAsync, closed, channel, kind, cutOff>>

InvokeChecked(c) ==
  /\ pc[c] = "checked" /\ Invoke(c)
  /\ UNCHANGED <<isAsync, closed, channel, kind, late, cutOff>>

(* What the server sees of a call that its client gives up.                *)
Withdrawn(c) ==
  CASE handler[c] = "queued" -> "absent"
    [] handler[c] = "served" -> "cancelled"
    [] OTHER                 -> handler[c]

(* A unary call has a deadline, the client's or its own.                   *)
DeadlineExpires(c) ==
  /\ pc[c] = "open" /\ kind[c] # "stream"
  /\ End(c, Class(c, "DEADLINE_EXCEEDED"))
  /\ handler' = [handler EXCEPT ![c] = Withdrawn(c)]
  /\ UNCHANGED <<isAsync, closed, channel, kind, late, cutOff>>

(* The server answers, ends the stream, or fails the call.                 *)
ServerEnds(c) ==
  /\ pc[c] = "open" /\ handler[c] = "served"
  /\ \/ End(c, "ok")
     \/ \E code \in {"PERMISSION_DENIED", "UNAVAILABLE"} : End(c, Class(c, code))
  /\ handler' = [handler EXCEPT ![c] = "absent"]
  /\ UNCHANGED <<isAsync, closed, channel, kind, late, cutOff>>

(* The consumer of a stream breaks out of its loop; the generator stays    *)
(* suspended at its yield until it is closed.                              *)
Leave(c) ==
  /\ pc[c] = "open" /\ kind[c] = "stream" /\ handler[c] = "served"
  /\ pc' = [pc EXCEPT ![c] = "left"]
  /\ UNCHANGED <<isAsync, closed, channel, kind, result, handler, late, cutOff>>

(* Mutant: the generator has no finally clause.                            *)
CloseGeneratorOnly(c) ==
  /\ pc[c] = "left" /\ End(c, "ok")
  /\ UNCHANGED <<isAsync, closed, channel, kind, handler, late, cutOff>>

(* The generator is closed, by the interpreter or by the event loop's      *)
(* finalizer: `finally: call.cancel()`.                                    *)
CloseGenerator(c) ==
  /\ pc[c] = "left" /\ End(c, "ok")
  /\ handler' = [handler EXCEPT ![c] = Withdrawn(c)]
  /\ UNCHANGED <<isAsync, closed, channel, kind, late, cutOff>>

-----------------------------------------------------------------------------
(* close().                                                                *)

UnderWay == {c \in Calls : pc[c] \in {"open", "left"}}

(* What a call that is waiting for the server gets when it is cut off: the *)
(* channel's own status, or the cancellation of the awaiting coroutine.    *)
CutError(c) == IF isAsync THEN "CancelledError" ELSE Class(c, "CANCELLED")

(* The channel closes and cuts off the calls under way on it; a stream of  *)
(* the asynchronous client may survive it.                                 *)
ChannelCloses ==
  /\ channel' = "closed"
  /\ \E cut \in SUBSET UnderWay :
       /\ \A c \in UnderWay \ cut : isAsync /\ kind[c] = "stream"
       /\ cutOff' = cutOff \cup cut
       /\ pc' = [c \in Calls |->
                   IF c \in cut /\ pc[c] = "open" THEN "ended" ELSE pc[c]]
       /\ result' = [c \in Calls |->
                       IF c \in cut /\ pc[c] = "open" THEN CutError(c) ELSE result[c]]
       /\ handler' = [c \in Calls |-> IF c \in cut THEN Withdrawn(c) ELSE handler[c]]

(* Mutant: the flag is set only after the channel has been closed.         *)
CloseFlagLast ==
  /\ ~closed /\ channel = "open" /\ ChannelCloses
  /\ UNCHANGED <<isAsync, closed, kind, late>>

(* The flag is set first; between the two steps a thread can be switched.  *)
Close ==
  /\ ~closed /\ closed' = TRUE
  /\ IF isAsync THEN ChannelCloses
                ELSE UNCHANGED <<channel, pc, result, handler, cutOff>>
  /\ UNCHANGED <<isAsync, kind, late>>

CloseChannel ==
  /\ closed /\ channel = "open" /\ ChannelCloses
  /\ UNCHANGED <<isAsync, closed, kind, late>>

-----------------------------------------------------------------------------
(* The server (external).                                                  *)

Busy == {c \in Calls : handler[c] \in {"served", "cancelled"}}

Serve(c) ==
  /\ handler[c] = "queued" /\ Cardinality(Busy) < PoolSize
  /\ handler' = [handler EXCEPT ![c] = "served"]
  /\ UNCHANGED <<isAsync, closed, channel, kind, pc, result, late, cutOff>>

(* A handler notices that its call was cancelled, and is free again.       *)
NoticeCancel(c) ==
  /\ handler[c] = "cancelled"
  /\ handler' = [handler EXCEPT ![c] = "absent"]
  /\ UNCHANGED <<isAsync, closed, channel, kind, pc, result, late, cutOff>>

-----------------------------------------------------------------------------
CallStep(c) ==
  \/ Check(c) \/ InvokeChecked(c) \/ DeadlineExpires(c) \/ ServerEnds(c)
  \/ Leave(c) \/ CloseGenerator(c) \/ Serve(c) \/ NoticeCancel(c)

Next == Close \/ CloseChannel \/ \E c \in Calls : CallStep(c)
Spec == Init /\ [][Next]_vars

(* Threads and tasks run, consumers leave their streams at some time, the  *)
(* server notices cancellations, and it starts queued calls in some order  *)
(* that passes nobody over for ever.                                       *)
FairSpec ==
  /\ Spec
  /\ WF_vars(CloseChannel)
  /\ \A c \in Calls :
       /\ WF_vars(InvokeChecked(c)) /\ WF_vars(DeadlineExpires(c))
       /\ WF_vars(Leave(c)) /\ WF_vars(CloseGenerator(c))
       /\ WF_vars(NoticeCancel(c)) /\ SF_vars(Serve(c))

-----------------------------------------------------------------------------
(* Properties.                                                             *)

(* Types; and a handler serves a call only while its client side lives.    *)
LifecycleTypeOK ==
  /\ isAsync \in BOOLEAN /\ closed \in BOOLEAN /\ channel \in {"open", "closed"}
  /\ kind \in [Calls -> Kinds]
  /\ pc \in [Calls -> {"idle", "checked", "open", "left", "ended"}]
  /\ result \in [Calls -> Results]
  /\ handler \in [Calls -> {"absent", "queued", "served", "cancelled"}]
  /\ late \subseteq Calls /\ cutOff \subseteq Calls
  /\ Cardinality(Busy) <= PoolSize
  /\ \A c \in Calls : handler[c] = "served" => pc[c] \in {"open", "left"}

(* A call begun after close() is refused with ClientClosed and reaches     *)
(* neither gRPC nor the server.                                            *)
LateCallsRefused ==
  \A c \in late : result[c] = "ClientClosed" /\ handler[c] = "absent"

(* A call on a closed client raises ClientClosed, which a supervisor that  *)
(* catches VoltnirError sees; never gRPC's ValueError, which it does not.  *)
NeverOnClosedChannel == \A c \in Calls : result[c] # "ValueError"

(* A call of the asynchronous client leaves the VoltnirError hierarchy in  *)
(* one way only: cancelled under way by close().  Its tasks give way       *)
(* nowhere between the test of _closed and the use of the channel, so none *)
(* meets a channel that is closed already.                                 *)
AsyncEscapesOnlyCut ==
  isAsync => \A c \in Calls :
    result[c] \in Escapes => result[c] = "CancelledError" /\ c \in cutOff

(* No subscriber is blocked for ever by subscriptions their consumers have *)
(* abandoned: a queued call gets a handler, or ends.                       *)
SubscriberServed ==
  \A c \in Calls : handler[c] = "queued" ~> handler[c] # "queued"
=============================================================================
