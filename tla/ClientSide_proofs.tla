--------------------------- MODULE ClientSide_proofs ---------------------------
(***************************************************************************)
(* What a client does by itself, before anything is sent and after nothing *)
(* more is: it starts and closes (ClientLifecycle), it builds a request or *)
(* refuses to, and it converts amounts (OrderBuilders over Units).  The    *)
(* theorems about the builders hold for every argument, not only for those *)
(* the runs try, and the ones about amounts for every decimal context.     *)
(***************************************************************************)
EXTENDS ClientLifecycle, OrderBuilders, FiniteSetTheorems, WellFoundedInduction, TLAPS

-----------------------------------------------------------------------------
(* The inductive invariant.                                                *)

TypesInv ==
  /\ isAsync \in BOOLEAN /\ closed \in BOOLEAN /\ channel \in {"open", "closed"}
  /\ kind \in [Calls -> Kinds]
  /\ pc \in [Calls -> {"idle", "checked", "open", "left", "ended"}]
  /\ result \in [Calls -> Results]
  /\ handler \in [Calls -> {"absent", "queued", "served", "cancelled"}]
  /\ late \subseteq Calls /\ cutOff \subseteq Calls

(* The server holds a call only while its client side lives, and of no     *)
(* more of them than it has handlers.                                      *)
ServerInv ==
  /\ IsFiniteSet(Busy) /\ Cardinality(Busy) <= PoolSize
  /\ \A c \in Calls :
       /\ handler[c] = "queued" => pc[c] = "open"
       /\ handler[c] = "served" => pc[c] \in {"open", "left"}
       /\ pc[c] \in {"idle", "checked"} => handler[c] = "absent"

(* A call begun too late has ended where it began.                         *)
LateInv ==
  \A c \in late :
    pc[c] = "ended" /\ result[c] = "ClientClosed" /\ handler[c] = "absent"

(* No coroutine is between the test of the flag and the channel, none sees *)
(* the one closed and the other open, and one that is cancelled was cut    *)
(* off.                                                                    *)
Inside(c) == result[c] \in Escapes => result[c] = "CancelledError" /\ c \in cutOff
AsyncInv ==
  isAsync => /\ closed <=> channel = "closed"
             /\ \A c \in Calls : pc[c] # "checked" /\ Inside(c)

LifecycleInv == TypesInv /\ ServerInv /\ LateInv /\ AsyncInv

-----------------------------------------------------------------------------
(* What a call's own step does to it.                                      *)

USE PoolAssumption

PcStates == {"idle", "checked", "open", "left", "ended"}
HandlerStates == {"absent", "queued", "served", "cancelled"}

(* The class of a failure is one of the SDK's own.                         *)
LEMMA ClassType ==
  ASSUME NEW c, NEW code \in {"DEADLINE_EXCEEDED", "PERMISSION_DENIED", "UNAVAILABLE",
                              "CANCELLED"}
  PROVE  Class(c, code) \in ErrorClasses \ Escapes
<1>1. ClassOfCode(code) \in ErrorClasses
  BY SMTT(30) DEF ClassOfCode, CodeToClass, ErrorClasses
<1>2. Class(c, code) \in ErrorClasses
  BY <1>1 DEF Class, Translate, Failure, ErrorClasses
<1>3. QED
  BY <1>2 DEF ErrorClasses, Escapes

(* What the server makes of a call that is given up: it forgets a queued   *)
(* one and leaves a served one to be noticed.                              *)
LEMMA WithdrawnIs ==
  ASSUME TypesInv, NEW c \in Calls
  PROVE  /\ Withdrawn(c) \in {"absent", "cancelled"}
         /\ Withdrawn(c) = "cancelled" <=> handler[c] \in {"served", "cancelled"}
<1>1. handler[c] \in HandlerStates
  BY DEF TypesInv, HandlerStates
<1>2. QED
  BY <1>1 DEF Withdrawn, HandlerStates

(* How a call's place, its result and its handler may move.                *)
Refuses(c) ==
  /\ pc[c] = "idle" /\ closed /\ pc'[c] = "ended" /\ result'[c] = "ClientClosed"
  /\ handler'[c] = handler[c] /\ late' = late \cup {c}
Begins(c) ==
  /\ pc[c] \in {"idle", "checked"} /\ channel = "open"
  /\ pc[c] = "idle" => ~closed
  /\ pc'[c] = "open" /\ result'[c] = result[c] /\ handler'[c] = "queued"
  /\ late' = late
Bounces(c) ==
  /\ pc[c] \in {"idle", "checked"} /\ channel = "closed"
  /\ pc[c] = "idle" => ~closed
  /\ pc'[c] = "ended" /\ result'[c] = "ValueError" /\ handler'[c] = handler[c]
  /\ late' = late
Passes(c) ==
  /\ pc[c] = "idle" /\ ~closed /\ ~isAsync
  /\ pc'[c] = "checked" /\ result'[c] = result[c] /\ handler'[c] = handler[c]
  /\ late' = late
Stops(c) ==
  /\ pc[c] \in {"open", "left"} /\ pc'[c] = "ended"
  /\ result'[c] \in (ErrorClasses \cup {"ok"}) \ Escapes
  /\ handler'[c] \in {"absent", Withdrawn(c)}
  /\ late' = late
Leaves(c) ==
  /\ pc[c] = "open" /\ handler[c] = "served" /\ pc'[c] = "left"
  /\ result'[c] = result[c] /\ handler'[c] = handler[c] /\ late' = late
Served(c) ==
  /\ \/ handler[c] = "queued" /\ handler'[c] = "served" /\ Cardinality(Busy) < PoolSize
     \/ handler[c] = "cancelled" /\ handler'[c] = "absent"
  /\ pc'[c] = pc[c] /\ result'[c] = result[c] /\ late' = late

(* A step of call c is one of these, and touches no other call.            *)
LEMMA CallMoves ==
  ASSUME TypesInv, NEW c \in Calls, CallStep(c)
  PROVE  /\ UNCHANGED <<isAsync, closed, channel, kind, cutOff>>
         /\ DOMAIN pc' = Calls /\ DOMAIN result' = Calls /\ DOMAIN handler' = Calls
         /\ pc' = [pc EXCEPT ![c] = pc'[c]]
         /\ result' = [result EXCEPT ![c] = result'[c]]
         /\ handler' = [handler EXCEPT ![c] = handler'[c]]
         /\ \/ Refuses(c) \/ Begins(c) \/ Bounces(c) \/ Passes(c) \/ Stops(c)
            \/ Leaves(c) \/ Served(c)
<1>0. /\ DOMAIN pc = Calls /\ DOMAIN result = Calls /\ DOMAIN handler = Calls
      /\ pc = [d \in Calls |-> pc[d]] /\ result = [d \in Calls |-> result[d]]
      /\ handler = [d \in Calls |-> handler[d]]
  BY DEF TypesInv
<1>1. CASE Check(c)
  <2>1. CASE RefuseClosed(c)
    BY <1>0, <1>1, <2>1, Zenon DEF Check, RefuseClosed, End, Refuses
  <2>2. CASE ~closed /\ Invoke(c)
    BY <1>0, <1>1, <2>2 DEF Check, Invoke, End, Begins, Bounces
  <2>3. QED
    BY <1>0, <1>1, <2>1, <2>2 DEF Check, Passes
<1>2. CASE InvokeChecked(c)
  BY <1>0, <1>2 DEF InvokeChecked, Invoke, End, Begins, Bounces
<1>3. CASE DeadlineExpires(c)
  BY <1>0, <1>3, ClassType DEF DeadlineExpires, End, Stops
<1>4. CASE ServerEnds(c)
  BY <1>0, <1>4, ClassType DEF ServerEnds, End, Stops, Escapes
<1>5. CASE Leave(c)
  BY <1>0, <1>5 DEF Leave, Leaves
<1>6. CASE CloseGenerator(c)
  BY <1>0, <1>6 DEF CloseGenerator, End, Stops, Escapes
<1>7. CASE Serve(c)
  BY <1>0, <1>7 DEF Serve, Served
<1>8. CASE NoticeCancel(c)
  BY <1>0, <1>8 DEF NoticeCancel, Served
<1>9. QED
  BY <1>1, <1>2, <1>3, <1>4, <1>5, <1>6, <1>7, <1>8 DEF CallStep

(* The other calls stay as they are, and this one in one of its states.    *)
LEMMA CallKeeps ==
  ASSUME TypesInv, NEW c \in Calls, CallStep(c)
  PROVE  /\ \A d \in Calls \ {c} :
              pc'[d] = pc[d] /\ result'[d] = result[d] /\ handler'[d] = handler[d]
         /\ pc'[c] \in PcStates /\ result'[c] \in Results /\ handler'[c] \in HandlerStates
<1>1. /\ pc' = [pc EXCEPT ![c] = pc'[c]]
      /\ result' = [result EXCEPT ![c] = result'[c]]
      /\ handler' = [handler EXCEPT ![c] = handler'[c]]
  BY CallMoves
<1>2. \A d \in Calls \ {c} :
        pc'[d] = pc[d] /\ result'[d] = result[d] /\ handler'[d] = handler[d]
  BY <1>1 DEF TypesInv
<1>3. pc[c] \in PcStates /\ result[c] \in Results /\ handler[c] \in HandlerStates
  BY DEF TypesInv, PcStates, HandlerStates
<1>4. pc'[c] \in PcStates /\ result'[c] \in Results /\ handler'[c] \in HandlerStates
  BY <1>3, CallMoves, WithdrawnIs
  DEF Refuses, Begins, Bounces, Passes, Stops, Leaves, Served, PcStates, Results, Escapes,
      HandlerStates
<1>5. QED
  BY <1>2, <1>4

(* What close() does: the flag, and with it or after it the channel.       *)
LEMMA CloseMoves ==
  ASSUME Close \/ CloseChannel
  PROVE  /\ UNCHANGED <<isAsync, kind, late>> /\ closed'
         /\ ChannelCloses \/ (~isAsync /\ UNCHANGED <<channel, pc, result, handler, cutOff>>)
<1>1. UNCHANGED <<isAsync, kind, late>>
  BY DEF Close, CloseChannel
<1>2. closed' /\ (ChannelCloses \/ (~isAsync /\ UNCHANGED <<channel, pc, result, handler, cutOff>>))
  <2>1. CASE Close
    <3>1. closed' = TRUE
      BY <2>1 DEF Close
    <3>2. ChannelCloses \/ (~isAsync /\ UNCHANGED <<channel, pc, result, handler, cutOff>>)
      BY <2>1, Zenon DEF Close
    <3>3. QED
      BY <3>1, <3>2
  <2>2. CASE CloseChannel
    <3>1. closed' = closed /\ ChannelCloses
      BY <2>2 DEF CloseChannel
    <3>2. closed
      BY <2>2, Zenon DEF CloseChannel
    <3>3. QED
      BY <3>1, <3>2, Zenon
  <2>3. QED
    BY <2>1, <2>2
<1>3. QED
  BY <1>1, <1>2

(* And to each call: it goes on, or is cut off.                            *)
CutDown(c) ==
  /\ pc[c] \in {"open", "left"} /\ c \in cutOff'
  /\ pc'[c] = IF pc[c] = "open" THEN "ended" ELSE pc[c]
  /\ result'[c] = IF pc[c] = "open" THEN CutError(c) ELSE result[c]
  /\ handler'[c] = Withdrawn(c)
GoesOn(c) == pc'[c] = pc[c] /\ result'[c] = result[c] /\ handler'[c] = handler[c]

LEMMA CloseKeeps ==
  ASSUME TypesInv, ChannelCloses
  PROVE  /\ channel' = "closed" /\ cutOff \subseteq cutOff' /\ cutOff' \subseteq Calls
         /\ pc' \in [Calls -> PcStates] /\ result' \in [Calls -> Results]
         /\ handler' \in [Calls -> HandlerStates]
         /\ \A c \in Calls : GoesOn(c) \/ CutDown(c)
<1>1. PICK cut \in SUBSET UnderWay :
        /\ cutOff' = cutOff \cup cut
        /\ pc' = [c \in Calls |->
                    IF c \in cut /\ pc[c] = "open" THEN "ended" ELSE pc[c]]
        /\ result' = [c \in Calls |->
                        IF c \in cut /\ pc[c] = "open" THEN CutError(c) ELSE result[c]]
        /\ handler' = [c \in Calls |-> IF c \in cut THEN Withdrawn(c) ELSE handler[c]]
  BY DEF ChannelCloses
<1>2. \A c \in Calls : /\ pc[c] \in PcStates /\ result[c] \in Results
                       /\ handler[c] \in HandlerStates /\ Withdrawn(c) \in HandlerStates
  BY WithdrawnIs DEF TypesInv, PcStates, HandlerStates
<1>3. \A c \in Calls : CutError(c) \in Results
  BY ClassType DEF CutError, Results, Escapes
<1>4. cut \subseteq Calls /\ \A c \in cut : pc[c] \in {"open", "left"}
  BY DEF UnderWay
<1>5. pc' \in [Calls -> PcStates]
  BY <1>1, <1>2 DEF PcStates
<1>6. result' \in [Calls -> Results]
  BY <1>1, <1>2, <1>3
<1>7. handler' \in [Calls -> HandlerStates]
  BY <1>1, <1>2
<1>8. \A c \in Calls : GoesOn(c) \/ CutDown(c)
  BY <1>1, <1>4 DEF GoesOn, CutDown
<1>9. channel' = "closed" /\ cutOff' \subseteq Calls
  BY <1>1, <1>4 DEF ChannelCloses, TypesInv
<1>10. QED
  BY <1>1, <1>5, <1>6, <1>7, <1>8, <1>9

-----------------------------------------------------------------------------
(* The invariant holds, part by part.                                      *)

(* Types.                                                                  *)
LEMMA TypesKept ==
  ASSUME LifecycleInv, Next
  PROVE  TypesInv'
<1>0. TypesInv
  BY DEF LifecycleInv
<1>1. ASSUME NEW c \in Calls, CallStep(c)
      PROVE  TypesInv'
  <2>1. /\ pc' \in [Calls -> PcStates] /\ result' \in [Calls -> Results]
        /\ handler' \in [Calls -> HandlerStates]
    <3>1. /\ pc' = [pc EXCEPT ![c] = pc'[c]]
          /\ result' = [result EXCEPT ![c] = result'[c]]
          /\ handler' = [handler EXCEPT ![c] = handler'[c]]
      BY <1>0, <1>1, CallMoves
    <3>2. pc'[c] \in PcStates /\ result'[c] \in Results /\ handler'[c] \in HandlerStates
      BY <1>0, <1>1, CallKeeps
    <3>3. /\ pc \in [Calls -> PcStates] /\ result \in [Calls -> Results]
          /\ handler \in [Calls -> HandlerStates]
      BY <1>0 DEF TypesInv, PcStates, HandlerStates
    <3>4. QED
      BY <3>1, <3>2, <3>3
  <2>2. late' \subseteq Calls /\ cutOff' \subseteq Calls
    BY <1>0, <1>1, CallMoves
    DEF TypesInv, Refuses, Begins, Bounces, Passes, Stops, Leaves, Served
  <2>3. UNCHANGED <<isAsync, closed, channel, kind>>
    BY <1>0, <1>1, CallMoves
  <2>4. isAsync' \in BOOLEAN /\ closed' \in BOOLEAN
    BY <1>0, <2>3, Zenon DEF TypesInv
  <2>5. channel' \in {"open", "closed"} /\ kind' \in [Calls -> Kinds]
    BY <1>0, <2>3 DEF TypesInv
  <2>6. QED
    BY <2>1, <2>2, <2>4, <2>5 DEF TypesInv, PcStates, HandlerStates
<1>2. CASE Close \/ CloseChannel
  <2>1. isAsync' \in BOOLEAN /\ closed' \in BOOLEAN
    <3>1. closed' = TRUE \/ closed' = closed
      BY <1>2 DEF Close, CloseChannel
    <3>2. isAsync' = isAsync
      BY <1>2, CloseMoves
    <3>3. QED
      BY <1>0, <3>1, <3>2, Zenon DEF TypesInv
  <2>2. UNCHANGED <<kind, late>>
    BY <1>2, CloseMoves
  <2>3. CASE ChannelCloses
    BY <1>0, <2>1, <2>2, <2>3, CloseKeeps DEF TypesInv, PcStates, HandlerStates
  <2>4. CASE UNCHANGED <<channel, pc, result, handler, cutOff>>
    BY <1>0, <2>1, <2>2, <2>4 DEF TypesInv
  <2>5. QED
    BY <1>2, <2>3, <2>4, CloseMoves
<1>3. QED
  BY <1>1, <1>2 DEF Next

(* The server's handlers.                                                  *)
LEMMA ServerKept ==
  ASSUME LifecycleInv, Next
  PROVE  ServerInv'
<1>0. TypesInv /\ ServerInv
  BY DEF LifecycleInv
<1>1. ASSUME Busy' \subseteq Busy
      PROVE  IsFiniteSet(Busy') /\ Cardinality(Busy') <= PoolSize
  <2>1. /\ IsFiniteSet(Busy) /\ IsFiniteSet(Busy')
        /\ Cardinality(Busy') <= Cardinality(Busy)
    BY <1>0, <1>1, FS_Subset DEF ServerInv
  <2>2. Cardinality(Busy) \in Nat /\ Cardinality(Busy') \in Nat
        /\ Cardinality(Busy) <= PoolSize
    BY <1>0, <2>1, FS_CardinalityType DEF ServerInv
  <2>3. QED
    BY <2>1, <2>2
<1>2. ASSUME NEW c \in Calls, Busy' = Busy \cup {c}, Cardinality(Busy) < PoolSize
      PROVE  IsFiniteSet(Busy') /\ Cardinality(Busy') <= PoolSize
  <2>1. IsFiniteSet(Busy) /\ Cardinality(Busy) \in Nat
    BY <1>0, FS_CardinalityType DEF ServerInv
  <2>2. IsFiniteSet(Busy \cup {c}) /\ Cardinality(Busy \cup {c}) <= Cardinality(Busy) + 1
    <3>1. CASE c \in Busy
      <4>1. Busy \cup {c} = Busy
        BY <3>1
      <4>2. QED
        BY <2>1, <4>1
    <3>2. CASE c \notin Busy
      <4>1. IsFiniteSet(Busy \cup {c})
        BY <2>1, FS_AddElement
      <4>2. Cardinality(Busy \cup {c}) = Cardinality(Busy) + 1
        BY <2>1, <3>2, FS_AddElement, Zenon
      <4>3. QED
        BY <2>1, <4>1, <4>2
    <3>3. QED
      BY <3>1, <3>2
  <2>3. Cardinality(Busy \cup {c}) \in Nat
    BY <2>2, FS_CardinalityType
  <2>4. QED
    BY <1>2, <2>1, <2>2, <2>3
<1>3. ASSUME NEW c \in Calls, CallStep(c)
      PROVE  ServerInv'
  <2>1. /\ \A d \in Calls \ {c} : pc'[d] = pc[d] /\ handler'[d] = handler[d]
        /\ handler[c] \in HandlerStates
    BY <1>0, <1>3, CallKeeps DEF TypesInv, HandlerStates
  <2>2. \/ Refuses(c) \/ Begins(c) \/ Bounces(c) \/ Passes(c) \/ Stops(c)
        \/ Leaves(c) \/ Served(c)
    BY <1>0, <1>3, CallMoves
  <2>3. /\ handler[c] = "queued" => pc[c] = "open"
        /\ handler[c] = "served" => pc[c] \in {"open", "left"}
        /\ pc[c] \in {"idle", "checked"} => handler[c] = "absent"
    BY <1>0 DEF ServerInv
  <2>4. /\ handler'[c] = "queued" => pc'[c] = "open"
        /\ handler'[c] = "served" => pc'[c] \in {"open", "left"}
        /\ pc'[c] \in {"idle", "checked"} => handler'[c] = "absent"
    <3>1. Withdrawn(c) \in {"absent", "cancelled"}
      BY <1>0, WithdrawnIs
    <3>2. QED
      BY <2>1, <2>2, <2>3, <3>1
      DEF Refuses, Begins, Bounces, Passes, Stops, Leaves, Served, HandlerStates
  <2>5. \A d \in Calls :
          /\ handler'[d] = "queued" => pc'[d] = "open"
          /\ handler'[d] = "served" => pc'[d] \in {"open", "left"}
          /\ pc'[d] \in {"idle", "checked"} => handler'[d] = "absent"
    BY <1>0, <2>1, <2>4 DEF ServerInv
  <2>6. CASE handler'[c] \in {"served", "cancelled"} =>
               handler[c] \in {"served", "cancelled"}
    <3>1. Busy' \subseteq Busy
      BY <2>1, <2>6 DEF Busy
    <3>2. QED
      BY <1>1, <2>5, <3>1 DEF ServerInv
  <2>7. CASE /\ handler'[c] \in {"served", "cancelled"}
             /\ handler[c] \notin {"served", "cancelled"}
    <3>1. Withdrawn(c) \in {"absent", "cancelled"}
          /\ (Withdrawn(c) = "cancelled" <=> handler[c] \in {"served", "cancelled"})
      BY <1>0, WithdrawnIs
    <3>2. handler'[c] = "served" /\ Cardinality(Busy) < PoolSize
      BY <2>2, <2>7, <3>1
      DEF Refuses, Begins, Bounces, Passes, Stops, Leaves, Served
    <3>3. Busy' = Busy \cup {c}
      BY <2>1, <3>2 DEF Busy
    <3>4. QED
      BY <1>2, <2>5, <3>2, <3>3 DEF ServerInv
  <2>8. QED
    BY <2>6, <2>7
<1>4. CASE ChannelCloses
  <2>1. \A c \in Calls : /\ Withdrawn(c) \in {"absent", "cancelled"}
                         /\ Withdrawn(c) = "cancelled" <=>
                              handler[c] \in {"served", "cancelled"}
    BY <1>0, WithdrawnIs
  <2>2. \A c \in Calls :
          \/ handler'[c] = handler[c] /\ pc'[c] = pc[c]
          \/ handler'[c] = Withdrawn(c) /\ pc'[c] \in {"ended", "left"}
    BY <1>0, <1>4, CloseKeeps DEF GoesOn, CutDown
  <2>3. Busy' \subseteq Busy
    BY <2>1, <2>2 DEF Busy
  <2>4. \A c \in Calls :
          /\ handler'[c] = "queued" => pc'[c] = "open"
          /\ handler'[c] = "served" => pc'[c] \in {"open", "left"}
          /\ pc'[c] \in {"idle", "checked"} => handler'[c] = "absent"
    BY <1>0, <2>1, <2>2 DEF ServerInv
  <2>5. QED
    BY <1>1, <2>3, <2>4 DEF ServerInv
<1>5. CASE UNCHANGED <<pc, handler>>
  BY <1>0, <1>5 DEF ServerInv, Busy
<1>6. QED
  BY <1>3, <1>4, <1>5, CloseMoves DEF Next

(* The late calls.                                                         *)
LEMMA LateKept ==
  ASSUME LifecycleInv, Next
  PROVE  LateInv'
<1>0. TypesInv /\ LateInv /\ ServerInv
  BY DEF LifecycleInv
<1>1. ASSUME NEW c \in Calls, CallStep(c)
      PROVE  LateInv'
  <2>1. \A d \in Calls \ {c} :
          pc'[d] = pc[d] /\ result'[d] = result[d] /\ handler'[d] = handler[d]
    BY <1>0, <1>1, CallKeeps
  <2>2. CASE Refuses(c)
    <3>1. handler[c] = "absent"
      BY <1>0, <2>2 DEF Refuses, ServerInv
    <3>2. pc'[c] = "ended" /\ result'[c] = "ClientClosed" /\ handler'[c] = "absent"
          /\ late' = late \cup {c}
      BY <2>2, <3>1 DEF Refuses
    <3>3. QED
      BY <1>0, <2>1, <3>2 DEF LateInv, TypesInv
  <2>3. CASE ~Refuses(c)
    <3>1. late' = late /\ c \notin late
      BY <1>0, <1>1, <2>3, CallMoves
      DEF LateInv, Begins, Bounces, Passes, Stops, Leaves, Served
    <3>2. QED
      BY <1>0, <2>1, <3>1 DEF LateInv, TypesInv
  <2>4. QED
    BY <2>2, <2>3
<1>2. CASE ChannelCloses /\ late' = late
  <2>1. \A c \in late : c \in Calls /\ handler[c] = "absent" /\ pc[c] = "ended"
    BY <1>0 DEF LateInv, TypesInv
  <2>2. \A c \in late : Withdrawn(c) = "absent"
    BY <2>1 DEF Withdrawn
  <2>3. QED
    BY <1>0, <1>2, <2>1, <2>2, CloseKeeps DEF LateInv, GoesOn, CutDown
<1>3. CASE UNCHANGED <<pc, result, handler, late>>
  BY <1>0, <1>3 DEF LateInv
<1>4. QED
  BY <1>1, <1>2, <1>3, CloseMoves DEF Next

(* The coroutines.                                                         *)
LEMMA AsyncKept ==
  ASSUME LifecycleInv, Next
  PROVE  AsyncInv'
<1> SUFFICES ASSUME isAsync'
             PROVE  /\ closed' <=> channel' = "closed"
                    /\ \A c \in Calls : pc'[c] # "checked" /\ Inside(c)'
  BY Zenon DEF AsyncInv
<1>0. isAsync
  <2>1. isAsync' = isAsync
    BY CloseMoves, CallMoves DEF Next, LifecycleInv
  <2>2. QED
    BY <2>1, Zenon
<1>1. TypesInv /\ (closed <=> channel = "closed")
      /\ \A c \in Calls : pc[c] # "checked" /\ Inside(c)
  BY <1>0, Zenon DEF LifecycleInv, AsyncInv
<1>2. ASSUME NEW c \in Calls, CallStep(c)
      PROVE  /\ closed' <=> channel' = "closed"
             /\ \A d \in Calls : pc'[d] # "checked" /\ Inside(d)'
  <2>1. closed' = closed /\ channel' = channel /\ cutOff' = cutOff
    BY <1>1, <1>2, CallMoves
  <2>2. closed' <=> channel' = "closed"
    BY <1>1, <2>1, Zenon
  <2>3. pc'[c] # "checked" /\ Inside(c)'
    <3>1. CASE Bounces(c)
      BY <1>1, <3>1, Zenon DEF Bounces
    <3>2. CASE Passes(c)
      BY <1>0, <3>2, Zenon DEF Passes
    <3>3. CASE Refuses(c) \/ Begins(c) \/ Stops(c) \/ Leaves(c) \/ Served(c)
      BY <1>1, <2>1, <3>3 DEF Refuses, Begins, Stops, Leaves, Served, Inside, Escapes
    <3>4. QED
      BY <1>1, <1>2, <3>1, <3>2, <3>3, CallMoves
  <2>4. QED
    BY <1>1, <1>2, <2>1, <2>2, <2>3, CallKeeps DEF Inside
<1>3. CASE Close \/ CloseChannel
  <2>1. ChannelCloses
    BY <1>0, <1>3, CloseMoves, Zenon
  <2>2. closed' /\ channel' = "closed"
    BY <1>1, <1>3, <2>1, CloseMoves, CloseKeeps
  <2>3. ASSUME NEW c \in Calls
        PROVE  pc'[c] # "checked" /\ Inside(c)'
    <3>1. cutOff \subseteq cutOff' /\ (GoesOn(c) \/ CutDown(c))
      BY <1>1, <2>1, CloseKeeps
    <3>2. CASE GoesOn(c)
      BY <1>1, <3>1, <3>2 DEF GoesOn, Inside
    <3>3. CASE CutDown(c)
      BY <1>0, <1>1, <3>1, <3>3 DEF CutDown, CutError, Inside
    <3>4. QED
      BY <3>1, <3>2, <3>3
  <2>4. QED
    BY <2>2, <2>3
<1>4. QED
  BY <1>2, <1>3 DEF Next

-----------------------------------------------------------------------------
(* The theorems.                                                           *)

(* The inductive invariant of a client: its calls, its channel and the     *)
(* handlers of the server, whatever threads or tasks share it.             *)
THEOREM LifecycleInvariant == Spec => []LifecycleInv
<1>1. Init => LifecycleInv
  <2> SUFFICES ASSUME Init  PROVE LifecycleInv
    OBVIOUS
  <2>1. TypesInv
    <3>1. isAsync \in BOOLEAN /\ closed \in BOOLEAN
      BY Zenon DEF Init
    <3>2. QED
      BY <3>1 DEF Init, TypesInv, Results
  <2>2. ServerInv
    <3>1. Busy = {}
      BY DEF Init, Busy
    <3>2. QED
      BY <3>1, FS_EmptySet DEF Init, ServerInv
  <2>3. LateInv
    BY DEF Init, LateInv
  <2>4. AsyncInv
    BY DEF Init, AsyncInv, Inside, Escapes
  <2>5. QED
    BY <2>1, <2>2, <2>3, <2>4 DEF LifecycleInv
<1>2. LifecycleInv /\ [Next]_vars => LifecycleInv'
  <2>1. ASSUME LifecycleInv, Next
        PROVE  LifecycleInv'
    BY <2>1, TypesKept, ServerKept, LateKept, AsyncKept DEF LifecycleInv
  <2>2. ASSUME LifecycleInv, UNCHANGED vars
        PROVE  LifecycleInv'
    <3>1. UNCHANGED <<isAsync, closed, channel, kind, pc, result, handler, late, cutOff>>
      BY <2>2 DEF vars
    <3>2. TypesInv' /\ LateInv' /\ AsyncInv'
      BY <2>2, <3>1, Zenon DEF LifecycleInv, TypesInv, LateInv, AsyncInv, Inside
    <3>3. ServerInv'
      BY <2>2, <3>1 DEF LifecycleInv, ServerInv, Busy
    <3>4. QED
      BY <3>2, <3>3 DEF LifecycleInv
  <2>3. QED
    BY <2>1, <2>2
<1>3. QED
  BY <1>1, <1>2, PTL DEF Spec

(* Type correctness of a client: the server never holds more calls than it *)
(* has handlers, and serves none whose client side is gone.                *)
THEOREM LifecycleTypes == Spec => []LifecycleTypeOK
<1>1. LifecycleInv => LifecycleTypeOK
  BY Zenon DEF LifecycleInv, TypesInv, ServerInv, LifecycleTypeOK
<1>2. QED
  BY <1>1, LifecycleInvariant, PTL

(* _unary and _stream: a call begun on a closed client is refused with     *)
(* ClientClosed and never reaches the server.                              *)
THEOREM LateRefused == Spec => []LateCallsRefused
<1>1. LifecycleInv => LateCallsRefused
  BY DEF LifecycleInv, LateInv, LateCallsRefused
<1>2. QED
  BY <1>1, LifecycleInvariant, PTL

(* AsyncVoltnirClient: its tasks give way nowhere between the flag and the *)
(* channel, so no call meets a channel close() has closed, and only one    *)
(* close() cut off under way ends outside the VoltnirError hierarchy.      *)
THEOREM AsyncEscapes == Spec => []AsyncEscapesOnlyCut
<1>1. LifecycleInv => AsyncEscapesOnlyCut
  BY Zenon DEF LifecycleInv, AsyncInv, AsyncEscapesOnlyCut, Inside
<1>2. QED
  BY <1>1, LifecycleInvariant, PTL

-----------------------------------------------------------------------------
(* The units: powers of ten, remainders and digits.                        *)

(* A product with a positive number is no smaller.                         *)
LEMMA Times ==
  ASSUME NEW m \in Nat \ {0}, NEW k \in Nat \ {0}
  PROVE  m * k \in Nat \ {0} /\ m * k >= m
  OBVIOUS
(* A multiple divides exactly.                                             *)
LEMMA DivExact ==
  ASSUME NEW q \in Int, NEW m \in Nat \ {0}
  PROVE  (q * m) \div m = q /\ (q * m) % m = 0
<1> DEFINE d == (q * m) \div m
           r == (q * m) % m
<1>1. d \in Int /\ r \in 0 .. m - 1 /\ q * m = m * d + r
  OBVIOUS
<1> HIDE DEF d, r
<1>2. r = m * (q - d)
  BY <1>1
<1>3. CASE q - d >= 1
  BY <1>1, <1>2, <1>3, Times
<1>4. CASE d - q >= 1
  <2>1. m * (d - q) >= m
    BY <1>1, <1>4, Times
  <2> QED BY <1>1, <1>2, <2>1
<1>5. CASE q = d
  BY <1>1, <1>5
<1> QED BY <1>1, <1>3, <1>4, <1>5 DEF d, r

(* Nothing but zero makes a product with a positive number zero.           *)
LEMMA ZeroFactor ==
  ASSUME NEW x \in Int, NEW k \in Nat \ {0}, x * k = 0
  PROVE  x = 0
<1>1. CASE x > 0
  <2>1. x * k >= x
    BY <1>1, Times
  <2> QED BY <1>1, <2>1
<1>2. CASE x < 0
  <2>1. (-x) * k >= -x
    BY <1>2, Times
  <2>2. (-x) * k = -(x * k)
    OBVIOUS
  <2> QED BY <1>2, <2>1, <2>2
<1> QED BY <1>1, <1>2

(* Equal multiples of a positive number are of equal numbers.              *)
LEMMA Cancel ==
  ASSUME NEW x \in Int, NEW y \in Int, NEW k \in Nat \ {0}, x * k = y * k
  PROVE  x = y
<1>1. (x - y) * k = x * k - y * k
  OBVIOUS
<1>2. x - y = 0
  <2> DEFINE z == x - y
  <2>1. z \in Int /\ z * k = 0
    BY <1>1
  <2> HIDE DEF z
  <2>2. z = 0
    BY <2>1, ZeroFactor
  <2> QED BY <2>2 DEF z
<1> QED BY <1>2

(* A number is a multiple of m if and only if the remainder is zero.       *)
LEMMA Multiple ==
  ASSUME NEW x \in Int, NEW m \in Nat \ {0}
  PROVE  /\ x % m = 0 => x \div m \in Int /\ x = (x \div m) * m
         /\ \A q \in Int : x = q * m => x % m = 0 /\ x \div m = q
<1> DEFINE f == x \div m
           r == x % m
<1>1. f \in Int /\ r \in Int /\ x = (m * f) + r
  OBVIOUS
<1> HIDE DEF f, r
<1>2. r = 0 => x = f * m
  BY <1>1
<1>3. \A q \in Int : x = q * m => x % m = 0 /\ x \div m = q
  BY DivExact
<1> QED BY <1>1, <1>2, <1>3 DEF f, r

(* Scaling a number and its divisor alike keeps whether one divides the    *)
(* other.                                                                  *)
LEMMA ModScale ==
  ASSUME NEW x \in Int, NEW m \in Nat \ {0}, NEW k \in Nat \ {0}
  PROVE  (x * k) % (m * k) = 0 <=> x % m = 0
<1>1. m * k \in Nat \ {0} /\ x * k \in Int
  BY Times
<1>2. ASSUME x % m = 0 PROVE (x * k) % (m * k) = 0
  <2>1. PICK q \in Int : x = q * m
    BY <1>2, Multiple
  <2>2. (q * m) * k = q * (m * k)
    OBVIOUS
  <2>3. x * k = q * (m * k)
    BY <2>1, <2>2
  <2> QED BY <1>1, <2>3, Multiple
<1>3. ASSUME (x * k) % (m * k) = 0 PROVE x % m = 0
  <2>1. PICK q \in Int : x * k = q * (m * k)
    BY <1>1, <1>3, Multiple
  <2>2. q * (m * k) = (q * m) * k
    OBVIOUS
  <2>3. q * m \in Int
    OBVIOUS
  <2>4. x = q * m
    BY <2>1, <2>2, <2>3, Cancel
  <2> QED BY <2>4, Multiple
<1> QED BY <1>2, <1>3

(* A power of ten, kept closed so that only the facts below are used.      *)
TenTo(n) == 10 ^ n

(* Up to the eleventh power each is ten times the one before.              *)
LEMMA PowerStep ==
  ASSUME NEW n \in 0 .. 10
  PROVE  TenTo(n + 1) = 10 * TenTo(n) /\ TenTo(n) \in Nat \ {0}
<1>1. CASE n = 0
  BY <1>1 DEF TenTo
<1>2. CASE n = 1
  BY <1>2 DEF TenTo
<1>3. CASE n = 2
  BY <1>3 DEF TenTo
<1>4. CASE n = 3
  BY <1>4 DEF TenTo
<1>5. CASE n = 4
  BY <1>5 DEF TenTo
<1>6. CASE n = 5
  BY <1>6 DEF TenTo
<1>7. CASE n = 6
  BY <1>7 DEF TenTo
<1>8. CASE n = 7
  BY <1>8 DEF TenTo
<1>9. CASE n = 8
  BY <1>9 DEF TenTo
<1>10. CASE n = 9
  BY <1>10 DEF TenTo
<1>11. CASE n = 10
  BY <1>11 DEF TenTo
<1> QED
  BY <1>1, <1>2, <1>3, <1>4, <1>5, <1>6, <1>7, <1>8, <1>9, <1>10, <1>11

(* Powers up to the tenth multiply as their exponents add.                 *)
LEMMA PowersAdd ==
  ASSUME NEW i \in 0 .. 10, NEW j \in 0 .. 10, i + j <= 10
  PROVE  TenTo(i + j) = TenTo(i) * TenTo(j)
<1>0. /\ TenTo(0) = 1 /\ TenTo(1) = 10 /\ TenTo(2) = 100 /\ TenTo(3) = 1000
      /\ TenTo(4) = 10000 /\ TenTo(5) = 100000
  BY DEF TenTo
<1> DEFINE P(k) == i + k <= 10 => TenTo(i + k) = TenTo(i) * TenTo(k)
<1>1. TenTo(i) \in Nat
  BY PowerStep
<1>2. P(0)
  BY <1>0, <1>1
<1>3. ASSUME NEW k \in 0 .. 9, P(k)  PROVE P(k + 1)
  <2> SUFFICES ASSUME i + (k + 1) <= 10
               PROVE  TenTo(i + (k + 1)) = TenTo(i) * TenTo(k + 1)
    OBVIOUS
  <2>1. TenTo((i + k) + 1) = 10 * TenTo(i + k)
    BY PowerStep
  <2>2. TenTo(k + 1) = 10 * TenTo(k) /\ TenTo(k) \in Nat
    BY PowerStep
  <2>3. i + (k + 1) = (i + k) + 1
    OBVIOUS
  <2>4. TenTo(i + k) = TenTo(i) * TenTo(k)
    BY <1>3
  <2>5. 10 * (TenTo(i) * TenTo(k)) = TenTo(i) * (10 * TenTo(k))
    BY <1>1, <2>2
  <2> QED BY <2>1, <2>2, <2>3, <2>4, <2>5
<1> HIDE DEF P
<1>4. P(1) /\ P(2) /\ P(3)
  BY <1>2, <1>3
<1>5. P(4) /\ P(5) /\ P(6)
  BY <1>3, <1>4
<1>6. P(7) /\ P(8) /\ P(9) /\ P(10)
  BY <1>3, <1>5
<1>7. P(j)
  BY <1>2, <1>4, <1>5, <1>6
<1> QED BY <1>7 DEF P

(* The larger the exponent the larger the power.                           *)
LEMMA PowersGrow ==
  ASSUME NEW i \in 0 .. 10, NEW j \in i .. 10
  PROVE  TenTo(i) <= TenTo(j)
<1>1. TenTo(i + (j - i)) = TenTo(i) * TenTo(j - i)
  BY PowersAdd
<1>2. TenTo(i) \in Nat \ {0} /\ TenTo(j - i) \in Nat \ {0}
  BY PowerStep
<1>3. i + (j - i) = j
  OBVIOUS
<1>4. TenTo(i) * TenTo(j - i) >= TenTo(i)
  BY <1>2
<1> QED BY <1>1, <1>2, <1>3, <1>4

(* The number of digits of a number of at most ten.                        *)
LEMMA Digits ==
  ASSUME NEW n \in Int, Abs(n) < 10000000000
  PROVE  /\ DigitCount(n) \in 1 .. 10
         /\ Abs(n) < TenTo(DigitCount(n))
         /\ DigitCount(n) = 1 \/ Abs(n) >= TenTo(DigitCount(n) - 1)
<1> DEFINE P(d) == /\ d = 10 \/ Abs(n) < TenTo(d)
                   /\ d = 1 \/ Abs(n) >= TenTo(d - 1)
<1>1. Abs(n) \in Nat
  BY DEF Abs
<1>2. /\ TenTo(0) = 1 /\ TenTo(1) = 10 /\ TenTo(2) = 100 /\ TenTo(3) = 1000
      /\ TenTo(4) = 10000 /\ TenTo(5) = 100000 /\ TenTo(6) = 1000000
      /\ TenTo(7) = 10000000 /\ TenTo(8) = 100000000 /\ TenTo(9) = 1000000000
      /\ TenTo(10) = 10000000000
  BY DEF TenTo
<1>3. \E d \in 1 .. 10 : P(d)
  <2>1. Abs(n) < 10 => P(1)
    BY <1>2
  <2>2. Abs(n) >= 10 /\ Abs(n) < 100 => P(2)
    BY <1>2
  <2>3. Abs(n) >= 100 /\ Abs(n) < 1000 => P(3)
    BY <1>2
  <2>4. Abs(n) >= 1000 /\ Abs(n) < 10000 => P(4)
    BY <1>2
  <2>5. Abs(n) >= 10000 /\ Abs(n) < 100000 => P(5)
    BY <1>2
  <2>6. Abs(n) >= 100000 /\ Abs(n) < 1000000 => P(6)
    BY <1>2
  <2>7. Abs(n) >= 1000000 /\ Abs(n) < 10000000 => P(7)
    BY <1>2
  <2>8. Abs(n) >= 10000000 /\ Abs(n) < 100000000 => P(8)
    BY <1>2
  <2>9. Abs(n) >= 100000000 /\ Abs(n) < 1000000000 => P(9)
    BY <1>2
  <2>10. Abs(n) >= 1000000000 => P(10)
    BY <1>2
  <2> HIDE DEF P
  <2>11. P(1) \/ P(2) \/ P(3) \/ P(4) \/ P(5) \/ P(6) \/ P(7) \/ P(8) \/ P(9) \/ P(10)
    BY <1>1, <2>1, <2>2, <2>3, <2>4, <2>5, <2>6, <2>7, <2>8, <2>9, <2>10
  <2> QED BY <2>11
<1>4. DigitCount(n) \in 1 .. 10 /\ P(DigitCount(n))
  <2>1. DigitCount(n) = CHOOSE d \in 1 .. 10 : P(d)
    BY DEF DigitCount, TenTo
  <2> HIDE DEF P
  <2> QED BY <1>3, <2>1
<1>5. DigitCount(n) = 10 \/ Abs(n) < TenTo(DigitCount(n))
  BY <1>4
<1>6. DigitCount(n) = 1 \/ Abs(n) >= TenTo(DigitCount(n) - 1)
  BY <1>4
<1> HIDE DEF P
<1> QED BY <1>2, <1>4, <1>5, <1>6

(* Scaling up adds no more digits than the scale has.                      *)
LEMMA ScaleDigits ==
  ASSUME NEW coef \in Int, Abs(coef) < 100000, NEW s \in 0 .. 5
  PROVE  /\ DigitCount(coef) \in 1 .. 10 /\ DigitCount(coef * TenTo(s)) \in 1 .. 10
         /\ DigitCount(coef * TenTo(s)) <= DigitCount(coef) + s
<1> DEFINE e == DigitCount(coef)
           p == TenTo(s)
           c == coef * p
           d == DigitCount(c)
<1>1. p \in Nat \ {0} /\ p <= 100000
  <2>1. TenTo(s) <= TenTo(5)
    BY PowersGrow
  <2>2. TenTo(5) = 100000
    BY DEF TenTo
  <2> QED BY <2>1, <2>2, PowerStep
<1>2. c \in Int /\ Abs(c) = Abs(coef) * p /\ Abs(coef) \in Nat
  <2> HIDE DEF p
  <2>1. (-coef) * p = -(coef * p)
    BY <1>1
  <2>2. CASE coef < 0
    <3>1. coef * p < 0
      <4>1. (-coef) * p >= -coef
        BY <1>1, <2>2, Times
      <4> QED BY <1>1, <2>1, <2>2, <4>1
    <3> QED BY <1>1, <2>1, <2>2, <3>1 DEF Abs
  <2>3. CASE coef >= 0
    <3>1. coef * p >= 0
      BY <1>1, <2>3
    <3> QED BY <1>1, <2>3, <3>1 DEF Abs
  <2> QED BY <2>2, <2>3
<1>3. Abs(c) < 10000000000
  <2> HIDE DEF p
  <2>1. Abs(coef) * p <= 99999 * p
    BY <1>1, <1>2
  <2> QED BY <1>1, <1>2, <2>1
<1>4. /\ e \in 1 .. 10 /\ Abs(coef) < TenTo(e)
      /\ e = 1 \/ Abs(coef) >= TenTo(e - 1)
  BY <1>2, Digits
<1>5. /\ d \in 1 .. 10
      /\ d = 1 \/ Abs(c) >= TenTo(d - 1)
  BY <1>2, <1>3, Digits
<1> HIDE DEF d, e, c, p
<1>6. e <= 5
  <2> SUFFICES ASSUME e >= 6  PROVE FALSE
    BY <1>4
  <2>1. TenTo(5) <= TenTo(e - 1)
    BY <1>4, PowersGrow
  <2>2. TenTo(5) = 100000 /\ TenTo(e - 1) \in Nat
    <3>1. TenTo(5) = 100000
      BY DEF TenTo
    <3> QED BY <3>1, <1>4, PowerStep
  <2> QED BY <1>2, <1>4, <2>1, <2>2
<1>7. d <= e + s
  <2> SUFFICES ASSUME d > e + s  PROVE FALSE
    BY <1>4, <1>5
  <2>1. Abs(c) >= TenTo(d - 1)
    BY <1>4, <1>5
  <2>2. TenTo(e + s) <= TenTo(d - 1)
    BY <1>4, <1>5, <1>6, PowersGrow
  <2>3. TenTo(e + s) = TenTo(e) * p
    BY <1>4, <1>6, PowersAdd DEF p
  <2>4. TenTo(e) \in Nat /\ TenTo(d - 1) \in Nat
    BY <1>4, <1>5, PowerStep
  <2>5. Abs(coef) * p < TenTo(e) * p
    <3>1. (TenTo(e) - Abs(coef)) * p >= p
      BY <1>1, <1>2, <1>4, <2>4, Times
    <3>2. (TenTo(e) - Abs(coef)) * p = TenTo(e) * p - Abs(coef) * p
      BY <1>1, <1>2, <2>4
    <3> QED BY <1>1, <1>2, <2>4, <3>1, <3>2
  <2> QED BY <1>1, <1>2, <2>1, <2>2, <2>3, <2>4, <2>5
<1> QED BY <1>4, <1>5, <1>7 DEF d, e, c, p

(* Within the context nothing is rounded away: the digits a conversion     *)
(* drops are zeros the scale put there.                                    *)
LEMMA NothingRounded ==
  ASSUME NEW a, a.coef \in Int, Abs(a.coef) < 100000, WithinContext(a),
         NEW s \in 0 .. 5
  PROVE  \E lost \in 0 .. s :
           Scaled(a, s) = [coef |-> a.coef * TenTo(s - lost), exp |-> a.exp + lost]
<1> DEFINE c == a.coef * TenTo(s)
           lost == IF DigitCount(c) > ContextDigits
                   THEN DigitCount(c) - ContextDigits ELSE 0
<1>1. /\ DigitCount(a.coef) \in 1 .. 10 /\ DigitCount(c) \in 1 .. 10
      /\ DigitCount(c) <= DigitCount(a.coef) + s
  BY ScaleDigits
<1>2. Scaled(a, s) = [coef |-> DropDigits(c, lost), exp |-> a.exp + lost]
  BY DEF Scaled, TenTo
<1> HIDE DEF c
<1>3. lost \in 0 .. s
  BY <1>1, DigitsAssumption DEF WithinContext
<1> HIDE DEF lost
<1> DEFINE p == TenTo(lost)
           q == a.coef * TenTo(s - lost)
<1>4. p \in Nat \ {0} /\ TenTo(s - lost) \in Nat \ {0} /\ q \in Int
  <2>1. s - lost \in 0 .. 10 /\ lost \in 0 .. 10
    BY <1>3
  <2> QED BY <2>1, PowerStep
<1>5. c = q * p
  <2>1. TenTo((s - lost) + lost) = TenTo(s - lost) * p
    BY <1>3, PowersAdd
  <2>2. (s - lost) + lost = s
    BY <1>3
  <2>3. a.coef * (TenTo(s - lost) * p) = (a.coef * TenTo(s - lost)) * p
    BY <1>4
  <2> QED BY <2>1, <2>2, <2>3 DEF c
<1> HIDE DEF p, q
<1>6. Abs(c) = Abs(q) * p /\ Abs(q) \in Nat
  <2>1. (-q) * p = -(q * p)
    BY <1>4
  <2>2. CASE q < 0
    <3>1. (-q) * p >= -q
      BY <1>4, <2>2, Times
    <3> QED BY <1>4, <1>5, <2>1, <2>2, <3>1 DEF Abs
  <2>3. CASE q >= 0
    <3>1. q * p >= 0
      BY <1>4, <2>3
    <3> QED BY <1>4, <1>5, <2>3, <3>1 DEF Abs
  <2> QED BY <1>4, <2>2, <2>3
<1>7. Abs(c) \div p = Abs(q) /\ Abs(c) % p = 0
  BY <1>4, <1>6, DivExact
<1>8. (c < 0) <=> (q < 0)
  <2>1. CASE q < 0
    <3>1. (-q) * p >= -q
      BY <1>4, <2>1, Times
    <3>2. (-q) * p = -(q * p)
      BY <1>4
    <3> QED BY <1>4, <1>5, <2>1, <3>1, <3>2
  <2>2. CASE q >= 0
    <3>1. q * p >= 0
      BY <1>4, <2>2
    <3> QED BY <1>4, <1>5, <2>2, <3>1
  <2> QED BY <1>4, <2>1, <2>2
<1>9. DropDigits(c, lost) = q
  <2> DEFINE up == \/ 2 * (Abs(c) % p) > p
                   \/ 2 * (Abs(c) % p) = p /\ (Abs(c) \div p) % 2 = 1
  <2>1. ~up
    BY <1>4, <1>7
  <2> HIDE DEF up
  <2>2. DropDigits(c, lost) = IF c < 0
                              THEN -(IF lost > 0 /\ up THEN (Abs(c) \div p) + 1
                                     ELSE Abs(c) \div p)
                              ELSE IF lost > 0 /\ up THEN (Abs(c) \div p) + 1
                                   ELSE Abs(c) \div p
    BY DEF DropDigits, up, p, TenTo
  <2>3. DropDigits(c, lost) = IF c < 0 THEN -Abs(q) ELSE Abs(q)
    BY <1>7, <2>1, <2>2
  <2> QED BY <1>4, <1>8, <2>3 DEF Abs
<1> QED BY <1>2, <1>3, <1>9 DEF q

(* _scale_exact, for an amount of at most five digits and six decimals     *)
(* that the context holds: it is an integer if and only if the amount has  *)
(* the tick, and then the amount is what the wire says.                    *)
LEMMA ScaleExact ==
  ASSUME NEW a, a.coef \in Int, Abs(a.coef) < 100000, a.exp \in -6 .. 0,
         WithinContext(a), NEW s \in 0 .. 5
  PROVE  /\ IsInteger(Scaled(a, s)) <=> (a.coef * TenTo(s)) % TenTo(-a.exp) = 0
         /\ IsInteger(Scaled(a, s)) =>
              /\ AsInteger(Scaled(a, s)) \in Int
              /\ AsInteger(Scaled(a, s)) * TenTo(-a.exp) = a.coef * TenTo(s)
<1>1. PICK lost \in 0 .. s :
        Scaled(a, s) = [coef |-> a.coef * TenTo(s - lost), exp |-> a.exp + lost]
  BY NothingRounded
<1> DEFINE x == a.coef * TenTo(s - lost)
           k == TenTo(lost)
<1>2. /\ TenTo(s - lost) \in Nat \ {0} /\ k \in Nat \ {0} /\ x \in Int
      /\ TenTo(-a.exp) \in Nat \ {0}
  <2>1. s - lost \in 0 .. 10 /\ lost \in 0 .. 10 /\ -a.exp \in 0 .. 10
    BY <1>1
  <2> QED BY <2>1, PowerStep
<1>3. a.coef * TenTo(s) = x * k
  <2>1. TenTo((s - lost) + lost) = TenTo(s - lost) * k
    BY <1>1, PowersAdd
  <2>2. (s - lost) + lost = s
    BY <1>1
  <2>3. a.coef * (TenTo(s - lost) * k) = (a.coef * TenTo(s - lost)) * k
    BY <1>2
  <2> QED BY <2>1, <2>2, <2>3
<1>4. Scaled(a, s).coef = x /\ Scaled(a, s).exp = a.exp + lost
  BY <1>1
<1>5. CASE a.exp + lost >= 0
  <2> DEFINE g == TenTo(a.exp + lost)
             h == TenTo(-a.exp)
  <2>1. a.exp + lost \in 0 .. 10 /\ -a.exp \in 0 .. 10
    BY <1>1, <1>5
  <2>2. g \in Nat \ {0}
    BY <2>1, PowerStep
  <2>3. k = g * h
    <3>1. TenTo((a.exp + lost) + (-a.exp)) = g * h
      BY <1>1, <2>1, PowersAdd
    <3>2. (a.exp + lost) + (-a.exp) = lost
      BY <1>1
    <3> QED BY <3>1, <3>2
  <2>4. IsInteger(Scaled(a, s)) /\ AsInteger(Scaled(a, s)) = x * g
    BY <1>4, <1>5 DEF IsInteger, AsInteger, TenTo
  <2> HIDE DEF x, k, g
  <2>5. a.coef * TenTo(s) = (x * g) * h
    <3> HIDE DEF h
    <3>1. h \in Int
      BY <1>2 DEF h
    <3>2. x * (g * h) = (x * g) * h
      BY <1>2, <2>2, <3>1
    <3> QED BY <1>3, <2>3, <3>2
  <2>6. x * g \in Int
    BY <1>2, <2>2
  <2>7. (a.coef * TenTo(s)) % h = 0
    BY <1>2, <2>5, <2>6, DivExact
  <2> QED BY <2>4, <2>5, <2>6, <2>7
<1>6. CASE a.exp + lost < 0
  <2> DEFINE t == TenTo(-(a.exp + lost))
             h == TenTo(-a.exp)
  <2>1. -(a.exp + lost) \in 0 .. 10
    BY <1>1, <1>6
  <2>2. t \in Nat \ {0}
    BY <2>1, PowerStep
  <2>3. h = t * k
    <3>1. TenTo((-(a.exp + lost)) + lost) = t * k
      BY <1>1, <2>1, PowersAdd
    <3>2. (-(a.exp + lost)) + lost = -a.exp
      BY <1>1
    <3> QED BY <3>1, <3>2
  <2>4. /\ IsInteger(Scaled(a, s)) <=> x % t = 0
        /\ AsInteger(Scaled(a, s)) = x \div t
    <3>1. ~(Scaled(a, s).exp >= 0)
      BY <1>1, <1>4, <1>6
    <3>2. 10 ^ (-Scaled(a, s).exp) = t
      BY <1>4 DEF TenTo
    <3> HIDE DEF x, t
    <3> QED BY <1>4, <3>1, <3>2 DEF IsInteger, AsInteger
  <2> HIDE DEF x, k, t, h
  <2>5. (x * k) % (t * k) = 0 <=> x % t = 0
    <3>1. x \in Int /\ t \in Nat \ {0} /\ k \in Nat \ {0}
      BY <1>2, <2>2
    <3> QED BY ONLY <3>1, ModScale, Zenon
  <2>6. ASSUME x % t = 0  PROVE x \div t \in Int /\ (x \div t) * h = x * k
    <3> DEFINE q == x \div t
    <3>1. q \in Int /\ x = q * t
      BY <1>2, <2>2, <2>6, Multiple
    <3> HIDE DEF q
    <3>2. q * (t * k) = (q * t) * k
      BY <1>2, <2>2, <3>1
    <3> QED BY <2>3, <3>1, <3>2 DEF q
  <2>7. a.coef * TenTo(s) = x * k
    BY <1>3 DEF x, k
  <2> QED BY <2>3, <2>4, <2>5, <2>6, <2>7 DEF h
<1> QED BY <1>1, <1>5, <1>6

-----------------------------------------------------------------------------
(* The builders: a least index exists.                                     *)

USE KeyAssumption, AbsentAssumption, BasketAssumption, WireAssumption

(* The least element of a set of numbers is one of them.  The sets 1 .. i  *)
(* for i in S are finite and ordered as the numbers are, so that a least   *)
(* of them exists.                                                         *)
LEMMA Least ==
  ASSUME NEW S \in SUBSET (Nat \ {0}), S # {}
  PROVE  FirstOf(S) \in S /\ \A j \in S : FirstOf(S) <= j
<1>1. \E i \in S : \A j \in S : i <= j
  <2>1. PICK m \in S : TRUE
    OBVIOUS
  <2> DEFINE T == {1 .. i : i \in {j \in S : j <= m}}
  <2>2. IsWellFoundedOn(StrictSubsetOrdering(1 .. m), FiniteSubsetsOf(1 .. m))
    BY FS_StrictSubsetOrderingWellFounded
  <2>3. T \subseteq FiniteSubsetsOf(1 .. m) /\ T # {}
    <3>1. \A i \in Nat : IsFiniteSet(1 .. i)
      BY FS_Interval
    <3> QED BY <3>1, <2>1 DEF FiniteSubsetsOf
  <2>4. PICK x \in T : \A y \in T : ~(<<y, x>> \in StrictSubsetOrdering(1 .. m))
    BY <2>2, <2>3, WFMin
  <2>5. PICK i \in S : i <= m /\ x = 1 .. i
    BY <2>4
  <2>6. ASSUME NEW j \in S, j < i  PROVE FALSE
    <3>1. 1 .. j \in T /\ 1 .. j \subseteq 1 .. m /\ 1 .. i \subseteq 1 .. m
      BY <2>5, <2>6, <2>1
    <3>2. 1 .. j \subseteq 1 .. i /\ i \in 1 .. i /\ i \notin 1 .. j
      BY <2>6
    <3>3. <<1 .. j, 1 .. i>> \in StrictSubsetOrdering(1 .. m)
      BY <3>1, <3>2 DEF StrictSubsetOrdering
    <3> QED BY <3>1, <3>3, <2>4, <2>5
  <2> QED BY <2>6
<1> QED BY <1>1 DEF FirstOf


-----------------------------------------------------------------------------
(* One order.                                                              *)

(* A refusal by the first group of checks.                                 *)
LEMMA IdentityRefusal ==
  ASSUME NEW a \in SubmitArgs
  PROVE  /\ IdentityFault(a) \notin {"none", "client_order_id"} =>
              ~GatewayTakesOrder(SubmitRequest(a))
         /\ IdentityFault(a) \notin OwnChecks \ {"client_order_id"}
         /\ IdentityFault(a) = "none" =>
              /\ a.side # "SIDE_UNSPECIFIED" /\ a.area = "eic"
              /\ a.contract \/ (a.product /\ a.start)
              /\ a.end => a.type = "BLOCK" /\ a.product /\ a.start /\ ~a.contract
              /\ a.type = "BLOCK" => a.exe \notin {"NON", "IOC"}
<1>1. SubmitRequest(a) = [a EXCEPT !.display = OrZero(a.display)]
  BY DEF SubmitRequest
<1>2. /\ SubmitRequest(a).side = a.side /\ SubmitRequest(a).area = a.area
      /\ SubmitRequest(a).contract = a.contract /\ SubmitRequest(a).product = a.product
      /\ SubmitRequest(a).start = a.start /\ SubmitRequest(a).end = a.end
      /\ SubmitRequest(a).type = a.type /\ SubmitRequest(a).exe = a.exe
  BY <1>1 DEF SubmitArgs
<1>3. IdentityFault(a) \notin {"none", "client_order_id"} =>
        ~GatewayTakesOrder(SubmitRequest(a))
  BY <1>2 DEF IdentityFault, CheckBlock, GatewayTakesOrder, SubmitArgs
<1> QED BY <1>3 DEF IdentityFault, CheckBlock, OwnChecks, SubmitArgs

(* A refusal by the amounts, and what the checks leave of them.            *)
LEMMA AmountRefusal ==
  ASSUME NEW a \in SubmitArgs
  PROVE  /\ AmountFault(a) \notin {"none"} \cup OwnChecks =>
              ~GatewayTakesOrder(SubmitRequest(a))
         /\ AmountFault(a) = "none" =>
              LET r == SubmitRequest(a) IN
              /\ r.exe \in {"FOK", "IOC"} => r.validity = "VALIDITY_NON"
              /\ r.quantity > 0
              /\ (r.type = "ICEBERG") <=> (r.display > 0)
              /\ r.type = "ICEBERG" => r.display < r.quantity
<1>1. SubmitRequest(a) = [a EXCEPT !.display = OrZero(a.display)]
  BY DEF SubmitRequest
<1>2. /\ SubmitRequest(a).quantity = a.quantity /\ SubmitRequest(a).validity = a.validity
      /\ SubmitRequest(a).type = a.type /\ SubmitRequest(a).exe = a.exe
      /\ SubmitRequest(a).display = OrZero(a.display)
  BY <1>1 DEF SubmitArgs
<1>3. /\ a.price \in AnyInt /\ a.quantity \in AnyInt /\ a.display \in AnyInt
      /\ a.type \in Types /\ a.exe \in Restrictions
  BY DEF SubmitArgs
<1>4. CASE \/ a.price \in {Absent, NotInt} \/ a.quantity \in {Absent, NotInt}
           \/ a.display = NotInt
  BY <1>4 DEF AmountFault, OwnChecks
<1>5. CASE /\ a.price \notin {Absent, NotInt} /\ a.quantity \notin {Absent, NotInt}
           /\ a.display # NotInt
  <2>1. a.quantity \in Int /\ a.display \in Int \cup {Absent}
        /\ OrZero(a.display) \in Int
    BY <1>3, <1>5 DEF AnyInt, OrZero
  <2>2. CASE a.quantity <= 0
    BY <1>2, <1>5, <2>1, <2>2 DEF AmountFault, OwnChecks, GatewayTakesOrder
  <2>3. CASE ~(a.quantity <= 0) /\ DisplayFault(a) # "none"
    <3>1. /\ AmountFault(a) = DisplayFault(a)
          /\ AmountFault(a) # "none"
      BY <1>5, <2>3 DEF AmountFault
    <3>2. ~((a.type = "ICEBERG") <=> (OrZero(a.display) > 0))
          \/ (a.type = "ICEBERG" /\ ~(OrZero(a.display) < a.quantity))
      BY <2>1, <2>3 DEF DisplayFault, OrZero
    <3>3. ~GatewayTakesOrder(SubmitRequest(a))
      BY <1>2, <1>3, <3>2 DEF GatewayTakesOrder, Types
    <3> QED BY <3>1, <3>3
  <2>4. CASE ~(a.quantity <= 0) /\ DisplayFault(a) = "none"
             /\ a.exe \in {"FOK", "IOC"} /\ a.validity # "VALIDITY_NON"
    BY <1>2, <1>3, <1>5, <2>4 DEF AmountFault, GatewayTakesOrder
  <2>5. CASE ~(a.quantity <= 0) /\ DisplayFault(a) = "none"
             /\ ~(a.exe \in {"FOK", "IOC"} /\ a.validity # "VALIDITY_NON")
    <3>1. AmountFault(a) \in {"wire_width", "none"}
      BY <1>5, <2>5 DEF AmountFault
    <3>2. AmountFault(a) = "none" => FitsUnsigned(OrZero(a.display))
      BY <1>5, <2>5 DEF AmountFault
    <3>3. FitsUnsigned(OrZero(a.display)) =>
            /\ (a.type = "ICEBERG") <=> (OrZero(a.display) > 0)
            /\ a.type = "ICEBERG" => OrZero(a.display) < a.quantity
      BY <2>1, <2>5 DEF DisplayFault, OrZero, FitsUnsigned
    <3>4. a.quantity > 0
      BY <2>1, <2>5
    <3> QED BY <1>2, <2>5, <3>1, <3>2, <3>3, <3>4 DEF OwnChecks
  <2> QED BY <2>2, <2>3, <2>4, <2>5
<1> QED BY <1>4, <1>5

(* submit_order, whatever its arguments: a refusal for a rule of the       *)
(* gateway's is one the gateway would make too, and a named request that   *)
(* passes every check is taken.                                            *)
THEOREM SubmitChecks ==
  ASSUME NEW a \in SubmitArgs
  PROVE  /\ SubmitFault(a) \notin {"none"} \cup OwnChecks =>
              ~GatewayTakesOrder(SubmitRequest(a))
         /\ SubmitFault(a) = "none" /\ Named(a) => GatewayTakesOrder(SubmitRequest(a))
<1>1. SubmitFault(a) \notin {"none"} \cup OwnChecks =>
        ~GatewayTakesOrder(SubmitRequest(a))
  BY IdentityRefusal, AmountRefusal DEF SubmitFault, OwnChecks
<1>2. SubmitFault(a) = "none" => IdentityFault(a) = "none" /\ AmountFault(a) = "none"
  BY DEF SubmitFault
<1>3. /\ SubmitRequest(a).side = a.side /\ SubmitRequest(a).area = a.area
      /\ SubmitRequest(a).contract = a.contract /\ SubmitRequest(a).product = a.product
      /\ SubmitRequest(a).start = a.start /\ SubmitRequest(a).end = a.end
      /\ SubmitRequest(a).type = a.type /\ SubmitRequest(a).exe = a.exe
  BY DEF SubmitRequest, SubmitArgs
<1>4. SubmitFault(a) = "none" /\ Named(a) => GatewayTakesOrder(SubmitRequest(a))
  <2> SUFFICES ASSUME SubmitFault(a) = "none", Named(a)
               PROVE  GatewayTakesOrder(SubmitRequest(a))
    OBVIOUS
  <2>1. a.type \in Types /\ a.exe \in Restrictions
    BY DEF SubmitArgs
  <2>2. a.type = "BLOCK" => a.exe \in {"AON", "FOK"}
    BY <1>2, <2>1, IdentityRefusal DEF Named, Restrictions
  <2> QED
    BY <1>2, <1>3, <2>2, IdentityRefusal, AmountRefusal DEF GatewayTakesOrder, Named
<1> QED BY <1>1, <1>4

-----------------------------------------------------------------------------
(* A basket of them.                                                       *)

(* What the pairs of repeated keys and the other sets of indices hold.     *)
LEMMA Indices ==
  ASSUME NEW orders \in Seq(SubmitArgs)
  PROVE  /\ Len(orders) \in Nat
         /\ \A i \in 1 .. Len(orders) : orders[i] \in SubmitArgs
         /\ Faulty(orders) # {} =>
              /\ FirstOf(Faulty(orders)) \in 1 .. Len(orders)
              /\ OrderFault(orders[FirstOf(Faulty(orders))]) # "none"
         /\ Repeats(orders) # {} =>
              \E p \in Repeats(orders) : FirstOf({q[2] : q \in Repeats(orders)}) = p[2]
         /\ {i \in 1 .. Len(orders) : orders[i].exe # "FOK"} # {} =>
              LET i == FirstOf({j \in 1 .. Len(orders) : orders[j].exe # "FOK"}) IN
              i \in 1 .. Len(orders) /\ orders[i].exe # "FOK"
<1>1. Len(orders) \in Nat /\ \A i \in 1 .. Len(orders) : orders[i] \in SubmitArgs
  OBVIOUS
<1>2. ASSUME Faulty(orders) # {}
      PROVE  FirstOf(Faulty(orders)) \in Faulty(orders)
  <2>1. Faulty(orders) \in SUBSET (Nat \ {0})
    BY <1>1 DEF Faulty
  <2> QED BY <1>2, <2>1, Least
<1>3. ASSUME Repeats(orders) # {}
      PROVE  FirstOf({q[2] : q \in Repeats(orders)}) \in {q[2] : q \in Repeats(orders)}
  <2>1. {q[2] : q \in Repeats(orders)} \in SUBSET (Nat \ {0})
    BY <1>1 DEF Repeats
  <2>2. {q[2] : q \in Repeats(orders)} # {}
    <3>1. PICK q \in Repeats(orders) : TRUE
      BY <1>3
    <3> QED BY <3>1
  <2> QED BY <2>1, <2>2, Least
<1>4. ASSUME {i \in 1 .. Len(orders) : orders[i].exe # "FOK"} # {}
      PROVE  FirstOf({j \in 1 .. Len(orders) : orders[j].exe # "FOK"})
               \in {j \in 1 .. Len(orders) : orders[j].exe # "FOK"}
  <2>1. {i \in 1 .. Len(orders) : orders[i].exe # "FOK"} \in SUBSET (Nat \ {0})
    BY <1>1
  <2> QED BY <1>4, <2>1, Least
<1> QED BY <1>1, <1>2, <1>3, <1>4 DEF Faulty

(* An order of a basket is refused for a rule of the gateway's or taken.   *)
LEMMA OrderChecks ==
  ASSUME NEW a \in SubmitArgs
  PROVE  /\ OrderFault(a) \notin {"none"} \cup OwnChecks =>
              a.end \/ ~GatewayTakesOrder(SubmitRequest(a))
         /\ OrderFault(a) = "none" /\ Named(a) =>
              ~a.end /\ GatewayTakesOrder(SubmitRequest(a))
  BY SubmitChecks DEF OrderFault

(* submit_basket, whatever its kind and however many orders: a refusal for *)
(* a rule of the gateway's is one the gateway would make too, a basket of  *)
(* named orders that passes every check is taken, and the order at the     *)
(* index a refusal names is one to blame.                                  *)
THEOREM BasketChecks ==
  ASSUME NEW b, b.orders \in Seq(SubmitArgs)
  PROVE  /\ BasketFault(b).fault \notin {"none"} \cup OwnChecks => ~GatewayTakesBasket(b)
         /\ BasketFault(b).fault = "none" /\ (\A i \in DOMAIN b.orders : Named(b.orders[i]))
              => GatewayTakesBasket(b)
         /\ BasketFault(b).index # 0 =>
              LET i == BasketFault(b).index IN
              \/ OrderFault(b.orders[i]) # "none"
              \/ \E j \in 1 .. i - 1 : b.orders[j].key = b.orders[i].key
              \/ b.inst = "linked" /\ b.orders[i].exe # "FOK"
<1> DEFINE o == b.orders
           notFok == {i \in 1 .. Len(o) : o[i].exe # "FOK"}
<1>1. /\ o \in Seq(SubmitArgs) /\ DOMAIN o = 1 .. Len(o) /\ Len(o) \in Nat
      /\ \A i \in 1 .. Len(o) : o[i] \in SubmitArgs
  BY Indices
<1>2. CASE b.inst \notin {"none", "valid", "linked"} \/ o = <<>> \/ Len(o) > MaxBasket
  <2>1. BasketFault(b).fault \in {"inst", "empty", "too_large"}
        /\ BasketFault(b).index = 0
    BY <1>2 DEF BasketFault, Refused
  <2>2. ~GatewayTakesBasket(b)
    BY <1>1, <1>2 DEF GatewayTakesBasket
  <2> QED BY <2>1, <2>2
<1>3. CASE /\ b.inst \in {"none", "valid", "linked"} /\ o # <<>>
           /\ ~(Len(o) > MaxBasket) /\ Faulty(o) # {}
  <2> DEFINE i == FirstOf(Faulty(o))
  <2>1. i \in 1 .. Len(o) /\ OrderFault(o[i]) # "none"
    BY <1>1, <1>3, Indices
  <2>2. BasketFault(b) = Refused(i, OrderFault(o[i]))
    BY <1>3 DEF BasketFault
  <2>3. BasketFault(b).index = i /\ BasketFault(b).fault = OrderFault(o[i])
    BY <2>2 DEF Refused
  <2>4. OrderFault(o[i]) \notin {"none"} \cup OwnChecks => ~GatewayTakesBasket(b)
    BY <1>1, <2>1, OrderChecks DEF GatewayTakesBasket
  <2> QED BY <2>1, <2>3, <2>4
<1>4. CASE /\ b.inst \in {"none", "valid", "linked"} /\ o # <<>>
           /\ ~(Len(o) > MaxBasket) /\ Faulty(o) = {} /\ Repeats(o) # {}
  <2> DEFINE i == FirstOf({q[2] : q \in Repeats(o)})
  <2>1. BasketFault(b) = Refused(i, "repeats")
    BY <1>4 DEF BasketFault, CheckBasketOrders
  <2>2. BasketFault(b).index = i /\ BasketFault(b).fault = "repeats"
    BY <2>1 DEF Refused
  <2>3. PICK p \in Repeats(o) : i = p[2]
    BY <1>1, <1>4, Indices
  <2>4. p[1] \in 1 .. i - 1 /\ o[p[1]].key = o[i].key
    <3>1. /\ p[1] \in 1 .. Len(o) /\ p[2] \in 1 .. Len(o) /\ p[1] < p[2]
          /\ o[p[1]].key = o[p[2]].key
      BY DEF Repeats
    <3>2. p[1] \in 1 .. p[2] - 1
      BY <1>1, <3>1
    <3> HIDE DEF i
    <3> QED BY <2>3, <3>1, <3>2
  <2>5. ~GatewayTakesBasket(b)
    BY <1>4 DEF GatewayTakesBasket
  <2> QED BY <2>2, <2>4, <2>5
<1>5. CASE /\ b.inst \in {"none", "valid", "linked"} /\ o # <<>>
           /\ ~(Len(o) > MaxBasket) /\ Faulty(o) = {} /\ Repeats(o) = {}
  <2>1. \A i \in 1 .. Len(o) : OrderFault(o[i]) = "none"
    BY <1>5 DEF Faulty
  <2>2. CASE b.inst = "linked" /\ notFok # {}
    <3>1. BasketFault(b) = Refused(FirstOf(notFok), "linked")
      BY <1>5, <2>2 DEF BasketFault, CheckBasketOrders
    <3>2. BasketFault(b).index = FirstOf(notFok) /\ BasketFault(b).fault = "linked"
      BY <3>1 DEF Refused
    <3>3. FirstOf(notFok) \in 1 .. Len(o) /\ o[FirstOf(notFok)].exe # "FOK"
      BY <1>1, <2>2, Indices
    <3>4. ~GatewayTakesBasket(b)
      BY <1>1, <2>2, <3>3 DEF GatewayTakesBasket
    <3> QED BY <2>2, <3>2, <3>3, <3>4
  <2>3. CASE ~(b.inst = "linked" /\ notFok # {})
    <3>1. BasketFault(b) = Refused(0, "none")
      BY <1>5, <2>3 DEF BasketFault, CheckBasketOrders
    <3>2. BasketFault(b).index = 0 /\ BasketFault(b).fault = "none"
      BY <3>1 DEF Refused
    <3>3. ASSUME \A i \in DOMAIN o : Named(o[i])
          PROVE  GatewayTakesBasket(b)
      <4>1. \A i \in DOMAIN o : ~o[i].end /\ GatewayTakesOrder(SubmitRequest(o[i]))
        BY <1>1, <2>1, <3>3, OrderChecks
      <4>2. Len(o) \in 1 .. MaxBasket
        BY <1>1, <1>5
      <4>3. b.inst = "linked" => \A i \in DOMAIN o : o[i].exe = "FOK"
        BY <1>1, <2>3
      <4> QED BY <1>5, <4>1, <4>2, <4>3 DEF GatewayTakesBasket
    <3> QED BY <3>2, <3>3
  <2> QED BY <2>2, <2>3
<1> QED BY <1>2, <1>3, <1>4, <1>5

-----------------------------------------------------------------------------
(* The other builders.                                                     *)

(* modify_order, whatever its arguments: a restatement refused locally is  *)
(* one the gateway would refuse, one that passes under a named action is   *)
(* taken, and price and size reach the wire as they were passed.           *)
THEOREM ModifyChecks ==
  ASSUME NEW m \in ModifyArgs
  PROVE  /\ ModifyFault(m) \in {"restatement", "no_size", "display_size"} =>
              ~GatewayTakesModify(ModifyRequest(m))
         /\ ModifyFault(m) = "none" /\ m.action # "MODIFY_UNSPECIFIED" =>
              GatewayTakesModify(ModifyRequest(m))
         /\ ModifyRequest(m).price = m.price
         /\ ModifyRequest(m).quantity = m.quantity
<1>1. /\ ModifyRequest(m).price = m.price /\ ModifyRequest(m).quantity = m.quantity
      /\ ModifyRequest(m).action = m.action
      /\ ModifyRequest(m).display = OrZero(m.display)
  BY DEF ModifyRequest, ModifyArgs
<1>2. /\ m.price \in AnyInt /\ m.quantity \in AnyInt /\ m.display \in AnyInt
      /\ m.action \in Actions
  BY DEF ModifyArgs
<1>3. ASSUME ModifyFault(m) \in {"restatement", "no_size", "display_size"}
      PROVE  ~GatewayTakesModify(ModifyRequest(m))
  <2>1. /\ NotInt \notin {m.price, m.quantity, m.display} /\ m.action = "MODIFY"
        /\ CheckRestatement(m) # "none"
    BY <1>3 DEF ModifyFault
  <2>2. CASE Absent \in {m.price, m.quantity}
    BY <1>1, <2>1, <2>2 DEF GatewayTakesModify, ReadAsModify
  <2>3. CASE Absent \notin {m.price, m.quantity}
    <3>1. m.quantity \in Int /\ m.display \in Int \cup {Absent}
      BY <1>2, <2>1, <2>3 DEF AnyInt
    <3>2. m.quantity <= 0 \/ ~(OrZero(m.display) < m.quantity)
      BY <2>1, <2>3, <3>1 DEF CheckRestatement, OrZero
    <3>3. ~(m.quantity > 0 /\ OrZero(m.display) < m.quantity)
      BY <3>1, <3>2
    <3> QED BY <1>1, <2>1, <3>3 DEF GatewayTakesModify, ReadAsModify
  <2> QED BY <2>2, <2>3
<1>4. ASSUME ModifyFault(m) = "none", m.action # "MODIFY_UNSPECIFIED"
      PROVE  GatewayTakesModify(ModifyRequest(m))
  <2>1. NotInt \notin {m.price, m.quantity, m.display}
    BY <1>4 DEF ModifyFault
  <2>2. CASE m.action # "MODIFY"
    BY <1>1, <1>4, <2>2 DEF GatewayTakesModify, ReadAsModify
  <2>3. CASE m.action = "MODIFY"
    <3>1. CheckRestatement(m) = "none"
      BY <1>4, <2>1, <2>3 DEF ModifyFault
    <3>2. Absent \notin {m.price, m.quantity}
      BY <3>1 DEF CheckRestatement
    <3>3. m.quantity \in Int /\ m.display \in Int \cup {Absent}
      BY <1>2, <2>1, <3>2 DEF AnyInt
    <3>4. m.quantity > 0 /\ OrZero(m.display) < m.quantity
      BY <3>1, <3>2, <3>3 DEF CheckRestatement, OrZero
    <3> QED BY <1>1, <3>2, <3>4 DEF GatewayTakesModify
  <2> QED BY <2>2, <2>3
<1> QED BY <1>1, <1>3, <1>4

(* patch_member: what is refused as exclusive the gateway refuses, what    *)
(* passes it takes, and a field is left alone if and only if it was left   *)
(* out.                                                                    *)
LEMMA PatchChecks ==
  ASSUME NEW p \in [id : BOOLEAN, clear : BOOLEAN, fields : [PatchFields -> AnyInt]]
  PROVE  /\ PatchFault(p) = "exclusive" => ~GatewayTakesPatch(p)
         /\ PatchFault(p) = "none" => GatewayTakesPatch(p)
         /\ \A member \in [PatchFields -> {0, 1}], f \in PatchFields :
              AfterPatch(member, p)[f] =
                IF p.fields[f] # Absent THEN p.fields[f]
                ELSE IF f = "max_slot_position" /\ p.clear THEN Absent
                ELSE member[f]
<1>1. DOMAIN p.fields = PatchFields
  OBVIOUS
<1>2. /\ DOMAIN Present(p.fields) = {g \in PatchFields : p.fields[g] # Absent}
      /\ \A f \in DOMAIN Present(p.fields) : Present(p.fields)[f] = p.fields[f]
  BY <1>1 DEF Present
<1>3. "max_slot_position" \in PatchFields
  BY DEF PatchFields
<1>4. \A member \in [PatchFields -> {0, 1}], f \in PatchFields :
        AfterPatch(member, p)[f] =
          IF p.fields[f] # Absent THEN p.fields[f]
          ELSE IF f = "max_slot_position" /\ p.clear THEN Absent
          ELSE member[f]
  BY <1>2 DEF AfterPatch
<1> QED BY <1>2, <1>3, <1>4 DEF PatchFault, GatewayTakesPatch

(* set_cash_limit: the cap that was passed is the cap that stands.         *)
LEMMA CapKept == ASSUME NEW cap PROVE AfterCap(cap) = cap
  BY DEF AfterCap, Present

-----------------------------------------------------------------------------
(* A call.                                                                 *)

(* The order the others vary, and the one that fills or dies.              *)
LEMMA PlainOrder ==
  /\ Plain \in SubmitArgs /\ Named(Plain)
  /\ FillOrKill \in SubmitArgs /\ Named(FillOrKill)
<1>1. (CHOOSE k \in Keys : TRUE) \in Keys
  OBVIOUS
<1>2. 0 \in AnyInt /\ 2 \in AnyInt /\ Absent \in AnyInt
  BY DEF AnyInt
<1>3. Plain \in SubmitArgs
  BY <1>1, <1>2 DEF Plain, SubmitArgs, Types, Restrictions, Validities
<1>4. FillOrKill \in SubmitArgs
  BY <1>3 DEF FillOrKill, SubmitArgs, Restrictions, Validities
<1>5. Plain.type = "REGULAR" /\ Plain.exe = "NON"
  BY DEF Plain
<1>6. FillOrKill.type = "REGULAR" /\ FillOrKill.exe = "FOK"
  BY <1>3, <1>5 DEF FillOrKill, SubmitArgs
<1> QED BY <1>3, <1>4, <1>5, <1>6 DEF Named

(* The orders the calls vary are arguments of submit_order.                *)
LEMMA VariedOrders == Identities \cup Deliveries \cup Amounts \subseteq SubmitArgs
<1>1. Identities \subseteq SubmitArgs
  <2> SUFFICES ASSUME NEW v \in [key : Keys \cup {NoKey}, side : {"SIDE_UNSPECIFIED", "BUY"},
                                 area : {"missing", "short", "eic"}]
               PROVE  [Plain EXCEPT !.key = v.key, !.side = v.side, !.area = v.area]
                        \in SubmitArgs
    BY DEF Identities
  <2> QED BY PlainOrder DEF SubmitArgs
<1>2. Deliveries \subseteq SubmitArgs
  <2> SUFFICES ASSUME NEW v \in [contract : BOOLEAN, product : BOOLEAN, start : BOOLEAN,
                                 end : BOOLEAN, type : Types, exe : Restrictions,
                                 validity : Validities]
               PROVE  [Plain EXCEPT !.contract = v.contract, !.product = v.product,
                                    !.start = v.start, !.end = v.end, !.type = v.type,
                                    !.exe = v.exe, !.validity = v.validity] \in SubmitArgs
    BY DEF Deliveries
  <2> QED BY PlainOrder DEF SubmitArgs
<1>3. Amounts \subseteq SubmitArgs
  <2> SUFFICES ASSUME NEW v \in [type : Types, price : Values, quantity : Values,
                                 display : Values]
               PROVE  [Plain EXCEPT !.type = v.type, !.price = v.price,
                                    !.quantity = v.quantity, !.display = v.display]
                        \in SubmitArgs
    BY DEF Amounts
  <2>1. v.price \in AnyInt /\ v.quantity \in AnyInt /\ v.display \in AnyInt
    BY DEF Values, AnyInt
  <2> QED BY <2>1, PlainOrder DEF SubmitArgs
<1> QED BY <1>1, <1>2, <1>3

(* So are the baskets' orders, whose enums are all named.                  *)
LEMMA BasketsPassed ==
  ASSUME NEW b \in Baskets
  PROVE  b.orders \in Seq(SubmitArgs) /\ \A i \in DOMAIN b.orders : Named(b.orders[i])
<1>1. ASSUME NEW o \in BasketOrders  PROVE o \in SubmitArgs /\ Named(o)
  <2>1. ASSUME NEW k \in Keys \cup {NoKey}, NEW p \in {Plain, FillOrKill}
        PROVE  [p EXCEPT !.key = k] \in SubmitArgs /\ Named([p EXCEPT !.key = k])
    <3>1. p \in SubmitArgs /\ Named(p)
      BY PlainOrder
    <3> QED BY <3>1 DEF SubmitArgs, Named
  <2>2. /\ [FillOrKill EXCEPT !.end = TRUE] \in SubmitArgs
        /\ Named([FillOrKill EXCEPT !.end = TRUE])
    BY PlainOrder DEF SubmitArgs, Named
  <2>3. 0 \in AnyInt
    BY DEF AnyInt
  <2>4. /\ [Plain EXCEPT !.quantity = 0] \in SubmitArgs
        /\ Named([Plain EXCEPT !.quantity = 0])
    BY <2>3, PlainOrder DEF SubmitArgs, Named
  <2> DEFINE S == {[Plain EXCEPT !.key = k] : k \in Keys \cup {NoKey}}
             F == {[FillOrKill EXCEPT !.key = k] : k \in Keys}
             x == [FillOrKill EXCEPT !.end = TRUE]
             y == [Plain EXCEPT !.quantity = 0]
             Fine(p) == p \in SubmitArgs /\ Named(p)
  <2>5. \A p \in S : Fine(p)
    BY <2>1
  <2>6. \A p \in F : Fine(p)
    BY <2>1
  <2>7. Fine(x) /\ Fine(y)
    BY <2>2, <2>4
  <2>8. o \in S \cup F \cup {x, y}
    BY DEF BasketOrders
  <2> HIDE DEF S, F, x, y
  <2> QED BY <2>5, <2>6, <2>7, <2>8
<1>2. PICK n \in 0 .. MaxBasket + 1 : b.orders \in [1 .. n -> BasketOrders]
  BY DEF Baskets
<1>3. n \in Nat /\ b.orders \in [1 .. n -> SubmitArgs]
  BY <1>1, <1>2
<1>4. b.orders \in Seq(SubmitArgs) /\ DOMAIN b.orders = 1 .. n
  BY <1>3
<1> QED BY <1>1, <1>2, <1>4

(* What patch_member may be passed.                                        *)
PatchArgs == [id : BOOLEAN, clear : BOOLEAN, fields : [PatchFields -> AnyInt]]

(* What each call passes.                                                  *)
LEMMA Passed ==
  ASSUME NEW c \in BuilderCalls
  PROVE  /\ c.rpc = "SubmitOrder" => c.args \in SubmitArgs
         /\ c.rpc = "SubmitBasket" => c.args \in Baskets
         /\ c.rpc = "ModifyOrder" => c.args \in ModifyArgs
         /\ c.rpc = "PatchMember" => c.args \in PatchArgs
         /\ c.rpc = "convert" => c.args \in Conversions
         /\ c.rpc \in {"SubmitOrder", "SubmitBasket", "ModifyOrder", "PatchMember",
                       "SetCashLimit", "convert"} \cup DOMAIN ModeNames
<1>1. Modifies \subseteq ModifyArgs
  <2>1. Values \subseteq AnyInt
    BY DEF Values, AnyInt
  <2> QED BY <2>1 DEF Modifies, ModifyArgs
<1>2. Patches \subseteq PatchArgs
  <2>1. {Absent, 0, 1} \subseteq AnyInt
    BY DEF AnyInt
  <2>2. [PatchFields -> {Absent, 0, 1}] \subseteq [PatchFields -> AnyInt]
    BY <2>1
  <2> HIDE DEF PatchFields
  <2> QED BY <2>2 DEF Patches, PatchArgs
<1>3. DOMAIN ModeNames = {"SetSelfTradePolicy", "SetSlotLimit"}
  BY DEF ModeNames
<1>4. \/ c \in [rpc : {"SubmitOrder"}, args : Identities \cup Deliveries \cup Amounts]
      \/ c \in [rpc : {"SubmitBasket"}, args : Baskets]
      \/ c \in [rpc : {"ModifyOrder"}, args : Modifies]
      \/ c \in [rpc : {"PatchMember"}, args : Patches]
      \/ c \in [rpc : {"SetCashLimit"}, args : {Absent, 0, 1}]
      \/ c \in [rpc : DOMAIN ModeNames, args : Names]
      \/ c \in [rpc : {"convert"}, args : Conversions]
  BY DEF BuilderCalls
<1> QED BY <1>1, <1>2, <1>3, <1>4, VariedOrders

(* A call is unbuilt or has the fault its builder finds, and what is       *)
(* judged was built without one, is no conversion, and was refused only if *)
(* the gateway does not take it.                                           *)
FaultOf(c) ==
  CASE c.rpc = "SubmitOrder"  -> SubmitFault(c.args)
    [] c.rpc = "SubmitBasket" -> BasketFault(c.args).fault
    [] c.rpc = "ModifyOrder"  -> ModifyFault(c.args)
    [] c.rpc = "PatchMember"  -> PatchFault(c.args)
    [] c.rpc = "SetCashLimit" -> "none"
    [] c.rpc = "convert"      -> ScaleFault(c.args.field, c.args.amount)
    [] OTHER                  -> ModeFault(c.rpc, c.args)
BuilderInv ==
  /\ call \in BuilderCalls
  /\ local = "unbuilt" \/ local = FaultOf(call)
  /\ verdict = "refused" => local = "none" /\ call.rpc # "convert" /\ ~Taken

LEMMA BuilderInductive == BuilderSpec => []BuilderInv
<1>1. BuilderInit => BuilderInv
  BY DEF BuilderInit, BuilderInv
<1>2. BuilderInv /\ [BuilderNext]_builderVars => BuilderInv'
  <2> SUFFICES ASSUME BuilderInv, [BuilderNext]_builderVars  PROVE BuilderInv'
    OBVIOUS
  <2>1. ASSUME call' = call PROVE FaultOf(call)' = FaultOf(call) /\ Taken' = Taken
    BY <2>1 DEF FaultOf, Taken
  <2>2. CASE SubmitOrder
    BY <2>1, <2>2 DEF BuilderInv, SubmitOrder, FaultOf
  <2>3. CASE SubmitBasket
    BY <2>1, <2>3 DEF BuilderInv, SubmitBasket, FaultOf
  <2>4. CASE ModifyOrder
    BY <2>1, <2>4 DEF BuilderInv, ModifyOrder, FaultOf
  <2>5. CASE PatchMember
    BY <2>1, <2>5 DEF BuilderInv, PatchMember, FaultOf
  <2>6. CASE SetCashLimit
    BY <2>1, <2>6 DEF BuilderInv, SetCashLimit, FaultOf
  <2>7. CASE SetMode
    BY <2>1, <2>7 DEF BuilderInv, SetMode, FaultOf, ModeNames
  <2>8. CASE Convert
    BY <2>1, <2>8 DEF BuilderInv, Convert, FaultOf
  <2>9. CASE Judge
    BY <2>1, <2>9 DEF BuilderInv, Judge
  <2>10. CASE UNCHANGED builderVars
    BY <2>1, <2>10 DEF BuilderInv, builderVars
  <2> QED BY <2>2, <2>3, <2>4, <2>5, <2>6, <2>7, <2>8, <2>9, <2>10 DEF BuilderNext
<1> QED BY <1>1, <1>2, PTL DEF BuilderSpec

(* "All of these mirror rules the gateway also enforces": no builder       *)
(* refuses, for a rule it cites of the gateway's, what the gateway takes.  *)
THEOREM NothingStricter == BuilderSpec => []NeverStricter
<1>1. BuilderInv => NeverStricter
  <2> SUFFICES ASSUME BuilderInv  PROVE NeverStricter
    OBVIOUS
  <2>1. call \in BuilderCalls
    BY DEF BuilderInv
  <2>2. CASE call.rpc = "SubmitOrder"
    BY <2>1, <2>2, Passed, SubmitChecks DEF BuilderInv, FaultOf, NeverStricter
  <2>3. CASE call.rpc = "SubmitBasket"
    BY <2>1, <2>3, Passed, BasketsPassed, BasketChecks
    DEF BuilderInv, FaultOf, NeverStricter
  <2>4. CASE call.rpc = "ModifyOrder"
    BY <2>1, <2>4, Passed, ModifyChecks DEF BuilderInv, FaultOf, NeverStricter
  <2>5. CASE call.rpc = "PatchMember"
    BY <2>1, <2>5, Passed, PatchChecks DEF BuilderInv, FaultOf, NeverStricter, PatchArgs
  <2> QED BY <2>2, <2>3, <2>4, <2>5 DEF NeverStricter
<1> QED BY <1>1, BuilderInductive, PTL

(* A request the builders passed and whose enums are named is taken.       *)
THEOREM CheckedTaken == BuilderSpec => []CheckedIsTaken
<1>1. BuilderInv => CheckedIsTaken
  <2> SUFFICES ASSUME BuilderInv, verdict = "refused"
               PROVE  \/ call.rpc = "SubmitOrder" /\ ~Named(call.args)
                      \/ call.rpc = "ModifyOrder" /\ call.args.action = "MODIFY_UNSPECIFIED"
    BY DEF CheckedIsTaken
  <2>1. call \in BuilderCalls /\ FaultOf(call) = "none" /\ ~Taken /\ call.rpc # "convert"
    BY DEF BuilderInv
  <2>2. CASE call.rpc = "SubmitOrder"
    BY <2>1, <2>2, Passed, SubmitChecks DEF FaultOf, Taken
  <2>3. CASE call.rpc = "SubmitBasket"
    BY <2>1, <2>3, Passed, BasketsPassed, BasketChecks DEF FaultOf, Taken
  <2>4. CASE call.rpc = "ModifyOrder"
    BY <2>1, <2>4, Passed, ModifyChecks DEF FaultOf, Taken
  <2>5. CASE call.rpc = "PatchMember"
    BY <2>1, <2>5, Passed, PatchChecks DEF FaultOf, Taken, PatchArgs
  <2>6. CASE call.rpc = "SetCashLimit"
    BY <2>1, <2>6 DEF Taken
  <2>7. CASE call.rpc \in DOMAIN ModeNames
    BY <2>1, <2>7 DEF FaultOf, Taken, ModeNames, ModeFault, GatewayTakesMode
  <2> QED BY <2>1, <2>2, <2>3, <2>4, <2>5, <2>6, <2>7, Passed
<1> QED BY <1>1, BuilderInductive, PTL

(* "a refusal names the order's index": the order at the index a basket's  *)
(* refusal names is one to blame.                                          *)
THEOREM OffenderNamed == BuilderSpec => []NamesOffender
<1>1. BuilderInv => NamesOffender
  BY Passed, BasketsPassed, BasketChecks DEF BuilderInv, NamesOffender
<1> QED BY <1>1, BuilderInductive, PTL

(* Zero is not nothing: what was passed is what the gateway reads.         *)
THEOREM WireSaysCall == BuilderSpec => []WireMeansCall
<1>1. BuilderInv => WireMeansCall
  <2> SUFFICES ASSUME BuilderInv  PROVE WireMeansCall
    OBVIOUS
  <2>1. call.rpc = "ModifyOrder" =>
          /\ ModifyRequest(call.args).price = call.args.price
          /\ ModifyRequest(call.args).quantity = call.args.quantity
    BY Passed, ModifyChecks DEF BuilderInv
  <2>2. call.rpc = "PatchMember" => call.args \in PatchArgs
    BY Passed DEF BuilderInv
  <2>3. call.rpc = "PatchMember" =>
          \A member \in [PatchFields -> {0, 1}], f \in PatchFields :
            AfterPatch(member, call.args)[f] =
              IF call.args.fields[f] # Absent THEN call.args.fields[f]
              ELSE IF f = "max_slot_position" /\ call.args.clear THEN Absent
              ELSE member[f]
    BY <2>2, PatchChecks DEF PatchArgs
  <2>4. AfterCap(call.args) = call.args
    BY CapKept
  <2> QED BY <2>1, <2>3, <2>4 DEF WireMeansCall
<1> QED BY <1>1, BuilderInductive, PTL

(* The amounts the runs convert are among those.                           *)
LEMMA Converted ==
  ASSUME NEW c \in Conversions
  PROVE  /\ c.field \in DOMAIN ScaleOf
         /\ c.amount.coef \in Int /\ Abs(c.amount.coef) < 100000
         /\ c.amount.exp \in -6 .. 0
<1>1. c.field \in DOMAIN ScaleOf /\ c.amount \in Decimals \cup NoDecimals
  BY DEF Conversions
<1>2. ASSUME NEW n \in Coefficients
      PROVE  n \in Int /\ -n \in Int /\ Abs(n) < 100000 /\ Abs(-n) < 100000
  BY DEF Coefficients, Abs
<1>3. ASSUME NEW a \in Decimals
      PROVE  a.coef \in Int /\ Abs(a.coef) < 100000 /\ a.exp \in -6 .. 0
  <2>1. \/ a.coef \in Coefficients
        \/ \E n \in Coefficients : a.coef = -n
    BY DEF Decimals
  <2>2. a.exp \in -6 .. 0
    BY DEF Decimals
  <2> QED BY <1>2, <2>1, <2>2
<1>4. ASSUME NEW a \in NoDecimals
      PROVE  a.coef \in Int /\ Abs(a.coef) < 100000 /\ a.exp \in -6 .. 0
  BY DEF NoDecimals, Abs
<1> QED BY <1>1, <1>3, <1>4

(* price_to_cents and its like: what is not an exact multiple of the tick  *)
(* is refused, what is one becomes the integer that says it, and an amount *)
(* read back from the wire converts to the integer it came from.           *)
THEOREM ConversionExact == BuilderSpec => []ConvertedExactly
<1>1. BuilderInv => ConvertedExactly
  <2> SUFFICES ASSUME BuilderInv, call.rpc = "convert", WithinContext(call.args.amount)
               PROVE  LET f == call.args.field
                          a == call.args.amount
                      IN /\ local = "none" =>
                              /\ IsExact(f, a, ToWire(f, a))
                              /\ ScaleFault(f, FromWire(f, a.coef)) = "none"
                              /\ ToWire(f, FromWire(f, a.coef)) = a.coef
                         /\ local = "tick" => ~HasTick(f, a)
    BY DEF ConvertedExactly
  <2> DEFINE f == call.args.field
             a == call.args.amount
             s == ScaleOf[f]
             b == FromWire(f, a.coef)
  <2>1. /\ f \in DOMAIN ScaleOf /\ a.coef \in Int /\ Abs(a.coef) < 100000
        /\ a.exp \in -6 .. 0
    BY Passed, Converted DEF BuilderInv
  <2>2. s \in {2, 3, 5}
    BY <2>1 DEF ScaleOf
  <2>3. /\ local = "none" => /\ IsInteger(Scaled(a, s))
                             /\ f = "quantity" => ~(AsInteger(Scaled(a, s)) < 0)
        /\ local = "tick" => ~IsInteger(Scaled(a, s))
    <3>1. local \in {"none", "tick"} => local = ScaleFault(f, a)
      BY DEF BuilderInv, FaultOf
    <3> QED BY <3>1 DEF ScaleFault
  <2> HIDE DEF f, a
  <2>4. /\ IsInteger(Scaled(a, s)) <=> (a.coef * TenTo(s)) % TenTo(-a.exp) = 0
        /\ IsInteger(Scaled(a, s)) =>
             /\ AsInteger(Scaled(a, s)) \in Int
             /\ AsInteger(Scaled(a, s)) * TenTo(-a.exp) = a.coef * TenTo(s)
    <3>1. s \in 0 .. 5 /\ WithinContext(a)
      BY <2>2 DEF a
    <3> HIDE DEF s
    <3> QED BY <2>1, <3>1, ScaleExact
  <2>5. b.coef = a.coef /\ b.exp = -s /\ b.kind = "Decimal"
    BY DEF FromWire, Amount
  <2>6. TenTo(s) \in Nat \ {0} /\ TenTo(-a.exp) \in Nat \ {0}
    <3>1. s \in 0 .. 10 /\ -a.exp \in 0 .. 10
      BY <2>1, <2>2
    <3> HIDE DEF s
    <3> QED BY <3>1, PowerStep
  <2>7. IsInteger(Scaled(b, s)) /\ AsInteger(Scaled(b, s)) = a.coef
    <3>1. /\ b.coef \in Int /\ Abs(b.coef) < 100000 /\ b.exp \in -6 .. 0
          /\ s \in 0 .. 5 /\ -b.exp = s
      BY <2>1, <2>2, <2>5
    <3>2. WithinContext(b)
      BY <2>5 DEF WithinContext, a
    <3> HIDE DEF b, s
    <3>3. /\ IsInteger(Scaled(b, s)) <=> (b.coef * TenTo(s)) % TenTo(-b.exp) = 0
          /\ IsInteger(Scaled(b, s)) =>
               /\ AsInteger(Scaled(b, s)) \in Int
               /\ AsInteger(Scaled(b, s)) * TenTo(-b.exp) = b.coef * TenTo(s)
      BY <3>1, <3>2, ScaleExact
    <3>4. (a.coef * TenTo(s)) % TenTo(s) = 0
      BY <2>1, <2>6, DivExact
    <3>5. /\ IsInteger(Scaled(b, s)) /\ AsInteger(Scaled(b, s)) \in Int
          /\ AsInteger(Scaled(b, s)) * TenTo(s) = a.coef * TenTo(s)
      BY <2>5, <3>1, <3>3, <3>4
    <3> DEFINE n == AsInteger(Scaled(b, s))
    <3>6. n \in Int /\ n * TenTo(s) = a.coef * TenTo(s)
      BY <3>5
    <3> HIDE DEF n
    <3>7. n = a.coef
      BY ONLY <2>1, <2>6, <3>6, Cancel
    <3> QED BY <3>5, <3>7 DEF n
  <2>8. ASSUME local = "none", f = "quantity"  PROVE ~(a.coef < 0)
    <3> DEFINE n == AsInteger(Scaled(a, s))
    <3>1. n \in Int /\ n >= 0 /\ n * TenTo(-a.exp) = a.coef * TenTo(s)
      BY <2>3, <2>4, <2>8
    <3> HIDE DEF n, s
    <3>2. n * TenTo(-a.exp) >= 0
      BY <2>6, <3>1
    <3> SUFFICES ASSUME a.coef < 0  PROVE FALSE
      OBVIOUS
    <3>3. (-a.coef) * TenTo(s) >= -a.coef
      BY <2>1, <2>6, Times
    <3>4. (-a.coef) * TenTo(s) = -(a.coef * TenTo(s))
      BY <2>1, <2>6
    <3> QED BY <2>1, <2>6, <3>1, <3>2, <3>3, <3>4
  <2>9. local = "none" => IsExact(f, a, ToWire(f, a))
    BY <2>3, <2>4 DEF IsExact, ToWire, TenTo
  <2>10. local = "none" => ScaleFault(f, b) = "none"
    BY <2>5, <2>7, <2>8 DEF ScaleFault, Numbers
  <2>11. ToWire(f, b) = a.coef
    BY <2>7 DEF ToWire
  <2>12. local = "tick" => ~HasTick(f, a)
    BY <2>3, <2>4 DEF HasTick, TenTo
  <2> QED BY <2>9, <2>10, <2>11, <2>12 DEF f, a
<1> QED BY <1>1, BuilderInductive, PTL
=============================================================================
