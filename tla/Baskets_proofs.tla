--------------------------- MODULE Baskets_proofs ---------------------------
(***************************************************************************)
(* Proofs about Baskets, for baskets of any orders and any number of calls *)
(* and restarts.                                                           *)
(***************************************************************************)
EXTENDS Baskets, TLAPS

USE BasketBounds DEF clientVars, vars, Taken

EntryStages == {"none", "wire", "exchange", "decided", "dropped", "over"}
SeenStates ==
  {"none", "pending", "resting", "filled", "off", "rejected", "retired"}
LotStates == {"none", "resting", "filled", "off", "rejected"}
CommandStates ==
  {"none", "sent", "received", "executed", "declined", "refused", "returned"}
ResultWords == {"none", "cancelled", "refused", "ORDER_PENDING", "route"}

(* The types, and what is so of calls not yet made.                        *)
BasketTypeOK ==
  /\ inst \in {"none", "valid", "linked"}
  /\ current \in 0 .. MaxCalls /\ open \in BOOLEAN /\ restarts \in Nat
  /\ method \in [Calls -> {"none", "submit", "cancel"}]
  /\ entry \in [Calls -> EntryStages]
  /\ seen \in [Items -> SeenStates] /\ lot \in [Items -> LotStates]
  /\ command \in [Calls -> [Items -> CommandStates]]
  /\ present \in [Calls -> SUBSET Items]
  /\ told = [c \in Calls |-> told[c]]
  /\ sweep.phase \in {"idle", "wire", "sweep", "waiting"}
  /\ sweep.phase \in {"sweep", "waiting"} =>
       sweep.todo \subseteq Items /\ sweep.results \in [Items -> ResultWords]
  /\ sweep.phase = "waiting" => sweep.target \in Items

(* One call at a time: what it waits for, and what is not there yet.       *)
TurnInv ==
  /\ reply = NoReply \/ reply.kind \in {"status", "states", "results"}
  /\ open => current \in Calls /\ told[current].kind = "none"
  /\ ~open => reply = NoReply /\ sweep.phase = "idle"
  /\ sweep.phase # "idle" => reply = NoReply /\ method[current] = "cancel"
  /\ \A c \in Calls :
       /\ entry[c] # "none" => method[c] = "submit"
       /\ c > current => /\ told[c].kind = "none" /\ entry[c] = "none"
                         /\ command[c] = [x \in Items |-> "none"]

(* An order has a place on the market once its basket is decided; a valid  *)
(* or a linked list is refused whole.                                      *)
LotInv ==
  \A x \in Items :
    /\ lot[x] # "none" <=> entry[x[1]] = "decided"
    /\ inst # "none" /\ lot[x] = "rejected" =>
         \A p \in Orders : lot[<<x[1], p>>] = "rejected"

(* What the gateway holds of an order, the exchange has reported.          *)
RecordInv ==
  \A x \in Items :
    /\ entry[x[1]] \in {"none", "wire"} => seen[x] = "none"
    /\ seen[x] = "rejected" => lot[x] = "rejected"
    /\ seen[x] \in {"resting", "filled", "off"} => lot[x] \in {"resting", "filled", "off"}
    /\ seen[x] \in {"filled", "off"} => lot[x] \in {"filled", "off"}
    /\ seen[x] = "retired" => entry[x[1]] = "over"

(* A list refused whole is known to be so while its caller waits.          *)
WholeInv ==
  inst # "none" =>
    \A x \in Items : seen[x] = "rejected" /\ Waits(x[1]) =>
      \A p \in Orders : seen[<<x[1], p>>] = "rejected"

(* A cancel is of an order the exchange has, and takes it off.             *)
CommandInv ==
  \A c \in Calls, x \in Items :
    /\ command[c][x] # "none" => entry[x[1]] = "decided"
    /\ command[c][x] = "executed" => lot[x] # "resting"

(* Between restarts the gateway's records hold on to the reference.        *)
HeldInv ==
  restarts = 0 =>
    /\ \A x \in Items :
         /\ entry[x[1]] = "exchange" => seen[x] = "pending"
         /\ lot[x] = "resting" => seen[x] \in {"pending", "resting"}
    /\ \A x, y \in Items : seen[x] # "none" /\ seen[y] # "none" => x[1] = y[1]

(* An order that rests no more and never will again.                       *)
Over(x) == lot[x] # "resting" /\ entry[x[1]] \in {"decided", "dropped", "over"}

(* The cancel under way: what it still has to do, and what each result     *)
(* stands for.                                                             *)
InHand(x) == sweep.phase = "waiting" /\ x = sweep.target
SweepInv ==
  /\ sweep.phase = "wire" =>
       \A x \in Items :
         /\ command[current][x] = "none"
         /\ x \in present[current] => seen[x] \in {"pending", "resting"} \/ Over(x)
  /\ sweep.phase \in {"sweep", "waiting"} =>
       \A x \in Items :
         /\ x \in sweep.todo => Swept[x] = "none" /\ entry[x[1]] = "decided"
         /\ Swept[x] = "none" /\ ~InHand(x) => command[current][x] = "none"
         /\ Swept[x] = "cancelled" => command[current][x] \in Taken
         /\ Swept[x] = "refused" => command[current][x] = "refused"
         /\ Swept[x] = "ORDER_PENDING" => command[current][x] = "none"
         /\ Swept[x] = "route" => sweep.phase = "sweep" /\ sweep.todo = {}
         /\ x \in present[current] /\ Swept[x] = "none" =>
              x \in sweep.todo \/ InHand(x) \/ Over(x)
         /\ InHand(x) =>
              /\ x \notin sweep.todo /\ Swept[x] = "none"
              /\ command[current][x] \in {"sent", "refused"} \cup Taken

(* What an answer to call c stands for.                                    *)
Promised(c, a) ==
  /\ a.kind = "raised" /\ a.rejected =>
       IF method[c] = "submit" THEN NotPlaced(c) ELSE Untouched(c)
  /\ a.kind = "states" =>
       \A p \in Orders :
         /\ a.states[p] = "REJECTED" => lot[<<c, p>>] = "rejected"
         /\ a.states[p] = "ACCEPTED" => lot[<<c, p>>] \in {"resting", "filled", "off"}
         /\ a.states[p] = "REJECTED" /\ inst # "none" =>
              \A q \in Orders : a.states[q] = "REJECTED"
  /\ a.kind = "results" =>
       \A x \in Items :
         /\ a.results[x] \in {"refused", "ORDER_PENDING"} =>
              command[c][x] \in {"none", "refused", "returned"}
         /\ x \in present[c] /\ a.results[x] \in {"none", "cancelled"} =>
              Over(x) \/ command[c][x] \in Taken

(* Every answer given, and the one on its way, is kept.                    *)
PromiseInv ==
  /\ \A c \in Calls : Promised(c, told[c])
  /\ reply.kind = "status" => Promised(current, RaisedFor(reply.status))
  /\ reply.kind \in {"states", "results"} => Promised(current, reply)

BasketInv ==
  /\ BasketTypeOK /\ TurnInv /\ LotInv /\ RecordInv /\ WholeInv
  /\ CommandInv /\ HeldInv /\ SweepInv /\ PromiseInv

-----------------------------------------------------------------------------
(* Lemmas about the records and the errors.                                *)

(* The records the client and the gateway exchange, by their kinds.        *)
LEMMA Kinds ==
  /\ NoReply.kind = "none" /\ NotTold.kind = "none" /\ Idle.phase = "idle"
  /\ \A s : Fail(s).kind = "status" /\ Fail(s).status = s
  /\ \A f : States(f).kind = "states" /\ States(f).states = f
  /\ \A f : Results(f).kind = "results" /\ Results(f).results = f
  /\ \A s : RaisedFor(s).kind = "raised"
  BY DEF NoReply, NotTold, Idle, Fail, States, Results, RaisedFor

(* The failures that leave an order's outcome open never come as a         *)
(* definite rejection.                                                     *)
LEMMA Uncertain ==
  \A code \in {"DEADLINE_EXCEEDED", "UNAVAILABLE", "CANCELLED"} :
    ~RaisedFor(Failure(code)).rejected
<1> SUFFICES ASSUME NEW code \in {"DEADLINE_EXCEEDED", "UNAVAILABLE", "CANCELLED"}
             PROVE  ~RaisedFor(Failure(code)).rejected
  OBVIOUS
<1>1. Translate(Failure(code), TRUE) = "OrderOutcomeUnknown"
  BY DEF Translate, Failure, UncertainCodes
<1> QED BY <1>1 DEF RaisedFor, ErrorOf, DefinitelyRejected, ClassRejects

(* Pairs of a call and an order.                                           *)
LEMMA Pairs ==
  /\ \A x \in Items : x[1] \in Calls /\ x[2] \in Orders /\ x = <<x[1], x[2]>>
  /\ \A c \in Calls, p \in Orders :
       <<c, p>> \in Items /\ <<c, p>>[1] = c /\ <<c, p>>[2] = p
  BY DEF Items

(* What the step of a cancel makes of the sweep, field by field.           *)
LEMMA SweepFields ==
  /\ BeginCancel =>
       \/ /\ sweep'.phase = "sweep" /\ reply' = reply
          /\ sweep'.todo = {x \in Items : seen[x] = "resting"}
          /\ sweep'.results = [x \in Items |->
                IF seen[x] = "pending" THEN "ORDER_PENDING" ELSE "none"]
       \/ /\ sweep'.phase = "idle"
          /\ \E code \in {"NOT_FOUND", "PERMISSION_DENIED"} : reply' = Fail(Failure(code))
  /\ \A x \in Items : SendCancel(x) =>
       /\ sweep'.phase = "waiting" /\ sweep'.target = x
       /\ sweep'.todo = sweep.todo \ {x} /\ sweep'.results = Swept
  /\ HearCancel =>
       /\ sweep'.phase = "sweep" /\ sweep'.todo = sweep.todo
       /\ \/ /\ command[current][sweep.target] \in Taken
             /\ sweep'.results = [Swept EXCEPT ![sweep.target] = "cancelled"]
          \/ /\ command[current][sweep.target] = "refused"
             /\ sweep'.results = [Swept EXCEPT ![sweep.target] = "refused"]
  /\ EndCancel => sweep'.phase = "idle"
  /\ Restart => sweep'.phase = "idle"
  /\ \A o : Conclude(o) => sweep'.phase = "idle" /\ reply'.kind = "none"
<1>1. BeginCancel =>
       \/ /\ sweep'.phase = "sweep" /\ reply' = reply
          /\ sweep'.todo = {x \in Items : seen[x] = "resting"}
          /\ sweep'.results = [x \in Items |->
                IF seen[x] = "pending" THEN "ORDER_PENDING" ELSE "none"]
       \/ /\ sweep'.phase = "idle"
          /\ \E code \in {"NOT_FOUND", "PERMISSION_DENIED"} : reply' = Fail(Failure(code))
  BY Kinds DEF BeginCancel, Sweeping
<1>2. \A x \in Items : SendCancel(x) =>
       /\ sweep'.phase = "waiting" /\ sweep'.target = x
       /\ sweep'.todo = sweep.todo \ {x} /\ sweep'.results = Swept
  BY DEF SendCancel, Sweeping
<1>3. HearCancel =>
       /\ sweep'.phase = "sweep" /\ sweep'.todo = sweep.todo
       /\ \/ /\ command[current][sweep.target] \in Taken
             /\ sweep'.results = [Swept EXCEPT ![sweep.target] = "cancelled"]
          \/ /\ command[current][sweep.target] = "refused"
             /\ sweep'.results = [Swept EXCEPT ![sweep.target] = "refused"]
  <2>1. ASSUME NEW w, NextOrder(w)
        PROVE  /\ sweep'.phase = "sweep" /\ sweep'.todo = sweep.todo
               /\ sweep'.results = [Swept EXCEPT ![sweep.target] = w]
    BY <2>1 DEF NextOrder, Sweeping
  <2> QED BY <2>1 DEF HearCancel
<1> QED BY <1>1, <1>2, <1>3, Kinds DEF EndCancel, Restart, Conclude, Sweeping

(* A failure of the route either goes into the results or ends the call.   *)
LEMMA StopFields ==
  ASSUME NEW left, NEW status, Stop(left, status)
  PROVE  \/ /\ \E x \in Items : Swept[x] = "cancelled"
            /\ sweep'.phase = "sweep" /\ sweep'.todo = {} /\ reply' = reply
            /\ sweep'.results = [x \in Items |-> IF x \in left THEN "route" ELSE Swept[x]]
         \/ /\ ~\E x \in Items : Swept[x] = "cancelled"
            /\ sweep'.phase = "idle" /\ reply' = Fail(status)
  BY Kinds DEF Stop, Sweeping

(* The results that are left are results.                                  *)
LEMMA StopResults ==
  ASSUME NEW left, NEW status, Stop(left, status),
         sweep.results \in [Items -> ResultWords]
  PROVE  sweep'.phase = "idle" \/ sweep'.results \in [Items -> ResultWords]
<1>1. \A x \in Items : Swept[x] \in ResultWords
  BY DEF Swept
<1>2. CASE sweep'.phase = "idle"
  BY <1>2
<1>3. CASE sweep'.results = [x \in Items |-> IF x \in left THEN "route" ELSE Swept[x]]
  BY <1>1, <1>3 DEF ResultWords
<1> QED BY <1>2, <1>3, StopFields

(* One cancel moves on and the others stay.                                *)
LEMMA OneCommand ==
  ASSUME command \in [Calls -> [Items -> CommandStates]],
         NEW c \in Calls, NEW x \in Items, NEW s \in CommandStates,
         command' = [command EXCEPT ![c][x] = s]
  PROVE  /\ command' \in [Calls -> [Items -> CommandStates]]
         /\ \A d \in Calls, y \in Items :
              command'[d][y] = IF d = c /\ y = x THEN s ELSE command[d][y]
  OBVIOUS

-----------------------------------------------------------------------------
(* The types.                                                              *)

(* Every step keeps the types.                                             *)
LEMMA TypesStep ==
  ASSUME BasketTypeOK, TurnInv, [Next]_vars
  PROVE  BasketTypeOK'
<1> USE DEF BasketTypeOK, Swept
<1>1. CASE SubmitBasket \/ CancelBasket
  <2>1. current + 1 \in Calls
    BY <1>1 DEF SubmitBasket, CancelBasket, Begin, Calls
  <2>2. sweep' = sweep \/ sweep'.phase = "wire"
    BY <1>1 DEF SubmitBasket, CancelBasket
  <2>3. method' \in [Calls -> {"none", "submit", "cancel"}]
    BY <1>1, <2>1 DEF SubmitBasket, CancelBasket, Begin
  <2>4. present' \in [Calls -> SUBSET Items]
    BY <1>1, <2>1 DEF SubmitBasket, CancelBasket, Begin
  <2>5. entry' \in [Calls -> EntryStages]
    BY <1>1, <2>1 DEF SubmitBasket, CancelBasket, EntryStages
  <2>6. current' \in 0 .. MaxCalls
    BY <1>1, <2>1 DEF SubmitBasket, CancelBasket, Begin, Calls
  <2> QED BY <1>1, <2>2, <2>3, <2>4, <2>5, <2>6 DEF SubmitBasket, CancelBasket, Begin
<1>2. CASE Deliver \/ CallFails
  <2>1. PICK o : Conclude(o)
    BY <1>2 DEF Deliver, CallFails
  <2> QED BY <2>1, SweepFields DEF Conclude
<1>3. ASSUME NEW c \in Calls, EntryStep(c) PROVE BasketTypeOK'
  <2>1. CASE LoseRequest(c) \/ RefuseBasket(c) \/ GiveUp(c) \/ AnswerBasket(c)
    BY <2>1 DEF LoseRequest, RefuseBasket, GiveUp, AnswerBasket, Settle, EntryStages
  <2>2. CASE Publish(c)
    BY <2>2 DEF Publish, Settle, Holding, EntryStages, SeenStates
  <2>3. CASE BrokerReturns(c)
    BY <2>3 DEF BrokerReturns, Settle, Holding, EntryStages, SeenStates
  <2>4. CASE Reap(c)
    BY <2>4 DEF Reap, Settle, EntryStages, SeenStates
  <2>5. CASE HearRefused(c)
    BY <2>5 DEF HearRefused, HearStates, SeenStates
  <2>6. CASE Decide(c)
    <3>1. PICK f \in Fates :
            lot' = [x \in Items |-> IF x[1] = c THEN f[x[2]] ELSE lot[x]]
      BY <2>6 DEF Decide
    <3>2. f \in [Orders -> LotStates]
      BY DEF Fates, LotStates
    <3> QED BY <2>6, <3>1, <3>2, Pairs DEF Decide, EntryStages
  <2>7. CASE DropExpired(c)
    BY <2>7 DEF DropExpired, EntryStages
  <2> QED BY <1>3, <2>1, <2>2, <2>3, <2>4, <2>5, <2>6, <2>7 DEF EntryStep
<1>4. CASE CancelStep
  <2>1. CASE BeginCancel
    BY <2>1, SweepFields DEF BeginCancel, Sweeping, ResultWords
  <2>2. CASE HearCancel
    <3>1. UNCHANGED <<clientVars, open, told, entry, seen, lot, restarts, command>>
      BY <2>2 DEF HearCancel, NextOrder, Sweeping
    <3>2. sweep'.results \in [Items -> ResultWords]
      BY <2>2, SweepFields DEF HearCancel, ResultWords
    <3>3. sweep'.phase = "sweep" /\ sweep'.todo \subseteq Items
      BY <2>2, SweepFields DEF HearCancel
    <3> QED BY <3>1, <3>2, <3>3
  <2>3. CASE CannotSend
    <3>1. UNCHANGED <<clientVars, open, told, entry, seen, lot, restarts, command>>
      BY <2>3 DEF CannotSend, Stop, Sweeping
    <3>2. PICK left, status : Stop(left, status)
      BY <2>3 DEF CannotSend
    <3>3. sweep'.phase = "idle" \/ sweep'.results \in [Items -> ResultWords]
      <4>1. sweep.results \in [Items -> ResultWords]
        BY <2>3 DEF CannotSend, ResultWords
      <4> HIDE DEF BasketTypeOK
      <4> QED BY <3>2, <4>1, StopResults
    <3> QED BY <2>3, <3>1, <3>2, <3>3, StopFields DEF CannotSend
  <2>4. CASE RouteFails
    <3>1. current \in Calls
      BY <2>4 DEF RouteFails, TurnInv
    <3>2. command' \in [Calls -> [Items -> CommandStates]]
      BY <2>4, <3>1, OneCommand DEF RouteFails, CommandStates
    <3>3. UNCHANGED <<clientVars, open, told, entry, seen, lot, restarts>>
      BY <2>4 DEF RouteFails, Stop, Sweeping
    <3>4. PICK left, status : Stop(left, status)
      BY <2>4 DEF RouteFails
    <3>5. sweep'.phase = "idle" \/ sweep'.results \in [Items -> ResultWords]
      <4>1. sweep.results \in [Items -> ResultWords]
        BY <2>4 DEF RouteFails, ResultWords
      <4> HIDE DEF BasketTypeOK
      <4> QED BY <3>4, <4>1, StopResults
    <3>6. sweep'.phase = "idle" \/ (sweep'.phase = "sweep" /\ sweep'.todo = {})
      BY <3>4, StopFields
    <3> QED BY <3>2, <3>3, <3>5, <3>6
  <2>5. CASE EndCancel
    BY <2>5, SweepFields DEF EndCancel, Sweeping
  <2>6. ASSUME NEW x \in Items, SendCancel(x) PROVE BasketTypeOK'
    <3>1. current \in Calls
      BY <2>6 DEF SendCancel, TurnInv
    <3>2. command' \in [Calls -> [Items -> CommandStates]]
      BY <2>6, <3>1, OneCommand DEF SendCancel, CommandStates
    <3> QED BY <2>6, <3>2, SweepFields DEF SendCancel, Sweeping
  <2>7. ASSUME NEW c \in Calls, NEW x \in Items, ReceiveCancel(c, x) PROVE BasketTypeOK'
    BY <2>7, OneCommand DEF ReceiveCancel, CommandStates
  <2>8. ASSUME NEW c \in Calls, NEW x \in Items, DeclineCancel(c, x) PROVE BasketTypeOK'
    BY <2>8, OneCommand DEF DeclineCancel, CommandStates
  <2>9. ASSUME NEW c \in Calls, NEW x \in Items, ExecuteCancel(c, x) PROVE BasketTypeOK'
    BY <2>9, OneCommand DEF ExecuteCancel, CommandStates, LotStates
  <2> QED BY <1>4, <2>1, <2>2, <2>3, <2>4, <2>5, <2>6, <2>7, <2>8, <2>9
    DEF CancelStep
<1>5. ASSUME NEW x \in Items, OrderStep(x) PROVE BasketTypeOK'
  <2>1. CASE HearReport(x) \/ ForgetFinished(x)
    BY <2>1 DEF HearReport, ForgetFinished, HearStates, SeenStates
  <2>2. CASE Fill(x)
    BY <2>2 DEF Fill, LotStates
  <2> QED BY <1>5, <2>1, <2>2 DEF OrderStep
<1>6. CASE Restart
  BY <1>6, SweepFields DEF Restart, EntryStages, SeenStates, LotStates
<1>7. CASE UNCHANGED vars
  BY <1>7
<1> QED BY <1>1, <1>2, <1>3, <1>4, <1>5, <1>6, <1>7 DEF Next, ClientStep

-----------------------------------------------------------------------------
(* One call at a time.                                                     *)

(* A submission's answer reaches its caller only while the caller waits,   *)
(* and then no cancel is at work.                                          *)
LEMMA SettleTurn ==
  ASSUME BasketTypeOK, TurnInv, NEW c \in Calls, NEW stage \in EntryStages \ {"none"}, NEW r,
         entry[c] # "none", r.kind \in {"status", "states"},
         entry' = [entry EXCEPT ![c] = stage],
         reply' = reply \/ (Waits(c) /\ reply' = r),
         UNCHANGED <<clientVars, open, told, sweep, command, lot, restarts>>
  PROVE  TurnInv'
<1>1. Waits(c) => sweep.phase = "idle" /\ open
  BY DEF Waits, TurnInv, BasketTypeOK
<1>2. \A d \in Calls : entry'[d] = IF d = c THEN stage ELSE entry[d]
  BY DEF BasketTypeOK
<1>3. \A d \in Calls : entry'[d] # "none" <=> entry[d] # "none"
  BY <1>2
<1> QED BY <1>1, <1>3 DEF TurnInv

(* The turns are kept by every step.                                       *)
LEMMA TurnStep ==
  ASSUME BasketTypeOK, TurnInv, [Next]_vars
  PROVE  TurnInv'
<1>1. CASE SubmitBasket \/ CancelBasket
  <2>1. current + 1 \in Calls /\ current \in Nat /\ current' = current + 1 /\ open'
    BY <1>1 DEF SubmitBasket, CancelBasket, Begin, Calls, BasketTypeOK
  <2>2. \A c \in Calls : c \in Nat
    BY DEF Calls
  <2>3. /\ UNCHANGED <<told, command, reply>> /\ reply = NoReply
        /\ told[current + 1].kind = "none"
    BY <1>1, <2>1 DEF SubmitBasket, CancelBasket, Begin, TurnInv
  <2>4. /\ \A c \in Calls : c # current + 1 => method'[c] = method[c] /\ entry'[c] = entry[c]
        /\ \/ /\ method'[current + 1] = "submit" /\ sweep' = sweep
              /\ entry'[current + 1] = "wire" /\ sweep.phase = "idle"
           \/ /\ method'[current + 1] = "cancel" /\ entry' = entry
    BY <1>1, <2>1 DEF SubmitBasket, CancelBasket, Begin, BasketTypeOK, TurnInv
  <2>5. \A c \in Calls : c > current + 1 => c > current
    BY <2>1, <2>2
  <2>6. current + 1 > current
    BY <2>1
  <2>7. \A c \in Calls : entry'[c] # "none" => method'[c] = "submit"
    BY <2>1, <2>4, <2>6 DEF TurnInv
  <2>8. sweep'.phase # "idle" => method'[current'] = "cancel"
    BY <2>1, <2>4
  <2>9. \A c \in Calls : c > current' =>
          /\ told'[c].kind = "none" /\ entry'[c] = "none"
          /\ command'[c] = [x \in Items |-> "none"]
    <3> SUFFICES ASSUME NEW c \in Calls, c > current'
                 PROVE  /\ told'[c].kind = "none" /\ entry'[c] = "none"
                        /\ command'[c] = [x \in Items |-> "none"]
      OBVIOUS
    <3>1. c # current + 1 /\ c > current
      BY <2>1, <2>2
    <3> QED BY <3>1, <2>3, <2>4 DEF TurnInv
  <2> QED BY <2>1, <2>3, <2>7, <2>8, <2>9 DEF TurnInv
<1>2. CASE Deliver \/ CallFails
  <2>1. PICK o : Conclude(o)
    BY <1>2 DEF Deliver, CallFails
  <2>2. \A c \in Calls : c # current => told'[c] = told[c]
    BY <2>1 DEF Conclude, BasketTypeOK
  <2>3. /\ UNCHANGED <<clientVars, entry, command>> /\ ~open' /\ reply' = NoReply
        /\ open /\ sweep'.phase = "idle"
    BY <2>1, SweepFields DEF Conclude
  <2>4. \A c \in Calls : c > current => c # current
    BY DEF Calls, BasketTypeOK
  <2> QED BY <2>2, <2>3, <2>4 DEF TurnInv
<1>3. ASSUME NEW c \in Calls, EntryStep(c) PROVE TurnInv'
  <2>1. CASE LoseRequest(c)
    <3>1. reply' = reply /\ entry' = [entry EXCEPT ![c] = "over"] /\ entry[c] # "none"
      BY <2>1 DEF LoseRequest, Settle, ReplyTo
    <3>2. UNCHANGED <<clientVars, open, told, sweep, command, lot, restarts>>
      BY <2>1 DEF LoseRequest, Settle
    <3> QED BY <3>1, <3>2, SettleTurn, Kinds DEF EntryStages
  <2>2. CASE RefuseBasket(c)
    <3>1. PICK s : Settle(c, "over", Fail(s))
      BY <2>2 DEF RefuseBasket
    <3>2. reply' = reply \/ (Waits(c) /\ reply' = Fail(s))
      BY <3>1 DEF Settle, ReplyTo
    <3>3. entry[c] # "none" /\ "over" \in EntryStages \ {"none"}
      BY <2>2 DEF RefuseBasket, EntryStages
    <3>4. Fail(s).kind \in {"status", "states"}
      BY Kinds
    <3> HIDE DEF vars, clientVars
    <3> QED BY <3>1, <3>2, <3>3, <3>4, SettleTurn DEF Settle
  <2>3. CASE Publish(c) \/ Reap(c)
    <3>1. reply' = reply
      BY <2>3 DEF Publish, Reap, Settle, ReplyTo
    <3> QED BY <2>3, <3>1, SettleTurn, Kinds DEF Publish, Reap, Settle, EntryStages
  <2>4. CASE BrokerReturns(c)
    <3> DEFINE r == Fail(Marked("UNAVAILABLE", "NOT_PROCESSED"))
    <3>1. reply' = reply \/ (Waits(c) /\ reply' = r)
      BY <2>4 DEF BrokerReturns, Settle, ReplyTo
    <3>2. r.kind = "status"
      BY Kinds
    <3> HIDE DEF r
    <3> QED BY <2>4, <3>1, <3>2, SettleTurn DEF BrokerReturns, Settle, EntryStages
  <2>5. CASE GiveUp(c)
    <3> DEFINE r == Fail(Failure("DEADLINE_EXCEEDED"))
    <3>1. reply' = r /\ Waits(c)
      BY <2>5 DEF GiveUp, Settle, ReplyTo
    <3>2. r.kind = "status"
      BY Kinds
    <3> HIDE DEF r
    <3> QED BY <2>5, <3>1, <3>2, SettleTurn DEF GiveUp, Settle, EntryStages
  <2>6. CASE AnswerBasket(c)
    <3>1. PICK f : Settle(c, entry[c], States(f)) /\ Waits(c)
      BY <2>6 DEF AnswerBasket
    <3>2. reply' = States(f) /\ Waits(c)
      BY <3>1 DEF Settle, ReplyTo
    <3>3. States(f).kind = "states"
      BY Kinds
    <3> QED BY <2>6, <3>1, <3>2, <3>3, SettleTurn DEF AnswerBasket, Settle, EntryStages
  <2>7. CASE HearRefused(c)
    BY <2>7 DEF HearRefused, HearStates, TurnInv
  <2>8. CASE Decide(c) \/ DropExpired(c)
    <3>1. \A d \in Calls : entry'[d] # "none" <=> entry[d] # "none"
      BY <2>8 DEF Decide, DropExpired, BasketTypeOK
    <3> QED BY <2>8, <3>1 DEF Decide, DropExpired, TurnInv
  <2> QED BY <1>3, <2>1, <2>2, <2>3, <2>4, <2>5, <2>6, <2>7, <2>8 DEF EntryStep
<1>4. CASE CancelStep
  <2>1. CASE BeginCancel \/ HearCancel \/ CannotSend \/ RouteFails \/ EndCancel
             \/ \E x \in Items : SendCancel(x)
    <3>1. /\ UNCHANGED <<clientVars, open, told, entry>>
          /\ sweep.phase # "idle"
      BY <2>1 DEF BeginCancel, HearCancel, CannotSend, RouteFails, EndCancel,
                  SendCancel, NextOrder, Stop, Sweeping
    <3>2. /\ open /\ reply = NoReply /\ current \in Calls
          /\ method[current] = "cancel"
      BY <3>1 DEF TurnInv
    <3>3. \/ reply' = reply
          \/ sweep'.phase = "idle" /\ reply'.kind \in {"status", "results"}
      <4>1. CASE BeginCancel
        BY <4>1, SweepFields, Kinds
      <4>2. CASE CannotSend \/ RouteFails
        <5>1. PICK left, status : Stop(left, status)
          BY <4>2 DEF CannotSend, RouteFails
        <5> QED BY <5>1, StopFields, Kinds
      <4>3. CASE HearCancel \/ \E x \in Items : SendCancel(x)
        BY <4>3 DEF HearCancel, SendCancel
      <4>4. CASE EndCancel
        BY <4>4, SweepFields, Kinds DEF EndCancel
      <4> QED BY <2>1, <4>1, <4>2, <4>3, <4>4
    <3>4. \A c \in Calls : c > current => command'[c] = command[c]
      <4>1. \A c \in Calls : c > current => c # current
        BY DEF Calls, BasketTypeOK
      <4> QED BY <2>1, <3>2, <4>1 DEF BeginCancel, HearCancel, CannotSend, RouteFails,
                EndCancel, SendCancel, BasketTypeOK
    <3> QED BY <3>1, <3>2, <3>3, <3>4 DEF TurnInv
  <2>2. ASSUME NEW c \in Calls, NEW x \in Items,
               ReceiveCancel(c, x) \/ DeclineCancel(c, x) \/ ExecuteCancel(c, x)
        PROVE  TurnInv'
    <3>1. command[c][x] # "none"
      BY <2>2 DEF ReceiveCancel, DeclineCancel, ExecuteCancel
    <3>2. ~(c > current)
      BY <3>1 DEF TurnInv
    <3>3. \A d \in Calls : d > current => command'[d] = command[d]
      BY <2>2, <3>2 DEF ReceiveCancel, DeclineCancel, ExecuteCancel, BasketTypeOK
    <3> QED BY <2>2, <3>3 DEF ReceiveCancel, DeclineCancel, ExecuteCancel, TurnInv
  <2> QED BY <1>4, <2>1, <2>2 DEF CancelStep
<1>5. ASSUME NEW x \in Items, OrderStep(x) PROVE TurnInv'
  BY <1>5 DEF OrderStep, HearReport, ForgetFinished, HearStates, Fill, TurnInv
<1>6. CASE Restart
  <2>1. \A c \in Calls : entry'[c] # "none" <=> entry[c] # "none"
    BY <1>6 DEF Restart, BasketTypeOK
  <2>2. reply' = reply \/ (open /\ reply'.kind = "status")
    BY <1>6, Kinds DEF Restart
  <2>3. UNCHANGED <<clientVars, open, told, command>> /\ sweep'.phase = "idle"
    BY <1>6, SweepFields DEF Restart
  <2> QED BY <2>1, <2>2, <2>3 DEF TurnInv
<1>7. CASE UNCHANGED vars
  BY <1>7 DEF TurnInv
<1> QED BY <1>1, <1>2, <1>3, <1>4, <1>5, <1>6, <1>7 DEF Next, ClientStep

-----------------------------------------------------------------------------
(* The gateway and the exchange.                                           *)

(* What the lists of each kind come to.                                    *)
LEMMA FatesAre ==
  ASSUME inst \in {"none", "valid", "linked"}, NEW f \in Fates
  PROVE  /\ f \in [Orders -> LotStates \ {"none"}]
         /\ inst # "none" =>
              \A p, q \in Orders : f[p] = "rejected" => f[q] = "rejected"
  BY DEF Fates, LotStates

(* The moves of a basket, of its orders and of their cancels: what any     *)
(* step makes of each.                                                     *)
EntryMove(d) ==
  \/ entry'[d] = entry[d]
  \/ entry[d] = "none" /\ entry'[d] = "wire"
  \/ entry[d] = "wire" /\ entry'[d] \in {"exchange", "over"}
  \/ entry[d] = "exchange" /\ entry'[d] \in {"decided", "dropped", "over"}
  \/ entry[d] = "dropped" /\ entry'[d] = "over"

Decided(d) == entry[d] = "exchange" /\ entry'[d] = "decided"
LotMove(x) ==
  \/ lot'[x] = lot[x] /\ ~Decided(x[1])
  \/ /\ Decided(x[1]) /\ lot'[x] \in LotStates \ {"none"}
     /\ inst # "none" /\ lot'[x] = "rejected" =>
          \A p \in Orders : lot'[<<x[1], p>>] = "rejected"
  \/ lot[x] = "resting" /\ lot'[x] \in {"filled", "off"}

Published(d) == entry[d] = "wire" /\ entry'[d] = "exchange"
Still(x) == lot'[x] = lot[x] /\ entry' = entry
SeenMove(x) ==
  \/ seen'[x] = seen[x] /\ ~Published(x[1])
  \/ seen[x] = "none" /\ seen'[x] = "pending" /\ Published(x[1])
  \/ seen'[x] = "none" /\ entry[x[1]] = "exchange" /\ entry'[x[1]] = "over"
  \/ /\ Still(x) /\ seen'[x] = lot[x] /\ lot[x] \in {"resting", "filled", "off"}
     /\ seen[x] \in {"pending", "resting"} \/ lot[x] = "resting"
  \/ /\ Still(x) /\ seen'[x] = "rejected" /\ lot[x] = "rejected"
     /\ \E p \in Orders : seen[<<x[1], p>>] = "pending"
     /\ inst # "none" => \A p \in Orders : seen'[<<x[1], p>>] = "rejected"
  \/ /\ seen[x] = "pending" /\ seen'[x] = "retired"
     /\ entry[x[1]] = "dropped" /\ entry'[x[1]] = "over"
  \/ /\ Still(x) /\ seen[x] \in {"filled", "off", "rejected"} /\ seen'[x] = "none"
     /\ ~Waits(x[1])
  \/ /\ restarts' = restarts + 1 /\ sweep'.phase = "idle" /\ ~(open' /\ reply' = NoReply)
     /\ seen'[x] = IF lot'[x] = "resting" THEN "resting" ELSE "none"

CommandMove(c, x) ==
  \/ command'[c][x] = command[c][x]
  \/ /\ command[c][x] = "none" /\ command'[c][x] = "sent" /\ Still(x)
     /\ c = current /\ sweep.phase = "sweep" /\ x \in sweep.todo
  \/ command[c][x] = "sent" /\ command'[c][x] \in {"received", "refused", "returned"}
  \/ /\ command[c][x] = "received" /\ command'[c][x] \in {"executed", "declined"}
     /\ command'[c][x] = "executed" => lot'[x] # "resting"

Moved ==
  /\ inst' = inst /\ restarts' \in {restarts, restarts + 1}
  /\ \A d \in Calls : EntryMove(d)
  /\ \A x \in Items : LotMove(x) /\ SeenMove(x)
  /\ \A c \in Calls, x \in Items : CommandMove(c, x)

(* Every step makes such moves and no other.                               *)
LEMMA Moves ==
  ASSUME BasketTypeOK, TurnInv, LotInv, SweepInv, [Next]_vars
  PROVE  Moved
<1> USE DEF Decided, Published
<1>1. CASE SubmitBasket
  <2>1. current + 1 \in Calls /\ ~(current + 1 <= current)
    BY <1>1 DEF SubmitBasket, Begin, Calls, BasketTypeOK
  <2>2. entry[current + 1] = "none"
    BY <1>1, <2>1 DEF TurnInv, BasketTypeOK
  <2>3. \A d \in Calls : entry'[d] = IF d = current + 1 THEN "wire" ELSE entry[d]
    BY <1>1 DEF SubmitBasket, BasketTypeOK
  <2>4. UNCHANGED <<inst, lot, seen, command, restarts>>
    BY <1>1 DEF SubmitBasket, Begin
  <2> QED BY <2>2, <2>3, <2>4, Pairs DEF Moved, EntryMove, LotMove, SeenMove, CommandMove
<1>2. CASE CancelBasket \/ Deliver \/ CallFails \/ UNCHANGED vars
  <2>1. UNCHANGED <<inst, lot, seen, command, restarts, entry>>
    BY <1>2 DEF CancelBasket, Deliver, CallFails, Begin, Conclude
  <2> QED BY <2>1 DEF Moved, EntryMove, LotMove, SeenMove, CommandMove
<1>3. ASSUME NEW c \in Calls, EntryStep(c) PROVE Moved
  <2>1. CASE LoseRequest(c) \/ RefuseBasket(c) \/ GiveUp(c) \/ AnswerBasket(c)
    <3>1. UNCHANGED <<inst, lot, seen, command, restarts>>
      BY <2>1 DEF LoseRequest, RefuseBasket, GiveUp, AnswerBasket, Settle
    <3>2. \/ entry[c] = "wire" /\ entry' = [entry EXCEPT ![c] = "over"]
          \/ entry' = [entry EXCEPT ![c] = entry[c]]
      BY <2>1 DEF LoseRequest, RefuseBasket, GiveUp, AnswerBasket, Settle
    <3>3. \A d \in Calls :
            entry'[d] = entry[d] \/ (entry[d] = "wire" /\ entry'[d] = "over")
      BY <3>2 DEF BasketTypeOK
    <3> QED BY <3>1, <3>3, Pairs DEF Moved, EntryMove, LotMove, SeenMove, CommandMove
  <2>2. CASE Publish(c)
    <3>1. /\ UNCHANGED <<inst, lot, command, restarts>> /\ entry[c] = "wire"
          /\ \A d \in Calls : entry'[d] = IF d = c THEN "exchange" ELSE entry[d]
      BY <2>2 DEF Publish, Settle, BasketTypeOK
    <3>2. \A x \in Items : /\ seen[x] = "none"
                           /\ seen'[x] = IF x[1] = c THEN "pending" ELSE seen[x]
      BY <2>2 DEF Publish, Holding, InUse
    <3> QED BY <3>1, <3>2, Pairs DEF Moved, EntryMove, LotMove, SeenMove, CommandMove
  <2>3. CASE BrokerReturns(c)
    <3>1. /\ UNCHANGED <<inst, lot, command, restarts>> /\ entry[c] = "exchange"
          /\ \A d \in Calls : entry'[d] = IF d = c THEN "over" ELSE entry[d]
      BY <2>3 DEF BrokerReturns, Settle, BasketTypeOK
    <3>2. \A x \in Items : seen'[x] = IF x[1] = c THEN "none" ELSE seen[x]
      BY <2>3 DEF BrokerReturns, Holding
    <3> QED BY <3>1, <3>2, Pairs DEF Moved, EntryMove, LotMove, SeenMove, CommandMove
  <2>4. CASE HearRefused(c)
    <3>1. UNCHANGED <<inst, lot, command, restarts, entry>>
      BY <2>4 DEF HearRefused, HearStates
    <3>2. PICK named \in (SUBSET {p \in Orders : lot[<<c, p>>] = "rejected"}) \ {{}} :
            /\ \A p \in named : seen[<<c, p>>] = "pending"
            /\ seen' = [x \in Items |->
                 IF x[1] = c /\ (inst # "none" \/ x[2] \in named) THEN "rejected" ELSE seen[x]]
      BY <2>4 DEF HearRefused, HearStates
    <3>3. PICK q : q \in named /\ q \in Orders /\ lot[<<c, q>>] = "rejected"
      <4>1. named # {} /\ \A p \in named : p \in Orders /\ lot[<<c, p>>] = "rejected"
        OBVIOUS
      <4> QED BY <4>1
    <3>4. inst # "none" => \A p \in Orders : lot[<<c, p>>] = "rejected"
      BY <3>3, Pairs DEF LotInv
    <3>5. \A x \in Items : x[1] = c /\ x[2] \in named => lot[x] = "rejected"
      BY Pairs
    <3>6. \A x \in Items : x[1] = c /\ inst # "none" => lot[x] = "rejected"
      BY <3>4, Pairs
    <3>7. \A x \in Items : \/ seen'[x] = seen[x]
                           \/ seen'[x] = "rejected" /\ lot[x] = "rejected" /\ x[1] = c
      BY <3>2, <3>5, <3>6
    <3>8. q \in Orders /\ seen[<<c, q>>] = "pending"
      BY <3>2, <3>3
    <3>9. inst # "none" => \A p \in Orders : seen'[<<c, p>>] = "rejected"
      BY <3>2, Pairs
    <3>10. \A x \in Items : SeenMove(x)
      BY <3>1, <3>7, <3>8, <3>9, Pairs DEF SeenMove, Still
    <3> QED BY <3>1, <3>10, Pairs DEF Moved, EntryMove, LotMove, CommandMove
  <2>5. CASE Reap(c)
    <3>1. /\ UNCHANGED <<inst, lot, command, restarts>> /\ entry[c] = "dropped"
          /\ \A d \in Calls : entry'[d] = IF d = c THEN "over" ELSE entry[d]
      BY <2>5 DEF Reap, Settle, BasketTypeOK
    <3>2. \A x \in Items :
            seen'[x] = IF x[1] = c /\ seen[x] = "pending" THEN "retired" ELSE seen[x]
      BY <2>5 DEF Reap
    <3> QED BY <3>1, <3>2, Pairs DEF Moved, EntryMove, LotMove, SeenMove, CommandMove
  <2>6. CASE Decide(c)
    <3>1. PICK f \in Fates :
            lot' = [x \in Items |-> IF x[1] = c THEN f[x[2]] ELSE lot[x]]
      BY <2>6 DEF Decide
    <3>2. /\ UNCHANGED <<inst, seen, command, restarts>> /\ entry[c] = "exchange"
          /\ \A d \in Calls : entry'[d] = IF d = c THEN "decided" ELSE entry[d]
      BY <2>6 DEF Decide, BasketTypeOK
    <3>3. \A x \in Items : lot'[x] = IF x[1] = c THEN f[x[2]] ELSE lot[x]
      BY <3>1
    <3>4. \A x \in Items : x[1] = c => lot'[x] \in LotStates \ {"none"}
      BY <3>3, FatesAre, Pairs DEF BasketTypeOK
    <3>5. ASSUME NEW x \in Items, x[1] = c, inst # "none", lot'[x] = "rejected"
          PROVE  \A p \in Orders : lot'[<<x[1], p>>] = "rejected"
      <4>1. f[x[2]] = "rejected"
        BY <3>3, <3>5
      <4>2. \A p \in Orders : f[p] = "rejected"
        BY <4>1, <3>5, FatesAre, Pairs DEF BasketTypeOK
      <4> QED BY <3>3, <3>5, <4>2, Pairs
    <3>6. \A x \in Items : LotMove(x)
      BY <3>2, <3>3, <3>4, <3>5, Pairs DEF LotMove
    <3>7. \A x \in Items : SeenMove(x)
      BY <3>2, Pairs DEF SeenMove
    <3> QED BY <3>2, <3>6, <3>7 DEF Moved, EntryMove, CommandMove
  <2>7. CASE DropExpired(c)
    <3>1. /\ UNCHANGED <<inst, lot, seen, command, restarts>> /\ entry[c] = "exchange"
          /\ \A d \in Calls : entry'[d] = IF d = c THEN "dropped" ELSE entry[d]
      BY <2>7 DEF DropExpired, BasketTypeOK
    <3> QED BY <3>1, Pairs DEF Moved, EntryMove, LotMove, SeenMove, CommandMove
  <2> QED BY <1>3, <2>1, <2>2, <2>3, <2>4, <2>5, <2>6, <2>7 DEF EntryStep
<1>4. CASE CancelStep
  <2>1. CASE BeginCancel \/ HearCancel \/ CannotSend \/ EndCancel
    <3>1. UNCHANGED <<inst, lot, seen, command, restarts, entry>>
      BY <2>1 DEF BeginCancel, HearCancel, CannotSend, EndCancel, NextOrder, Stop, Sweeping
    <3> QED BY <3>1 DEF Moved, EntryMove, LotMove, SeenMove, CommandMove
  <2>2. CASE RouteFails
    <3>1. UNCHANGED <<inst, lot, seen, restarts, entry>>
      BY <2>2 DEF RouteFails, Stop, Sweeping
    <3>2. current \in Calls /\ sweep.target \in Items
      BY <2>2 DEF RouteFails, TurnInv, BasketTypeOK
    <3>3. \/ command' = command
          \/ /\ command[current][sweep.target] = "sent"
             /\ command' = [command EXCEPT ![current][sweep.target] = "returned"]
      BY <2>2 DEF RouteFails
    <3>4. \A c \in Calls, x \in Items : CommandMove(c, x)
      BY <3>2, <3>3, OneCommand DEF CommandMove, BasketTypeOK, CommandStates
    <3> QED BY <3>1, <3>4 DEF Moved, EntryMove, LotMove, SeenMove
  <2>3. ASSUME NEW x \in Items, SendCancel(x) PROVE Moved
    <3>1. UNCHANGED <<inst, lot, seen, restarts, entry>>
      BY <2>3 DEF SendCancel, Sweeping
    <3>2. /\ current \in Calls /\ sweep.phase = "sweep" /\ x \in sweep.todo
          /\ command' = [command EXCEPT ![current][x] = "sent"]
      BY <2>3 DEF SendCancel, TurnInv
    <3>3. command[current][x] = "none"
      BY <3>2 DEF SweepInv, InHand
    <3>4. \A c \in Calls, y \in Items : CommandMove(c, y)
      BY <3>1, <3>2, <3>3, OneCommand DEF CommandMove, BasketTypeOK, CommandStates, Still
    <3> QED BY <3>1, <3>4 DEF Moved, EntryMove, LotMove, SeenMove
  <2>4. ASSUME NEW c \in Calls, NEW x \in Items, ReceiveCancel(c, x) PROVE Moved
    <3>1. UNCHANGED <<inst, lot, seen, restarts, entry>>
      BY <2>4 DEF ReceiveCancel
    <3>2. \A d \in Calls, y \in Items : CommandMove(d, y)
      BY <2>4, OneCommand DEF ReceiveCancel, CommandMove, BasketTypeOK, CommandStates
    <3> QED BY <3>1, <3>2 DEF Moved, EntryMove, LotMove, SeenMove
  <2>6. ASSUME NEW c \in Calls, NEW x \in Items, DeclineCancel(c, x) PROVE Moved
    <3>1. UNCHANGED <<inst, lot, seen, restarts, entry>>
      BY <2>6 DEF DeclineCancel
    <3>2. \A d \in Calls, y \in Items : CommandMove(d, y)
      BY <2>6, OneCommand DEF DeclineCancel, CommandMove, BasketTypeOK, CommandStates
    <3> QED BY <3>1, <3>2 DEF Moved, EntryMove, LotMove, SeenMove
  <2>5. ASSUME NEW c \in Calls, NEW x \in Items, ExecuteCancel(c, x) PROVE Moved
    <3>1. UNCHANGED <<inst, seen, restarts, entry>>
      BY <2>5 DEF ExecuteCancel
    <3>2. \A y \in Items :
            lot'[y] = IF y = x /\ lot[y] = "resting" THEN "off" ELSE lot[y]
      BY <2>5 DEF ExecuteCancel, BasketTypeOK
    <3>3. \A d \in Calls, y \in Items : CommandMove(d, y)
      BY <2>5, <3>2, OneCommand DEF ExecuteCancel, CommandMove, BasketTypeOK, CommandStates
    <3> QED BY <3>1, <3>2, <3>3 DEF Moved, EntryMove, LotMove, SeenMove
  <2> QED BY <1>4, <2>1, <2>2, <2>3, <2>4, <2>5, <2>6 DEF CancelStep
<1>5. ASSUME NEW x \in Items, OrderStep(x) PROVE Moved
  <2>1. CASE HearReport(x)
    <3>1. UNCHANGED <<inst, lot, command, restarts, entry>>
      BY <2>1 DEF HearReport, HearStates
    <3>2. \A y \in Items : seen'[y] = IF y = x THEN lot[x] ELSE seen[y]
      BY <2>1 DEF HearReport, HearStates, BasketTypeOK
    <3> QED BY <2>1, <3>1, <3>2 DEF HearReport, Moved, EntryMove, LotMove, SeenMove, CommandMove, Still
  <2>2. CASE ForgetFinished(x)
    <3>1. UNCHANGED <<inst, lot, command, restarts, entry>>
      BY <2>2 DEF ForgetFinished, HearStates
    <3>2. \A y \in Items : seen'[y] = IF y = x THEN "none" ELSE seen[y]
      BY <2>2 DEF ForgetFinished, HearStates, BasketTypeOK
    <3> QED BY <2>2, <3>1, <3>2 DEF ForgetFinished, Moved, EntryMove, LotMove, SeenMove, CommandMove, Still
  <2>3. CASE Fill(x)
    <3>1. UNCHANGED <<inst, seen, command, restarts, entry>>
      BY <2>3 DEF Fill
    <3>2. /\ lot[x] = "resting"
          /\ \A y \in Items : lot'[y] = IF y = x THEN "filled" ELSE lot[y]
      BY <2>3 DEF Fill, BasketTypeOK
    <3> QED BY <3>1, <3>2 DEF Moved, EntryMove, LotMove, SeenMove, CommandMove
  <2> QED BY <1>5, <2>1, <2>2, <2>3 DEF OrderStep
<1>6. CASE Restart
  <2>1. /\ UNCHANGED <<inst, command>> /\ restarts' = restarts + 1
        /\ \A d \in Calls : entry'[d] = IF entry[d] = "wire" THEN "over" ELSE entry[d]
    BY <1>6 DEF Restart
  <2>2. sweep'.phase = "idle"
    BY <1>6, SweepFields
  <2>3. \A x \in Items : lot'[x] = lot[x] \/ (lot[x] = "resting" /\ lot'[x] = "off")
    BY <1>6 DEF Restart
  <2>4. \A x \in Items : seen'[x] = IF lot'[x] = "resting" THEN "resting" ELSE "none"
    BY <1>6 DEF Restart
  <2>5. open' = open /\ (open /\ reply = NoReply => reply'.kind = "status")
    BY <1>6, Kinds DEF Restart
  <2>6. ~(open' /\ reply' = NoReply)
    <3>1. open /\ reply # NoReply => reply' = reply
      BY <1>6 DEF Restart
    <3> QED BY <2>5, <3>1, Kinds
  <2> QED BY <2>1, <2>2, <2>3, <2>4, <2>6, Pairs DEF Moved, EntryMove, LotMove, SeenMove, CommandMove
<1> QED BY <1>1, <1>2, <1>3, <1>4, <1>5, <1>6 DEF Next, ClientStep

-----------------------------------------------------------------------------
(* What follows from the moves alone.                                      *)

(* The market's record of a basket stays in step with the basket.          *)
LEMMA LotStep ==
  ASSUME BasketTypeOK, LotInv, Moved
  PROVE  LotInv'
<1> SUFFICES ASSUME NEW x \in Items
             PROVE  /\ lot'[x] # "none" <=> entry'[x[1]] = "decided"
                    /\ inst' # "none" /\ lot'[x] = "rejected" =>
                         \A p \in Orders : lot'[<<x[1], p>>] = "rejected"
  BY DEF LotInv
<1>1. EntryMove(x[1]) /\ LotMove(x) /\ inst' = inst
  BY Pairs DEF Moved
<1>2. lot'[x] # "none" <=> entry'[x[1]] = "decided"
  BY <1>1 DEF EntryMove, LotMove, LotInv, Decided, LotStates
<1>3. ASSUME inst' # "none", lot'[x] = "rejected", NEW p \in Orders
      PROVE  lot'[<<x[1], p>>] = "rejected"
  <2>1. <<x[1], p>> \in Items /\ <<x[1], p>>[1] = x[1]
    BY Pairs
  <2>2. CASE Decided(x[1])
    BY <1>1, <1>3, <2>2 DEF LotMove, LotInv, Decided
  <2>3. CASE ~Decided(x[1])
    <3>1. lot[x] = "rejected"
      BY <1>1, <1>3, <2>3 DEF LotMove
    <3>2. lot[<<x[1], p>>] = "rejected"
      BY <1>1, <1>3, <3>1 DEF LotInv
    <3> QED BY <2>1, <2>3, <3>2 DEF Moved, LotMove
  <2> QED BY <2>2, <2>3
<1> QED BY <1>2, <1>3

(* The gateway's records stay in step with the market.                     *)
LEMMA RecordStep ==
  ASSUME BasketTypeOK, LotInv, RecordInv, Moved
  PROVE  RecordInv'
<1> SUFFICES ASSUME NEW x \in Items
    PROVE
      /\ entry'[x[1]] \in {"none", "wire"} => seen'[x] = "none"
      /\ seen'[x] = "rejected" => lot'[x] = "rejected"
      /\ seen'[x] \in {"resting", "filled", "off"} => lot'[x] \in {"resting", "filled", "off"}
      /\ seen'[x] \in {"filled", "off"} => lot'[x] \in {"filled", "off"}
      /\ seen'[x] = "retired" => entry'[x[1]] = "over"
  BY DEF RecordInv
<1>1. EntryMove(x[1]) /\ LotMove(x) /\ SeenMove(x)
  BY Pairs DEF Moved
<1>2. /\ lot[x] # "none" <=> entry[x[1]] = "decided"
      /\ lot[x] \in LotStates /\ seen[x] \in SeenStates
  BY DEF LotInv, BasketTypeOK
<1>3. lot'[x] # "none" <=> entry'[x[1]] = "decided"
  BY LotStep DEF LotInv
<1> USE <1>1, <1>2, <1>3 DEF EntryMove, LotMove, SeenMove, RecordInv, Decided,
        Published, Still
<1>4. entry'[x[1]] \in {"none", "wire"} => seen'[x] = "none"
  OBVIOUS
<1>5. seen'[x] = "rejected" => lot'[x] = "rejected"
  OBVIOUS
<1>6. seen'[x] \in {"resting", "filled", "off"} => lot'[x] \in {"resting", "filled", "off"}
  OBVIOUS
<1>7. seen'[x] \in {"filled", "off"} => lot'[x] \in {"filled", "off"}
  OBVIOUS
<1>8. seen'[x] = "retired" => entry'[x[1]] = "over"
  OBVIOUS
<1> QED BY <1>4, <1>5, <1>6, <1>7, <1>8

(* The cancels stay in step with the market.                               *)
LEMMA CommandStep ==
  ASSUME BasketTypeOK, LotInv, CommandInv, SweepInv, Moved
  PROVE  CommandInv'
<1> SUFFICES ASSUME NEW c \in Calls, NEW x \in Items
             PROVE  /\ command'[c][x] # "none" => entry'[x[1]] = "decided"
                    /\ command'[c][x] = "executed" => lot'[x] # "resting"
  BY DEF CommandInv
<1>1. EntryMove(x[1]) /\ LotMove(x) /\ CommandMove(c, x)
  BY Pairs DEF Moved
<1>2. /\ command[c][x] # "none" => entry[x[1]] = "decided"
      /\ command[c][x] = "executed" => lot[x] # "resting"
  BY DEF CommandInv
<1>3. sweep.phase = "sweep" /\ x \in sweep.todo => entry[x[1]] = "decided"
  BY DEF SweepInv
<1> QED BY <1>1, <1>2, <1>3 DEF EntryMove, LotMove, CommandMove, Decided, Still

(* Between restarts the records hold on to the reference.                  *)
LEMMA HeldStep ==
  ASSUME BasketTypeOK, TurnInv, LotInv, RecordInv, HeldInv, Moved,
         \A c \in Calls : Published(c) => \A x \in Items : seen[x] = "none" /\
           (x[1] = c \/ seen'[x] = "none")
  PROVE  HeldInv'
<1> SUFFICES ASSUME restarts' = 0
             PROVE  /\ \A x \in Items :
                         /\ entry'[x[1]] = "exchange" => seen'[x] = "pending"
                         /\ lot'[x] = "resting" => seen'[x] \in {"pending", "resting"}
                    /\ \A x, y \in Items :
                         seen'[x] # "none" /\ seen'[y] # "none" => x[1] = y[1]
  BY DEF HeldInv
<1>1. restarts = 0 /\ restarts' # restarts + 1
  BY DEF Moved, BasketTypeOK
<1>2. ASSUME NEW x \in Items
      PROVE  /\ entry'[x[1]] = "exchange" => seen'[x] = "pending"
             /\ lot'[x] = "resting" => seen'[x] \in {"pending", "resting"}
  <2>1. EntryMove(x[1]) /\ LotMove(x) /\ SeenMove(x)
    BY Pairs DEF Moved
  <2>2. /\ lot[x] # "none" <=> entry[x[1]] = "decided"
        /\ lot[x] \in LotStates /\ seen[x] \in SeenStates
    BY DEF LotInv, BasketTypeOK
  <2>3. /\ entry[x[1]] = "exchange" => seen[x] = "pending"
        /\ lot[x] = "resting" => seen[x] \in {"pending", "resting"}
    BY <1>1 DEF HeldInv
  <2>4. entry'[x[1]] = "exchange" => seen'[x] = "pending"
    BY <1>1, <2>1, <2>2, <2>3 DEF EntryMove, SeenMove, Published, Still
  <2>5. lot'[x] = "resting" => seen'[x] \in {"pending", "resting"}
    BY <1>1, <2>1, <2>2, <2>3 DEF LotMove, SeenMove, Published, Decided, Still
  <2> QED BY <2>4, <2>5
<1>3. ASSUME NEW x \in Items, NEW y \in Items, seen'[x] # "none", seen'[y] # "none"
      PROVE  x[1] = y[1]
  <2>1. CASE \E c \in Calls : Published(c)
    BY <1>3, <2>1
  <2>2. CASE ~\E c \in Calls : Published(c)
    <3>1. ASSUME NEW z \in Items, seen'[z] # "none"
          PROVE  \E p \in Orders : seen[<<z[1], p>>] # "none"
      <4>1. SeenMove(z) /\ ~Published(z[1])
        BY <2>2, Pairs DEF Moved
      <4>2. lot[z] = "resting" => seen[z] \in {"pending", "resting"}
        BY <1>1 DEF HeldInv
      <4>3. lot[z] = "rejected" => entry[z[1]] = "decided"
        BY DEF LotInv
      <4>4. seen[z] # "none" \/ \E p \in Orders : seen[<<z[1], p>>] = "pending"
        BY <1>1, <3>1, <4>1, <4>2, <4>3 DEF SeenMove
      <4>5. z[2] \in Orders /\ z = <<z[1], z[2]>>
        BY Pairs
      <4> QED BY <4>4, <4>5
    <3>2. PICK p \in Orders : seen[<<x[1], p>>] # "none"
      BY <1>3, <3>1
    <3>3. PICK q \in Orders : seen[<<y[1], q>>] # "none"
      BY <1>3, <3>1
    <3> QED BY <1>1, <3>2, <3>3, Pairs DEF HeldInv
  <2> QED BY <2>1, <2>2
<1> QED BY <1>2, <1>3

(* A call begins to wait only with its first step, and a basket reaches    *)
(* the exchange only when nothing is held under its reference.             *)
LEMMA Begins ==
  ASSUME BasketTypeOK, TurnInv, [Next]_vars, NEW d \in Calls
  PROVE  /\ Waits(d)' => Waits(d) \/ entry[d] = "none"
         /\ Published(d) => \A x \in Items :
              seen[x] = "none" /\ (x[1] = d \/ seen'[x] = "none")
<1>1. CASE SubmitBasket \/ CancelBasket
  <2>1. current' = current + 1 /\ current + 1 \in Calls /\ ~(current + 1 <= current)
    BY <1>1 DEF SubmitBasket, CancelBasket, Begin, Calls, BasketTypeOK
  <2>2. Waits(d)' => entry[d] = "none"
    BY <2>1 DEF Waits, TurnInv, BasketTypeOK
  <2>3. entry[d] = "wire" => entry'[d] = "wire"
    BY <1>1, <2>1 DEF SubmitBasket, CancelBasket, BasketTypeOK
  <2> QED BY <2>2, <2>3 DEF Published
<1>2. CASE Deliver \/ CallFails \/ CancelStep
  <2>1. entry' = entry /\ current' = current
    BY <1>2 DEF Deliver, CallFails, Conclude, CancelStep, BeginCancel, HearCancel, CannotSend,
         RouteFails, EndCancel, SendCancel, ReceiveCancel, DeclineCancel, ExecuteCancel,
         NextOrder, Stop,
         Sweeping
  <2>2. \/ ~open'
        \/ sweep.phase # "idle"
        \/ UNCHANGED <<open, reply>>
    BY <1>2 DEF Deliver, CallFails, Conclude, CancelStep, BeginCancel, HearCancel, CannotSend,
         RouteFails, EndCancel, SendCancel, ReceiveCancel, DeclineCancel, ExecuteCancel
  <2>3. sweep.phase # "idle" => open /\ reply = NoReply
    BY DEF TurnInv
  <2> QED BY <2>1, <2>2, <2>3 DEF Waits, Published
<1>3. ASSUME NEW c \in Calls, EntryStep(c)
      PROVE  /\ Waits(d)' => Waits(d)
             /\ Published(d) => \A x \in Items :
                  seen[x] = "none" /\ (x[1] = d \/ seen'[x] = "none")
  <2>1. UNCHANGED <<current, open>>
    BY <1>3 DEF EntryStep, LoseRequest, RefuseBasket, Publish, BrokerReturns, GiveUp,
         AnswerBasket, HearRefused, Reap, Decide, DropExpired, Settle, HearStates
  <2>2. reply' = reply \/ Waits(c)
    BY <1>3 DEF EntryStep, LoseRequest, RefuseBasket, Publish, BrokerReturns, GiveUp,
         AnswerBasket, HearRefused, Reap, Decide, DropExpired, Settle, HearStates, ReplyTo
  <2>3. CASE Publish(c)
    <3>1. /\ entry[c] = "wire"
          /\ \A b \in Calls : entry'[b] = IF b = c THEN "exchange" ELSE entry[b]
      BY <2>3 DEF Publish, Settle, BasketTypeOK
    <3>2. \A x \in Items : /\ seen[x] = "none"
                           /\ seen'[x] = IF x[1] = c THEN "pending" ELSE seen[x]
      BY <2>3 DEF Publish, Holding, InUse
    <3> QED BY <2>1, <2>2, <3>1, <3>2 DEF Waits, Published
  <2>4. CASE ~Publish(c)
    <3>1. ~Published(d)
      <4>1. CASE LoseRequest(c) \/ RefuseBasket(c) \/ BrokerReturns(c) \/ GiveUp(c)
                   \/ AnswerBasket(c) \/ Reap(c)
        <5>1. \/ entry' = [entry EXCEPT ![c] = "over"]
              \/ entry' = [entry EXCEPT ![c] = entry[c]]
          BY <4>1 DEF LoseRequest, RefuseBasket, BrokerReturns, GiveUp, AnswerBasket,
                      Reap, Settle
        <5> QED BY <5>1 DEF Published, BasketTypeOK
      <4>2. CASE HearRefused(c) \/ Decide(c) \/ DropExpired(c)
        BY <4>2 DEF HearRefused, Decide, DropExpired, HearStates, Published, BasketTypeOK
      <4> QED BY <1>3, <2>4, <4>1, <4>2 DEF EntryStep
    <3> QED BY <2>1, <2>2, <3>1 DEF Waits
  <2> QED BY <2>3, <2>4
<1>4. CASE Restart
  <2>1. UNCHANGED <<current, open>> /\ (reply' = reply \/ Waits(current))
    BY <1>4 DEF Restart, Waits
  <2>2. entry'[d] = IF entry[d] = "wire" THEN "over" ELSE entry[d]
    BY <1>4 DEF Restart
  <2> QED BY <2>1, <2>2 DEF Waits, Published
<1>5. CASE \E x \in Items : OrderStep(x)
  BY <1>5 DEF OrderStep, HearReport, ForgetFinished, HearStates, Fill, Waits, Published
<1>6. CASE UNCHANGED vars
  BY <1>6 DEF Waits, Published
<1> QED BY <1>1, <1>2, <1>3, <1>4, <1>5, <1>6 DEF Next, ClientStep

(* A list refused whole stays known as such while its caller waits.        *)
LEMMA WholeStep ==
  ASSUME BasketTypeOK, TurnInv, LotInv, RecordInv, WholeInv, SweepInv, [Next]_vars
  PROVE  WholeInv'
<1>1. Moved
  BY Moves
<1> SUFFICES ASSUME inst' # "none", NEW x \in Items, seen'[x] = "rejected",
                    Waits(x[1])', NEW p \in Orders
             PROVE  seen'[<<x[1], p>>] = "rejected"
  BY DEF WholeInv
<1>2. inst # "none" /\ SeenMove(x) /\ x[1] \in Calls
  BY <1>1, Pairs DEF Moved
<1>3. /\ lot[x] # "none" <=> entry[x[1]] = "decided"
      /\ seen[x] = "rejected" => lot[x] = "rejected"
      /\ entry[x[1]] = "none" => seen[x] = "none"
  BY DEF LotInv, RecordInv
<1>4. ~(restarts' = restarts + 1 /\ ~(open' /\ reply' = NoReply))
  BY DEF Waits
<1>5. CASE seen[x] = "rejected"
  <2> DEFINE y == <<x[1], p>>
  <2>1. Waits(x[1])
    BY <1>2, <1>3, <1>5, Begins
  <2>2. y \in Items /\ y[1] = x[1]
    BY Pairs
  <2> HIDE DEF y
  <2>3. seen[y] = "rejected"
    BY <1>2, <1>5, <2>1 DEF WholeInv, y
  <2>4. SeenMove(y) /\ lot[y] = "rejected" /\ entry[y[1]] = "decided"
    BY <1>1, <2>2, <2>3 DEF Moved, RecordInv, LotInv
  <2>5. seen'[y] = "rejected"
    BY <1>4, <2>1, <2>2, <2>3, <2>4 DEF SeenMove
  <2> QED BY <2>5 DEF y
<1>6. CASE seen[x] # "rejected"
  BY <1>2, <1>4, <1>6 DEF SeenMove
<1> QED BY <1>5, <1>6

-----------------------------------------------------------------------------
(* The cancel under way.                                                   *)

(* An order that is over stays over.                                       *)
LEMMA OverStays ==
  ASSUME Moved, NEW x \in Items, Over(x)
  PROVE  Over(x)'
<1>1. EntryMove(x[1]) /\ LotMove(x)
  BY Pairs DEF Moved
<1>2. entry'[x[1]] \in {"decided", "dropped", "over"}
  BY <1>1 DEF Over, EntryMove
<1>3. lot'[x] # "resting"
  BY <1>1 DEF Over, LotMove, Decided
<1> QED BY <1>2, <1>3 DEF Over

(* What the gateway held when a cancel was called it still holds when the  *)
(* cancel begins, unless it is over.                                       *)
LEMMA PresentStays ==
  ASSUME BasketTypeOK, LotInv, Moved, NEW x \in Items, sweep'.phase # "idle",
         seen[x] \in {"pending", "resting"}
  PROVE  seen'[x] \in {"pending", "resting"} \/ Over(x)'
<1>1. EntryMove(x[1]) /\ LotMove(x) /\ SeenMove(x)
  BY Pairs DEF Moved
<1>2. lot[x] # "none" <=> entry[x[1]] = "decided"
  BY DEF LotInv
<1>3. lot[x] \in LotStates /\ seen[x] \in SeenStates
  BY DEF BasketTypeOK
<1> QED BY <1>1, <1>2, <1>3 DEF EntryMove, LotMove, SeenMove, Decided, Published, Still,
          Over, LotStates

(* While others move, the cancel and its results stand.                    *)
LEMMA SweepKept ==
  ASSUME BasketTypeOK, TurnInv, LotInv, SweepInv, Moved, UNCHANGED <<sweep, current, present>>,
         \A c \in Calls, x \in Items :
           /\ command'[c][x] # "none" => command[c][x] # "none"
           /\ command'[c][x] = "returned" => command[c][x] = "returned"
  PROVE  SweepInv'
<1>1. ASSUME sweep'.phase = "wire", NEW x \in Items
      PROVE  /\ command'[current'][x] = "none"
             /\ x \in present'[current'] => seen'[x] \in {"pending", "resting"} \/ Over(x)'
  <2>1. sweep.phase = "wire" /\ current \in Calls
    BY <1>1 DEF TurnInv
  <2> QED BY <1>1, <2>1, OverStays, PresentStays DEF SweepInv
<1>2. ASSUME sweep'.phase \in {"sweep", "waiting"}, NEW x \in Items
      PROVE
         /\ x \in sweep'.todo => Swept'[x] = "none" /\ entry'[x[1]] = "decided"
         /\ Swept'[x] = "none" /\ ~InHand(x)' => command'[current'][x] = "none"
         /\ Swept'[x] = "cancelled" => command'[current'][x] \in Taken
         /\ Swept'[x] = "refused" => command'[current'][x] = "refused"
         /\ Swept'[x] = "ORDER_PENDING" => command'[current'][x] = "none"
         /\ Swept'[x] = "route" => sweep'.phase = "sweep" /\ sweep'.todo = {}
         /\ x \in present'[current'] /\ Swept'[x] = "none" =>
              x \in sweep'.todo \/ InHand(x)' \/ Over(x)'
         /\ InHand(x)' =>
              /\ x \notin sweep'.todo /\ Swept'[x] = "none"
              /\ command'[current'][x] \in {"sent", "refused"} \cup Taken
  <2>1. sweep.phase \in {"sweep", "waiting"} /\ current \in Calls
    BY <1>2 DEF TurnInv
  <2>2. EntryMove(x[1]) /\ CommandMove(current, x)
    BY <2>1, Pairs DEF Moved
  <2>3. Swept' = Swept /\ (InHand(x)' <=> InHand(x))
    BY DEF Swept, InHand
  <2>4. entry[x[1]] = "decided" => entry'[x[1]] = "decided"
    BY <2>2 DEF EntryMove
  <2>5. /\ command[current][x] = "none" => command'[current][x] = "none"
        /\ command[current][x] = "refused" => command'[current][x] = "refused"
        /\ command[current][x] \in Taken =>
             command'[current][x] \in Taken
        /\ command[current][x] \in {"sent", "refused"} \cup Taken =>
             command'[current][x] \in {"sent", "refused"} \cup Taken
    BY <2>1, <2>2 DEF CommandMove
  <2> QED BY <2>1, <2>3, <2>4, <2>5, OverStays DEF SweepInv
<1> QED BY <1>1, <1>2 DEF SweepInv

(* The record of the cancel is kept by every step.                         *)
LEMMA SweepStep ==
  ASSUME BasketTypeOK, TurnInv, LotInv, RecordInv, CommandInv, SweepInv, [Next]_vars
  PROVE  SweepInv'
<1>1. Moved
  BY Moves
<1>2. CASE SubmitBasket \/ Deliver \/ CallFails \/ Restart \/ EndCancel
  <2>1. sweep'.phase = "idle"
    <3>1. CASE SubmitBasket
      BY <3>1 DEF SubmitBasket, Begin, TurnInv
    <3>2. CASE Deliver \/ CallFails
      BY <3>2, SweepFields DEF Deliver, CallFails
    <3> QED BY <1>2, <3>1, <3>2, SweepFields
  <2> QED BY <2>1 DEF SweepInv
<1>3. CASE CancelBasket
  <2>1. /\ current' = current + 1 /\ current + 1 \in Calls /\ ~(current + 1 <= current)
        /\ sweep'.phase = "wire" /\ UNCHANGED <<command, seen>>
        /\ present'[current + 1] = {x \in Items : seen[x] \in {"pending", "resting"}}
    BY <1>3 DEF CancelBasket, Begin, Calls, BasketTypeOK
  <2>2. command[current + 1] = [x \in Items |-> "none"]
    BY <2>1 DEF TurnInv, BasketTypeOK
  <2> QED BY <2>1, <2>2 DEF SweepInv
<1>4. CASE BeginCancel
  <2>1. UNCHANGED <<command, current, seen, entry, lot, present>> /\ sweep.phase = "wire"
    BY <1>4 DEF BeginCancel, Sweeping
  <2>2. CASE sweep'.phase = "idle"
    BY <2>2 DEF SweepInv
  <2>3. CASE sweep'.phase # "idle"
    <3>1. /\ sweep'.phase = "sweep"
          /\ sweep'.todo = {x \in Items : seen[x] = "resting"}
          /\ Swept' = [x \in Items |->
                IF seen[x] = "pending" THEN "ORDER_PENDING" ELSE "none"]
      BY <1>4, <2>3, SweepFields DEF Swept
    <3>2. ASSUME NEW x \in Items, seen[x] = "resting" PROVE entry[x[1]] = "decided"
      BY <3>2 DEF RecordInv, LotInv
    <3>3. \A x \in Items : ~InHand(x)'
      BY <3>1 DEF InHand
    <3>4. \A x \in Items : Over(x)' <=> Over(x)
      BY <2>1 DEF Over
    <3> QED BY <2>1, <3>1, <3>2, <3>3, <3>4 DEF SweepInv
  <2> QED BY <2>2, <2>3
<1>5. ASSUME NEW z \in Items, SendCancel(z) PROVE SweepInv'
  <2>1. /\ UNCHANGED <<current, seen, entry, lot, present>> /\ sweep.phase = "sweep"
        /\ z \in sweep.todo /\ current \in Calls
        /\ command' = [command EXCEPT ![current][z] = "sent"]
    BY <1>5 DEF SendCancel, Sweeping, TurnInv
  <2>2. /\ sweep'.phase = "waiting" /\ sweep'.target = z
        /\ sweep'.todo = sweep.todo \ {z} /\ Swept' = Swept
    BY <1>5, SweepFields DEF Swept
  <2>3. \A x \in Items :
          command'[current][x] = IF x = z THEN "sent" ELSE command[current][x]
    BY <2>1, OneCommand DEF BasketTypeOK, CommandStates
  <2>4. \A x \in Items : (InHand(x)' <=> x = z) /\ ~InHand(x) /\ (Over(x)' <=> Over(x))
    BY <2>1, <2>2 DEF InHand, Over
  <2>5. Swept[z] = "none"
    BY <2>1 DEF SweepInv
  <2>6. \A x \in Items : Swept[x] # "route"
    BY <2>1 DEF SweepInv
  <2> QED BY <2>1, <2>2, <2>3, <2>4, <2>5, <2>6 DEF SweepInv
<1>6. CASE HearCancel
  <2>1. /\ UNCHANGED <<current, seen, entry, lot, present, command>> /\ sweep.phase = "waiting"
        /\ current \in Calls /\ sweep.target \in Items
    BY <1>6 DEF HearCancel, NextOrder, Sweeping, TurnInv, BasketTypeOK
  <2>2. /\ sweep'.phase = "sweep" /\ sweep'.todo = sweep.todo
        /\ \/ /\ command[current][sweep.target] \in Taken
              /\ Swept' = [Swept EXCEPT ![sweep.target] = "cancelled"]
           \/ /\ command[current][sweep.target] = "refused"
              /\ Swept' = [Swept EXCEPT ![sweep.target] = "refused"]
    BY <1>6, SweepFields DEF Swept
  <2>3. /\ \A x \in Items : x # sweep.target => Swept'[x] = Swept[x]
        /\ \/ /\ command[current][sweep.target] \in Taken
              /\ Swept'[sweep.target] = "cancelled"
           \/ /\ command[current][sweep.target] = "refused"
              /\ Swept'[sweep.target] = "refused"
    BY <2>1, <2>2 DEF Swept, BasketTypeOK
  <2>4. \A x \in Items :
          ~InHand(x)' /\ (InHand(x) <=> x = sweep.target) /\ (Over(x)' <=> Over(x))
    BY <2>1, <2>2 DEF InHand, Over
  <2>5. sweep.target \notin sweep.todo /\ \A x \in Items : Swept[x] # "route"
    BY <2>1, <2>4 DEF SweepInv
  <2> QED BY <2>1, <2>2, <2>3, <2>4, <2>5 DEF SweepInv
<1>7. CASE CannotSend \/ RouteFails
  <2>1. PICK left, status :
          /\ Stop(left, status) /\ current \in Calls
          /\ \/ /\ CannotSend /\ left = sweep.todo /\ sweep.phase = "sweep"
                /\ sweep.todo # {} /\ command' = command
             \/ /\ RouteFails /\ left = sweep.todo \cup {sweep.target}
                /\ sweep.phase = "waiting"
    BY <1>7 DEF CannotSend, RouteFails, TurnInv
  <2>2. CASE sweep'.phase = "idle"
    BY <2>2 DEF SweepInv
  <2>3. CASE sweep'.phase # "idle"
    <3>1. /\ UNCHANGED <<current, seen, entry, lot, present>>
      BY <2>1 DEF Stop, Sweeping
    <3>2. /\ sweep'.phase = "sweep" /\ sweep'.todo = {}
          /\ Swept' = [x \in Items |-> IF x \in left THEN "route" ELSE Swept[x]]
      BY <2>1, <2>3, StopFields DEF Swept
    <3>3. \A x \in Items :
            x # sweep.target \/ sweep.phase = "sweep" => command'[current][x] = command[current][x]
      BY <2>1, OneCommand DEF RouteFails, BasketTypeOK, CommandStates
    <3>4. \A x \in Items : ~InHand(x)' /\ (Over(x)' <=> Over(x))
      BY <3>1, <3>2 DEF InHand, Over
    <3>5. ASSUME NEW x \in Items, Swept'[x] # "route"
          PROVE  /\ x \notin sweep.todo /\ ~InHand(x) /\ Swept'[x] = Swept[x]
                 /\ command'[current][x] = command[current][x]
      BY <2>1, <3>2, <3>3, <3>5 DEF InHand
    <3> QED BY <2>1, <3>1, <3>2, <3>4, <3>5 DEF SweepInv
  <2> QED BY <2>2, <2>3
<1>8. ASSUME NEW c \in Calls, NEW x \in Items,
             ReceiveCancel(c, x) \/ DeclineCancel(c, x) \/ ExecuteCancel(c, x)
      PROVE  SweepInv'
  <2>1. UNCHANGED <<sweep, current, present>>
    BY <1>8 DEF ReceiveCancel, DeclineCancel, ExecuteCancel
  <2>2. \A d \in Calls, y \in Items :
          /\ command'[d][y] # "none" => command[d][y] # "none"
          /\ command'[d][y] = "returned" => command[d][y] = "returned"
    <3>1. PICK s \in {"received", "refused", "executed", "declined"} :
            command[c][x] # "none" /\ command' = [command EXCEPT ![c][x] = s]
      BY <1>8 DEF ReceiveCancel, DeclineCancel, ExecuteCancel
    <3> QED BY <3>1, OneCommand DEF BasketTypeOK, CommandStates
  <2> QED BY <1>1, <2>1, <2>2, SweepKept
<1>9. CASE UNCHANGED vars \/ (\E c \in Calls : EntryStep(c)) \/ (\E x \in Items : OrderStep(x))
  <2>1. UNCHANGED <<sweep, current, present, command>>
    BY <1>9 DEF EntryStep, LoseRequest, RefuseBasket, Publish, BrokerReturns, GiveUp,
         AnswerBasket, HearRefused, Reap, Decide, DropExpired, Settle, HearStates,
         OrderStep, HearReport, ForgetFinished, Fill
  <2> QED BY <1>1, <2>1, SweepKept
<1> QED BY <1>2, <1>3, <1>4, <1>5, <1>6, <1>7, <1>8, <1>9 DEF Next, ClientStep, CancelStep

-----------------------------------------------------------------------------
(* What the answers stand for.                                             *)

(* What was said of call c stays so.                                       *)
Forward(c) ==
  /\ inst' = inst /\ method'[c] = method[c] /\ present'[c] = present[c]
  /\ NotPlaced(c) => NotPlaced(c)'
  /\ \A p \in Orders :
       /\ lot[<<c, p>>] = "rejected" => lot'[<<c, p>>] = "rejected"
       /\ lot[<<c, p>>] \in {"resting", "filled", "off"} =>
            lot'[<<c, p>>] \in {"resting", "filled", "off"}
  /\ \A x \in Items :
       /\ Over(x) => Over(x)'
       /\ command[c][x] \in {"none", "refused", "returned"} =>
            command'[c][x] \in {"none", "refused", "returned"}
       /\ command[c][x] \in Taken =>
            command'[c][x] \in Taken

(* Only the first call without an answer is called and written.            *)
LEMMA CallsStand ==
  ASSUME BasketTypeOK, TurnInv, [Next]_vars, NEW c \in Calls, c <= current
  PROVE  inst' = inst /\ method'[c] = method[c] /\ present'[c] = present[c]
<1>1. CASE SubmitBasket \/ CancelBasket
  <2>1. c # current + 1
    BY DEF Calls, BasketTypeOK
  <2> QED BY <1>1, <2>1 DEF SubmitBasket, CancelBasket, Begin, BasketTypeOK
<1>2. CASE Deliver \/ CallFails \/ Restart \/ UNCHANGED vars
  BY <1>2 DEF Deliver, CallFails, Conclude, Restart
<1>3. CASE CancelStep
  BY <1>3 DEF CancelStep, BeginCancel, HearCancel, CannotSend,
       RouteFails, EndCancel, SendCancel, ReceiveCancel, DeclineCancel, ExecuteCancel,
         NextOrder, Stop, Sweeping
<1>4. CASE (\E d \in Calls : EntryStep(d)) \/ (\E x \in Items : OrderStep(x))
  BY <1>4 DEF EntryStep, LoseRequest, RefuseBasket, Publish, BrokerReturns, GiveUp,
       AnswerBasket, HearRefused, Reap, Decide, DropExpired, Settle, HearStates,
       OrderStep, HearReport, ForgetFinished, Fill
<1> QED BY <1>1, <1>2, <1>3, <1>4 DEF Next, ClientStep

(* What a call was answered, or is about to be, stays so.                  *)
LEMMA ForwardStep ==
  ASSUME BasketTypeOK, TurnInv, LotInv, SweepInv, [Next]_vars, NEW c \in Calls,
         told[c].kind # "none" \/ (c = current /\ reply # NoReply)
  PROVE  Forward(c)
<1>1. Moved
  BY Moves
<1>2. c <= current
  BY DEF TurnInv, BasketTypeOK, Calls
<1>3. NotPlaced(c) => NotPlaced(c)'
  <2> SUFFICES ASSUME NotPlaced(c) PROVE NotPlaced(c)'
    OBVIOUS
  <2>1. entry'[c] \in {"over", "dropped"}
    BY <1>1 DEF Moved, EntryMove, NotPlaced
  <2>2. ASSUME NEW p \in Orders PROVE lot'[<<c, p>>] = "none"
    <3>1. LotMove(<<c, p>>) /\ <<c, p>>[1] = c
      BY <1>1, Pairs DEF Moved
    <3> QED BY <3>1 DEF LotMove, NotPlaced, Decided
  <2> QED BY <2>1, <2>2 DEF NotPlaced
<1>4. ASSUME NEW p \in Orders
      PROVE  /\ lot[<<c, p>>] = "rejected" => lot'[<<c, p>>] = "rejected"
             /\ lot[<<c, p>>] \in {"resting", "filled", "off"} =>
                  lot'[<<c, p>>] \in {"resting", "filled", "off"}
  <2>1. LotMove(<<c, p>>) /\ <<c, p>>[1] = c /\ <<c, p>> \in Items
    BY <1>1, Pairs DEF Moved
  <2>2. lot[<<c, p>>] # "none" => ~Decided(c)
    BY <2>1 DEF LotInv, Decided
  <2> QED BY <2>1, <2>2 DEF LotMove
<1>5. ASSUME NEW x \in Items
      PROVE  /\ Over(x) => Over(x)'
             /\ command[c][x] \in {"none", "refused", "returned"} =>
                  command'[c][x] \in {"none", "refused", "returned"}
             /\ command[c][x] \in Taken =>
                  command'[c][x] \in Taken
  <2>1. ~(c = current /\ sweep.phase = "sweep")
    BY DEF TurnInv
  <2>2. CommandMove(c, x)
    BY <1>1 DEF Moved
  <2> QED BY <1>1, <2>1, <2>2, OverStays DEF CommandMove
<1> QED BY <1>2, <1>3, <1>4, <1>5, CallsStand DEF Forward

(* An answer that was given is kept.                                       *)
LEMMA ToldStays ==
  ASSUME NEW c \in Calls, Promised(c, told[c]), Forward(c), told'[c] = told[c]
  PROVE  Promised(c, told[c])'
<1> DEFINE a == told[c]
<1>1. a' = a
  OBVIOUS
<1>2. (a.kind = "raised" /\ a.rejected =>
         IF method[c] = "submit" THEN NotPlaced(c) ELSE Untouched(c))'
  <2>1. Untouched(c) => Untouched(c)'
    BY DEF Untouched, Forward
  <2> QED BY <1>1, <2>1 DEF Promised, Forward
<1>3. (a.kind = "states" =>
         \A p \in Orders :
           /\ a.states[p] = "REJECTED" => lot[<<c, p>>] = "rejected"
           /\ a.states[p] = "ACCEPTED" => lot[<<c, p>>] \in {"resting", "filled", "off"}
           /\ a.states[p] = "REJECTED" /\ inst # "none" =>
                \A q \in Orders : a.states[q] = "REJECTED")'
  BY <1>1 DEF Promised, Forward
<1>4. (a.kind = "results" =>
         \A x \in Items :
           /\ a.results[x] \in {"refused", "ORDER_PENDING"} =>
                command[c][x] \in {"none", "refused", "returned"}
           /\ x \in present[c] /\ a.results[x] \in {"none", "cancelled"} =>
                Over(x) \/ command[c][x] \in Taken)'
  BY <1>1 DEF Promised, Forward
<1> QED BY <1>2, <1>3, <1>4 DEF Promised

(* An answer on its way stays as good as it was.                           *)
LEMMA ReplyStays ==
  ASSUME PromiseInv, Forward(current), current' = current, reply' = reply
  PROVE  /\ reply.kind = "status" => Promised(current, RaisedFor(reply.status))'
         /\ reply.kind \in {"states", "results"} => Promised(current, reply)'
<1>1. (Untouched(current) => Untouched(current)') /\ (NotPlaced(current) => NotPlaced(current)')
  BY DEF Untouched, Forward
<1>2. ASSUME reply.kind = "status"
      PROVE  Promised(current, RaisedFor(reply.status))'
  <2> DEFINE a == RaisedFor(reply.status)
  <2>1. a' = a /\ a.kind = "raised" /\ Promised(current, a)
    BY <1>2, Kinds DEF PromiseInv
  <2> HIDE DEF a
  <2>2. Promised(current, a)'
    BY <1>1, <2>1 DEF Promised, Forward
  <2> QED BY <2>2 DEF a
<1>3. ASSUME reply.kind \in {"states", "results"} PROVE Promised(current, reply)'
  <2>1. Promised(current, reply)
    BY <1>3 DEF PromiseInv
  <2>2. (reply.kind = "states" =>
           \A p \in Orders :
             /\ reply.states[p] = "REJECTED" => lot[<<current, p>>] = "rejected"
             /\ reply.states[p] = "ACCEPTED" => lot[<<current, p>>] \in {"resting", "filled", "off"}
             /\ reply.states[p] = "REJECTED" /\ inst # "none" =>
                  \A q \in Orders : reply.states[q] = "REJECTED")'
    BY <2>1 DEF Promised, Forward
  <2>3. (reply.kind = "results" =>
           \A x \in Items :
             /\ reply.results[x] \in {"refused", "ORDER_PENDING"} =>
                  command[current][x] \in {"none", "refused", "returned"}
             /\ x \in present[current] /\ reply.results[x] \in {"none", "cancelled"} =>
                  Over(x) \/ command[current][x] \in Taken)'
    BY <2>1 DEF Promised, Forward
  <2> QED BY <1>3, <2>2, <2>3 DEF Promised
<1> QED BY <1>2, <1>3

(* An error that is no definite rejection promises nothing.                *)
LEMMA NothingPromised ==
  ASSUME NEW s, ~RaisedFor(s).rejected, reply' = Fail(s)
  PROVE  /\ reply'.kind = "status"
         /\ Promised(current, RaisedFor(reply.status))'
<1>1. reply'.kind = "status" /\ reply'.status = s
  BY Kinds
<1>2. RaisedFor(reply.status)' = RaisedFor(s)
  BY <1>1 DEF RaisedFor
<1>3. RaisedFor(s).kind = "raised"
  BY Kinds
<1> HIDE DEF RaisedFor
<1> QED BY <1>1, <1>2, <1>3 DEF Promised

(* A rejection on its way is kept once the call did nothing.               *)
LEMMA RejectionKept ==
  ASSUME NEW s, reply' = Fail(s),
         IF method'[current'] = "submit" THEN NotPlaced(current)' ELSE Untouched(current)'
  PROVE  /\ reply'.kind = "status"
         /\ Promised(current, RaisedFor(reply.status))'
<1>1. reply'.kind = "status" /\ reply'.status = s
  BY Kinds
<1>2. RaisedFor(reply.status)' = RaisedFor(s)
  BY <1>1 DEF RaisedFor
<1>3. RaisedFor(s).kind = "raised"
  BY Kinds
<1> QED BY <1>1, <1>2, <1>3 DEF Promised

(* The gateway's answer to a submission is as good as its records.         *)
LEMMA EntryReply ==
  ASSUME BasketTypeOK, TurnInv, LotInv, RecordInv, WholeInv, NEW c \in Calls,
         EntryStep(c), reply' # reply
  PROVE  /\ reply'.kind = "status" => Promised(current, RaisedFor(reply.status))'
         /\ reply'.kind \in {"states", "results"} => Promised(current, reply)'
<1>1. Waits(c) /\ c = current /\ current' = current /\ method' = method /\ lot' = lot /\ inst' = inst
  BY DEF EntryStep, LoseRequest, RefuseBasket, Publish, BrokerReturns, GiveUp,
         AnswerBasket, HearRefused, Reap, Decide, DropExpired, Settle, HearStates, ReplyTo, Waits
<1>2. entry[c] # "none" => method[c] = "submit"
  BY DEF TurnInv
<1>3. entry[c] \in {"wire", "exchange"} => \A p \in Orders : lot[<<c, p>>] = "none"
  BY Pairs DEF LotInv
<1>4. CASE RefuseBasket(c) \/ BrokerReturns(c)
  <2>1. PICK s : Settle(c, "over", Fail(s)) /\ entry[c] \in {"wire", "exchange"}
    BY <1>4 DEF RefuseBasket, BrokerReturns
  <2>2. reply' = Fail(s) /\ entry'[c] = "over"
    BY <1>1, <2>1 DEF Settle, ReplyTo, BasketTypeOK
  <2>3. NotPlaced(current)' /\ method'[current'] = "submit"
    BY <1>1, <1>2, <1>3, <2>1, <2>2 DEF NotPlaced
  <2>4. reply'.kind = "status" /\ Promised(current, RaisedFor(reply.status))'
    BY <2>2, <2>3, RejectionKept
  <2> QED BY <2>4
<1>5. CASE GiveUp(c)
  <2>1. reply' = Fail(Failure("DEADLINE_EXCEEDED"))
    BY <1>1, <1>5 DEF GiveUp, Settle, ReplyTo
  <2>2. reply'.kind = "status" /\ Promised(current, RaisedFor(reply.status))'
    BY <2>1, NothingPromised, Uncertain
  <2> QED BY <2>2
<1>6. CASE AnswerBasket(c)
  <2> DEFINE f == [p \in Orders |-> StateOf(<<c, p>>)]
  <2>1. reply' = States(f) /\ entry[c] \in {"exchange", "decided"} /\ seen' = seen
    BY <1>1, <1>6 DEF AnswerBasket, Settle, ReplyTo
  <2>2. reply'.kind = "states" /\ reply'.states = f
    BY <2>1, Kinds
  <2>3. ASSUME NEW p \in Orders
        PROVE  /\ StateOf(<<c, p>>) = "REJECTED" => seen[<<c, p>>] = "rejected"
               /\ StateOf(<<c, p>>) = "ACCEPTED" => seen[<<c, p>>] \in {"resting", "filled", "off"}
               /\ seen[<<c, p>>] = "rejected" => StateOf(<<c, p>>) = "REJECTED"
    <3>1. seen[<<c, p>>] # "retired" /\ seen[<<c, p>>] \in SeenStates
      BY <2>1, Pairs DEF RecordInv, BasketTypeOK
    <3> QED BY <3>1 DEF StateOf, SeenStates
  <2>4. ASSUME NEW p \in Orders
        PROVE  /\ f[p] = "REJECTED" => lot[<<c, p>>] = "rejected"
               /\ f[p] = "ACCEPTED" => lot[<<c, p>>] \in {"resting", "filled", "off"}
    BY <2>3, Pairs DEF RecordInv
  <2>5. ASSUME NEW p \in Orders, f[p] = "REJECTED", inst # "none", NEW q \in Orders
        PROVE  f[q] = "REJECTED"
    <3>1. seen[<<c, p>>] = "rejected"
      BY <2>3, <2>5
    <3>2. seen[<<c, q>>] = "rejected"
      BY <1>1, <2>5, <3>1, Pairs DEF WholeInv
    <3> QED BY <2>3, <3>2
  <2> HIDE DEF f
  <2>6. Promised(current, reply)'
    BY <1>1, <2>2, <2>4, <2>5 DEF Promised
  <2> QED BY <2>2, <2>6
<1>7. CASE ~(RefuseBasket(c) \/ BrokerReturns(c) \/ GiveUp(c) \/ AnswerBasket(c))
  BY <1>7 DEF EntryStep, LoseRequest, Publish, HearRefused, Reap, Decide, DropExpired,
         Settle, HearStates, ReplyTo
<1> QED BY <1>4, <1>5, <1>6, <1>7

(* The gateway's answer to a cancel is as good as its results.             *)
LEMMA CancelReply ==
  ASSUME BasketTypeOK, TurnInv, LotInv, RecordInv, SweepInv, CancelStep, reply' # reply
  PROVE  /\ reply'.kind = "status" => Promised(current, RaisedFor(reply.status))'
         /\ reply'.kind \in {"states", "results"} => Promised(current, reply)'
<1>1. BeginCancel \/ CannotSend \/ RouteFails \/ EndCancel
  BY DEF CancelStep, HearCancel, SendCancel, ReceiveCancel, DeclineCancel, ExecuteCancel
<1>2. /\ UNCHANGED <<inst, current, method, present, entry, lot>> /\ sweep.phase # "idle"
  BY <1>1 DEF BeginCancel, CannotSend, RouteFails, EndCancel, Stop, Sweeping
<1>3. current \in Calls /\ method[current] = "cancel"
  BY <1>2 DEF TurnInv
<1>4. CASE BeginCancel
  <2>1. sweep.phase = "wire" /\ command' = command
    BY <1>4 DEF BeginCancel
  <2>2. PICK s : reply' = Fail(s)
    BY <1>4, SweepFields
  <2>3. Untouched(current)'
    BY <1>2, <2>1 DEF Untouched, SweepInv
  <2>4. reply'.kind = "status" /\ Promised(current, RaisedFor(reply.status))'
    BY <1>2, <1>3, <2>2, <2>3, RejectionKept
  <2> QED BY <2>4
<1>5. CASE CannotSend
  <2>1. PICK s : Stop(sweep.todo, s) /\ sweep.phase = "sweep" /\ sweep.todo # {} /\ command' = command
    BY <1>5 DEF CannotSend
  <2>2. reply' = Fail(s) /\ ~\E x \in Items : Swept[x] = "cancelled"
    BY <2>1, StopFields
  <2>3. ASSUME NEW x \in Items
        PROVE  command'[current][x] \in {"none", "refused", "returned"}
    <3>1. Swept[x] \in {"none", "refused", "ORDER_PENDING"} /\ ~InHand(x)
      BY <2>1, <2>2 DEF SweepInv, InHand, Swept, BasketTypeOK, ResultWords
    <3> QED BY <2>1, <3>1 DEF SweepInv
  <2>4. Untouched(current)'
    BY <1>2, <2>3 DEF Untouched
  <2>5. reply'.kind = "status" /\ Promised(current, RaisedFor(reply.status))'
    BY <1>2, <1>3, <2>2, <2>4, RejectionKept
  <2> QED BY <2>5
<1>6. CASE RouteFails
  <2> DEFINE left == sweep.todo \cup {sweep.target}
  <2>1. sweep.phase = "waiting" /\ sweep.target \in Items
    BY <1>6 DEF RouteFails, BasketTypeOK
  <2>2. CASE Stop(left, Failure("DEADLINE_EXCEEDED"))
    <3>1. reply' = Fail(Failure("DEADLINE_EXCEEDED"))
      BY <2>2, StopFields
    <3>2. reply'.kind = "status" /\ Promised(current, RaisedFor(reply.status))'
      BY <3>1, NothingPromised, Uncertain
    <3> QED BY <3>2
  <2>3. CASE /\ Stop(left, Marked("UNAVAILABLE", "NOT_PROCESSED"))
             /\ command' = [command EXCEPT ![current][sweep.target] = "returned"]
    <3>1. /\ reply' = Fail(Marked("UNAVAILABLE", "NOT_PROCESSED"))
          /\ ~\E x \in Items : Swept[x] = "cancelled"
      BY <2>3, StopFields
    <3>2. \A x \in Items : command'[current][x] =
            IF x = sweep.target THEN "returned" ELSE command[current][x]
      BY <1>3, <2>1, <2>3, OneCommand DEF BasketTypeOK, CommandStates
    <3>3. ASSUME NEW x \in Items
          PROVE  command'[current][x] \in {"none", "refused", "returned"}
      <4>1. CASE x # sweep.target
        <5>1. Swept[x] \in {"none", "refused", "ORDER_PENDING"} /\ ~InHand(x)
          BY <2>1, <3>1, <4>1 DEF SweepInv, InHand, Swept, BasketTypeOK, ResultWords
        <5> QED BY <2>1, <3>2, <4>1, <5>1 DEF SweepInv
      <4> QED BY <3>2, <4>1
    <3>4. Untouched(current)'
      BY <1>2, <3>3 DEF Untouched
    <3>5. reply'.kind = "status" /\ Promised(current, RaisedFor(reply.status))'
      BY <1>2, <1>3, <3>1, <3>4, RejectionKept
    <3> QED BY <3>5
  <2> QED BY <1>6, <2>2, <2>3 DEF RouteFails
<1>7. CASE EndCancel
  <2>1. /\ reply'.kind = "results" /\ reply'.results = Swept /\ command' = command
        /\ sweep.phase = "sweep" /\ sweep.todo = {}
    BY <1>7, Kinds DEF EndCancel
  <2>2. ASSUME NEW x \in Items
        PROVE  /\ Swept[x] \in {"refused", "ORDER_PENDING"} =>
                    command[current][x] \in {"none", "refused", "returned"}
               /\ x \in present[current] /\ Swept[x] \in {"none", "cancelled"} =>
                    Over(x) \/ command[current][x] \in Taken
    BY <2>1 DEF SweepInv, InHand
  <2>3. \A x \in Items : Over(x) => Over(x)'
    BY <1>2 DEF Over
  <2>4. Promised(current, reply)'
    BY <1>2, <2>1, <2>2, <2>3 DEF Promised
  <2> QED BY <2>1, <2>4
<1> QED BY <1>1, <1>4, <1>5, <1>6, <1>7

(* The promises are kept by every step.                                    *)
LEMMA PromiseStep ==
  ASSUME BasketTypeOK, TurnInv, LotInv, RecordInv, WholeInv, SweepInv, PromiseInv, [Next]_vars
  PROVE  PromiseInv'
<1>1. ASSUME NEW c \in Calls, told'[c] = told[c] PROVE Promised(c, told[c])'
  <2>1. CASE told[c].kind = "none"
    BY <1>1, <2>1 DEF Promised
  <2>2. CASE told[c].kind # "none"
    BY <1>1, <2>2, ForwardStep, ToldStays DEF PromiseInv
  <2> QED BY <2>1, <2>2
<1>2. ASSUME reply' = reply, reply # NoReply
      PROVE  /\ reply.kind = "status" => Promised(current, RaisedFor(reply.status))'
             /\ reply.kind \in {"states", "results"} => Promised(current, reply)'
  <2>1. open /\ current \in Calls
    BY <1>2 DEF TurnInv
  <2>2. current' = current
    <3>1. ~SubmitBasket /\ ~CancelBasket
      BY <2>1 DEF SubmitBasket, CancelBasket, Begin
    <3> QED BY <3>1 DEF Next, ClientStep, Deliver, CallFails, Conclude, Restart,
         CancelStep, BeginCancel, HearCancel, CannotSend, RouteFails, EndCancel, SendCancel,
         ReceiveCancel, DeclineCancel, ExecuteCancel,
         NextOrder, Stop, Sweeping,
         EntryStep, LoseRequest, RefuseBasket, Publish, BrokerReturns, GiveUp,
         AnswerBasket, HearRefused, Reap, Decide, DropExpired, Settle, HearStates,
         OrderStep, HearReport, ForgetFinished, Fill
  <2> QED BY <1>2, <2>1, <2>2, ForwardStep, ReplyStays
<1>3. CASE Deliver \/ CallFails
  <2>1. /\ UNCHANGED <<inst, current, method, present, entry, command, lot>>
        /\ reply' = NoReply /\ current \in Calls
    BY <1>3 DEF Deliver, CallFails, Conclude, TurnInv
  <2>2. ASSUME NEW c \in Calls PROVE Promised(c, told[c])'
    <3>1. CASE c # current
      <4>1. told'[c] = told[c]
        BY <1>3, <3>1 DEF Deliver, CallFails, Conclude, BasketTypeOK
      <4> QED BY <4>1, <1>1
    <3>2. CASE c = current /\ Deliver /\ reply.kind = "status"
      <4> DEFINE a == RaisedFor(reply.status)
      <4>1. told'[c] = a
        BY <2>1, <3>2 DEF Deliver, Conclude, BasketTypeOK
      <4>2. a.kind = "raised" /\ Promised(c, a)
        BY <3>2, Kinds DEF PromiseInv
      <4> HIDE DEF a
      <4> QED BY <2>1, <4>1, <4>2 DEF Promised, NotPlaced, Untouched
    <3>3. CASE c = current /\ Deliver /\ reply.kind # "status"
      <4>1. told'[c] = reply /\ Promised(c, reply) /\ reply.kind \in {"states", "results"}
        BY <2>1, <3>3 DEF Deliver, Conclude, BasketTypeOK, PromiseInv
      <4>2. \A x \in Items : Over(x)' <=> Over(x)
        BY <2>1 DEF Over
      <4> QED BY <2>1, <4>1, <4>2 DEF Promised
    <3>4. CASE c = current /\ CallFails
      <4>1. PICK code \in {"DEADLINE_EXCEEDED", "UNAVAILABLE", "CANCELLED"} :
              told'[c] = RaisedFor(Failure(code))
        BY <2>1, <3>4 DEF CallFails, Conclude, BasketTypeOK
      <4>2. told'[c].kind = "raised" /\ ~told'[c].rejected
        BY <4>1, Kinds, Uncertain
      <4> QED BY <4>2 DEF Promised
    <3> QED BY <1>3, <3>1, <3>2, <3>3, <3>4
  <2> QED BY <2>1, <2>2, Kinds DEF PromiseInv
<1>4. CASE ~(Deliver \/ CallFails)
  <2>1. told' = told
    BY <1>4 DEF Next, ClientStep, SubmitBasket, CancelBasket, Begin, Restart,
         CancelStep, BeginCancel, HearCancel, CannotSend, RouteFails, EndCancel, SendCancel,
         ReceiveCancel, DeclineCancel, ExecuteCancel,
         NextOrder, Stop, Sweeping,
         EntryStep, LoseRequest, RefuseBasket, Publish, BrokerReturns, GiveUp,
         AnswerBasket, HearRefused, Reap, Decide, DropExpired, Settle, HearStates,
         OrderStep, HearReport, ForgetFinished, Fill
  <2>2. \A c \in Calls : Promised(c, told[c])'
    BY <1>1, <2>1
  <2>3. /\ (reply.kind = "status" => Promised(current, RaisedFor(reply.status)))'
        /\ (reply.kind \in {"states", "results"} => Promised(current, reply))'
    <3>1. CASE reply' = NoReply
      BY <3>1, Kinds
    <3>2. CASE reply' = reply /\ reply # NoReply
      BY <3>2, <1>2
    <3>3. CASE reply' # reply /\ \E c \in Calls : EntryStep(c)
      BY <3>3, EntryReply
    <3>4. CASE reply' # reply /\ CancelStep
      BY <3>4, CancelReply
    <3>5. CASE reply' # reply /\ Restart
      <4>1. reply' = Fail(Failure("UNAVAILABLE"))
        BY <3>5 DEF Restart
      <4>2. reply'.kind = "status" /\ Promised(current, RaisedFor(reply.status))'
        BY <4>1, NothingPromised, Uncertain
      <4> QED BY <4>2
    <3>6. CASE \/ SubmitBasket \/ CancelBasket \/ UNCHANGED vars
               \/ \E x \in Items : OrderStep(x)
      <4>1. reply' = reply
        BY <3>6 DEF SubmitBasket, CancelBasket, Begin, OrderStep, HearReport, ForgetFinished,
             HearStates, Fill
      <4> QED BY <4>1, <3>1, <3>2
    <3> QED BY <1>4, <3>1, <3>2, <3>3, <3>4, <3>5, <3>6 DEF Next, ClientStep
  <2> QED BY <2>2, <2>3 DEF PromiseInv
<1> QED BY <1>3, <1>4

-----------------------------------------------------------------------------
(* The theorems.                                                           *)

(* The invariant holds at first.                                           *)
LEMMA BasketStart == Init => BasketInv
<1> SUFFICES ASSUME Init PROVE BasketInv
  OBVIOUS
<1>1. /\ reply.kind = "none" /\ sweep.phase = "idle" /\ restarts = 0
      /\ \A c \in Calls : told[c].kind = "none"
  BY Kinds DEF Init
<1>2. BasketTypeOK
  <2>1. seen \in [Items -> SeenStates] /\ lot \in [Items -> LotStates]
    BY DEF Init, SeenStates, LotStates
  <2>2. command \in [Calls -> [Items -> CommandStates]]
    BY DEF Init, CommandStates
  <2>3. told = [c \in Calls |-> told[c]]
    BY DEF Init
  <2>4. entry \in [Calls -> EntryStages] /\ present \in [Calls -> SUBSET Items]
    BY DEF Init, EntryStages
  <2>5. /\ method \in [Calls -> {"none", "submit", "cancel"}]
        /\ inst \in {"none", "valid", "linked"}
    BY DEF Init
  <2>6. current \in 0 .. MaxCalls /\ restarts \in Nat
    BY DEF Init
  <2>7. open \in BOOLEAN
    BY Zenon DEF Init
  <2> QED BY <1>1, <2>1, <2>2, <2>3, <2>4, <2>5, <2>6, <2>7 DEF BasketTypeOK
<1>3. TurnInv
  BY <1>1 DEF Init, TurnInv
<1>4. LotInv /\ RecordInv /\ WholeInv /\ CommandInv
  BY Pairs DEF Init, LotInv, RecordInv, WholeInv, CommandInv
<1>5. HeldInv
  BY Pairs DEF Init, HeldInv
<1>6. SweepInv
  BY <1>1 DEF SweepInv
<1>7. PromiseInv
  BY <1>1 DEF PromiseInv, Promised
<1> QED BY <1>2, <1>3, <1>4, <1>5, <1>6, <1>7 DEF BasketInv

(* The invariant: the gateway's records agree with the exchange, and every *)
(* answer, given or on its way, rests on them.                             *)
THEOREM BasketInvariant == Spec => []BasketInv
<1>1. BasketInv /\ [Next]_vars => BasketInv'
  <2> SUFFICES ASSUME BasketInv, [Next]_vars PROVE BasketInv'
    OBVIOUS
  <2> USE DEF BasketInv
  <2>1. Moved
    BY Moves
  <2>2. BasketTypeOK' /\ TurnInv' /\ LotInv' /\ RecordInv' /\ CommandInv'
    BY <2>1, TypesStep, TurnStep, LotStep, RecordStep, CommandStep
  <2>3. HeldInv'
    BY <2>1, Begins, HeldStep
  <2>4. WholeInv' /\ SweepInv' /\ PromiseInv'
    BY WholeStep, SweepStep, PromiseStep
  <2> QED BY <2>2, <2>3, <2>4
<1> QED BY <1>1, BasketStart, PTL DEF Spec

(* What a basket call says for certain is so and stays so, for baskets of  *)
(* any size and any number of calls and restarts.                          *)
THEOREM BasketsHonest == Spec => []BasketHonest
<1>1. BasketInv => BasketHonest
  BY DEF BasketInv, PromiseInv, Promised, BasketHonest
<1> QED BY <1>1, BasketInvariant, PTL

(* Until the gateway restarts, a reference has one basket alive at a time. *)
THEOREM OneBasketAlive == Spec => []OneBasketPerRef
<1>1. BasketInv => OneBasketPerRef
  <2> SUFFICES ASSUME BasketInv, restarts = 0, NEW c \in Calls, NEW d \in Calls,
                      Alive(c), Alive(d)
               PROVE  c = d
    BY DEF OneBasketPerRef
  <2>1. ASSUME NEW b \in Calls, Alive(b) PROVE \E p \in Orders : seen[<<b, p>>] # "none"
    <3>1. CASE entry[b] = "exchange"
      BY <3>1, BasketCarries, Pairs DEF BasketInv, HeldInv
    <3>2. CASE \E p \in Orders : lot[<<b, p>>] = "resting"
      BY <3>2, Pairs DEF BasketInv, HeldInv
    <3> QED BY <2>1, <3>1, <3>2 DEF Alive
  <2>2. PICK p \in Orders : seen[<<c, p>>] # "none"
    BY <2>1
  <2>3. PICK q \in Orders : seen[<<d, q>>] # "none"
    BY <2>1
  <2> QED BY <2>2, <2>3, Pairs DEF BasketInv, HeldInv
<1> QED BY <1>1, BasketInvariant, PTL

(* A cancel_basket that reports nothing but acknowledged cancels forgets   *)
(* no order, whatever it met on its way.                                   *)
THEOREM NoneIsForgotten == Spec => []NoneForgotten
<1>1. BasketInv => NoneForgotten
  <2> SUFFICES ASSUME BasketInv, NEW c \in Calls, told[c].kind = "results",
                      \A x \in Items : told[c].results[x] \in {"none", "cancelled"},
                      NEW x \in present[c]
               PROVE  \/ lot[x] # "resting" /\ entry[x[1]] # "exchange"
                      \/ command[c][x] \in {"received", "declined"}
    BY DEF NoneForgotten
  <2>1. x \in Items
    BY DEF BasketInv, BasketTypeOK
  <2>2. Over(x) \/ command[c][x] \in Taken
    BY <2>1 DEF BasketInv, PromiseInv, Promised
  <2> QED BY <2>1, <2>2 DEF BasketInv, CommandInv, Over
<1> QED BY <1>1, BasketInvariant, PTL

-----------------------------------------------------------------------------
(* The baskets implement BasketPromise.                                    *)

(* A cancel is of an order that was placed, by a call that cancels; and    *)
(* the results on their way say so of every order.                         *)
Placed(x) == lot[x] \in {"resting", "filled", "off"}
GraspInv ==
  /\ \A c \in Calls : method[c] = "none" <=> c > current
  /\ \A c \in Calls, x \in Items :
       command[c][x] # "none" => Placed(x) /\ method[c] = "cancel"
  /\ sweep.phase \in {"sweep", "waiting"} => \A x \in sweep.todo : Placed(x)
  /\ reply.kind = "results" =>
       \A x \in Items :
         /\ reply.results[x] = "cancelled" => command[current][x] \in Taken
         /\ reply.results[x] = "none" => command[current][x] = "none"

(* The orders still to be cancelled are some of those there were, or the   *)
(* ones that rest when the cancel begins.                                  *)
LEMMA TodoShrinks ==
  ASSUME BasketTypeOK, TurnInv, [Next]_vars, sweep'.phase \in {"sweep", "waiting"},
         NEW x \in sweep'.todo
  PROVE  \/ sweep.phase \in {"sweep", "waiting"} /\ x \in sweep.todo
         \/ x \in Items /\ seen[x] = "resting"
<1>1. CASE SubmitBasket
  BY <1>1 DEF SubmitBasket
<1>2. CASE CancelBasket
  <2>1. sweep'.phase = "wire"
    BY <1>2 DEF CancelBasket
  <2> QED BY <2>1
<1>3. CASE Deliver \/ CallFails \/ EndCancel \/ Restart
  <2>1. sweep'.phase = "idle"
    BY <1>3, SweepFields DEF Deliver, CallFails
  <2> QED BY <2>1
<1>4. CASE BeginCancel
  BY <1>4, SweepFields
<1>5. CASE HearCancel \/ \E y \in Items : SendCancel(y)
  BY <1>5, SweepFields DEF HearCancel, SendCancel
<1>6. CASE CannotSend \/ RouteFails
  <2>1. PICK left, status : Stop(left, status)
    BY <1>6 DEF CannotSend, RouteFails
  <2> QED BY <2>1, StopFields
<1>7. CASE \/ UNCHANGED vars
           \/ \E c \in Calls : EntryStep(c)
           \/ \E y \in Items : OrderStep(y)
           \/ \E c \in Calls, y \in Items : ReceiveCancel(c, y) \/ DeclineCancel(c, y) \/ ExecuteCancel(c, y)
  <2>1. sweep' = sweep
    BY <1>7 DEF EntryStep, LoseRequest, RefuseBasket, Publish, BrokerReturns, GiveUp,
         AnswerBasket, HearRefused, Reap, Decide, DropExpired, Settle, HearStates,
         OrderStep, HearReport, ForgetFinished, Fill, ReceiveCancel, DeclineCancel, ExecuteCancel
  <2> QED BY <2>1
<1> QED BY <1>1, <1>2, <1>3, <1>4, <1>5, <1>6, <1>7 DEF Next, ClientStep, CancelStep

(* Only the end of a cancel makes its results an answer, and no other call *)
(* begins while an answer is on its way.                                   *)
LEMMA ResultsMove ==
  ASSUME BasketTypeOK, TurnInv, [Next]_vars, reply'.kind = "results"
  PROVE  EndCancel \/ (reply' = reply /\ current' = current /\ sweep.phase = "idle")
<1>1. CASE SubmitBasket \/ CancelBasket
  <2>1. reply' = reply /\ reply = NoReply
    BY <1>1 DEF SubmitBasket, CancelBasket, Begin, TurnInv
  <2> QED BY <2>1, Kinds
<1>2. CASE Deliver \/ CallFails
  <2>1. reply'.kind = "none"
    BY <1>2, SweepFields DEF Deliver, CallFails
  <2> QED BY <2>1
<1>3. ASSUME current' = current,
             reply' = reply \/ reply'.kind \in {"none", "status", "states"}
      PROVE  reply' = reply /\ current' = current /\ sweep.phase = "idle"
  <2>1. reply' = reply
    BY <1>3
  <2> QED BY <1>3, <2>1, Kinds DEF TurnInv
<1>4. CASE BeginCancel
  BY <1>4, <1>3, SweepFields, Kinds DEF BeginCancel, Sweeping
<1>5. CASE CannotSend \/ RouteFails
  <2>1. PICK left, status : Stop(left, status)
    BY <1>5 DEF CannotSend, RouteFails
  <2>2. current' = current
    BY <2>1 DEF Stop, Sweeping
  <2> QED BY <1>3, <2>1, <2>2, StopFields, Kinds
<1>6. CASE HearCancel \/ \E x \in Items : SendCancel(x)
  BY <1>6, <1>3 DEF HearCancel, SendCancel, NextOrder, Sweeping
<1>7. CASE Restart
  BY <1>7, <1>3, Kinds DEF Restart
<1>8. ASSUME NEW c \in Calls, EntryStep(c)
      PROVE  current' = current /\ (reply' = reply \/ reply'.kind \in {"none", "status", "states"})
  <2>1. \/ reply' = reply
        \/ \E s : reply' = Fail(s) \/ reply' = States(s)
    BY <1>8 DEF EntryStep, LoseRequest, RefuseBasket, Publish, BrokerReturns, GiveUp,
         AnswerBasket, HearRefused, Reap, Decide, DropExpired, Settle, HearStates, ReplyTo
  <2>2. current' = current
    BY <1>8 DEF EntryStep, LoseRequest, RefuseBasket, Publish, BrokerReturns, GiveUp,
         AnswerBasket, HearRefused, Reap, Decide, DropExpired, Settle, HearStates
  <2> QED BY <2>1, <2>2, Kinds
<1>9. CASE \/ UNCHANGED vars
           \/ \E x \in Items : OrderStep(x)
           \/ \E c \in Calls, x \in Items : ReceiveCancel(c, x) \/ DeclineCancel(c, x) \/ ExecuteCancel(c, x)
  <2>1. reply' = reply /\ current' = current
    BY <1>9 DEF OrderStep, HearReport, ForgetFinished, Fill, HearStates,
                ReceiveCancel, DeclineCancel, ExecuteCancel
  <2> QED BY <2>1, <1>3
<1> QED BY <1>1, <1>2, <1>3, <1>4, <1>5, <1>6, <1>7, <1>8, <1>9
        DEF Next, ClientStep, CancelStep

(* A call is numbered when it begins.                                      *)
LEMMA Numbered ==
  ASSUME BasketTypeOK, GraspInv, [Next]_vars, NEW c \in Calls
  PROVE  method'[c] = "none" <=> c > current'
<1>1. c \in Nat /\ current \in Nat
  BY DEF Calls, BasketTypeOK
<1>2. CASE SubmitBasket \/ CancelBasket
  <2>1. current' = current + 1 /\ current + 1 \in Calls
    BY <1>1, <1>2 DEF SubmitBasket, CancelBasket, Begin, Calls
  <2>2. PICK m \in {"submit", "cancel"} : method' = [method EXCEPT ![current + 1] = m]
    BY <1>2 DEF SubmitBasket, CancelBasket, Begin
  <2>3. method'[c] = IF c = current + 1 THEN m ELSE method[c]
    BY <2>1, <2>2 DEF BasketTypeOK
  <2>4. c > current + 1 <=> c > current /\ c # current + 1
    BY <1>1
  <2>5. method[c] = "none" <=> c > current
    BY DEF GraspInv
  <2> QED BY <2>1, <2>2, <2>3, <2>4, <2>5
<1>3. CASE ~(SubmitBasket \/ CancelBasket)
  <2>1. method' = method /\ current' = current
    BY <1>3 DEF Next, ClientStep, Deliver, CallFails, Conclude, Restart,
         CancelStep, BeginCancel, HearCancel, CannotSend, RouteFails, EndCancel, SendCancel,
         ReceiveCancel, DeclineCancel, ExecuteCancel,
         NextOrder, Stop, Sweeping,
         EntryStep, LoseRequest, RefuseBasket, Publish, BrokerReturns, GiveUp,
         AnswerBasket, HearRefused, Reap, Decide, DropExpired, Settle, HearStates,
         OrderStep, HearReport, ForgetFinished, Fill
  <2> QED BY <2>1 DEF GraspInv
<1> QED BY <1>2, <1>3

(* An order that was placed stays so.                                      *)
LEMMA PlacedStays ==
  ASSUME LotInv, Moved, NEW x \in Items, Placed(x)
  PROVE  Placed(x)'
<1>1. LotMove(x) /\ ~Decided(x[1])
  BY Pairs DEF Moved, LotInv, Decided, Placed
<1> QED BY <1>1 DEF LotMove, Placed

(* The invariant is kept by every step.                                    *)
LEMMA GraspStep ==
  ASSUME BasketTypeOK, TurnInv, LotInv, RecordInv, SweepInv, GraspInv, [Next]_vars
  PROVE  GraspInv'
<1>1. Moved
  BY Moves
<1>2. \A c \in Calls : method'[c] = "none" <=> c > current'
  BY Numbered
<1>3. ASSUME NEW c \in Calls, NEW x \in Items, command'[c][x] # "none"
      PROVE  Placed(x)' /\ method'[c] = "cancel"
  <2>1. CommandMove(c, x)
    BY <1>1 DEF Moved
  <2>2. CASE command[c][x] # "none"
    <3>1. Placed(x) /\ method[c] = "cancel"
      BY <2>2 DEF GraspInv
    <3>2. ~(c > current) /\ c \in Nat /\ current \in Nat
      BY <3>1 DEF GraspInv, Calls, BasketTypeOK
    <3>3. c <= current
      BY <3>2
    <3> QED BY <1>1, <3>1, <3>3, CallsStand, PlacedStays
  <2>3. CASE command[c][x] = "none"
    <3>1. c = current /\ sweep.phase = "sweep" /\ x \in sweep.todo
      BY <1>3, <2>1, <2>3 DEF CommandMove
    <3>2. Placed(x) /\ method[c] = "cancel"
      BY <3>1 DEF GraspInv, TurnInv
    <3>3. c <= current
      BY <3>1 DEF Calls
    <3> QED BY <1>1, <3>2, <3>3, CallsStand, PlacedStays
  <2> QED BY <2>2, <2>3
<1>4. ASSUME sweep'.phase \in {"sweep", "waiting"}, NEW x \in sweep'.todo
      PROVE  Placed(x)'
  <2>1. CASE sweep.phase \in {"sweep", "waiting"} /\ x \in sweep.todo
    BY <1>1, <2>1, PlacedStays DEF GraspInv, BasketTypeOK
  <2>2. CASE x \in Items /\ seen[x] = "resting"
    <3>1. Placed(x)
      BY <2>2 DEF RecordInv, Placed
    <3> QED BY <1>1, <2>2, <3>1, PlacedStays
  <2> QED BY <1>4, <2>1, <2>2, TodoShrinks
<1>5. ASSUME reply'.kind = "results", NEW x \in Items
      PROVE  /\ reply'.results[x] = "cancelled" =>
                  command'[current'][x] \in Taken
             /\ reply'.results[x] = "none" => command'[current'][x] = "none"
  <2>1. CASE EndCancel
    <3>1. /\ sweep.phase = "sweep" /\ sweep.todo = {} /\ reply'.results = Swept
          /\ command' = command /\ current' = current
      BY <2>1, Kinds DEF EndCancel, Sweeping
    <3> QED BY <3>1 DEF SweepInv, InHand
  <2>2. CASE reply' = reply /\ current' = current /\ sweep.phase = "idle"
    <3>1. current \in Calls
      BY <1>5, <2>2, Kinds DEF TurnInv
    <3>2. CommandMove(current, x)
      BY <1>1, <3>1 DEF Moved
    <3> QED BY <1>5, <2>2, <3>2 DEF CommandMove, GraspInv
  <2> QED BY <1>5, <2>1, <2>2, ResultsMove
<1> QED BY <1>2, <1>3, <1>4, <1>5 DEF GraspInv

(* The promise's view of the orders and of the cancels.                    *)
Fate == [x \in Items |-> FateOf(x)]
Grip == [c \in Calls |-> [x \in Items |-> GripOf(c, x)]]
Shown == <<inst, method, Fate, Grip, told>>

(* What shows of an order changes only with its basket or its placing.     *)
LEMMA FateStands ==
  ASSUME entry' = entry, \A x \in Items : lot'[x] = lot[x] \/ (Placed(x) /\ Placed(x)')
  PROVE  Fate' = Fate
<1>1. ASSUME NEW x \in Items PROVE FateOf(x)' = FateOf(x)
  BY DEF FateOf, Placed
<1> QED BY <1>1 DEF Fate

(* What shows of a cancel changes only with its command or its answer.     *)
LEMMA GripStands == UNCHANGED <<command, told>> => Grip' = Grip
<1> SUFFICES ASSUME UNCHANGED <<command, told>> PROVE Grip' = Grip
  OBVIOUS
<1>1. \A c \in Calls, x \in Items : GripOf(c, x)' = GripOf(c, x)
  BY DEF GripOf
<1> QED BY <1>1 DEF Grip

(* A submission still on its way to its decision is open.                  *)
LEMMA OnItsWay ==
  ASSUME BasketTypeOK, TurnInv, LotInv, NEW c \in Calls, entry[c] \in {"wire", "exchange"}
  PROVE  Promise!Open(c)
<1>1. method[c] = "submit"
  BY DEF TurnInv
<1>2. ASSUME NEW p \in Orders PROVE Fate[<<c, p>>] = "open"
  <2>1. lot[<<c, p>>] = "none"
    BY Pairs DEF LotInv
  <2> QED BY <2>1, Pairs DEF Fate, FateOf
<1> QED BY <1>1, <1>2 DEF Promise!Open, Fate

(* Submissions that are over without a decision have lapsed.               *)
LEMMA Lapsing ==
  ASSUME BasketTypeOK, TurnInv, LotInv, LotInv', NEW S \in SUBSET Calls,
         \A c \in S : entry[c] \in {"wire", "exchange"} /\ entry'[c] \in {"dropped", "over"},
         \A c \in Calls \ S : entry'[c] = entry[c] \/
             (entry[c] \in {"dropped", "over"} /\ entry'[c] \in {"dropped", "over"}),
         \A x \in Items : lot'[x] = lot[x] \/ (Placed(x) /\ Placed(x)'),
         UNCHANGED <<inst, method, command, told>>
  PROVE  Promise!Lapse(S)
<1>1. \A c \in S : Promise!Open(c)
  BY OnItsWay
<1>2. ASSUME NEW x \in Items
      PROVE  FateOf(x)' = IF x[1] \in S THEN "lapsed" ELSE FateOf(x)
  <2>1. x[1] \in Calls
    BY Pairs
  <2>2. CASE x[1] \in S
    <3>1. entry'[x[1]] \in {"dropped", "over"}
      BY <2>2
    <3>2. lot'[x] = "none"
      BY <3>1 DEF LotInv
    <3> QED BY <2>2, <3>1, <3>2 DEF FateOf
  <2>3. CASE x[1] \notin S /\ entry'[x[1]] = entry[x[1]]
    BY <2>3 DEF FateOf, Placed
  <2>4. CASE x[1] \notin S /\ entry'[x[1]] # entry[x[1]]
    <3>1. entry[x[1]] \in {"dropped", "over"} /\ entry'[x[1]] \in {"dropped", "over"}
      BY <2>1, <2>4
    <3>2. lot[x] = "none" /\ lot'[x] = "none"
      BY <3>1 DEF LotInv
    <3> QED BY <2>4, <3>1, <3>2 DEF FateOf
  <2> QED BY <2>2, <2>3, <2>4
<1>3. Fate' = [x \in Items |-> IF x[1] \in S THEN "lapsed" ELSE Fate[x]]
  BY <1>2 DEF Fate
<1>4. Grip' = Grip
  BY GripStands
<1>5. UNCHANGED <<inst, method, Grip, told>>
  BY <1>4
<1> QED BY <1>1, <1>3, <1>5, Zenon DEF Promise!Lapse, Fate, Grip, Promise!Items, Items

(* A submission that is decided is decided as one.                         *)
LEMMA Deciding ==
  ASSUME BasketTypeOK, TurnInv, LotInv, NEW c \in Calls, Decide(c)
  PROVE  Promise!Meet(c)
<1>1. PICK f \in Fates :
        lot' = [x \in Items |-> IF x[1] = c THEN f[x[2]] ELSE lot[x]]
  BY DEF Decide
<1>2. /\ entry[c] = "exchange" /\ UNCHANGED <<inst, method, command, told>>
      /\ \A d \in Calls : entry'[d] = IF d = c THEN "decided" ELSE entry[d]
  BY DEF Decide, BasketTypeOK
<1> DEFINE g == [p \in Orders |-> IF f[p] = "rejected" THEN "rejected" ELSE "placed"]
<1>3. g \in [Orders -> {"placed", "rejected"}]
  OBVIOUS
<1>4. inst # "none" => \A p, q \in Orders : g[p] = g[q]
  BY FatesAre DEF BasketTypeOK
<1>5. ASSUME NEW x \in Items
      PROVE  FateOf(x)' = IF x[1] = c THEN g[x[2]] ELSE FateOf(x)
  <2>1. x[1] \in Calls /\ x[2] \in Orders
    BY Pairs
  <2>2. CASE x[1] = c
    <3>1. lot'[x] = f[x[2]] /\ f[x[2]] \in LotStates \ {"none"} /\ entry'[x[1]] = "decided"
      BY <1>1, <1>2, <2>1, <2>2, FatesAre DEF BasketTypeOK
    <3> QED BY <2>1, <2>2, <3>1 DEF FateOf, LotStates
  <2>3. CASE x[1] # c
    <3>1. lot'[x] = lot[x] /\ entry'[x[1]] = entry[x[1]]
      BY <1>1, <1>2, <2>1, <2>3
    <3> QED BY <2>3, <3>1 DEF FateOf
  <2> QED BY <2>2, <2>3
<1>6. Fate' = [x \in Items |-> IF x[1] = c THEN g[x[2]] ELSE Fate[x]]
  BY <1>5 DEF Fate
<1>7. Promise!Open(c) /\ Grip' = Grip
  BY <1>2, OnItsWay, GripStands
<1> HIDE DEF g
<1> QED BY <1>2, <1>3, <1>4, <1>6, <1>7 DEF Promise!Meet, Fate, Grip, Promise!Items, Items

(* The command of one cancel moves on.                                     *)
LEMMA Grasping ==
  ASSUME BasketTypeOK, LotInv, GraspInv, NEW c \in Calls, NEW x \in Items,
         NEW s \in CommandStates,
         command' = [command EXCEPT ![c][x] = s],
         \/ command[c][x] = "sent" /\ s \in {"received", "refused", "returned"}
         \/ command[c][x] = "received" /\ s \in {"executed", "declined"},
         UNCHANGED <<inst, method, told>>, Fate' = Fate
  PROVE  Promise!Grasp(c, x)
<1> DEFINE g == CASE s = "received" -> "held" [] s = "executed" -> "done"
               [] s = "declined" -> "declined" [] OTHER -> "never"
<1>1. ASSUME NEW d \in Calls, NEW y \in Items
      PROVE  GripOf(d, y)' = IF d = c /\ y = x THEN g ELSE GripOf(d, y)
  <2>1. command'[d][y] = IF d = c /\ y = x THEN s ELSE command[d][y]
    BY OneCommand DEF BasketTypeOK
  <2> QED BY <2>1 DEF GripOf
<1>2. Grip' = [Grip EXCEPT ![c][x] = g]
  BY <1>1 DEF Grip
<1>3. method[c] = "cancel" /\ Fate[x] = "placed"
  <2>1. Placed(x) /\ method[c] = "cancel"
    BY DEF GraspInv
  <2>2. entry[x[1]] = "decided"
    BY <2>1 DEF LotInv, Placed
  <2> QED BY <2>1, <2>2 DEF Fate, FateOf, Placed
<1>4. \/ Grip[c][x] = "open" /\ g \in {"held", "never"}
      \/ Grip[c][x] = "held" /\ g \in {"done", "declined"}
  BY DEF Grip, GripOf
<1> HIDE DEF g
<1>5. UNCHANGED <<inst, method, Fate, told>>
  OBVIOUS
<1> QED BY <1>2, <1>3, <1>4, <1>5 DEF Promise!Grasp, Fate, Grip

(* What a call tells its caller is the truth: what is left of its cancel   *)
(* will never be.                                                          *)
LEMMA Telling ==
  ASSUME BasketTypeOK, TurnInv, LotInv, GraspInv, PromiseInv', Deliver \/ CallFails,
         NEW c, c = current
  PROVE  Promise!Tell(c)
<1> DEFINE S == {x \in Items : command[c][x] = "none"}
<1>1. PICK a : /\ Conclude(a)
               /\ a.kind \in {"raised", "states", "results"}
               /\ a.kind = "results" => a = reply
  BY Kinds DEF Deliver, CallFails
<1>2. /\ c \in Calls /\ told[c].kind = "none"
      /\ UNCHANGED <<inst, method, entry, command, lot, current>>
  BY <1>1 DEF Conclude, TurnInv
<1>3. told'[c] = a /\ told' = [told EXCEPT ![c] = told'[c]]
  BY <1>1, <1>2 DEF Conclude, BasketTypeOK
<1>4. \A d \in Calls : d # c => told'[d] = told[d]
  BY <1>2, <1>3 DEF BasketTypeOK
<1>5. method[c] # "none"
  BY <1>2 DEF GraspInv, Calls
<1>6. Promised(c, a)'
  <2>1. Promised(c, told[c])'
    BY <1>2 DEF PromiseInv
  <2> QED BY <1>3, <2>1
<1>7. ASSUME NEW x \in Items
      PROVE  /\ command[c][x] = "none" => GripOf(c, x) = "open" /\ GripOf(c, x)' = "never"
             /\ command[c][x] \in {"refused", "returned"} => GripOf(c, x)' = "never"
             /\ command[c][x] # "none" => GripOf(c, x)' = GripOf(c, x)
  BY <1>1, <1>2, <1>3 DEF GripOf
<1>8. Grip' = [Grip EXCEPT ![c] = [x \in Items |-> IF x \in S THEN "never" ELSE Grip[c][x]]]
  <2>1. ASSUME NEW d \in Calls, d # c, NEW x \in Items PROVE GripOf(d, x)' = GripOf(d, x)
    BY <1>2, <1>4, <2>1 DEF GripOf
  <2>2. ASSUME NEW x \in Items
        PROVE  GripOf(c, x)' = IF x \in S THEN "never" ELSE GripOf(c, x)
    BY <1>7
  <2> HIDE DEF S
  <2> QED BY <1>2, <2>1, <2>2 DEF Grip
<1>9. S \in SUBSET {x \in Items : Grip[c][x] = "open"}
  BY <1>2, <1>7 DEF Grip
<1>10. a.kind = "raised" /\ a.rejected =>
         IF method[c] = "submit"
         THEN \A p \in Orders : Fate[<<c, p>>] = "lapsed"
         ELSE \A x \in Items : Grip'[c][x] = "never"
  <2> SUFFICES ASSUME a.kind = "raised", a.rejected
               PROVE  IF method[c] = "submit"
                      THEN \A p \in Orders : Fate[<<c, p>>] = "lapsed"
                      ELSE \A x \in Items : Grip'[c][x] = "never"
    OBVIOUS
  <2>1. CASE method[c] = "submit"
    <3>1. entry[c] \in {"over", "dropped"}
      BY <1>2, <1>6, <2>1 DEF Promised, NotPlaced
    <3>2. ASSUME NEW x \in Items, x[1] = c PROVE Fate[x] = "lapsed"
      <4>1. lot[x] = "none"
        BY <3>1, <3>2 DEF LotInv
      <4> QED BY <3>1, <3>2, <4>1 DEF Fate, FateOf
    <3> QED BY <1>2, <2>1, <3>2, Pairs
  <2>2. CASE method[c] # "submit"
    <3>1. \A x \in Items : command[c][x] \in {"none", "refused", "returned"}
      BY <1>2, <1>6, <2>2 DEF Promised, Untouched
    <3> QED BY <1>2, <1>7, <2>2, <3>1 DEF Grip
  <2> QED BY <2>1, <2>2
<1>11. a.kind = "states" =>
         \A p \in Orders :
           /\ a.states[p] = "REJECTED" => Fate[<<c, p>>] = "rejected"
           /\ a.states[p] = "ACCEPTED" => Fate[<<c, p>>] = "placed"
           /\ a.states[p] = "REJECTED" /\ inst # "none" =>
                \A q \in Orders : a.states[q] = "REJECTED"
  <2> SUFFICES ASSUME a.kind = "states", NEW p \in Orders
               PROVE  /\ a.states[p] = "REJECTED" => Fate[<<c, p>>] = "rejected"
                      /\ a.states[p] = "ACCEPTED" => Fate[<<c, p>>] = "placed"
                      /\ a.states[p] = "REJECTED" /\ inst # "none" =>
                           \A q \in Orders : a.states[q] = "REJECTED"
    OBVIOUS
  <2>1. /\ a.states[p] = "REJECTED" => lot[<<c, p>>] = "rejected"
        /\ a.states[p] = "ACCEPTED" => lot[<<c, p>>] \in {"resting", "filled", "off"}
        /\ a.states[p] = "REJECTED" /\ inst # "none" =>
             \A q \in Orders : a.states[q] = "REJECTED"
    BY <1>2, <1>6 DEF Promised
  <2>2. <<c, p>> \in Items /\ <<c, p>>[1] = c
    BY <1>2, Pairs
  <2>3. lot[<<c, p>>] # "none" => entry[c] = "decided"
    BY <2>2 DEF LotInv
  <2> QED BY <2>1, <2>2, <2>3 DEF Fate, FateOf
<1>12. a.kind = "results" =>
         \A x \in Items :
           /\ a.results[x] = "cancelled" => Grip[c][x] \in {"held", "done", "declined"}
           /\ a.results[x] \in {"none", "refused", "ORDER_PENDING"} => Grip'[c][x] = "never"
  <2> SUFFICES ASSUME a.kind = "results", NEW x \in Items
               PROVE  /\ a.results[x] = "cancelled" => Grip[c][x] \in {"held", "done", "declined"}
                      /\ a.results[x] \in {"none", "refused", "ORDER_PENDING"} =>
                           Grip'[c][x] = "never"
    OBVIOUS
  <2>1. /\ a.results[x] = "cancelled" => command[c][x] \in Taken
        /\ a.results[x] = "none" => command[c][x] = "none"
    BY <1>1, <1>3 DEF GraspInv
  <2>2. a.results[x] \in {"refused", "ORDER_PENDING"} =>
          command[c][x] \in {"none", "refused", "returned"}
    BY <1>2, <1>6 DEF Promised
  <2>3. command[c][x] \in Taken => GripOf(c, x) \in {"held", "done", "declined"}
    BY DEF GripOf
  <2> QED BY <1>2, <1>7, <2>1, <2>2, <2>3 DEF Grip
<1> HIDE DEF S
<1>13. Promise!Truthful(c, a)
  BY <1>10, <1>11, <1>12 DEF Promise!Truthful, Promise!Items, Items, Fate, Grip
<1>14. /\ method[c] # "none" /\ told[c].kind = "none"
       /\ a.kind \in {"raised", "states", "results"}
       /\ UNCHANGED <<inst, method, Fate>>
  <2>1. Fate' = Fate
    BY <1>2, FateStands
  <2> QED BY <1>1, <1>2, <1>3, <1>5, <2>1
<1> QED BY <1>3, <1>8, <1>9, <1>13, <1>14
        DEF Promise!Tell, Promise!Items, Items, Fate, Grip

(* What shows nothing of itself.                                           *)
LEMMA NothingShows ==
  ASSUME UNCHANGED <<inst, method, told, command>>, Fate' = Fate
  PROVE  UNCHANGED Shown
BY GripStands DEF Shown

(* Every step of the baskets is a step of the promise, or shows nothing.   *)
LEMMA StepPromised ==
  ASSUME BasketInv, GraspInv, BasketInv', GraspInv', [Next]_vars
  PROVE  Promise!Next \/ UNCHANGED Shown
<1> USE DEF BasketInv
<1>1. ASSUME NEW S \in SUBSET Calls, Promise!Lapse(S) PROVE Promise!Next
  BY <1>1 DEF Promise!Next
<1>2. ASSUME NEW c \in Calls, Promise!Ask(c) \/ Promise!Meet(c) \/ Promise!Tell(c)
      PROVE  Promise!Next
  BY <1>2 DEF Promise!Next
<1>3. ASSUME NEW c \in Calls, NEW x \in Items, Promise!Grasp(c, x) PROVE Promise!Next
  BY <1>3 DEF Promise!Next, Promise!Items, Items
<1>4. CASE SubmitBasket \/ CancelBasket
  <2>1. current + 1 \in Calls /\ current + 1 > current
    BY <1>4 DEF SubmitBasket, CancelBasket, Begin, Calls, BasketTypeOK
  <2>2. /\ UNCHANGED <<inst, told, command, lot>> /\ entry[current + 1] = "none"
        /\ \A d \in Calls : entry'[d] = entry[d] \/ (d = current + 1 /\ entry'[d] = "wire")
    BY <1>4, <2>1 DEF SubmitBasket, CancelBasket, Begin, TurnInv, BasketTypeOK
  <2>3. ASSUME NEW x \in Items PROVE FateOf(x)' = FateOf(x)
    <3>1. x[1] \in Calls
      BY Pairs
    <3>2. \/ entry'[x[1]] = entry[x[1]]
          \/ entry'[x[1]] = "wire" /\ entry[x[1]] = "none"
      BY <2>2, <3>1
    <3> QED BY <2>2, <3>2 DEF FateOf
  <2>4. Fate' = Fate /\ Grip' = Grip
    BY <2>2, <2>3, GripStands DEF Fate
  <2>5. /\ method[current + 1] = "none"
        /\ \E m \in {"submit", "cancel"} : method' = [method EXCEPT ![current + 1] = m]
    BY <1>4, <2>1 DEF SubmitBasket, CancelBasket, Begin, GraspInv
  <2>6. Promise!Ask(current + 1)
    BY <2>2, <2>4, <2>5 DEF Promise!Ask, Fate, Grip
  <2> QED BY <1>2, <2>1, <2>6
<1>5. CASE Deliver \/ CallFails
  <2>1. current \in Calls
    BY <1>5 DEF Deliver, CallFails, Conclude, TurnInv
  <2>2. Promise!Tell(current)
    BY <1>5, <2>1, Telling
  <2> QED BY <1>2, <2>1, <2>2
<1>6. ASSUME NEW c \in Calls, EntryStep(c) PROVE Promise!Next \/ UNCHANGED Shown
  <2>1. CASE LoseRequest(c) \/ RefuseBasket(c) \/ BrokerReturns(c) \/ DropExpired(c)
    <3>1. /\ UNCHANGED <<inst, method, lot, command, told>>
          /\ entry[c] \in {"wire", "exchange"}
          /\ \E s \in {"dropped", "over"} : entry' = [entry EXCEPT ![c] = s]
      BY <2>1 DEF LoseRequest, RefuseBasket, BrokerReturns, DropExpired, Settle
    <3>2. entry'[c] \in {"dropped", "over"} /\ \A d \in Calls : d # c => entry'[d] = entry[d]
      BY <3>1 DEF BasketTypeOK
    <3>3. Promise!Lapse({c})
      BY <3>1, <3>2, Lapsing
    <3> QED BY <1>1, <3>3
  <2>2. CASE Publish(c)
    <3>1. /\ UNCHANGED <<inst, method, told, command, lot>> /\ entry[c] = "wire"
          /\ \A d \in Calls : entry'[d] = IF d = c THEN "exchange" ELSE entry[d]
      BY <2>2 DEF Publish, Settle, BasketTypeOK
    <3>2. ASSUME NEW x \in Items PROVE FateOf(x)' = FateOf(x)
      <4>1. x[1] \in Calls
        BY Pairs
      <4>2. \/ entry'[x[1]] = entry[x[1]]
            \/ entry'[x[1]] = "exchange" /\ entry[x[1]] = "wire"
        BY <3>1, <4>1
      <4> QED BY <3>1, <4>2 DEF FateOf
    <3>3. Fate' = Fate
      BY <3>2 DEF Fate
    <3> QED BY <3>1, <3>3, NothingShows
  <2>3. CASE GiveUp(c) \/ AnswerBasket(c) \/ HearRefused(c)
    <3>1. /\ UNCHANGED <<inst, method, told, command, lot>>
          /\ entry' = entry \/ entry' = [entry EXCEPT ![c] = entry[c]]
      BY <2>3 DEF GiveUp, AnswerBasket, HearRefused, Settle, HearStates
    <3>2. entry' = entry
      BY <3>1 DEF BasketTypeOK
    <3>3. Fate' = Fate
      BY <3>1, <3>2, FateStands
    <3> QED BY <3>1, <3>3, NothingShows
  <2>4. CASE Reap(c)
    <3>1. /\ UNCHANGED <<inst, method, told, command, lot>>
          /\ \A d \in Calls : \/ entry'[d] = entry[d]
                              \/ entry[d] = "dropped" /\ entry'[d] = "over"
      BY <2>4 DEF Reap, Settle, BasketTypeOK
    <3>2. ASSUME NEW x \in Items PROVE FateOf(x)' = FateOf(x)
      <4>1. \/ entry'[x[1]] = entry[x[1]]
            \/ entry[x[1]] = "dropped" /\ entry'[x[1]] = "over"
        BY <3>1, Pairs
      <4> QED BY <3>1, <4>1 DEF FateOf
    <3>3. Fate' = Fate
      BY <3>2 DEF Fate
    <3> QED BY <3>1, <3>3, NothingShows
  <2>5. CASE Decide(c)
    BY <1>2, <2>5, Deciding
  <2> QED BY <1>6, <2>1, <2>2, <2>3, <2>4, <2>5 DEF EntryStep
<1>7. CASE Restart
  <2> DEFINE S == {c \in Calls : entry[c] = "wire"}
  <2>1. /\ UNCHANGED <<inst, method, told, command>>
        /\ \A c \in Calls : entry'[c] = IF entry[c] = "wire" THEN "over" ELSE entry[c]
        /\ \A x \in Items : lot'[x] = lot[x] \/ (lot[x] = "resting" /\ lot'[x] = "off")
    BY <1>7 DEF Restart
  <2>2. \A x \in Items : lot'[x] = lot[x] \/ (Placed(x) /\ Placed(x)')
    BY <2>1 DEF Placed
  <2>3. /\ \A c \in S : entry[c] \in {"wire", "exchange"} /\ entry'[c] \in {"dropped", "over"}
        /\ \A c \in Calls \ S : entry'[c] = entry[c]
    BY <2>1
  <2>4. S \in SUBSET Calls
    OBVIOUS
  <2> HIDE DEF S
  <2>5. Promise!Lapse(S)
    BY <2>1, <2>2, <2>3, <2>4, Lapsing
  <2> QED BY <1>1, <2>4, <2>5
<1>8. CASE BeginCancel \/ HearCancel \/ CannotSend \/ EndCancel \/ \E x \in Items : SendCancel(x)
  <2>1. /\ UNCHANGED <<inst, method, told, entry, lot>>
        /\ \/ command' = command
           \/ \E x \in Items : sweep.phase = "sweep" /\ x \in sweep.todo
                /\ command' = [command EXCEPT ![current][x] = "sent"]
    BY <1>8 DEF BeginCancel, HearCancel, CannotSend, EndCancel, SendCancel, NextOrder, Stop,
                Sweeping
  <2>2. Fate' = Fate
    BY <2>1, FateStands
  <2>3. CASE command' = command
    BY <2>1, <2>2, <2>3, NothingShows
  <2>4. ASSUME NEW x \in Items, sweep.phase = "sweep", x \in sweep.todo,
               command' = [command EXCEPT ![current][x] = "sent"]
        PROVE  UNCHANGED Shown
    <3>1. /\ current \in Calls /\ told[current].kind = "none"
          /\ command[current][x] = "none"
      BY <2>4 DEF TurnInv, SweepInv, InHand
    <3>2. ASSUME NEW d \in Calls, NEW y \in Items PROVE GripOf(d, y)' = GripOf(d, y)
      <4>1. \/ command'[d][y] = command[d][y]
            \/ /\ told[d].kind = "none" /\ command[d][y] = "none"
               /\ command'[d][y] = "sent"
        BY <2>4, <3>1, OneCommand DEF BasketTypeOK, CommandStates
      <4> QED BY <2>1, <4>1 DEF GripOf
    <3>3. Grip' = Grip
      BY <3>2 DEF Grip
    <3> QED BY <2>1, <2>2, <3>3 DEF Shown
  <2> QED BY <2>1, <2>3, <2>4
<1>9. CASE RouteFails
  <2>1. /\ UNCHANGED <<inst, method, told, entry, lot>>
        /\ current \in Calls /\ sweep.target \in Items
        /\ \/ command' = command
           \/ /\ command[current][sweep.target] = "sent"
              /\ command' = [command EXCEPT ![current][sweep.target] = "returned"]
    BY <1>9 DEF RouteFails, Stop, Sweeping, TurnInv, BasketTypeOK
  <2>2. Fate' = Fate
    BY <2>1, FateStands
  <2>3. CASE command' = command
    BY <2>1, <2>2, <2>3, NothingShows
  <2>4. CASE command' # command
    <3>1. Promise!Grasp(current, sweep.target)
      BY <2>1, <2>2, <2>4, Grasping DEF CommandStates
    <3> QED BY <1>3, <2>1, <3>1
  <2> QED BY <2>3, <2>4
<1>10. ASSUME NEW c \in Calls, NEW x \in Items, ReceiveCancel(c, x) \/ DeclineCancel(c, x) \/ ExecuteCancel(c, x)
       PROVE  Promise!Next
  <2>1. /\ UNCHANGED <<inst, method, told, entry>>
        /\ lot' = lot \/ lot' = [lot EXCEPT ![x] = IF lot[x] = "resting" THEN "off" ELSE lot[x]]
    BY <1>10 DEF ReceiveCancel, DeclineCancel, ExecuteCancel
  <2>2. \A y \in Items : lot'[y] = lot[y] \/ (Placed(y) /\ Placed(y)')
    BY <2>1 DEF Placed, BasketTypeOK
  <2>3. Fate' = Fate
    BY <2>1, <2>2, FateStands
  <2>4. PICK s \in CommandStates :
          /\ command' = [command EXCEPT ![c][x] = s]
          /\ \/ command[c][x] = "sent" /\ s \in {"received", "refused", "returned"}
             \/ command[c][x] = "received" /\ s \in {"executed", "declined"}
    BY <1>10 DEF ReceiveCancel, DeclineCancel, ExecuteCancel, CommandStates
  <2>5. Promise!Grasp(c, x)
    BY <2>1, <2>3, <2>4, Grasping
  <2> QED BY <1>3, <2>5
<1>11. ASSUME NEW x \in Items, OrderStep(x) PROVE UNCHANGED Shown
  <2>1. /\ UNCHANGED <<inst, method, told, entry, command>>
        /\ lot' = lot \/ (lot[x] = "resting" /\ lot' = [lot EXCEPT ![x] = "filled"])
    BY <1>11 DEF OrderStep, HearReport, ForgetFinished, Fill, HearStates
  <2>2. \A y \in Items : lot'[y] = lot[y] \/ (Placed(y) /\ Placed(y)')
    BY <2>1 DEF Placed, BasketTypeOK
  <2>3. Fate' = Fate
    BY <2>1, <2>2, FateStands
  <2> QED BY <2>1, <2>3, NothingShows
<1>12. CASE UNCHANGED vars
  <2>1. Fate' = Fate
    BY <1>12, FateStands
  <2> QED BY <1>12, <2>1, NothingShows
<1> QED BY <1>4, <1>5, <1>6, <1>7, <1>8, <1>9, <1>10, <1>11, <1>12
        DEF Next, ClientStep, CancelStep

(* submit_basket and cancel_basket keep the promise: through timeouts,     *)
(* lost requests, restarts and retries under the same reference, each      *)
(* basket is decided once and as one, and no call is told otherwise.       *)
THEOREM BasketsKeepPromise == Spec => KeepsBasketPromise
<1>1. Init => Promise!Init
  <2> SUFFICES ASSUME Init PROVE Promise!Init
    OBVIOUS
  <2>1. Fate = [x \in Items |-> "open"]
    BY Pairs DEF Init, Fate, FateOf
  <2>2. Grip = [c \in Calls |-> [x \in Items |-> "open"]]
    BY Kinds DEF Init, Grip, GripOf
  <2> QED BY <2>1, <2>2 DEF Init, Promise!Init, Promise!Items, Items, Fate, Grip, NotTold
<1>2. Init => GraspInv
  <2> SUFFICES ASSUME Init PROVE GraspInv
    OBVIOUS
  <2>1. \A c \in Calls : c > 0
    BY DEF Calls
  <2>2. sweep.phase = "idle" /\ reply.kind = "none"
    BY Kinds DEF Init
  <2> QED BY <2>1, <2>2 DEF Init, GraspInv
<1>3. BasketInv /\ GraspInv /\ [Next]_vars => GraspInv'
  BY GraspStep DEF BasketInv
<1>4. BasketInv /\ GraspInv /\ BasketInv' /\ GraspInv' /\ [Next]_vars =>
        [Promise!Next]_Promise!vars
  BY StepPromised DEF Shown, Fate, Grip, Promise!vars
<1> QED BY <1>1, <1>2, <1>3, <1>4, BasketInvariant, PTL
        DEF Spec, KeepsBasketPromise, Promise!Spec
=============================================================================
