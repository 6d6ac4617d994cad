-------------------------- MODULE VerifyRun_proofs --------------------------
(***************************************************************************)
(* Proofs about VerifyMutate and VerifyRun: the limits and the orders of   *)
(* the mutate pass, and the exit code of a whole run, for any limits and   *)
(* caps and passes of any length.                                          *)
(***************************************************************************)
EXTENDS VerifyRun, TLAPS, SequenceTheorems

USE LimitAssumption, CapAssumption, ScopedAssumption
  DEF clientVars, limitVars, orderVars, vars, Pass, Fail, Rest

(* The steps before the limits are touched.                                *)
EarlySteps == Probe \/ ListContracts \/ FindContract
Early == Probing \cup {"list", "find"}

(* They leave limits and orders as they are, and lead on, to the setup or  *)
(* to the end.                                                             *)
LEMMA EarlyApart ==
  ASSUME EarlySteps
  PROVE  /\ UNCHANGED <<priorPos, priorCap, warned, limitVars, orderVars, before>>
         /\ step \in Early /\ step' \in Early \cup {"readLimit", "end"}
         /\ failed' \in {failed, TRUE}
<1>1. CASE Probe
  <2>1. /\ AfterProbe["history"] = "recall" /\ AfterProbe["recall"] = "ack"
        /\ AfterProbe["ack"] = "list"
    BY DEF AfterProbe
  <2> QED BY <1>1, <2>1 DEF Probe, Probing, Early
<1>2. CASE ListContracts \/ FindContract
  BY <1>2 DEF ListContracts, FindContract, Early
<1> QED BY <1>1, <1>2 DEF EarlySteps

(* The steps that only take an order along.                                *)
OrderSteps ==
  \/ SubmitAnswered \/ SubmitRaised \/ Confirmed \/ NotConfirmed
  \/ Watch \/ Modify \/ CancelAcknowledged \/ CancelRaised
  \/ BasketAnswered \/ BasketRaised \/ CancelBasketAnswered \/ CancelBasketRaised
  \/ SweepAnswered \/ SweepRaised

(* An order step leaves the limits, and the record of their prior values,  *)
(* as they are, and leads from one order step to another or to the         *)
(* restores.                                                               *)
LEMMA OrderStepsApart ==
  ASSUME OrderSteps
  PROVE  /\ UNCHANGED <<priorPos, priorCap, warned, limitVars, before>>
         /\ step \in Steps \ (Early \cup InSetup \cup Swept)
         /\ step' \in Steps \ (Early \cup InSetup \cup {"submit", "restoreCap", "end"})
         /\ failed' \in {failed, TRUE}
<1>1. CASE SubmitAnswered \/ SubmitRaised \/ Confirmed \/ NotConfirmed \/ Watch
  BY <1>1 DEF SubmitAnswered, SubmitRaised, Confirmed, NotConfirmed, Watch,
              Steps, InSetup, Swept, Early, Probing
<1>2. CASE Modify \/ CancelAcknowledged \/ CancelRaised \/ BasketAnswered \/ BasketRaised
  BY <1>2 DEF Modify, CancelAcknowledged, CancelRaised, BasketAnswered,
              BasketRaised, Steps, InSetup, Swept, Early, Probing
<1>3. CASE CancelBasketAnswered \/ CancelBasketRaised \/ SweepAnswered \/ SweepRaised
  BY <1>3 DEF CancelBasketAnswered, CancelBasketRaised, SweepAnswered,
              SweepRaised, Steps, InSetup, Swept, Early, Probing
<1> QED BY <1>1, <1>2, <1>3 DEF OrderSteps

(* An order moves among its states.                                        *)
LEMMA OrderTypes ==
  ASSUME MutateTypeOK, OrderSteps \/ OrdersMove \/ CancelDeclined
  PROVE  /\ order' \in OrderStates /\ basket' \in OrderStates /\ locked' \in BOOLEAN
         /\ unseen' \subseteq {"order", "basket"}
<1>1. CASE SubmitAnswered \/ SubmitRaised \/ Confirmed \/ NotConfirmed \/ Watch
  BY <1>1 DEF SubmitAnswered, SubmitRaised, Confirmed, NotConfirmed, Watch,
              MutateTypeOK, OrderStates
<1>2. CASE Modify \/ CancelAcknowledged \/ CancelRaised \/ BasketAnswered \/ BasketRaised
  BY <1>2 DEF Modify, CancelAcknowledged, CancelRaised, BasketAnswered,
              BasketRaised, MutateTypeOK, OrderStates
<1>3. CASE CancelBasketAnswered \/ CancelBasketRaised \/ SweepAnswered \/ SweepRaised
  BY <1>3 DEF CancelBasketAnswered, CancelBasketRaised, SweepAnswered,
              SweepRaised, Cancelled, MutateTypeOK, OrderStates
<1>4. CASE OrdersMove
  BY <1>4 DEF OrdersMove, Moves, MutateTypeOK, OrderStates
<1>5. CASE CancelDeclined
  BY <1>5 DEF CancelDeclined, MutateTypeOK, OrderStates
<1> QED BY <1>1, <1>2, <1>3, <1>4, <1>5 DEF OrderSteps

(* A limit or a cap that is set keeps its type, whatever becomes of it.     *)
LEMMA SettingTypes ==
  ASSUME MutateTypeOK, NEW setting \in {"limit", "cap"}, NEW value,
         setting = "limit" => value \in Limits \cup {Lifted},
         setting = "cap" => value \in Caps \cup {NoCap},
         Reaches(setting, value) \/ SetRaises(setting, value)
  PROVE  /\ limit' \in Limits \cup {Lifted} /\ cap' \in Caps \cup {NoCap}
         /\ late' \subseteq Messages /\ overtaken' \in BOOLEAN
<1>1. CASE UNCHANGED limitVars
  BY <1>1 DEF MutateTypeOK, Messages
<1>2. CASE Reaches(setting, value)
  BY <1>2 DEF Reaches, MutateTypeOK, Messages
<1>3. CASE Strays(setting, value)
  <2>1. [setting |-> setting, value |-> value] \in Messages
    BY DEF Messages
  <2> QED BY <1>3, <2>1 DEF Strays, MutateTypeOK, Messages
<1> QED BY <1>1, <1>2, <1>3 DEF SetRaises

(* The type invariant of the mutate pass.                                  *)
THEOREM MutateTypes == Spec => []MutateTypeOK
<1>1. Init => MutateTypeOK
  <2> SUFFICES ASSUME Init PROVE MutateTypeOK
    OBVIOUS
  <2>1. before \in [limit : Limits, cap : Caps \cup {NoCap}]
    BY DEF Init
  <2> QED BY <2>1 DEF Init, MutateTypeOK, Steps, Probing, OrderStates
<1>2. MutateTypeOK /\ [Next]_vars => MutateTypeOK'
  <2> SUFFICES ASSUME MutateTypeOK, [Next]_vars PROVE MutateTypeOK'
    OBVIOUS
  <2>1. CASE ReadLimit \/ LiftLimit \/ ReadCap \/ LiftCap
    BY <2>1 DEF ReadLimit, LiftLimit, ReadCap, LiftCap, Reaches, MutateTypeOK,
                Steps, InSetup
  <2>2. CASE SetupRaises
    <3>1. UNCHANGED limitVars \/ SetRaises("limit", Lifted) \/ SetRaises("cap", NoCap)
      BY <2>2 DEF SetupRaises
    <3>2. /\ limit' \in Limits \cup {Lifted} /\ cap' \in Caps \cup {NoCap}
          /\ late' \subseteq Messages /\ overtaken' \in BOOLEAN
      BY <3>1, SettingTypes DEF MutateTypeOK, Messages
    <3> QED BY <2>2, <3>2 DEF SetupRaises, MutateTypeOK, Messages, Steps
  <2>3. CASE OrderSteps
    BY <2>3, OrderStepsApart, OrderTypes DEF MutateTypeOK
  <2>4. CASE RestoreLimit
    <3>1. Restore("limit", priorPos)
      BY <2>4 DEF RestoreLimit
    <3>2. /\ limit' \in Limits \cup {Lifted} /\ cap' \in Caps \cup {NoCap}
          /\ late' \subseteq Messages /\ overtaken' \in BOOLEAN
          /\ warned' \in BOOLEAN
      BY <3>1, SettingTypes DEF Restore, MutateTypeOK, Messages
    <3> QED BY <2>4, <3>2 DEF RestoreLimit, MutateTypeOK, Messages, Steps, Swept
  <2>5. CASE RestoreCap
    <3>1. Restore("cap", priorCap)
      BY <2>5 DEF RestoreCap
    <3>2. /\ limit' \in Limits \cup {Lifted} /\ cap' \in Caps \cup {NoCap}
          /\ late' \subseteq Messages /\ overtaken' \in BOOLEAN
          /\ warned' \in BOOLEAN
      BY <3>1, SettingTypes DEF Restore, MutateTypeOK, Messages
    <3> QED BY <2>5, <3>2 DEF RestoreCap, MutateTypeOK, Messages, Steps, Swept
  <2>6. CASE LateArrives
    <3>1. PICK m \in late : Arrives(m)
      BY <2>6 DEF LateArrives
    <3>2. m \in Messages
      BY DEF MutateTypeOK
    <3>3. limit' \in Limits \cup {Lifted} /\ cap' \in Caps \cup {NoCap}
      BY <3>1, <3>2 DEF Arrives, MutateTypeOK, Messages
    <3>4. overtaken' \in BOOLEAN /\ late' \subseteq Messages
      BY <3>1 DEF Arrives, MutateTypeOK
    <3> QED BY <3>1, <3>3, <3>4 DEF Arrives, MutateTypeOK
  <2>7. CASE OrdersMove
    BY <2>7, OrderTypes DEF OrdersMove, MutateTypeOK
  <2>8. CASE CancelDeclined
    BY <2>8, OrderTypes DEF CancelDeclined, MutateTypeOK
  <2>9. CASE EarlySteps
    BY <2>9, EarlyApart DEF MutateTypeOK, Steps, InSetup, Swept, Early
  <2>10. CASE UNCHANGED vars
    BY <2>10 DEF MutateTypeOK
  <2> QED BY <2>1, <2>2, <2>3, <2>4, <2>5, <2>6, <2>7, <2>8, <2>9, <2>10
          DEF Next, OrderSteps, EarlySteps
<1> QED BY <1>1, <1>2, PTL DEF Spec

(* What the pass knows of the limits as they were: a prior value it noted  *)
(* is the right one, and what it did not note it did not touch, nor will a *)
(* request of its own that is still on the way.                            *)
PriorsInv ==
  /\ priorPos # Unread => priorPos = before.limit
  /\ priorPos = Unread => limit = before.limit /\ \A m \in late : m.setting = "cap"
  /\ priorCap # Unread => priorCap = before.cap
  /\ priorCap = Unread => cap = before.cap /\ \A m \in late : m.setting = "limit"
  /\ step \in Early \cup {"readLimit"} => priorPos = Unread
  /\ step = "liftLimit" => priorPos # Unread
  /\ step \in Early \cup {"readLimit", "liftLimit", "readCap"} => priorCap = Unread
  /\ step = "liftCap" => priorCap # Unread

(* Past its restore a limit is the prior one, but for a failed restore or  *)
(* a request that overtook it.                                             *)
RestoredInv ==
  ~warned /\ ~overtaken =>
    /\ step \in {"restoreCap", "end"} => limit = before.limit
    /\ step = "end" => cap = before.cap

LimitsInv == MutateTypeOK /\ PriorsInv /\ RestoredInv

(* A call of the setup keeps what is known of the prior values.            *)
LEMMA SetupKeeps ==
  ASSUME LimitsInv, MutateTypeOK',
         ReadLimit \/ LiftLimit \/ ReadCap \/ LiftCap \/ SetupRaises
  PROVE  PriorsInv' /\ RestoredInv'
<1>1. CASE ReadLimit
  BY <1>1 DEF ReadLimit, LimitsInv, PriorsInv, RestoredInv, Early, Probing, MutateTypeOK
<1>2. CASE LiftLimit
  BY <1>2 DEF LiftLimit, Reaches, LimitsInv, PriorsInv, RestoredInv, Early, Probing
<1>3. CASE ReadCap
  BY <1>3 DEF ReadCap, LimitsInv, PriorsInv, RestoredInv, Early, Probing, MutateTypeOK
<1>4. CASE LiftCap
  BY <1>4 DEF LiftCap, Reaches, LimitsInv, PriorsInv, RestoredInv, Early, Probing
<1>5. CASE SetupRaises
  <2>1. UNCHANGED <<priorPos, priorCap, failed, warned, before>> /\ step' = "submit"
    BY <1>5 DEF SetupRaises
  <2>2. CASE UNCHANGED limitVars
    BY <2>1, <2>2 DEF LimitsInv, PriorsInv, RestoredInv, Early, Probing
  <2>3. CASE step = "liftLimit" /\ SetRaises("limit", Lifted)
    BY <2>1, <2>3 DEF SetRaises, Reaches, Strays, LimitsInv, PriorsInv, RestoredInv, Early, Probing
  <2>4. CASE step = "liftCap" /\ SetRaises("cap", NoCap)
    BY <2>1, <2>4 DEF SetRaises, Reaches, Strays, LimitsInv, PriorsInv, RestoredInv, Early, Probing
  <2> QED BY <1>5, <2>2, <2>3, <2>4 DEF SetupRaises
<1> QED BY <1>1, <1>2, <1>3, <1>4, <1>5

(* So does a restore, and it puts its limit back unless it warns.          *)
LEMMA RestoreKeeps ==
  ASSUME LimitsInv, MutateTypeOK', RestoreLimit \/ RestoreCap
  PROVE  PriorsInv' /\ RestoredInv'
<1>1. CASE RestoreLimit
  <2>1. Restore("limit", priorPos) /\ step = "restoreLimit" /\ step' = "restoreCap"
        /\ UNCHANGED <<priorPos, priorCap, failed, before>>
    BY <1>1 DEF RestoreLimit
  <2>2. CASE priorPos = Unread /\ UNCHANGED <<limitVars, warned>>
    BY <2>1, <2>2 DEF LimitsInv, PriorsInv, RestoredInv, Early, Probing
  <2>3. CASE priorPos # Unread /\ Reaches("limit", priorPos) /\ UNCHANGED warned
    BY <2>1, <2>3 DEF Reaches, LimitsInv, PriorsInv, RestoredInv, Early, Probing
  <2>4. CASE priorPos # Unread /\ SetRaises("limit", priorPos) /\ warned' = TRUE
    BY <2>1, <2>4 DEF SetRaises, Reaches, Strays, LimitsInv, PriorsInv, RestoredInv, Early, Probing
  <2> QED BY <2>1, <2>2, <2>3, <2>4 DEF Restore
<1>2. CASE RestoreCap
  <2>1. Restore("cap", priorCap) /\ step = "restoreCap" /\ step' = "end"
        /\ UNCHANGED <<priorPos, priorCap, failed, before>>
    BY <1>2 DEF RestoreCap
  <2>2. CASE priorCap = Unread /\ UNCHANGED <<limitVars, warned>>
    BY <2>1, <2>2 DEF LimitsInv, PriorsInv, RestoredInv, Early, Probing
  <2>3. CASE priorCap # Unread /\ Reaches("cap", priorCap) /\ UNCHANGED warned
    BY <2>1, <2>3 DEF Reaches, LimitsInv, PriorsInv, RestoredInv, Early, Probing
  <2>4. CASE priorCap # Unread /\ SetRaises("cap", priorCap) /\ warned' = TRUE
    BY <2>1, <2>4 DEF SetRaises, Reaches, Strays, LimitsInv, PriorsInv, RestoredInv, Early, Probing
  <2> QED BY <2>1, <2>2, <2>3, <2>4 DEF Restore
<1> QED BY <1>1, <1>2

(* _relax_order_limits: a pass that warned of nothing and was not overtaken *)
(* by a request of its own ends with the limit and the cap it began with,  *)
(* wherever its setup or its orders failed.                                *)
THEOREM LimitsPutBack == Spec => []PutBack
<1>1. Init => PriorsInv /\ RestoredInv
  BY DEF Init, PriorsInv, RestoredInv, Early, Probing
<1>2. MutateTypeOK /\ MutateTypeOK' /\ PriorsInv /\ RestoredInv /\ [Next]_vars
        => PriorsInv' /\ RestoredInv'
  <2> SUFFICES ASSUME LimitsInv, MutateTypeOK', [Next]_vars
               PROVE  PriorsInv' /\ RestoredInv'
    BY DEF LimitsInv
  <2>1. CASE ReadLimit \/ LiftLimit \/ ReadCap \/ LiftCap \/ SetupRaises
    BY <2>1, SetupKeeps
  <2>2. CASE OrderSteps
    BY <2>2, OrderStepsApart DEF LimitsInv, PriorsInv, RestoredInv, InSetup, Swept, Steps
  <2>3. CASE RestoreLimit \/ RestoreCap
    BY <2>3, RestoreKeeps
  <2>4. CASE LateArrives
    <3>1. PICK m \in late : Arrives(m)
      BY <2>4 DEF LateArrives
    <3>2. m.setting \in {"limit", "cap"}
      BY DEF LimitsInv, MutateTypeOK, Messages
    <3>3. PriorsInv'
      BY <3>1, <3>2 DEF Arrives, LimitsInv, PriorsInv
    <3>4. RestoredInv'
      BY <3>1, <3>2 DEF Arrives, LimitsInv, RestoredInv
    <3> QED BY <3>3, <3>4
  <2>5. CASE OrdersMove
    BY <2>5 DEF OrdersMove, LimitsInv, PriorsInv, RestoredInv
  <2>6. CASE CancelDeclined
    BY <2>6 DEF CancelDeclined, LimitsInv, PriorsInv, RestoredInv
  <2>7. CASE EarlySteps
    BY <2>7, EarlyApart DEF LimitsInv, PriorsInv, RestoredInv, Early, Probing
  <2>8. CASE UNCHANGED vars
    BY <2>8 DEF LimitsInv, PriorsInv, RestoredInv
  <2> QED BY <2>1, <2>2, <2>3, <2>4, <2>5, <2>6, <2>7, <2>8
          DEF Next, OrderSteps, EarlySteps
<1>3. RestoredInv => PutBack
  BY DEF RestoredInv, PutBack
<1> QED BY <1>1, <1>2, <1>3, MutateTypes, PTL DEF Spec

-----------------------------------------------------------------------------
(* In a run without a failure no request of the pass is on its way, it has *)
(* no order before it submits one, and once the sweep has answered none is *)
(* open but behind its back.                                               *)
NotLeft ==
  ~failed =>
    /\ order # "travelling" /\ basket # "travelling"
    /\ step \in Early \cup InSetup \cup {"submit"} => order = "none" /\ basket = "none"
    /\ step \in Swept => OnlyUnseenOpen

(* An order step keeps NotLeft: only the sweep's success, and an answer    *)
(* without a name, lead past it.                                           *)
LEMMA OrderStepKeeps ==
  ASSUME Scoped, MutateTypeOK, NotLeft, OrderSteps
  PROVE  NotLeft'
<1> USE DEF NotLeft, OnlyUnseenOpen, Open
<1>0. step' \notin Early \cup InSetup \cup {"submit"}
  BY OrderStepsApart
<1>1. CASE SubmitAnswered \/ SubmitRaised
  <2>1. step = "submit" /\ UNCHANGED basket
    BY <1>1 DEF SubmitAnswered, SubmitRaised
  <2>2. ~failed' => basket' = "none" /\ order' = "entering"
    BY <1>1, <2>1 DEF SubmitAnswered, SubmitRaised
  <2>3. ~failed' /\ step' \in Swept => "order" \in unseen'
    BY <1>1 DEF SubmitAnswered, SubmitRaised, Swept
  <2> QED BY <1>0, <2>2, <2>3
<1>2. CASE Confirmed \/ NotConfirmed \/ Watch
  BY <1>0, <1>2 DEF Confirmed, NotConfirmed, Watch, Swept
<1>3. CASE Modify \/ CancelAcknowledged \/ CancelRaised \/ BasketAnswered \/ BasketRaised
  BY <1>0, <1>3 DEF Modify, CancelAcknowledged, CancelRaised, BasketAnswered,
                    BasketRaised, Swept
<1>4. CASE CancelBasketAnswered \/ CancelBasketRaised
  BY <1>0, <1>4 DEF CancelBasketAnswered, CancelBasketRaised, Cancelled, Swept
<1>5. CASE SweepAnswered \/ SweepRaised
  BY <1>0, <1>5 DEF SweepAnswered, SweepRaised, Cancelled, MutateTypeOK, OrderStates
<1> QED BY <1>1, <1>2, <1>3, <1>4, <1>5 DEF OrderSteps

(* So does a cancel refused after its receipt, which the pass does not see. *)
LEMMA DeclineKeeps ==
  ASSUME NotLeft, CancelDeclined
  PROVE  NotLeft'
<1> USE DEF NotLeft, OnlyUnseenOpen, Open
<1>1. UNCHANGED <<step, failed>>
  BY DEF CancelDeclined
<1>2. CASE order = "cancelling" /\ order' = "live" /\ UNCHANGED basket
           /\ unseen' = unseen \cup {x \in {"order"} : step \in Swept}
  BY <1>1, <1>2
<1>3. CASE basket = "cancelling" /\ basket' = "live" /\ UNCHANGED order
           /\ unseen' = unseen \cup {x \in {"basket"} : step \in Swept}
  BY <1>1, <1>3
<1> QED BY <1>2, <1>3 DEF CancelDeclined

(* With a member-scoped key the cancel-all at the end answers only if it   *)
(* cancelled every order.                                                  *)
LEMMA SweptClean == ASSUME Scoped PROVE Spec => []NotLeft
<1>1. Init => NotLeft
  BY DEF Init, NotLeft, Swept
<1>2. MutateTypeOK /\ NotLeft /\ [Next]_vars => NotLeft'
  <2> SUFFICES ASSUME MutateTypeOK, NotLeft, [Next]_vars PROVE NotLeft'
    OBVIOUS
  <2>1. CASE OrderSteps
    BY <2>1, OrderStepKeeps
  <2>2. CASE ReadLimit \/ LiftLimit \/ ReadCap \/ LiftCap \/ SetupRaises
    BY <2>2 DEF ReadLimit, LiftLimit, ReadCap, LiftCap, SetupRaises, NotLeft,
                InSetup, Swept
  <2>3. CASE RestoreLimit \/ RestoreCap
    BY <2>3 DEF RestoreLimit, RestoreCap, NotLeft, OnlyUnseenOpen, Swept,
                Early, Probing, InSetup
  <2>4. CASE LateArrives
    BY <2>4 DEF LateArrives, Arrives, NotLeft, OnlyUnseenOpen
  <2>5. CASE OrdersMove
    BY <2>5 DEF OrdersMove, Moves, NotLeft, OnlyUnseenOpen, Open
  <2>6. CASE CancelDeclined
    BY <2>6, DeclineKeeps
  <2>7. CASE EarlySteps
    BY <2>7, EarlyApart DEF NotLeft, OnlyUnseenOpen, Open, InSetup
  <2>8. CASE UNCHANGED vars
    BY <2>8 DEF NotLeft, OnlyUnseenOpen
  <2> QED BY <2>1, <2>2, <2>3, <2>4, <2>5, <2>6, <2>7, <2>8
          DEF Next, OrderSteps, EarlySteps
<1> QED BY <1>1, <1>2, MutateTypes, PTL DEF Spec

(* With a member-scoped key no order of the pass is left open without a    *)
(* [FAIL], but for one left unnamed and one whose cancel was refused late. *)
THEOREM LeftoverSeen == ASSUME Scoped PROVE Spec => []LeftoverReported
<1>1. NotLeft => LeftoverReported
  BY DEF NotLeft, LeftoverReported, Swept
<1> QED BY <1>1, SweptClean, PTL

-----------------------------------------------------------------------------
(* The run.  Its steps are the mutate pass's or leave that pass alone.     *)

PassNames ==
  {"readonly", "mutate", "reconcile", "operator", "users", "members", "async", "restart"}
Words == {"passed", "skipped", "failed"}

(* A pass that is still to run, or under way.                              *)
Ahead(p) == \E j \in 1 .. Len(todo) : todo[j] = p

RunTypeOK ==
  /\ mode \in [mutate : BOOLEAN, restart : BOOLEAN]
  /\ todo \in Seq(PassNames) /\ finished \subseteq PassNames
  /\ steps \in Nat /\ bad \in BOOLEAN
  /\ result \subseteq Words /\ held \subseteq Words /\ aggregate \subseteq Words
  /\ exit \in {"running", "0", "1", "2"}

(* The passes of the mode are done or to come, the members pass after the  *)
(* other write passes.                                                     *)
PassesInv ==
  /\ \A i \in 1 .. Len(PassesOf(mode)) :
       PassesOf(mode)[i] \in finished \/ Ahead(PassesOf(mode)[i])
  /\ \A j \in 1 .. Len(todo) :
       todo[j] \in {"mutate", "reconcile", "operator", "users"} =>
         \E k \in 1 .. Len(todo) : k > j /\ todo[k] = "members"
  /\ ~mode.mutate => ~Ahead("mutate")

(* A failure of the run so far is in a Result that will be added up, and   *)
(* none is made up.                                                        *)
CountInv ==
  /\ failed => bad
  /\ exit = "running" =>
       /\ bad => \/ "failed" \in result
                 \/ failed /\ Ahead("mutate")
                 \/ "failed" \in held /\ Ahead("members")
                 \/ "failed" \in aggregate
       /\ "failed" \in result \cup held \cup aggregate => bad
       /\ todo = <<>> \/ Head(todo) \in {"mutate", "restart"} => result = Zero

(* Where the mutate pass is.                                               *)
MutateInv ==
  /\ "mutate" \in finished => step = "end"
  /\ ~mode.mutate => step = "history" /\ order = "none" /\ basket = "none"

(* What the exit code says.                                                *)
ExitInv ==
  /\ exit = "0" => ~bad /\ \A i \in 1 .. Len(PassesOf(mode)) : PassesOf(mode)[i] \in finished
  /\ exit = "1" => bad

RunInv == RunTypeOK /\ PassesInv /\ CountInv /\ MutateInv /\ ExitInv

(* The passes of a mode, one after another.                                *)
LEMMA PassesAre ==
  ASSUME NEW m \in [mutate : BOOLEAN, restart : BOOLEAN]
  PROVE  /\ PassesOf(m) \in Seq(PassNames) /\ Len(PassesOf(m)) \in Nat
         /\ PassesOf(m) # <<>> /\ Head(PassesOf(m)) = "readonly"
         /\ \A j \in 1 .. Len(PassesOf(m)) :
              PassesOf(m)[j] \in {"mutate", "reconcile", "operator", "users"} =>
                \E k \in 1 .. Len(PassesOf(m)) : k > j /\ PassesOf(m)[k] = "members"
         /\ m.mutate <=> \E j \in 1 .. Len(PassesOf(m)) : PassesOf(m)[j] = "mutate"
<1> DEFINE A == << "readonly" >>
           W == IF m.mutate THEN WritePasses ELSE <<>>
           B == << "async" >>
           R == IF m.restart THEN << "restart" >> ELSE <<>>
           begun == A \o W
           written == begun \o B
           s == PassesOf(m)
<1>1. /\ W \in Seq(PassNames) /\ Len(W) = (IF m.mutate THEN 5 ELSE 0)
      /\ m.mutate => /\ W[1] = "mutate" /\ W[2] = "reconcile" /\ W[3] = "operator"
                     /\ W[4] = "users" /\ W[5] = "members"
  <2>1. WritePasses \in Seq(PassNames) /\ <<>> \in Seq(PassNames)
    BY DEF WritePasses, PassNames
  <2>2. Len(WritePasses) = 5 /\ Len(<<>>) = 0
    BY DEF WritePasses
  <2> QED BY <2>1, <2>2 DEF WritePasses
<1>2. /\ R \in Seq(PassNames) /\ Len(R) = (IF m.restart THEN 1 ELSE 0)
      /\ m.restart => R[1] = "restart"
  <2>1. << "restart" >> \in Seq(PassNames) /\ <<>> \in Seq(PassNames)
    BY DEF PassNames
  <2> QED BY <2>1
<1>3. /\ A \in Seq(PassNames) /\ Len(A) = 1 /\ A[1] = "readonly"
      /\ B \in Seq(PassNames) /\ Len(B) = 1 /\ B[1] = "async"
  BY DEF PassNames
<1>4. s = written \o R
  BY DEF PassesOf
<1> HIDE DEF A, B, W, R, s
<1>5. /\ begun \in Seq(PassNames) /\ Len(begun) = 1 + Len(W)
      /\ \A i \in 1 .. 1 + Len(W) : begun[i] = IF i = 1 THEN "readonly" ELSE W[i - 1]
  <2>1. A \in Seq(PassNames) /\ W \in Seq(PassNames)
    BY <1>1, <1>3
  <2>2. /\ begun \in Seq(PassNames) /\ Len(begun) = Len(A) + Len(W)
        /\ \A i \in 1 .. Len(A) + Len(W) :
             begun[i] = IF i <= Len(A) THEN A[i] ELSE W[i - Len(A)]
    BY <2>1, ConcatProperties
  <2> QED BY <1>1, <1>3, <2>2
<1> HIDE DEF begun
<1>6. /\ written \in Seq(PassNames) /\ Len(written) = 2 + Len(W)
      /\ \A i \in 1 .. 2 + Len(W) : written[i] = IF i = 2 + Len(W) THEN "async" ELSE begun[i]
  <2>1. begun \in Seq(PassNames) /\ B \in Seq(PassNames)
    BY <1>3, <1>5
  <2>2. /\ written \in Seq(PassNames) /\ Len(written) = Len(begun) + Len(B)
        /\ \A i \in 1 .. Len(begun) + Len(B) :
             written[i] = IF i <= Len(begun) THEN begun[i] ELSE B[i - Len(begun)]
    BY <2>1, ConcatProperties
  <2>3. Len(W) \in Nat /\ Len(begun) = 1 + Len(W) /\ Len(B) = 1 /\ B[1] = "async"
    BY <1>1, <1>3, <1>5
  <2> HIDE DEF written
  <2> QED BY <2>2, <2>3
<1> HIDE DEF written
<1>7. /\ s \in Seq(PassNames) /\ Len(s) = 2 + Len(W) + Len(R)
      /\ \A i \in 1 .. Len(s) : s[i] = IF i <= 2 + Len(W) THEN written[i] ELSE R[i - (2 + Len(W))]
  <2>1. written \in Seq(PassNames) /\ R \in Seq(PassNames)
    BY <1>2, <1>4, <1>6
  <2>2. /\ s \in Seq(PassNames) /\ Len(s) = Len(written) + Len(R)
        /\ \A i \in 1 .. Len(written) + Len(R) :
             s[i] = IF i <= Len(written) THEN written[i] ELSE R[i - Len(written)]
    BY <2>1, <1>4, ConcatProperties
  <2> QED BY <1>1, <1>2, <1>6, <2>2
<1>8. s[1] = "readonly" /\ s # <<>> /\ Head(s) = "readonly"
  BY <1>1, <1>2, <1>5, <1>6, <1>7
<1>9. CASE m.mutate
  <2>1. /\ Len(W) = 5 /\ Len(s) >= 7
        /\ s[1] = "readonly" /\ s[2] = "mutate" /\ s[3] = "reconcile" /\ s[4] = "operator"
        /\ s[5] = "users" /\ s[6] = "members" /\ s[7] = "async"
    BY <1>1, <1>2, <1>5, <1>6, <1>7, <1>9
  <2>2. \A i \in 1 .. Len(s) : i > 7 => s[i] = "restart"
    BY <1>1, <1>2, <1>7, <1>9, <2>1
  <2>3. \A j \in 1 .. Len(s) :
          s[j] \in {"mutate", "reconcile", "operator", "users"} =>
            \E k \in 1 .. Len(s) : k > j /\ s[k] = "members"
    <3> SUFFICES ASSUME NEW j \in 1 .. Len(s),
                        s[j] \in {"mutate", "reconcile", "operator", "users"}
                 PROVE  6 \in 1 .. Len(s) /\ 6 > j
      BY <2>1
    <3> QED BY <1>7, <2>1, <2>2
  <2>4. 2 \in 1 .. Len(s)
    BY <1>7, <2>1
  <2> QED BY <1>1, <1>2, <1>7, <1>8, <1>9, <2>1, <2>3, <2>4 DEF s
<1>10. CASE ~m.mutate
  <2>1. \A i \in 1 .. Len(s) : s[i] \in {"readonly", "async", "restart"}
    <3>1. Len(W) = 0
      BY <1>1, <1>10
    <3>2. ASSUME NEW i \in 1 .. Len(s) PROVE s[i] \in {"readonly", "async", "restart"}
      <4>1. i \in {1, 2} \/ (i = 3 /\ m.restart)
        BY <1>2, <1>7, <3>1
      <4> QED BY <1>2, <1>5, <1>6, <1>7, <3>1, <4>1
    <3> QED BY <3>2
  <2> QED BY <1>1, <1>2, <1>7, <1>8, <1>10, <2>1 DEF s
<1> QED BY <1>9, <1>10

(* A turn takes the pass under way off the passes still to run.            *)
LEMMA TurnsOver ==
  ASSUME RunTypeOK, todo # <<>>, Turn
  PROVE  /\ todo' \in Seq(PassNames) /\ finished' \subseteq PassNames
         /\ Head(todo) \in finished' /\ finished \subseteq finished'
         /\ finished' \subseteq finished \cup {Head(todo)}
         /\ \A p : Ahead(p) => p = Head(todo) \/ Ahead(p)'
         /\ \A p : Ahead(p)' => Ahead(p)
         /\ \A j \in 1 .. Len(todo') : j + 1 \in 1 .. Len(todo) /\ todo'[j] = todo[j + 1]
         /\ todo[1] = Head(todo) /\ 1 \in 1 .. Len(todo)
         /\ Len(todo) \in Nat /\ Len(todo') = Len(todo) - 1
<1>1. todo \in Seq(PassNames)
  BY DEF RunTypeOK
<1>2. /\ Head(todo) \in PassNames /\ todo' \in Seq(PassNames)
      /\ Len(todo') = Len(todo) - 1 /\ Len(todo) \in Nat
      /\ \A i \in 1 .. Len(todo') : todo'[i] = todo[i + 1]
  BY <1>1, HeadTailProperties DEF Turn
<1>3. Len(todo) >= 1 /\ todo[1] = Head(todo)
  BY <1>1
<1>4. \A j \in 1 .. Len(todo') : j + 1 \in 1 .. Len(todo) /\ todo'[j] = todo[j + 1]
  BY <1>2
<1>5. ASSUME NEW p, Ahead(p), p # Head(todo) PROVE Ahead(p)'
  <2>1. PICK j \in 1 .. Len(todo) : todo[j] = p
    BY <1>5 DEF Ahead
  <2>2. j # 1
    BY <1>3, <1>5, <2>1
  <2>3. j - 1 \in 1 .. Len(todo')
    BY <1>2, <2>2
  <2>4. todo'[j - 1] = p
    BY <1>2, <2>1, <2>3
  <2> QED BY <2>3, <2>4 DEF Ahead
<1>6. ASSUME NEW p, Ahead(p)' PROVE Ahead(p)
  BY <1>4, <1>6 DEF Ahead
<1>7. /\ finished' = finished \cup {Head(todo)} /\ finished \subseteq PassNames
  BY DEF Turn, RunTypeOK
<1>8. 1 \in 1 .. Len(todo)
  BY <1>2, <1>3
<1> QED BY <1>2, <1>3, <1>4, <1>5, <1>6, <1>7, <1>8

(* At the end of every pass the passes to come are in step with those done. *)
LEMMA PassesTurn ==
  ASSUME RunTypeOK, PassesInv, todo # <<>>, Turn, mode' = mode
  PROVE  PassesInv'
<1>1. ASSUME NEW i \in 1 .. Len(PassesOf(mode))
      PROVE  PassesOf(mode)[i] \in finished' \/ Ahead(PassesOf(mode)[i])'
  BY TurnsOver DEF PassesInv
<1>2. ASSUME NEW j \in 1 .. Len(todo'),
             todo'[j] \in {"mutate", "reconcile", "operator", "users"}
      PROVE  \E k \in 1 .. Len(todo') : k > j /\ todo'[k] = "members"
  <2>1. j + 1 \in 1 .. Len(todo) /\ todo'[j] = todo[j + 1]
    BY TurnsOver
  <2>2. PICK k \in 1 .. Len(todo) : k > j + 1 /\ todo[k] = "members"
    BY <1>2, <2>1 DEF PassesInv
  <2>3. k - 1 \in 1 .. Len(todo') /\ k - 1 > j
    BY <2>2, TurnsOver
  <2>4. todo'[k - 1] = todo[(k - 1) + 1] /\ (k - 1) + 1 = k
    BY <2>3, TurnsOver
  <2> QED BY <2>2, <2>3, <2>4
<1>3. ~mode.mutate => ~Ahead("mutate")'
  BY TurnsOver DEF PassesInv
<1> QED BY <1>1, <1>2, <1>3 DEF PassesInv

(* After a write pass the members pass is still to come, or was that pass. *)
LEMMA MembersAhead ==
  ASSUME RunTypeOK, PassesInv, todo # <<>>, Turn,
         Head(todo) \in {"mutate", "reconcile", "operator", "users"}
  PROVE  Ahead("members")'
<1>1. todo[1] = Head(todo) /\ 1 \in 1 .. Len(todo)
  BY TurnsOver
<1>2. Ahead("members")
  BY <1>1 DEF PassesInv, Ahead
<1> QED BY <1>2, TurnsOver

(* What a step counts as: a failure exactly when it was not fine.          *)
LEMMA Counted ==
  ASSUME NEW kind \in Kinds, NEW outcome \in Outcomes
  PROVE  /\ CountedAs(kind, outcome) \in Words \cup {"escapes"}
         /\ CountedAs(kind, outcome) = "failed" => ~Fine(kind, outcome)
         /\ ~Fine(kind, outcome) => CountedAs(kind, outcome) \in {"failed", "escapes"}
<1>1. CASE outcome = "answered"
  BY <1>1 DEF CountedAs, Fine, Words
<1>2. CASE outcome = "denied"
  <2>1. CASE kind = "bare"
    BY <1>2, <2>1 DEF CountedAs, Fine, Words
  <2>2. CASE kind = "step"
    BY <1>2, <2>2 DEF CountedAs, Fine, Words
  <2>3. CASE kind \in {"gated", "query", "subscribe_smoke"}
    BY <1>2, <2>3 DEF CountedAs, Fine, Words
  <2> QED BY <2>1, <2>2, <2>3 DEF Kinds
<1>3. CASE outcome = "deadline"
  BY <1>3, SMTT(30) DEF Kinds, CountedAs, Fine, Words
<1>4. CASE outcome = "error"
  BY <1>4, SMTT(30) DEF Kinds, CountedAs, Fine, Words
<1>5. CASE outcome = "exception"
  BY <1>5, SMTT(30) DEF Kinds, CountedAs, Fine, Words
<1> QED BY <1>1, <1>2, <1>3, <1>4, <1>5 DEF Outcomes

(* A step of a pass, and what it is counted as.                            *)
LEMMA StepKeeps ==
  ASSUME RunInv, NEW p \in {"readonly", "reconcile", "operator", "users", "members", "async"},
         NEW kind \in KindsOf(p), NEW outcome \in Outcomes, Step(p, kind, outcome)
  PROVE  RunInv'
<1>1. kind \in Kinds
  BY DEF KindsOf, Kinds
<1>2. /\ exit = "running" /\ todo # <<>> /\ Head(todo) = p
      /\ UNCHANGED <<vars, mode, todo, held, finished, aggregate>> /\ steps' = steps + 1
      /\ bad' = (bad \/ ~Fine(kind, outcome))
      /\ \/ CountedAs(kind, outcome) = "escapes" /\ exit' = "2" /\ result' = result
         \/ /\ CountedAs(kind, outcome) # "escapes" /\ exit' = exit
            /\ result' = result \cup {CountedAs(kind, outcome)}
  BY DEF Step, Running, Fatal, Count
<1>3. RunTypeOK'
  <2>1. bad' \in BOOLEAN
    BY <1>2, Zenon
  <2> QED BY <1>1, <1>2, <2>1, Counted DEF RunInv, RunTypeOK
<1>4. PassesInv' /\ MutateInv'
  BY <1>2 DEF RunInv, PassesInv, MutateInv, Ahead
<1>5. CountInv'
  <2>1. Head(todo) \notin {"mutate", "restart"}
    BY <1>2
  <2>2. CASE exit' = "2"
    BY <1>2, <2>2 DEF RunInv, CountInv
  <2>3. CASE exit' = exit /\ CountedAs(kind, outcome) # "escapes"
    BY <1>1, <1>2, <2>1, <2>3, Counted DEF RunInv, CountInv, Ahead
  <2> QED BY <1>2, <2>2, <2>3
<1>6. ExitInv'
  BY <1>2 DEF ExitInv
<1> QED BY <1>3, <1>4, <1>5, <1>6 DEF RunInv

(* The mutate pass, and what moves on after it.                            *)
LEMMA MutateKeeps ==
  ASSUME RunInv, MutateTypeOK, MutateTypeOK', MutateStep \/ Afterwards
  PROVE  RunInv'
<1>1. CASE MutateStep
  <2>1. /\ exit = "running" /\ todo # <<>> /\ Head(todo) = "mutate" /\ step # "end"
        /\ UNCHANGED <<mode, todo, steps, result, held, aggregate, exit, finished>>
        /\ bad' = (bad \/ failed') /\ Next
    BY <1>1 DEF MutateStep, Running
  <2>2. Ahead("mutate")
    <3>1. todo \in Seq(PassNames)
      BY DEF RunInv, RunTypeOK
    <3>2. todo[1] = "mutate" /\ 1 \in 1 .. Len(todo)
      BY <2>1, <3>1
    <3> QED BY <3>2 DEF Ahead
  <2>3. RunTypeOK'
    <3>1. bad' \in BOOLEAN
      BY <2>1, Zenon
    <3> QED BY <2>1, <3>1 DEF RunInv, RunTypeOK
  <2>4. PassesInv' /\ ExitInv'
    BY <2>1 DEF RunInv, PassesInv, ExitInv, Ahead
  <2>5. failed => failed'
    BY <2>1 DEF Next, ReadLimit, LiftLimit, ReadCap, LiftCap, SetupRaises, SubmitAnswered,
         SubmitRaised, Confirmed, NotConfirmed, Watch, Modify, CancelAcknowledged,
         CancelRaised, BasketAnswered, BasketRaised, CancelBasketAnswered,
         CancelBasketRaised, SweepAnswered, SweepRaised, RestoreLimit, RestoreCap,
         LateArrives, Arrives, OrdersMove, CancelDeclined, Probe, ListContracts, FindContract
  <2>6. CountInv'
    BY <2>1, <2>2, <2>5 DEF RunInv, CountInv, Ahead
  <2>7. MutateInv'
    BY <2>1, <2>2 DEF RunInv, MutateInv, PassesInv
  <2> QED BY <2>3, <2>4, <2>6, <2>7 DEF RunInv
<1>2. CASE Afterwards
  <2>1. UNCHANGED <<mode, todo, steps, result, held, aggregate, exit, bad, finished, step, failed>>
    BY <1>2 DEF Afterwards, runVars, LateArrives, Arrives, OrdersMove, CancelDeclined
  <2>2. step = "end"
    BY <1>2 DEF Afterwards
  <2>3. MutateInv'
    BY <2>1, <2>2 DEF RunInv, MutateInv
  <2> QED BY <2>1, <2>3 DEF RunInv, RunTypeOK, PassesInv, CountInv, ExitInv, Ahead
<1> QED BY <1>1, <1>2

(* The end of a pass.                                                      *)
LEMMA EndKeeps ==
  ASSUME RunInv,
         \/ ReadOnlyEnds \/ MutateEnds \/ WritePassEnds
         \/ AsyncEnds \/ AsyncCrashes \/ RestartServer
  PROVE  RunInv'
<1>1. /\ exit = "running" /\ todo # <<>> /\ Turn /\ UNCHANGED <<vars, mode, exit>>
  BY DEF ReadOnlyEnds, MutateEnds, WritePassEnds, AsyncEnds, AsyncCrashes, RestartServer, Running
<1>2. /\ result' = {} /\ steps' = 0
  BY <1>1 DEF Turn, Zero
<1>3. held' \subseteq Words /\ aggregate' \subseteq Words /\ bad' \in BOOLEAN
  BY DEF ReadOnlyEnds, MutateEnds, WritePassEnds, AsyncEnds, AsyncCrashes, RestartServer,
         RunInv, RunTypeOK, Plus, Count, Zero, Words
<1>4. RunTypeOK'
  BY <1>1, <1>2, <1>3, TurnsOver DEF RunInv, RunTypeOK
<1>5. PassesInv' /\ ExitInv'
  BY <1>1, PassesTurn DEF RunInv, ExitInv
<1>6. MutateInv'
  <2>1. Head(todo) = "mutate" => step = "end"
    BY DEF ReadOnlyEnds, MutateEnds, WritePassEnds, AsyncEnds, AsyncCrashes,
           RestartServer, Running
  <2> QED BY <1>1, <2>1, TurnsOver DEF RunInv, MutateInv
<1>7. CountInv'
  <2> SUFFICES
         /\ failed => bad'
         /\ bad' => \/ failed /\ Ahead("mutate")'
                    \/ "failed" \in held' /\ Ahead("members")'
                    \/ "failed" \in aggregate'
         /\ "failed" \in held' \cup aggregate' => bad'
    BY <1>1, <1>2 DEF CountInv, Zero
  <2>1. /\ failed => bad
        /\ bad => \/ "failed" \in result
                  \/ failed /\ Ahead("mutate")
                  \/ "failed" \in held /\ Ahead("members")
                  \/ "failed" \in aggregate
        /\ "failed" \in result \cup held \cup aggregate => bad
        /\ Head(todo) \in {"mutate", "restart"} => result = {}
    BY <1>1 DEF RunInv, CountInv, Zero
  <2>2. /\ Head(todo) # "mutate" /\ Ahead("mutate") => Ahead("mutate")'
        /\ Head(todo) # "members" /\ Ahead("members") => Ahead("members")'
    BY <1>1, TurnsOver DEF RunInv
  <2>3. CASE ReadOnlyEnds \/ AsyncEnds
    BY <2>1, <2>2, <2>3 DEF ReadOnlyEnds, AsyncEnds, Running, Plus
  <2>4. CASE MutateEnds
    BY <1>1, <2>1, <2>2, <2>4, MembersAhead DEF MutateEnds, Running, Plus, Count, Zero, RunInv
  <2>5. CASE WritePassEnds
    BY <1>1, <2>1, <2>2, <2>5, MembersAhead DEF WritePassEnds, Running, Plus, RunInv
  <2>6. CASE AsyncCrashes
    BY <2>1, <2>2, <2>6 DEF AsyncCrashes, Running, Count
  <2>7. CASE RestartServer
    BY <2>1, <2>2, <2>7 DEF RestartServer, Running, Count
  <2> QED BY <2>3, <2>4, <2>5, <2>6, <2>7
<1> QED BY <1>4, <1>5, <1>6, <1>7 DEF RunInv

(* An exception that ends the process: of the search for a contract, or of *)
(* the restart.                                                            *)
LEMMA DeathKeeps ==
  ASSUME RunInv, MutateEscapes \/ RestartCrashes
  PROVE  RunInv'
<1>1. /\ exit' \in {"1", "2"} /\ bad' = TRUE
      /\ UNCHANGED <<vars, mode, todo, steps, result, held, aggregate, finished>>
  BY DEF MutateEscapes, RestartCrashes, Fatal
<1> QED BY <1>1 DEF RunInv, RunTypeOK, PassesInv, CountInv, MutateInv, ExitInv, Ahead

(* The exit code is given when nothing is left to run.                     *)
LEMMA ReportKeeps ==
  ASSUME RunInv, Report
  PROVE  RunInv'
<1>1. /\ exit = "running" /\ todo = <<>> /\ result = {}
      /\ UNCHANGED <<vars, mode, todo, steps, result, held, aggregate, bad, finished>>
      /\ exit' = IF "failed" \notin aggregate THEN "0" ELSE "1"
  BY DEF Report, RunInv, CountInv, Zero
<1>2. \A p : ~Ahead(p)
  BY <1>1 DEF Ahead
<1>3. bad <=> "failed" \in aggregate
  BY <1>1, <1>2 DEF RunInv, CountInv
<1>4. ExitInv'
  BY <1>1, <1>2, <1>3 DEF RunInv, PassesInv, ExitInv
<1> QED BY <1>1, <1>4 DEF RunInv, RunTypeOK, PassesInv, CountInv, MutateInv, Ahead

(* Every step of the run is a step of the mutate pass or leaves that pass  *)
(* as it is: what is proved of the pass holds in the whole run.            *)
THEOREM RunHasMutate == RunSpec => Spec
<1>1. RunInit => Init
  BY DEF RunInit
<1>2. [RunNext]_allVars => [Next]_vars
  BY DEF RunNext, Step, ReadOnlyEnds, MutateStep, MutateEscapes, MutateEnds,
         WritePassEnds, Afterwards, AsyncEnds, AsyncCrashes, RestartServer,
         RestartCrashes, Report, Next, allVars
<1> QED BY <1>1, <1>2, PTL DEF RunSpec, Spec

(* The invariant of a run: its failures are counted, none is made up, and  *)
(* the passes done and to come are those of its mode.                      *)
THEOREM RunInvariant == RunSpec => []RunInv
<1>1. RunInit => RunInv
  <2> SUFFICES ASSUME RunInit PROVE RunInv
    OBVIOUS
  <2>1. /\ mode \in [mutate : BOOLEAN, restart : BOOLEAN] /\ todo = PassesOf(mode)
        /\ steps = 0 /\ result = {} /\ held = {} /\ aggregate = {} /\ exit = "running"
        /\ bad = FALSE /\ finished = {}
        /\ step = "history" /\ failed = FALSE /\ order = "none" /\ basket = "none"
    BY DEF RunInit, Init, Zero
  <2>2. RunTypeOK
    BY <2>1, PassesAre DEF RunTypeOK
  <2>3. PassesInv
    BY <2>1, PassesAre DEF PassesInv, Ahead
  <2> QED BY <2>1, <2>2, <2>3 DEF RunInv, CountInv, MutateInv, ExitInv, Zero
<1>2. MutateTypeOK /\ MutateTypeOK' /\ RunInv /\ [RunNext]_allVars => RunInv'
  <2> SUFFICES ASSUME MutateTypeOK, MutateTypeOK', RunInv, [RunNext]_allVars PROVE RunInv'
    OBVIOUS
  <2>1. CASE UNCHANGED allVars
    BY <2>1 DEF allVars, runVars, RunInv, RunTypeOK, PassesInv, CountInv, MutateInv, ExitInv, Ahead
  <2> QED BY <2>1, StepKeeps, MutateKeeps, EndKeeps, DeathKeeps, ReportKeeps DEF RunNext
<1>3. RunSpec => []MutateTypeOK
  BY RunHasMutate, MutateTypes, PTL
<1> QED BY <1>1, <1>2, <1>3, PTL DEF RunSpec

(* main: with a member-scoped key the exit code is true of the whole run,  *)
(* whatever its mode and however long its passes.                          *)
THEOREM ExitTrue == ASSUME Scoped PROVE RunSpec => []ExitIsTrue
<1>1. RunInv /\ NotLeft => ExitIsTrue
  <2> SUFFICES ASSUME RunInv, NotLeft, exit = "0"
               PROVE  OnlyUnseenOpen
    BY DEF RunInv, ExitInv, ExitIsTrue
  <2>1. ~failed /\ mode \in [mutate : BOOLEAN, restart : BOOLEAN]
    BY DEF RunInv, ExitInv, CountInv, RunTypeOK
  <2>2. CASE mode.mutate
    <3>1. PICK i \in 1 .. Len(PassesOf(mode)) : PassesOf(mode)[i] = "mutate"
      BY <2>1, <2>2, PassesAre
    <3>2. step = "end"
      BY <3>1 DEF RunInv, ExitInv, MutateInv
    <3> QED BY <2>1, <3>2 DEF NotLeft, Swept
  <2>3. CASE ~mode.mutate
    BY <2>3 DEF RunInv, MutateInv, OnlyUnseenOpen, Open
  <2> QED BY <2>2, <2>3
<1>2. RunSpec => []NotLeft
  BY RunHasMutate, SweptClean, PTL
<1> QED BY <1>1, <1>2, RunInvariant, PTL
=============================================================================
