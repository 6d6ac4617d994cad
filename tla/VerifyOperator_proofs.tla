------------------------ MODULE VerifyOperator_proofs ------------------------
(***************************************************************************)
(* Proofs about VerifyOperator, for every set of policies, slot modes and  *)
(* caps and every bound: the pass changes a setting only in a race, and it *)
(* never leaves a residue unreported.                                      *)
(***************************************************************************)
EXTENDS VerifyOperator, FiniteSetTheorems, TLAPS

-----------------------------------------------------------------------------
(* The inductive invariant.                                                *)

(* The setting whose value, read before, the pass is still to write back.  *)
HeldFor(s) ==
  step = <<"set", s>> \/ (s = "gbpHolidays" /\ step = <<"set", "eurHolidays">>)
HeldValue(s) == IF s = "gbpHolidays" THEN read.gbp ELSE read.value
HeldItem(s) == IF s = "gbpHolidays" THEN "eurHolidays" ELSE s

FlagsInv ==
  /\ failed \in BOOLEAN /\ fatal \in BOOLEAN
  /\ user \in {"absent", "active", "deleted"}
  /\ member \in {"absent", "active", "inactive", "deleted"}
  /\ others <= MaxOther /\ others \in Nat
  /\ forgone \subseteq {"sentinel", "member"}
DeskInv == desk \in Desks /\ intended \in Desks /\ raced \subseteq Settings

(* What is held, and what a late request carries, is a value of its own    *)
(* setting.                                                                *)
ReadInv ==
  \A s \in Settings :
    HeldFor(s) => read.item = HeldItem(s) /\ HeldValue(s) \in Domain[s]
LateInv ==
  /\ IsFiniteSet(late) /\ Cardinality(late) <= MaxLate
  /\ \A m \in late :
       m.op = "set" => m.on \in Settings /\ m.value \in Domain[m.on]

(* Of a setting nobody raced for, the gateway, the pass and every late     *)
(* request have the same idea: what people last made it.                   *)
RaceInv ==
  \A s \in Settings \ raced :
    /\ WithoutSentinel(s, desk[s]) = WithoutSentinel(s, intended[s])
    /\ HeldFor(s) =>
         WithoutSentinel(s, HeldValue(s)) = WithoutSentinel(s, intended[s])
    /\ \A m \in late :
         m.op = "set" /\ m.on = s =>
           WithoutSentinel(s, m.value) = WithoutSentinel(s, intended[s])

(* While no failure was reported no call was lost, so the step, and what   *)
(* was forgone, tell what is left at the gateway.                          *)
Own == Sentinel \in desk.eurHolidays \ intended.eurHolidays
MemberSteps == { <<"read", "cash">>, <<"patch", "allocation">>,
                 <<"patch", "inactive">>, <<"delete", "member">> }
CalendarHeld ==
  step = <<"set", "eurHolidays">> =>
    read.value = desk.eurHolidays \/ "eurHolidays" \in raced
SentinelTold ==
  Own => \/ step = <<"remove", "sentinel">>
         \/ "sentinel" \in forgone \/ "eurHolidays" \in raced
UserTold == user = "active" => step \in {<<"use", "user">>, <<"delete", "user">>}
MemberTold ==
  member \in {"active", "inactive"} => step \in MemberSteps \/ "member" \in forgone
CleanInv ==
  ~failed /\ ~fatal =>
    late = {} /\ CalendarHeld /\ SentinelTold /\ UserTold /\ MemberTold

OperatorInv ==
  /\ step \in Steps
  /\ FlagsInv /\ DeskInv /\ ReadInv /\ LateInv /\ RaceInv /\ CleanInv

-----------------------------------------------------------------------------
(* The settings, the script and the gateway, as the proofs use them.       *)

USE SentinelAssumption, CapsAssumption, BoundsAssumption

(* The seven settings.                                                     *)
LEMMA SettingsAre ==
  Settings = { "policy", "contractLimit", "slotLimit", "cashCap", "trading",
               "eurHolidays", "gbpHolidays" }
  BY DEF Settings, Domain

(* A setting of a desk is one of the setting's values.                     *)
LEMMA DeskGet == ASSUME NEW d \in Desks, NEW s \in Settings
                 PROVE  d[s] \in Domain[s]
  BY SettingsAre DEF Desks, Domain

(* e is the desk d with setting s, and nothing else, made v.               *)
Changed(d, s, v, e) ==
  e \in Desks /\ e[s] = v /\ \A t \in Settings \ {s} : e[t] = d[t]

(* A desk with one setting changed is a desk.                              *)
LEMMA DeskSet ==
  ASSUME NEW d \in Desks, NEW s \in Settings, NEW v \in Domain[s],
         NEW e, e = [d EXCEPT ![s] = v]
  PROVE  Changed(d, s, v, e)
<1>1. DOMAIN d = Settings
  BY SettingsAre DEF Desks
<1>2. /\ d.policy \in Policies /\ d.contractLimit \in {0, 1}
      /\ d.slotLimit \in SlotModes /\ d.cashCap \in Caps \cup {NoCap}
      /\ d.trading \in BOOLEAN
      /\ d.eurHolidays \in SUBSET {Holiday, Sentinel}
      /\ d.gbpHolidays \in SUBSET {Holiday}
  BY DEF Desks
<1>3. CASE s = "policy"
  BY <1>1, <1>2, <1>3, SettingsAre DEF Desks, Domain, Changed
<1>4. CASE s = "contractLimit"
  BY <1>1, <1>2, <1>4, SettingsAre DEF Desks, Domain, Changed
<1>5. CASE s = "slotLimit"
  BY <1>1, <1>2, <1>5, SettingsAre DEF Desks, Domain, Changed
<1>6. CASE s = "cashCap"
  BY <1>1, <1>2, <1>6, SettingsAre DEF Desks, Domain, Changed
<1>7. CASE s = "trading"
  BY <1>1, <1>2, <1>7, SettingsAre DEF Desks, Domain, Changed
<1>8. CASE s = "eurHolidays"
  BY <1>1, <1>2, <1>8, SettingsAre DEF Desks, Domain, Changed
<1>9. CASE s = "gbpHolidays"
  BY <1>1, <1>2, <1>9, SettingsAre DEF Desks, Domain, Changed
<1>10. QED
  BY <1>3, <1>4, <1>5, <1>6, <1>7, <1>8, <1>9, SettingsAre

(* The steps of the script, listed.                                        *)
Gets == { <<"get", s>> : s \in Settings \ {"gbpHolidays"} }
Sets == { <<"set", s>> : s \in Settings }
Calls == { <<"add", "sentinel">>, <<"remove", "sentinel">>,
           <<"create", "user">>, <<"use", "user">>, <<"delete", "user">>,
           <<"create", "member">>, <<"read", "cash">>,
           <<"patch", "allocation">>, <<"patch", "inactive">>,
           <<"delete", "member">> }

(* The script is what AfterCall names, and nothing else.                   *)
LEMMA StepsAre == Steps = {<<"end", "pass">>} \cup Gets \cup Sets \cup Calls
<1>1. DOMAIN AfterCall = {"add", "remove", "create", "use", "delete", "read", "patch"}
  BY DEF AfterCall
<1>2. /\ DOMAIN AfterCall["add"] = {"sentinel"}
      /\ DOMAIN AfterCall["remove"] = {"sentinel"}
      /\ DOMAIN AfterCall["create"] = {"user", "member"}
      /\ DOMAIN AfterCall["use"] = {"user"}
      /\ DOMAIN AfterCall["delete"] = {"user", "member"}
      /\ DOMAIN AfterCall["read"] = {"cash"}
      /\ DOMAIN AfterCall["patch"] = {"allocation", "inactive"}
  BY DEF AfterCall
<1>3. UNION {{<<op, x>> : x \in DOMAIN AfterCall[op]} : op \in DOMAIN AfterCall}
        = Calls
  BY <1>1, <1>2, SMTT(60) DEF Calls
<1>4. QED
  BY <1>3 DEF Steps, Gets, Sets

(* Where an answered call leads.                                           *)
LEMMA SuccessOf ==
  /\ \A s \in Settings : OnSuccess(<<"get", s>>) = <<"set", s>>
  /\ \A s \in Settings : OnSuccess(<<"set", s>>) = AfterSet[s]
  /\ OnSuccess(<<"add", "sentinel">>) = <<"remove", "sentinel">>
  /\ OnSuccess(<<"remove", "sentinel">>) = <<"create", "user">>
  /\ OnSuccess(<<"create", "user">>) = <<"use", "user">>
  /\ OnSuccess(<<"use", "user">>) = <<"delete", "user">>
  /\ OnSuccess(<<"delete", "user">>) = <<"create", "member">>
  /\ OnSuccess(<<"create", "member">>) = <<"read", "cash">>
  /\ OnSuccess(<<"read", "cash">>) = <<"patch", "allocation">>
  /\ OnSuccess(<<"patch", "allocation">>) = <<"patch", "inactive">>
  /\ OnSuccess(<<"patch", "inactive">>) = <<"delete", "member">>
  /\ OnSuccess(<<"delete", "member">>) = <<"end", "pass">>
  BY DEF OnSuccess, AfterCall

(* What follows the writing back of a setting.                             *)
LEMMA AfterSetIs ==
  /\ AfterSet["eurHolidays"] = <<"set", "gbpHolidays">>
  /\ AfterSet["gbpHolidays"] = <<"add", "sentinel">>
  /\ \A s \in Settings \ {"eurHolidays", "gbpHolidays"} : AfterSet[s] \in Gets
<1>1. /\ AfterSet["policy"] = <<"get", "contractLimit">>
      /\ AfterSet["contractLimit"] = <<"get", "slotLimit">>
      /\ AfterSet["slotLimit"] = <<"get", "cashCap">>
      /\ AfterSet["cashCap"] = <<"get", "trading">>
      /\ AfterSet["trading"] = <<"get", "eurHolidays">>
      /\ AfterSet["eurHolidays"] = <<"set", "gbpHolidays">>
      /\ AfterSet["gbpHolidays"] = <<"add", "sentinel">>
  BY DEF AfterSet
<1>2. {<<"get", "contractLimit">>, <<"get", "slotLimit">>, <<"get", "cashCap">>,
       <<"get", "trading">>, <<"get", "eurHolidays">>} \subseteq Gets
  BY SettingsAre DEF Gets
<1>3. QED
  BY <1>1, <1>2, SettingsAre

(* Where a failed one leads.                                               *)
LEMMA FailureOf ==
  /\ OnFailure(<<"get", "eurHolidays">>) = <<"create", "user">>
  /\ \A s \in Settings \ {"eurHolidays"} : OnFailure(<<"get", s>>) = AfterSet[s]
  /\ \A s \in Settings : OnFailure(<<"set", s>>) = AfterSet[s]
  /\ OnFailure(<<"add", "sentinel">>) = <<"create", "user">>
  /\ OnFailure(<<"create", "user">>) = <<"create", "member">>
  /\ OnFailure(<<"create", "member">>) = <<"end", "pass">>
  /\ \A s \in Calls \ { <<"add", "sentinel">>, <<"create", "user">>,
                        <<"create", "member">> } : OnFailure(s) = OnSuccess(s)
<1>1. \A s \in Calls : s[1] # "get"
  BY DEF Calls
<1>2. \A s \in Settings : /\ OnFailure(<<"set", s>>) = OnSuccess(<<"set", s>>)
                          /\ OnSuccess(<<"set", s>>) = AfterSet[s]
  BY SuccessOf DEF OnFailure
<1>3. /\ OnFailure(<<"get", "eurHolidays">>) = <<"create", "user">>
      /\ OnFailure(<<"add", "sentinel">>) = <<"create", "user">>
      /\ OnFailure(<<"create", "user">>) = <<"create", "member">>
      /\ OnFailure(<<"create", "member">>) = <<"end", "pass">>
  BY DEF OnFailure
<1>4. \A s \in Settings \ {"eurHolidays"} : OnFailure(<<"get", s>>) = AfterSet[s]
  BY DEF OnFailure
<1>5. \A s \in Calls \ { <<"add", "sentinel">>, <<"create", "user">>,
                        <<"create", "member">> } : OnFailure(s) = OnSuccess(s)
  BY <1>1 DEF OnFailure, Calls
<1>6. QED
  BY <1>2, <1>3, <1>4, <1>5

(* What a request does to the gateway once it is taken.                    *)
LEMMA Effect ==
  \A m : Apply(m) =>
    /\ m.op = "set" => desk' = [desk EXCEPT ![m.on] = m.value]
    /\ m.op = "add" => desk' = [desk EXCEPT !["eurHolidays"] =
                                            desk.eurHolidays \cup {Sentinel}]
    /\ m.op = "remove" => desk' = [desk EXCEPT !["eurHolidays"] =
                                               desk.eurHolidays \ {Sentinel}]
    /\ m.op \notin {"set", "add", "remove"} => desk' = desk
    /\ user' = IF m.op = "create" /\ m.on = "user" THEN "active"
               ELSE IF m.op = "delete" /\ m.on = "user" THEN "deleted"
               ELSE user
    /\ member' = IF m.op = "create" /\ m.on = "member" THEN "active"
                 ELSE IF m.op = "delete" /\ m.on = "member" THEN "deleted"
                 ELSE IF m.op = "patch" /\ m.on = "inactive" THEN "inactive"
                 ELSE member
<1> SUFFICES ASSUME NEW m, Apply(m)
             PROVE  /\ m.op = "set" => desk' = [desk EXCEPT ![m.on] = m.value]
                    /\ m.op = "add" =>
                         desk' = [desk EXCEPT !["eurHolidays"] =
                                    desk.eurHolidays \cup {Sentinel}]
                    /\ m.op = "remove" =>
                         desk' = [desk EXCEPT !["eurHolidays"] =
                                    desk.eurHolidays \ {Sentinel}]
                    /\ m.op \notin {"set", "add", "remove"} => desk' = desk
                    /\ user' = IF m.op = "create" /\ m.on = "user" THEN "active"
                               ELSE IF m.op = "delete" /\ m.on = "user" THEN "deleted"
                               ELSE user
                    /\ member' = IF m.op = "create" /\ m.on = "member" THEN "active"
                                 ELSE IF m.op = "delete" /\ m.on = "member" THEN "deleted"
                                 ELSE IF m.op = "patch" /\ m.on = "inactive" THEN "inactive"
                                 ELSE member
  OBVIOUS
<1>1. CASE m.op = "set"
  BY <1>1 DEF Apply, SetTo, deskVars
<1>2. CASE m.op = "add"
  BY <1>2 DEF Apply, SetTo, deskVars
<1>3. CASE m.op = "remove"
  BY <1>3 DEF Apply, SetTo, deskVars
<1>4. CASE m.op \notin {"set", "add", "remove"}
  BY <1>4 DEF Apply, SetTo, deskVars
<1>5. QED
  BY <1>1, <1>2, <1>3, <1>4

-----------------------------------------------------------------------------
(* What a step can do to each part of the state.                           *)

(* A call of the pass that raises.                                         *)
Raised == Denied \/ Refused \/ Uncaught \/ AppliedUnheard \/ Outlived

(* The pass goes on to the step an answer or a failure leads to, or it is  *)
(* not the pass that moves.                                                *)
LEMMA PassMoves ==
  ASSUME Next
  PROVE  \/ UnrestorablePolicy \/ Answered \/ AnsweredWithoutId \/ Raised
         \/ (LateArrives \/ OtherSets) /\ UNCHANGED passVars
  BY DEF Next, Raised, LateArrives, OtherSets, passVars

(* What is common to the ways a call raises.                               *)
LEMMA RaisedIs ==
  ASSUME Raised
  PROVE  /\ ~Over /\ ~fatal
         /\ step' = OnFailure(step) /\ read' = ReadKept
         /\ UNCHANGED <<others, intended, raced>>
         /\ \/ UNCHANGED deskVars
            \/ Takes(RequestOf(step)) /\ Apply(RequestOf(step))
         /\ \/ UNCHANGED late
            \/ Cardinality(late) < MaxLate /\ late' = late \cup {RequestOf(step)}
         /\ forgone' = forgone \/ forgone' = forgone \cup {"sentinel"}
<1>0. \A skips : Forgoes(skips) =>
        forgone' = forgone \/ forgone' = forgone \cup {"sentinel"}
  BY DEF Forgoes
<1>1. CASE Denied
  BY <1>0, <1>1 DEF Denied, Raise, Runs, Go
<1>2. CASE Refused
  BY <1>0, <1>2 DEF Refused, Raise, Runs, Go
<1>3. CASE AppliedUnheard
  BY <1>0, <1>3 DEF AppliedUnheard, Raise, Runs, Go
<1>4. CASE Outlived
  BY <1>0, <1>4 DEF Outlived, Raise, Runs, Go
<1>5. CASE Uncaught
  BY <1>5 DEF Uncaught, Runs, Go
<1>6. QED
  BY <1>1, <1>2, <1>3, <1>4, <1>5 DEF Raised

(* What an answered call does.                                             *)
LEMMA AnsweredIs ==
  ASSUME Answered
  PROVE  /\ ~Over /\ ~fatal
         /\ step' = OnSuccess(step)
         /\ read' = IF step[1] = "get" THEN Seen(step) ELSE ReadKept
         /\ UNCHANGED <<others, intended, raced, fatal, forgone, late>>
         /\ UNCHANGED failed \/ (Judged(step) /\ failed' = TRUE)
         /\ Takes(RequestOf(step)) /\ Apply(RequestOf(step))
  BY DEF Answered, Runs, Go

(* What a member without an id does.                                       *)
LEMMA NamelessIs ==
  ASSUME AnsweredWithoutId
  PROVE  /\ step = <<"create", "member">> /\ step' = <<"end", "pass">>
         /\ ~fatal /\ forgone' = forgone \cup {"member"}
         /\ UNCHANGED <<others, intended, raced, failed, fatal, late>>
         /\ Apply(RequestOf(step))
  BY DEF AnsweredWithoutId, Runs, Go

(* What a skipped policy does.                                             *)
LEMMA SkippedIs ==
  ASSUME UnrestorablePolicy
  PROVE  /\ step = <<"set", "policy">> /\ step' = AfterSet["policy"]
         /\ read' = Nothing
         /\ UNCHANGED <<others, intended, raced, failed, fatal, forgone, late, deskVars>>
  BY DEF UnrestorablePolicy, Go, ReadKept

(* Past the last setting the script stays past it.                         *)
LEMMA CallsLead ==
  \A s \in Calls : /\ OnSuccess(s) \in Calls \cup {<<"end", "pass">>}
                   /\ OnFailure(s) \in Calls \cup {<<"end", "pass">>}
<1>1. \A s \in Calls : OnSuccess(s) \in Calls \cup {<<"end", "pass">>}
  BY SuccessOf DEF Calls
<1>2. \A s \in Calls : OnFailure(s) \in Calls \cup {<<"end", "pass">>}
  BY <1>1, FailureOf DEF Calls
<1>3. QED
  BY <1>1, <1>2

(* A read or a write, and what it leads to.                                *)
LEMMA SettingsLead ==
  /\ \A s \in Gets : OnSuccess(s) \in Sets /\ OnFailure(s) \in Gets \cup Calls
  /\ \A s \in Sets : /\ OnSuccess(s) = OnFailure(s)
                     /\ OnSuccess(s) \in Gets \cup Calls \cup {<<"set", "gbpHolidays">>}
                     /\ OnSuccess(s) \in Sets => s = <<"set", "eurHolidays">>
<1>1. \A s \in Settings \ {"gbpHolidays"} :
        /\ OnSuccess(<<"get", s>>) \in Sets
        /\ OnFailure(<<"get", s>>) \in Gets \cup Calls
  BY SuccessOf, FailureOf, AfterSetIs DEF Sets, Calls
<1>2. \A s \in Gets \cup Calls : s \notin Sets
  BY DEF Gets, Calls, Sets
<1>3. \A s \in Settings :
        /\ OnSuccess(<<"set", s>>) = OnFailure(<<"set", s>>)
        /\ OnSuccess(<<"set", s>>)
             \in Gets \cup Calls \cup {<<"set", "gbpHolidays">>}
        /\ OnSuccess(<<"set", s>>) \in Sets => s = "eurHolidays"
  BY <1>2, SuccessOf, FailureOf, AfterSetIs DEF Calls
<1>4. QED
  BY <1>1, <1>3 DEF Gets, Sets

(* The script is never left.                                               *)
LEMMA StepMoves ==
  ASSUME step \in Steps, Next
  PROVE  step' \in Steps
<1>1. CASE UnrestorablePolicy
  BY <1>1, SkippedIs, AfterSetIs, SettingsAre, StepsAre
<1>2. ~Over => OnSuccess(step) \in Steps /\ OnFailure(step) \in Steps
  <2>1. <<"set", "gbpHolidays">> \in Sets
    BY SettingsAre DEF Sets
  <2>2. QED
    BY <2>1, StepsAre, CallsLead, SettingsLead DEF Over
<1>3. CASE AnsweredWithoutId
  BY <1>3, NamelessIs, StepsAre
<1>4. QED
  BY <1>1, <1>2, <1>3, PassMoves, RaisedIs, AnsweredIs DEF passVars

(* What the pass holds it held already, or has just read.                  *)
LEMMA HeldMoves ==
  ASSUME step \in Steps, Next, NEW s \in Settings, HeldFor(s)'
  PROVE  \/ HeldFor(s) /\ read' = read
         \/ /\ HeldValue(s)' = desk[s] /\ read'.item = HeldItem(s)
            /\ UNCHANGED <<desk, intended, raced>>
<1>1. CASE UNCHANGED passVars
  BY <1>1 DEF passVars, HeldFor
<1>2. step' \in Sets /\ step' # <<"end", "pass">>
  BY SettingsAre DEF HeldFor, Sets
<1>3. \A t \in Gets \cup Calls : t \notin Sets
  BY DEF Gets, Calls, Sets
<1>4. CASE UnrestorablePolicy
  BY <1>2, <1>3, <1>4, SkippedIs, AfterSetIs, SettingsAre
<1>5. ASSUME step' = OnSuccess(step) \/ step' = OnFailure(step),
             step # <<"end", "pass">>,
             step \notin Gets
      PROVE  step = <<"set", "eurHolidays">> /\ step' = <<"set", "gbpHolidays">>
  <2>1. step \in Sets
    BY <1>2, <1>3, <1>5, StepsAre, CallsLead
  <2>2. step = <<"set", "eurHolidays">>
    BY <1>2, <1>5, <2>1, SettingsLead
  <2>3. QED
    BY <1>5, <2>1, <2>2, SettingsLead, SuccessOf, AfterSetIs, SettingsAre
<1>6. ASSUME step = <<"set", "eurHolidays">>, step' = <<"set", "gbpHolidays">>,
             read' = ReadKept
      PROVE  HeldFor(s) /\ read' = read
  BY <1>6 DEF HeldFor, ReadKept
<1>7. CASE Answered
  <2>1. CASE step \in Gets
    <3>1. PICK x \in Settings \ {"gbpHolidays"} : step = <<"get", x>>
      BY <2>1 DEF Gets
    <3>2. step' = <<"set", x>> /\ read' = Seen(step)
      BY <1>7, <3>1, AnsweredIs, SuccessOf
    <3>3. UNCHANGED <<desk, intended, raced>>
      BY <1>7, <3>1, AnsweredIs, Effect DEF RequestOf
    <3>4. s = x \/ (s = "gbpHolidays" /\ x = "eurHolidays")
      BY <3>2 DEF HeldFor
    <3>5. read'.item = HeldItem(s) /\ HeldValue(s)' = desk[s]
      BY <3>1, <3>2, <3>4 DEF Seen, HeldItem, HeldValue
    <3>6. QED
      BY <3>3, <3>5
  <2>2. CASE step \notin Gets
    <3>1. step = <<"set", "eurHolidays">> /\ step' = <<"set", "gbpHolidays">>
      BY <1>5, <1>7, <2>2, AnsweredIs DEF Over
    <3>2. read' = ReadKept
      BY <1>7, <3>1, AnsweredIs
    <3>3. QED
      BY <1>6, <3>1, <3>2
  <2>3. QED
    BY <2>1, <2>2
<1>8. CASE Raised
  <2>1. step \notin Gets
    BY <1>2, <1>3, <1>8, RaisedIs, SettingsLead
  <2>2. QED
    BY <1>5, <1>6, <1>8, <2>1, RaisedIs DEF Over
<1>9. CASE AnsweredWithoutId
  BY <1>2, <1>9, NamelessIs DEF Sets
<1>10. QED
  BY <1>1, <1>4, <1>7, <1>8, <1>9, PassMoves

(* A request that sets something sets what the pass holds for it.          *)
LEMMA RequestHeld ==
  ASSUME step \in Steps
  PROVE  /\ RequestOf(step).op = step[1] /\ RequestOf(step).on = step[2]
         /\ RequestOf(step).op = "set" =>
              /\ step = <<"set", RequestOf(step).on>>
              /\ RequestOf(step).on \in Settings
              /\ HeldFor(RequestOf(step).on)
              /\ RequestOf(step).value = HeldValue(RequestOf(step).on)
<1>1. RequestOf(step).op = step[1] /\ RequestOf(step).on = step[2]
  BY DEF RequestOf
<1>2. ASSUME step[1] = "set"
      PROVE  step \in Sets /\ step = <<"set", step[2]>> /\ step[2] \in Settings
  BY <1>2, StepsAre DEF Gets, Sets, Calls
<1>3. ASSUME step[1] = "set"
      PROVE  RequestOf(step).value = HeldValue(RequestOf(step).on)
  BY <1>3 DEF RequestOf, WriteBack, HeldValue
<1>4. QED
  BY <1>1, <1>2, <1>3 DEF HeldFor

(* The requests that outlive their calls are requests of the pass.         *)
LEMMA LateMoves ==
  ASSUME Next, NEW m \in late'
  PROVE  m \in late \/ (m = RequestOf(step) /\ UNCHANGED <<intended, raced>>)
<1>1. CASE UnrestorablePolicy \/ Answered \/ AnsweredWithoutId
  BY <1>1, SkippedIs, AnsweredIs, NamelessIs
<1>2. CASE Raised
  BY <1>2, RaisedIs
<1>3. CASE LateArrives
  BY <1>3 DEF LateArrives
<1>4. CASE OtherSets
  BY <1>4 DEF OtherSets
<1>5. QED
  BY <1>1, <1>2, <1>3, <1>4, PassMoves

(* People change one setting at a time, and whoever held a value of it is  *)
(* in a race.                                                              *)
LEMMA IntendedMoves ==
  ASSUME DeskInv, Next
  PROVE  /\ intended' \in Desks /\ raced \subseteq raced' /\ raced' \subseteq Settings
         /\ \A s \in Settings \ raced' :
              \/ intended'[s] = intended[s]
              \/ ~Exposed(s) /\ desk'[s] = intended'[s]
<1>1. CASE OtherSets
  <2>1. PICK x \in Settings : \E v \in Domain[x] :
          /\ SetTo(x, v) /\ intended' = [intended EXCEPT ![x] = v]
          /\ raced' = IF Exposed(x) THEN raced \cup {x} ELSE raced
    BY <1>1 DEF OtherSets
  <2>2. PICK v \in Domain[x] :
          /\ desk' = [desk EXCEPT ![x] = v] /\ intended' = [intended EXCEPT ![x] = v]
          /\ raced' = IF Exposed(x) THEN raced \cup {x} ELSE raced
    BY <2>1 DEF SetTo
  <2>3. Changed(desk, x, v, desk') /\ Changed(intended, x, v, intended')
    BY <2>2, DeskSet DEF DeskInv
  <2>4. QED
    BY <2>2, <2>3 DEF DeskInv, Changed
<1>2. CASE ~OtherSets
  BY <1>2, PassMoves, RaisedIs, AnsweredIs, NamelessIs, SkippedIs DEF DeskInv, LateArrives
<1>3. QED
  BY <1>1, <1>2

(* Each setting at the gateway stays, but for the sentinel, or is given    *)
(* the value the pass or a late request holds for it, or is what people    *)
(* now want it to be.                                                      *)
LEMMA DeskMoves ==
  ASSUME step \in Steps, DeskInv, ReadInv, LateInv, Next
  PROVE  /\ desk' \in Desks
         /\ \A s \in Settings :
              \/ /\ WithoutSentinel(s, desk'[s]) = WithoutSentinel(s, desk[s])
                 /\ intended'[s] = intended[s]
              \/ HeldFor(s) /\ desk'[s] = HeldValue(s) /\ intended' = intended
              \/ /\ \E m \in late : m.op = "set" /\ m.on = s /\ desk'[s] = m.value
                 /\ intended' = intended
              \/ desk'[s] = intended'[s]
<1> DEFINE P == /\ desk' \in Desks
                /\ \A s \in Settings :
                     \/ /\ WithoutSentinel(s, desk'[s]) = WithoutSentinel(s, desk[s])
                        /\ intended'[s] = intended[s]
                     \/ HeldFor(s) /\ desk'[s] = HeldValue(s) /\ intended' = intended
                     \/ /\ \E m \in late : m.op = "set" /\ m.on = s /\ desk'[s] = m.value
                        /\ intended' = intended
                     \/ desk'[s] = intended'[s]
<1>1. ASSUME UNCHANGED <<desk, intended>>  PROVE P
  BY <1>1 DEF DeskInv
<1>2. desk.eurHolidays \cup {Sentinel} \in Domain["eurHolidays"]
      /\ desk.eurHolidays \ {Sentinel} \in Domain["eurHolidays"]
  BY DEF DeskInv, Desks, Domain
<1>3. ASSUME UNCHANGED intended, NEW x \in Domain["eurHolidays"],
             x \ {Sentinel} = desk.eurHolidays \ {Sentinel},
             desk' = [desk EXCEPT !["eurHolidays"] = x]
      PROVE  P
  <2>1. Changed(desk, "eurHolidays", x, desk')
    BY <1>3, DeskSet, SettingsAre DEF DeskInv
  <2>2. \A s \in Settings : WithoutSentinel(s, desk'[s]) = WithoutSentinel(s, desk[s])
    BY <1>3, <2>1 DEF WithoutSentinel, Changed
  <2>3. QED
    BY <1>3, <2>1, <2>2 DEF Changed
<1>4. ASSUME NEW m, Apply(m), UNCHANGED intended, m.op \in {"add", "remove"}
      PROVE  P
  <2>1. CASE m.op = "add"
    BY <1>2, <1>3, <1>4, <2>1, Effect
  <2>2. CASE m.op = "remove"
    BY <1>2, <1>3, <1>4, <2>2, Effect
  <2>3. QED
    BY <1>4, <2>1, <2>2
<1>5. ASSUME NEW m, Apply(m), UNCHANGED intended, m.op \notin {"set", "add", "remove"}
      PROVE  P
  BY <1>1, <1>5, Effect
<1>6. ASSUME NEW m \in late, Apply(m), UNCHANGED intended, m.op = "set"
      PROVE  P
  <2>1. m.on \in Settings /\ m.value \in Domain[m.on]
    BY <1>6 DEF LateInv
  <2>2. desk' = [desk EXCEPT ![m.on] = m.value]
    BY <1>6, Effect
  <2>3. Changed(desk, m.on, m.value, desk')
    BY <2>1, <2>2, DeskSet DEF DeskInv
  <2>4. QED
    BY <1>6, <2>3 DEF Changed
<1>7. ASSUME Apply(RequestOf(step)), UNCHANGED intended
      PROVE  P
  <2>1. CASE RequestOf(step).op = "set"
    <3>1. PICK x \in Settings : step = <<"set", x>>
      BY <2>1, RequestHeld
    <3>2. desk' = [desk EXCEPT ![x] = HeldValue(x)]
      BY <1>7, <2>1, <3>1, Effect, RequestHeld
    <3>3. HeldFor(x) /\ HeldValue(x) \in Domain[x]
      BY <3>1 DEF HeldFor, ReadInv
    <3>4. Changed(desk, x, HeldValue(x), desk')
      BY <3>2, <3>3, DeskSet DEF DeskInv
    <3>5. QED
      BY <1>7, <3>3, <3>4 DEF Changed
  <2>2. CASE RequestOf(step).op \in {"add", "remove"}
    BY <1>2, <1>3, <1>7, <2>2, Effect
  <2>3. CASE RequestOf(step).op \notin {"set", "add", "remove"}
    BY <1>1, <1>7, <2>3, Effect
  <2>4. QED
    BY <2>1, <2>2, <2>3
<1>8. CASE UnrestorablePolicy
  BY <1>1, <1>8, SkippedIs DEF deskVars
<1>9. CASE Answered \/ AnsweredWithoutId
  BY <1>7, <1>9, AnsweredIs, NamelessIs
<1>10. CASE Raised
  BY <1>1, <1>7, <1>10, RaisedIs DEF deskVars
<1>11. CASE LateArrives
  <2>1. PICK m \in late : /\ IF Takes(m) THEN Apply(m) ELSE UNCHANGED deskVars
                          /\ UNCHANGED intended
    BY <1>11 DEF LateArrives
  <2>2. CASE UNCHANGED deskVars
    BY <1>1, <2>1, <2>2 DEF deskVars
  <2>3. CASE Apply(m)
    BY <1>4, <1>5, <1>6, <2>1, <2>3
  <2>4. QED
    BY <2>1, <2>2, <2>3
<1>12. CASE OtherSets
  <2>1. PICK x \in Settings : \E v \in Domain[x] :
          SetTo(x, v) /\ intended' = [intended EXCEPT ![x] = v]
    BY <1>12 DEF OtherSets
  <2>2. PICK v \in Domain[x] :
          desk' = [desk EXCEPT ![x] = v] /\ intended' = [intended EXCEPT ![x] = v]
    BY <2>1 DEF SetTo
  <2>3. Changed(desk, x, v, desk') /\ Changed(intended, x, v, intended')
    BY <2>2, DeskSet DEF DeskInv
  <2>4. QED
    BY <2>3 DEF Changed
<1>13. QED
  BY <1>8, <1>9, <1>10, <1>11, <1>12, PassMoves

-----------------------------------------------------------------------------
(* The invariant holds, part by part.                                      *)

(* The flags, the two members and the other operator's count.              *)
LEMMA FlagsKept ==
  ASSUME OperatorInv, Next
  PROVE  FlagsInv'
<1>1. failed' \in BOOLEAN /\ fatal' \in BOOLEAN
  <2>0. failed \in BOOLEAN /\ fatal \in BOOLEAN
    BY Zenon DEF OperatorInv, FlagsInv
  <2>1. CASE (UNCHANGED failed \/ failed' = TRUE) /\ (UNCHANGED fatal \/ fatal' = TRUE)
    BY <2>0, <2>1, Zenon
  <2>2. CASE Denied \/ Refused \/ AppliedUnheard \/ Outlived
    BY <2>2, Zenon DEF Denied, Refused, AppliedUnheard, Outlived, Raise, Unguarded
  <2>3. CASE Uncaught
    BY <2>1, <2>3, Zenon DEF Uncaught
  <2>4. CASE Answered
    BY <2>1, <2>4, AnsweredIs, Zenon
  <2>5. QED
    BY <2>1, <2>2, <2>3, <2>4, PassMoves, SkippedIs, NamelessIs, Zenon DEF passVars, Raised
<1>0. forgone' \subseteq {"sentinel", "member"}
  BY PassMoves, SkippedIs, AnsweredIs, NamelessIs, RaisedIs
  DEF OperatorInv, FlagsInv, passVars
<1>2. ASSUME UNCHANGED deskVars \/ \E m : Apply(m)
      PROVE  /\ user' \in {"absent", "active", "deleted"}
             /\ member' \in {"absent", "active", "inactive", "deleted"}
  <2>1. CASE UNCHANGED deskVars
    BY <2>1 DEF deskVars, OperatorInv, FlagsInv
  <2>2. CASE \E m : Apply(m)
    <3>1. PICK m : Apply(m)
      BY <2>2
    <3>2. /\ user' \in {"active", "deleted", user}
          /\ member' \in {"active", "deleted", "inactive", member}
      BY <3>1, Effect
    <3>3. QED
      BY <3>2 DEF OperatorInv, FlagsInv
  <2>3. QED
    BY <1>2, <2>1, <2>2
<1>3. CASE OtherSets
  <2>1. UNCHANGED <<user, member>> /\ others' = others + 1 /\ others < MaxOther
    BY <1>3 DEF OtherSets, SetTo
  <2>2. others' <= MaxOther /\ others' \in Nat
    BY <2>1 DEF OperatorInv, FlagsInv
  <2>3. QED
    BY <1>0, <1>1, <2>1, <2>2 DEF OperatorInv, FlagsInv
<1>4. CASE ~OtherSets
  <2>1. others' = others /\ (UNCHANGED deskVars \/ \E m : Apply(m))
    <3>1. CASE LateArrives
      BY <3>1 DEF LateArrives
    <3>2. CASE UnrestorablePolicy
      BY <3>2, SkippedIs
    <3>3. CASE Answered
      BY <3>3, AnsweredIs
    <3>4. CASE Raised
      BY <3>4, RaisedIs
    <3>5. CASE AnsweredWithoutId
      BY <3>5, NamelessIs
    <3>6. QED
      BY <1>4, <3>1, <3>2, <3>3, <3>4, <3>5, PassMoves
  <2>2. QED
    BY <1>0, <1>1, <1>2, <2>1 DEF OperatorInv, FlagsInv
<1>5. QED
  BY <1>3, <1>4

(* What the pass holds is a value of its setting.                          *)
LEMMA ReadKeptInv ==
  ASSUME OperatorInv, Next
  PROVE  ReadInv'
<1> SUFFICES ASSUME NEW s \in Settings, HeldFor(s)'
             PROVE  read'.item = HeldItem(s) /\ HeldValue(s)' \in Domain[s]
  BY DEF ReadInv, HeldItem
<1>1. CASE HeldFor(s) /\ read' = read
  BY <1>1 DEF OperatorInv, ReadInv, HeldValue
<1>2. CASE HeldValue(s)' = desk[s] /\ read'.item = HeldItem(s)
  BY <1>2, DeskGet DEF OperatorInv, DeskInv
<1>3. QED
  BY <1>1, <1>2, HeldMoves DEF OperatorInv

(* So is what a late request carries; and no more of them than MaxLate.    *)
LEMMA LateKept ==
  ASSUME OperatorInv, Next
  PROVE  LateInv'
<1>1. \A m \in late' : m.op = "set" => m.on \in Settings /\ m.value \in Domain[m.on]
  <2> SUFFICES ASSUME NEW m \in late', m.op = "set"
               PROVE  m.on \in Settings /\ m.value \in Domain[m.on]
    OBVIOUS
  <2>1. CASE m \in late
    BY <2>1 DEF OperatorInv, LateInv
  <2>2. CASE m = RequestOf(step)
    BY <2>2, RequestHeld DEF OperatorInv, ReadInv
  <2>3. QED
    BY <2>1, <2>2, LateMoves
<1>2. IsFiniteSet(late') /\ Cardinality(late') <= MaxLate
  <2>1. IsFiniteSet(late) /\ Cardinality(late) \in Nat /\ Cardinality(late) <= MaxLate
    BY FS_CardinalityType DEF OperatorInv, LateInv
  <2>2. CASE UNCHANGED late
    BY <2>1, <2>2
  <2>3. CASE /\ Cardinality(late) < MaxLate
             /\ late' = late \cup {RequestOf(step)}
    BY <2>1, <2>3, FS_AddElement
  <2>4. CASE LateArrives
    <3>1. PICK m \in late : late' = late \ {m}
      BY <2>4 DEF LateArrives
    <3>2. QED
      BY <2>1, <3>1, FS_RemoveElement
  <2>5. QED
    BY <2>2, <2>3, <2>4, PassMoves, SkippedIs, AnsweredIs, NamelessIs, RaisedIs DEF OtherSets
<1>3. QED
  BY <1>1, <1>2 DEF LateInv

(* An unraced setting keeps one value wherever it is held.                 *)
LEMMA RaceKept ==
  ASSUME OperatorInv, Next
  PROVE  RaceInv'
<1> SUFFICES
      ASSUME NEW s \in Settings, s \notin raced'
      PROVE  /\ WithoutSentinel(s, desk'[s]) = WithoutSentinel(s, intended'[s])
             /\ HeldFor(s)' => WithoutSentinel(s, HeldValue(s)')
                                 = WithoutSentinel(s, intended'[s])
             /\ \A m \in late' : m.op = "set" /\ m.on = s =>
                  WithoutSentinel(s, m.value) = WithoutSentinel(s, intended'[s])
  BY DEF RaceInv, WithoutSentinel
<1>1. s \notin raced /\ (intended'[s] = intended[s] \/ ~Exposed(s))
  BY IntendedMoves DEF OperatorInv
<1>2. /\ WithoutSentinel(s, desk[s]) = WithoutSentinel(s, intended[s])
      /\ HeldFor(s) =>
           WithoutSentinel(s, HeldValue(s)) = WithoutSentinel(s, intended[s])
      /\ \A m \in late : m.op = "set" /\ m.on = s =>
           WithoutSentinel(s, m.value) = WithoutSentinel(s, intended[s])
  BY <1>1 DEF OperatorInv, RaceInv
<1>3. /\ HeldFor(s) => Exposed(s)
      /\ \A m \in late : m.op = "set" /\ m.on = s => Exposed(s)
  BY DEF HeldFor, Exposed
<1>4. WithoutSentinel(s, desk'[s]) = WithoutSentinel(s, intended'[s])
  BY <1>2, DeskMoves DEF OperatorInv
<1>5. ASSUME HeldFor(s)'
      PROVE  WithoutSentinel(s, HeldValue(s)') = WithoutSentinel(s, intended'[s])
  <2>1. CASE HeldFor(s) /\ read' = read
    BY <1>1, <1>2, <1>3, <2>1 DEF HeldValue
  <2>2. CASE HeldValue(s)' = desk[s] /\ UNCHANGED intended
    BY <1>2, <2>2
  <2>3. QED
    BY <1>5, <2>1, <2>2, HeldMoves DEF OperatorInv
<1>6. ASSUME NEW m \in late', m.op = "set", m.on = s
      PROVE  WithoutSentinel(s, m.value) = WithoutSentinel(s, intended'[s])
  <2>1. CASE m \in late
    BY <1>1, <1>2, <1>3, <1>6, <2>1
  <2>2. CASE m = RequestOf(step) /\ UNCHANGED intended
    BY <1>2, <1>6, <2>2, RequestHeld DEF OperatorInv
  <2>3. QED
    BY <2>1, <2>2, LateMoves
<1>7. QED
  BY <1>4, <1>5, <1>6

(* A step that leaves nothing reported is an answer, a permission lacking, *)
(* a skipped policy, or not the pass's.                                    *)
LEMMA CleanMoves ==
  ASSUME OperatorInv, Next, ~failed', ~fatal'
  PROVE  /\ ~failed /\ ~fatal /\ late = {} /\ late' = {}
         /\ \/ UnrestorablePolicy \/ Answered \/ AnsweredWithoutId \/ OtherSets
            \/ /\ Skipped(step) /\ Forgoes(TRUE)
               /\ step' = OnFailure(step) /\ read' = ReadKept
               /\ UNCHANGED <<deskVars, intended, raced>>
<1> DEFINE Same == failed' = failed /\ fatal' = fatal
<1>0. ASSUME Same
      PROVE  ~failed /\ ~fatal /\ late = {}
  <2>1. ~failed /\ ~fatal
    BY <1>0, Zenon
  <2>2. QED
    BY <2>1, Zenon DEF OperatorInv, CleanInv
<1>1. CASE UnrestorablePolicy \/ Answered \/ AnsweredWithoutId
  <2>1. Same /\ late' = late
    BY <1>1, SkippedIs, AnsweredIs, NamelessIs
  <2>2. QED
    BY <1>0, <1>1, <2>1, Zenon
<1>2. CASE OtherSets
  <2>1. Same /\ late' = late
    BY <1>2 DEF OtherSets, passVars
  <2>2. QED
    BY <1>0, <1>2, <2>1, Zenon
<1>3. CASE LateArrives
  <2>1. Same /\ late # {}
    BY <1>3 DEF LateArrives, passVars
  <2>2. QED
    BY <1>0, <2>1, Zenon
<1>4. ASSUME NEW denied, Raise(denied)
      PROVE  ~failed /\ ~fatal /\ denied /\ Skipped(step)
  BY <1>4, Zenon DEF Raise, Runs
<1>5. CASE Raised
  <2>1. ~failed /\ ~fatal /\ Skipped(step) /\ Denied
    BY <1>4, <1>5, Zenon DEF Raised, Denied, Refused, Uncaught, AppliedUnheard, Outlived
  <2>2. late = {} /\ late' = {}
    BY <2>1, Zenon DEF OperatorInv, CleanInv, Denied
  <2>3. QED
    BY <2>1, <2>2 DEF Denied, Raise, Go
<1>6. QED
  BY <1>1, <1>2, <1>3, <1>5, PassMoves

(* While nothing is reported, the step tells what is left.                 *)
LEMMA CleanKept ==
  ASSUME OperatorInv, Next
  PROVE  CleanInv'
<1> SUFFICES ASSUME ~failed', ~fatal'
    PROVE /\ late' = {}
          /\ CalendarHeld' /\ SentinelTold' /\ UserTold' /\ MemberTold'
  BY Zenon DEF CleanInv
<1> USE DEF Over
<1>1. step \in Steps /\ CalendarHeld /\ SentinelTold /\ UserTold /\ MemberTold
  BY CleanMoves, Zenon DEF OperatorInv, CleanInv
<1> USE DEF MemberSteps
<1>2. late' = {}
  BY CleanMoves
<1>3. CASE OtherSets
  <2>1. UNCHANGED <<step, read, user, member, forgone>>
    BY <1>3 DEF OtherSets, SetTo, passVars
  <2>2. PICK x \in Settings : \E v \in Domain[x] :
          /\ SetTo(x, v) /\ intended' = [intended EXCEPT ![x] = v]
          /\ raced' = IF Exposed(x) THEN raced \cup {x} ELSE raced
    BY <1>3 DEF OtherSets
  <2>3. PICK v \in Domain[x] :
          desk' = [desk EXCEPT ![x] = v] /\ intended' = [intended EXCEPT ![x] = v]
    BY <2>2 DEF SetTo
  <2>4. Changed(desk, x, v, desk') /\ Changed(intended, x, v, intended')
    BY <2>3, DeskSet DEF OperatorInv, DeskInv
  <2>5. CASE x = "eurHolidays"
    <3>1. desk'.eurHolidays = intended'.eurHolidays
      BY <2>4, <2>5 DEF Changed
    <3>2. step = <<"set", "eurHolidays">> => "eurHolidays" \in raced'
      BY <2>2, <2>5 DEF Exposed
    <3>3. QED
      BY <1>1, <1>2, <2>1, <3>1, <3>2
      DEF Own, CalendarHeld, SentinelTold, UserTold, MemberTold
  <2>6. CASE x # "eurHolidays"
    <3>1. desk'["eurHolidays"] = desk["eurHolidays"]
          /\ intended'["eurHolidays"] = intended["eurHolidays"]
      BY <2>4, <2>6, SettingsAre DEF Changed
    <3>2. raced \subseteq raced'
      BY <2>2
    <3>3. QED
      BY <1>1, <1>2, <2>1, <3>1, <3>2
      DEF Own, CalendarHeld, SentinelTold, UserTold, MemberTold
  <2>7. QED
    BY <2>5, <2>6
<1>4. CASE UnrestorablePolicy
  <2>1. /\ AfterSet["policy"] \in Gets
        /\ UNCHANGED <<desk, user, member, intended, raced, forgone>>
    BY <1>4, AfterSetIs, SettingsAre, SkippedIs DEF deskVars
  <2>2. step = <<"set", "policy">> /\ step' \in Gets
    BY <1>4, <2>1, SkippedIs
  <2>3. QED
    BY <1>1, <1>2, <2>1, <2>2
    DEF Gets, Own, CalendarHeld, SentinelTold, UserTold, MemberTold
<1>5. ASSUME Skipped(step), Forgoes(TRUE), step' = OnFailure(step), read' = ReadKept,
             UNCHANGED <<deskVars, intended, raced>>
      PROVE  CalendarHeld' /\ SentinelTold' /\ UserTold' /\ MemberTold'
  <2>1. /\ step \notin { <<"use", "user">>, <<"delete", "user">>, <<"read", "cash">>,
                         <<"patch", "inactive">>, <<"delete", "member">>,
                         <<"end", "pass">> }
    BY <1>5 DEF Skipped
  <2>2. /\ forgone \subseteq forgone'
        /\ step = <<"remove", "sentinel">> => "sentinel" \in forgone'
    BY <1>5 DEF Forgoes
  <2>3. step' # <<"set", "eurHolidays">>
    <3>1. CASE step \in Calls
      <4>1. step' \in Calls \cup {<<"end", "pass">>}
        BY <1>5, <3>1, CallsLead
      <4>2. <<"set", "eurHolidays">> \notin Calls \cup {<<"end", "pass">>}
        BY DEF Calls
      <4>3. QED
        BY <4>1, <4>2
    <3>2. CASE step \in Gets \cup Sets
      BY <1>5, <3>2, SettingsLead DEF Gets, Calls
    <3>3. QED
      BY <1>1, <2>1, <3>1, <3>2, StepsAre
  <2>4. user' # "active"
    BY <1>1, <1>5, <2>1 DEF deskVars, UserTold
  <2>5. SentinelTold'
    BY <1>1, <1>5, <2>2 DEF deskVars, SentinelTold, Own
  <2>6. MemberTold'
    <3>1. CASE step = <<"patch", "allocation">>
      <4>1. OnFailure(step) = <<"patch", "inactive">>
        BY <3>1, FailureOf, SuccessOf DEF Calls
      <4>2. QED
        BY <1>5, <4>1 DEF MemberTold
    <3>2. CASE step # <<"patch", "allocation">>
      BY <1>1, <1>5, <2>1, <2>2, <3>2 DEF deskVars, MemberTold
    <3>3. QED
      BY <3>1, <3>2
  <2>7. QED
    BY <2>3, <2>4, <2>5, <2>6 DEF CalendarHeld, UserTold
<1>6. CASE Answered
  <2>1. /\ step # <<"end", "pass">> /\ step' = OnSuccess(step)
        /\ read' = IF step[1] = "get" THEN Seen(step) ELSE ReadKept
        /\ UNCHANGED <<intended, raced, forgone>>
        /\ Takes(RequestOf(step)) /\ Apply(RequestOf(step))
    BY <1>6, AnsweredIs
  <2>2. RequestOf(step).op = step[1] /\ RequestOf(step).on = step[2]
    BY DEF RequestOf
  <2>3. UserTold'
    <3> SUFFICES ASSUME user' = "active"
                 PROVE  step' \in {<<"use", "user">>, <<"delete", "user">>}
      BY DEF UserTold
    <3>1. CASE step = <<"create", "user">>
      BY <2>1, <3>1, SuccessOf
    <3>2. CASE step = <<"use", "user">>
      BY <2>1, <3>2, SuccessOf
    <3>3. CASE step = <<"delete", "user">>
      <4>1. user' = "deleted"
        BY <2>1, <2>2, <3>3, Effect
      <4>2. QED
        BY <4>1
    <3>4. CASE step \notin {<<"create", "user">>, <<"use", "user">>, <<"delete", "user">>}
      <4>1. ~(step[1] = "create" /\ step[2] = "user")
        BY <1>1, <3>4, StepsAre DEF Gets, Sets, Calls
      <4>2. user' = "active" => user = "active"
        BY <2>1, <2>2, <4>1, Effect
      <4>3. QED
        BY <1>1, <3>4, <4>2 DEF UserTold
    <3>5. QED
      BY <3>1, <3>2, <3>3, <3>4
  <2>4. MemberTold'
    <3> SUFFICES ASSUME member' \in {"active", "inactive"}
                 PROVE  step' \in MemberSteps \/ "member" \in forgone
      BY <2>1 DEF MemberTold
    <3>1. CASE step \in { <<"create", "member">>, <<"read", "cash">>,
                          <<"patch", "allocation">>, <<"patch", "inactive">> }
      BY <2>1, <3>1, SuccessOf
    <3>2. CASE step = <<"delete", "member">>
      <4>1. member' = "deleted"
        BY <2>1, <2>2, <3>2, Effect
      <4>2. QED
        BY <4>1
    <3>3. CASE step \notin { <<"create", "member">>, <<"read", "cash">>,
                             <<"patch", "allocation">>, <<"patch", "inactive">>,
                             <<"delete", "member">> }
      <4>1. /\ ~(step[1] = "create" /\ step[2] = "member")
            /\ ~(step[1] = "patch" /\ step[2] = "inactive")
        BY <1>1, <3>3, StepsAre DEF Gets, Sets, Calls
      <4>2. member' = member \/ member' = "deleted"
        BY <2>1, <2>2, <4>1, Effect
      <4>3. QED
        BY <1>1, <3>3, <4>2 DEF MemberTold
    <3>4. QED
      BY <3>1, <3>2, <3>3
  <2>5. CalendarHeld'
    <3> SUFFICES ASSUME step' = <<"set", "eurHolidays">>
                 PROVE  read'.value = desk'.eurHolidays
      BY DEF CalendarHeld
    <3>1. step \in Gets
      <4>1. step' \in Sets
        BY SettingsAre DEF Sets
      <4>2. step' \notin Calls \cup Gets \cup {<<"end", "pass">>, <<"set", "gbpHolidays">>}
        BY DEF Calls, Gets
      <4>3. QED
        BY <1>1, <2>1, <4>2, StepsAre, CallsLead, SettingsLead
    <3>2. PICK x \in Settings : step = <<"get", x>>
      BY <3>1 DEF Gets
    <3>3. step' = <<"set", x>>
      BY <2>1, <3>2, SuccessOf
    <3>4. step = <<"get", "eurHolidays">>
      BY <3>2, <3>3
    <3>5. desk' = desk /\ read'.value = desk.eurHolidays
      BY <2>1, <2>2, <3>4, Effect DEF Seen
    <3>6. QED
      BY <3>5
  <2>6. SentinelTold'
    <3> SUFFICES ASSUME Own', "eurHolidays" \notin raced
                 PROVE  step' = <<"remove", "sentinel">> \/ "sentinel" \in forgone
      BY <2>1 DEF SentinelTold
    <3> USE DEF Own
    <3>1. desk \in Desks
      BY DEF OperatorInv, DeskInv
    <3>2. CASE step = <<"add", "sentinel">>
      BY <2>1, <3>2, SuccessOf
    <3>3. CASE step = <<"remove", "sentinel">>
      <4>1. desk' = [desk EXCEPT !["eurHolidays"] = desk.eurHolidays \ {Sentinel}]
        BY <2>1, <2>2, <3>3, Effect
      <4>2. desk'.eurHolidays = desk.eurHolidays \ {Sentinel}
        BY <3>1, <4>1 DEF Desks
      <4>3. QED
        BY <4>2
    <3>4. CASE step \notin {<<"add", "sentinel">>, <<"remove", "sentinel">>}
      <4>1. step[1] \notin {"add", "remove"}
        BY <1>1, <3>4, StepsAre DEF Gets, Sets, Calls
      <4>2. desk'.eurHolidays = desk.eurHolidays
        <5>1. CASE step[1] = "set"
          <6>1. PICK x \in Settings : step = <<"set", x>>
            BY <5>1, RequestHeld, <2>2 DEF OperatorInv
          <6>2. /\ RequestOf(step).op = "set" /\ RequestOf(step).on = x
                /\ RequestOf(step).value = HeldValue(x)
            BY <6>1, RequestHeld DEF OperatorInv
          <6>3. desk' = [desk EXCEPT ![x] = HeldValue(x)]
            BY <2>1, <6>2, Effect
          <6>4. CASE x = "eurHolidays"
            <7>1. HeldValue(x) = desk.eurHolidays
              BY <1>1, <6>1, <6>4 DEF HeldValue, CalendarHeld
            <7>2. QED
              BY <3>1, <6>3, <6>4, <7>1 DEF Desks
          <6>5. CASE x # "eurHolidays"
            BY <3>1, <6>3, <6>5 DEF Desks
          <6>6. QED
            BY <6>4, <6>5
        <5>2. CASE step[1] # "set"
          BY <2>1, <2>2, <4>1, <5>2, Effect
        <5>3. QED
          BY <5>1, <5>2
      <4>3. QED
        BY <1>1, <2>1, <3>4, <4>2 DEF SentinelTold
    <3>5. QED
      BY <3>2, <3>3, <3>4
  <2>7. QED
    BY <1>2, <2>3, <2>4, <2>5, <2>6
<1>7. CASE AnsweredWithoutId
  <2>1. /\ step = <<"create", "member">> /\ step' = <<"end", "pass">>
        /\ forgone' = forgone \cup {"member"} /\ UNCHANGED <<intended, raced>>
        /\ Apply(RequestOf(step)) /\ RequestOf(step) = [op |-> "create", on |-> "member"]
    BY <1>7, NamelessIs DEF RequestOf
  <2>2. desk' = desk /\ user' = user
    BY <2>1, Effect
  <2>3. QED
    BY <1>1, <1>2, <2>1, <2>2 DEF Own, CalendarHeld, SentinelTold, UserTold, MemberTold
<1>8. QED
  BY <1>2, <1>3, <1>4, <1>5, <1>6, <1>7, CleanMoves

-----------------------------------------------------------------------------
(* The theorems.                                                           *)

(* The invariant holds to begin with.                                      *)
LEMMA OperatorInit == Init => OperatorInv
<1> SUFFICES ASSUME Init  PROVE OperatorInv
  OBVIOUS
<1>1. step = <<"get", "policy">> /\ step \in Steps
  BY SettingsAre, StepsAre DEF Init, Gets
<1>2. FlagsInv
  <2>1. failed \in BOOLEAN /\ fatal \in BOOLEAN
    BY Zenon DEF Init
  <2>2. QED
    BY <2>1 DEF Init, FlagsInv
<1>3. DeskInv
  BY DEF Init, DeskInv
<1>4. \A s \in Settings : ~HeldFor(s)
  BY <1>1 DEF HeldFor
<1>5. ReadInv
  BY <1>4 DEF ReadInv
<1>6. LateInv
  BY FS_EmptySet DEF Init, LateInv
<1>7. RaceInv
  BY <1>4 DEF Init, RaceInv
<1>8. CleanInv
  BY <1>1 DEF Init, CleanInv, Own, CalendarHeld, SentinelTold, UserTold, MemberTold
<1>9. QED
  BY <1>1, <1>2, <1>3, <1>5, <1>6, <1>7, <1>8 DEF OperatorInv

(* Every step keeps it.                                                    *)
LEMMA OperatorStep == OperatorInv /\ [Next]_vars => OperatorInv'
<1> SUFFICES ASSUME OperatorInv, [Next]_vars  PROVE OperatorInv'
  OBVIOUS
<1>1. CASE Next
  <2>1. step' \in Steps
    BY <1>1, StepMoves DEF OperatorInv
  <2>2. DeskInv'
    BY <1>1, IntendedMoves, DeskMoves DEF OperatorInv, DeskInv
  <2>3. QED
    BY <1>1, <2>1, <2>2, FlagsKept, ReadKeptInv, LateKept, RaceKept, CleanKept
    DEF OperatorInv
<1>2. CASE UNCHANGED vars
  <2>1. UNCHANGED <<step, read, failed, fatal, forgone, desk, user, member, late,
                    others, intended, raced>>
    BY <1>2 DEF vars, passVars, deskVars
  <2>2. FlagsInv' /\ DeskInv' /\ LateInv'
    BY <2>1, Zenon DEF OperatorInv, FlagsInv, DeskInv, LateInv
  <2>3. ReadInv' /\ RaceInv'
    <3>1. \A s \in Settings : HeldFor(s)' <=> HeldFor(s)
      BY <2>1 DEF HeldFor
    <3>2. \A s \in Settings : HeldValue(s)' = HeldValue(s)
      BY <2>1 DEF HeldValue
    <3>3. ReadInv'
      BY <2>1, <3>1, <3>2 DEF OperatorInv, ReadInv, HeldItem
    <3>4. RaceInv'
      BY <2>1, <3>1, <3>2 DEF OperatorInv, RaceInv, WithoutSentinel
    <3>5. QED
      BY <3>3, <3>4
  <2>4. CleanInv'
    BY <2>1, Zenon DEF OperatorInv, CleanInv, Own, CalendarHeld, SentinelTold, UserTold,
                       MemberTold
  <2>5. QED
    BY <2>1, <2>2, <2>3, <2>4 DEF OperatorInv
<1>3. QED
  BY <1>1, <1>2

(* The inductive invariant of the operator pass: whatever its calls meet   *)
(* and whatever another operator does meanwhile, what it holds, what its   *)
(* late requests carry and what it reported stay accounted for.            *)
THEOREM OperatorInvariant == Spec => []OperatorInv
  BY OperatorInit, OperatorStep, PTL DEF Spec

(* Type correctness of the operator pass (run_sync_operator): a setter is  *)
(* only ever given what its own getter read, and no more requests outlive  *)
(* their calls than the bound allows.                                      *)
THEOREM OperatorTypes == Spec => []OperatorTypeOK
<1>1. OperatorInv => OperatorTypeOK
  <2> SUFFICES ASSUME OperatorInv  PROVE OperatorTypeOK
    OBVIOUS
  <2>1. step[1] = "set" =>
          read.item = (IF step[2] = "gbpHolidays" THEN "eurHolidays" ELSE step[2])
    <3>1. ASSUME step[1] = "set"
          PROVE  step[2] \in Settings /\ step = <<"set", step[2]>>
      BY <3>1, StepsAre DEF OperatorInv, Gets, Sets, Calls
    <3>2. ASSUME step[1] = "set"
          PROVE  read.item = HeldItem(step[2])
      BY <3>1, <3>2 DEF OperatorInv, ReadInv, HeldFor
    <3>3. QED
      BY <3>2 DEF HeldItem
  <2>2. QED
    BY <2>1, Zenon DEF OperatorInv, OperatorTypeOK, FlagsInv, DeskInv, LateInv
<1>2. QED
  BY <1>1, OperatorInvariant, PTL

(* No net change: whatever the pass's calls meet, and however late their   *)
(* requests arrive, a setting differs from what people made it only if     *)
(* somebody changed it while the pass held a value of it.                  *)
THEOREM NoNetChange == Spec => []ChangedOnlyInRace
<1>1. OperatorInv => ChangedOnlyInRace
  BY DEF OperatorInv, RaceInv, ChangedOnlyInRace
<1>2. QED
  BY <1>1, OperatorInvariant, PTL

(* Residue is never hidden: of a sentinel, a user or a member the pass     *)
(* made and left behind a [FAIL], a fatal end or a [SKIP] of its clean-up  *)
(* tells.                                                                  *)
THEOREM ResidueShows == Spec => []ResidueReported
<1>1. OperatorInv => ResidueReported
  <2> SUFFICES ASSUME OperatorInv, Over \/ fatal, ~failed, ~fatal
               PROVE  /\ Own => "sentinel" \in forgone \/ "eurHolidays" \in raced
                      /\ user # "active"
                      /\ member \in {"active", "inactive"} => "member" \in forgone
    BY Zenon DEF ResidueReported, Own
  <2>1. CleanInv /\ Over
    BY Zenon DEF OperatorInv
  <2>2. SentinelTold /\ UserTold /\ MemberTold
    BY <2>1, Zenon DEF CleanInv
  <2>3. QED
    BY <2>1, <2>2 DEF Over, SentinelTold, UserTold, MemberTold, MemberSteps
<1>2. QED
  BY <1>1, OperatorInvariant, PTL
==============================================================================
