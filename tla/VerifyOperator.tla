--------------------------- MODULE VerifyOperator ---------------------------
(***************************************************************************)
(* The operator pass of verify.py and the two throwaway lifecycles behind  *)
(* it: every operator setting is read and written straight back, a         *)
(* sentinel holiday is added and removed, a user and a member are created, *)
(* used and deleted.  Another operator may change the settings meanwhile.  *)
(* The gateway, which holds all of that, is external.                      *)
(*                                                                         *)
(* A call is one step of the pass.  It is answered, or it raises: refused, *)
(* or with its effect applied all the same, now or after the call is over. *)
(***************************************************************************)
EXTENDS Naturals, FiniteSets

CONSTANTS
  Policies,   \* self-trade policies a gateway may report
  SlotModes,  \* slot limit modes
  Caps,       \* cash caps, besides no cap at all
  NoCap,      \* the cap field unset
  Holiday,    \* a bank holiday
  Sentinel,   \* the far-future date that is added and removed again
  MaxLate,    \* bound on the requests that outlive their call
  MaxOther    \* bound on the other operator's changes

ASSUME SentinelAssumption == Sentinel # Holiday
ASSUME CapsAssumption == Caps \subseteq Nat /\ NoCap \notin Caps
ASSUME BoundsAssumption == MaxLate \in Nat /\ MaxOther \in Nat

VARIABLES
  step,      \* the step to run next: an operation and what it is on
  read,      \* what the last getter returned
  failed,    \* whether any step was reported [FAIL]
  fatal,     \* whether the run died on an exception no step caught
  forgone,   \* what it made and then reported the clean-up of as a [SKIP]
  desk,      \* gateway: the settings
  user,      \* gateway: the throwaway user
  member,    \* gateway: the throwaway member
  late,      \* requests whose call is over and that still reach the gateway
  others,    \* how often the other operator changed a setting
  intended,  \* history: each setting as people, not the pass, last left it
  raced      \* history: settings changed between their reading and writing

passVars == <<step, read, failed, fatal, forgone>>
deskVars == <<desk, user, member>>
vars == <<passVars, deskVars, late, others, intended, raced>>

Domain ==
  [ policy        |-> Policies,
    contractLimit |-> {0, 1},
    slotLimit     |-> SlotModes,
    cashCap       |-> Caps \cup {NoCap},
    trading       |-> BOOLEAN,
    eurHolidays   |-> SUBSET {Holiday, Sentinel},
    gbpHolidays   |-> SUBSET {Holiday} ]
Settings == DOMAIN Domain
Desks ==
  [ policy : Policies, contractLimit : {0, 1}, slotLimit : SlotModes,
    cashCap : Caps \cup {NoCap}, trading : BOOLEAN,
    eurHolidays : SUBSET {Holiday, Sentinel}, gbpHolidays : SUBSET {Holiday} ]

Nothing == [item |-> "nothing"]

Init ==
  /\ step = <<"get", "policy">> /\ read = Nothing
  /\ failed = FALSE /\ fatal = FALSE /\ forgone = {}
  /\ desk \in Desks
  /\ user = "absent" /\ member = "absent"
  /\ late = {} /\ others = 0
  /\ intended = desk /\ raced = {}

-----------------------------------------------------------------------------
(* The script: which step follows an answered call and a failed one.       *)

AfterSet ==
  [ policy        |-> <<"get", "contractLimit">>,
    contractLimit |-> <<"get", "slotLimit">>,
    slotLimit     |-> <<"get", "cashCap">>,
    cashCap       |-> <<"get", "trading">>,
    trading       |-> <<"get", "eurHolidays">>,
    eurHolidays   |-> <<"set", "gbpHolidays">>,
    gbpHolidays   |-> <<"add", "sentinel">> ]

AfterCall ==
  [ add    |-> [sentinel |-> <<"remove", "sentinel">>],
    remove |-> [sentinel |-> <<"create", "user">>],
    create |-> [user |-> <<"use", "user">>, member |-> <<"read", "cash">>],
    use    |-> [user |-> <<"delete", "user">>],
    delete |-> [user |-> <<"create", "member">>, member |-> <<"end", "pass">>],
    read   |-> [cash |-> <<"patch", "allocation">>],
    patch  |-> [allocation |-> <<"patch", "inactive">>,
                inactive   |-> <<"delete", "member">>] ]

OnSuccess(s) ==
  IF s[1] = "get" THEN <<"set", s[2]>>
  ELSE IF s[1] = "set" THEN AfterSet[s[2]]
  ELSE AfterCall[s[1]][s[2]]

(* A getter that failed skips its setter, the holidays the sentinel too;   *)
(* what was not created is neither used nor deleted.                       *)
OnFailure(s) ==
  IF s = <<"get", "eurHolidays">> \/ s = <<"add", "sentinel">>
    THEN <<"create", "user">>
  ELSE IF s[1] = "get" THEN AfterSet[s[2]]
  ELSE IF s = <<"create", "user">> THEN <<"create", "member">>
  ELSE IF s = <<"create", "member">> THEN <<"end", "pass">>
  ELSE OnSuccess(s)

Steps == {<<"end", "pass">>} \cup {<<"get", x>> : x \in Settings \ {"gbpHolidays"}}
           \cup {<<"set", x>> : x \in Settings}
           \cup UNION {{<<op, x>> : x \in DOMAIN AfterCall[op]}
                         : op \in DOMAIN AfterCall}
Over == step = <<"end", "pass">>

(* gated: the steps whose PERMISSION_DENIED is a [SKIP].                   *)
Skipped(s) ==
  \/ s[1] \in {"set", "add", "remove", "create"}
  \/ s \in {<<"get", "slotLimit">>, <<"patch", "allocation">>}

(* The one call no step wraps: its exception ends the whole run.           *)
Unguarded(s) == s = <<"read", "cash">>

(* What a getter returns and a setter is given.                            *)
Seen(s) ==
  IF s[2] = "eurHolidays"
    THEN [item |-> s[2], value |-> desk.eurHolidays, gbp |-> desk.gbpHolidays]
    ELSE [item |-> s[2], value |-> desk[s[2]]]

(* Mutant: a cap of zero is taken for no cap.                              *)
WriteBackTruthy(s) ==
  IF s[2] = "gbpHolidays" THEN read.gbp
  ELSE IF s[2] = "cashCap" /\ read.value = 0 THEN NoCap
  ELSE read.value

(* The cap is written back unset when the field was unset.                 *)
WriteBack(s) == IF s[2] = "gbpHolidays" THEN read.gbp ELSE read.value

RequestOf(s) ==
  IF s[1] = "set" THEN [op |-> "set", on |-> s[2], value |-> WriteBack(s)]
                  ELSE [op |-> s[1], on |-> s[2]]

-----------------------------------------------------------------------------
(* The gateway (external): what a request does to it, if it is taken.      *)

Takes(m) ==
  CASE m.op = "add"    -> Sentinel \notin desk.eurHolidays
    [] m.op = "remove" -> Sentinel \in desk.eurHolidays
    [] OTHER           -> TRUE

SetTo(setting, value) ==
  /\ desk' = [desk EXCEPT ![setting] = value]
  /\ UNCHANGED <<user, member>>

Apply(m) ==
  CASE m.op = "set"    -> SetTo(m.on, m.value)
    [] m.op = "add"    -> SetTo("eurHolidays", desk.eurHolidays \cup {Sentinel})
    [] m.op = "remove" -> SetTo("eurHolidays", desk.eurHolidays \ {Sentinel})
    [] m.op \in {"create", "delete"} ->
         LET now == IF m.op = "create" THEN "active" ELSE "deleted" IN
         /\ user' = IF m.on = "user" THEN now ELSE user
         /\ member' = IF m.on = "member" THEN now ELSE member
         /\ UNCHANGED desk
    [] m.op = "patch" /\ m.on = "inactive" ->
         member' = "inactive" /\ UNCHANGED <<desk, user>>
    [] OTHER -> UNCHANGED deskVars

-----------------------------------------------------------------------------
(* The pass.                                                               *)

Go(s) == step' = s /\ UNCHANGED <<others, intended, raced>>

(* A value read is kept until it was written back.                         *)
ReadKept == IF step = <<"set", "eurHolidays">> THEN read ELSE Nothing

(* A policy whose name the setter does not know is skipped.                *)
UnrestorablePolicy ==
  /\ step = <<"set", "policy">> /\ read.value \notin {"observe", "reject"}
  /\ Go(AfterSet["policy"]) /\ read' = ReadKept
  /\ UNCHANGED <<failed, fatal, forgone, deskVars, late>>

Runs ==
  /\ ~Over /\ ~fatal
  /\ ~(step = <<"set", "policy">> /\ read.value \notin {"observe", "reject"})

(* The steps that look at what they are told: the sentinel must be in the  *)
(* calendar that comes back, and a too large allocation refused.           *)
Judged(s) == s \in {<<"add", "sentinel">>, <<"patch", "allocation">>}

(* The call is answered.                                                   *)
Answered ==
  /\ Runs /\ Takes(RequestOf(step)) /\ Apply(RequestOf(step))
  /\ read' = IF step[1] = "get" THEN Seen(step) ELSE ReadKept
  /\ UNCHANGED failed \/ (Judged(step) /\ failed' = TRUE)
  /\ Go(OnSuccess(step)) /\ UNCHANGED <<fatal, forgone, late>>

(* A member is created and the answer names no id: it can be neither       *)
(* patched nor deleted, which is a [SKIP], and the pass ends.              *)
AnsweredWithoutId ==
  /\ Runs /\ step = <<"create", "member">> /\ Apply(RequestOf(step))
  /\ Go(<<"end", "pass">>) /\ read' = ReadKept
  /\ forgone' = forgone \cup {"member"} /\ UNCHANGED <<failed, fatal, late>>

(* A sentinel that was added and whose removal is skipped stays.           *)
Forgoes(skips) ==
  forgone' = forgone \cup
    {x \in {"sentinel"} : skips /\ step = <<"remove", "sentinel">>}

(* Mutant: any failure of a gated call is a [SKIP].                        *)
RaiseSwallowed(denied) ==
  /\ Runs
  /\ failed' = (failed \/ (~Skipped(step) /\ ~Unguarded(step))) /\ Forgoes(TRUE)
  /\ fatal' = Unguarded(step)
  /\ Go(OnFailure(step)) /\ read' = ReadKept

(* It raises, and the step is a [FAIL], or a [SKIP] for a gated one whose  *)
(* permission the key lacks.                                               *)
Raise(denied) ==
  /\ Runs
  /\ failed' = (failed \/ (~(denied /\ Skipped(step)) /\ ~Unguarded(step)))
  /\ Forgoes(denied)
  /\ fatal' = Unguarded(step)
  /\ Go(OnFailure(step)) /\ read' = ReadKept

(* The try around the allocation names VoltnirError alone.                 *)
Uncaught ==
  /\ Runs /\ step = <<"patch", "allocation">> /\ fatal' = TRUE
  /\ Go(OnFailure(step)) /\ read' = ReadKept
  /\ UNCHANGED <<failed, forgone, deskVars, late>>

(* A permission can be missing, or withdrawn between two steps.            *)
Denied == Raise(TRUE) /\ UNCHANGED <<deskVars, late>>
Refused == Raise(FALSE) /\ UNCHANGED <<deskVars, late>>

(* The answer is lost, or the deadline strikes first.                      *)
AppliedUnheard ==
  /\ Raise(FALSE) /\ Takes(RequestOf(step)) /\ Apply(RequestOf(step))
  /\ UNCHANGED late
Outlived ==
  /\ Raise(FALSE) /\ Cardinality(late) < MaxLate
  /\ late' = late \cup {RequestOf(step)} /\ UNCHANGED deskVars

(* External: a request reaches the gateway after its call was over.        *)
LateArrives ==
  \E m \in late :
    /\ late' = late \ {m}
    /\ IF Takes(m) THEN Apply(m) ELSE UNCHANGED deskVars
    /\ UNCHANGED <<passVars, others, intended, raced>>

-----------------------------------------------------------------------------
(* The other operator (external).                                          *)

(* A setting is exposed from its reading to the end of its writing back.   *)
Exposed(s) ==
  \/ step = <<"set", s>>
  \/ s = "gbpHolidays" /\ step = <<"set", "eurHolidays">>
  \/ \E m \in late : m.op = "set" /\ m.on = s

OtherSets ==
  \E s \in Settings : \E v \in Domain[s] :
    /\ others < MaxOther /\ v # desk[s]
    /\ SetTo(s, v) /\ others' = others + 1
    /\ intended' = [intended EXCEPT ![s] = v]
    /\ raced' = IF Exposed(s) THEN raced \cup {s} ELSE raced
    /\ UNCHANGED <<passVars, late>>

Next ==
  \/ UnrestorablePolicy \/ Answered \/ AnsweredWithoutId
  \/ Denied \/ Refused \/ Uncaught \/ AppliedUnheard \/ Outlived \/ LateArrives \/ OtherSets

Spec == Init /\ [][Next]_vars

-----------------------------------------------------------------------------
(* Properties.                                                             *)

(* The type invariant.  A setter runs only with what its own getter read.  *)
OperatorTypeOK ==
  /\ step \in Steps
  /\ failed \in BOOLEAN /\ fatal \in BOOLEAN /\ forgone \subseteq {"sentinel", "member"}
  /\ desk \in Desks /\ intended \in Desks
  /\ user \in {"absent", "active", "deleted"}
  /\ member \in {"absent", "active", "inactive", "deleted"}
  /\ Cardinality(late) <= MaxLate /\ others <= MaxOther
  /\ raced \subseteq Settings
  /\ step[1] = "set" =>
       read.item = (IF step[2] = "gbpHolidays" THEN "eurHolidays" ELSE step[2])

(* No net change (run_sync_operator): whatever the pass's calls meet, a    *)
(* setting differs from what people made it only if somebody changed it    *)
(* while the pass held the value it was about to write back.               *)
WithoutSentinel(s, v) == IF s = "eurHolidays" THEN v \ {Sentinel} ELSE v
ChangedOnlyInRace ==
  \A s \in Settings \ raced :
    WithoutSentinel(s, desk[s]) = WithoutSentinel(s, intended[s])

(* Residue is never hidden: of a run that is over without a [FAIL] and was *)
(* not fatal, a sentinel or a member of its own remains only if a [SKIP]   *)
(* said that it was not cleaned up, and a user never.                      *)
ResidueReported ==
  (Over \/ fatal) /\ late = {} /\ ~failed /\ ~fatal =>
    /\ Sentinel \in desk.eurHolidays \ intended.eurHolidays =>
         "sentinel" \in forgone \/ "eurHolidays" \in raced
    /\ user # "active"
    /\ member \in {"active", "inactive"} => "member" \in forgone
=============================================================================
