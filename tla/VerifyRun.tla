------------------------------ MODULE VerifyRun ------------------------------
(***************************************************************************)
(* A whole run of verify.py: main, the harness its steps go through, the   *)
(* read-only pass, the write passes of --mutate with the mutate pass of    *)
(* VerifyMutate among them, the asynchronous smoke pass, the restart, and  *)
(* the exit code.  Of the other passes only what their steps come to is    *)
(* modelled: their effects are in VerifyReconcile and VerifyOperator.      *)
(***************************************************************************)
EXTENDS VerifyMutate, Sequences

CONSTANT MaxSteps  \* bound on the steps of a pass, but of the mutate pass

ASSUME MaxStepsAssumption == MaxSteps \in Nat \ {0}

VARIABLES
  mode,      \* the flags --mutate and --include-restart
  todo,      \* the passes still to run, the first of them under way
  steps,     \* steps the pass under way has run
  result,    \* its Result
  held,      \* Results of write passes, until the last of them is over
  aggregate, \* the Result of the run
  exit,      \* exit code of the process, or "running"
  bad,       \* history: a step failed, in whichever pass
  finished   \* history: passes that ran to their end

runVars == <<mode, todo, steps, result, held, aggregate, exit, bad, finished>>
allVars == <<vars, runVars>>

(* A Result: of its counters, those that are not zero.                     *)
Zero == {}
Plus(a, b) == a \cup b
Count(r, word) == r \cup {word}

WritePasses == <<"mutate", "reconcile", "operator", "users", "members">>
PassesOf(m) ==
  <<"readonly">> \o (IF m.mutate THEN WritePasses ELSE <<>>) \o <<"async">>
    \o (IF m.restart THEN <<"restart">> ELSE <<>>)

Running(p) == exit = "running" /\ todo # <<>> /\ Head(todo) = p

-----------------------------------------------------------------------------
(* The harness.  A step's call is answered, refused for a permission the   *)
(* key lacks, or ends at its deadline, in another VoltnirError or in some  *)
(* other exception.                                                        *)

Outcomes == {"answered", "denied", "deadline", "error", "exception"}
Kinds == {"step", "gated", "query", "subscribe_smoke", "bare"}

(* Mutant: whatever a gated call raises is a [SKIP].                       *)
CountedAsLenient(kind, outcome) ==
  IF outcome = "answered" THEN "passed"
  ELSE IF kind = "gated" THEN "skipped"
  ELSE IF kind = "bare" \/ (outcome = "exception" /\ kind # "step") THEN "escapes"
  ELSE "failed"

(* step fails on any exception; gated, a query of a log and a subscription *)
(* skip a denial; a subscription passes when it is idle to its deadline.   *)
(* The last two, and code outside any step, let an exception through.      *)
CountedAs(kind, outcome) ==
  IF outcome = "answered" THEN "passed"
  ELSE IF kind = "bare" THEN "escapes"
  ELSE IF outcome = "denied" /\ kind # "step" THEN "skipped"
  ELSE IF outcome = "deadline" /\ kind = "subscribe_smoke" THEN "passed"
  ELSE IF outcome = "exception" /\ kind \in {"query", "subscribe_smoke"} THEN "escapes"
  ELSE "failed"

(* What the kind of step takes for its purpose.                            *)
Fine(kind, outcome) ==
  \/ outcome = "answered"
  \/ outcome = "denied" /\ kind \in {"gated", "query", "subscribe_smoke"}
  \/ outcome = "deadline" /\ kind = "subscribe_smoke"

KindsOf(p) ==
  CASE p = "readonly" -> Kinds
    [] p = "async"    -> {"step"}
    [] OTHER          -> Kinds \ {"query", "subscribe_smoke"}

(* An exception on its way out of the passes: nothing that was held is     *)
(* reported.  Unauthenticated comes here too.                              *)
Fatal == exit' = "2" /\ UNCHANGED <<result, aggregate>>

Step(p, kind, outcome) ==
  /\ Running(p) /\ steps < MaxSteps
  /\ steps' = steps + 1
  /\ bad' = (bad \/ ~Fine(kind, outcome))
  /\ LET word == CountedAs(kind, outcome) IN
     IF word = "escapes" THEN Fatal
     ELSE result' = Count(result, word) /\ UNCHANGED <<exit, aggregate>>
  /\ UNCHANGED <<vars, mode, todo, held, finished>>

(* A pass may be cut short: no contract, a create that failed.             *)
Turn == todo' = Tail(todo) /\ steps' = 0 /\ result' = Zero
          /\ finished' = finished \cup {Head(todo)}

ReadOnlyEnds ==
  /\ Running("readonly") /\ steps > 0 /\ Turn
  /\ aggregate' = Plus(aggregate, result)
  /\ UNCHANGED <<vars, mode, held, exit, bad>>

-----------------------------------------------------------------------------
(* The write passes.                                                       *)

MutateStep ==
  /\ Running("mutate") /\ step # "end" /\ Next
  /\ bad' = (bad \/ failed')
  /\ UNCHANGED <<mode, todo, steps, result, held, aggregate, exit, finished>>

(* Looking for a contract is no step of the harness.                       *)
MutateEscapes ==
  /\ Running("mutate") /\ step = "find" /\ Fatal /\ bad' = TRUE
  /\ UNCHANGED <<vars, mode, todo, steps, held, finished>>

MutateEnds ==
  /\ Running("mutate") /\ step = "end" /\ Turn
  /\ held' = Plus(held, IF failed THEN Count(Zero, "failed") ELSE Count(Zero, "passed"))
  /\ UNCHANGED <<vars, mode, aggregate, exit, bad>>

(* Mutant: each pass's Result takes the place of the one before.           *)
WritePassEndsLast ==
  /\ \E p \in {"reconcile", "operator", "users", "members"} : Running(p)
  /\ steps > 0 /\ Turn
  /\ held' = result
  /\ aggregate' = IF Head(todo) = "members" THEN Plus(aggregate, held') ELSE aggregate
  /\ UNCHANGED <<vars, mode, exit, bad>>

(* All five run before the first of their Results is added.                *)
WritePassEnds ==
  /\ \E p \in {"reconcile", "operator", "users", "members"} : Running(p)
  /\ steps > 0 /\ Turn
  /\ held' = Plus(held, result)
  /\ aggregate' = IF Head(todo) = "members" THEN Plus(aggregate, held') ELSE aggregate
  /\ UNCHANGED <<vars, mode, exit, bad>>

(* External: what the mutate pass left behind moves on.                    *)
Afterwards ==
  /\ step = "end" /\ (LateArrives \/ OrdersMove \/ CancelDeclined)
  /\ UNCHANGED runVars

-----------------------------------------------------------------------------
(* The end of the run.                                                     *)

AsyncEnds ==
  /\ Running("async") /\ steps > 0 /\ Turn
  /\ aggregate' = Plus(aggregate, result)
  /\ UNCHANGED <<vars, mode, held, exit, bad>>

(* An exception no try of the asynchronous pass names: one failure, for    *)
(* whatever the pass had counted.                                          *)
AsyncCrashes ==
  /\ Running("async") /\ Turn
  /\ aggregate' = Count(aggregate, "failed") /\ bad' = TRUE
  /\ UNCHANGED <<vars, mode, held, exit>>

(* A VoltnirError is taken for the connection dropped by the restart.      *)
RestartServer ==
  /\ Running("restart") /\ Turn
  /\ \E outcome \in Outcomes \ {"exception"} :
       aggregate' = Count(aggregate, IF outcome = "denied" THEN "skipped" ELSE "passed")
  /\ UNCHANGED <<vars, mode, held, exit, bad>>

(* Any other exception is caught nowhere: the process ends with it.        *)
RestartCrashes ==
  /\ Running("restart") /\ exit' = "1" /\ bad' = TRUE
  /\ UNCHANGED <<vars, mode, todo, steps, result, held, aggregate, finished>>

Report ==
  /\ exit = "running" /\ todo = <<>>
  /\ exit' = IF "failed" \notin aggregate THEN "0" ELSE "1"
  /\ UNCHANGED <<vars, mode, todo, steps, result, held, aggregate, bad, finished>>

RunInit ==
  /\ Init
  /\ mode \in [mutate : BOOLEAN, restart : BOOLEAN]
  /\ todo = PassesOf(mode) /\ steps = 0 /\ result = Zero
  /\ held = Zero /\ aggregate = Zero
  /\ exit = "running" /\ bad = FALSE /\ finished = {}

RunNext ==
  \/ \E p \in {"readonly", "reconcile", "operator", "users", "members", "async"} :
       \E kind \in KindsOf(p), outcome \in Outcomes : Step(p, kind, outcome)
  \/ ReadOnlyEnds \/ MutateStep \/ MutateEscapes \/ MutateEnds
  \/ WritePassEnds \/ Afterwards
  \/ AsyncEnds \/ AsyncCrashes \/ RestartServer \/ RestartCrashes \/ Report

RunSpec == RunInit /\ [][RunNext]_allVars

-----------------------------------------------------------------------------
(* Properties.                                                             *)

(* The exit code is true of the whole run: 0 only if every pass of the     *)
(* mode ran to its end, no step of any of them failed and the mutate pass  *)
(* left no order open but those it cannot have seen (OnlyUnseenOpen); 1    *)
(* only if a step did fail or the process died.                            *)
ExitIsTrue ==
  /\ exit = "0" =>
       /\ ~bad /\ \A i \in 1 .. Len(PassesOf(mode)) : PassesOf(mode)[i] \in finished
       /\ OnlyUnseenOpen
  /\ exit = "1" => bad
=============================================================================
