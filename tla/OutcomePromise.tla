--------------------------- MODULE OutcomePromise ---------------------------
(***************************************************************************)
(* What the SDK promises about an order request: the request meets one     *)
(* fate at the exchange, and its caller is told once, never the opposite   *)
(* of that fate.  "unknown" may be told at any time; "applied" and         *)
(* "rejected" only when the fate is settled that way.                      *)
(***************************************************************************)
CONSTANT Calls
VARIABLES fate, told

Fates == {"open", "applied", "void"}
Tellings == {"nothing", "unknown", "applied", "rejected"}

Init ==
  /\ fate = [c \in Calls |-> "open"]
  /\ told = [c \in Calls |-> "nothing"]

(* The exchange executes the request.                                      *)
Apply(c) ==
  /\ fate[c] = "open"
  /\ fate' = [fate EXCEPT ![c] = "applied"]
  /\ UNCHANGED told

(* Requests that can no longer be executed, several at once in a restart.  *)
Lapse(S) ==
  /\ \A c \in S : fate[c] = "open"
  /\ fate' = [c \in Calls |-> IF c \in S THEN "void" ELSE fate[c]]
  /\ UNCHANGED told

(* The caller is told, once.                                               *)
Tell(c, word) ==
  /\ told[c] = "nothing"
  /\ word = "applied" => fate[c] = "applied"
  /\ word = "rejected" => fate[c] = "void"
  /\ told' = [told EXCEPT ![c] = word]
  /\ UNCHANGED fate

Next ==
  \/ \E c \in Calls : Apply(c)
  \/ \E S \in SUBSET Calls : Lapse(S)
  \/ \E c \in Calls, word \in Tellings \ {"nothing"} : Tell(c, word)

Spec == Init /\ [][Next]_<<fate, told>>
=============================================================================
