---------------------------- MODULE BasketPromise ----------------------------
(***************************************************************************)
(* What the SDK promises about baskets entered and cancelled under one     *)
(* reference.  A submission is decided as one, and what became of an order *)
(* then stands; a cancel takes hold of an order or never will; and each    *)
(* call is told once, when it ends, never the opposite of what is so.      *)
(* Timeouts, lost requests, restarts, retries and the gateway's records    *)
(* are all left out: nothing of them may show.                             *)
(***************************************************************************)
CONSTANTS Orders, Calls

VARIABLES
  inst,   \* the kind of list: none, valid, linked
  method, \* what each call is: none yet, submit, cancel
  fate,   \* what became of each order of each submission
  grip,   \* what the cancel of each call does to each order
  told    \* what each call gave its caller
vars == <<inst, method, fate, grip, told>>

Items == Calls \X Orders

Init ==
  /\ inst \in {"none", "valid", "linked"}
  /\ method = [c \in Calls |-> "none"]
  /\ fate = [x \in Items |-> "open"]
  /\ grip = [c \in Calls |-> [x \in Items |-> "open"]]
  /\ told = [c \in Calls |-> [kind |-> "none"]]

Ask(c) ==
  /\ method[c] = "none"
  /\ \E m \in {"submit", "cancel"} : method' = [method EXCEPT ![c] = m]
  /\ UNCHANGED <<inst, fate, grip, told>>

Open(c) == method[c] = "submit" /\ \A p \in Orders : fate[<<c, p>>] = "open"

(* The exchange decides a submission: all its orders at once, and those of *)
(* a valid or linked list alike.                                           *)
Meet(c) ==
  /\ Open(c)
  /\ \E f \in [Orders -> {"placed", "rejected"}] :
       /\ inst # "none" => \A p, q \in Orders : f[p] = f[q]
       /\ fate' = [x \in Items |-> IF x[1] = c THEN f[x[2]] ELSE fate[x]]
  /\ UNCHANGED <<inst, method, grip, told>>

(* Submissions that will never be decided, several at once in a restart.   *)
Lapse(S) ==
  /\ \A c \in S : Open(c)
  /\ fate' = [x \in Items |-> IF x[1] \in S THEN "lapsed" ELSE fate[x]]
  /\ UNCHANGED <<inst, method, grip, told>>

(* The cancel of an order that was placed reaches the exchange, which      *)
(* holds it and then carries it out or declines it; or it never will.      *)
Grasp(c, x) ==
  /\ method[c] = "cancel"
  /\ \/ fate[x] = "placed" /\ grip[c][x] = "open" /\ grip' = [grip EXCEPT ![c][x] = "held"]
     \/ /\ grip[c][x] = "held"
        /\ \E g \in {"done", "declined"} : grip' = [grip EXCEPT ![c][x] = g]
     \/ grip[c][x] = "open" /\ grip' = [grip EXCEPT ![c][x] = "never"]
  /\ UNCHANGED <<inst, method, fate, told>>

(* What may be said of a call: an error that is a definite rejection       *)
(* placed or cancelled nothing; an order is answered what became of it, of *)
(* a list that stands or falls together all REJECTED or none; a cancel is  *)
(* acknowledged only if the exchange has it, and not at work if refused.   *)
Truthful(c, a) ==
  /\ a.kind = "raised" /\ a.rejected =>
       IF method[c] = "submit"
       THEN \A p \in Orders : fate[<<c, p>>] = "lapsed"
       ELSE \A x \in Items : grip'[c][x] = "never"
  /\ a.kind = "states" =>
       \A p \in Orders :
         /\ a.states[p] = "REJECTED" => fate[<<c, p>>] = "rejected"
         /\ a.states[p] = "ACCEPTED" => fate[<<c, p>>] = "placed"
         /\ a.states[p] = "REJECTED" /\ inst # "none" =>
              \A q \in Orders : a.states[q] = "REJECTED"
  /\ a.kind = "results" =>
       \A x \in Items :
         /\ a.results[x] = "cancelled" => grip[c][x] \in {"held", "done", "declined"}
         /\ a.results[x] \in {"none", "refused", "ORDER_PENDING"} => grip'[c][x] = "never"

(* The call ends: what of its cancel is not on its way will never be.      *)
Tell(c) ==
  /\ method[c] # "none" /\ told[c].kind = "none"
  /\ told'[c].kind \in {"raised", "states", "results"}
  /\ told' = [told EXCEPT ![c] = told'[c]]
  /\ \E S \in SUBSET {x \in Items : grip[c][x] = "open"} :
       grip' = [grip EXCEPT ![c] = [x \in Items |-> IF x \in S THEN "never" ELSE grip[c][x]]]
  /\ Truthful(c, told'[c])
  /\ UNCHANGED <<inst, method, fate>>

Next ==
  \/ \E c \in Calls : Ask(c) \/ Meet(c) \/ Tell(c)
  \/ \E S \in SUBSET Calls : Lapse(S)
  \/ \E c \in Calls, x \in Items : Grasp(c, x)

Spec == Init /\ [][Next]_vars
=============================================================================
