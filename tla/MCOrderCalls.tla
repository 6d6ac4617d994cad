----------------------------- MODULE MCOrderCalls -----------------------------
(* A small instance of OrderCalls: three calls on one key, or two and a    *)
(* gateway restart at any point between them.                              *)
EXTENDS OrderCalls, TLC

Symmetry == Permutations(Calls)

(* Bound: a run with a restart in it makes one call less.                  *)
Bounded == restarts > 0 => \E c \in Calls : call[c] = "idle"

MCSpec == Init /\ [][Next /\ Bounded']_vars
===============================================================================
