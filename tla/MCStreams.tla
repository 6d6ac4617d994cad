----------------------------- MODULE MCStreams -----------------------------
(* Bounds: no more than two of the connection's upsets and the recalls     *)
(* together; recalls only on the default options, where the other row is    *)
(* not there.                                                              *)
EXTENDS TradeRecall

Called == {c \in Recalls : rcall[c] # "idle"}
Bounded ==
  /\ upsets + Cardinality(Called) <= 2
  /\ Called # {} => options = DefaultOptions
  /\ Called # {} => \A r \in Rows \ {Watched} : table[r] = 0
MCSpec == RecallInit /\ [][Next /\ Bounded']_<<streamVars, recallVars>>
            /\ StreamFairness
=============================================================================
