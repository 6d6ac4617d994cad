----------------------------- MODULE MCVerifyRun -----------------------------
(* A small instance of VerifyRun.  Bound: what the mutate pass left under   *)
(* way moves on only once the run is over, whose other passes it is hidden  *)
(* from.                                                                    *)
EXTENDS VerifyRun

Bounded == step = "end" /\ exit = "running" => UNCHANGED <<limitVars, orderVars>>
MCSpec == RunInit /\ [][RunNext /\ Bounded]_allVars
==============================================================================
