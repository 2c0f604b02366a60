---------------------------- MODULE MCEventFlag -----------------------------
(* Instances of EventFlag for TLC.                                         *)
EXTENDS EventFlag, TLC

CONSTANTS t1, t2, t3, boot, child

TwoProcs == (t1 :> boot) @@ (t2 :> child) @@ (t3 :> child)
ClearModes == {[all |-> FALSE, clear |-> "mask"], [all |-> TRUE, clear |-> "none"],
               [all |-> TRUE, clear |-> "every"]}
ChildSymmetry == Permutations({t2, t3})
=============================================================================
