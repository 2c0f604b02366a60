---------------------------- MODULE MCEventQueue ----------------------------
(* Instances of EventQueue for TLC.                                         *)
EXTENDS EventQueue, TLC

CONSTANTS t1, t2, t3, boot, child

TwoProcs == (t1 :> boot) @@ (t2 :> child) @@ (t3 :> child)
ChildSymmetry == Permutations({t2, t3})
=============================================================================
