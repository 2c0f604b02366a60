--------------------------- MODULE MCLwMutexCond ----------------------------
(* Instances of LwMutexCond for TLC.                                       *)
EXTENDS LwMutexCond, TLC

CONSTANTS t1, t2, t3, boot, child

OneProc == [t \in Threads |-> boot]
TwoProcs == (t1 :> boot) @@ (t2 :> child) @@ (t3 :> child)

Symmetry == Permutations({t1, t2, t3})
ChildSymmetry == Permutations({t2, t3})
=============================================================================
