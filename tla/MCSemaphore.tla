---------------------------- MODULE MCSemaphore -----------------------------
(* Instances of Semaphore for TLC.                                         *)
EXTENDS Semaphore, TLC

CONSTANTS t1, t2, t3, boot, child

TwoProcs == (t1 :> boot) @@ (t2 :> child) @@ (t3 :> child)
ChildSymmetry == Permutations({t2, t3})
=============================================================================
