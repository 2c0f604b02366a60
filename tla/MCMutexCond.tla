---------------------------- MODULE MCMutexCond -----------------------------
(* Instances of MutexCond for TLC.                                         *)
EXTENDS MutexCond, TLC

CONSTANTS t1, t2, t3, boot, child

(* One process, or the second and third thread in a spawned process.      *)
OneProc == [t \in {t1, t2, t3} |-> boot]
TwoProcs == (t1 :> boot) @@ (t2 :> child) @@ (t3 :> child)

AllAttrs == [recursive : BOOLEAN, process_shared : BOOLEAN]
PlainAttrs == {[recursive |-> FALSE, process_shared |-> FALSE]}

Symmetry == Permutations({t1, t2, t3})
ChildSymmetry == Permutations({t2, t3})
=============================================================================
