----------------------------- MODULE WaiterList -----------------------------
(***************************************************************************)
(* The FIFO waiter list every LV2 sync primitive keeps                     *)
(* (cellgov_lv2/src/sync_primitives/waiter_list.rs).  A list is a sequence *)
(* of threads; the head is the thread that has waited longest.             *)
(***************************************************************************)
EXTENDS Naturals, Sequences

(* The threads on list w. *)
Waiting(w) == {w[i] : i \in 1..Len(w)}

(* `contains`: whether thread t is parked on w. *)
Contains(w, t) == \E i \in 1..Len(w) : w[i] = t

(* Mutant: a new waiter goes to the front. *)
EnqueueFront(w, t) == <<t>> \o w

(* `enqueue`: t goes to the back.  The code refuses a thread that is       *)
(* already on the list, so the callers test Contains first.                *)
Enqueue(w, t) == Append(w, t)

(* The increasing enumeration of the positions K of a list of length n.    *)
Positions(K, n) ==
    CHOOSE e \in UNION {[1..k -> K] : k \in 0..n} :
        /\ \A i \in K : \E j \in DOMAIN e : e[j] = i
        /\ \A i, j \in DOMAIN e : i < j => e[i] < e[j]

(* `remove_set`: drop every thread of S, keeping the order of the rest.    *)
RemoveSet(w, S) ==
    LET kept == {i \in 1..Len(w) : w[i] \notin S}
        e    == Positions(kept, Len(w))
    IN  [k \in DOMAIN e |-> w[e[k]]]

(* `remove`: drop thread t (a list holds it at most once).                 *)
Remove(w, t) == RemoveSet(w, {t})

(* No thread is on the list twice.                                         *)
NoDuplicates(w) == \A i, j \in 1..Len(w) : w[i] = w[j] => i = j
=============================================================================
