----------------------------- MODULE Semaphore ------------------------------
(***************************************************************************)
(* Counting semaphores: cellgov_lv2/src/host/semaphore.rs over             *)
(* sync_primitives/semaphore.rs, with timed expiry and exits.              *)
(***************************************************************************)
EXTENDS WakeProtocol, Integers

CONSTANTS
    SemIds,     \* kernel ids of the class
    MaxCount,   \* the largest max a create may ask for (i32::MAX)
    PostMax     \* the largest number of slots a post may carry (i32::MAX)

ASSUME SemaphoreAssumption == MaxCount \in Nat /\ PostMax \in Nat

VARIABLES
    sem,        \* SemaphoreTable
    ids,        \* KernelIdTable::live
    holder      \* KernelIdTable::owners

hostVars == <<sem, ids, holder>>
vars == <<rtVars, hostVars>>

(* SemaphoreEntry::new; an id that is not live reads as an empty entry.    *)
NewSem(initial, max) == [count |-> initial, max |-> max, waiters |-> <<>>]
NoSem == NewSem(0, 0)

SemTimer(s) == TimerEntry("Semaphore", s, "none")

Init ==
    /\ RtInit
    /\ sem = [s \in SemIds |-> NoSem]
    /\ ids = {}
    /\ holder = [s \in SemIds |-> BootProc]

Answer(t, code) == Immediate(t, code) /\ UNCHANGED hostVars

(* dispatch_semaphore_create: refused bounds are 0 < max, 0..max for the   *)
(* initial count.                                                          *)
SemCreate(t) ==
    \/ \E code \in {"EFAULT", "EINVAL"} : Answer(t, code)
    \/ SemIds \subseteq ids /\ Answer(t, "EAGAIN")
    \/ \E s \in SemIds \ ids, max \in 1..MaxCount : \E initial \in 0..max :
          /\ sem' = [sem EXCEPT ![s] = NewSem(initial, max)]
          /\ ids' = ids \cup {s}
          /\ holder' = [holder EXCEPT ![s] = ProcOf[t]]
          /\ Immediate(t, "OK")

(* dispatch_semaphore_destroy *)
SemDestroy(t, s) ==
    \/ s \notin ids /\ Answer(t, "ESRCH")
    \/ s \in ids /\ sem[s].waiters # <<>> /\ Answer(t, "EBUSY")
    \/ /\ s \in ids /\ sem[s].waiters = <<>>
       /\ sem' = [sem EXCEPT ![s] = NoSem]
       /\ ids' = ids \ {s}
       /\ Immediate(t, "OK")
       /\ UNCHANGED holder

(* SemaphoreTable::try_wait that takes a slot.                             *)
TakeSlot(t, s) ==
    /\ s \in ids
    /\ sem[s].count > 0
    /\ sem' = [sem EXCEPT ![s].count = @ - 1]
    /\ Immediate(t, "OK")
    /\ UNCHANGED <<ids, holder>>

(* dispatch_semaphore_wait: take a slot or park.  A caller already on the  *)
(* list would be refused with ESRCH.                                       *)
SemWait(t, s) ==
    \/ s \notin ids /\ Answer(t, "ESRCH")
    \/ TakeSlot(t, s)
    \/ /\ s \in ids /\ sem[s].count = 0
       /\ IF Contains(sem[s].waiters, t) THEN Answer(t, "ESRCH")
          ELSE /\ sem' = [sem EXCEPT ![s].waiters = Enqueue(@, t)]
               /\ \E tmr \in {NoTimer, SemTimer(s)} :
                     Block(t, ReturnCode("OK"), tmr)
               /\ UNCHANGED <<ids, holder>>

(* dispatch_semaphore_trywait *)
SemTrywait(t, s) ==
    \/ s \notin ids /\ Answer(t, "ESRCH")
    \/ TakeSlot(t, s)
    \/ s \in ids /\ sem[s].count = 0 /\ Answer(t, "EBUSY")

(* dispatch_semaphore_get_value reads the count and changes nothing.       *)
SemGetValue(t, s) ==
    \/ s \notin ids /\ Answer(t, "ESRCH")
    \/ s \in ids /\ \E code \in {"OK", "EFAULT"} : Answer(t, code)

(* Mutant: all n slots are added although some woke a waiter. *)
PostedTwice(e, n) ==
    LET k == IF n < Len(e.waiters) THEN n ELSE Len(e.waiters)
    IN  [woken |-> Waiting(SubSeq(e.waiters, 1, k)), left |-> n,
         waiters |-> SubSeq(e.waiters, k + 1, Len(e.waiters))]
(* Mutant: the newest waiters are woken first. *)
PostedNewest(e, n) ==
    LET k == IF n < Len(e.waiters) THEN n ELSE Len(e.waiters)
        m == Len(e.waiters)
    IN  [woken |-> Waiting(SubSeq(e.waiters, m - k + 1, m)), left |-> n - k,
         waiters |-> SubSeq(e.waiters, 1, m - k)]

(* What posting n slots to entry e comes to: the first n waiters take one  *)
(* each, and left slots are left over.                                     *)
Posted(e, n) ==
    LET k == IF n < Len(e.waiters) THEN n ELSE Len(e.waiters)
    IN  [woken |-> Waiting(SubSeq(e.waiters, 1, k)), left |-> n - k,
         waiters |-> SubSeq(e.waiters, k + 1, Len(e.waiters))]

(* Mutant: the check against the maximum is off by one.                     *)
SemPostStrict(t, s, n) ==
    /\ s \in ids /\ n > 0
    /\ LET p == Posted(sem[s], n)
       IN  IF sem[s].count + p.left > sem[s].max + 1 THEN Answer(t, "EBUSY")
           ELSE /\ sem' = [sem EXCEPT ![s].count = @ + p.left,
                                      ![s].waiters = p.waiters]
                /\ WakeAndReturn(t, "OK", p.woken, NoUpdates, {})
                /\ UNCHANGED <<ids, holder>>

(* dispatch_semaphore_post of n slots over post_and_wake_n: all or         *)
(* nothing against the maximum.                                            *)
SemPost(t, s, n) ==
    \/ s \notin ids /\ Answer(t, "ESRCH")
    \/ s \in ids /\ n <= 0 /\ Answer(t, "EINVAL")
    \/ /\ s \in ids /\ n > 0
       /\ LET p == Posted(sem[s], n)
          IN  IF p.left > sem[s].max - sem[s].count THEN Answer(t, "EBUSY")
              ELSE /\ sem' = [sem EXCEPT ![s].count = @ + p.left,
                                         ![s].waiters = p.waiters]
                   /\ WakeAndReturn(t, "OK", p.woken, NoUpdates, {})
                   /\ UNCHANGED <<ids, holder>>

-----------------------------------------------------------------------------
(* Mutant: the waiter record is removed before it is looked for. *)
ExpireSemWaitUnfound(t) ==
    /\ timer[t].kind = "Semaphore"
    /\ sem' = [sem EXCEPT ![timer[t].id].waiters = Remove(@, t)]
    /\ ResolveExpiry(t, ExpireUnqueued(t, FALSE))
    /\ UNCHANGED <<ids, holder>>

(* The Semaphore arm of expire_wait: the count was never taken for it.     *)
ExpireSemWait(t) ==
    LET s == timer[t].id
        removed == s \in ids /\ Contains(sem[s].waiters, t)
    IN  /\ timer[t].kind = "Semaphore"
        /\ sem' = IF removed THEN [sem EXCEPT ![s].waiters = Remove(@, t)]
                  ELSE sem
        /\ ResolveExpiry(t, ExpireUnqueued(t, removed))
        /\ UNCHANGED <<ids, holder>>

(* handle_ppu_thread_exit *)
ThreadExit(t) ==
    /\ status' = [status EXCEPT ![t] = "Finished"]
    /\ returned' = NoReturns
    /\ UNCHANGED <<pending, timer, breaks, hostVars>>

(* Mutant: a child's exit leaves its threads queued. *)
UnpurgedSem(S) == sem

(* purge_waiters_of, for the threads S.                                    *)
PurgedSem(S) == [s \in SemIds |-> [sem[s] EXCEPT !.waiters = RemoveSet(@, S)]]

(* mark_process_exited over drop_exited_object: the semaphores of process  *)
(* p that keep no waiter go.                                               *)
ChildExit(p) ==
    LET purged == PurgedSem(UnitsOf(p))
        D == {s \in ids : holder[s] = p /\ purged[s].waiters = <<>>}
    IN  /\ sem' = [s \in SemIds |-> IF s \in D THEN NoSem ELSE purged[s]]
        /\ ids' = ids \ D
        /\ RetireUnits(UnitsOf(p))
        /\ UNCHANGED holder

(* sys_process_exit by t.                                                  *)
ProcessExit(t) ==
    \/ ProcOf[t] # BootProc /\ ChildExit(ProcOf[t])
    \/ ProcOf[t] = BootProc /\ RetireUnits(Threads) /\ UNCHANGED hostVars

Syscall(t) ==
    \/ SemCreate(t)
    \/ \E s \in SemIds :
          \/ SemDestroy(t, s) \/ SemWait(t, s) \/ SemTrywait(t, s)
          \/ SemGetValue(t, s)
          \/ \E n \in 0..PostMax : SemPost(t, s, n)
    \/ ThreadExit(t)
    \/ ProcessExit(t)

Next == \E t \in Threads :
    \/ status[t] = "Runnable" /\ Syscall(t)
    \/ ExpireSemWait(t)

Spec == Init /\ [][Next]_vars

-----------------------------------------------------------------------------
(* Properties.                                                             *)

Codes == {"OK", "EFAULT", "EINVAL", "EAGAIN", "ESRCH", "EBUSY", "ETIMEDOUT"}
Timers == {NoTimer} \cup {SemTimer(s) : s \in SemIds}

(* Type invariant, with the bounds SemaphoreEntry states: 0 <= count <=    *)
(* max, whatever posts, timeouts and exits do.                             *)
TypeOK ==
    /\ RtTypeOK({NoResponse, ReturnCode("OK")}, Timers, Codes)
    /\ sem \in [SemIds -> [count : Int, max : 0..MaxCount,
                           waiters : Seq(Threads)]]
    /\ \A s \in SemIds : sem[s].count \in 0..sem[s].max
    /\ ids \subseteq SemIds
    /\ holder \in [SemIds -> Procs]

(* No thread waits beside a free slot: a post counts up only what is left  *)
(* once every waiter has a slot, and a removed waiter never held one.      *)
NoWaiterBesideSlot ==
    \A s \in SemIds : sem[s].waiters # <<>> => sem[s].count = 0

SemWaits(t) == {s \in SemIds : Contains(sem[s].waiters, t)}

(* No lost wake and no stale deadline: a thread is owed a response exactly  *)
(* while Blocked, is then on exactly one live semaphore's list, once, and a *)
(* deadline it still has names that list.                                   *)
OneWaker ==
    Halted \/
    \A t \in Threads :
        /\ (status[t] = "Blocked") <=> (pending[t] # NoResponse)
        /\ IF status[t] = "Blocked" THEN \E s \in ids : SemWaits(t) = {s}
           ELSE SemWaits(t) = {}
        /\ \A s \in SemIds : NoDuplicates(sem[s].waiters)
        /\ timer[t] # NoTimer => timer[t].id \in SemWaits(t)

(* None of the "cannot happen" branches is taken.                          *)
NoBreaks == breaks = {}

(* Slots are conserved: the slots a step adds to a semaphore, to its count *)
(* or through waiters it resumes with OK, are those of one post, and a     *)
(* refused post adds none; only the oldest waiters are resumed; a deadline *)
(* takes no slot.                                                          *)
SlotsConserved ==
    [][\A s \in ids \cap ids' :
        LET w     == sem[s].waiters
            won   == {t \in DOMAIN returned' :
                        Contains(w, t) /\ returned'[t] = "OK"}
            added == sem'[s].count - sem[s].count
        IN  /\ \A i, j \in 1..Len(w) :
                  i < j /\ w[j] \in won => w[i] \in won
            /\ added > 0 => sem'[s].waiters = <<>> /\ won = Waiting(w)
            /\ added < 0 => added = -1 /\ won = {}
            /\ (\E t \in Threads : timer[t] # NoTimer /\ timer'[t] = NoTimer
                                  /\ t \notin won) => added = 0]_vars
=============================================================================
