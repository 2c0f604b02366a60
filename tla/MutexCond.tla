----------------------------- MODULE MutexCond ------------------------------
(***************************************************************************)
(* Heavy mutexes and condition variables: cellgov_lv2/src/host/mutex.rs    *)
(* and host/cond.rs over sync_primitives/mutex.rs and cond.rs, their timed *)
(* expiry (host/expire.rs) and what thread and process exit do to them.    *)
(***************************************************************************)
EXTENDS WakeProtocol, FiniteSets

CONSTANTS
    MutexIds, CondIds,  \* kernel ids of the two classes
    MutexAttrs,         \* attribute blocks a mutex create may pass
    CondShared,         \* process-shared values a cond create may pass
    LockCountMax,       \* u32::MAX in the code
    NoThread, NoMutex   \* None

ASSUME MutexCondAssumption ==
    /\ MutexIds \cap CondIds = {}
    /\ MutexAttrs \subseteq [recursive : BOOLEAN, process_shared : BOOLEAN]
    /\ CondShared \subseteq BOOLEAN
    /\ LockCountMax \in Nat
    /\ NoThread \notin Threads
    /\ NoMutex \notin MutexIds \cup CondIds

VARIABLES
    mutex,      \* MutexTable: the entry of each mutex id
    cond,       \* CondTable: the entry of each cond id
    ids,        \* KernelIdTable::live
    holder      \* KernelIdTable::owners: the process that minted each id

hostVars == <<mutex, cond, ids, holder>>
vars == <<rtVars, hostVars>>

Ids == MutexIds \cup CondIds
DefaultAttrs == [recursive |-> FALSE, process_shared |-> FALSE]

(* MutexEntry::new and CondEntry::new; the entry of an id that is not live *)
(* reads as a fresh one.  key records the cond's registration under an IPC *)
(* key (cond_ipc_keys).                                                    *)
NewMutex(a) ==
    [owner |-> NoThread, waiters |-> <<>>, attrs |-> a, lock_count |-> 0,
     live_conds |-> 0, retains_cond_binding |-> FALSE]
NewCond(m, shared) == [mutex_id |-> m, waiters |-> <<>>, key |-> shared]

NoEntry == NewMutex(DefaultAttrs)
NoCond == NewCond(NoMutex, FALSE)

CondWakeReacquire(m) == Response("CondWakeReacquire", m)
MutexTimer(m) == TimerEntry("Mutex", m, "none")
CondTimer(c, m) == TimerEntry("Cond", c, m)

Init ==
    /\ RtInit
    /\ mutex = [m \in MutexIds |-> NoEntry]
    /\ cond = [c \in CondIds |-> NoCond]
    /\ ids = {}
    /\ holder = [i \in Ids |-> BootProc]

-----------------------------------------------------------------------------
(* Mutex operations, each a syscall of a running thread t.                 *)

(* A call that answers code and changes no kernel object.                  *)
Answer(t, code) == Immediate(t, code) /\ UNCHANGED hostVars

(* A guest may pass any id, or a timeout or none.                          *)
Timeouts(tmr) == {NoTimer, tmr}

(* dispatch_mutex_create: a bad argument is refused before an id is minted *)
(* and a create that finds no id to mint is EAGAIN.                        *)
MutexCreate(t) ==
    \/ \E code \in {"EFAULT", "EINVAL"} : Answer(t, code)
    \/ MutexIds \subseteq ids /\ Answer(t, "EAGAIN")
    \/ \E m \in MutexIds \ ids, a \in MutexAttrs :
       /\ mutex' = [mutex EXCEPT ![m] = NewMutex(a)]
       /\ ids' = ids \cup {m}
       /\ holder' = [holder EXCEPT ![m] = ProcOf[t]]
       /\ Immediate(t, "OK")
       /\ UNCHANGED cond

(* MutexEntry::has_cond_binding *)
HasCondBinding(m) == mutex[m].live_conds > 0 \/ mutex[m].retains_cond_binding

(* Mutant: the destroy forgets to look at the cond binding. *)
MutexDestroyUnbound(t, m) ==
    \/ m \notin ids /\ Answer(t, "ESRCH")
    \/ /\ m \in ids /\ mutex[m].owner = NoThread /\ mutex[m].waiters = <<>>
       /\ mutex' = [mutex EXCEPT ![m] = NoEntry]
       /\ ids' = ids \ {m}
       /\ Immediate(t, "OK")
       /\ UNCHANGED <<cond, holder>>

(* dispatch_mutex_destroy *)
MutexDestroy(t, m) ==
    LET busy == mutex[m].owner # NoThread \/ mutex[m].waiters # <<>>
    IN  \/ m \notin ids /\ Answer(t, "ESRCH")
        \/ m \in ids /\ busy /\ Answer(t, "EBUSY")
        \/ m \in ids /\ ~busy /\ HasCondBinding(m) /\ Answer(t, "EPERM")
        \/ /\ m \in ids /\ ~busy /\ ~HasCondBinding(m)
           /\ mutex' = [mutex EXCEPT ![m] = NoEntry]
           /\ ids' = ids \ {m}
           /\ Immediate(t, "OK")
           /\ UNCHANGED <<cond, holder>>

(* MutexTable::try_acquire that finds the mutex free.                      *)
Acquire(t, m) ==
    /\ m \in ids
    /\ mutex[m].owner = NoThread
    /\ mutex' = [mutex EXCEPT ![m].owner = t]
    /\ Immediate(t, "OK")
    /\ UNCHANGED <<cond, ids, holder>>

(* Mutant: the recursion count is not capped. *)
RelockUncapped(t, m) ==
    /\ mutex[m].owner = t
    /\ mutex[m].attrs.recursive
    /\ mutex' = [mutex EXCEPT ![m].lock_count = @ + 1]
    /\ Immediate(t, "OK")
    /\ UNCHANGED <<cond, ids, holder>>

(* An owner's second lock of mutex m: counted when m is recursive.         *)
Relock(t, m) ==
    /\ mutex[m].owner = t
    /\ \/ ~mutex[m].attrs.recursive /\ Answer(t, "EDEADLK")
       \/ /\ mutex[m].attrs.recursive
          /\ mutex[m].lock_count = LockCountMax
          /\ Answer(t, "EKRESOURCE")
       \/ /\ mutex[m].attrs.recursive
          /\ mutex[m].lock_count < LockCountMax
          /\ mutex' = [mutex EXCEPT ![m].lock_count = @ + 1]
          /\ Immediate(t, "OK")
          /\ UNCHANGED <<cond, ids, holder>>

(* acquire_or_enqueue's park on a mutex another thread owns.  A caller     *)
(* already on the list would be refused instead.                           *)
LockParks(t, m) ==
    /\ mutex[m].owner \notin {NoThread, t}
    /\ IF Contains(mutex[m].waiters, t)
       THEN Answer(t, "EDEADLK")
       ELSE /\ mutex' = [mutex EXCEPT ![m].waiters = Enqueue(@, t)]
            /\ \E tmr \in Timeouts(MutexTimer(m)) :
                  Block(t, ReturnCode("OK"), tmr)
            /\ UNCHANGED <<cond, ids, holder>>

(* dispatch_mutex_lock over acquire_or_enqueue *)
MutexLock(t, m) ==
    \/ m \notin ids /\ Answer(t, "ESRCH")
    \/ Acquire(t, m)
    \/ Relock(t, m)
    \/ LockParks(t, m)

(* dispatch_mutex_trylock: any owner is contention, the owner of a         *)
(* recursive mutex included.                                               *)
MutexTrylock(t, m) ==
    \/ m \notin ids /\ Answer(t, "ESRCH")
    \/ Acquire(t, m)
    \/ /\ mutex[m].owner # NoThread
       /\ Answer(t, IF mutex[m].owner = t /\ ~mutex[m].attrs.recursive
                    THEN "EDEADLK" ELSE "EBUSY")

(* Mutant: the recursion depth survives. *)
ReleasedKeepsCount(e) ==
    [e EXCEPT !.owner = IF e.waiters = <<>> THEN NoThread ELSE Head(e.waiters),
              !.waiters = IF e.waiters = <<>> THEN <<>> ELSE Tail(e.waiters)]

(* The entry after release_and_wake_next, which drops any recursion depth, *)
(* and the thread it hands the mutex to.                                   *)
Released(e) ==
    [e EXCEPT !.owner = IF e.waiters = <<>> THEN NoThread ELSE Head(e.waiters),
              !.waiters = IF e.waiters = <<>> THEN <<>> ELSE Tail(e.waiters),
              !.lock_count = 0]
Inheritor(e) == IF e.waiters = <<>> THEN {} ELSE {Head(e.waiters)}

(* dispatch_mutex_unlock: unlock_decrement, else release_and_wake_next.    *)
MutexUnlock(t, m) ==
    \/ m \notin ids /\ Answer(t, "ESRCH")
    \/ m \in ids /\ mutex[m].owner # t /\ Answer(t, "EPERM")
    \/ /\ mutex[m].owner = t
       /\ mutex[m].lock_count > 0
       /\ mutex' = [mutex EXCEPT ![m].lock_count = @ - 1]
       /\ Immediate(t, "OK")
       /\ UNCHANGED <<cond, ids, holder>>
    \/ /\ mutex[m].owner = t
       /\ mutex[m].lock_count = 0
       /\ mutex' = [mutex EXCEPT ![m] = Released(@)]
       /\ WakeAndReturn(t, "OK", Inheritor(mutex[m]), NoUpdates, {})
       /\ UNCHANGED <<cond, ids, holder>>

-----------------------------------------------------------------------------
(* Condition variables.                                                    *)

(* dispatch_cond_create and MutexTable::bind_cond                          *)
CondCreate(t, m) ==
    \/ \E code \in {"EFAULT", "EINVAL"} : Answer(t, code)
    \/ m \notin ids /\ Answer(t, "ESRCH")
    \/ m \in ids /\ CondIds \subseteq ids /\ Answer(t, "EAGAIN")
    \/ /\ m \in ids
       /\ \E c \in CondIds \ ids, shared \in CondShared :
          /\ shared => mutex[m].attrs.process_shared
          /\ cond' = [cond EXCEPT ![c] = NewCond(m, shared)]
          /\ mutex' = [mutex EXCEPT
                ![m].live_conds = @ + 1,
                ![m].retains_cond_binding =
                    @ \/ (mutex[m].attrs.process_shared /\ ~shared)]
          /\ ids' = ids \cup {c}
          /\ holder' = [holder EXCEPT ![c] = ProcOf[t]]
          /\ Immediate(t, "OK")

(* Mutant: the destroy does not unbind. *)
CondDestroyBound(t, c) ==
    /\ c \in ids /\ cond[c].waiters = <<>>
    /\ cond' = [cond EXCEPT ![c] = NoCond]
    /\ ids' = ids \ {c}
    /\ Immediate(t, "OK")
    /\ UNCHANGED <<mutex, holder>>

(* dispatch_cond_destroy and MutexTable::unbind_cond, whose refusal is an  *)
(* invariant break but does not stop the destroy.                          *)
CondDestroy(t, c) ==
    LET m == cond[c].mutex_id
        bound == m \in ids /\ mutex[m].live_conds > 0
    IN  \/ c \notin ids /\ Answer(t, "ESRCH")
        \/ c \in ids /\ cond[c].waiters # <<>> /\ Answer(t, "EBUSY")
        \/ /\ c \in ids /\ cond[c].waiters = <<>>
           /\ cond' = [cond EXCEPT ![c] = NoCond]
           /\ mutex' = IF bound THEN [mutex EXCEPT ![m].live_conds = @ - 1]
                       ELSE mutex
           /\ ids' = ids \ {c}
           /\ WakeAndReturn(t, "OK", {}, NoUpdates,
                            IF bound THEN {} ELSE {"cond_destroy_unbound_mutex"})
           /\ UNCHANGED holder

(* dispatch_cond_wait by the owner: the mutex is released to its first     *)
(* waiter and the caller parks on the cond (cond_park_caller).  A caller   *)
(* already on the list would be refused after the release.                 *)
CondParks(t, c) ==
    LET m == cond[c].mutex_id
    IN  /\ c \in ids /\ m \in ids
        /\ mutex[m].owner = t
        /\ mutex' = [mutex EXCEPT ![m] = Released(@)]
        /\ IF Contains(cond[c].waiters, t)
           THEN /\ WakeAndReturn(t, "EDEADLK", {}, NoUpdates,
                                 {"cond_wait_duplicate_waiter"})
                /\ UNCHANGED cond
           ELSE /\ cond' = [cond EXCEPT ![c].waiters = Enqueue(@, t)]
                /\ \E tmr \in Timeouts(CondTimer(c, m)) :
                      BlockAndWake(t, CondWakeReacquire(m), tmr,
                                   Inheritor(mutex[m]))
        /\ UNCHANGED <<ids, holder>>

(* dispatch_cond_wait.  A keyed cond whose seeded ring still holds data    *)
(* answers CELL_OK at once (cond_ring_wake_check).                         *)
CondWait(t, c) ==
    LET m == cond[c].mutex_id
    IN  \/ c \notin ids /\ Answer(t, "ESRCH")
        \/ c \in ids /\ cond[c].key /\ Answer(t, "OK")
        \/ c \in ids /\ m \notin ids /\ Answer(t, "ESRCH")
        \/ c \in ids /\ m \in ids /\ mutex[m].owner # t /\ Answer(t, "EPERM")
        \/ CondParks(t, c)

(* Mutant: the signalled threads wake without the mutex. *)
ReacquireNothing(e, w) == [entry |-> e, woken |-> Waiting(w), refused |-> {}]

(* cond_reacquire_outcome for the threads w taken off a cond, in order,    *)
(* against the entry e of a live mutex: the first takes a free mutex, the  *)
(* rest queue behind its waiters.  A thread enqueue_waiter refuses wakes   *)
(* with ESRCH.                                                             *)
Reacquire(e, w) ==
    LET free    == e.owner = NoThread
        owner   == IF free THEN Head(w) ELSE e.owner
        rest    == IF free THEN Tail(w) ELSE w
        refused == {t \in Waiting(rest) : t = owner \/ Contains(e.waiters, t)}
    IN  [entry   |-> [e EXCEPT !.owner = owner,
                              !.waiters = @ \o RemoveSet(rest, refused)],
         woken   |-> IF free THEN {Head(w)} \cup refused ELSE refused,
         refused |-> refused]

(* Mutants: only the re-parked, or only the woken, threads are restaged. *)
RestageReparked(w, m, code) ==
    LET r == Reacquire(mutex[m], w)
    IN  [table |-> [mutex EXCEPT ![m] = r.entry], woken |-> r.woken,
         upd |-> [t \in Waiting(w) \ r.woken |-> ReturnCode(code)], brk |-> {}]
RestageWoken(w, m, code) ==
    LET r == Reacquire(mutex[m], w)
    IN  [table |-> [mutex EXCEPT ![m] = r.entry], woken |-> r.woken,
         upd |-> [t \in r.woken |-> ReturnCode(code)], brk |-> {}]

(* What the re-acquire of m by the threads w comes to: the mutex table,    *)
(* who wakes, the restaged responses (code unless refused), the breaks.    *)
ReacquireOutcome(w, m, code) ==
    IF m \in ids
    THEN LET r == Reacquire(mutex[m], w)
         IN  [table |-> [mutex EXCEPT ![m] = r.entry],
              woken |-> r.woken,
              upd   |-> [t \in Waiting(w) |->
                           ReturnCode(IF t \in r.refused THEN "ESRCH" ELSE code)],
              brk   |-> IF r.refused = {} THEN {} ELSE {"reacquire_enqueue"}]
    ELSE [table |-> mutex,
          woken |-> Waiting(w),
          upd   |-> [t \in Waiting(w) |-> ReturnCode("ESRCH")],
          brk   |-> {"reacquire_destroyed_mutex"}]

(* The threads w leave cond c, which keeps the waiters left, and re-acquire *)
(* its mutex; the signaller returns CELL_OK.                               *)
SignalWaiters(t, c, w, left) ==
    LET out == ReacquireOutcome(w, cond[c].mutex_id, "OK")
    IN  /\ cond' = [cond EXCEPT ![c].waiters = left]
        /\ mutex' = out.table
        /\ WakeAndReturn(t, "OK", out.woken, out.upd, out.brk)
        /\ UNCHANGED <<ids, holder>>

(* dispatch_cond_signal: the signal of a cond nobody waits on is lost.     *)
CondSignal(t, c) ==
    LET w == cond[c].waiters
    IN  \/ c \notin ids /\ Answer(t, "ESRCH")
        \/ c \in ids /\ w = <<>> /\ Answer(t, "OK")
        \/ c \in ids /\ w # <<>> /\ SignalWaiters(t, c, <<Head(w)>>, Tail(w))

(* dispatch_cond_signal_all                                                *)
CondSignalAll(t, c) ==
    LET w == cond[c].waiters
    IN  \/ c \notin ids /\ Answer(t, "ESRCH")
        \/ c \in ids /\ w = <<>> /\ Answer(t, "OK")
        \/ c \in ids /\ w # <<>> /\ SignalWaiters(t, c, w, <<>>)

(* dispatch_cond_signal_to.  A target that is not waiting is EPERM, or     *)
(* ESRCH once it left the thread table, which a finished thread may have.  *)
CondSignalTo(t, c, target) ==
    LET w == cond[c].waiters
    IN  \/ c \notin ids /\ Answer(t, "ESRCH")
        \/ /\ c \in ids /\ ~Contains(w, target)
           /\ \/ Answer(t, "EPERM")
              \/ status[target] = "Finished" /\ Answer(t, "ESRCH")
        \/ /\ c \in ids /\ Contains(w, target)
           /\ SignalWaiters(t, c, <<target>>, Remove(w, target))

-----------------------------------------------------------------------------
(* Timed-wait expiry (expire_wait).                                        *)

(* The Mutex arm: the sleeper leaves the list without the mutex.           *)
ExpireMutexWait(t) ==
    LET m == timer[t].id
        removed == m \in ids /\ Contains(mutex[m].waiters, t)
    IN  /\ timer[t].kind = "Mutex"
        /\ mutex' = IF removed
                    THEN [mutex EXCEPT ![m].waiters = Remove(@, t)] ELSE mutex
        /\ ResolveExpiry(t, ExpireUnqueued(t, removed))
        /\ UNCHANGED <<cond, ids, holder>>

(* expire_cond_wait: the waiter leaves the cond and re-acquires the mutex, *)
(* re-parking on it untimed with ETIMEDOUT staged when it is held.         *)
ExpireCondWait(t) ==
    LET c == timer[t].id
        removed == c \in ids /\ Contains(cond[c].waiters, t)
        out == ReacquireOutcome(<<t>>, timer[t].companion, "ETIMEDOUT")
    IN  /\ timer[t].kind = "Cond"
        /\ cond' = IF removed
                   THEN [cond EXCEPT ![c].waiters = Remove(@, t)] ELSE cond
        /\ mutex' = IF removed THEN out.table ELSE mutex
        /\ ResolveExpiry(t, IF removed
                            THEN Expired(out.woken, out.upd, out.brk)
                            ELSE MissingWaiter)
        /\ UNCHANGED <<ids, holder>>

-----------------------------------------------------------------------------
(* Exits.                                                                  *)

(* handle_ppu_thread_exit: the thread is finished and keeps the mutexes it *)
(* owns.                                                                   *)
ThreadExit(t) ==
    /\ status' = [status EXCEPT ![t] = "Finished"]
    /\ returned' = NoReturns
    /\ UNCHANGED <<pending, timer, breaks, hostVars>>

(* Mutant: the exit does not purge mutex lists. *)
UnpurgedMutex(S) == mutex

(* purge_waiters_of on both tables, for the threads S.                     *)
PurgedMutex(S) ==
    [m \in MutexIds |-> [mutex[m] EXCEPT !.waiters = RemoveSet(@, S)]]
PurgedCond(S) ==
    [c \in CondIds |-> [cond[c] EXCEPT !.waiters = RemoveSet(@, S)]]

(* drop_exited_object: the ids of process p whose object nobody outside    *)
(* its threads S waits on or owns.  An IPC-keyed cond stays.               *)
DroppedIds(p, S) ==
    {i \in ids :
        /\ holder[i] = p
        /\ i \in MutexIds =>
              /\ PurgedMutex(S)[i].waiters = <<>>
              /\ mutex[i].owner \in S \cup {NoThread}
        /\ i \in CondIds =>
              /\ PurgedCond(S)[i].waiters = <<>>
              /\ ~cond[i].key}

(* handle_process_exit_child and mark_process_exited: every unit of the    *)
(* process is retired, its threads leave every waiter list, and the ids it *)
(* holds go with their objects.  A dropped cond is not unbound from its    *)
(* mutex.                                                                  *)
ChildExit(p) ==
    LET S == UnitsOf(p)
        D == DroppedIds(p, S)
    IN  /\ mutex' = [m \in MutexIds |->
                        IF m \in D THEN NoEntry ELSE PurgedMutex(S)[m]]
        /\ cond' = [c \in CondIds |->
                        IF c \in D THEN NoCond ELSE PurgedCond(S)[c]]
        /\ ids' = ids \ D
        /\ RetireUnits(UnitsOf(p))
        /\ UNCHANGED holder

(* sys_process_exit by t: the boot process takes every unit down and       *)
(* leaves the tables as they are.                                          *)
ProcessExit(t) ==
    \/ ProcOf[t] # BootProc /\ ChildExit(ProcOf[t])
    \/ ProcOf[t] = BootProc /\ RetireUnits(Threads) /\ UNCHANGED hostVars

-----------------------------------------------------------------------------
Syscall(t) ==
    \/ MutexCreate(t)
    \/ \E m \in MutexIds :
          \/ MutexDestroy(t, m) \/ MutexLock(t, m)
          \/ MutexTrylock(t, m) \/ MutexUnlock(t, m)
          \/ CondCreate(t, m)
    \/ \E c \in CondIds :
          \/ CondDestroy(t, c) \/ CondWait(t, c)
          \/ CondSignal(t, c) \/ CondSignalAll(t, c)
          \/ \E target \in Threads : CondSignalTo(t, c, target)
    \/ Sleep(t) /\ UNCHANGED hostVars
    \/ ThreadExit(t)
    \/ ProcessExit(t)

FireTimer(t) ==
    \/ FireSleep(t) /\ UNCHANGED hostVars
    \/ ExpireMutexWait(t)
    \/ ExpireCondWait(t)

Next == \E t \in Threads :
    \/ status[t] = "Runnable" /\ Syscall(t)
    \/ FireTimer(t)

Spec == Init /\ [][Next]_vars

-----------------------------------------------------------------------------
(* Properties.                                                             *)

Codes == {"OK", "EFAULT", "EINVAL", "EAGAIN", "ESRCH", "EBUSY", "EPERM",
          "EDEADLK", "EKRESOURCE", "ETIMEDOUT"}
Responses ==
    {NoResponse} \cup {ReturnCode(c) : c \in Codes}
                \cup {CondWakeReacquire(m) : m \in MutexIds}
Timers ==
    {NoTimer, SleepTimer} \cup {MutexTimer(m) : m \in MutexIds}
                         \cup {CondTimer(c, m) : c \in CondIds, m \in MutexIds}
MutexEntry ==
    [owner : Threads \cup {NoThread}, waiters : Seq(Threads),
     attrs : [recursive : BOOLEAN, process_shared : BOOLEAN],
     lock_count : 0..LockCountMax, live_conds : Nat,
     retains_cond_binding : BOOLEAN]
CondEntry ==
    [mutex_id : MutexIds \cup {NoMutex}, waiters : Seq(Threads), key : BOOLEAN]

(* Type invariant: the runtime's tables and the two primitive tables keep  *)
(* their shape through every syscall, expiry and exit.                     *)
TypeOK ==
    /\ RtTypeOK(Responses, Timers, Codes)
    /\ mutex \in [MutexIds -> MutexEntry]
    /\ cond \in [CondIds -> CondEntry]
    /\ ids \subseteq Ids
    /\ holder \in [Ids -> Procs]

(* The lists thread t is parked on.                                        *)
MutexWaits(t) == {m \in MutexIds : Contains(mutex[m].waiters, t)}
CondWaits(t) == {c \in CondIds : Contains(cond[c].waiters, t)}

(* No lost wake: a thread owes its caller a response exactly while it is   *)
(* Blocked, and a Blocked thread is on exactly one waiter list, once, or   *)
(* on none and asleep on a timer.  So every parked thread has exactly one  *)
(* party that can resume it, across cond re-parks, expiries and purges.    *)
OneWaker ==
    Halted \/
    \A t \in Threads :
        /\ (status[t] = "Blocked") <=> (pending[t] # NoResponse)
        /\ LET places == MutexWaits(t) \cup CondWaits(t)
           IN  IF status[t] = "Blocked" /\ timer[t] # SleepTimer
               THEN \E i \in places : places = {i}
               ELSE places = {}
        /\ \A m \in MutexIds : NoDuplicates(mutex[m].waiters)
        /\ \A c \in CondIds : NoDuplicates(cond[c].waiters)

(* expire.rs claims the wake-vs-timeout race cannot occur: a live deadline *)
(* always finds the waiter record its block reason names, so a wake or a   *)
(* restage never leaves a stale deadline behind.                           *)
DeadlineFindsWaiter ==
    \A t \in Threads :
        /\ timer[t] # NoTimer => status[t] = "Blocked"
        /\ timer[t].kind = "Mutex" => timer[t].id \in MutexWaits(t)
        /\ timer[t].kind = "Cond" =>
              /\ timer[t].id \in CondWaits(t)
              /\ cond[timer[t].id].mutex_id = timer[t].companion

(* What a parked thread is owed fits where it is parked: a cond waiter is  *)
(* still to re-acquire its cond's mutex, which resolve_sync_wakes cannot   *)
(* deliver, and a mutex waiter only waits for its return code.             *)
ResponseFitsWait ==
    \A t \in Threads :
        /\ \A c \in CondWaits(t) :
              pending[t] \in {NoResponse, CondWakeReacquire(cond[c].mutex_id)}
        /\ MutexWaits(t) # {} =>
              pending[t] \in {NoResponse, ReturnCode("OK"), ReturnCode("ETIMEDOUT")}

(* A thread waits only for a live mutex some other thread owns, no thread  *)
(* waiting on a cond owns the mutex it released, only an owned recursive   *)
(* mutex counts holds, and a dead id keeps no state.                       *)
MutexConsistent ==
    /\ \A m \in MutexIds :
          /\ mutex[m].owner = NoThread =>
                mutex[m].waiters = <<>> /\ mutex[m].lock_count = 0
          /\ ~Contains(mutex[m].waiters, mutex[m].owner)
          /\ mutex[m].lock_count > 0 => mutex[m].attrs.recursive
          /\ m \notin ids => mutex[m] = NoEntry
    /\ \A c \in CondIds :
          /\ cond[c].mutex_id \in MutexIds =>
                ~Contains(cond[c].waiters, mutex[cond[c].mutex_id].owner)
          /\ c \notin ids => cond[c] = NoCond
          /\ c \in ids => cond[c].mutex_id \in MutexIds

(* No recorded invariant break other than the two a process exit can cause *)
(* by dropping a mutex under a cond of another process.                    *)
OnlyExitBreaks ==
    breaks \subseteq {"reacquire_destroyed_mutex", "cond_destroy_unbound_mutex"}

(* With one process no invariant break is ever recorded: none of the       *)
(* host's and runtime's "cannot happen" branches is taken.                 *)
NoBreaks == breaks = {}

(* PendingResponse::CondWakeReacquire: the target mutex of a cond waiter   *)
(* is alive.                                                               *)
MutexOutlivesWaiter ==
    \A c \in CondIds : cond[c].waiters # <<>> => cond[c].mutex_id \in ids

(* MutexEntry::live_conds: conds created on this mutex and not yet         *)
(* destroyed.                                                              *)
LiveCondsExact ==
    \A m \in MutexIds :
        mutex[m].live_conds =
            Cardinality({c \in CondIds \cap ids : cond[c].mutex_id = m})

(* A wait that returns tells the truth about the mutex: a thread resumed   *)
(* from a mutex list owns the mutex, unless its own deadline took it off   *)
(* with ETIMEDOUT; a thread resumed from a cond list, in time or by        *)
(* deadline, owns the cond's mutex unless that mutex is gone (ESRCH).      *)
ReturnsHoldingMutex ==
    [][\A t \in DOMAIN returned' :
        /\ \A m \in MutexWaits(t) :
              IF mutex'[m].owner = t
              THEN returned'[t] = pending[t].arg
              ELSE returned'[t] = "ETIMEDOUT" /\ timer[t] = MutexTimer(m)
        /\ \A c \in CondWaits(t) :
              IF cond[c].mutex_id \in ids
              THEN mutex'[cond[c].mutex_id].owner = t
              ELSE returned'[t] = "ESRCH"]_vars

(* No overtaking: a mutex with waiters changes hands only to the first of  *)
(* them, a thread that arrives goes behind those there, and waiters keep   *)
(* their order until they leave the list.                                  *)
FifoHandoff ==
    [][\A m \in MutexIds :
        LET w == mutex[m].waiters
            v == mutex'[m].waiters
        IN  /\ w # <<>> /\ mutex'[m].owner \notin {mutex[m].owner, NoThread} =>
                  mutex'[m].owner = Head(w)
            /\ \A k, l \in 1..Len(v) :
                  Contains(w, v[k]) /\ ~Contains(w, v[l]) => k < l
            /\ \A i, j \in 1..Len(w) : \A k, l \in 1..Len(v) :
                  i < j /\ w[i] = v[k] /\ w[j] = v[l] => k < l]_vars
=============================================================================
