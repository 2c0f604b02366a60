---------------------------- MODULE LwMutexCond -----------------------------
(***************************************************************************)
(* Lightweight mutexes and condition variables: the kernel side,           *)
(* cellgov_lv2/src/host/lwmutex.rs and host/lwcond.rs over                 *)
(* sync_primitives/lwmutex.rs and lwcond.rs, their timed expiry, and what  *)
(* thread and process exit do to them.  The owner word lives in guest      *)
(* memory and is not the kernel's: an lwmutex here is a sticky signal and  *)
(* a sleep queue.                                                          *)
(***************************************************************************)
EXTENDS WakeProtocol, FiniteSets

CONSTANTS
    LwMutexIds, LwCondIds,  \* kernel ids of the two classes
    Modes,                  \* signal modes the guest's wrapper uses
    OwnsBeforeSignal,       \* whether an OWNED or FORCED signaller really
                            \* took the lwmutex, as its mode says
    HoldsMax                \* u32::MAX, where a hold count saturates

ASSUME LwMutexCondAssumption ==
    /\ LwMutexIds \cap LwCondIds = {}
    /\ Modes \subseteq {"OWNED", "NOT_OWNED", "FORCED"}
    /\ OwnsBeforeSignal \in BOOLEAN
    /\ HoldsMax \in Nat

VARIABLES
    lwmutex,    \* LwMutexTable
    lwcond,     \* LwCondTable: the waiters of each lwcond
    ids,        \* KernelIdTable::live
    holder,     \* KernelIdTable::owners
    holds       \* lwmutex_holds: the count the scheduler reads

tables == <<lwmutex, lwcond, ids, holder>>
vars == <<rtVars, tables, holds>>

Ids == LwMutexIds \cup LwCondIds

(* LwMutexEntry::new; an id that is not live reads as a fresh entry.       *)
NewLwMutex == [signaled |-> FALSE, waiters |-> <<>>]

LwMutexWake == Response("LwMutexWake", "none")
LwMutexTimer(m) == TimerEntry("LwMutex", m, "none")

(* Mutant: the wait's block reason names only the lwmutex. *)
LwCondTimerAsLwMutex(c, m) == LwMutexTimer(m)

(* Lv2BlockReason::LwCond: the lwcond and the lwmutex the wait names.      *)
LwCondTimer(c, m) == TimerEntry("LwCond", c, m)
Timeouts(tmr) == {NoTimer, tmr}

Init ==
    /\ RtInit
    /\ lwmutex = [m \in LwMutexIds |-> NewLwMutex]
    /\ lwcond = [c \in LwCondIds |-> <<>>]
    /\ ids = {}
    /\ holder = [i \in Ids |-> BootProc]
    /\ holds = [t \in Threads |-> 0]

(* A call that answers code and changes no kernel object.                  *)
Answer(t, code) == Immediate(t, code) /\ UNCHANGED <<tables, holds>>

(* Mutant: the count forgets to saturate. *)
CountedUncapped(woken, resp) ==
    [t \in Threads |->
        IF t \in Wakeable(woken) /\ resp[t] = LwMutexWake
        THEN holds[t] + 1 ELSE holds[t]]

(* The hold counts after resolve_sync_wakes resumes woken from the         *)
(* response table resp: an LwMutexWake counts one more hold.               *)
Counted(woken, resp) ==
    [t \in Threads |->
        IF /\ t \in Wakeable(woken)
           /\ resp[t] = LwMutexWake
           /\ holds[t] < HoldsMax
        THEN holds[t] + 1 ELSE holds[t]]

-----------------------------------------------------------------------------
(* Lwmutex calls.                                                          *)

(* dispatch_lwmutex_create.  The id is minted before the null out-pointer  *)
(* is noticed, so the EFAULT create leaves a live lwmutex behind.          *)
LwMutexCreate(t) ==
    \/ LwMutexIds \subseteq ids /\ Answer(t, "EAGAIN")
    \/ \E m \in LwMutexIds \ ids, code \in {"OK", "EFAULT"} :
          /\ lwmutex' = [lwmutex EXCEPT ![m] = NewLwMutex]
          /\ ids' = ids \cup {m}
          /\ holder' = [holder EXCEPT ![m] = ProcOf[t]]
          /\ Immediate(t, code)
          /\ UNCHANGED <<lwcond, holds>>

(* dispatch_lwmutex_destroy: only sleepers make it busy, not a signal.     *)
LwMutexDestroy(t, m) ==
    \/ m \notin ids /\ Answer(t, "ESRCH")
    \/ m \in ids /\ lwmutex[m].waiters # <<>> /\ Answer(t, "EBUSY")
    \/ /\ m \in ids /\ lwmutex[m].waiters = <<>>
       /\ lwmutex' = [lwmutex EXCEPT ![m] = NewLwMutex]
       /\ ids' = ids \ {m}
       /\ Immediate(t, "OK")
       /\ UNCHANGED <<lwcond, holder, holds>>

(* LwMutexTable::try_acquire that finds the signal set.                    *)
ConsumeSignal(t, m) ==
    /\ m \in ids
    /\ lwmutex[m].signaled
    /\ lwmutex' = [lwmutex EXCEPT ![m].signaled = FALSE]
    /\ Immediate(t, "OK")
    /\ UNCHANGED <<lwcond, ids, holder, holds>>

(* Mutant: a lock parks without looking at the signal. *)
LwMutexLockUnsignaled(t, m) ==
    /\ m \in ids
    /\ lwmutex' = [lwmutex EXCEPT ![m].waiters = Enqueue(@, t)]
    /\ \E tmr \in Timeouts(LwMutexTimer(m)) : Block(t, LwMutexWake, tmr)
    /\ UNCHANGED <<lwcond, ids, holder, holds>>

(* dispatch_lwmutex_lock over acquire_or_enqueue: consume the signal or    *)
(* park.  A caller already on the queue would be refused.                  *)
LwMutexLock(t, m) ==
    \/ m \notin ids /\ Answer(t, "ESRCH")
    \/ ConsumeSignal(t, m)
    \/ /\ m \in ids /\ ~lwmutex[m].signaled
       /\ IF Contains(lwmutex[m].waiters, t) THEN Answer(t, "EDEADLK")
          ELSE /\ lwmutex' = [lwmutex EXCEPT ![m].waiters = Enqueue(@, t)]
               /\ \E tmr \in Timeouts(LwMutexTimer(m)) :
                     Block(t, LwMutexWake, tmr)
               /\ UNCHANGED <<lwcond, ids, holder, holds>>

(* dispatch_lwmutex_trylock                                                *)
LwMutexTrylock(t, m) ==
    \/ m \notin ids /\ Answer(t, "ESRCH")
    \/ ConsumeSignal(t, m)
    \/ m \in ids /\ ~lwmutex[m].signaled /\ Answer(t, "EBUSY")

(* Mutant: the signal is set beside a transfer. *)
LwReleasedAlways(e) ==
    [signaled |-> TRUE,
     waiters |-> IF e.waiters = <<>> THEN <<>> ELSE Tail(e.waiters)]

(* release_and_wake_next: the head of the sleep queue leaves it as the new *)
(* owner, or the signal is set for the next lock.                          *)
LwReleased(e) ==
    IF e.waiters = <<>> THEN [e EXCEPT !.signaled = TRUE]
    ELSE [e EXCEPT !.waiters = Tail(@)]
LwInheritor(e) == IF e.waiters = <<>> THEN {} ELSE {Head(e.waiters)}

(* dispatch_lwmutex_unlock: any thread's unlock releases.                  *)
LwMutexUnlock(t, m) ==
    \/ m \notin ids /\ Answer(t, "ESRCH")
    \/ /\ m \in ids
       /\ lwmutex' = [lwmutex EXCEPT ![m] = LwReleased(@)]
       /\ LET woken == LwInheritor(lwmutex[m])
          IN  /\ WakeAndReturn(t, "OK", woken, NoUpdates, {})
              /\ holds' = Counted(woken, pending)
       /\ UNCHANGED <<lwcond, ids, holder>>

-----------------------------------------------------------------------------
(* Lwcond calls.                                                           *)

(* dispatch_lwcond_create *)
LwCondCreate(t, m) ==
    \/ m \notin ids /\ Answer(t, "ESRCH")
    \/ m \in ids /\ Answer(t, "EFAULT")
    \/ m \in ids /\ LwCondIds \subseteq ids /\ Answer(t, "EAGAIN")
    \/ /\ m \in ids
       /\ \E c \in LwCondIds \ ids :
             /\ ids' = ids \cup {c}
             /\ holder' = [holder EXCEPT ![c] = ProcOf[t]]
       /\ Immediate(t, "OK")
       /\ UNCHANGED <<lwmutex, lwcond, holds>>

(* dispatch_lwcond_destroy *)
LwCondDestroy(t, c) ==
    \/ c \notin ids /\ Answer(t, "ESRCH")
    \/ c \in ids /\ lwcond[c] # <<>> /\ Answer(t, "EBUSY")
    \/ /\ c \in ids /\ lwcond[c] = <<>>
       /\ ids' = ids \ {c}
       /\ Immediate(t, "OK")
       /\ UNCHANGED <<lwmutex, lwcond, holder, holds>>

(* dispatch_lwcond_queue_wait: park on c, then release the lwmutex m.      *)
LwCondQueueWait(t, c, m) ==
    \/ {c, m} \cap ids # {c, m} /\ Answer(t, "ESRCH")
    \/ /\ {c, m} \subseteq ids
       /\ LET woken == LwInheritor(lwmutex[m])
          IN  IF Contains(lwcond[c], t)
              THEN /\ WakeAndReturn(t, "EDEADLK", {}, NoUpdates,
                                    {"lwcond_duplicate_waiter"})
                   /\ UNCHANGED <<tables, holds>>
              ELSE /\ lwcond' = [lwcond EXCEPT ![c] = Enqueue(@, t)]
                   /\ lwmutex' = [lwmutex EXCEPT ![m] = LwReleased(@)]
                   /\ \E tmr \in Timeouts(LwCondTimer(c, m)) :
                         BlockAndWake(t, LwMutexWake, tmr, woken)
                   /\ holds' = Counted(woken, pending)
                   /\ UNCHANGED <<ids, holder>>

(* coded_wake: the waiters W wake with waiterCode, the signaller returns   *)
(* code.                                                                   *)
WakeCoded(t, W, waiterCode, code, brk) ==
    LET upd == [u \in W |-> ReturnCode(waiterCode)]
    IN  WakeAndReturn(t, code, W, upd, brk) /\ UNCHANGED holds

(* The waiters of w that lwcond_move_to_lwmutex cannot park on m.          *)
Stranded(w, m) == {u \in Waiting(w) : Contains(lwmutex[m].waiters, u)}

(* Mutant: the moved waiters jump the sleep queue. *)
MovedFront(w, m) == w \o lwmutex[m].waiters

(* lwcond_move_to_lwmutex over the waiters w, in order: they sleep on m    *)
(* behind those there, with their response and their deadline untouched.   *)
Moved(w, m) == lwmutex[m].waiters \o RemoveSet(w, Stranded(w, m))

(* The OWNED hand-off of the waiters w; the call returns code.             *)
SignalOwned(t, w, m, code) ==
    /\ OwnsBeforeSignal => ~lwmutex[m].signaled
    /\ lwmutex' = [lwmutex EXCEPT ![m].waiters = Moved(w, m)]
    /\ WakeCoded(t, Stranded(w, m), "ESRCH", code,
                 IF Stranded(w, m) = {} THEN {} ELSE {"lwmutex_enqueue"})

(* lwcond_forced_hand_off of the waiter u: with no sleeper the lwmutex     *)
(* passes to it, otherwise to the oldest sleeper and u queues.             *)
SignalForced(t, u, m) ==
    LET sleepers == lwmutex[m].waiters
        woken    == IF sleepers = <<>> THEN {u} ELSE {Head(sleepers)}
    IN  /\ OwnsBeforeSignal => ~lwmutex[m].signaled
        /\ IF Contains(sleepers, u)
           THEN /\ WakeCoded(t, {u}, "ESRCH", "OK", {"lwmutex_enqueue"})
                /\ UNCHANGED lwmutex
           ELSE /\ lwmutex' = IF sleepers = <<>> THEN lwmutex
                              ELSE [lwmutex EXCEPT
                                      ![m].waiters = Tail(Moved(<<u>>, m))]
                /\ WakeAndReturn(t, "OK", woken, NoUpdates, {})
                /\ holds' = Counted(woken, pending)

(* What a signal that finds no waiter answers: named, whether the caller   *)
(* named a thread.                                                         *)
NobodyCode(named, mode) ==
    CASE ~named /\ mode = "NOT_OWNED" -> "OK"
      [] ~named /\ mode = "FORCED"    -> "ENOENT"
      [] OTHER                        -> "EPERM"

(* dispatch_lwcond_signal of the waiter u, which leaves c.                 *)
SignalWaiter(t, c, m, u, mode) ==
    /\ lwcond' = [lwcond EXCEPT ![c] = Remove(@, u)]
    /\ \/ mode = "NOT_OWNED" /\ WakeCoded(t, {u}, "EBUSY", "OK", {})
                             /\ UNCHANGED lwmutex
       \/ mode = "OWNED" /\ SignalOwned(t, <<u>>, m, "OK")
       \/ mode = "FORCED" /\ SignalForced(t, u, m)
    /\ UNCHANGED <<ids, holder>>

(* The ids a signal needs to name live objects.                            *)
SignalIds(c, m, mode) == IF mode = "NOT_OWNED" THEN {c} ELSE {c, m}

(* dispatch_lwcond_signal of the head waiter, or of the named target.  A   *)
(* finished target may have left the thread table.                         *)
LwCondSignal(t, c, m, mode) ==
    \/ Answer(t, "EINVAL") \* a mode outside the three
    \/ ~(SignalIds(c, m, mode) \subseteq ids) /\ Answer(t, "ESRCH")
    \/ /\ SignalIds(c, m, mode) \subseteq ids
       /\ IF lwcond[c] = <<>> THEN Answer(t, NobodyCode(FALSE, mode))
          ELSE SignalWaiter(t, c, m, Head(lwcond[c]), mode)
LwCondSignalTo(t, c, m, target, mode) ==
    \/ ~(SignalIds(c, m, mode) \subseteq ids) /\ Answer(t, "ESRCH")
    \/ status[target] = "Finished" /\ Answer(t, "ESRCH")
    \/ /\ SignalIds(c, m, mode) \subseteq ids
       /\ IF Contains(lwcond[c], target)
          THEN SignalWaiter(t, c, m, target, mode)
          ELSE Answer(t, NobodyCode(TRUE, mode))

(* dispatch_lwcond_signal_all.  The OWNED call returns how many it moved,  *)
(* abstracted to OK.                                                       *)
LwCondSignalAll(t, c, m, mode) ==
    \/ mode = "FORCED" /\ Answer(t, "EINVAL")
    \/ /\ mode # "FORCED" /\ ~(SignalIds(c, m, mode) \subseteq ids)
       /\ Answer(t, "ESRCH")
    \/ /\ mode # "FORCED" /\ SignalIds(c, m, mode) \subseteq ids
       /\ lwcond' = [lwcond EXCEPT ![c] = <<>>]
       /\ \/ /\ mode = "NOT_OWNED"
             /\ WakeCoded(t, Waiting(lwcond[c]), "EBUSY", "OK", {})
             /\ UNCHANGED lwmutex
          \/ mode = "OWNED" /\ SignalOwned(t, lwcond[c], m, "OK")
       /\ UNCHANGED <<ids, holder>>

-----------------------------------------------------------------------------
(* Timed-wait expiry (expire_wait).                                        *)

(* The LwMutex arm *)
ExpireLwMutexWait(t) ==
    LET m == timer[t].id
        removed == m \in ids /\ Contains(lwmutex[m].waiters, t)
    IN  /\ timer[t].kind = "LwMutex"
        /\ lwmutex' = IF removed
                      THEN [lwmutex EXCEPT ![m].waiters = Remove(@, t)]
                      ELSE lwmutex
        /\ ResolveExpiry(t, ExpireUnqueued(t, removed))
        /\ UNCHANGED <<lwcond, ids, holder, holds>>

(* Mutant: only the lwcond's own list is searched. *)
ExpireLwCondWaitOneList(t) ==
    LET c == timer[t].id
        removed == Contains(lwcond[c], t)
    IN  /\ timer[t].kind = "LwCond"
        /\ lwcond' = IF removed THEN [lwcond EXCEPT ![c] = Remove(@, t)]
                     ELSE lwcond
        /\ ResolveExpiry(t, ExpireUnqueued(t, removed))
        /\ UNCHANGED <<lwmutex, ids, holder, holds>>

(* The LwCond arm: the waiter is on the lwcond's list, or a signal moved   *)
(* it to the sleep queue of the lwmutex it released.                       *)
ExpireLwCondWait(t) ==
    LET c == timer[t].id
        m == timer[t].companion
        onCond  == c \in ids /\ Contains(lwcond[c], t)
        onMutex == m \in ids /\ Contains(lwmutex[m].waiters, t)
    IN  /\ timer[t].kind = "LwCond"
        /\ lwcond' = IF onCond THEN [lwcond EXCEPT ![c] = Remove(@, t)]
                     ELSE lwcond
        /\ lwmutex' = IF ~onCond /\ onMutex
                      THEN [lwmutex EXCEPT ![m].waiters = Remove(@, t)]
                      ELSE lwmutex
        /\ ResolveExpiry(t, ExpireUnqueued(t, onCond \/ onMutex))
        /\ UNCHANGED <<ids, holder, holds>>

-----------------------------------------------------------------------------
(* Exits.                                                                  *)

(* The heads of all sleep queues.                                          *)
AllHeads == UNION {LwInheritor(lwmutex[m]) : m \in LwMutexIds}

(* dispatch_ppu_thread_exit and handle_ppu_thread_exit: the thread is      *)
(* finished and uncounted, and every lwmutex with sleepers, whoever owns   *)
(* it, passes to its head (release_held_lwmutexes_on_exit).                *)
ThreadExit(t) ==
    /\ lwmutex' = [m \in LwMutexIds |->
                      IF lwmutex[m].waiters = <<>> THEN lwmutex[m]
                      ELSE LwReleased(lwmutex[m])]
    /\ status' = [u \in Threads |->
                     IF u = t THEN "Finished"
                     ELSE IF u \in AllHeads THEN "Runnable" ELSE status[u]]
    /\ pending' = [u \in Threads |->
                     IF u \in AllHeads THEN NoResponse ELSE pending[u]]
    /\ timer' = [u \in Threads |-> IF u \in AllHeads THEN NoTimer ELSE timer[u]]
    /\ returned' = [u \in AllHeads |-> ReturnOf(pending[u])]
    /\ breaks' = breaks \cup WakeBreaks(AllHeads, pending)
    /\ holds' = [Counted(AllHeads, pending) EXCEPT ![t] = 0]
    /\ UNCHANGED <<lwcond, ids, holder>>

(* Mutant: the purge forgets the lwcond lists. *)
UnpurgedLwCond(S) == lwcond

(* purge_waiters_of on both tables, for the threads S.                     *)
PurgedLwMutex(S) ==
    [m \in LwMutexIds |-> [lwmutex[m] EXCEPT !.waiters = RemoveSet(@, S)]]
PurgedLwCond(S) == [c \in LwCondIds |-> RemoveSet(lwcond[c], S)]

(* drop_exited_object: the ids of process p that keep no waiter.           *)
DroppedIds(p, S) ==
    {i \in ids :
        /\ holder[i] = p
        /\ i \in LwMutexIds => PurgedLwMutex(S)[i].waiters = <<>>
        /\ i \in LwCondIds => PurgedLwCond(S)[i] = <<>>}

(* handle_process_exit_child and mark_process_exited                       *)
ChildExit(p) ==
    LET S == UnitsOf(p)
        D == DroppedIds(p, S)
    IN  /\ lwmutex' = [m \in LwMutexIds |->
                        IF m \in D THEN NewLwMutex ELSE PurgedLwMutex(S)[m]]
        /\ lwcond' = PurgedLwCond(S)
        /\ ids' = ids \ D
        /\ RetireUnits(UnitsOf(p))
        /\ UNCHANGED <<holder, holds>>

(* sys_process_exit by t.                                                  *)
ProcessExit(t) ==
    \/ ProcOf[t] # BootProc /\ ChildExit(ProcOf[t])
    \/ /\ ProcOf[t] = BootProc
       /\ RetireUnits(Threads)
       /\ UNCHANGED <<tables, holds>>

-----------------------------------------------------------------------------
Syscall(t) ==
    \/ LwMutexCreate(t)
    \/ \E m \in LwMutexIds :
          \/ LwMutexDestroy(t, m) \/ LwMutexLock(t, m)
          \/ LwMutexTrylock(t, m) \/ LwMutexUnlock(t, m)
          \/ LwCondCreate(t, m)
          \/ \E c \in LwCondIds :
                \/ LwCondQueueWait(t, c, m)
                \/ \E mode \in Modes :
                      \/ LwCondSignal(t, c, m, mode)
                      \/ LwCondSignalAll(t, c, m, mode)
                      \/ \E target \in Threads :
                            LwCondSignalTo(t, c, m, target, mode)
    \/ \E c \in LwCondIds : LwCondDestroy(t, c)
    \/ ThreadExit(t)
    \/ ProcessExit(t)

FireTimer(t) == ExpireLwMutexWait(t) \/ ExpireLwCondWait(t)

Next == \E t \in Threads :
    \/ status[t] = "Runnable" /\ Syscall(t)
    \/ FireTimer(t)

(* A queued deadline fires: fire_timer_wakes runs at every step entry, and *)
(* select_or_warp moves time to the next deadline when all are blocked.    *)
Fairness == \A t \in Threads : WF_vars(FireTimer(t))
Spec == Init /\ [][Next]_vars
FairSpec == Spec /\ Fairness
-----------------------------------------------------------------------------
(* Properties.                                                             *)

Codes == {"OK", "EFAULT", "EINVAL", "EAGAIN", "ESRCH", "EBUSY", "EPERM",
          "EDEADLK", "ENOENT", "ETIMEDOUT"}
Responses == {NoResponse, LwMutexWake}
Timers ==
    {NoTimer} \cup {LwMutexTimer(m) : m \in LwMutexIds}
              \cup {LwCondTimer(c, m) : c \in LwCondIds, m \in LwMutexIds}

(* Type invariant: the tables keep their shape, and no response other than *)
(* an LwMutexWake is ever left staged.                                     *)
TypeOK ==
    /\ RtTypeOK(Responses, Timers, Codes)
    /\ lwmutex \in [LwMutexIds -> [signaled : BOOLEAN, waiters : Seq(Threads)]]
    /\ lwcond \in [LwCondIds -> Seq(Threads)]
    /\ ids \subseteq Ids
    /\ holder \in [Ids -> Procs]
    /\ holds \in [Threads -> 0..HoldsMax]

(* The lists thread t is parked on.                                        *)
LwMutexWaits(t) == {m \in LwMutexIds : Contains(lwmutex[m].waiters, t)}
LwCondWaits(t) == {c \in LwCondIds : Contains(lwcond[c], t)}

(* No lost wake: a thread is owed a response exactly while it is Blocked,  *)
(* and then it is on exactly one list, once, of a live object, whether its *)
(* own call, an OWNED signal or a FORCED one put it there.                 *)
OneWaker ==
    Halted \/
    \A t \in Threads :
        /\ (status[t] = "Blocked") <=> (pending[t] # NoResponse)
        /\ LET places == LwMutexWaits(t) \cup LwCondWaits(t)
           IN  IF status[t] = "Blocked" THEN \E i \in ids : places = {i}
               ELSE places = {}
        /\ \A m \in LwMutexIds : NoDuplicates(lwmutex[m].waiters)
        /\ \A c \in LwCondIds : NoDuplicates(lwcond[c])

(* expire.rs: a missing waiter record at expiry time is a host invariant   *)
(* break.  A live deadline finds its thread on the list its block reason   *)
(* names, or, for an lwcond wait, on the sleep queue a signal moved it to. *)
DeadlineFindsWaiter ==
    \A t \in Threads :
        /\ timer[t] # NoTimer => status[t] = "Blocked"
        /\ timer[t].kind = "LwMutex" => timer[t].id \in LwMutexWaits(t)
        /\ timer[t].kind = "LwCond" =>
              \/ timer[t].id \in LwCondWaits(t)
              \/ timer[t].companion \in LwMutexWaits(t)

(* None of the "cannot happen" branches is taken.                          *)
NoBreaks == breaks = {}

(* A thread never sleeps beside a pending signal, which would let the next *)
(* lock overtake it: release_and_wake_next sets the signal only on an      *)
(* empty queue and acquire_or_enqueue takes it before it parks.            *)
NoSleeperBesideSignal ==
    \A m \in LwMutexIds : lwmutex[m].signaled => lwmutex[m].waiters = <<>>

(* lwmutex_holds_for: the distinct lwmutexes currently held by a thread,   *)
(* which are no more than there are.                                       *)
HoldsDistinct ==
    \A t \in Threads : holds[t] <= Cardinality(LwMutexIds)

(* One release is one grant: a step resumes at most the head of a sleep    *)
(* queue as the new owner, and a step that does so raises no signal that   *)
(* would let a second thread in.                                           *)
OneGrant ==
    [][\A m \in LwMutexIds : \A t \in DOMAIN returned' :
        Contains(lwmutex[m].waiters, t) /\ returned'[t] = "OK" =>
            /\ t = Head(lwmutex[m].waiters)
            /\ lwmutex'[m].signaled = lwmutex[m].signaled]_vars

(* Sleepers keep their order, and the waiters a signal moves off an lwcond *)
(* sleep behind them in the order they waited.                             *)
FifoSleepers ==
    [][\A m \in LwMutexIds, c \in LwCondIds :
        LET w == lwmutex[m].waiters \o lwcond[c]
            v == lwmutex'[m].waiters
        IN  \A i, j \in 1..Len(w) : \A k, l \in 1..Len(v) :
                i < j /\ w[i] = v[k] /\ w[j] = v[l] => k < l]_vars

(* A timed wait ends: a thread parked with a deadline leaves Blocked, also *)
(* when an OWNED or FORCED signal moved it to a sleep queue meanwhile.     *)
TimedWaitEnds ==
    \A t \in Threads :
        (timer[t] # NoTimer) ~> (status[t] # "Blocked")
=============================================================================
