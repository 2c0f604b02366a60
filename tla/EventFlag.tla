----------------------------- MODULE EventFlag ------------------------------
(***************************************************************************)
(* Event flags: cellgov_lv2/src/host/event_flag.rs over                    *)
(* sync_primitives/event_flag.rs, with timed expiry and exits.  A pattern  *)
(* is the set of its one bits.                                             *)
(***************************************************************************)
EXTENDS WakeProtocol

CONSTANTS
    FlagIds,    \* kernel ids of the class
    Bits,       \* the bits of a pattern (0..63)
    WaitModes   \* the modes waits use

(* EventFlagWaitMode: match all or any of the mask, and what a match       *)
(* clears.                                                                 *)
AllModes == [all : BOOLEAN, clear : {"none", "mask", "every"}]

ASSUME EventFlagAssumption == WaitModes \subseteq AllModes

VARIABLES
    flag,       \* EventFlagTable
    stored,     \* the patterns the last step stored through result pointers
    ids,        \* KernelIdTable::live
    holder      \* KernelIdTable::owners

hostVars == <<flag, ids, holder>>
vars == <<rtVars, hostVars, stored>>

Patterns == SUBSET Bits
NewFlag(init) == [bits |-> init, waiters |-> <<>>]
Waiter(t, mask, mode) == [thread |-> t, mask |-> mask, mode |-> mode]

EventFlagWake == Response("EventFlagWake", "none")
EventFlagCancelWake == Response("EventFlagCancelWake", "none")
FlagTimer(f) == TimerEntry("EventFlag", f, "none")
NoStores == [t \in {} |-> {}]

Init ==
    /\ RtInit
    /\ flag = [f \in FlagIds |-> NewFlag({})]
    /\ stored = NoStores
    /\ ids = {}
    /\ holder = [f \in FlagIds |-> BootProc]

(* The threads on a flag's waiter list, in order.                          *)
ThreadsOf(w) == [i \in DOMAIN w |-> w[i].thread]

(* A call that answers code and changes no flag; a wait or trywait that is *)
(* refused stores the empty pattern, the others nothing.                   *)
Answer(t, code) ==
    Immediate(t, code) /\ stored' = NoStores /\ UNCHANGED hostVars
Refuse(t, code) ==
    Immediate(t, code) /\ stored' = [u \in {t} |-> {}] /\ UNCHANGED hostVars

(* dispatch_event_flag_create *)
FlagCreate(t) ==
    \/ \E code \in {"EFAULT", "EINVAL"} : Answer(t, code)
    \/ FlagIds \subseteq ids /\ Answer(t, "EAGAIN")
    \/ \E f \in FlagIds \ ids, init \in Patterns :
          /\ flag' = [flag EXCEPT ![f] = NewFlag(init)]
          /\ ids' = ids \cup {f}
          /\ holder' = [holder EXCEPT ![f] = ProcOf[t]]
          /\ stored' = NoStores
          /\ Immediate(t, "OK")

(* dispatch_event_flag_destroy *)
FlagDestroy(t, f) ==
    \/ f \notin ids /\ Answer(t, "ESRCH")
    \/ f \in ids /\ flag[f].waiters # <<>> /\ Answer(t, "EBUSY")
    \/ /\ f \in ids /\ flag[f].waiters = <<>>
       /\ flag' = [flag EXCEPT ![f] = NewFlag({})]
       /\ ids' = ids \ {f}
       /\ stored' = NoStores
       /\ Immediate(t, "OK")
       /\ UNCHANGED holder

(* mask_matches and cleared_bits, for a waiter's mask and mode.            *)
MaskMatches(bits, w) ==
    IF w.mode.all THEN w.mask \subseteq bits ELSE w.mask \cap bits # {}
ClearedBits(w) ==
    CASE w.mode.clear = "none"  -> {}
      [] w.mode.clear = "mask"  -> w.mask
      [] w.mode.clear = "every" -> Bits

(* event_flag_poll that matches: the caller takes the pre-clear pattern.   *)
PollMatches(f, w) ==
    /\ f \in ids
    /\ MaskMatches(flag[f].bits, w)
    /\ flag' = [flag EXCEPT ![f].bits = @ \ ClearedBits(w)]
    /\ stored' = [u \in {w.thread} |-> flag[f].bits]
    /\ Immediate(w.thread, "OK")
    /\ UNCHANGED <<ids, holder>>

(* dispatch_event_flag_wait with waiter record w of t: match or park.      *)
FlagWait(t, f, w) ==
    \/ f \notin ids /\ Refuse(t, "ESRCH")
    \/ f \in ids /\ Refuse(t, "EINVAL")    \* a mode word that does not decode
    \/ PollMatches(f, w)
    \/ /\ f \in ids /\ ~MaskMatches(flag[f].bits, w)
       /\ IF Contains(ThreadsOf(flag[f].waiters), t) THEN Refuse(t, "EFAULT")
          ELSE /\ flag' = [flag EXCEPT ![f].waiters = Append(@, w)]
               /\ stored' = NoStores
               /\ \E tmr \in {NoTimer, FlagTimer(f)} :
                     Block(t, EventFlagWake, tmr)
               /\ UNCHANGED <<ids, holder>>

(* dispatch_event_flag_trywait *)
FlagTrywait(t, f, w) ==
    \/ f \notin ids /\ Refuse(t, "ESRCH")
    \/ f \in ids /\ Refuse(t, "EINVAL")
    \/ PollMatches(f, w)
    \/ f \in ids /\ ~MaskMatches(flag[f].bits, w) /\ Refuse(t, "EBUSY")

(* Mutant: every waiter is tested before any clear. *)
BitsBeforeUncleared(e, bits) == [i \in 1..Len(e.waiters) + 1 |-> e.bits \cup bits]

(* The pattern set_and_wake's scan tests waiter i against, and (one past   *)
(* the end) leaves in the flag: bits is ORed in, and each waiter that      *)
(* matches, in order, clears what its mode says.                           *)
BitsBefore(e, bits) ==
    LET at[i \in 1..Len(e.waiters) + 1] ==
            IF i = 1 THEN e.bits \cup bits
            ELSE LET w == e.waiters[i - 1]
                 IN  IF MaskMatches(at[i - 1], w)
                     THEN at[i - 1] \ ClearedBits(w) ELSE at[i - 1]
    IN  at

(* Mutants: the scan ends at the first waiter it wakes, or runs from the   *)
(* newest waiter to the oldest.                                            *)
SetAndWakeOne(e, bits) ==
    LET at  == BitsBefore(e, bits)
        hit == {i \in 1..Len(e.waiters) : MaskMatches(at[i], e.waiters[i])}
        one == {i \in hit : \A j \in hit : i <= j}
        W   == {e.waiters[i].thread : i \in one}
    IN  [entry |-> [bits |-> IF one = {} THEN at[1]
                             ELSE at[(CHOOSE i \in one : TRUE) + 1],
                    waiters |-> SelectSeq(e.waiters,
                                          LAMBDA w : w.thread \notin W)],
         observed |-> [t \in W |->
                          at[CHOOSE i \in one : e.waiters[i].thread = t]]]
SetAndWakeNewest(e, bits) ==
    LET n   == Len(e.waiters)
        rev == [e EXCEPT !.waiters = [i \in 1..n |-> e.waiters[n + 1 - i]]]
        at  == BitsBefore(rev, bits)
        hit == {i \in 1..n : MaskMatches(at[i], rev.waiters[i])}
        W   == {rev.waiters[i].thread : i \in hit}
    IN  [entry |-> [bits |-> at[n + 1],
                    waiters |-> SelectSeq(e.waiters,
                                          LAMBDA w : w.thread \notin W)],
         observed |-> [t \in W |->
                          at[CHOOSE i \in hit : rev.waiters[i].thread = t]]]

(* set_and_wake: what is left of the flag, and what each woken thread saw. *)
SetAndWake(e, bits) ==
    LET at   == BitsBefore(e, bits)
        hit  == {i \in 1..Len(e.waiters) : MaskMatches(at[i], e.waiters[i])}
        W    == {e.waiters[i].thread : i \in hit}
    IN  [entry |-> [bits |-> at[Len(e.waiters) + 1],
                    waiters |-> SelectSeq(e.waiters,
                                          LAMBDA w : w.thread \notin W)],
         observed |-> [t \in W |->
                          at[CHOOSE i \in hit : e.waiters[i].thread = t]]]

(* dispatch_event_flag_set *)
FlagSet(t, f, bits) ==
    \/ f \notin ids /\ Answer(t, "ESRCH")
    \/ /\ f \in ids
       /\ LET out == SetAndWake(flag[f], bits)
              W   == DOMAIN out.observed
          IN  /\ flag' = [flag EXCEPT ![f] = out.entry]
              /\ stored' = out.observed
              /\ WakeAndReturn(t, "OK", W, [u \in W |-> EventFlagWake], {})
       /\ UNCHANGED <<ids, holder>>

(* dispatch_event_flag_clear keeps only the bits it names.                 *)
FlagClear(t, f, bits) ==
    \/ f \notin ids /\ Answer(t, "ESRCH")
    \/ /\ f \in ids
       /\ flag' = [flag EXCEPT ![f].bits = @ \cap bits]
       /\ stored' = NoStores
       /\ Immediate(t, "OK")
       /\ UNCHANGED <<ids, holder>>

(* Mutants: the cancel restages its waiters and forgets to wake them; it   *)
(* wakes them without restaging ECANCELED.                                 *)
FlagCancelAsleep(t, f) ==
    LET W == Waiting(ThreadsOf(flag[f].waiters))
    IN  /\ f \in ids
        /\ flag' = [flag EXCEPT ![f].waiters = <<>>]
        /\ stored' = NoStores
        /\ WakeAndReturn(t, "OK", {}, [u \in W |-> EventFlagCancelWake], {})
        /\ UNCHANGED <<ids, holder>>
FlagCancelAsWake(t, f) ==
    LET W == Waiting(ThreadsOf(flag[f].waiters))
    IN  /\ f \in ids
        /\ flag' = [flag EXCEPT ![f].waiters = <<>>]
        /\ stored' = [u \in W |-> flag[f].bits]
        /\ WakeAndReturn(t, "OK", W, NoUpdates, {})
        /\ UNCHANGED <<ids, holder>>

(* dispatch_event_flag_cancel: every waiter returns ECANCELED with the     *)
(* current pattern.  The count it reports is left out.                     *)
FlagCancel(t, f) ==
    LET W == Waiting(ThreadsOf(flag[f].waiters))
    IN  \/ f \notin ids /\ Answer(t, "ESRCH")
        \/ /\ f \in ids
           /\ flag' = [flag EXCEPT ![f].waiters = <<>>]
           /\ stored' = [u \in W |-> flag[f].bits]
           /\ WakeAndReturn(t, "OK", W, [u \in W |-> EventFlagCancelWake], {})
           /\ UNCHANGED <<ids, holder>>

(* dispatch_event_flag_get *)
FlagGet(t, f) ==
    \/ f \notin ids /\ Answer(t, "ESRCH")
    \/ f \in ids /\ \E code \in {"OK", "EFAULT"} : Answer(t, code)

-----------------------------------------------------------------------------
Without(w, S) == SelectSeq(w, LAMBDA e : e.thread \notin S)

(* Mutant: the waiter record is removed before it is looked for. *)
ExpireFlagWaitUnfound(t) ==
    LET f == timer[t].id
    IN  /\ timer[t].kind = "EventFlag"
        /\ flag' = [flag EXCEPT ![f].waiters = Without(@, {t})]
        /\ stored' = NoStores
        /\ ResolveExpiry(t, ExpireUnqueued(t, FALSE))
        /\ UNCHANGED <<ids, holder>>

(* The EventFlag arm of expire_wait: ETIMEDOUT with the current pattern.   *)
ExpireFlagWait(t) ==
    LET f == timer[t].id
        removed == f \in ids /\ Contains(ThreadsOf(flag[f].waiters), t)
    IN  /\ timer[t].kind = "EventFlag"
        /\ flag' = IF removed
                   THEN [flag EXCEPT ![f].waiters = Without(@, {t})] ELSE flag
        /\ stored' = IF removed THEN [u \in {t} |-> flag[f].bits] ELSE NoStores
        /\ ResolveExpiry(t, ExpireUnqueued(t, removed))
        /\ UNCHANGED <<ids, holder>>

(* handle_ppu_thread_exit *)
ThreadExit(t) ==
    /\ status' = [status EXCEPT ![t] = "Finished"]
    /\ returned' = NoReturns
    /\ stored' = NoStores
    /\ UNCHANGED <<pending, timer, breaks, hostVars>>

(* Mutant: a child's exit leaves its threads queued. *)
UnpurgedFlag(S) == flag

(* purge_waiters_of, for the threads S.                                    *)
PurgedFlag(S) ==
    [f \in FlagIds |-> [flag[f] EXCEPT !.waiters = Without(@, S)]]

(* mark_process_exited over drop_exited_object.                            *)
ChildExit(p) ==
    LET purged == PurgedFlag(UnitsOf(p))
        D == {f \in ids : holder[f] = p /\ purged[f].waiters = <<>>}
    IN  /\ flag' = [f \in FlagIds |->
                       IF f \in D THEN NewFlag({}) ELSE purged[f]]
        /\ ids' = ids \ D
        /\ RetireUnits(UnitsOf(p))
        /\ UNCHANGED holder

(* sys_process_exit by t.                                                  *)
ProcessExit(t) ==
    /\ \/ ProcOf[t] # BootProc /\ ChildExit(ProcOf[t])
       \/ ProcOf[t] = BootProc /\ RetireUnits(Threads) /\ UNCHANGED hostVars
    /\ stored' = NoStores

Syscall(t) ==
    \/ FlagCreate(t)
    \/ \E f \in FlagIds :
          \/ FlagDestroy(t, f) \/ FlagCancel(t, f) \/ FlagGet(t, f)
          \/ \E bits \in Patterns : FlagSet(t, f, bits) \/ FlagClear(t, f, bits)
          \/ \E mask \in Patterns, mode \in WaitModes :
                \/ FlagWait(t, f, Waiter(t, mask, mode))
                \/ FlagTrywait(t, f, Waiter(t, mask, mode))
    \/ ThreadExit(t)
    \/ ProcessExit(t)

Next == \E t \in Threads :
    \/ status[t] = "Runnable" /\ Syscall(t)
    \/ ExpireFlagWait(t)

Spec == Init /\ [][Next]_vars

-----------------------------------------------------------------------------
(* Properties.                                                             *)

Codes == {"OK", "EFAULT", "EINVAL", "EAGAIN", "ESRCH", "EBUSY", "ETIMEDOUT",
          "ECANCELED"}
Timers == {NoTimer} \cup {FlagTimer(f) : f \in FlagIds}
Waiters == [thread : Threads, mask : Patterns, mode : AllModes]

(* Type invariant: tables keep their shape, and no wake is left staged.    *)
TypeOK ==
    /\ RtTypeOK({NoResponse, EventFlagWake}, Timers, Codes)
    /\ flag \in [FlagIds -> [bits : Patterns, waiters : Seq(Waiters)]]
    /\ DOMAIN stored \subseteq Threads
    /\ \A t \in DOMAIN stored : stored[t] \in Patterns
    /\ ids \subseteq FlagIds
    /\ holder \in [FlagIds -> Procs]

FlagWaits(t) == {f \in FlagIds : Contains(ThreadsOf(flag[f].waiters), t)}

(* No lost wake and no stale deadline: a thread is owed a response exactly  *)
(* while Blocked, is then on exactly one live flag's list, once, and a      *)
(* deadline it still has names that list.                                   *)
OneWaker ==
    Halted \/
    \A t \in Threads :
        /\ (status[t] = "Blocked") <=> (pending[t] # NoResponse)
        /\ IF status[t] = "Blocked" THEN \E f \in ids : FlagWaits(t) = {f}
           ELSE FlagWaits(t) = {}
        /\ \A f \in FlagIds : NoDuplicates(ThreadsOf(flag[f].waiters))
        /\ timer[t] # NoTimer => timer[t].id \in FlagWaits(t)

(* None of the "cannot happen" branches is taken.                          *)
NoBreaks == breaks = {}

(* enqueue_waiter's warning: parking on a mask that already matches would  *)
(* strand the waiter.  No parked waiter's predicate holds of the flag's    *)
(* bits, also after a set whose earlier waiters cleared some of them.      *)
NoMatchParked ==
    \A f \in FlagIds : \A i \in 1..Len(flag[f].waiters) :
        ~MaskMatches(flag[f].bits, flag[f].waiters[i])

(* What a waiter is told is true: with CELL_OK the stored pattern matches  *)
(* its mask, with ETIMEDOUT or ECANCELED it is the flag's pattern, and a   *)
(* thread that resumes always gets one.                                    *)
ObservedTruth ==
    [][\A f \in FlagIds : \A i \in 1..Len(flag[f].waiters) :
        LET w == flag[f].waiters[i]
        IN  w.thread \in DOMAIN returned' =>
                /\ w.thread \in DOMAIN stored'
                /\ IF returned'[w.thread] = "OK"
                   THEN MaskMatches(stored'[w.thread], w)
                   ELSE stored'[w.thread] = flag[f].bits]_vars

(* A bit is consumed once: what a woken waiter clears is seen by no waiter *)
(* the same set wakes behind it, and is gone from the flag afterwards.     *)
ConsumedOnce ==
    [][\A f \in FlagIds : \A i \in 1..Len(flag[f].waiters) :
        LET w == flag[f].waiters[i]
            Woken(u) == u \in DOMAIN returned' /\ returned'[u] = "OK"
        IN  Woken(w.thread) =>
                /\ flag'[f].bits \cap ClearedBits(w) = {}
                /\ \A j \in i+1..Len(flag[f].waiters) :
                      LET u == flag[f].waiters[j].thread
                      IN  Woken(u) => stored'[u] \cap ClearedBits(w) = {}]_vars

(* No overtaking: a set never resumes a waiter with a pattern an older     *)
(* waiter, which it leaves parked, would have matched.                     *)
OldestFirst ==
    [][\A f \in FlagIds : \A i, j \in 1..Len(flag[f].waiters) :
        LET old == flag[f].waiters[i]
            new == flag[f].waiters[j]
        IN  /\ i < j
            /\ new.thread \in DOMAIN returned'
            /\ returned'[new.thread] = "OK"
            /\ Contains(ThreadsOf(flag'[f].waiters), old.thread)
            => ~MaskMatches(stored'[new.thread], old)]_vars
=============================================================================
