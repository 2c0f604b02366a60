------------------------ MODULE MutexCondInvariant --------------------------
(***************************************************************************)
(* The inductive invariant of MutexCond and the safety theorems it gives.  *)
(*                                                                         *)
(* Its heart is that a thread is always in one of four places: at rest     *)
(* (running or finished), asleep on a timer, parked on one mutex or parked *)
(* on one cond.  Each place fixes the thread's status, the response it is  *)
(* owed, the deadline it may have and the lists it is on.                  *)
(***************************************************************************)
EXTENDS MutexCondProofs

OnM(u, m) == Contains(mutex[m].waiters, u)
OnC(u, c) == Contains(cond[c].waiters, u)
OffLists(u) ==
    /\ \A m \in MutexIds : ~OnM(u, m)
    /\ \A c \in CondIds : ~OnC(u, c)

AtRest(u) ==
    /\ status[u] \in {"Runnable", "Finished"}
    /\ pending[u] = NoResponse
    /\ timer[u] = NoTimer
    /\ OffLists(u)

Asleep(u) ==
    /\ status[u] = "Blocked"
    /\ pending[u] = ReturnCode("OK")
    /\ timer[u] = SleepTimer
    /\ OffLists(u)

AtMutex(u, m) ==
    /\ status[u] = "Blocked"
    /\ pending[u] \in {ReturnCode("OK"), ReturnCode("ETIMEDOUT")}
    /\ timer[u] \in {NoTimer, MutexTimer(m)}
    /\ \A n \in MutexIds : OnM(u, n) <=> n = m
    /\ \A c \in CondIds : ~OnC(u, c)

AtCond(u, c) ==
    /\ status[u] = "Blocked"
    /\ pending[u] = CondWakeReacquire(cond[c].mutex_id)
    /\ timer[u] \in {NoTimer, CondTimer(c, cond[c].mutex_id)}
    /\ \A m \in MutexIds : ~OnM(u, m)
    /\ \A d \in CondIds : OnC(u, d) <=> d = c

ThreadOK(u) ==
    \/ AtRest(u)
    \/ Asleep(u)
    \/ \E m \in MutexIds : AtMutex(u, m)
    \/ \E c \in CondIds : AtCond(u, c)

(* After the boot process exits nobody runs, and the lists are not purged. *)
Quiet ==
    \A u \in Threads :
        status[u] = "Finished" /\ pending[u] = NoResponse /\ timer[u] = NoTimer

Places == Quiet \/ \A u \in Threads : ThreadOK(u)

NoDups ==
    /\ \A m \in MutexIds : NoDuplicates(mutex[m].waiters)
    /\ \A c \in CondIds : NoDuplicates(cond[c].waiters)

Tables == NoDups /\ MutexConsistent

IInv == TypeOK /\ Places /\ Tables /\ OnlyExitBreaks

-----------------------------------------------------------------------------
(* Facts about the state.                                                  *)

(* Only threads are on lists.                                              *)
LEMMA OnlyThreads ==
    ASSUME TypeOK
    PROVE  /\ \A m \in MutexIds : mutex[m] \in MutexEntry
                                  /\ mutex[m].waiters \in Seq(Threads)
           /\ \A c \in CondIds : cond[c] \in CondEntry
                                 /\ cond[c].waiters \in Seq(Threads)
           /\ \A u : \A m \in MutexIds : OnM(u, m) => u \in Threads
           /\ \A u : \A c \in CondIds : OnC(u, c) => u \in Threads
<1>1. /\ \A m \in MutexIds : mutex[m] \in MutexEntry
                             /\ mutex[m].waiters \in Seq(Threads)
      /\ \A c \in CondIds : cond[c] \in CondEntry
                            /\ cond[c].waiters \in Seq(Threads)
  BY DEF TypeOK, MutexEntry, CondEntry
<1>2. ASSUME NEW w \in Seq(Threads), NEW u, Contains(w, u) PROVE u \in Threads
  BY <1>2, ElementOfSeq DEF Contains
<1> QED BY <1>1, <1>2 DEF OnM, OnC

(* A running thread is at rest.                                            *)
LEMMA RunningAtRest ==
    ASSUME IInv, NEW t \in Threads, status[t] = "Runnable"
    PROVE  AtRest(t) /\ \A u \in Threads : ThreadOK(u)
<1>1. \A u \in Threads : ThreadOK(u)
  BY DEF IInv, Places, Quiet
<1> QED BY <1>1 DEF ThreadOK, AtRest, Asleep, AtMutex, AtCond

(* So is the state when a thread has a deadline.                           *)
LEMMA DeadlineNotQuiet ==
    ASSUME IInv, NEW t \in Threads, timer[t] # NoTimer
    PROVE  \A u \in Threads : ThreadOK(u)
BY DEF IInv, Places, Quiet

(* A thread on a list is parked there.                                     *)
LEMMA Parked ==
    ASSUME NEW u, ThreadOK(u)
    PROVE  /\ \A m \in MutexIds : OnM(u, m) => AtMutex(u, m)
           /\ \A c \in CondIds : OnC(u, c) => AtCond(u, c)
BY DEF ThreadOK, AtRest, Asleep, AtMutex, AtCond, OffLists

(* The records that name a thread's wait differ from one another.          *)
LEMMA Distinct ==
    /\ \A m : /\ MutexTimer(m) # NoTimer /\ MutexTimer(m) # SleepTimer
              /\ MutexTimer(m).kind = "Mutex" /\ MutexTimer(m).id = m
              /\ CondWakeReacquire(m) # NoResponse
              /\ \A c : /\ CondTimer(c, m) # NoTimer
                        /\ CondTimer(c, m) # SleepTimer
                        /\ CondTimer(c, m).kind = "Cond"
                        /\ CondTimer(c, m).id = c
                        /\ CondTimer(c, m).companion = m
    /\ NoTimer # SleepTimer
    /\ NoTimer.kind = "None" /\ SleepTimer.kind = "Sleep"
    /\ \A c : ReturnCode(c) # NoResponse /\ ~Unresolvable(ReturnCode(c))
BY DEF MutexTimer, CondTimer, NoTimer, SleepTimer, TimerEntry, ReturnCode,
       CondWakeReacquire, NoResponse, Response, Unresolvable

-----------------------------------------------------------------------------
(* What a step may do to a thread.                                         *)

(* Nothing that concerns it.                                               *)
Stays(u) ==
    /\ status'[u] = status[u] /\ pending'[u] = pending[u] /\ timer'[u] = timer[u]
    /\ \A m \in MutexIds : OnM(u, m)' <=> OnM(u, m)
    /\ \A c \in CondIds : /\ OnC(u, c)' <=> OnC(u, c)
                          /\ OnC(u, c) => cond'[c].mutex_id = cond[c].mutex_id

(* A thread nothing happens to stays in its place.                         *)
LEMMA StaysOK ==
    ASSUME NEW u \in Threads, ThreadOK(u), Stays(u)
    PROVE  ThreadOK(u)'
<1>1. CASE AtRest(u)
  BY <1>1 DEF ThreadOK, Stays, AtRest, OffLists
<1>2. CASE Asleep(u)
  BY <1>2 DEF ThreadOK, Stays, Asleep, OffLists
<1>3. ASSUME NEW m \in MutexIds, AtMutex(u, m) PROVE ThreadOK(u)'
  <2>1. AtMutex(u, m)'
    BY <1>3 DEF Stays, AtMutex
  <2> QED BY <2>1 DEF ThreadOK
<1>4. ASSUME NEW c \in CondIds, AtCond(u, c) PROVE ThreadOK(u)'
  <2>1. AtCond(u, c)'
    BY <1>4 DEF Stays, AtCond
  <2> QED BY <2>1 DEF ThreadOK
<1> QED BY <1>1, <1>2, <1>3, <1>4, SMTT(30) DEF ThreadOK

(* The lists and the runtime's tables are left alone.                      *)
LEMMA UntouchedStays ==
    ASSUME UNCHANGED <<status, pending, timer>>,
           \A m \in MutexIds : mutex'[m].waiters = mutex[m].waiters,
           \A c \in CondIds : /\ cond'[c].waiters = cond[c].waiters
                              /\ \/ cond'[c].mutex_id = cond[c].mutex_id
                                 \/ cond[c].waiters = <<>>
    PROVE  \A u \in Threads : Stays(u)
BY SmallLists DEF Stays, OnM, OnC

(* One mutex entry changes.                                                *)
LEMMA OneMutex ==
    ASSUME TypeOK, NEW m \in MutexIds, NEW e,
           mutex' = [mutex EXCEPT ![m] = e]
    PROVE  /\ mutex'[m] = e
           /\ \A n \in MutexIds \ {m} : mutex'[n] = mutex[n]
           /\ \A u : \A n \in MutexIds :
                 OnM(u, n)' <=> IF n = m THEN Contains(e.waiters, u) ELSE OnM(u, n)
BY DEF TypeOK, OnM

(* One cond entry changes.                                                 *)
LEMMA OneCond ==
    ASSUME TypeOK, NEW c \in CondIds, NEW e,
           cond' = [cond EXCEPT ![c] = e]
    PROVE  /\ cond'[c] = e
           /\ \A d \in CondIds \ {c} : cond'[d] = cond[d]
           /\ \A u : \A d \in CondIds :
                 OnC(u, d)' <=> IF d = c THEN Contains(e.waiters, u) ELSE OnC(u, d)
BY DEF TypeOK, OnC

-----------------------------------------------------------------------------
(* The tables, entry by entry.                                             *)
EntryOK(e) ==
    /\ NoDuplicates(e.waiters)
    /\ e.owner = NoThread => e.waiters = <<>> /\ e.lock_count = 0
    /\ ~Contains(e.waiters, e.owner)
    /\ e.lock_count > 0 => e.attrs.recursive
MutexOK(m) == EntryOK(mutex[m]) /\ (m \notin ids => mutex[m] = NoEntry)
CondOK(c) ==
    /\ NoDuplicates(cond[c].waiters)
    /\ cond[c].mutex_id \in MutexIds => ~OnC(mutex[cond[c].mutex_id].owner, c)
    /\ c \notin ids => cond[c] = NoCond
    /\ c \in ids => cond[c].mutex_id \in MutexIds

(* The tables' invariant is a statement about each entry,                  *)
LEMMA TablesSplit ==
    Tables <=> (\A m \in MutexIds : MutexOK(m)) /\ (\A c \in CondIds : CondOK(c))
BY DEF Tables, NoDups, MutexConsistent, MutexOK, CondOK, EntryOK, OnC

(* also in the next state.                                                 *)
LEMMA TablesJoin ==
    ASSUME \A m \in MutexIds : MutexOK(m)', \A c \in CondIds : CondOK(c)'
    PROVE  Tables'
BY DEF Tables, NoDups, MutexConsistent, MutexOK, CondOK, EntryOK, OnC

(* What a fresh entry looks like.                                          *)
LEMMA FreshEntries ==
    /\ \A a : /\ NewMutex(a).waiters = <<>> /\ NewMutex(a).owner = NoThread
              /\ NewMutex(a).lock_count = 0
              /\ EntryOK(NewMutex(a))
    /\ NoEntry.waiters = <<>> /\ NoEntry.owner = NoThread /\ EntryOK(NoEntry)
    /\ \A m, k : /\ NewCond(m, k).waiters = <<>>
                 /\ NewCond(m, k).mutex_id = m
    /\ NoCond.waiters = <<>> /\ NoCond.mutex_id = NoMutex
<1>1. \A a : /\ NewMutex(a).waiters = <<>> /\ NewMutex(a).owner = NoThread
             /\ NewMutex(a).lock_count = 0
  BY DEF NewMutex
<1>2. \A x : ~Contains(<<>>, x)
  BY SmallLists
<1>3. NoDuplicates(<<>>)
  BY SmallLists
<1>4. \A a : EntryOK(NewMutex(a))
  BY <1>1, <1>2, <1>3, SMTT(30) DEF EntryOK
<1> QED BY <1>1, <1>4 DEF NoEntry, NewCond, NoCond

(* A cond whose list and mutex's owner do not change stays right.          *)
LEMMA CondKept ==
    ASSUME NEW c \in CondIds, CondOK(c), cond'[c] = cond[c],
           c \in ids' <=> c \in ids,
           cond[c].mutex_id \in MutexIds =>
              mutex'[cond[c].mutex_id].owner = mutex[cond[c].mutex_id].owner
    PROVE  CondOK(c)'
BY DEF CondOK, OnC

(* A mutex entry that does not change stays right.                         *)
LEMMA MutexKept ==
    ASSUME NEW m \in MutexIds, MutexOK(m), mutex'[m] = mutex[m],
           m \in ids' <=> m \in ids
    PROVE  MutexOK(m)'
BY DEF MutexOK

(* The pieces of IInv'.                                                    *)
LEMMA Assemble ==
    ASSUME TypeOK', \A u \in Threads : ThreadOK(u)',
           \A m \in MutexIds : MutexOK(m)', \A c \in CondIds : CondOK(c)',
           OnlyExitBreaks'
    PROVE  IInv'
BY TablesJoin DEF IInv, Places

-----------------------------------------------------------------------------
(* Calls that move nobody.                                                 *)
LEMMA AnswerInv ==
    ASSUME IInv, NEW t \in Threads, NEW code \in Codes, Answer(t, code)
    PROVE  IInv'
<1>1. TypeOK'
  BY AnswerType DEF IInv
<1>2. UNCHANGED <<status, pending, timer, breaks, mutex, cond, ids, holder>>
  BY SMTT(30) DEF Answer, Immediate, hostVars
<1>3. Places'
  BY <1>2 DEF IInv, Places, Quiet, ThreadOK, AtRest, Asleep, AtMutex, AtCond,
     OffLists, OnM, OnC
<1>4. Tables'
  BY <1>2 DEF IInv, Tables, NoDups, MutexConsistent
<1> QED BY <1>1, <1>2, <1>3, <1>4, SMTT(30) DEF IInv, OnlyExitBreaks

(* A call that changes one mutex entry but not its waiters.                *)
LEMMA EntryInv ==
    ASSUME IInv, TypeOK', NEW t \in Threads, status[t] = "Runnable",
           NEW m \in MutexIds, NEW e,
           mutex' = [mutex EXCEPT ![m] = e],
           e.waiters = mutex[m].waiters, EntryOK(e),
           m \in ids' \/ e = NoEntry, \A i \in Ids \ {m} : i \in ids' <=> i \in ids,
           e.owner \in {mutex[m].owner, NoThread, t},
           UNCHANGED <<status, pending, timer, breaks, cond>>
    PROVE  IInv'
<1>1. AtRest(t) /\ \A u \in Threads : ThreadOK(u)
  BY RunningAtRest
<1>2. TypeOK /\ Tables /\ OnlyExitBreaks
  BY DEF IInv
<1>3. mutex'[m] = e /\ \A n \in MutexIds \ {m} : mutex'[n] = mutex[n]
  BY <1>2, OneMutex, ZenonT(60)
<1>4. \A u \in Threads : ThreadOK(u)'
  <2>1. \A u \in Threads : Stays(u)
    BY <1>3, UntouchedStays
  <2> QED BY <1>1, <2>1, StaysOK, SMTT(30)
<1>5. ASSUME NEW n \in MutexIds PROVE MutexOK(n)'
  <2>1. n = m => MutexOK(n)'
    BY <1>3 DEF MutexOK
  <2>2. n # m => MutexOK(n)'
    BY <1>2, <1>3, TablesSplit, MutexKept, SMTT(30) DEF Ids
  <2> QED BY <2>1, <2>2
<1>6. ASSUME NEW c \in CondIds PROVE CondOK(c)'
  <2>1. c \in ids' <=> c \in ids
    BY MutexCondAssumption DEF Ids
  <2>2. CondOK(c)
    BY <1>2, TablesSplit, SMTT(30)
  <2>3. ~OnC(t, c) /\ ~OnC(NoThread, c)
    BY <1>1, <1>2, OnlyThreads, MutexCondAssumption, SMTT(30) DEF AtRest, OffLists
  <2>4. CASE cond[c].mutex_id # m
    BY <2>1, <2>2, <2>4, <1>3, CondKept, SMTT(30)
  <2>5. CASE cond[c].mutex_id = m
    BY <2>1, <2>2, <2>3, <2>5, <1>3, SMTT(30) DEF CondOK, OnC
  <2> QED BY <2>4, <2>5
<1> QED BY <1>2, <1>4, <1>5, <1>6, Assemble, SMTT(30) DEF OnlyExitBreaks

(* Mutex create, destroy, trylock and the locks that do not park.          *)
LEMMA MutexAnswersInv ==
    ASSUME IInv, NEW t \in Threads, status[t] = "Runnable", NEW m \in MutexIds,
           \/ MutexCreate(t) \/ MutexDestroy(t, m)
           \/ Acquire(t, m)  \/ Relock(t, m) \/ MutexTrylock(t, m)
    PROVE  IInv'
<1>0. /\ TypeOK /\ mutex[m] \in MutexEntry /\ MutexOK(m)
      /\ mutex \in [MutexIds -> MutexEntry] /\ ids \subseteq Ids
  BY OnlyThreads, TablesSplit DEF IInv, TypeOK
<1>a. ASSUME NEW code \in {"OK", "EFAULT", "EINVAL", "EAGAIN", "ESRCH", "EBUSY",
                 "EPERM", "EDEADLK", "EKRESOURCE"}, Answer(t, code)
      PROVE  IInv'
  BY <1>a, AnswerInv DEF Codes
<1>b. ASSUME Immediate(t, "OK") PROVE UNCHANGED <<status, pending, timer, breaks>>
  BY <1>b DEF Immediate
<1>1. CASE MutexCreate(t)
  <2>1. TypeOK'
    BY <1>0, <1>1, MutexSyscallType
  <2>2. CASE \E code \in {"EFAULT", "EINVAL", "EAGAIN"} : Answer(t, code)
    BY <2>2, <1>a
  <2>3. ASSUME NEW n \in MutexIds \ ids, NEW a \in MutexAttrs,
               mutex' = [mutex EXCEPT ![n] = NewMutex(a)],
               ids' = ids \cup {n}, Immediate(t, "OK"), UNCHANGED cond
        PROVE  IInv'
    <3>1. mutex[n] = NoEntry
      BY TablesSplit DEF IInv, MutexOK
    <3>2. /\ NewMutex(a).waiters = mutex[n].waiters /\ EntryOK(NewMutex(a))
          /\ NewMutex(a).owner = NoThread
      BY <3>1, FreshEntries, SMTT(30)
    <3> QED BY <2>1, <2>3, <3>2, <1>b, EntryInv, ZenonT(60)
  <2> QED BY <1>1, <2>2, <2>3 DEF MutexCreate
<1>2. CASE MutexDestroy(t, m)
  <2>1. TypeOK'
    BY <1>0, <1>2, MutexSyscallType
  <2>2. CASE \E code \in {"ESRCH", "EBUSY", "EPERM"} : Answer(t, code)
    BY <2>2, <1>a
  <2>3. CASE /\ mutex[m].waiters = <<>>
             /\ mutex' = [mutex EXCEPT ![m] = NoEntry]
             /\ ids' = ids \ {m}
             /\ Immediate(t, "OK")
             /\ UNCHANGED <<cond, holder>>
    BY <2>1, <2>3, <1>b, EntryInv, FreshEntries, ZenonT(60)
  <2> QED BY <1>2, <2>2, <2>3 DEF MutexDestroy
<1>3. ASSUME Acquire(t, m) PROVE IInv'
  <2> DEFINE e == [mutex[m] EXCEPT !.owner = t]
  <2>1. TypeOK'
    BY <1>0, <1>3, MutexSyscallType DEF MutexTrylock
  <2>2. mutex' = [mutex EXCEPT ![m] = e] /\ m \in ids /\ UNCHANGED <<cond, ids>>
        /\ Immediate(t, "OK") /\ mutex[m].owner = NoThread
    BY <1>3 DEF Acquire
  <2>3. /\ e.waiters = mutex[m].waiters /\ e.owner = t
        /\ e.lock_count = mutex[m].lock_count /\ e.attrs = mutex[m].attrs
    BY <1>0, SMTT(30) DEF MutexEntry
  <2> HIDE DEF e
  <2>4. mutex[m].waiters = <<>> /\ EntryOK(mutex[m])
    BY <1>0, <2>2, SMTT(30) DEF MutexOK, EntryOK
  <2>5. EntryOK(e)
    BY <2>3, <2>4, SmallLists, MutexCondAssumption, SMTT(30) DEF EntryOK
  <2> QED BY <2>1, <2>2, <2>3, <2>5, <1>b, EntryInv, ZenonT(60)
<1>4. ASSUME Relock(t, m) PROVE IInv'
  <2>1. TypeOK'
    BY <1>0, <1>4, MutexSyscallType, SMTT(30) DEF MutexLock
  <2>2. CASE \E code \in {"EDEADLK", "EKRESOURCE"} : Answer(t, code)
    BY <2>2, <1>a
  <2>3. CASE /\ mutex[m].owner = t /\ mutex[m].attrs.recursive
             /\ mutex' = [mutex EXCEPT ![m].lock_count = @ + 1]
             /\ Immediate(t, "OK")
             /\ UNCHANGED <<cond, ids, holder>>
    <3> DEFINE e == [mutex[m] EXCEPT !.lock_count = @ + 1]
    <3>1. mutex' = [mutex EXCEPT ![m] = e]
      BY <2>3, <1>0
    <3>2. /\ e.waiters = mutex[m].waiters /\ e.owner = t
          /\ e.attrs = mutex[m].attrs
      BY <1>0, <2>3, SMTT(30) DEF MutexEntry
    <3> HIDE DEF e
    <3>3. m \in ids
      BY <1>0, <2>3, FreshEntries, MutexCondAssumption, SMTT(30) DEF MutexOK
    <3>4. EntryOK(e)
      BY <1>0, <2>3, <3>2, MutexCondAssumption, SMTT(30) DEF EntryOK, MutexOK
    <3> QED BY <2>1, <2>3, <3>1, <3>2, <3>3, <3>4, <1>b, EntryInv, ZenonT(60)
  <2> QED BY <1>4, <2>2, <2>3, SMTT(30) DEF Relock
<1>5. CASE MutexTrylock(t, m)
  <2>1. CASE \E code \in {"ESRCH", "EDEADLK", "EBUSY"} : Answer(t, code)
    BY <2>1, <1>a
  <2> QED BY <1>5, <2>1, <1>3 DEF MutexTrylock
<1> QED BY <1>1, <1>2, <1>3, <1>4, <1>5, SMTT(30)

(* A caller at rest parks on a mutex another thread owns.                  *)
LEMMA LockParksInv ==
    ASSUME IInv, NEW t \in Threads, status[t] = "Runnable", NEW m \in MutexIds,
           LockParks(t, m)
    PROVE  IInv'
<1>0. /\ TypeOK /\ mutex[m] \in MutexEntry /\ MutexOK(m) /\ Tables
      /\ mutex \in [MutexIds -> MutexEntry]
      /\ mutex[m].waiters \in Seq(Threads) /\ OnlyExitBreaks
      /\ status \in [Threads -> {"Runnable", "Blocked", "Finished"}]
      /\ pending \in [Threads -> Responses] /\ timer \in [Threads -> Timers]
  BY OnlyThreads, TablesSplit, SMTT(30) DEF IInv, TypeOK, RtTypeOK
<1>1. TypeOK'
  BY <1>0, MutexSyscallType DEF MutexLock
<1>2. AtRest(t) /\ \A u \in Threads : ThreadOK(u)
  BY RunningAtRest
<1>3. ~Contains(mutex[m].waiters, t)
  BY <1>2 DEF AtRest, OffLists, OnM
<1> DEFINE w == Enqueue(mutex[m].waiters, t)
           e == [mutex[m] EXCEPT !.waiters = w]
<1>4m. mutex' = [mutex EXCEPT ![m] = e] /\ UNCHANGED <<cond, ids, holder>>
  BY <1>3 DEF LockParks
<1>4. PICK tmr \in Timeouts(MutexTimer(m)) : Block(t, ReturnCode("OK"), tmr)
  BY <1>3 DEF LockParks
<1>5. /\ e.waiters = w /\ e.owner = mutex[m].owner
      /\ e.lock_count = mutex[m].lock_count /\ e.attrs = mutex[m].attrs
  BY <1>0 DEF MutexEntry
<1>6. /\ \A u : Contains(w, u) <=> Contains(mutex[m].waiters, u) \/ u = t
      /\ NoDuplicates(mutex[m].waiters) => NoDuplicates(w)
  <2>1. mutex[m].waiters \in Seq(Threads)
    BY <1>0
  <2> HIDE DEF e
  <2> QED BY <2>1, <1>3, EnqueueThread, ZenonT(60)
<1> HIDE DEF w, e
<1>7. /\ mutex'[m] = e /\ \A n \in MutexIds \ {m} : mutex'[n] = mutex[n]
      /\ \A u : \A n \in MutexIds :
            OnM(u, n)' <=> IF n = m THEN Contains(w, u) ELSE OnM(u, n)
  BY <1>0, <1>4, <1>4m, <1>5, OneMutex, ZenonT(60)
<1>8. \A u : \A c \in CondIds : OnC(u, c)' <=> OnC(u, c)
  BY <1>4, <1>4m DEF OnC
<1>9. ASSUME NEW u \in Threads PROVE ThreadOK(u)'
  <2>1. CASE u = t
    <3>1. /\ status'[t] = "Blocked" /\ pending'[t] = ReturnCode("OK")
          /\ timer'[t] \in {NoTimer, MutexTimer(m)}
      BY <1>0, <1>2, <1>4, SMTT(30) DEF Block, AtRest, Timeouts
    <3>2. \A n \in MutexIds : OnM(t, n)' <=> n = m
      BY <1>2, <1>6, <1>7, SMTT(30) DEF AtRest, OffLists
    <3>3. \A c \in CondIds : ~OnC(t, c)'
      BY <1>2, <1>8, SMTT(30) DEF AtRest, OffLists
    <3>4. AtMutex(t, m)'
      BY <3>1, <3>2, <3>3, SMTT(30) DEF AtMutex
    <3> QED BY <2>1, <3>4, SMTT(30) DEF ThreadOK
  <2>2. CASE u # t
    <3>1. Stays(u)
      BY <2>2, <1>0, <1>4, <1>4m, <1>6, <1>7, <1>8, SMTT(30) DEF Stays, Block, OnM
    <3> QED BY <1>2, <3>1, StaysOK, SMTT(30)
  <2> QED BY <2>1, <2>2
<1>10. mutex[m].owner # NoThread /\ mutex[m].owner # t
  BY DEF LockParks
<1>11. ASSUME NEW n \in MutexIds PROVE MutexOK(n)'
  <2>1. CASE n = m
    <3>1. EntryOK(e)
      BY <1>0, <1>5, <1>6, <1>10, SMTT(30) DEF MutexOK, EntryOK
    <3>2. m \in ids
      BY <1>0, <1>10, FreshEntries, SMTT(30) DEF MutexOK
    <3> QED BY <2>1, <3>1, <3>2, <1>4, <1>4m, <1>7, SMTT(30) DEF MutexOK
  <2>2. CASE n # m
    BY <2>2, <1>0, <1>4, <1>4m, <1>7, TablesSplit, MutexKept, SMTT(30)
  <2> QED BY <2>1, <2>2, SMTT(30)
<1>12. ASSUME NEW c \in CondIds PROVE CondOK(c)'
  <2>1. CondOK(c)
    BY <1>0, TablesSplit, SMTT(30)
  <2>2. \A n \in MutexIds : mutex'[n].owner = mutex[n].owner
    BY <1>5, <1>7, SMTT(30)
  <2> QED BY <2>1, <2>2, <1>4, <1>4m, CondKept, SMTT(30)
<1>13. OnlyExitBreaks'
  <2>1. pending[t] = NoResponse /\ timer[t] = NoTimer
    BY <1>2 DEF AtRest
  <2>2. breaks' = breaks
    BY <2>1, <1>4, SMTT(30) DEF Block, ParkBreaks
  <2> QED BY <1>0, <2>2, SMTT(30) DEF OnlyExitBreaks
<1> QED BY <1>1, <1>9, <1>11, <1>12, <1>13, Assemble, SMTT(30)

-----------------------------------------------------------------------------
(* Hand-off: the thread a release of m hands the mutex to is parked on m,  *)
(* and nothing about its wake is unexpected.                               *)
LEMMA InheritorParked ==
    ASSUME IInv, \A u \in Threads : ThreadOK(u), NEW m \in MutexIds,
           NEW u \in Inheritor(mutex[m])
    PROVE  /\ u \in Threads /\ u = Head(mutex[m].waiters)
           /\ mutex[m].waiters # <<>>
           /\ AtMutex(u, m) /\ status[u] = "Blocked"
           /\ ~Unresolvable(pending[u])
<1>1. mutex[m].waiters \in Seq(Threads) /\ mutex[m].waiters # <<>>
      /\ u = Head(mutex[m].waiters)
  BY OnlyThreads, SMTT(30) DEF IInv, Inheritor
<1>2. u \in Threads /\ OnM(u, m)
  BY <1>1, DequeueThread, SMTT(30) DEF OnM
<1>3. AtMutex(u, m)
  BY <1>2, Parked, SMTT(30)
<1> QED BY <1>1, <1>2, <1>3, Distinct, SMTT(30) DEF AtMutex

(* The lists after m was released.                                         *)
LEMMA ReleasedLists ==
    ASSUME IInv, \A u \in Threads : ThreadOK(u), NEW m \in MutexIds,
           mutex' = [mutex EXCEPT ![m] = Released(@)]
    PROVE  /\ \A n \in MutexIds \ {m} : mutex'[n] = mutex[n]
           /\ EntryOK(mutex'[m])
           /\ mutex'[m].owner \in Inheritor(mutex[m]) \cup {NoThread}
           /\ \A u \in Threads : \A n \in MutexIds :
                 OnM(u, n)' <=> OnM(u, n) /\ (n = m => u \notin Inheritor(mutex[m]))
<1> DEFINE w == mutex[m].waiters
<1>1. /\ TypeOK /\ mutex[m] \in MutexEntry /\ w \in Seq(Threads)
      /\ mutex \in [MutexIds -> MutexEntry] /\ EntryOK(mutex[m])
  BY OnlyThreads, TablesSplit, SMTT(30) DEF IInv, TypeOK, MutexOK
<1>2. /\ mutex'[m] = Released(mutex[m])
      /\ \A n \in MutexIds \ {m} : mutex'[n] = mutex[n]
  BY <1>1, SMTT(30)
<1>3. /\ mutex'[m].lock_count = 0
      /\ w = <<>> => /\ mutex'[m].owner = NoThread /\ mutex'[m].waiters = <<>>
                     /\ Inheritor(mutex[m]) = {}
      /\ w # <<>> => /\ mutex'[m].owner = Head(w) /\ mutex'[m].waiters = Tail(w)
                     /\ Inheritor(mutex[m]) = {Head(w)}
  BY <1>1, <1>2, ReleasedFields, SMTT(30)
<1>4. NoDuplicates(w)
  BY <1>1 DEF EntryOK
<1> HIDE DEF w
<1>5. w # <<>> => /\ Head(w) \in Threads
                  /\ \A u : Contains(w, u) <=> u = Head(w) \/ Contains(Tail(w), u)
                  /\ NoDuplicates(Tail(w)) /\ ~Contains(Tail(w), Head(w))
  BY <1>1, <1>4, DequeueThread, ZenonT(60)
<1>6. EntryOK(mutex'[m])
  <2>1. CASE w = <<>>
    <3>1. mutex'[m].waiters = <<>> /\ mutex'[m].lock_count = 0
      BY <2>1, <1>3
    <3> QED BY <3>1, SmallLists, SMTT(30) DEF EntryOK
  <2>2. CASE w # <<>>
    <3>1. Head(w) # NoThread
      BY <2>2, <1>5, MutexCondAssumption, SMTT(30)
    <3>2. /\ mutex'[m].owner = Head(w) /\ mutex'[m].waiters = Tail(w)
          /\ mutex'[m].lock_count = 0
      BY <2>2, <1>3
    <3>3. NoDuplicates(Tail(w)) /\ ~Contains(Tail(w), Head(w))
      BY <2>2, <1>5, SMTT(30)
    <3>4. ~(mutex'[m].lock_count > 0)
      BY <3>2
    <3> QED BY <3>1, <3>2, <3>3, <3>4, ZenonT(60) DEF EntryOK
  <2> QED BY <2>1, <2>2, SMTT(30)
<1>7. ASSUME NEW u \in Threads, NEW n \in MutexIds
      PROVE  OnM(u, n)' <=> OnM(u, n) /\ (n = m => u \notin Inheritor(mutex[m]))
  <2>1. CASE n # m
    BY <2>1, <1>2, SMTT(30) DEF OnM
  <2>2. CASE n = m /\ w = <<>>
    BY <2>2, <1>3, SmallLists, SMTT(30) DEF OnM, w
  <2>3. CASE n = m /\ w # <<>>
    <3>1. OnM(u, n)' <=> Contains(Tail(w), u)
      BY <2>3, <1>3, ZenonT(60) DEF OnM
    <3>2. OnM(u, n) <=> Contains(w, u)
      BY <2>3, SMTT(30) DEF OnM, w
    <3> QED BY <2>3, <3>1, <3>2, <1>3, <1>5, SMTT(30)
  <2> QED BY <2>1, <2>2, <2>3, SMTT(30)
<1>8. mutex'[m].owner \in Inheritor(mutex[m]) \cup {NoThread}
  BY <1>3, SMTT(30)
<1> QED BY <1>2, <1>6, <1>7, <1>8, SMTT(30)

(* sys_mutex_unlock: a hold is dropped, or the mutex is handed on.         *)
LEMMA UnlockInv ==
    ASSUME IInv, NEW t \in Threads, status[t] = "Runnable", NEW m \in MutexIds,
           MutexUnlock(t, m)
    PROVE  IInv'
<1>0. /\ TypeOK /\ mutex[m] \in MutexEntry /\ MutexOK(m) /\ Tables
      /\ mutex \in [MutexIds -> MutexEntry] /\ OnlyExitBreaks
  BY OnlyThreads, TablesSplit DEF IInv, TypeOK
<1>t. TypeOK'
  BY <1>0, MutexSyscallType, SMTT(30)
<1>r. AtRest(t) /\ \A u \in Threads : ThreadOK(u)
  BY RunningAtRest
<1>i. mutex[m].owner = t => m \in ids
  BY <1>0, FreshEntries, MutexCondAssumption, SMTT(30) DEF MutexOK
<1>1. CASE Answer(t, "ESRCH") \/ Answer(t, "EPERM")
  BY <1>1, AnswerInv DEF Codes
<1>2. CASE /\ mutex[m].owner = t
           /\ mutex[m].lock_count > 0
           /\ mutex' = [mutex EXCEPT ![m].lock_count = @ - 1]
           /\ Immediate(t, "OK")
           /\ UNCHANGED <<cond, ids, holder>>
  <2> DEFINE e == [mutex[m] EXCEPT !.lock_count = @ - 1]
  <2>1. mutex' = [mutex EXCEPT ![m] = e]
    BY <1>2, <1>0
  <2>2. /\ e.waiters = mutex[m].waiters /\ e.owner = t
        /\ e.attrs = mutex[m].attrs
    BY <1>0, <1>2 DEF MutexEntry
  <2> HIDE DEF e
  <2>3. EntryOK(e)
    BY <1>0, <1>2, <2>2, MutexCondAssumption, SMTT(30) DEF EntryOK, MutexOK
  <2>4. UNCHANGED <<status, pending, timer, breaks>>
    BY <1>2, SMTT(30) DEF Immediate
  <2> QED BY <1>t, <1>i, <1>2, <2>1, <2>2, <2>3, <2>4, EntryInv, ZenonT(60)
<1>3. CASE /\ mutex[m].owner = t
           /\ mutex' = [mutex EXCEPT ![m] = Released(@)]
           /\ WakeAndReturn(t, "OK", Inheritor(mutex[m]), NoUpdates, {})
           /\ UNCHANGED <<cond, ids, holder>>
  <2> DEFINE woken == Inheritor(mutex[m])
  <2>1. /\ \A n \in MutexIds \ {m} : mutex'[n] = mutex[n]
        /\ EntryOK(mutex'[m])
        /\ mutex'[m].owner \in woken \cup {NoThread}
        /\ \A u \in Threads : \A n \in MutexIds :
              OnM(u, n)' <=> OnM(u, n) /\ (n = m => u \notin woken)
    BY <1>3, <1>r, ReleasedLists, ZenonT(60)
  <2>2. \A u \in woken : /\ u \in Threads /\ AtMutex(u, m)
                         /\ status[u] = "Blocked" /\ ~Unresolvable(pending[u])
    BY <1>r, InheritorParked, SMTT(30)
  <2>3. \A u : \A c \in CondIds : OnC(u, c)' <=> OnC(u, c)
    BY <1>3, SMTT(30) DEF OnC
  <2> HIDE DEF woken
  <2>4. /\ \A u \in Threads : /\ u \in woken => /\ status'[u] = "Runnable"
                                                /\ pending'[u] = NoResponse
                                                /\ timer'[u] = NoTimer
                              /\ u \notin woken => /\ status'[u] = status[u]
                                                   /\ pending'[u] = pending[u]
                                                   /\ timer'[u] = timer[u]
        /\ breaks' = breaks
    <3>1. ResolveWakes(woken, NoUpdates, [u \in {t} |-> "OK"], {})
      BY <1>3, SMTT(30) DEF WakeAndReturn, woken
    <3>2. Wakeable(woken) = woken
      BY <2>2 DEF Wakeable
    <3>3. \A u \in Threads : Restaged(NoUpdates)[u] = pending[u]
      BY DEF Restaged, NoUpdates
    <3>4. WakeBreaks(woken, Restaged(NoUpdates)) = {}
      BY <2>2, <3>2, <3>3 DEF WakeBreaks
    <3>5. DOMAIN NoUpdates = {}
      BY DEF NoUpdates
    <3> QED BY <3>1, <3>2, <3>3, <3>4, <3>5, SMTT(30) DEF ResolveWakes
  <2>5. ASSUME NEW u \in Threads PROVE ThreadOK(u)'
    <3>1. CASE u \in woken
      <4>1. OffLists(u)'
        BY <3>1, <2>1, <2>2, <2>3, SMTT(30) DEF AtMutex, OffLists
      <4> QED BY <3>1, <4>1, <2>4, SMTT(30) DEF ThreadOK, AtRest
    <3>2. CASE u \notin woken
      <4>1. Stays(u)
        BY <3>2, <2>1, <2>3, <2>4, <1>3, ZenonT(60) DEF Stays
      <4> QED BY <4>1, <1>r, StaysOK, SMTT(30)
    <3> QED BY <3>1, <3>2, SMTT(30)
  <2>6. ASSUME NEW n \in MutexIds PROVE MutexOK(n)'
    <3>1. CASE n = m
      BY <3>1, <2>1, <1>i, <1>3, ZenonT(60) DEF MutexOK
    <3>2. CASE n # m
      BY <3>2, <2>1, <1>0, <1>3, TablesSplit, MutexKept, SMTT(30)
    <3> QED BY <3>1, <3>2, SMTT(30)
  <2>7. ASSUME NEW c \in CondIds PROVE CondOK(c)'
    <3>1. CondOK(c)
      BY <1>0, TablesSplit, SMTT(30)
    <3>2. CASE cond[c].mutex_id # m
      BY <3>1, <3>2, <2>1, <1>3, CondKept, SMTT(30)
    <3>3. CASE cond[c].mutex_id = m
      <4>1. ~OnC(mutex'[m].owner, c)
        BY <2>1, <2>2, <1>0, OnlyThreads, MutexCondAssumption, SMTT(30) DEF AtMutex
      <4> QED BY <3>1, <3>3, <4>1, <2>3, <1>3, SMTT(30) DEF CondOK, OnC
    <3> QED BY <3>2, <3>3, SMTT(30)
  <2> QED BY <1>0, <1>t, <2>4, <2>5, <2>6, <2>7, Assemble, SMTT(30) DEF OnlyExitBreaks
<1> QED BY <1>1, <1>2, <1>3, SMTT(30) DEF MutexUnlock

-----------------------------------------------------------------------------
(* Creating and destroying conds touches a list nobody is on.              *)
LEMMA CondCreateInv ==
    ASSUME IInv, NEW t \in Threads, status[t] = "Runnable", NEW m \in MutexIds,
           CondCreate(t, m), TypeOK'
    PROVE  IInv'
<1>0. /\ TypeOK /\ mutex[m] \in MutexEntry /\ MutexOK(m) /\ Tables
      /\ mutex \in [MutexIds -> MutexEntry] /\ OnlyExitBreaks
      /\ cond \in [CondIds -> CondEntry]
  BY OnlyThreads, TablesSplit DEF IInv, TypeOK
<1>r. \A u \in Threads : ThreadOK(u)
  BY RunningAtRest
<1>1. CASE \E code \in {"EFAULT", "EINVAL", "ESRCH", "EAGAIN"} : Answer(t, code)
  BY <1>1, AnswerInv, SMTT(30) DEF Codes
<1>2. ASSUME NEW c \in CondIds \ ids, NEW shared \in CondShared, m \in ids,
             cond' = [cond EXCEPT ![c] = NewCond(m, shared)],
             mutex' = [mutex EXCEPT
                 ![m].live_conds = @ + 1,
                 ![m].retains_cond_binding =
                     @ \/ (mutex[m].attrs.process_shared /\ ~shared)],
             ids' = ids \cup {c}, Immediate(t, "OK")
      PROVE  IInv'
  <2> DEFINE k == mutex[m].retains_cond_binding
                     \/ (mutex[m].attrs.process_shared /\ ~shared)
             e == [mutex[m] EXCEPT !.live_conds = @ + 1,
                                   !.retains_cond_binding = k]
  <2>1. mutex' = [mutex EXCEPT ![m] = e]
    BY <1>0, <1>2, ZenonT(60)
  <2> HIDE DEF k
  <2>2. /\ e.waiters = mutex[m].waiters /\ e.owner = mutex[m].owner
        /\ e.lock_count = mutex[m].lock_count /\ e.attrs = mutex[m].attrs
    BY <1>0 DEF MutexEntry
  <2> HIDE DEF e
  <2>3. /\ mutex'[m] = e /\ \A n \in MutexIds \ {m} : mutex'[n] = mutex[n]
    BY <1>0, <2>1
  <2>4. /\ cond'[c] = NewCond(m, shared) /\ cond[c] = NoCond
        /\ \A d \in CondIds \ {c} : cond'[d] = cond[d]
    BY <1>0, <1>2, TablesSplit, SMTT(30) DEF CondOK
  <2>5. cond'[c].waiters = <<>> /\ cond[c].waiters = <<>> /\ cond'[c].mutex_id = m
    BY <2>4, FreshEntries
  <2>6. UNCHANGED <<status, pending, timer, breaks>>
    BY <1>2 DEF Immediate
  <2>7. \A u \in Threads : ThreadOK(u)'
    <3>1. \A u \in Threads : Stays(u)
      BY <2>2, <2>3, <2>4, <2>5, <2>6, UntouchedStays, SMTT(30)
    <3> QED BY <3>1, <1>r, StaysOK, SMTT(30)
  <2>8. ASSUME NEW n \in MutexIds PROVE MutexOK(n)'
    <3>0. n \in ids' <=> n \in ids
      BY <1>2, MutexCondAssumption, SMTT(30)
    <3>1. CASE n = m
      BY <3>0, <3>1, <1>0, <1>2, <2>2, <2>3, SMTT(30) DEF MutexOK, EntryOK
    <3>2. CASE n # m
      BY <3>0, <3>2, <2>3, <1>0, TablesSplit, MutexKept, SMTT(30)
    <3> QED BY <3>1, <3>2
  <2>9. ASSUME NEW d \in CondIds PROVE CondOK(d)'
    <3>1. \A n \in MutexIds : mutex'[n].owner = mutex[n].owner
      BY <2>2, <2>3, SMTT(30)
    <3>2. CASE d # c
      BY <3>1, <3>2, <2>4, <1>0, <1>2, TablesSplit, CondKept, SMTT(30)
    <3>3. CASE d = c
      BY <3>3, <2>5, <1>2, SmallLists, SMTT(30) DEF CondOK, OnC
    <3> QED BY <3>2, <3>3, SMTT(30)
  <2> QED BY <1>0, <2>6, <2>7, <2>8, <2>9, Assemble, SMTT(30) DEF OnlyExitBreaks
<1> QED BY <1>1, <1>2, SMTT(30) DEF CondCreate

(* sys_cond_destroy drops a cond nobody waits on.                          *)
LEMMA CondDestroyInv ==
    ASSUME IInv, NEW t \in Threads, status[t] = "Runnable", NEW c \in CondIds,
           CondDestroy(t, c)
    PROVE  IInv'
<1>0. /\ TypeOK /\ Tables /\ CondOK(c)
      /\ mutex \in [MutexIds -> MutexEntry] /\ OnlyExitBreaks
      /\ cond \in [CondIds -> CondEntry]
  BY OnlyThreads, TablesSplit, SMTT(30) DEF IInv, TypeOK
<1>t. TypeOK'
  BY <1>0, CondSyscallType
<1>r. \A u \in Threads : ThreadOK(u)
  BY RunningAtRest
<1> DEFINE m == cond[c].mutex_id
           bound == m \in ids /\ mutex[m].live_conds > 0
           extra == IF bound THEN {} ELSE {"cond_destroy_unbound_mutex"}
<1>1. CASE \E code \in {"ESRCH", "EBUSY"} : Answer(t, code)
  BY <1>1, AnswerInv DEF Codes
<1>2. CASE /\ c \in ids /\ cond[c].waiters = <<>>
           /\ cond' = [cond EXCEPT ![c] = NoCond]
           /\ mutex' = IF bound THEN [mutex EXCEPT ![m].live_conds = @ - 1]
                       ELSE mutex
           /\ ids' = ids \ {c}
           /\ WakeAndReturn(t, "OK", {}, NoUpdates, extra)
           /\ UNCHANGED holder
  <2>1. m \in MutexIds /\ mutex[m] \in MutexEntry
    BY <1>0, <1>2, SMTT(30) DEF CondOK
  <2>2. \A n \in MutexIds :
          /\ mutex'[n].waiters = mutex[n].waiters
          /\ mutex'[n].owner = mutex[n].owner
          /\ mutex'[n].lock_count = mutex[n].lock_count
          /\ mutex'[n].attrs = mutex[n].attrs
          /\ n \notin ids => mutex'[n] = mutex[n]
    <3>1. CASE bound
      <4> DEFINE e == [mutex[m] EXCEPT !.live_conds = @ - 1]
      <4>1. mutex' = [mutex EXCEPT ![m] = e]
        BY <1>0, <1>2, <2>1, <3>1, SMTT(30)
      <4>2. /\ e.waiters = mutex[m].waiters /\ e.owner = mutex[m].owner
            /\ e.lock_count = mutex[m].lock_count /\ e.attrs = mutex[m].attrs
        BY <2>1, SMTT(30) DEF MutexEntry
      <4> HIDE DEF e
      <4> QED BY <1>0, <2>1, <3>1, <4>1, <4>2, SMTT(30)
    <3>2. CASE ~bound
      BY <3>2, <1>2, SMTT(30)
    <3> QED BY <3>1, <3>2, SMTT(30)
  <2>3. /\ cond'[c] = NoCond /\ cond'[c].waiters = <<>>
        /\ \A d \in CondIds \ {c} : cond'[d] = cond[d]
    BY <1>0, <1>2, FreshEntries, SMTT(30)
  <2>4. /\ UNCHANGED <<status, pending, timer>>
        /\ breaks' = breaks \cup extra
    <3> HIDE DEF extra
    <3>1. ResolveWakes({}, NoUpdates, [u \in {t} |-> "OK"], extra)
      BY <1>2 DEF WakeAndReturn
    <3>2. Wakeable({}) = {} /\ DOMAIN NoUpdates = {}
      BY DEF Wakeable, NoUpdates
    <3>3. Restaged(NoUpdates) = pending
      BY <1>0 DEF Restaged, NoUpdates, TypeOK, RtTypeOK
    <3>4. WakeBreaks({}, pending) = {}
      BY <3>2 DEF WakeBreaks
    <3> QED BY <3>1, <3>2, <3>3, <3>4, <1>0, SMTT(30) DEF ResolveWakes, TypeOK, RtTypeOK
  <2>5. \A u \in Threads : ThreadOK(u)'
    <3>1. \A u \in Threads : Stays(u)
      BY <1>2, <2>2, <2>3, <2>4, UntouchedStays, SMTT(30)
    <3> QED BY <3>1, <1>r, StaysOK, SMTT(30)
  <2>6. ASSUME NEW n \in MutexIds PROVE MutexOK(n)'
    <3>1. n \in ids' <=> n \in ids
      BY <1>2, MutexCondAssumption
    <3>2. MutexOK(n)
      BY <1>0, TablesSplit
    <3> QED BY <3>1, <3>2, <2>2, SMTT(30) DEF MutexOK, EntryOK
  <2>7. ASSUME NEW d \in CondIds PROVE CondOK(d)'
    <3>1. CASE d # c
      BY <3>1, <2>2, <2>3, <1>0, <1>2, TablesSplit, CondKept, SMTT(30)
    <3>2. CASE d = c
      BY <3>2, <2>3, <1>2, SmallLists, SMTT(30) DEF CondOK, OnC
    <3> QED BY <3>1, <3>2, SMTT(30)
  <2>8. OnlyExitBreaks'
    BY <1>0, <2>4, SMTT(30) DEF OnlyExitBreaks
  <2> QED BY <1>t, <2>5, <2>6, <2>7, <2>8, Assemble, SMTT(30)
<1> QED BY <1>1, <1>2, SMTT(30) DEF CondDestroy

-----------------------------------------------------------------------------
(* A cond wait: the caller releases the mutex to its first waiter and      *)
(* parks on the cond, in one step.                                         *)
LEMMA CondParksInv ==
    ASSUME IInv, NEW t \in Threads, status[t] = "Runnable", NEW c \in CondIds,
           CondParks(t, c)
    PROVE  IInv'
<1> DEFINE m == cond[c].mutex_id
           woken == Inheritor(mutex[m])
           q == Enqueue(cond[c].waiters, t)
           f == [cond[c] EXCEPT !.waiters = q]
<1>0. /\ TypeOK /\ Tables /\ CondOK(c) /\ OnlyExitBreaks
      /\ mutex \in [MutexIds -> MutexEntry]
      /\ cond \in [CondIds -> CondEntry] /\ cond[c] \in CondEntry
      /\ cond[c].waiters \in Seq(Threads)
  BY OnlyThreads, TablesSplit, SMTT(30) DEF IInv, TypeOK
<1>t. TypeOK'
  BY <1>0, CondSyscallType, SMTT(30) DEF CondWait
<1>r. AtRest(t) /\ \A u \in Threads : ThreadOK(u)
  BY RunningAtRest
<1>1. c \in ids /\ m \in ids /\ m \in MutexIds /\ mutex[m].owner = t
      /\ UNCHANGED <<ids, holder>>
  BY <1>0 DEF CondParks, CondOK
<1>2. mutex' = [mutex EXCEPT ![m] = Released(@)]
  BY DEF CondParks
<1>3. ~Contains(cond[c].waiters, t)
  BY <1>r DEF AtRest, OffLists, OnC
<1>4. PICK tmr \in Timeouts(CondTimer(c, m)) :
        BlockAndWake(t, CondWakeReacquire(m), tmr, woken)
  BY <1>3 DEF CondParks
<1>5. cond' = [cond EXCEPT ![c] = f]
  BY <1>3 DEF CondParks
<1>6. f.waiters = q /\ f.mutex_id = m
  BY <1>0 DEF CondEntry
<1>7. /\ \A u : Contains(q, u) <=> Contains(cond[c].waiters, u) \/ u = t
      /\ NoDuplicates(cond[c].waiters) => NoDuplicates(q)
  <2>1. cond[c].waiters \in Seq(Threads)
    BY <1>0
  <2> HIDE DEF f, m, woken
  <2> QED BY <2>1, <1>3, EnqueueThread, ZenonT(60)
<1> HIDE DEF q, f
<1>8. /\ cond'[c] = f /\ \A d \in CondIds \ {c} : cond'[d] = cond[d]
      /\ \A u : \A d \in CondIds :
            OnC(u, d)' <=> IF d = c THEN Contains(q, u) ELSE OnC(u, d)
  BY <1>0, <1>5, <1>6, OneCond, ZenonT(60)
<1>9. /\ \A n \in MutexIds \ {m} : mutex'[n] = mutex[n]
      /\ EntryOK(mutex'[m])
      /\ mutex'[m].owner \in woken \cup {NoThread}
      /\ \A u \in Threads : \A n \in MutexIds :
            OnM(u, n)' <=> OnM(u, n) /\ (n = m => u \notin woken)
  BY <1>1, <1>2, <1>r, ReleasedLists, ZenonT(60)
<1>10. \A u \in woken : /\ u \in Threads /\ AtMutex(u, m)
                        /\ status[u] = "Blocked" /\ ~Unresolvable(pending[u])
  BY <1>1, <1>r, InheritorParked, SMTT(30)
<1> HIDE DEF woken, m
<1>11. t \notin woken
  BY <1>10, SMTT(30)
<1>12. /\ status'[t] = "Blocked" /\ pending'[t] = CondWakeReacquire(m)
       /\ timer'[t] \in {NoTimer, CondTimer(c, m)}
       /\ \A u \in Threads \ {t} :
             /\ u \in woken => /\ status'[u] = "Runnable"
                               /\ pending'[u] = NoResponse
                               /\ timer'[u] = NoTimer
             /\ u \notin woken => /\ status'[u] = status[u]
                                  /\ pending'[u] = pending[u]
                                  /\ timer'[u] = timer[u]
       /\ breaks' = breaks
  <2>1. Wakeable(woken) = woken
    BY <1>10, SMTT(30) DEF Wakeable
  <2>2. WakeBreaks(woken, pending) = {}
    BY <1>10, <2>1, SMTT(30) DEF WakeBreaks
  <2>3. pending[t] = NoResponse /\ timer[t] = NoTimer
    BY <1>r, SMTT(30) DEF AtRest
  <2>4. ParkBreaks(t, tmr) = {}
    BY <2>3 DEF ParkBreaks
  <2>5. tmr \in {NoTimer, CondTimer(c, m)}
    BY <1>4 DEF Timeouts
  <2> QED BY <2>1, <2>2, <2>3, <2>4, <2>5, <1>4, <1>11, ZenonT(60) DEF BlockAndWake
<1>13. ASSUME NEW u \in Threads PROVE ThreadOK(u)'
  <2>1. CASE u = t
    <3>1. \A n \in MutexIds : ~OnM(t, n)'
      BY <1>r, <1>9, SMTT(30) DEF AtRest, OffLists
    <3>2. \A d \in CondIds : OnC(t, d)' <=> d = c
      BY <1>r, <1>7, <1>8, SMTT(30) DEF AtRest, OffLists
    <3>3. AtCond(t, c)'
      BY <3>1, <3>2, <1>6, <1>8, <1>12, SMTT(30) DEF AtCond
    <3> QED BY <2>1, <3>3, SMTT(30) DEF ThreadOK
  <2>2. \A d \in CondIds : u # t => (OnC(u, d)' <=> OnC(u, d))
    BY <1>7, <1>8, SMTT(30) DEF OnC
  <2>3. CASE u # t /\ u \in woken
    <3>1. OffLists(u)'
      BY <2>2, <2>3, <1>9, <1>10, SMTT(30) DEF AtMutex, OffLists
    <3> QED BY <2>3, <3>1, <1>12, SMTT(30) DEF ThreadOK, AtRest
  <2>4. CASE u # t /\ u \notin woken
    <3>1. \A d \in CondIds : cond'[d].mutex_id = cond[d].mutex_id
      BY <1>6, <1>8, SMTT(30) DEF m
    <3>2. Stays(u)
      BY <2>2, <2>4, <3>1, <1>9, <1>12, ZenonT(60) DEF Stays
    <3> QED BY <3>2, <1>r, StaysOK, SMTT(30)
  <2> QED BY <2>1, <2>3, <2>4, SMTT(30)
<1>14. ASSUME NEW n \in MutexIds PROVE MutexOK(n)'
  <2>1. CASE n = m
    BY <2>1, <1>1, <1>9, ZenonT(60) DEF MutexOK
  <2>2. CASE n # m
    BY <2>2, <1>0, <1>1, <1>9, TablesSplit, MutexKept, SMTT(30)
  <2> QED BY <2>1, <2>2, SMTT(30)
<1>15. ASSUME NEW d \in CondIds PROVE CondOK(d)'
  <2>0. CondOK(d)
    BY <1>0, TablesSplit, SMTT(30)
  <2>1. ~Contains(cond[d].waiters, mutex'[m].owner) /\ mutex'[m].owner # t
    <3>1. CASE mutex'[m].owner = NoThread
      BY <3>1, <1>0, OnlyThreads, MutexCondAssumption, SMTT(30) DEF OnC
    <3>2. CASE mutex'[m].owner \in woken
      BY <3>2, <1>10, <1>11, SMTT(30) DEF AtMutex, OnC
    <3> QED BY <3>1, <3>2, <1>9, SMTT(30)
  <2>2. ~Contains(cond'[d].waiters, mutex'[m].owner)
    BY <2>1, <1>6, <1>7, <1>8, SMTT(30)
  <2>3. CASE d = c
    <3>1. /\ NoDuplicates(cond'[c].waiters) /\ cond'[c].mutex_id = m
          /\ m \in MutexIds /\ c \in ids'
      BY <1>0, <1>1, <1>6, <1>7, <1>8, ZenonT(60) DEF CondOK
    <3> QED BY <2>2, <2>3, <3>1, ZenonT(60) DEF CondOK, OnC
  <2>4. CASE d # c /\ cond[d].mutex_id = m
    <3>1. /\ cond'[d] = cond[d] /\ ids' = ids
      BY <2>4, <1>1, <1>8, ZenonT(60)
    <3> QED BY <2>0, <2>2, <2>4, <3>1, ZenonT(60) DEF CondOK, OnC
  <2>5. CASE d # c /\ cond[d].mutex_id # m
    BY <2>0, <2>5, <1>1, <1>8, <1>9, CondKept, ZenonT(60)
  <2> QED BY <2>3, <2>4, <2>5, SMTT(30)
<1> QED BY <1>t, <1>0, <1>12, <1>13, <1>14, <1>15, Assemble, SMTT(30) DEF OnlyExitBreaks
=============================================================================
