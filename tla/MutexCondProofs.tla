-------------------------- MODULE MutexCondProofs ---------------------------
(***************************************************************************)
(* Proofs about MutexCond, for every set of threads, processes, mutexes,   *)
(* conds and attributes.                                                   *)
(***************************************************************************)
EXTENDS MutexCond, WaiterListProofs, WakeProtocolProofs

(***************************************************************************)
(* Type correctness.                                                       *)
(***************************************************************************)
LEMMA Sets == GoodSets(Responses, Timers, Codes)
<1>1. \A r \in Responses : ReturnOf(r) \in Codes
  <2> SUFFICES ASSUME NEW r \in Responses PROVE ReturnOf(r) \in Codes
    OBVIOUS
  <2>1. CASE r = NoResponse
    BY <2>1 DEF ReturnOf, NoResponse, Response, Codes
  <2>2. CASE \E c \in Codes : r = ReturnCode(c)
    BY <2>2 DEF ReturnOf, ReturnCode, Response
  <2>3. CASE \E m \in MutexIds : r = CondWakeReacquire(m)
    BY <2>3 DEF ReturnOf, CondWakeReacquire, Response, Codes
  <2> QED BY <2>1, <2>2, <2>3 DEF Responses
<1>2. "OK" \in Codes
  BY DEF Codes
<1>3. NoResponse \in Responses /\ \A c \in Codes : ReturnCode(c) \in Responses
  BY DEF Responses
<1>4. NoTimer \in Timers /\ SleepTimer \in Timers
  BY DEF Timers
<1> QED BY <1>1, <1>2, <1>3, <1>4 DEF GoodSets

(* The entry a mutex create stores.                                        *)
LEMMA NewMutexType ==
    /\ NoEntry \in MutexEntry
    /\ \A a \in MutexAttrs : NewMutex(a) \in MutexEntry
<1>1. \A a \in [recursive : BOOLEAN, process_shared : BOOLEAN] :
         NewMutex(a) \in MutexEntry
  BY MutexCondAssumption, SmallLists DEF NewMutex, MutexEntry
<1> QED BY <1>1, MutexCondAssumption, Zenon DEF NoEntry, DefaultAttrs

(* The entry a cond create stores.                                         *)
LEMMA NewCondType ==
    /\ NoCond \in CondEntry
    /\ \A m \in MutexIds, s \in BOOLEAN : NewCond(m, s) \in CondEntry
BY SmallLists DEF NewCond, CondEntry, NoCond

(* The entry a release leaves.                                             *)
LEMMA ReleasedFields ==
    ASSUME NEW e \in MutexEntry
    PROVE  LET w == e.waiters
               f == Released(e)
           IN  /\ f \in MutexEntry
               /\ Inheritor(e) \subseteq Threads
               /\ f.lock_count = 0 /\ f.attrs = e.attrs
               /\ w = <<>> => /\ f.owner = NoThread /\ f.waiters = <<>>
                              /\ Inheritor(e) = {}
               /\ w # <<>> => /\ f.owner = Head(w) /\ f.waiters = Tail(w)
                              /\ Inheritor(e) = {Head(w)}
<1> DEFINE w == e.waiters
           o == IF w = <<>> THEN NoThread ELSE Head(w)
           q == IF w = <<>> THEN <<>> ELSE Tail(w)
<1>1. w \in Seq(Threads) /\ 0 \in 0..LockCountMax
  BY MutexCondAssumption DEF MutexEntry
<1>2. o \in Threads \cup {NoThread} /\ q \in Seq(Threads)
  BY <1>1, DequeueProperties, SmallLists
<1>3. Released(e) = [e EXCEPT !.owner = o, !.waiters = q, !.lock_count = 0]
  BY DEF Released
<1>4. Inheritor(e) \subseteq Threads
  BY <1>1, DequeueProperties DEF Inheritor
<1> HIDE DEF o, q, w
<1>5. [e EXCEPT !.owner = o, !.waiters = q, !.lock_count = 0] \in MutexEntry
  BY <1>1, <1>2, Zenon DEF MutexEntry
<1>6. /\ Released(e).owner = o
      /\ Released(e).waiters = q
      /\ Released(e).lock_count = 0
      /\ Released(e).attrs = e.attrs
  BY <1>3 DEF MutexEntry
<1> QED BY <1>3, <1>4, <1>5, <1>6 DEF Inheritor, o, q, w

(* The re-acquire by a nonempty list of threads.                           *)
LEMMA ReacquireType ==
    ASSUME NEW e \in MutexEntry, NEW w \in Seq(Threads), w # <<>>
    PROVE  LET r == Reacquire(e, w)
           IN  /\ r.entry \in MutexEntry
               /\ r.woken \subseteq Threads
<1> DEFINE free == e.owner = NoThread
           owner == IF free THEN Head(w) ELSE e.owner
           rest == IF free THEN Tail(w) ELSE w
           refused == {t \in Waiting(rest) : t = owner \/ Contains(e.waiters, t)}
           q == RemoveSet(rest, refused)
<1>1. Head(w) \in Threads /\ Tail(w) \in Seq(Threads)
  BY DequeueProperties
<1>2. rest \in Seq(Threads) /\ owner \in Threads
  BY <1>1 DEF MutexEntry
<1>3. q \in Seq(Threads)
  <2> HIDE DEF rest, refused
  <2> QED BY <1>2, RemoveSetProperties
<1>4. refused \subseteq Threads
  <2> HIDE DEF rest, owner
  <2>1. \A i \in 1..Len(rest) : rest[i] \in Threads
    BY <1>2, ElementOfSeq
  <2> QED BY <2>1 DEF Waiting
<1>5. e.waiters \o q \in Seq(Threads)
  <2> HIDE DEF q
  <2>1. e.waiters \in Seq(Threads)
    BY DEF MutexEntry
  <2> QED BY <2>1, <1>3, ConcatWaiters
<1>6. Reacquire(e, w) =
        [entry   |-> [e EXCEPT !.owner = owner, !.waiters = @ \o q],
         woken   |-> IF free THEN {Head(w)} \cup refused ELSE refused,
         refused |-> refused]
  BY DEF Reacquire
<1> HIDE DEF owner, rest, refused, q
<1>7. [e EXCEPT !.owner = owner, !.waiters = @ \o q] \in MutexEntry
  BY <1>2, <1>5, Zenon DEF MutexEntry
<1> QED BY <1>1, <1>4, <1>6, <1>7

(* The outcome of a re-acquire is made of table entries and responses.     *)
LEMMA ReacquireOutcomeType ==
    ASSUME TypeOK, NEW w \in Seq(Threads), w # <<>>,
           NEW m \in MutexIds \cup {NoMutex}, NEW code \in Codes
    PROVE  LET out == ReacquireOutcome(w, m, code)
           IN  /\ out.table \in [MutexIds -> MutexEntry]
               /\ out.woken \subseteq Threads
               /\ DOMAIN out.upd \subseteq Threads
               /\ \A t \in DOMAIN out.upd : out.upd[t] \in Responses
<1>1. Waiting(w) \subseteq Threads
  BY ElementOfSeq DEF Waiting
<1>2. "ESRCH" \in Codes /\ \A c \in Codes : ReturnCode(c) \in Responses
  BY DEF Codes, Responses
<1>3. /\ mutex \in [MutexIds -> MutexEntry]
      /\ m \in ids => m \in MutexIds /\ mutex[m] \in MutexEntry
  BY MutexCondAssumption DEF TypeOK, Ids
<1>4. CASE m \in ids
  <2> DEFINE r == Reacquire(mutex[m], w)
  <2>1. r.entry \in MutexEntry /\ r.woken \subseteq Threads
    BY <1>3, <1>4, ReacquireType
  <2> HIDE DEF r
  <2>2. ReacquireOutcome(w, m, code) =
          [table |-> [mutex EXCEPT ![m] = r.entry],
           woken |-> r.woken,
           upd   |-> [t \in Waiting(w) |->
                        ReturnCode(IF t \in r.refused THEN "ESRCH" ELSE code)],
           brk   |-> IF r.refused = {} THEN {} ELSE {"reacquire_enqueue"}]
    BY <1>4 DEF ReacquireOutcome, r
  <2> QED BY <1>1, <1>2, <1>3, <1>4, <2>1, <2>2, SMTT(30)
<1>5. CASE m \notin ids
  BY <1>1, <1>2, <1>3, <1>5 DEF ReacquireOutcome
<1> QED BY <1>4, <1>5

(* A call that only answers.                                               *)
LEMMA AnswerType ==
    ASSUME TypeOK, NEW t \in Threads, NEW code \in Codes, Answer(t, code)
    PROVE  TypeOK'
<1>1. RtTypeOK(Responses, Timers, Codes)'
  BY Sets, ImmediateType DEF TypeOK, Answer
<1>2. UNCHANGED <<mutex, cond, ids, holder>>
  BY DEF Answer, hostVars
<1> QED BY <1>1, <1>2 DEF TypeOK

(* The mutex syscalls keep the tables well typed,                          *)
LEMMA MutexSyscallType ==
    ASSUME TypeOK, NEW t \in Threads, NEW m \in MutexIds,
           \/ MutexCreate(t)    \/ MutexDestroy(t, m) \/ MutexLock(t, m)
           \/ MutexTrylock(t, m) \/ MutexUnlock(t, m)
    PROVE  TypeOK'
<1> USE DEF TypeOK
<1> DEFINE RtT == RtTypeOK(Responses, Timers, Codes)
<1>0. "OK" \in Codes /\ \A code \in {"EFAULT", "EINVAL", "EAGAIN", "ESRCH",
         "EBUSY", "EPERM", "EDEADLK", "EKRESOURCE"} : code \in Codes
  BY DEF Codes
<1>a. ASSUME NEW code, Answer(t, code), code \in Codes PROVE TypeOK'
  BY <1>a, AnswerType
<1>b. ASSUME Immediate(t, "OK") PROVE RtT'
  BY <1>b, <1>0, Sets, ImmediateType
<1>c. LockCountMax \in Nat /\ mutex[m] \in MutexEntry
  BY MutexCondAssumption
<1>1. CASE MutexCreate(t)
  <2>1. CASE \E code \in {"EFAULT", "EINVAL"} : Answer(t, code)
    BY <2>1, <1>0, <1>a
  <2>2. CASE MutexIds \subseteq ids /\ Answer(t, "EAGAIN")
    BY <2>2, <1>0, <1>a, SMTT(30)
  <2>3. ASSUME NEW n \in MutexIds \ ids, NEW a \in MutexAttrs,
               mutex' = [mutex EXCEPT ![n] = NewMutex(a)],
               ids' = ids \cup {n},
               holder' = [holder EXCEPT ![n] = ProcOf[t]],
               Immediate(t, "OK"), UNCHANGED cond
        PROVE  TypeOK'
    <3>1. RtT'
      BY <2>3, <1>b
    <3>2. mutex' \in [MutexIds -> MutexEntry]
      BY <2>3, NewMutexType
    <3>3. ids' \subseteq Ids /\ holder' \in [Ids -> Procs]
      BY <2>3, ProcAssumption, SMTT(30) DEF Ids
    <3> QED BY <3>1, <3>2, <3>3, <2>3
  <2> QED BY <1>1, <2>1, <2>2, <2>3 DEF MutexCreate
<1>2. CASE MutexDestroy(t, m)
  <2>1. CASE \E code \in {"ESRCH", "EBUSY", "EPERM"} : Answer(t, code)
    BY <2>1, <1>0, <1>a
  <2>2. CASE /\ mutex' = [mutex EXCEPT ![m] = NoEntry]
             /\ ids' = ids \ {m}
             /\ Immediate(t, "OK")
             /\ UNCHANGED <<cond, holder>>
    <3>1. RtT'
      BY <2>2, <1>b
    <3> QED BY <3>1, <2>2, NewMutexType
  <2> QED BY <1>2, <2>1, <2>2, SMTT(30) DEF MutexDestroy
<1>3. ASSUME Acquire(t, m) PROVE TypeOK'
  <2>1. RtT'
    BY <1>3, <1>b DEF Acquire
  <2>2. mutex' \in [MutexIds -> MutexEntry]
    <3>1. [mutex[m] EXCEPT !.owner = t] \in MutexEntry
      BY <1>c, Zenon DEF MutexEntry
    <3>2. mutex' = [mutex EXCEPT ![m] = [mutex[m] EXCEPT !.owner = t]]
      BY <1>3 DEF Acquire
    <3> QED BY <3>1, <3>2
  <2> QED BY <2>1, <2>2, <1>3 DEF Acquire
<1>4. ASSUME Relock(t, m) PROVE TypeOK'
  <2>1. CASE \E code \in {"EDEADLK", "EKRESOURCE"} : Answer(t, code)
    BY <2>1, <1>0, <1>a
  <2>2. CASE /\ mutex[m].lock_count < LockCountMax
             /\ mutex' = [mutex EXCEPT ![m].lock_count = @ + 1]
             /\ Immediate(t, "OK")
             /\ UNCHANGED <<cond, ids, holder>>
    <3>1. RtT'
      BY <2>2, <1>b
    <3>2. mutex[m].lock_count + 1 \in 0..LockCountMax
      BY <2>2, <1>c DEF MutexEntry
    <3>3. mutex' \in [MutexIds -> MutexEntry]
      BY <2>2, <3>2, ZenonT(60) DEF MutexEntry
    <3> QED BY <3>1, <3>3, <2>2
  <2> QED BY <1>4, <2>1, <2>2 DEF Relock
<1>5. ASSUME LockParks(t, m) PROVE TypeOK'
  <2>1. CASE Answer(t, "EDEADLK")
    BY <2>1, <1>0, <1>a
  <2>2. ASSUME mutex' = [mutex EXCEPT ![m].waiters = Enqueue(@, t)],
               NEW tmr \in Timeouts(MutexTimer(m)),
               Block(t, ReturnCode("OK"), tmr),
               UNCHANGED <<cond, ids, holder>>
        PROVE  TypeOK'
    <3>1. tmr \in Timers /\ ReturnCode("OK") \in Responses
      BY <2>2, <1>0 DEF Timeouts, Timers, Responses
    <3>2. RtT'
      BY <3>1, <2>2, Sets, BlockType
    <3>3. Enqueue(mutex[m].waiters, t) \in Seq(Threads)
      BY <1>c, EnqueueProperties DEF MutexEntry
    <3>4. mutex' \in [MutexIds -> MutexEntry]
      BY <2>2, <3>3, ZenonT(60) DEF MutexEntry
    <3> QED BY <3>2, <3>4, <2>2
  <2> QED BY <1>5, <2>1, <2>2 DEF LockParks
<1>6. CASE MutexLock(t, m)
  BY <1>6, <1>0, <1>a, <1>3, <1>4, <1>5 DEF MutexLock
<1>7. CASE MutexTrylock(t, m)
  <2>1. CASE \E code \in {"ESRCH", "EDEADLK", "EBUSY"} : Answer(t, code)
    BY <2>1, <1>0, <1>a
  <2> QED BY <1>7, <2>1, <1>3 DEF MutexTrylock
<1>8. CASE MutexUnlock(t, m)
  <2>1. CASE \E code \in {"ESRCH", "EPERM"} : Answer(t, code)
    BY <2>1, <1>0, <1>a
  <2>2. CASE /\ mutex[m].lock_count > 0
             /\ mutex' = [mutex EXCEPT ![m].lock_count = @ - 1]
             /\ Immediate(t, "OK")
             /\ UNCHANGED <<cond, ids, holder>>
    <3>1. RtT'
      BY <2>2, <1>b
    <3>2. mutex[m].lock_count - 1 \in 0..LockCountMax
      BY <2>2, <1>c DEF MutexEntry
    <3>3. mutex' \in [MutexIds -> MutexEntry]
      BY <2>2, <3>2, ZenonT(60) DEF MutexEntry
    <3> QED BY <3>1, <3>3, <2>2
  <2>3. CASE /\ mutex' = [mutex EXCEPT ![m] = Released(@)]
             /\ WakeAndReturn(t, "OK", Inheritor(mutex[m]), NoUpdates, {})
             /\ UNCHANGED <<cond, ids, holder>>
    <3>1. Released(mutex[m]) \in MutexEntry /\ Inheritor(mutex[m]) \subseteq Threads
      BY <1>c, ReleasedFields
    <3>2. DOMAIN NoUpdates = {}
      BY DEF NoUpdates
    <3>3. RtT'
      BY <2>3, <3>1, <3>2, <1>0, Sets, WakeAndReturnType, SMTT(30)
    <3> QED BY <3>1, <3>3, <2>3
  <2> QED BY <1>8, <2>1, <2>2, <2>3 DEF MutexUnlock
<1> QED BY <1>1, <1>2, <1>6, <1>7, <1>8, SMTT(30)

(* and so do the cond syscalls,                                            *)
LEMMA CondSyscallType ==
    ASSUME TypeOK, NEW t \in Threads, NEW c \in CondIds,
           \/ \E m \in MutexIds : CondCreate(t, m)
           \/ CondDestroy(t, c) \/ CondWait(t, c)
           \/ CondSignal(t, c) \/ CondSignalAll(t, c)
           \/ \E target \in Threads : CondSignalTo(t, c, target)
    PROVE  TypeOK'
<1> USE DEF TypeOK
<1> DEFINE RtT == RtTypeOK(Responses, Timers, Codes)
<1>0. "OK" \in Codes /\ \A code \in {"EFAULT", "EINVAL", "EAGAIN", "ESRCH",
         "EBUSY", "EPERM", "EDEADLK"} : code \in Codes
  BY DEF Codes
<1>a. ASSUME NEW code, Answer(t, code), code \in Codes PROVE TypeOK'
  BY <1>a, AnswerType
<1>b. DOMAIN NoUpdates = {}
  BY SMTT(30) DEF NoUpdates
<1>c. cond[c] \in CondEntry /\ cond[c].waiters \in Seq(Threads)
  BY SMTT(30) DEF CondEntry
<1>d. ASSUME cond[c].mutex_id \in ids
      PROVE  cond[c].mutex_id \in MutexIds /\ mutex[cond[c].mutex_id] \in MutexEntry
  BY <1>c, <1>d, MutexCondAssumption, SMTT(30) DEF CondEntry, Ids
<1>1. ASSUME NEW m \in MutexIds, CondCreate(t, m) PROVE TypeOK'
  <2>1. CASE \E code \in {"EFAULT", "EINVAL", "ESRCH", "EAGAIN"} : Answer(t, code)
    BY <2>1, <1>0, <1>a
  <2>2. ASSUME NEW d \in CondIds \ ids, NEW shared \in CondShared,
               cond' = [cond EXCEPT ![d] = NewCond(m, shared)],
               mutex' = [mutex EXCEPT
                   ![m].live_conds = @ + 1,
                   ![m].retains_cond_binding =
                       @ \/ (mutex[m].attrs.process_shared /\ ~shared)],
               ids' = ids \cup {d},
               holder' = [holder EXCEPT ![d] = ProcOf[t]],
               Immediate(t, "OK")
        PROVE  TypeOK'
    <3> DEFINE kept == mutex[m].retains_cond_binding
                          \/ (mutex[m].attrs.process_shared /\ ~shared)
               e == [mutex[m] EXCEPT !.live_conds = @ + 1,
                                     !.retains_cond_binding = kept]
    <3>1. RtT'
      BY <2>2, <1>0, Sets, ImmediateType, SMTT(30)
    <3>2. NewCond(m, shared) \in CondEntry
      BY MutexCondAssumption, NewCondType
    <3>3. cond' \in [CondIds -> CondEntry]
      BY <2>2, <3>2
    <3>4. mutex' = [mutex EXCEPT ![m] = e]
      BY <2>2, Zenon
    <3>5. kept \in BOOLEAN
      OBVIOUS
    <3>6. e \in MutexEntry
      <4>1. mutex[m] \in MutexEntry /\ mutex[m].live_conds + 1 \in Nat
        BY DEF MutexEntry
      <4> HIDE DEF kept
      <4> QED BY <3>5, <4>1, ZenonT(60) DEF MutexEntry
    <3>7. mutex' \in [MutexIds -> MutexEntry]
      <4> HIDE DEF e
      <4> QED BY <3>4, <3>6
    <3>8. ids' \subseteq Ids /\ holder' \in [Ids -> Procs]
      BY <2>2, ProcAssumption, SMTT(30) DEF Ids
    <3> QED BY <3>1, <3>3, <3>7, <3>8
  <2> QED BY <1>1, <2>1, <2>2, SMTT(30) DEF CondCreate
<1>2. CASE CondDestroy(t, c)
  <2> DEFINE mm == cond[c].mutex_id
             bound == mm \in ids /\ mutex[mm].live_conds > 0
  <2>1. CASE \E code \in {"ESRCH", "EBUSY"} : Answer(t, code)
    BY <2>1, <1>0, <1>a
  <2>2. CASE /\ cond' = [cond EXCEPT ![c] = NoCond]
             /\ mutex' = IF bound THEN [mutex EXCEPT ![mm].live_conds = @ - 1]
                         ELSE mutex
             /\ ids' = ids \ {c}
             /\ WakeAndReturn(t, "OK", {}, NoUpdates,
                              IF bound THEN {} ELSE {"cond_destroy_unbound_mutex"})
             /\ UNCHANGED holder
    <3>1. RtT'
      BY <2>2, <1>0, <1>b, Sets, WakeAndReturnType, SMTT(30)
    <3>2. mutex' \in [MutexIds -> MutexEntry]
      <4>1. CASE ~bound
        BY <4>1, <2>2
      <4>2. CASE bound
        <5>1. mm \in MutexIds /\ mutex[mm] \in MutexEntry
          BY <4>2, <1>d, SMTT(30)
        <5>2. mutex[mm].live_conds - 1 \in Nat
          BY <4>2, <5>1 DEF MutexEntry
        <5>3. mutex' = [mutex EXCEPT ![mm].live_conds = @ - 1]
          BY <4>2, <2>2
        <5> HIDE DEF mm
        <5> QED BY <5>1, <5>2, <5>3, ZenonT(60) DEF MutexEntry
      <4> QED BY <4>1, <4>2
    <3>3. cond' \in [CondIds -> CondEntry]
      BY <2>2, NewCondType
    <3> QED BY <3>1, <3>2, <3>3, <2>2, SMTT(30)
  <2> QED BY <1>2, <2>1, <2>2 DEF CondDestroy
<1>3. CASE CondWait(t, c)
  <2> DEFINE mm == cond[c].mutex_id
  <2>1. CASE \E code \in {"ESRCH", "OK", "EPERM"} : Answer(t, code)
    BY <2>1, <1>0, <1>a
  <2>2. CASE CondParks(t, c)
    <3>1. /\ mm \in ids /\ mutex' = [mutex EXCEPT ![mm] = Released(@)]
          /\ UNCHANGED <<ids, holder>>
      BY <2>2 DEF CondParks
    <3>2. mm \in MutexIds /\ mutex[mm] \in MutexEntry
      BY <1>d, <3>1, SMTT(30)
    <3> HIDE DEF mm
    <3>3. Released(mutex[mm]) \in MutexEntry /\ Inheritor(mutex[mm]) \subseteq Threads
      BY <3>2, ReleasedFields
    <3>4. mutex' \in [MutexIds -> MutexEntry]
      BY <3>1, <3>3, ZenonT(60)
    <3>5. CASE /\ WakeAndReturn(t, "EDEADLK", {}, NoUpdates,
                                {"cond_wait_duplicate_waiter"})
               /\ UNCHANGED cond
      <4>1. RtT'
        BY <3>5, <1>0, <1>b, Sets, WakeAndReturnType, SMTT(30)
      <4> QED BY <4>1, <3>1, <3>4, <3>5, SMTT(30)
    <3>6. ASSUME cond' = [cond EXCEPT ![c].waiters = Enqueue(@, t)],
                 NEW tmr \in Timeouts(CondTimer(c, mm)),
                 BlockAndWake(t, CondWakeReacquire(mm), tmr, Inheritor(mutex[mm]))
          PROVE  TypeOK'
      <4>1. tmr \in Timers /\ CondWakeReacquire(mm) \in Responses
        BY <3>2 DEF Timeouts, Timers, Responses
      <4>2. RtT'
        BY <3>3, <3>6, <4>1, Sets, BlockAndWakeType, SMTT(30)
      <4>3. Enqueue(cond[c].waiters, t) \in Seq(Threads)
        BY <1>c, EnqueueProperties
      <4>4. cond' \in [CondIds -> CondEntry]
        BY <3>6, <4>3, Zenon DEF CondEntry
      <4> QED BY <4>2, <4>4, <3>1, <3>4, SMTT(30)
    <3> QED BY <2>2, <3>5, <3>6 DEF CondParks, mm
  <2> QED BY <1>3, <2>1, <2>2 DEF CondWait
<1>4. ASSUME NEW w \in Seq(Threads), NEW left \in Seq(Threads), w # <<>>,
             SignalWaiters(t, c, w, left)
      PROVE  TypeOK'
  <2> DEFINE out == ReacquireOutcome(w, cond[c].mutex_id, "OK")
  <2>1. /\ out.table \in [MutexIds -> MutexEntry]
        /\ out.woken \subseteq Threads
        /\ DOMAIN out.upd \subseteq Threads
        /\ \A u \in DOMAIN out.upd : out.upd[u] \in Responses
    <3>1. cond[c].mutex_id \in MutexIds \cup {NoMutex}
      BY <1>c DEF CondEntry
    <3> QED BY <3>1, <1>0, <1>4, ReacquireOutcomeType, ZenonT(60)
  <2>2. /\ cond' = [cond EXCEPT ![c].waiters = left]
        /\ mutex' = out.table
        /\ WakeAndReturn(t, "OK", out.woken, out.upd, out.brk)
        /\ UNCHANGED <<ids, holder>>
    BY <1>4 DEF SignalWaiters
  <2> HIDE DEF out
  <2>3. RtT'
    BY <2>1, <2>2, <1>0, Sets, WakeAndReturnType, ZenonT(60)
  <2>4. cond' \in [CondIds -> CondEntry]
    BY <1>4, <2>2, ZenonT(60) DEF CondEntry
  <2> QED BY <2>1, <2>2, <2>3, <2>4
<1>5. ASSUME cond[c].waiters # <<>>
      PROVE  Head(cond[c].waiters) \in Threads /\ Tail(cond[c].waiters) \in Seq(Threads)
  BY <1>c, <1>5, DequeueProperties
<1>6. \A u \in Threads : <<u>> \in Seq(Threads) /\ <<u>> # <<>>
  BY SmallLists
<1>7. <<>> \in Seq(Threads)
  BY SmallLists, SMTT(30)
<1>8. CASE CondSignal(t, c)
  <2> DEFINE w == cond[c].waiters
  <2>1. CASE \E code \in {"ESRCH", "OK"} : Answer(t, code)
    BY <2>1, <1>0, <1>a
  <2>2. CASE w # <<>> /\ SignalWaiters(t, c, <<Head(w)>>, Tail(w))
    BY <2>2, <1>4, <1>5, <1>6, ZenonT(60)
  <2> QED BY <1>8, <2>1, <2>2, SMTT(30) DEF CondSignal
<1>9. CASE CondSignalAll(t, c)
  <2> DEFINE w == cond[c].waiters
  <2>1. CASE \E code \in {"ESRCH", "OK"} : Answer(t, code)
    BY <2>1, <1>0, <1>a
  <2>2. CASE w # <<>> /\ SignalWaiters(t, c, w, <<>>)
    BY <2>2, <1>4, <1>7, <1>c, ZenonT(60)
  <2> QED BY <1>9, <2>1, <2>2, ZenonT(60) DEF CondSignalAll
<1>10. ASSUME NEW target \in Threads, CondSignalTo(t, c, target) PROVE TypeOK'
  <2> DEFINE w == cond[c].waiters
  <2>1. CASE \E code \in {"ESRCH", "EPERM"} : Answer(t, code)
    BY <2>1, <1>0, <1>a
  <2>2. CASE SignalWaiters(t, c, <<target>>, Remove(w, target))
    <3>1. Remove(w, target) \in Seq(Threads)
      BY <1>c, RemoveProperties
    <3> QED BY <2>2, <3>1, <1>4, <1>6, ZenonT(60)
  <2> QED BY <1>10, <2>1, <2>2 DEF CondSignalTo
<1> QED BY <1>1, <1>2, <1>3, <1>8, <1>9, <1>10, SMTT(30)

(* the expiries,                                                           *)
LEMMA FireTimerType ==
    ASSUME TypeOK, NEW t \in Threads, FireTimer(t)
    PROVE  TypeOK'
<1> USE DEF TypeOK
<1> DEFINE RtT == RtTypeOK(Responses, Timers, Codes)
<1>0. /\ "OK" \in Codes /\ "ETIMEDOUT" \in Codes
      /\ \A code \in Codes : ReturnCode(code) \in Responses
  BY DEF Codes, Responses
<1>1. timer[t] \in Timers
  BY DEF RtTypeOK
<1>2. /\ timer[t].kind = "Mutex" => timer[t].id \in MutexIds
      /\ timer[t].kind = "Cond" =>
            timer[t].id \in CondIds /\ timer[t].companion \in MutexIds
  BY <1>1, SMTT(30) DEF Timers, NoTimer, SleepTimer, MutexTimer, CondTimer, TimerEntry
<1>3. MissingWaiter.woken = {} /\ DOMAIN MissingWaiter.upd = {}
  BY DEF MissingWaiter, Expired, NoUpdates
<1>4. CASE FireSleep(t) /\ UNCHANGED hostVars
  <2> DEFINE ex == Expired({t}, NoUpdates, {})
  <2>1. ex.woken \subseteq Threads /\ DOMAIN ex.upd = {}
    BY DEF Expired, NoUpdates
  <2>2. ResolveExpiry(t, ex)
    BY <1>4, SMTT(30) DEF FireSleep
  <2> HIDE DEF ex
  <2>3. RtT'
    BY <2>1, <2>2, Sets, ResolveExpiryType
  <2> QED BY <2>3, <1>4, SMTT(30) DEF hostVars
<1>5. CASE ExpireMutexWait(t)
  <2> DEFINE m == timer[t].id
             removed == m \in ids /\ Contains(mutex[m].waiters, t)
             ex == ExpireUnqueued(t, removed)
  <2>0. m \in MutexIds
    BY <1>2, <1>5, SMTT(30) DEF ExpireMutexWait
  <2>1. /\ ex.woken \subseteq Threads /\ DOMAIN ex.upd \subseteq Threads
        /\ \A u \in DOMAIN ex.upd : ex.upd[u] \in Responses
    BY <1>0, <1>3, ZenonT(60) DEF ExpireUnqueued, CodedWake, Expired
  <2>2. /\ ResolveExpiry(t, ex)
        /\ mutex' = IF removed
                    THEN [mutex EXCEPT ![m].waiters = Remove(@, t)] ELSE mutex
        /\ UNCHANGED <<cond, ids, holder>>
    BY <1>5 DEF ExpireMutexWait
  <2> HIDE DEF ex, m, removed
  <2>3. RtT'
    BY <2>1, <2>2, Sets, ResolveExpiryType, SMTT(30)
  <2>4. Remove(mutex[m].waiters, t) \in Seq(Threads)
    BY <2>0, RemoveProperties DEF MutexEntry
  <2>5. mutex' \in [MutexIds -> MutexEntry]
    BY <2>0, <2>2, <2>4, ZenonT(60) DEF MutexEntry
  <2> QED BY <2>2, <2>3, <2>5, SMTT(30)
<1>6. CASE ExpireCondWait(t)
  <2> DEFINE c == timer[t].id
             removed == c \in ids /\ Contains(cond[c].waiters, t)
             out == ReacquireOutcome(<<t>>, timer[t].companion, "ETIMEDOUT")
             ex == IF removed THEN Expired(out.woken, out.upd, out.brk)
                   ELSE MissingWaiter
  <2>0. c \in CondIds /\ timer[t].companion \in MutexIds
    BY <1>2, <1>6 DEF ExpireCondWait
  <2>1. /\ ResolveExpiry(t, ex)
        /\ cond' = IF removed
                   THEN [cond EXCEPT ![c].waiters = Remove(@, t)] ELSE cond
        /\ mutex' = IF removed THEN out.table ELSE mutex
        /\ UNCHANGED <<ids, holder>>
    BY <1>6 DEF ExpireCondWait
  <2>2. /\ out.table \in [MutexIds -> MutexEntry]
        /\ out.woken \subseteq Threads
        /\ DOMAIN out.upd \subseteq Threads
        /\ \A u \in DOMAIN out.upd : out.upd[u] \in Responses
    <3>1. <<t>> \in Seq(Threads) /\ <<t>> # <<>>
      BY SmallLists, SMTT(30)
    <3> QED BY <2>0, <3>1, <1>0, ReacquireOutcomeType, ZenonT(60)
  <2> HIDE DEF out, c, removed
  <2>3. /\ ex.woken \subseteq Threads /\ DOMAIN ex.upd \subseteq Threads
        /\ \A u \in DOMAIN ex.upd : ex.upd[u] \in Responses
    BY <1>3, <2>2 DEF Expired
  <2> HIDE DEF ex
  <2>4. RtT'
    BY <2>1, <2>3, Sets, ResolveExpiryType, SMTT(30)
  <2>5. Remove(cond[c].waiters, t) \in Seq(Threads)
    BY <2>0, RemoveProperties DEF CondEntry
  <2>6. cond' \in [CondIds -> CondEntry]
    BY <2>0, <2>1, <2>5, ZenonT(60) DEF CondEntry
  <2> QED BY <2>1, <2>2, <2>4, <2>6
<1> QED BY <1>4, <1>5, <1>6, SMTT(30) DEF FireTimer

(* Purging keeps the entries' shape.                                       *)
LEMMA PurgedType ==
    ASSUME TypeOK, NEW S
    PROVE  /\ PurgedMutex(S) \in [MutexIds -> MutexEntry]
           /\ PurgedCond(S) \in [CondIds -> CondEntry]
<1>1. \A m \in MutexIds : RemoveSet(mutex[m].waiters, S) \in Seq(Threads)
  BY RemoveSetProperties DEF TypeOK, MutexEntry
<1>2. \A c \in CondIds : RemoveSet(cond[c].waiters, S) \in Seq(Threads)
  BY RemoveSetProperties DEF TypeOK, CondEntry
<1>3. \A m \in MutexIds : mutex[m] \in MutexEntry
  BY DEF TypeOK
<1>4. \A c \in CondIds : cond[c] \in CondEntry
  BY DEF TypeOK
<1>5. ASSUME NEW m \in MutexIds
      PROVE  [mutex[m] EXCEPT !.waiters = RemoveSet(@, S)] \in MutexEntry
  BY <1>1, <1>3, SMTT(30) DEF MutexEntry
<1>6. ASSUME NEW c \in CondIds
      PROVE  [cond[c] EXCEPT !.waiters = RemoveSet(@, S)] \in CondEntry
  BY <1>2, <1>4 DEF CondEntry
<1> QED BY <1>5, <1>6 DEF PurgedMutex, PurgedCond

(* and the exits.                                                          *)
LEMMA ExitType ==
    ASSUME TypeOK, NEW t \in Threads, ThreadExit(t) \/ ProcessExit(t)
    PROVE  TypeOK'
<1> USE DEF TypeOK
<1>1. CASE ThreadExit(t)
  BY <1>1 DEF ThreadExit, hostVars, RtTypeOK, NoReturns
<1>2. CASE RetireUnits(Threads) /\ UNCHANGED hostVars
  <2>1. RtTypeOK(Responses, Timers, Codes)'
    BY <1>2, Sets, RetireUnitsType, SMTT(30)
  <2> QED BY <2>1, <1>2 DEF hostVars
<1>3. CASE ChildExit(ProcOf[t])
  <2> DEFINE p == ProcOf[t]
  <2> DEFINE S == UnitsOf(p)
             D == DroppedIds(p, S)
  <2>1. /\ mutex' = [m \in MutexIds |->
                        IF m \in D THEN NoEntry ELSE PurgedMutex(S)[m]]
        /\ cond' = [c \in CondIds |->
                        IF c \in D THEN NoCond ELSE PurgedCond(S)[c]]
        /\ ids' = ids \ D
        /\ RetireUnits(UnitsOf(p))
        /\ UNCHANGED holder
    BY <1>3, ZenonT(60) DEF ChildExit
  <2>2. RtTypeOK(Responses, Timers, Codes)'
    BY <2>1, Sets, RetireUnitsType
  <2> HIDE DEF S, D
  <2>3. PurgedMutex(S) \in [MutexIds -> MutexEntry]
        /\ PurgedCond(S) \in [CondIds -> CondEntry]
    BY PurgedType
  <2>4. mutex' \in [MutexIds -> MutexEntry] /\ cond' \in [CondIds -> CondEntry]
    BY <2>1, <2>3, NewMutexType, NewCondType, ZenonT(60) DEF S, D
  <2> QED BY <2>1, <2>2, <2>4, Zenon DEF S, D
<1> QED BY <1>1, <1>2, <1>3, SMTT(30) DEF ProcessExit

(* The initial tables are well typed,                                      *)
LEMMA InitType == Init => TypeOK
<1> SUFFICES ASSUME Init PROVE TypeOK
  OBVIOUS
<1>1. RtTypeOK(Responses, Timers, Codes)
  BY Sets, RtInitType DEF Init
<1> QED BY <1>1, NewMutexType, NewCondType, ProcAssumption DEF Init, TypeOK

(* and every step keeps them so.                                           *)
LEMMA NextType == TypeOK /\ [Next]_vars => TypeOK'
<1> SUFFICES ASSUME TypeOK, [Next]_vars PROVE TypeOK'
  OBVIOUS
<1>1. CASE UNCHANGED vars
  BY <1>1 DEF vars, rtVars, hostVars, TypeOK, RtTypeOK
<1>2. ASSUME NEW t \in Threads, Syscall(t) PROVE TypeOK'
  <2>1. CASE Sleep(t) /\ UNCHANGED hostVars
    <3>1. /\ SleepTimer \in Timers /\ ReturnCode("OK") \in Responses
      BY DEF Timers, Responses, Codes
    <3>2. RtTypeOK(Responses, Timers, Codes)'
      BY <2>1, <3>1, Sets, BlockType, SMTT(30) DEF Sleep, TypeOK
    <3> QED BY <2>1, <3>2 DEF hostVars, TypeOK
  <2>2. CASE MutexCreate(t)
    <3>1. CASE Answer(t, "EFAULT") \/ Answer(t, "EINVAL") \/ Answer(t, "EAGAIN")
      BY <3>1, AnswerType DEF Codes
    <3>2. ASSUME NEW m \in MutexIds PROVE TypeOK'
      BY <2>2, <3>2, MutexSyscallType
    <3> QED BY <2>2, <3>1, <3>2 DEF MutexCreate
  <2>3. ASSUME NEW m \in MutexIds,
               \/ MutexDestroy(t, m) \/ MutexLock(t, m)
               \/ MutexTrylock(t, m) \/ MutexUnlock(t, m)
        PROVE  TypeOK'
    BY <2>3, MutexSyscallType
  <2>4. ASSUME NEW m \in MutexIds, CondCreate(t, m)
        PROVE  TypeOK'
    <3>1. ASSUME NEW c \in CondIds PROVE TypeOK'
      BY <2>4, <3>1, CondSyscallType
    <3>2. CASE \E code \in {"EFAULT", "EINVAL", "ESRCH", "EAGAIN"} : Answer(t, code)
      BY <3>2, AnswerType DEF Codes
    <3> QED BY <2>4, <3>1, <3>2 DEF CondCreate
  <2>5. ASSUME NEW c \in CondIds,
               \/ CondDestroy(t, c) \/ CondWait(t, c)
               \/ CondSignal(t, c) \/ CondSignalAll(t, c)
               \/ \E target \in Threads : CondSignalTo(t, c, target)
        PROVE  TypeOK'
    BY <2>5, CondSyscallType
  <2>6. CASE ThreadExit(t) \/ ProcessExit(t)
    BY <2>6, ExitType
  <2> QED BY <1>2, <2>1, <2>2, <2>3, <2>4, <2>5, <2>6, SMTT(30) DEF Syscall
<1>3. ASSUME NEW t \in Threads, FireTimer(t) PROVE TypeOK'
  BY <1>3, FireTimerType
<1> QED BY <1>1, <1>2, <1>3 DEF Next

(* Type correctness: the runtime's tables and the two primitive tables     *)
(* keep their shape through every syscall, expiry and exit.                *)
THEOREM TypeCorrect == Spec => []TypeOK
BY InitType, NextType, PTL DEF Spec
=============================================================================
