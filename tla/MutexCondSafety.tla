-------------------------- MODULE MutexCondSafety ---------------------------
(***************************************************************************)
(* The rest of the induction for MutexCond's invariant (signals, expiries, *)
(* sleeps and exits), and the safety theorems that follow from it.         *)
(***************************************************************************)
EXTENDS MutexCondInvariant

(* Re-acquire of a live mutex by threads that neither own it nor wait for  *)
(* it: nobody is refused, and who does not take a free mutex queues on it. *)
LEMMA ReacquireEffect ==
    ASSUME NEW e \in MutexEntry, EntryOK(e),
           NEW w \in Seq(Threads), w # <<>>, NoDuplicates(w),
           \A u : Contains(w, u) => ~Contains(e.waiters, u) /\ u # e.owner
    PROVE  LET r == Reacquire(e, w)
           IN  /\ r.refused = {}
               /\ r.woken = IF e.owner = NoThread THEN {Head(w)} ELSE {}
               /\ r.entry.owner = IF e.owner = NoThread THEN Head(w) ELSE e.owner
               /\ EntryOK(r.entry)
               /\ \A u : Contains(r.entry.waiters, u) <=>
                            \/ Contains(e.waiters, u)
                            \/ Contains(w, u) /\ u \notin r.woken
<1> DEFINE free == e.owner = NoThread
           owner == IF free THEN Head(w) ELSE e.owner
           rest == IF free THEN Tail(w) ELSE w
           refused == {t \in Waiting(rest) : t = owner \/ Contains(e.waiters, t)}
           q == RemoveSet(rest, refused)
           f == [e EXCEPT !.owner = owner, !.waiters = @ \o q]
<1>1. /\ Head(w) \in Threads /\ Tail(w) \in Seq(Threads) /\ Contains(w, Head(w))
      /\ \A t : Contains(w, t) <=> t = Head(w) \/ Contains(Tail(w), t)
      /\ NoDuplicates(Tail(w)) /\ ~Contains(Tail(w), Head(w))
  BY DequeueThread, Zenon
<1>2. /\ rest \in Seq(Threads) /\ NoDuplicates(rest) /\ owner \in Threads
      /\ \A t : Contains(rest, t) => Contains(w, t) /\ t # owner
      /\ \A t : Contains(w, t) =>
            (Contains(rest, t) <=> t \notin IF free THEN {Head(w)} ELSE {})
  <2>1. CASE free
    BY <2>1, <1>1, Zenon
  <2>2. CASE ~free
    <3>1. e.owner \in Threads
      BY <2>2 DEF MutexEntry
    <3> QED BY <2>2, <3>1, ZenonT(60)
  <2> QED BY <2>1, <2>2
<1>3. refused = {}
  <2> HIDE DEF rest, owner
  <2>1. \A t : t \in Waiting(rest) <=> Contains(rest, t)
    BY <1>2, WaitingThreads, ZenonT(60)
  <2> QED BY <1>2, <2>1
<1>4. /\ q \in Seq(Threads) /\ NoDuplicates(q)
      /\ \A t : Contains(q, t) <=> Contains(rest, t)
  <2> HIDE DEF rest, owner
  <2>1. /\ q \in Seq(Threads) /\ NoDuplicates(q)
        /\ \A t : Contains(q, t) <=> Contains(rest, t) /\ t \notin refused
    <3> HIDE DEF refused
    <3> QED BY <1>2, RemoveThreads, ZenonT(60)
  <2> QED BY <1>3, <2>1
<1>5. /\ e.waiters \in Seq(Threads) /\ NoDuplicates(e.waiters)
      /\ ~Contains(e.waiters, e.owner) /\ (e.owner = NoThread => e.waiters = <<>>)
      /\ e.owner = NoThread => e.lock_count = 0
      /\ e.lock_count > 0 => e.attrs.recursive
  BY DEF MutexEntry, EntryOK
<1>6. Reacquire(e, w) =
        [entry   |-> f,
         woken   |-> IF free THEN {Head(w)} \cup refused ELSE refused,
         refused |-> refused]
  BY DEF Reacquire
<1>7. \A t : ~(Contains(e.waiters, t) /\ Contains(q, t))
  <2> HIDE DEF q, rest
  <2> QED BY <1>2, <1>4
<1>8. /\ \A t : Contains(e.waiters \o q, t) <=> Contains(e.waiters, t) \/ Contains(q, t)
      /\ NoDuplicates(e.waiters \o q)
  <2> HIDE DEF q
  <2> QED BY <1>4, <1>5, <1>7, ConcatThreads, ZenonT(60)
<1>9. /\ f.owner = owner /\ f.waiters = e.waiters \o q
      /\ f.lock_count = e.lock_count /\ f.attrs = e.attrs
  <2> HIDE DEF owner, q
  <2> QED BY DEF MutexEntry
<1>10. ~Contains(e.waiters, owner) /\ ~Contains(q, owner) /\ owner # NoThread
  <2>1. ~Contains(q, owner) /\ owner # NoThread
    <3> HIDE DEF q, owner, rest
    <3> QED BY <1>2, <1>4, MutexCondAssumption
  <2>2. ~Contains(e.waiters, owner)
    BY <1>1, <1>5
  <2> QED BY <2>1, <2>2, SMTT(30)
<1>11. EntryOK(f)
  <2> HIDE DEF f, owner, q
  <2>1. ~Contains(f.waiters, f.owner) /\ f.owner # NoThread /\ NoDuplicates(f.waiters)
    BY <1>8, <1>9, <1>10, ZenonT(60)
  <2>2. f.lock_count > 0 => f.attrs.recursive
    BY <1>5, <1>9
  <2> QED BY <2>1, <2>2, Zenon DEF EntryOK
<1>12. \A u : Contains(f.waiters, u) <=>
                \/ Contains(e.waiters, u)
                \/ Contains(w, u) /\ u \notin IF free THEN {Head(w)} ELSE {}
  <2> HIDE DEF f, owner, q, rest
  <2>1. \A u : Contains(rest, u) <=>
            Contains(w, u) /\ u \notin IF free THEN {Head(w)} ELSE {}
    BY <1>2, ZenonT(60)
  <2> QED BY <1>4, <1>8, <1>9, <2>1, ZenonT(60)
<1> HIDE DEF f, q, rest, refused, owner
<1>13. /\ Reacquire(e, w).entry = f /\ Reacquire(e, w).refused = {}
       /\ Reacquire(e, w).woken = IF free THEN {Head(w)} ELSE {}
  BY <1>3, <1>6, SMTT(30)
<1> QED BY <1>9, <1>11, <1>12, <1>13, ZenonT(60) DEF owner

(* What cond_reacquire_outcome does to waiters w taken off a cond of mutex *)
(* m, and that it does so.                                                 *)
OutcomeOK(w, m, code, out) ==
    /\ \A u \in out.woken : Contains(w, u)
    /\ \A u : u \in DOMAIN out.upd <=> Contains(w, u)
    /\ \A u : Contains(w, u) =>
          /\ out.upd[u] \in {ReturnCode(code), ReturnCode("ESRCH")}
          /\ u \notin out.woken =>
                m \in ids /\ out.upd[u] = ReturnCode(code)
    /\ \A n \in MutexIds \ {m} : out.table[n] = mutex[n]
    /\ m \notin ids => out.table[m] = mutex[m]
    /\ EntryOK(out.table[m])
    /\ out.table[m].owner \in {mutex[m].owner} \cup out.woken
    /\ \A u : \A n \in MutexIds :
          Contains(out.table[n].waiters, u) <=>
             \/ OnM(u, n)
             \/ n = m /\ Contains(w, u) /\ u \notin out.woken
    /\ out.brk \subseteq {"reacquire_destroyed_mutex"}
    /\ m \in ids => out.brk = {}

(* cond_reacquire_outcome does what OutcomeOK says.                        *)
LEMMA OutcomeEffect ==
    ASSUME IInv, \A u \in Threads : ThreadOK(u), NEW c \in CondIds, c \in ids,
           NEW w \in Seq(Threads), w # <<>>, NoDuplicates(w),
           \A u : Contains(w, u) => OnC(u, c),
           NEW code \in {"OK", "ETIMEDOUT"},
           NEW m, m = cond[c].mutex_id,
           NEW out, out = ReacquireOutcome(w, m, code)
    PROVE  OutcomeOK(w, m, code, out)
<1>1. /\ TypeOK /\ m \in MutexIds /\ mutex[m] \in MutexEntry
      /\ mutex \in [MutexIds -> MutexEntry] /\ EntryOK(mutex[m])
      /\ ~OnC(mutex[m].owner, c)
  BY OnlyThreads, TablesSplit, SMTT(30) DEF IInv, TypeOK, MutexOK, CondOK
<1>2. \A u : Contains(w, u) => u \in Threads /\ ~Contains(mutex[m].waiters, u)
                               /\ u # mutex[m].owner
  <2> SUFFICES ASSUME NEW u, Contains(w, u)
               PROVE  u \in Threads /\ ~OnM(u, m) /\ u # mutex[m].owner
    BY DEF OnM
  <2>1. u \in Threads /\ OnC(u, c)
    BY WaitingThreads
  <2>2. AtCond(u, c)
    BY <2>1, Parked, SMTT(30)
  <2> QED BY <2>1, <2>2, <1>1, SMTT(30) DEF AtCond
<1>3. \A u : u \in Waiting(w) <=> Contains(w, u)
  BY WaitingThreads, SMTT(30)
<1>4. CASE m \in ids
  <2> DEFINE r == Reacquire(mutex[m], w)
  <2>1. /\ r.refused = {}
        /\ r.woken = IF mutex[m].owner = NoThread THEN {Head(w)} ELSE {}
        /\ r.entry.owner = IF mutex[m].owner = NoThread THEN Head(w) ELSE mutex[m].owner
        /\ EntryOK(r.entry)
        /\ \A u : Contains(r.entry.waiters, u) <=>
                     \/ Contains(mutex[m].waiters, u)
                     \/ Contains(w, u) /\ u \notin r.woken
    BY <1>1, <1>2, ReacquireEffect, ZenonT(60)
  <2>2. Contains(w, Head(w))
    BY DequeueThread
  <2> HIDE DEF r
  <2>3. out = [table |-> [mutex EXCEPT ![m] = r.entry],
               woken |-> r.woken,
               upd   |-> [t \in Waiting(w) |->
                            ReturnCode(IF t \in r.refused THEN "ESRCH" ELSE code)],
               brk   |-> IF r.refused = {} THEN {} ELSE {"reacquire_enqueue"}]
    BY <1>4 DEF ReacquireOutcome, r
  <2>4. /\ out.table = [mutex EXCEPT ![m] = r.entry] /\ out.woken = r.woken
        /\ out.brk = {} /\ DOMAIN out.upd = Waiting(w)
        /\ \A u \in Waiting(w) : out.upd[u] = ReturnCode(code)
    BY <2>1, <2>3
  <2>5. out.table[m] = r.entry /\ \A n \in MutexIds \ {m} : out.table[n] = mutex[n]
    BY <1>1, <2>4, SMTT(30)
  <2>6. out.table[m].owner \in {mutex[m].owner} \cup out.woken
    BY <2>1, <2>4, <2>5
  <2>7. \A u : \A n \in MutexIds :
           Contains(out.table[n].waiters, u) <=>
              \/ OnM(u, n)
              \/ n = m /\ Contains(w, u) /\ u \notin out.woken
    BY <2>1, <2>4, <2>5, ZenonT(60) DEF OnM
  <2>8. \A u \in out.woken : Contains(w, u)
    BY <2>1, <2>2, <2>4, ZenonT(60)
  <2> QED BY <1>3, <1>4, <2>1, <2>4, <2>5, <2>6, <2>7, <2>8, ZenonT(60) DEF OutcomeOK
<1>5. CASE m \notin ids
  <2>1. /\ out.table = mutex /\ out.woken = Waiting(w) /\ DOMAIN out.upd = Waiting(w)
        /\ \A u \in Waiting(w) : out.upd[u] = ReturnCode("ESRCH")
        /\ out.brk = {"reacquire_destroyed_mutex"}
    BY <1>5 DEF ReacquireOutcome
  <2>2. \A u : \A n \in MutexIds :
           Contains(out.table[n].waiters, u) <=>
              \/ OnM(u, n)
              \/ n = m /\ Contains(w, u) /\ u \notin out.woken
    BY <1>3, <2>1, SMTT(30) DEF OnM
  <2> QED BY <1>1, <1>3, <1>5, <2>1, <2>2, SMTT(30) DEF OutcomeOK
<1> QED BY <1>4, <1>5, SMTT(30)

(* Threads w leave cond c: those in W resume, the others queue on mutex m. *)
CondLeft(c, w) ==
    /\ \A d \in CondIds \ {c} : cond'[d] = cond[d]
    /\ cond'[c].mutex_id = cond[c].mutex_id
    /\ NoDuplicates(cond'[c].waiters)
    /\ \A u : \A d \in CondIds :
          OnC(u, d)' <=> OnC(u, d) /\ ~(d = c /\ Contains(w, u))
Requeued(m, w, W) ==
    /\ \A n \in MutexIds \ {m} : mutex'[n] = mutex[n]
    /\ m \notin ids => mutex'[m] = mutex[m]
    /\ EntryOK(mutex'[m])
    /\ mutex'[m].owner \in {mutex[m].owner} \cup W
    /\ \A u : \A n \in MutexIds :
          OnM(u, n)' <=> OnM(u, n) \/ (n = m /\ Contains(w, u) /\ u \notin W)
Moved(w, W) ==
    \A u \in Threads :
        IF Contains(w, u)
        THEN /\ timer'[u] = NoTimer
             /\ IF u \in W
                THEN status'[u] = "Runnable" /\ pending'[u] = NoResponse
                ELSE /\ status'[u] = status[u]
                     /\ pending'[u] \in {ReturnCode("OK"), ReturnCode("ETIMEDOUT")}
        ELSE /\ status'[u] = status[u]
             /\ pending'[u] = pending[u]
             /\ timer'[u] = timer[u]

(* Such a departure from a cond keeps the invariant.                       *)
LEMMA LeaveCondInv ==
    ASSUME IInv, TypeOK', \A u \in Threads : ThreadOK(u),
           NEW c \in CondIds, c \in ids, NEW m, m = cond[c].mutex_id,
           NEW w \in Seq(Threads), \A u : Contains(w, u) => OnC(u, c),
           NEW W, \A u \in W : Contains(w, u),
           CondLeft(c, w), Requeued(m, w, W), Moved(w, W),
           ids' = ids, OnlyExitBreaks'
    PROVE  IInv'
<1>0. Tables /\ CondOK(c) /\ m \in MutexIds
  BY TablesSplit, SMTT(30) DEF IInv, CondOK
<1>7. ASSUME NEW u \in Threads, Contains(w, u) PROVE AtCond(u, c)
  BY <1>7, Parked
<1>8. ASSUME NEW u \in Threads PROVE ThreadOK(u)'
  <2>1. CASE Contains(w, u) /\ u \in W
    <3>1. AtCond(u, c)
      BY <2>1, <1>7, SMTT(30)
    <3>2. OffLists(u)'
      BY <2>1, <3>1, SMTT(30) DEF AtCond, OffLists, CondLeft, Requeued
    <3> QED BY <2>1, <3>2, SMTT(30) DEF ThreadOK, AtRest, Moved
  <2>2. CASE Contains(w, u) /\ u \notin W
    <3>0. AtCond(u, c)
      BY <2>2, <1>7, SMTT(30)
    <3>1. /\ status'[u] = "Blocked" /\ timer'[u] = NoTimer
          /\ pending'[u] \in {ReturnCode("OK"), ReturnCode("ETIMEDOUT")}
      BY <2>2, <3>0, SMTT(30) DEF AtCond, Moved
    <3>2. \A n \in MutexIds : OnM(u, n)' <=> n = m
      BY <2>2, <3>0, SMTT(30) DEF AtCond, Requeued
    <3>3. \A d \in CondIds : ~OnC(u, d)'
      BY <2>2, <3>0, SMTT(30) DEF AtCond, CondLeft
    <3>4. AtMutex(u, m)'
      BY <3>1, <3>2, <3>3, SMTT(30) DEF AtMutex
    <3> QED BY <1>0, <3>4, SMTT(30) DEF ThreadOK
  <2>3. CASE ~Contains(w, u)
    <3>1. Stays(u)
      BY <2>3 DEF Stays, CondLeft, Requeued, Moved
    <3> QED BY <3>1, StaysOK, SMTT(30)
  <2> QED BY <2>1, <2>2, <2>3, SMTT(30)
<1>9. ASSUME NEW n \in MutexIds PROVE MutexOK(n)'
  <2>0. MutexOK(n)
    BY <1>0, TablesSplit, SMTT(30)
  <2>1. CASE n = m
    BY <2>0, <2>1, SMTT(30) DEF MutexOK, Requeued
  <2>2. CASE n # m
    <3>1. mutex'[n] = mutex[n]
      BY <2>2 DEF Requeued
    <3> QED BY <2>0, <3>1, MutexKept, SMTT(30)
  <2> QED BY <2>1, <2>2
<1>10. ASSUME NEW d \in CondIds PROVE CondOK(d)'
  <2>0. CondOK(d)
    BY <1>0, TablesSplit, SMTT(30)
  <2>1. NoDuplicates(cond'[d].waiters) /\ cond'[d].mutex_id = cond[d].mutex_id
    <3>1. d = c => NoDuplicates(cond'[d].waiters)
      BY DEF CondLeft
    <3>2. d # c => NoDuplicates(cond'[d].waiters)
      BY <2>0, SMTT(30) DEF CondOK, CondLeft
    <3> QED BY <3>1, <3>2, SMTT(30) DEF CondLeft
  <2>2. ASSUME cond[d].mutex_id \in MutexIds
        PROVE  ~Contains(cond'[d].waiters, mutex'[cond[d].mutex_id].owner)
    <3> SUFFICES ASSUME NEW o, o = mutex'[cond[d].mutex_id].owner
                 PROVE  ~OnC(o, d)'
      BY DEF OnC
    <3>1. CASE o = mutex[cond[d].mutex_id].owner
      <4>1. ~OnC(o, d)
        BY <2>0, <2>2, <3>1, SMTT(30) DEF CondOK
      <4> QED BY <4>1, SMTT(30) DEF CondLeft
    <3>2. CASE o \in W
      <4>1. Contains(w, o) /\ o \in Threads
        BY <3>2, WaitingThreads, SMTT(30)
      <4>2. AtCond(o, c)
        BY <4>1, <1>7, SMTT(30)
      <4>3. OnC(o, d) <=> d = c
        BY <4>2, SMTT(30) DEF AtCond
      <4> QED BY <4>1, <4>3, SMTT(30) DEF CondLeft
    <3>3. o \in {mutex[cond[d].mutex_id].owner} \cup W
      <4>1. CASE cond[d].mutex_id = m
        BY <4>1, SMTT(30) DEF Requeued
      <4>2. CASE cond[d].mutex_id # m
        BY <4>2, <2>2, SMTT(30) DEF Requeued
      <4> QED BY <4>1, <4>2, SMTT(30)
    <3> QED BY <3>1, <3>2, <3>3, SMTT(30)
  <2>3. d \notin ids => cond'[d] = NoCond
    BY <2>0 DEF CondOK, CondLeft
  <2> QED BY <2>0, <2>1, <2>2, <2>3, ZenonT(60) DEF CondOK, OnC
<1> QED BY <1>8, <1>9, <1>10, Assemble, SMTT(30)

(* Cutting w out of the list of c is such a departure,                     *)
LEMMA CondLeaves ==
    ASSUME TypeOK, NEW c \in CondIds, NEW w, NEW left, NoDuplicates(left),
           \A u : Contains(left, u) <=> OnC(u, c) /\ ~Contains(w, u),
           cond' = [cond EXCEPT ![c].waiters = left]
    PROVE  CondLeft(c, w)
<1> DEFINE f == [cond[c] EXCEPT !.waiters = left]
<1>1. cond' = [cond EXCEPT ![c] = f] /\ f.waiters = left
      /\ f.mutex_id = cond[c].mutex_id
  BY DEF TypeOK, CondEntry
<1> HIDE DEF f
<1>2. /\ cond'[c] = f /\ \A d \in CondIds \ {c} : cond'[d] = cond[d]
      /\ \A u : \A d \in CondIds :
            OnC(u, d)' <=> IF d = c THEN Contains(f.waiters, u) ELSE OnC(u, d)
  BY <1>1, OneCond, ZenonT(60)
<1>3. \A u : \A d \in CondIds : OnC(u, d)' <=> OnC(u, d) /\ ~(d = c /\ Contains(w, u))
  BY <1>1, <1>2, ZenonT(60)
<1>4. cond'[c].waiters = left /\ cond'[c].mutex_id = cond[c].mutex_id
  BY <1>1, <1>2
<1> QED BY <1>2, <1>3, <1>4, ZenonT(60) DEF CondLeft

(* and so is storing the outcome of the re-acquire.                        *)
LEMMA Requeues ==
    ASSUME IInv, \A u \in Threads : ThreadOK(u), NEW c \in CondIds, c \in ids,
           NEW w \in Seq(Threads), w # <<>>, NoDuplicates(w),
           \A u : Contains(w, u) => OnC(u, c),
           NEW code \in {"OK", "ETIMEDOUT"},
           NEW m, m = cond[c].mutex_id,
           NEW out, out = ReacquireOutcome(w, m, code), mutex' = out.table
    PROVE  Requeued(m, w, out.woken)
<1>1. /\ \A n \in MutexIds \ {m} : out.table[n] = mutex[n]
      /\ m \notin ids => out.table[m] = mutex[m]
      /\ EntryOK(out.table[m])
      /\ out.table[m].owner \in {mutex[m].owner} \cup out.woken
      /\ \A u : \A n \in MutexIds :
            Contains(out.table[n].waiters, u) <=>
               \/ OnM(u, n)
               \/ n = m /\ Contains(w, u) /\ u \notin out.woken
  <2>1. OutcomeOK(w, m, code, out)
    BY OutcomeEffect, Zenon
  <2> QED BY <2>1, Zenon DEF OutcomeOK
<1> QED BY <1>1, ZenonT(60) DEF Requeued, OnM

(* sys_cond_signal and its siblings, for the waiters w.                    *)
LEMMA SignalWaitersInv ==
    ASSUME IInv, TypeOK', NEW t \in Threads, status[t] = "Runnable",
           NEW c \in CondIds, c \in ids,
           NEW w \in Seq(Threads), w # <<>>, NoDuplicates(w),
           \A u : Contains(w, u) => OnC(u, c),
           NEW left, NoDuplicates(left),
           \A u : Contains(left, u) <=> OnC(u, c) /\ ~Contains(w, u),
           SignalWaiters(t, c, w, left)
    PROVE  IInv'
<1>0. TypeOK /\ OnlyExitBreaks /\ \A u \in Threads : ThreadOK(u)
  BY RunningAtRest, SMTT(30) DEF IInv
<1>m. PICK m : m = cond[c].mutex_id
  OBVIOUS
<1>o. PICK out : out = ReacquireOutcome(w, m, "OK")
  BY SMTT(30)
<1>1. /\ cond' = [cond EXCEPT ![c].waiters = left] /\ mutex' = out.table
      /\ WakeAndReturn(t, "OK", out.woken, out.upd, out.brk) /\ ids' = ids
  BY <1>m, <1>o, SMTT(30) DEF SignalWaiters
<1>2. /\ \A u \in out.woken : Contains(w, u)
      /\ \A u : u \in DOMAIN out.upd <=> Contains(w, u)
      /\ \A u : Contains(w, u) =>
            /\ out.upd[u] \in {ReturnCode("OK"), ReturnCode("ESRCH")}
            /\ u \notin out.woken => out.upd[u] = ReturnCode("OK")
      /\ out.brk \subseteq {"reacquire_destroyed_mutex"}
  <2>1. OutcomeOK(w, m, "OK", out)
    BY <1>0, <1>m, <1>o, OutcomeEffect, SMTT(30)
  <2> QED BY <2>1, SMTT(30) DEF OutcomeOK
<1>3. CondLeft(c, w)
  BY <1>0, <1>1, CondLeaves, ZenonT(60)
<1>4. Requeued(m, w, out.woken)
  BY <1>0, <1>1, <1>m, <1>o, Requeues, ZenonT(60)
<1>5. \A u : Contains(w, u) => u \in Threads /\ status[u] = "Blocked"
  <2> SUFFICES ASSUME NEW u, Contains(w, u)
               PROVE  u \in Threads /\ status[u] = "Blocked"
    OBVIOUS
  <2>1. u \in Threads
    BY WaitingThreads
  <2>2. AtCond(u, c)
    BY <2>1, <1>0, Parked, SMTT(30)
  <2> QED BY <2>1, <2>2, SMTT(30) DEF AtCond
<1>6. Moved(w, out.woken) /\ breaks' = breaks \cup out.brk
  <2>1. ResolveWakes(out.woken, out.upd, [u \in {t} |-> "OK"], out.brk)
    BY <1>1, SMTT(30) DEF WakeAndReturn
  <2>2. Wakeable(out.woken) = out.woken
    BY <1>2, <1>5, SMTT(30) DEF Wakeable
  <2>3. \A u \in Threads :
           Restaged(out.upd)[u] = IF Contains(w, u) THEN out.upd[u] ELSE pending[u]
    BY <1>2, SMTT(30) DEF Restaged
  <2>4. \A u \in out.woken : ~Unresolvable(Restaged(out.upd)[u])
    BY <1>2, <1>5, <2>3, Distinct, SMTT(30)
  <2>5. WakeBreaks(out.woken, Restaged(out.upd)) = {}
    BY <2>2, <2>4, SMTT(30) DEF WakeBreaks
  <2>6. breaks' = breaks \cup out.brk
    BY <2>1, <2>5, SMTT(30) DEF ResolveWakes
  <2>7. \A u \in Threads :
           /\ status'[u] = IF u \in out.woken THEN "Runnable" ELSE status[u]
           /\ pending'[u] = IF u \in out.woken THEN NoResponse
                            ELSE Restaged(out.upd)[u]
           /\ timer'[u] = IF u \in out.woken \cup DOMAIN out.upd THEN NoTimer
                          ELSE timer[u]
    BY <2>1, <2>2, SMTT(30) DEF ResolveWakes
  <2> QED BY <1>2, <2>3, <2>6, <2>7, SMTT(30) DEF Moved
<1>7. OnlyExitBreaks'
  BY <1>0, <1>2, <1>6, ZenonT(60) DEF OnlyExitBreaks
<1> QED BY <1>0, <1>m, <1>1, <1>2, <1>3, <1>4, <1>6, <1>7, LeaveCondInv, ZenonT(60)

(* signal takes the head, signal_all the whole list, signal_to one thread. *)
LEMMA SignalsInv ==
    ASSUME IInv, NEW t \in Threads, status[t] = "Runnable", NEW c \in CondIds,
           \/ CondSignal(t, c) \/ CondSignalAll(t, c)
           \/ \E target \in Threads : CondSignalTo(t, c, target)
    PROVE  IInv'
<1> DEFINE w == cond[c].waiters
<1>0. /\ TypeOK /\ w \in Seq(Threads) /\ NoDuplicates(w)
      /\ \A u : OnC(u, c) <=> Contains(w, u)
  BY OnlyThreads, TablesSplit, SMTT(30) DEF IInv, CondOK, OnC
<1>t. TypeOK'
  BY <1>0, CondSyscallType, SMTT(30)
<1>a. ASSUME NEW code \in {"OK", "ESRCH", "EPERM"}, Answer(t, code) PROVE IInv'
  BY <1>a, AnswerInv DEF Codes
<1>s. \A u \in Threads : <<u>> \in Seq(Threads) /\ NoDuplicates(<<u>>) /\ <<u>> # <<>>
  BY SmallLists
<1>1. CASE w # <<>> /\ c \in ids /\ SignalWaiters(t, c, <<Head(w)>>, Tail(w))
  <2> HIDE DEF w
  <2>1. /\ Head(w) \in Threads
        /\ \A u : Contains(w, u) <=> u = Head(w) \/ Contains(Tail(w), u)
        /\ NoDuplicates(Tail(w)) /\ ~Contains(Tail(w), Head(w))
    BY <1>0, <1>1, DequeueThread, ZenonT(60)
  <2>2. \A u : Contains(<<Head(w)>>, u) <=> u = Head(w)
    BY SmallLists, Zenon
  <2>3. \A u : Contains(<<Head(w)>>, u) => OnC(u, c)
    BY <1>0, <2>1, <2>2, ZenonT(60)
  <2>4. \A u : Contains(Tail(w), u) <=> OnC(u, c) /\ ~Contains(<<Head(w)>>, u)
    BY <1>0, <2>1, <2>2, ZenonT(60)
  <2> QED BY <1>t, <1>s, <1>1, <2>1, <2>3, <2>4, SignalWaitersInv, ZenonT(60)
<1>2. CASE w # <<>> /\ c \in ids /\ SignalWaiters(t, c, w, <<>>)
  <2> HIDE DEF w
  <2>1. NoDuplicates(<<>>) /\ \A u : Contains(<<>>, u) <=> OnC(u, c) /\ ~Contains(w, u)
    BY <1>0, SmallLists
  <2> QED BY <1>0, <1>t, <1>2, <2>1, SignalWaitersInv, ZenonT(60)
<1>3. ASSUME NEW x \in Threads, Contains(w, x), c \in ids,
             SignalWaiters(t, c, <<x>>, Remove(w, x))
      PROVE  IInv'
  <2> HIDE DEF w
  <2>1. /\ NoDuplicates(Remove(w, x))
        /\ \A u : Contains(Remove(w, x), u) <=> Contains(w, u) /\ u # x
    BY <1>0, RemoveThread, ZenonT(60)
  <2>2. \A u : Contains(<<x>>, u) <=> u = x
    BY SmallLists
  <2>3. /\ \A u : Contains(<<x>>, u) => OnC(u, c)
        /\ \A u : Contains(Remove(w, x), u) <=> OnC(u, c) /\ ~Contains(<<x>>, u)
    BY <1>0, <1>3, <2>1, <2>2, ZenonT(60)
  <2> QED BY <1>t, <1>s, <1>3, <2>1, <2>3, SignalWaitersInv, ZenonT(60)
<1>4. CASE CondSignal(t, c)
  BY <1>4, <1>1, <1>a, SMTT(30) DEF CondSignal
<1>5. CASE CondSignalAll(t, c)
  BY <1>5, <1>2, <1>a, SMTT(30) DEF CondSignalAll
<1>6. ASSUME NEW x \in Threads, CondSignalTo(t, c, x) PROVE IInv'
  BY <1>6, <1>3, <1>a, SMTT(30) DEF CondSignalTo
<1> QED BY <1>4, <1>5, <1>6, SMTT(30)

-----------------------------------------------------------------------------
(* Timers.                                                                 *)

(* A step that leaves the host's tables alone.                             *)
LEMMA HostKept ==
    ASSUME IInv, TypeOK', UNCHANGED hostVars, OnlyExitBreaks', Places'
    PROVE  IInv'
BY DEF IInv, Tables, NoDups, MutexConsistent, hostVars

(* sys_timer_usleep parks a thread at rest on a timer.                     *)
LEMMA SleepInv ==
    ASSUME IInv, TypeOK', NEW t \in Threads, status[t] = "Runnable",
           Sleep(t), UNCHANGED hostVars
    PROVE  IInv'
<1>1. AtRest(t) /\ \A u \in Threads : ThreadOK(u)
  BY RunningAtRest, SMTT(30)
<1>2. /\ status'[t] = "Blocked" /\ pending'[t] = ReturnCode("OK")
      /\ timer'[t] = SleepTimer /\ breaks' = breaks
      /\ \A u \in Threads \ {t} : /\ status'[u] = status[u]
                                  /\ pending'[u] = pending[u]
                                  /\ timer'[u] = timer[u]
  BY <1>1, Distinct, SMTT(30) DEF Sleep, Block, ParkBreaks, IInv, TypeOK, RtTypeOK, AtRest
<1>3. \A u : /\ \A m \in MutexIds : OnM(u, m)' <=> OnM(u, m)
             /\ \A c \in CondIds : OnC(u, c)' <=> OnC(u, c)
  BY DEF hostVars, OnM, OnC
<1>4. ThreadOK(t)'
  <2>1. OffLists(t)'
    BY <1>1, <1>3, SMTT(30) DEF AtRest, OffLists
  <2> QED BY <1>2, <2>1, SMTT(30) DEF ThreadOK, Asleep
<1>5. ASSUME NEW u \in Threads, u # t PROVE ThreadOK(u)'
  <2>1. Stays(u)
    BY <1>2, <1>3, <1>5, SMTT(30) DEF Stays, hostVars
  <2> QED BY <2>1, <1>1, StaysOK, SMTT(30)
<1>6. OnlyExitBreaks' /\ Places'
  BY <1>2, <1>4, <1>5, SMTT(30) DEF IInv, OnlyExitBreaks, Places
<1> QED BY <1>6, HostKept

(* A thread whose deadline fires is parked where the deadline says.        *)
LEMMA DeadlinePlace ==
    ASSUME IInv, NEW t \in Threads
    PROVE  /\ timer[t] = SleepTimer => Asleep(t)
           /\ timer[t].kind = "Mutex" =>
                 /\ timer[t].id \in MutexIds /\ AtMutex(t, timer[t].id)
                 /\ timer[t] = MutexTimer(timer[t].id)
           /\ timer[t].kind = "Cond" =>
                 /\ timer[t].id \in CondIds /\ AtCond(t, timer[t].id)
                 /\ timer[t].companion = cond[timer[t].id].mutex_id
<1>1. CASE timer[t] = NoTimer
  BY <1>1, Distinct, SMTT(30)
<1>2. CASE timer[t] # NoTimer
  <2>1. ThreadOK(t)
    BY <1>2, DeadlineNotQuiet, SMTT(30)
  <2>2. CASE AtRest(t)
    BY <1>2, <2>2, SMTT(30) DEF AtRest
  <2>3. CASE Asleep(t)
    BY <2>3, Distinct, SMTT(30) DEF Asleep
  <2>4. ASSUME NEW m \in MutexIds, AtMutex(t, m) PROVE timer[t] = MutexTimer(m)
    BY <1>2, <2>4, SMTT(30) DEF AtMutex
  <2>5. ASSUME NEW c \in CondIds, AtCond(t, c)
        PROVE  timer[t] = CondTimer(c, cond[c].mutex_id)
    BY <1>2, <2>5 DEF AtCond
  <2>6. ASSUME NEW m \in MutexIds, AtMutex(t, m)
        PROVE  timer[t].kind = "Mutex" /\ timer[t].id = m /\ timer[t] # SleepTimer
    BY <2>4, <2>6, Distinct, ZenonT(60)
  <2>7. ASSUME NEW c \in CondIds, AtCond(t, c)
        PROVE  /\ timer[t].kind = "Cond" /\ timer[t].id = c /\ timer[t] # SleepTimer
               /\ timer[t].companion = cond[c].mutex_id
    BY <2>5, <2>7, Distinct, SMTT(30)
  <2>8. CASE \E m \in MutexIds : AtMutex(t, m)
    BY <2>4, <2>6, <2>8, SMTT(30)
  <2>9. CASE \E c \in CondIds : AtCond(t, c)
    BY <2>7, <2>9, SMTT(30)
  <2> QED BY <2>1, <2>2, <2>3, <2>8, <2>9, SMTT(30) DEF ThreadOK
<1> QED BY <1>1, <1>2, SMTT(30)

(* An expiry that wakes t and nobody else.                                 *)
LEMMA ExpiryWakes ==
    ASSUME IInv, NEW t \in Threads, status[t] = "Blocked",
           NEW upd, DOMAIN upd \subseteq {t},
           ~Unresolvable(IF t \in DOMAIN upd THEN upd[t] ELSE pending[t]),
           NEW brk, ResolveExpiry(t, Expired({t}, upd, brk))
    PROVE  /\ status'[t] = "Runnable" /\ pending'[t] = NoResponse
           /\ timer'[t] = NoTimer /\ breaks' = breaks \cup brk
           /\ \A u \in Threads \ {t} : /\ status'[u] = status[u]
                                       /\ pending'[u] = pending[u]
                                       /\ timer'[u] = timer[u]
<1> DEFINE ex == Expired({t}, upd, brk)
<1>1. ex.woken = {t} /\ ex.upd = upd /\ ex.brk = brk
  BY DEF Expired
<1> HIDE DEF ex
<1>2. Wakeable(ex.woken) = {t}
  BY <1>1, SMTT(30) DEF Wakeable
<1>3. \A u \in Threads : Restaged(ex.upd)[u] = IF u \in DOMAIN upd THEN upd[u] ELSE pending[u]
  BY <1>1, SMTT(30) DEF Restaged
<1>4. WakeBreaks({t}, Restaged(ex.upd)) = {}
  BY <1>1, <1>2, <1>3, SMTT(30) DEF WakeBreaks
<1>5. ResolveExpiry(t, ex) /\ timer \in [Threads -> Timers]
  BY SMTT(30) DEF ex, IInv, TypeOK, RtTypeOK
<1> QED BY <1>1, <1>2, <1>3, <1>4, <1>5, ZenonT(60) DEF ResolveExpiry

(* A sleep that ends.                                                      *)
LEMMA FireSleepInv ==
    ASSUME IInv, TypeOK', NEW t \in Threads, FireSleep(t), UNCHANGED hostVars
    PROVE  IInv'
<1>1. Asleep(t) /\ \A u \in Threads : ThreadOK(u)
  BY DeadlinePlace, DeadlineNotQuiet, Distinct, SMTT(30) DEF FireSleep
<1>2. /\ status'[t] = "Runnable" /\ pending'[t] = NoResponse
      /\ timer'[t] = NoTimer /\ breaks' = breaks \cup {}
      /\ \A u \in Threads \ {t} : /\ status'[u] = status[u]
                                  /\ pending'[u] = pending[u]
                                  /\ timer'[u] = timer[u]
  <2>1. DOMAIN NoUpdates = {}
    BY DEF NoUpdates
  <2>2. ResolveExpiry(t, Expired({t}, NoUpdates, {}))
    BY SMTT(30) DEF FireSleep
  <2>3. status[t] = "Blocked" /\ ~Unresolvable(pending[t])
    BY <1>1, Distinct, SMTT(30) DEF Asleep
  <2> QED BY <2>1, <2>2, <2>3, ExpiryWakes, ZenonT(60)
<1>3. \A u : /\ \A m \in MutexIds : OnM(u, m)' <=> OnM(u, m)
             /\ \A c \in CondIds : OnC(u, c)' <=> OnC(u, c)
  BY ZenonT(60) DEF hostVars, OnM, OnC
<1>4. ThreadOK(t)'
  <2>1. OffLists(t)'
    BY <1>1, <1>3, ZenonT(60) DEF Asleep, OffLists
  <2> QED BY <1>2, <2>1, SMTT(30) DEF ThreadOK, AtRest
<1>5. ASSUME NEW u \in Threads, u # t PROVE ThreadOK(u)'
  <2>1. Stays(u)
    BY <1>2, <1>3, <1>5, SMTT(30) DEF Stays, hostVars
  <2> QED BY <2>1, <1>1, StaysOK, SMTT(30)
<1>6. OnlyExitBreaks' /\ Places'
  BY <1>2, <1>4, <1>5, SMTT(30) DEF IInv, OnlyExitBreaks, Places
<1> QED BY <1>6, HostKept, SMTT(30)

(* A timed mutex wait that expires leaves the list without the mutex.      *)
LEMMA ExpireMutexWaitInv ==
    ASSUME IInv, TypeOK', NEW t \in Threads, ExpireMutexWait(t)
    PROVE  IInv'
<1>m. PICK m : m = timer[t].id
  OBVIOUS
<1>0. /\ m \in MutexIds /\ AtMutex(t, m) /\ timer[t] = MutexTimer(m)
  BY <1>m, DeadlinePlace DEF ExpireMutexWait
<1>1. /\ TypeOK /\ Tables /\ OnlyExitBreaks /\ MutexOK(m)
      /\ mutex \in [MutexIds -> MutexEntry] /\ mutex[m] \in MutexEntry
      /\ mutex[m].waiters \in Seq(Threads)
      /\ \A u \in Threads : ThreadOK(u)
  BY <1>0, OnlyThreads, TablesSplit, DeadlineNotQuiet, Distinct, ZenonT(60) DEF IInv, TypeOK
<1>2. Contains(mutex[m].waiters, t) /\ status[t] = "Blocked"
  BY <1>0, SMTT(30) DEF AtMutex, OnM
<1>3. m \in ids /\ mutex[m].owner # NoThread
  BY <1>1, <1>2, FreshEntries, SmallLists, SMTT(30) DEF MutexOK, EntryOK
<1> DEFINE q == Remove(mutex[m].waiters, t)
           e == [mutex[m] EXCEPT !.waiters = q]
<1>4. /\ mutex' = [mutex EXCEPT ![m] = e]
      /\ ResolveExpiry(t, CodedWake(t, "ETIMEDOUT"))
      /\ UNCHANGED <<cond, ids, holder>>
  BY <1>m, <1>2, <1>3, SMTT(30) DEF ExpireMutexWait, ExpireUnqueued
<1>5. /\ e.waiters = q /\ e.owner = mutex[m].owner
      /\ e.lock_count = mutex[m].lock_count /\ e.attrs = mutex[m].attrs
  BY <1>1 DEF MutexEntry
<1>6. /\ \A u : Contains(q, u) <=> Contains(mutex[m].waiters, u) /\ u # t
      /\ NoDuplicates(mutex[m].waiters) => NoDuplicates(q)
  <2> HIDE DEF e
  <2> QED BY <1>1, RemoveThread, ZenonT(60)
<1> HIDE DEF q, e
<1>7. /\ mutex'[m] = e /\ \A n \in MutexIds \ {m} : mutex'[n] = mutex[n]
      /\ \A u : \A n \in MutexIds :
            OnM(u, n)' <=> IF n = m THEN Contains(e.waiters, u) ELSE OnM(u, n)
  BY <1>0, <1>1, <1>4, OneMutex, ZenonT(60)
<1>8. \A u : /\ \A n \in MutexIds : OnM(u, n)' <=> OnM(u, n) /\ ~(n = m /\ u = t)
             /\ \A c \in CondIds : OnC(u, c)' <=> OnC(u, c)
  BY <1>4, <1>5, <1>6, <1>7, SMTT(30) DEF OnM, OnC
<1>9. /\ status'[t] = "Runnable" /\ pending'[t] = NoResponse
      /\ timer'[t] = NoTimer /\ breaks' = breaks \cup {}
      /\ \A u \in Threads \ {t} : /\ status'[u] = status[u]
                                  /\ pending'[u] = pending[u]
                                  /\ timer'[u] = timer[u]
  <2> DEFINE upd == [u \in {t} |-> ReturnCode("ETIMEDOUT")]
  <2>1. DOMAIN upd = {t} /\ ~Unresolvable(upd[t])
    BY Distinct
  <2>2. ResolveExpiry(t, Expired({t}, upd, {}))
    BY <1>4 DEF CodedWake
  <2> HIDE DEF upd
  <2> QED BY <1>2, <2>1, <2>2, ExpiryWakes, ZenonT(60)
<1>10. ASSUME NEW u \in Threads PROVE ThreadOK(u)'
  <2>1. CASE u = t
    <3>1. OffLists(t)'
      BY <1>0, <1>8, SMTT(30) DEF AtMutex, OffLists
    <3> QED BY <2>1, <3>1, <1>9, SMTT(30) DEF ThreadOK, AtRest
  <2>2. CASE u # t
    <3>1. Stays(u)
      BY <2>2, <1>4, <1>8, <1>9, ZenonT(60) DEF Stays
    <3> QED BY <1>1, <3>1, StaysOK, SMTT(30)
  <2> QED BY <2>1, <2>2, SMTT(30)
<1>11. ASSUME NEW n \in MutexIds PROVE MutexOK(n)'
  <2>1. CASE n = m
    <3>1. EntryOK(e)
      BY <1>1, <1>3, <1>5, <1>6, SMTT(30) DEF MutexOK, EntryOK
    <3> QED BY <2>1, <3>1, <1>3, <1>4, <1>7, SMTT(30) DEF MutexOK
  <2>2. CASE n # m
    BY <2>2, <1>1, <1>4, <1>7, TablesSplit, MutexKept, SMTT(30)
  <2> QED BY <2>1, <2>2, SMTT(30)
<1>12. ASSUME NEW c \in CondIds PROVE CondOK(c)'
  <2>1. CondOK(c)
    BY <1>1, TablesSplit, SMTT(30)
  <2>2. \A n \in MutexIds : mutex'[n].owner = mutex[n].owner
    BY <1>5, <1>7, SMTT(30)
  <2> QED BY <2>1, <2>2, <1>4, CondKept, SMTT(30)
<1>13. OnlyExitBreaks'
  BY <1>1, <1>9, SMTT(30) DEF OnlyExitBreaks
<1> QED BY <1>10, <1>11, <1>12, <1>13, Assemble, SMTT(30)

(* A timed cond wait that expires re-acquires the mutex, or queues for it. *)
LEMMA ExpireCondWaitInv ==
    ASSUME IInv, TypeOK', NEW t \in Threads, ExpireCondWait(t)
    PROVE  IInv'
<1>c. PICK c : c = timer[t].id
  OBVIOUS
<1>m. PICK m : m = timer[t].companion
  BY SMTT(30)
<1>0. c \in CondIds /\ AtCond(t, c) /\ m = cond[c].mutex_id
  BY <1>c, <1>m, DeadlinePlace, SMTT(30) DEF ExpireCondWait
<1>1. /\ TypeOK /\ OnlyExitBreaks /\ CondOK(c)
      /\ cond[c].waiters \in Seq(Threads)
      /\ timer[t] # NoTimer /\ \A u \in Threads : ThreadOK(u)
  BY <1>0, OnlyThreads, TablesSplit, DeadlineNotQuiet, Distinct, SMTT(30) DEF IInv, ExpireCondWait
<1>2. Contains(cond[c].waiters, t) /\ status[t] = "Blocked"
  BY <1>0, SMTT(30) DEF AtCond, OnC
<1>3. c \in ids
  BY <1>1, <1>2, FreshEntries, SmallLists, SMTT(30) DEF CondOK
<1>w. PICK w : w = <<t>>
  BY Zenon
<1>4. /\ w \in Seq(Threads) /\ w # <<>> /\ NoDuplicates(w)
      /\ \A u : Contains(w, u) <=> u = t
  BY <1>w, SmallLists
<1>o. PICK out : out = ReacquireOutcome(w, m, "ETIMEDOUT")
  BY SMTT(30)
<1>5. /\ cond' = [cond EXCEPT ![c].waiters = Remove(@, t)] /\ mutex' = out.table
      /\ ResolveExpiry(t, Expired(out.woken, out.upd, out.brk)) /\ ids' = ids
  BY <1>c, <1>m, <1>w, <1>o, <1>2, <1>3, SMTT(30) DEF ExpireCondWait
<1>6. \A u : Contains(w, u) => OnC(u, c)
  BY <1>2, <1>4, SMTT(30) DEF OnC
<1>7. OutcomeOK(w, m, "ETIMEDOUT", out)
  BY <1>0, <1>1, <1>3, <1>4, <1>6, <1>o, OutcomeEffect, SMTT(30)
<1>8. CondLeft(c, w)
  <2> DEFINE left == Remove(cond[c].waiters, t)
  <2>1. cond' = [cond EXCEPT ![c].waiters = left]
    BY <1>0, <1>1, <1>5, SMTT(30) DEF TypeOK
  <2>2. /\ \A u : Contains(left, u) <=> Contains(cond[c].waiters, u) /\ u # t
        /\ NoDuplicates(left)
    <3>1. NoDuplicates(cond[c].waiters)
      BY <1>1 DEF CondOK
    <3> QED BY <3>1, <1>1, RemoveThread, ZenonT(60)
  <2> HIDE DEF left
  <2>3. \A u : Contains(left, u) <=> OnC(u, c) /\ ~Contains(w, u)
    BY <2>2, <1>4, SMTT(30) DEF OnC
  <2> QED BY <1>0, <1>1, <2>1, <2>2, <2>3, CondLeaves, ZenonT(60)
<1>9. Requeued(m, w, out.woken)
  BY <1>0, <1>1, <1>3, <1>4, <1>5, <1>6, <1>o, Requeues, SMTT(30)
<1>10. /\ out.woken \subseteq {t} /\ DOMAIN out.upd = {t}
       /\ out.upd[t] \in {ReturnCode("ETIMEDOUT"), ReturnCode("ESRCH")}
       /\ t \notin out.woken => out.upd[t] = ReturnCode("ETIMEDOUT")
       /\ out.brk \subseteq {"reacquire_destroyed_mutex"}
       /\ \A u \in out.woken : Contains(w, u)
  BY <1>4, <1>7, SMTT(30) DEF OutcomeOK
<1>11. Moved(w, out.woken) /\ OnlyExitBreaks'
  <2>1. CASE out.woken = {t}
    <3>1. /\ status'[t] = "Runnable" /\ pending'[t] = NoResponse
          /\ timer'[t] = NoTimer /\ breaks' = breaks \cup out.brk
          /\ \A u \in Threads \ {t} : /\ status'[u] = status[u]
                                      /\ pending'[u] = pending[u]
                                      /\ timer'[u] = timer[u]
      <4>1. ~Unresolvable(out.upd[t])
        BY <1>10, Distinct, SMTT(30)
      <4> QED BY <4>1, <2>1, <1>2, <1>5, <1>10, ExpiryWakes, ZenonT(60)
    <3> QED BY <2>1, <3>1, <1>1, <1>4, <1>10, ZenonT(60) DEF Moved, OnlyExitBreaks
  <2>2. CASE out.woken = {}
    <3> DEFINE ex == Expired(out.woken, out.upd, out.brk)
    <3>1. ex.woken = {} /\ ex.upd = out.upd /\ ex.brk = out.brk
      BY <2>2, SMTT(30) DEF Expired
    <3>2. ResolveExpiry(t, ex) /\ timer \in [Threads -> Timers]
      BY <1>1, <1>5, SMTT(30) DEF TypeOK, RtTypeOK
    <3> HIDE DEF ex
    <3>3. Wakeable(ex.woken) = {} /\ Wakeable({}) = {}
      BY <3>1, SMTT(30) DEF Wakeable
    <3>4. WakeBreaks({}, Restaged(ex.upd)) = {}
      BY <3>3, SMTT(30) DEF WakeBreaks
    <3>5. \A u \in Threads : Restaged(ex.upd)[u] = IF u = t THEN out.upd[t] ELSE pending[u]
      BY <1>10, <3>1, SMTT(30) DEF Restaged
    <3>6. /\ \A u \in Threads : /\ status'[u] = status[u]
                                /\ pending'[u] = Restaged(ex.upd)[u]
                                /\ timer'[u] = IF u = t THEN NoTimer ELSE timer[u]
          /\ breaks' = breaks \cup out.brk
      BY <1>2, <3>1, <3>2, <3>3, <3>4, ZenonT(60) DEF ResolveExpiry
    <3> QED BY <2>2, <3>5, <3>6, <1>1, <1>4, <1>10, ZenonT(60) DEF Moved, OnlyExitBreaks
  <2> QED BY <2>1, <2>2, <1>10, SMTT(30)
<1> QED BY <1>0, <1>1, <1>3, <1>4, <1>5, <1>6, <1>8, <1>9, <1>10, <1>11, LeaveCondInv, SMTT(30)

-----------------------------------------------------------------------------
(* Exits.                                                                  *)

(* sys_ppu_thread_exit by a thread at rest.                                *)
LEMMA ThreadExitInv ==
    ASSUME IInv, TypeOK', NEW t \in Threads, status[t] = "Runnable", ThreadExit(t)
    PROVE  IInv'
<1>1. AtRest(t) /\ \A u \in Threads : ThreadOK(u)
  BY RunningAtRest, SMTT(30)
<1>2. /\ status'[t] = "Finished" /\ \A u \in Threads \ {t} : status'[u] = status[u]
      /\ UNCHANGED <<pending, timer, breaks, mutex, cond>>
  BY ZenonT(60) DEF ThreadExit, hostVars, IInv, TypeOK, RtTypeOK
<1>3. \A u : /\ \A m \in MutexIds : OnM(u, m)' <=> OnM(u, m)
             /\ \A c \in CondIds : OnC(u, c)' <=> OnC(u, c)
  BY <1>2, SMTT(30) DEF OnM, OnC
<1>4. ThreadOK(t)'
  BY <1>1, <1>2, <1>3, ZenonT(60) DEF ThreadOK, AtRest, OffLists
<1>5. ASSUME NEW u \in Threads, u # t PROVE ThreadOK(u)'
  <2>1. Stays(u)
    BY <1>2, <1>3, <1>5, SMTT(30) DEF Stays
  <2> QED BY <2>1, <1>1, StaysOK, SMTT(30)
<1>6. OnlyExitBreaks' /\ Places' /\ UNCHANGED hostVars
  BY <1>2, <1>4, <1>5, SMTT(30) DEF IInv, OnlyExitBreaks, Places, ThreadExit
<1> QED BY <1>6, HostKept, SMTT(30)

(* The entries a process exit leaves behind: purged of the threads S.      *)
LEMMA PurgedEntries ==
    ASSUME TypeOK, Tables, NEW S
    PROVE  /\ \A m \in MutexIds :
                 /\ \A u : Contains(PurgedMutex(S)[m].waiters, u) <=> OnM(u, m) /\ u \notin S
                 /\ EntryOK(PurgedMutex(S)[m])
                 /\ PurgedMutex(S)[m].owner = mutex[m].owner
                 /\ m \notin ids => PurgedMutex(S)[m] = NoEntry
           /\ \A c \in CondIds :
                 /\ \A u : Contains(PurgedCond(S)[c].waiters, u) <=> OnC(u, c) /\ u \notin S
                 /\ NoDuplicates(PurgedCond(S)[c].waiters)
                 /\ PurgedCond(S)[c].mutex_id = cond[c].mutex_id
                 /\ c \notin ids => PurgedCond(S)[c] = NoCond
<1>0. RemoveSet(<<>>, S) = <<>>
  <2>1. <<>> \in Seq(Threads) /\ \A u : ~Contains(<<>>, u)
    BY SmallLists
  <2>2. RemoveSet(<<>>, S) \in Seq(Threads) /\ \A u : ~Contains(RemoveSet(<<>>, S), u)
    BY <2>1, RemoveThreads, ZenonT(60)
  <2> QED BY <2>2, EmptyList, SMTT(30)
<1>1. ASSUME NEW m \in MutexIds
      PROVE  /\ \A u : Contains(PurgedMutex(S)[m].waiters, u) <=> OnM(u, m) /\ u \notin S
             /\ EntryOK(PurgedMutex(S)[m])
             /\ PurgedMutex(S)[m].owner = mutex[m].owner
             /\ m \notin ids => PurgedMutex(S)[m] = NoEntry
  <2> DEFINE q == RemoveSet(mutex[m].waiters, S)
             e == [mutex[m] EXCEPT !.waiters = q]
  <2>1. /\ mutex[m] \in MutexEntry /\ mutex[m].waiters \in Seq(Threads) /\ MutexOK(m)
    BY OnlyThreads, TablesSplit
  <2>2. PurgedMutex(S)[m] = e
    BY DEF PurgedMutex
  <2>3. /\ e.waiters = q /\ e.owner = mutex[m].owner
        /\ e.lock_count = mutex[m].lock_count /\ e.attrs = mutex[m].attrs
    BY <2>1 DEF MutexEntry
  <2>4. /\ \A u : Contains(q, u) <=> Contains(mutex[m].waiters, u) /\ u \notin S
        /\ NoDuplicates(mutex[m].waiters) => NoDuplicates(q)
    <3> HIDE DEF e
    <3> QED BY <2>1, RemoveThreads, ZenonT(60)
  <2>5. mutex[m].waiters = <<>> => q = <<>>
    BY <1>0
  <2>6. m \notin ids => e = NoEntry
    <3> SUFFICES ASSUME m \notin ids PROVE e = NoEntry
      BY SMTT(30)
    <3>1. mutex[m] = NoEntry /\ NoEntry.waiters = <<>>
      BY <2>1, FreshEntries, SMTT(30) DEF MutexOK
    <3>2. q = <<>>
      BY <3>1, <2>5, SMTT(30)
    <3> HIDE DEF q
    <3> QED BY <3>1, <3>2, ZenonT(60) DEF NoEntry, NewMutex
  <2> HIDE DEF q, e
  <2>7. EntryOK(e)
    BY <2>1, <2>3, <2>4, <2>5, SMTT(30) DEF MutexOK, EntryOK
  <2> QED BY <2>2, <2>3, <2>4, <2>6, <2>7, SMTT(30) DEF OnM
<1>2. ASSUME NEW c \in CondIds
      PROVE  /\ \A u : Contains(PurgedCond(S)[c].waiters, u) <=> OnC(u, c) /\ u \notin S
             /\ NoDuplicates(PurgedCond(S)[c].waiters)
             /\ PurgedCond(S)[c].mutex_id = cond[c].mutex_id
             /\ c \notin ids => PurgedCond(S)[c] = NoCond
  <2> DEFINE q == RemoveSet(cond[c].waiters, S)
             f == [cond[c] EXCEPT !.waiters = q]
  <2>1. /\ cond[c] \in CondEntry /\ cond[c].waiters \in Seq(Threads) /\ CondOK(c)
    BY OnlyThreads, TablesSplit, SMTT(30)
  <2>2. PurgedCond(S)[c] = f
    BY DEF PurgedCond
  <2>3. f.waiters = q /\ f.mutex_id = cond[c].mutex_id
    BY <2>1, SMTT(30) DEF CondEntry
  <2>4. /\ \A u : Contains(q, u) <=> Contains(cond[c].waiters, u) /\ u \notin S
        /\ NoDuplicates(cond[c].waiters) => NoDuplicates(q)
    <3> HIDE DEF f
    <3> QED BY <2>1, RemoveThreads, Zenon
  <2>6. c \notin ids => f = NoCond
    <3> SUFFICES ASSUME c \notin ids PROVE f = NoCond
      OBVIOUS
    <3>1. cond[c] = NoCond /\ NoCond.waiters = <<>>
      BY <2>1, FreshEntries, SMTT(30) DEF CondOK
    <3>2. q = <<>>
      BY <3>1, <1>0, SMTT(30)
    <3> HIDE DEF q
    <3> QED BY <3>1, <3>2, ZenonT(60) DEF NoCond, NewCond
  <2> HIDE DEF q, f
  <2> QED BY <2>1, <2>2, <2>3, <2>4, <2>6, SMTT(30) DEF OnC, CondOK
<1> QED BY <1>1, <1>2, SMTT(30)

(* A child process exits: its threads are finished and on no list, and an  *)
(* object that is dropped had nobody of another process waiting on it.     *)
LEMMA ChildExitInv ==
    ASSUME IInv, TypeOK', NEW t \in Threads, status[t] = "Runnable",
           NEW p, ChildExit(p)
    PROVE  IInv'
<1>0. TypeOK /\ Tables /\ OnlyExitBreaks /\ \A u \in Threads : ThreadOK(u)
  BY RunningAtRest, SMTT(30) DEF IInv
<1>s. PICK S : S = UnitsOf(p)
  OBVIOUS
<1>d. PICK D : D = DroppedIds(p, S)
  OBVIOUS
<1>g. /\ mutex' = [m \in MutexIds |->
                      IF m \in D THEN NoEntry ELSE PurgedMutex(S)[m]]
      /\ cond' = [c \in CondIds |->
                      IF c \in D THEN NoCond ELSE PurgedCond(S)[c]]
      /\ ids' = ids \ D
      /\ RetireUnits(UnitsOf(p))
  BY <1>s, <1>d, ZenonT(60) DEF ChildExit
<1>1. /\ \A m \in MutexIds : mutex'[m] = IF m \in D THEN NoEntry ELSE PurgedMutex(S)[m]
      /\ \A c \in CondIds : cond'[c] = IF c \in D THEN NoCond ELSE PurgedCond(S)[c]
      /\ ids' = ids \ D /\ RetireUnits(UnitsOf(p))
  BY <1>g, ZenonT(60)
<1>2. /\ \A m \in D \cap MutexIds : PurgedMutex(S)[m].waiters = <<>>
      /\ \A c \in D \cap CondIds : PurgedCond(S)[c].waiters = <<>>
  BY <1>d, SMTT(30) DEF DroppedIds
<1>3. /\ \A m \in MutexIds :
            /\ \A u : Contains(PurgedMutex(S)[m].waiters, u) <=> OnM(u, m) /\ u \notin S
            /\ EntryOK(PurgedMutex(S)[m])
            /\ PurgedMutex(S)[m].owner = mutex[m].owner
            /\ m \notin ids => PurgedMutex(S)[m] = NoEntry
      /\ \A c \in CondIds :
            /\ \A u : Contains(PurgedCond(S)[c].waiters, u) <=> OnC(u, c) /\ u \notin S
            /\ NoDuplicates(PurgedCond(S)[c].waiters)
            /\ PurgedCond(S)[c].mutex_id = cond[c].mutex_id
            /\ c \notin ids => PurgedCond(S)[c] = NoCond
  BY <1>0, PurgedEntries, ZenonT(60)
<1>4. /\ \A m \in MutexIds : \A u : OnM(u, m)' <=> OnM(u, m) /\ u \notin S
      /\ \A c \in CondIds : \A u : OnC(u, c)' <=> OnC(u, c) /\ u \notin S
  <2>1. ASSUME NEW m \in MutexIds, NEW u PROVE OnM(u, m)' <=> OnM(u, m) /\ u \notin S
    <3>1. CASE m \in D
      <4>1. PurgedMutex(S)[m].waiters = <<>> /\ mutex'[m].waiters = <<>>
        BY <3>1, <1>1, <1>2, FreshEntries, SMTT(30)
      <4>2. ~Contains(<<>>, u)
        BY SmallLists
      <4> QED BY <4>1, <4>2, <1>3, ZenonT(60) DEF OnM
    <3>2. CASE m \notin D
      BY <3>2, <1>1, <1>3, ZenonT(60) DEF OnM
    <3> QED BY <3>1, <3>2, SMTT(30)
  <2>2. ASSUME NEW c \in CondIds, NEW u PROVE OnC(u, c)' <=> OnC(u, c) /\ u \notin S
    <3>1. CASE c \in D
      <4>1. PurgedCond(S)[c].waiters = <<>> /\ cond'[c].waiters = <<>>
        BY <3>1, <1>1, <1>2, FreshEntries, SMTT(30)
      <4>2. ~Contains(<<>>, u)
        BY SmallLists
      <4> QED BY <4>1, <4>2, <1>3, ZenonT(60) DEF OnC
    <3>2. CASE c \notin D
      BY <3>2, <1>1, <1>3, ZenonT(60) DEF OnC
    <3> QED BY <3>1, <3>2
  <2> QED BY <2>1, <2>2, SMTT(30)
<1>5. /\ \A u \in Threads :
            IF u \in UnitsOf(p)
            THEN status'[u] = "Finished" /\ pending'[u] = NoResponse /\ timer'[u] = NoTimer
            ELSE status'[u] = status[u] /\ pending'[u] = pending[u] /\ timer'[u] = timer[u]
      /\ breaks' = breaks
  BY <1>1 DEF RetireUnits
<1>6. ASSUME NEW u \in Threads PROVE ThreadOK(u)'
  <2>1. CASE u \in UnitsOf(p)
    <3>1. OffLists(u)'
      BY <2>1, <1>s, <1>4, SMTT(30) DEF OffLists
    <3> QED BY <2>1, <3>1, <1>5, ZenonT(60) DEF ThreadOK, AtRest
  <2>2. CASE u \notin UnitsOf(p)
    <3>1. u \notin S
      BY <2>2, <1>s, SMTT(30)
    <3>2. ASSUME NEW c \in CondIds, OnC(u, c) PROVE cond'[c].mutex_id = cond[c].mutex_id
      <4>1. c \notin D
        <5>1. Contains(PurgedCond(S)[c].waiters, u)
          BY <3>1, <3>2, <1>3, ZenonT(60)
        <5>2. ~Contains(<<>>, u)
          BY SmallLists
        <5> QED BY <5>1, <5>2, <1>2, SMTT(30)
      <4> QED BY <4>1, <1>1, <1>3, ZenonT(60)
    <3>3. Stays(u)
      BY <2>2, <3>1, <3>2, <1>4, <1>5, ZenonT(60) DEF Stays
    <3> QED BY <3>3, <1>0, StaysOK, SMTT(30)
  <2> QED BY <2>1, <2>2, SMTT(30)
<1>7. ASSUME NEW m \in MutexIds PROVE MutexOK(m)'
  <2>1. CASE m \in D
    BY <2>1, <1>1, FreshEntries, SMTT(30) DEF MutexOK
  <2>2. CASE m \notin D
    BY <2>2, <1>1, <1>3, ZenonT(60) DEF MutexOK
  <2> QED BY <2>1, <2>2, SMTT(30)
<1>8. ASSUME NEW c \in CondIds PROVE CondOK(c)'
  <2>0. CondOK(c)
    BY <1>0, TablesSplit, SMTT(30)
  <2>1. CASE c \in D
    <3>1. cond'[c] = NoCond /\ c \notin ids'
      BY <2>1, <1>1, SMTT(30)
    <3> QED BY <3>1, FreshEntries, SmallLists, MutexCondAssumption, SMTT(30) DEF CondOK
  <2>2. CASE c \notin D
    <3>1. cond'[c].mutex_id = cond[c].mutex_id /\ NoDuplicates(cond'[c].waiters)
      BY <2>2, <1>1, <1>3, ZenonT(60)
    <3>2. c \notin ids' => cond'[c] = NoCond
      BY <2>2, <1>1, <1>3, ZenonT(60)
    <3>3. c \in ids' => cond[c].mutex_id \in MutexIds
      BY <2>0, <1>1, ZenonT(60) DEF CondOK
    <3>4. ASSUME cond[c].mutex_id \in MutexIds
          PROVE  ~Contains(cond'[c].waiters, mutex'[cond[c].mutex_id].owner)
      <4> SUFFICES ASSUME NEW o, o = mutex'[cond[c].mutex_id].owner
                   PROVE  ~OnC(o, c)'
        BY SMTT(30) DEF OnC
      <4>1. o \in {NoThread, mutex[cond[c].mutex_id].owner}
        BY <3>4, <1>1, <1>3, FreshEntries, ZenonT(60)
      <4>2. ~OnC(o, c)
        BY <2>0, <3>4, <4>1, <1>0, OnlyThreads, MutexCondAssumption, ZenonT(60) DEF CondOK
      <4> QED BY <4>2, <1>4, ZenonT(60)
    <3> QED BY <3>1, <3>2, <3>3, <3>4, ZenonT(60) DEF CondOK, OnC
  <2> QED BY <2>1, <2>2
<1> QED BY <1>0, <1>5, <1>6, <1>7, <1>8, Assemble, SMTT(30) DEF OnlyExitBreaks

(* The boot process exits: every thread is finished.                       *)
LEMMA BootExitInv ==
    ASSUME IInv, TypeOK', RetireUnits(Threads), UNCHANGED hostVars
    PROVE  IInv'
<1>1. Quiet' /\ breaks' = breaks
  BY DEF RetireUnits, Quiet
<1>2. OnlyExitBreaks' /\ Places'
  BY <1>1 DEF IInv, OnlyExitBreaks, Places
<1> QED BY <1>2, HostKept, SMTT(30)

-----------------------------------------------------------------------------
(* The invariant is inductive: the empty tables of a new host satisfy it,  *)
LEMMA InitInv == Init => IInv
<1> SUFFICES ASSUME Init PROVE IInv
  OBVIOUS
<1>1. TypeOK
  BY InitType
<1>2. /\ \A m \in MutexIds : mutex[m] = NoEntry
      /\ \A c \in CondIds : cond[c] = NoCond
      /\ ids = {}
      /\ \A u \in Threads : /\ status[u] = "Runnable" /\ pending[u] = NoResponse
                            /\ timer[u] = NoTimer
      /\ breaks = {}
  BY SMTT(30) DEF Init, RtInit
<1>3. \A u \in Threads : ThreadOK(u)
  <2>1. \A u : OffLists(u)
    BY <1>2, FreshEntries, SmallLists, SMTT(30) DEF OffLists, OnM, OnC
  <2> QED BY <1>2, <2>1, SMTT(30) DEF ThreadOK, AtRest
<1>4. \A m \in MutexIds : MutexOK(m)
  BY <1>2, FreshEntries, SMTT(30) DEF MutexOK
<1>5. \A c \in CondIds : CondOK(c)
  <2>1. NoCond.waiters = <<>> /\ NoCond.mutex_id = NoMutex
    BY FreshEntries
  <2>2. NoDuplicates(<<>>) /\ \A u : ~Contains(<<>>, u)
    BY SmallLists
  <2> QED BY <1>2, <2>1, <2>2, MutexCondAssumption, SMTT(30) DEF CondOK, OnC
<1>6. Tables
  BY <1>4, <1>5, TablesSplit, SMTT(30)
<1> QED BY <1>1, <1>2, <1>3, <1>6, SMTT(30) DEF IInv, Places, OnlyExitBreaks

(* every syscall of a running thread keeps it,                             *)
LEMMA SyscallInv ==
    ASSUME IInv, TypeOK', NEW t \in Threads, status[t] = "Runnable", Syscall(t)
    PROVE  IInv'
<1>a. ASSUME NEW code \in {"OK", "EFAULT", "EINVAL", "EAGAIN", "ESRCH", "EPERM"},
             Answer(t, code)
      PROVE  IInv'
  BY <1>a, AnswerInv, SMTT(30) DEF Codes
<1>1. CASE MutexCreate(t)
  <2>1. ASSUME NEW m \in MutexIds PROVE IInv'
    BY <1>1, <2>1, MutexAnswersInv, SMTT(30)
  <2> QED BY <1>1, <2>1, <1>a, ZenonT(60) DEF MutexCreate
<1>2. ASSUME NEW m \in MutexIds,
             \/ MutexDestroy(t, m) \/ MutexLock(t, m)
             \/ MutexTrylock(t, m) \/ MutexUnlock(t, m)
             \/ CondCreate(t, m)
      PROVE  IInv'
  <2>1. CASE MutexLock(t, m)
    BY <2>1, <1>a, MutexAnswersInv, LockParksInv, SMTT(30) DEF MutexLock
  <2> QED BY <1>2, <2>1, MutexAnswersInv, UnlockInv, CondCreateInv, SMTT(30)
<1>3. ASSUME NEW c \in CondIds,
             \/ CondDestroy(t, c) \/ CondWait(t, c)
             \/ CondSignal(t, c) \/ CondSignalAll(t, c)
             \/ \E target \in Threads : CondSignalTo(t, c, target)
      PROVE  IInv'
  <2>1. CASE CondWait(t, c)
    BY <2>1, <1>a, CondParksInv, SMTT(30) DEF CondWait
  <2> QED BY <1>3, <2>1, CondDestroyInv, SignalsInv, SMTT(30)
<1>4. CASE ProcessExit(t)
  BY <1>4, ChildExitInv, BootExitInv, SMTT(30) DEF ProcessExit
<1> QED BY <1>1, <1>2, <1>3, <1>4, SleepInv, ThreadExitInv, SMTT(30) DEF Syscall

(* and so does every step.                                                 *)
LEMMA NextInv == IInv /\ [Next]_vars => IInv'
<1> SUFFICES ASSUME IInv, [Next]_vars PROVE IInv'
  OBVIOUS
<1>1. TypeOK'
  BY NextType DEF IInv
<1>2. CASE UNCHANGED vars
  <2>1. OnlyExitBreaks' /\ Places' /\ UNCHANGED hostVars
    <3>1. /\ UNCHANGED <<status, pending, timer, breaks>>
          /\ UNCHANGED hostVars /\ UNCHANGED <<mutex, cond, ids>>
      BY <1>2 DEF vars, rtVars, hostVars
    <3>2. OnlyExitBreaks'
      BY <3>1, SMTT(30) DEF IInv, OnlyExitBreaks
    <3>3. Places'
      BY <3>1, ZenonT(60) DEF IInv, Places, Quiet, ThreadOK, AtRest, Asleep, AtMutex,
         AtCond, OffLists, OnM, OnC
    <3> QED BY <3>1, <3>2, <3>3, SMTT(30)
  <2> QED BY <1>1, <2>1, HostKept, SMTT(30)
<1>3. ASSUME NEW t \in Threads, FireTimer(t) PROVE IInv'
  BY <1>1, <1>3, FireSleepInv, ExpireMutexWaitInv, ExpireCondWaitInv DEF FireTimer
<1>4. ASSUME NEW t \in Threads, status[t] = "Runnable", Syscall(t) PROVE IInv'
  BY <1>1, <1>4, SyscallInv, SMTT(30)
<1> QED BY <1>2, <1>3, <1>4, SMTT(30) DEF Next

(* The inductive invariant holds throughout: every thread is always in one *)
(* of the four places.                                                     *)
THEOREM Invariant == Spec => []IInv
BY InitInv, NextInv, PTL DEF Spec

-----------------------------------------------------------------------------
(* No lost wake (OneWaker): a thread is owed a response exactly while it   *)
(* is Blocked, and every parked thread is on exactly one waiter list, once *)
(* (or asleep), whatever locks, signals, expiries and process exits there  *)
(* were.                                                                   *)
THEOREM NoLostWake == Spec => []OneWaker
<1>1. IInv => OneWaker
  <2> SUFFICES ASSUME IInv, ~Halted PROVE OneWaker
    BY SMTT(30) DEF OneWaker
  <2>1. \A u \in Threads : ThreadOK(u)
    BY DEF IInv, Places, Quiet, Halted
  <2>2. /\ \A m \in MutexIds : NoDuplicates(mutex[m].waiters)
        /\ \A c \in CondIds : NoDuplicates(cond[c].waiters)
    BY SMTT(30) DEF IInv, Tables, NoDups
  <2>3. ASSUME NEW t \in Threads
        PROVE  /\ (status[t] = "Blocked") <=> (pending[t] # NoResponse)
               /\ LET places == MutexWaits(t) \cup CondWaits(t)
                  IN  IF status[t] = "Blocked" /\ timer[t] # SleepTimer
                      THEN \E i \in places : places = {i}
                      ELSE places = {}
    <3>1. CASE AtRest(t) \/ Asleep(t)
      <4>1. MutexWaits(t) = {} /\ CondWaits(t) = {}
        BY <3>1, SMTT(30) DEF AtRest, Asleep, OffLists, OnM, OnC, MutexWaits, CondWaits
      <4> QED BY <3>1, <4>1, Distinct, SMTT(30) DEF AtRest, Asleep
    <3>2. ASSUME NEW m \in MutexIds, AtMutex(t, m)
          PROVE  MutexWaits(t) = {m} /\ CondWaits(t) = {} /\ status[t] = "Blocked"
                 /\ pending[t] # NoResponse /\ timer[t] # SleepTimer
      BY <3>2, Distinct, SMTT(30) DEF AtMutex, OnM, OnC, MutexWaits, CondWaits
    <3>3. ASSUME NEW c \in CondIds, AtCond(t, c)
          PROVE  MutexWaits(t) = {} /\ CondWaits(t) = {c} /\ status[t] = "Blocked"
                 /\ pending[t] # NoResponse /\ timer[t] # SleepTimer
      BY <3>3, Distinct, SMTT(30) DEF AtCond, OnM, OnC, MutexWaits, CondWaits
    <3> QED BY <2>1, <3>1, <3>2, <3>3, SMTT(30) DEF ThreadOK
  <2> QED BY <2>2, <2>3, SMTT(30) DEF OneWaker
<1> QED BY <1>1, Invariant, PTL

(* A live deadline always finds the waiter record it names                 *)
(* (DeadlineFindsWaiter): a wake or a restage never leaves a stale one.    *)
THEOREM NoStaleDeadline == Spec => []DeadlineFindsWaiter
<1>1. IInv => DeadlineFindsWaiter
  <2> SUFFICES ASSUME IInv, NEW t \in Threads
               PROVE  /\ timer[t] # NoTimer => status[t] = "Blocked"
                      /\ timer[t].kind = "Mutex" => timer[t].id \in MutexWaits(t)
                      /\ timer[t].kind = "Cond" =>
                            /\ timer[t].id \in CondWaits(t)
                            /\ cond[timer[t].id].mutex_id = timer[t].companion
    BY SMTT(30) DEF DeadlineFindsWaiter
  <2>1. timer[t] # NoTimer => status[t] = "Blocked"
    BY DeadlineNotQuiet, SMTT(30) DEF ThreadOK, AtRest, Asleep, AtMutex, AtCond
  <2>2. timer[t].kind = "Mutex" => timer[t].id \in MutexWaits(t)
    BY DeadlinePlace, SMTT(30) DEF AtMutex, OnM, MutexWaits
  <2>3. timer[t].kind = "Cond" => timer[t].id \in CondWaits(t)
    BY DeadlinePlace, ZenonT(60) DEF AtCond, OnC, CondWaits
  <2> QED BY <2>1, <2>2, <2>3, DeadlinePlace, SMTT(30)
<1> QED BY <1>1, Invariant, PTL

(* What a parked thread is owed fits where it is parked (ResponseFitsWait):*)
(* resolve_sync_wakes never meets a response it cannot deliver.            *)
THEOREM ResponsesFit == Spec => []ResponseFitsWait
<1>1. IInv => ResponseFitsWait
  <2> SUFFICES ASSUME IInv, NEW t \in Threads
               PROVE  /\ \A c \in CondWaits(t) :
                            pending[t] \in {NoResponse, CondWakeReacquire(cond[c].mutex_id)}
                      /\ MutexWaits(t) # {} =>
                            pending[t] \in {NoResponse, ReturnCode("OK"),
                                            ReturnCode("ETIMEDOUT")}
    BY SMTT(30) DEF ResponseFitsWait
  <2>1. CASE Quiet
    BY <2>1, SMTT(30) DEF Quiet
  <2>2. CASE ThreadOK(t)
    BY <2>2, Parked, ZenonT(60) DEF AtMutex, AtCond, OnM, OnC, MutexWaits, CondWaits
  <2> QED BY <2>1, <2>2, SMTT(30) DEF IInv, Places
<1> QED BY <1>1, Invariant, PTL

(* The tables agree (MutexConsistent): waiters only behind another owner,  *)
(* no cond waiter owns the mutex it released, a dead id keeps no state.    *)
THEOREM TablesConsistent == Spec => []MutexConsistent
<1>1. IInv => MutexConsistent
  BY SMTT(30) DEF IInv, Tables
<1> QED BY <1>1, Invariant, PTL

(* No invariant break is recorded but the two that a process exit causes   *)
(* (OnlyExitBreaks).                                                       *)
THEOREM FewBreaks == Spec => []OnlyExitBreaks
<1>1. IInv => OnlyExitBreaks
  BY DEF IInv
<1> QED BY <1>1, Invariant, PTL
=============================================================================
