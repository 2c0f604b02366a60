------------------------ MODULE WakeProtocolProofs --------------------------
(***************************************************************************)
(* The runtime handlers keep the runtime's tables well formed, for every   *)
(* set of responses, timers and codes a primitive may use.                 *)
(***************************************************************************)
EXTENDS WakeProtocol, WaiterListProofs

(* The sets a primitive may use: closed under what the handlers write.     *)
GoodSets(Resps, Tmrs, Cds) ==
    /\ NoResponse \in Resps
    /\ NoTimer \in Tmrs
    /\ SleepTimer \in Tmrs
    /\ "OK" \in Cds
    /\ \A c \in Cds : ReturnCode(c) \in Resps
    /\ \A r \in Resps : ReturnOf(r) \in Cds

(* handle_immediate changes only the returned record.                      *)
LEMMA ImmediateType ==
    ASSUME NEW R, NEW T, NEW C, GoodSets(R, T, C), RtTypeOK(R, T, C),
           NEW src \in Threads, NEW code \in C, Immediate(src, code)
    PROVE  RtTypeOK(R, T, C)'
BY DEF RtTypeOK, Immediate

(* handle_block stores the response and the deadline of the caller.        *)
LEMMA BlockType ==
    ASSUME NEW R, NEW T, NEW C, GoodSets(R, T, C), RtTypeOK(R, T, C),
           NEW src \in Threads, NEW resp \in R, NEW tmr \in T,
           Block(src, resp, tmr)
    PROVE  RtTypeOK(R, T, C)'
BY DEF RtTypeOK, Block, NoReturns

(* resolve_sync_wakes over a response update.                              *)
LEMMA ResolveWakesType ==
    ASSUME NEW R, NEW T, NEW C, GoodSets(R, T, C), RtTypeOK(R, T, C),
           NEW woken \in SUBSET Threads, NEW extra,
           NEW upd, DOMAIN upd \subseteq Threads,
           \A t \in DOMAIN upd : upd[t] \in R,
           NEW rets, DOMAIN rets \subseteq Threads,
           \A t \in DOMAIN rets : rets[t] \in C,
           ResolveWakes(woken, upd, rets, extra)
    PROVE  RtTypeOK(R, T, C)'
<1> DEFINE resp == Restaged(upd)
           up == Wakeable(woken)
<1>1. resp \in [Threads -> R]
  BY DEF Restaged, RtTypeOK
<1>2. up \subseteq Threads
  BY DEF Wakeable
<1> HIDE DEF resp, up
<1>3. /\ status' = [t \in Threads |-> IF t \in up THEN "Runnable" ELSE status[t]]
      /\ pending' = [t \in Threads |-> IF t \in woken THEN NoResponse ELSE resp[t]]
      /\ timer' = [t \in Threads |->
                     IF t \in woken \cup DOMAIN upd THEN NoTimer ELSE timer[t]]
      /\ returned' = [t \in up \cup DOMAIN rets |->
                     IF t \in up THEN ReturnOf(resp[t]) ELSE rets[t]]
  BY DEF ResolveWakes, resp, up
<1>4. status' \in [Threads -> {"Runnable", "Blocked", "Finished"}]
  BY <1>3 DEF RtTypeOK
<1>5. pending' \in [Threads -> R]
  BY <1>1, <1>3 DEF GoodSets
<1>6. timer' \in [Threads -> T]
  BY <1>3 DEF GoodSets, RtTypeOK
<1>7. DOMAIN returned' \subseteq Threads
  BY <1>2, <1>3
<1>8. ASSUME NEW t \in DOMAIN returned' PROVE returned'[t] \in C
  BY <1>1, <1>2, <1>3 DEF GoodSets
<1> QED BY <1>4, <1>5, <1>6, <1>7, <1>8 DEF RtTypeOK

(* handle_wake_and_return: a resolve, and a return for the caller.         *)
LEMMA WakeAndReturnType ==
    ASSUME NEW R, NEW T, NEW C, GoodSets(R, T, C), RtTypeOK(R, T, C),
           NEW src \in Threads, NEW code \in C,
           NEW woken \in SUBSET Threads, NEW extra,
           NEW upd, DOMAIN upd \subseteq Threads,
           \A t \in DOMAIN upd : upd[t] \in R,
           WakeAndReturn(src, code, woken, upd, extra)
    PROVE  RtTypeOK(R, T, C)'
<1> DEFINE rets == [t \in {src} |-> code]
<1>1. DOMAIN rets \subseteq Threads /\ \A t \in DOMAIN rets : rets[t] \in C
  OBVIOUS
<1>2. ResolveWakes(woken, upd, rets, extra)
  BY DEF WakeAndReturn
<1> HIDE DEF rets
<1> QED BY <1>1, <1>2, ResolveWakesType

(* handle_block_and_wake: one thread parks while others resume.            *)
LEMMA BlockAndWakeType ==
    ASSUME NEW R, NEW T, NEW C, GoodSets(R, T, C), RtTypeOK(R, T, C),
           NEW src \in Threads, NEW resp \in R, NEW tmr \in T,
           NEW woken \in SUBSET Threads,
           BlockAndWake(src, resp, tmr, woken)
    PROVE  RtTypeOK(R, T, C)'
<1>1. status' \in [Threads -> {"Runnable", "Blocked", "Finished"}]
  BY DEF RtTypeOK, BlockAndWake
<1>2. pending' \in [Threads -> R]
  BY DEF RtTypeOK, BlockAndWake, GoodSets
<1>3. timer' \in [Threads -> T]
  BY DEF RtTypeOK, BlockAndWake, GoodSets
<1>4. DOMAIN returned' \subseteq Threads
  BY DEF BlockAndWake, Wakeable
<1>5. ASSUME NEW t \in DOMAIN returned' PROVE returned'[t] \in C
  <2>1. t \in Threads /\ returned'[t] = ReturnOf(pending[t])
    BY <1>4 DEF BlockAndWake
  <2> QED BY <2>1 DEF GoodSets, RtTypeOK
<1> QED BY <1>1, <1>2, <1>3, <1>4, <1>5 DEF RtTypeOK

(* fire_timer_wakes for one entry.                                         *)
LEMMA ResolveExpiryType ==
    ASSUME NEW R, NEW T, NEW C, GoodSets(R, T, C), RtTypeOK(R, T, C),
           NEW src \in Threads, NEW ex,
           ex.woken \subseteq Threads, DOMAIN ex.upd \subseteq Threads,
           \A t \in DOMAIN ex.upd : ex.upd[t] \in R,
           ResolveExpiry(src, ex)
    PROVE  RtTypeOK(R, T, C)'
<1> DEFINE live == status[src] # "Finished"
           resp == IF live THEN Restaged(ex.upd) ELSE pending
           up   == IF live THEN Wakeable(ex.woken) ELSE {}
<1>1. resp \in [Threads -> R]
  BY DEF Restaged, RtTypeOK
<1>2. up \subseteq Threads
  BY DEF Wakeable
<1>3. /\ status' = [u \in Threads |-> IF u \in up THEN "Runnable" ELSE status[u]]
      /\ pending' = [u \in Threads |-> IF u \in up THEN NoResponse ELSE resp[u]]
      /\ timer' = [timer EXCEPT ![src] = NoTimer]
      /\ returned' = [u \in up |-> ReturnOf(resp[u])]
  BY DEF ResolveExpiry
<1> HIDE DEF resp, up
<1>4. status' \in [Threads -> {"Runnable", "Blocked", "Finished"}]
  BY <1>3 DEF RtTypeOK
<1>5. pending' \in [Threads -> R]
  BY <1>1, <1>3 DEF GoodSets
<1>6. timer' \in [Threads -> T]
  BY <1>3 DEF GoodSets, RtTypeOK
<1>7. DOMAIN returned' \subseteq Threads
  BY <1>2, <1>3
<1>8. ASSUME NEW t \in DOMAIN returned' PROVE returned'[t] \in C
  BY <1>1, <1>2, <1>3 DEF GoodSets
<1> QED BY <1>4, <1>5, <1>6, <1>7, <1>8 DEF RtTypeOK

(* retire_unit over a set of units.                                        *)
LEMMA RetireUnitsType ==
    ASSUME NEW R, NEW T, NEW C, GoodSets(R, T, C), RtTypeOK(R, T, C),
           NEW S, RetireUnits(S)
    PROVE  RtTypeOK(R, T, C)'
BY DEF RtTypeOK, RetireUnits, NoReturns, GoodSets

(* The runtime's empty tables.                                             *)
LEMMA RtInitType ==
    ASSUME NEW R, NEW T, NEW C, GoodSets(R, T, C), RtInit
    PROVE  RtTypeOK(R, T, C)
BY DEF RtTypeOK, RtInit, NoReturns, GoodSets

-----------------------------------------------------------------------------
(* The list operations, on lists of threads.                               *)
LEMMA EnqueueThread ==
    \A w \in Seq(Threads), x \in Threads :
        /\ Enqueue(w, x) \in Seq(Threads)
        /\ Enqueue(w, x) # <<>>
        /\ \A t : Contains(Enqueue(w, x), t) <=> Contains(w, t) \/ t = x
        /\ NoDuplicates(w) /\ ~Contains(w, x) => NoDuplicates(Enqueue(w, x))
BY EnqueueProperties

(* dequeue_one takes the head and leaves the rest.                         *)
LEMMA DequeueThread ==
    \A w \in Seq(Threads) : w # <<>> =>
        /\ Head(w) \in Threads
        /\ Tail(w) \in Seq(Threads)
        /\ Contains(w, Head(w))
        /\ \A t : Contains(w, t) <=> t = Head(w) \/ Contains(Tail(w), t)
        /\ NoDuplicates(w) =>
              NoDuplicates(Tail(w)) /\ ~Contains(Tail(w), Head(w))
BY DequeueProperties

(* remove drops one thread and no other.                                   *)
LEMMA RemoveThread ==
    \A w \in Seq(Threads) : \A x :
        /\ Remove(w, x) \in Seq(Threads)
        /\ \A t : Contains(Remove(w, x), t) <=> Contains(w, t) /\ t # x
        /\ NoDuplicates(w) => NoDuplicates(Remove(w, x))
BY RemoveProperties

(* remove_set drops the threads of S and no other.                         *)
LEMMA RemoveThreads ==
    \A w \in Seq(Threads) : \A S :
        /\ RemoveSet(w, S) \in Seq(Threads)
        /\ \A t : Contains(RemoveSet(w, S), t) <=> Contains(w, t) /\ t \notin S
        /\ NoDuplicates(w) => NoDuplicates(RemoveSet(w, S))
BY RemoveSetProperties

(* Threads appended in order behind a list.                                *)
LEMMA ConcatThreads ==
    \A w, v \in Seq(Threads) :
        /\ w \o v \in Seq(Threads)
        /\ \A t : Contains(w \o v, t) <=> Contains(w, t) \/ Contains(v, t)
        /\ /\ NoDuplicates(w) /\ NoDuplicates(v)
           /\ \A t : ~(Contains(w, t) /\ Contains(v, t))
           => NoDuplicates(w \o v)
BY ConcatWaiters

(* The set of threads on a list.                                           *)
LEMMA WaitingThreads ==
    \A w \in Seq(Threads) : /\ Waiting(w) \subseteq Threads
                            /\ \A t : t \in Waiting(w) <=> Contains(w, t)
                            /\ \A t : Contains(w, t) => t \in Threads
BY WaitingContains, ElementOfSeq DEF Waiting
=============================================================================
