---------------------------- MODULE WakeProtocol ----------------------------
(***************************************************************************)
(* The runtime half of every blocking LV2 call (cellgov_core/src/runtime): *)
(* unit status, the pending-response table, the timer queue's at most one  *)
(* entry per unit, and the return values a step hands to guest registers.  *)
(*                                                                         *)
(* The operators are the handlers that fold an Lv2Dispatch into that       *)
(* state.  A primitive's module EXTENDS this one and conjoins one of them  *)
(* to each of its actions, so an action is the host half and the runtime   *)
(* half of one syscall, which the code also runs as one commit.            *)
(*                                                                         *)
(* A PPU thread and its execution unit are one element of Threads.         *)
(* Deadlines are abstracted to "armed": an armed timer may fire at any     *)
(* step, which admits every deadline and every relative speed.             *)
(***************************************************************************)
EXTENDS WaiterList

CONSTANTS
    Threads,    \* PPU threads, each with its unit
    Procs,      \* processes
    BootProc,   \* the boot process (BOOT_PROCESS_PID)
    ProcOf      \* the process each thread's unit is bound to

ASSUME ProcAssumption ==
    /\ BootProc \in Procs
    /\ ProcOf \in [Threads -> Procs]

VARIABLES
    status,     \* UnitStatus, as the registry's override holds it
    pending,    \* SyscallResponseTable: the response owed to each thread
    timer,      \* TimerQueue: what each thread's live deadline is for
    returned,   \* the SyscallReturned records of the last step
    breaks      \* sites at which an invariant break was recorded

rtVars == <<status, pending, timer, returned, breaks>>

(***************************************************************************)
(* Responses and timers.  A response is tagged with its PendingResponse    *)
(* variant; arg is the code, mutex or payload that variant carries.        *)
(***************************************************************************)
Response(tag, arg) == [tag |-> tag, arg |-> arg]
NoResponse == Response("None", "none")
ReturnCode(code) == Response("ReturnCode", code)

(* A timer entry: a plain sleep, or a timed wait on object id with the     *)
(* companion mutex its block reason names.                                 *)
TimerEntry(kind, id, companion) ==
    [kind |-> kind, id |-> id, companion |-> companion]
NoTimer == TimerEntry("None", "none", "none")
SleepTimer == TimerEntry("Sleep", "none", "none")

NoReturns == [t \in {} |-> "OK"]

(* The code a consumed response puts in r3.                                *)
ReturnOf(resp) ==
    CASE resp.tag = "ReturnCode"          -> resp.arg
      [] resp.tag = "EventFlagCancelWake" -> "ECANCELED"
      [] OTHER                            -> "OK"

(* Variants resolve_sync_wakes must never meet: it panics on the first     *)
(* three and records a break for a missing response.                       *)
Unresolvable(resp) ==
    resp.tag \in {"CondWakeReacquire", "PpuThreadJoin", "EventQueueEmpty",
                  "None"}

(***************************************************************************)
(* The pieces the handlers share.                                          *)
(***************************************************************************)

(* The response table after `response_updates` upd, a function from the    *)
(* restaged threads to their new responses.                                *)
Restaged(upd) ==
    [t \in Threads |-> IF t \in DOMAIN upd THEN upd[t] ELSE pending[t]]

NoUpdates == [t \in {} |-> NoResponse]

(* The members of woken that resolve_sync_wakes really wakes.              *)
Wakeable(woken) == {t \in woken : status[t] # "Finished"}

(* Breaks resolve_sync_wakes records for woken against table resp.         *)
WakeBreaks(woken, resp) ==
    (IF woken \subseteq Wakeable(woken) THEN {} ELSE {"wake_of_finished"})
    \cup
    (IF \E t \in Wakeable(woken) : Unresolvable(resp[t])
     THEN {"unresolvable_response"} ELSE {})

(* Breaks a park records when the caller's earlier wait was not cleaned up *)
ParkBreaks(src, tmr) ==
    (IF pending[src] # NoResponse THEN {"pending_response_displaced"} ELSE {})
    \cup
    (IF tmr # NoTimer /\ timer[src] # NoTimer
     THEN {"timer_wake_displaced"} ELSE {})

(***************************************************************************)
(* The handlers.  extra is the set of breaks the host half recorded.       *)
(***************************************************************************)

(* handle_immediate, not an exit: the call returns code at once.           *)
Immediate(src, code) ==
    /\ returned' = [t \in {src} |-> code]
    /\ UNCHANGED <<status, pending, timer, breaks>>

(* handle_block, then register_wait_deadline (tmr = NoTimer: no timeout).  *)
Block(src, resp, tmr) ==
    /\ status' = [status EXCEPT ![src] = "Blocked"]
    /\ pending' = [pending EXCEPT ![src] = resp]
    /\ timer' = [timer EXCEPT ![src] = IF tmr = NoTimer THEN @ ELSE tmr]
    /\ returned' = NoReturns
    /\ breaks' = breaks \cup ParkBreaks(src, tmr)

(* Response updates then resolve_sync_wakes; rets is what other code in    *)
(* the same handler returned.                                              *)
ResolveWakes(woken, upd, rets, extra) ==
    LET resp == Restaged(upd)
        up   == Wakeable(woken)
    IN  /\ status' = [t \in Threads |->
                         IF t \in up THEN "Runnable" ELSE status[t]]
        /\ pending' = [t \in Threads |->
                         IF t \in woken THEN NoResponse ELSE resp[t]]
        /\ timer' = [t \in Threads |->
                         IF t \in woken \cup DOMAIN upd THEN NoTimer
                         ELSE timer[t]]
        /\ returned' = [t \in up \cup DOMAIN rets |->
                         IF t \in up THEN ReturnOf(resp[t]) ELSE rets[t]]
        /\ breaks' = breaks \cup WakeBreaks(woken, resp) \cup extra

(* handle_wake_and_return: the caller returns code, woken resume.          *)
WakeAndReturn(src, code, woken, upd, extra) ==
    ResolveWakes(woken, upd, [t \in {src} |-> code], extra)

(* handle_block_and_wake, then register_wait_deadline.                     *)
BlockAndWake(src, resp, tmr, woken) ==
    LET up == Wakeable(woken)
    IN  /\ status' = [t \in Threads |->
                         IF t = src THEN "Blocked"
                         ELSE IF t \in up THEN "Runnable" ELSE status[t]]
        /\ pending' = [t \in Threads |->
                         IF t = src THEN resp
                         ELSE IF t \in woken THEN NoResponse ELSE pending[t]]
        /\ timer' = [t \in Threads |->
                         IF t = src /\ tmr # NoTimer THEN tmr
                         ELSE IF t \in woken THEN NoTimer ELSE timer[t]]
        /\ returned' = [t \in up |-> ReturnOf(pending[t])]
        /\ breaks' = breaks \cup ParkBreaks(src, tmr)
                            \cup WakeBreaks(woken, pending)

(* What a host expiry hands back (ExpiredWait), with the break it recorded *)
Expired(woken, upd, brk) == [woken |-> woken, upd |-> upd, brk |-> brk]

(* coded_wake: t is restaged with code and woken.                          *)
CodedWake(t, code) == Expired({t}, [u \in {t} |-> ReturnCode(code)], {})

(* expire_missing_waiter: nothing wakes and a break is recorded.           *)
MissingWaiter == Expired({}, NoUpdates, {"missing_waiter"})

(* expire_unqueued: ETIMEDOUT if the waiter record was there to remove.    *)
ExpireUnqueued(t, removed) ==
    IF removed THEN CodedWake(t, "ETIMEDOUT") ELSE MissingWaiter

(* fire_timer_wakes for one entry: it is popped, a Finished unit's entry   *)
(* is dropped, and otherwise the expiry ex is folded in.                   *)
ResolveExpiry(t, ex) ==
    LET live == status[t] # "Finished"
        resp == IF live THEN Restaged(ex.upd) ELSE pending
        up   == IF live THEN Wakeable(ex.woken) ELSE {}
    IN  /\ status' = [u \in Threads |->
                         IF u \in up THEN "Runnable" ELSE status[u]]
        /\ pending' = [u \in Threads |->
                         IF u \in up THEN NoResponse ELSE resp[u]]
        /\ timer' = [timer EXCEPT ![t] = NoTimer]
        /\ returned' = [u \in up |-> ReturnOf(resp[u])]
        /\ breaks' = breaks \cup WakeBreaks(up, resp) \cup
                     (IF live THEN ex.brk ELSE {})

(* Mutant: the sweep leaves the deadlines queued. *)
RetireKeepsTimer(S) ==
    /\ status' = [t \in Threads |-> IF t \in S THEN "Finished" ELSE status[t]]
    /\ pending' = [t \in Threads |-> IF t \in S THEN NoResponse ELSE pending[t]]
    /\ returned' = NoReturns
    /\ UNCHANGED <<timer, breaks>>

(* retire_unit over a set of units: Finished, no response, no deadline.    *)
RetireUnits(S) ==
    /\ status' = [t \in Threads |-> IF t \in S THEN "Finished" ELSE status[t]]
    /\ pending' = [t \in Threads |-> IF t \in S THEN NoResponse ELSE pending[t]]
    /\ timer' = [t \in Threads |-> IF t \in S THEN NoTimer ELSE timer[t]]
    /\ returned' = NoReturns
    /\ UNCHANGED breaks

-----------------------------------------------------------------------------
(* The units of process p, and whether every unit is finished.             *)
UnitsOf(p) == {t \in Threads : ProcOf[t] = p}
Halted == \A t \in Threads : status[t] = "Finished"

RtInit ==
    /\ status = [t \in Threads |-> "Runnable"]
    /\ pending = [t \in Threads |-> NoResponse]
    /\ timer = [t \in Threads |-> NoTimer]
    /\ returned = NoReturns
    /\ breaks = {}

(* The shape of the runtime's tables, for the responses, timers and codes  *)
(* a primitive uses.                                                       *)
RtTypeOK(Resps, Tmrs, Cds) ==
    /\ status \in [Threads -> {"Runnable", "Blocked", "Finished"}]
    /\ pending \in [Threads -> Resps]
    /\ timer \in [Threads -> Tmrs]
    /\ DOMAIN returned \subseteq Threads
    /\ \A t \in DOMAIN returned : returned[t] \in Cds

(* sys_timer_sleep / usleep with a nonzero interval: park until the timer. *)
Sleep(t) == Block(t, ReturnCode("OK"), SleepTimer)

(* fire_timer_wakes for a Sleep entry: resolve_sync_wakes of the sleeper.  *)
FireSleep(t) ==
    /\ timer[t] = SleepTimer
    /\ ResolveExpiry(t, Expired({t}, NoUpdates, {}))
=============================================================================
