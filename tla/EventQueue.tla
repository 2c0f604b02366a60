----------------------------- MODULE EventQueue -----------------------------
(***************************************************************************)
(* Event queues, the event ports and SPU thread ports that send to them,   *)
(* and the ipc-key registry: cellgov_lv2/src/host/event_queue.rs,          *)
(* spu_event.rs and spu_user_event.rs over sync_primitives/event_queue.rs  *)
(* and event_port.rs.  An event is one datum.                              *)
(***************************************************************************)
EXTENDS WakeProtocol, FiniteSets

CONSTANTS
    QueueIds, PortIds,  \* kernel ids of the two classes
    SpuPorts,           \* event ports of the initialized SPU threads
    Keys,               \* non-zero ipc keys
    Data,               \* what an event carries
    MaxSize             \* largest queue size a create asks for (0 is 127)

ASSUME EventQueueAssumption ==
    MaxSize \in Nat /\ QueueIds \cap PortIds = {}

VARIABLES
    queue,      \* EventQueueTable
    port,       \* EventPortTable
    spuPort,    \* the queue each SPU thread port is connected to
    keyOf,      \* event_queue_ipc_keys: a queue's key
    ipc,        \* event_queue_ipc: a key's queue
    ports,      \* process_counts.event_port
    delivered,  \* the events the last step handed to each receiver
    ids,        \* KernelIdTable::live
    holder      \* KernelIdTable::owners

tables == <<queue, port, spuPort, keyOf, ipc, ports>>
hostVars == <<tables, ids, holder>>
vars == <<rtVars, hostVars, delivered>>

None == "none"
NewQueue(size) == [size |-> size, payloads |-> <<>>, waiters |-> <<>>]
NoQueue == NewQueue(0)
NewPort(type) == [type |-> type, queue |-> None]
Live(q) == q \in ids \cap QueueIds

(* EventQueueReceive as a receive parks with it, and with its payload.     *)
EventQueueEmpty == Response("EventQueueEmpty", "none")
EventQueueReceive(d) == Response("EventQueueReceive", d)
QueueTimer(q) == TimerEntry("EventQueue", q, "none")
NoEvents == [t \in {} |-> <<>>]

Init ==
    /\ RtInit
    /\ queue = [q \in QueueIds |-> NoQueue]
    /\ port = [p \in PortIds |-> NewPort("LOCAL")]
    /\ spuPort = [s \in SpuPorts |-> None]
    /\ keyOf = [q \in QueueIds |-> None]
    /\ ipc = [k \in Keys |-> None]
    /\ ports = 0
    /\ delivered = NoEvents
    /\ ids = {}
    /\ holder = [i \in QueueIds \cup PortIds |-> BootProc]

Answer(t, code) ==
    Immediate(t, code) /\ delivered' = NoEvents /\ UNCHANGED hostVars

Minted(t, i) ==
    /\ i \notin ids
    /\ ids' = ids \cup {i}
    /\ holder' = [holder EXCEPT ![i] = ProcOf[t]]

(* dispatch_event_queue_create, under key (None: unkeyed).  A null id_ptr  *)
(* is noticed last: EFAULT with the queue made.                            *)
QueueCreate(t, key) ==
    \/ key # None /\ ipc[key] # None /\ Answer(t, "EEXIST")
    \/ /\ key # None => ipc[key] = None
       /\ QueueIds \subseteq ids
       /\ Answer(t, "EAGAIN")
    \/ /\ key # None => ipc[key] = None
       /\ \E q \in QueueIds, size \in 1..MaxSize :
             /\ Minted(t, q)
             /\ queue' = [queue EXCEPT ![q] = NewQueue(size)]
             /\ keyOf' = [keyOf EXCEPT ![q] = key]
             /\ ipc' = [k \in Keys |-> IF k = key THEN q ELSE ipc[k]]
       /\ \E code \in {"OK", "EFAULT"} : Immediate(t, code)
       /\ delivered' = NoEvents
       /\ UNCHANGED <<port, spuPort, ports>>

(* The port table, and the SPU ports, without bindings to the queues S     *)
(* (unbind_queue, unbind_event_queue).                                     *)
Unbound(prt, S) ==
    [p \in PortIds |-> IF prt[p].queue \in S THEN [prt[p] EXCEPT !.queue = None]
                       ELSE prt[p]]
SpuUnbound(S) == [s \in SpuPorts |-> IF spuPort[s] \in S THEN None ELSE spuPort[s]]

(* The host tables after a destroy of q, with the port, SPU port and key   *)
(* tables given; and the key table without q (unregister_event_queue_key). *)
QueueDestroyed(q, prt, spu, regd) ==
    /\ queue' = [queue EXCEPT ![q] = NoQueue]
    /\ ids' = ids \ {q}
    /\ port' = prt
    /\ spuPort' = spu
    /\ keyOf' = [keyOf EXCEPT ![q] = None]
    /\ ipc' = regd
    /\ UNCHANGED <<ports, holder>>
Unregistered(q) == [k \in Keys |-> IF ipc[k] = q THEN None ELSE ipc[k]]

(* Mutants: the destroy leaves ports bound; it wakes receivers with OK.    *)
QueueDestroyKeepsBinding(t, q) ==
    /\ Live(q)
    /\ LET W == Waiting(queue[q].waiters)
       IN  WakeAndReturn(t, "OK", W, [u \in W |-> ReturnCode("ECANCELED")], {})
    /\ delivered' = NoEvents
    /\ QueueDestroyed(q, port, SpuUnbound({q}), Unregistered(q))
QueueDestroyAsOk(t, q) ==
    /\ Live(q)
    /\ LET W == Waiting(queue[q].waiters)
       IN  WakeAndReturn(t, "OK", W, [u \in W |-> ReturnCode("OK")], {})
    /\ delivered' = NoEvents
    /\ QueueDestroyed(q, Unbound(port, {q}), SpuUnbound({q}), Unregistered(q))

(* dispatch_event_queue_destroy: mode 0 refuses parked receivers, FORCE    *)
(* wakes them with ECANCELED; any other mode is EINVAL.                    *)
QueueDestroy(t, q) ==
    \/ Answer(t, "EINVAL")
    \/ ~Live(q) /\ Answer(t, "ESRCH")
    \/ Live(q) /\ queue[q].waiters # <<>> /\ Answer(t, "EBUSY")
    \/ /\ Live(q)
       /\ LET W == Waiting(queue[q].waiters)
          IN  WakeAndReturn(t, "OK", W, [u \in W |-> ReturnCode("ECANCELED")], {})
       /\ delivered' = NoEvents
       /\ QueueDestroyed(q, Unbound(port, {q}), SpuUnbound({q}), Unregistered(q))

(* Mutant: the receive parks without looking for a buffered event. *)
QueueReceiveParks(t, q) ==
    /\ Live(q)
    /\ queue' = [queue EXCEPT ![q].waiters = Enqueue(@, t)]
    /\ \E tmr \in {NoTimer, QueueTimer(q)} : Block(t, EventQueueEmpty, tmr)
    /\ delivered' = NoEvents
    /\ UNCHANGED <<port, spuPort, keyOf, ipc, ports, ids, holder>>

(* dispatch_event_queue_receive: a buffered event at once, or park.  (The  *)
(* refusal of a caller already parked needs a caller that runs parked.)    *)
QueueReceive(t, q) ==
    \/ ~Live(q) /\ Answer(t, "ESRCH")
    \/ /\ Live(q) /\ queue[q].payloads # <<>>
       /\ delivered' = [u \in {t} |-> <<Head(queue[q].payloads)>>]
       /\ queue' = [queue EXCEPT ![q].payloads = Tail(@)]
       /\ Immediate(t, "OK")
       /\ UNCHANGED <<port, spuPort, keyOf, ipc, ports, ids, holder>>
    \/ /\ Live(q) /\ queue[q].payloads = <<>>
       /\ IF Contains(queue[q].waiters, t) THEN Answer(t, "EFAULT")
          ELSE /\ queue' = [queue EXCEPT ![q].waiters = Enqueue(@, t)]
               /\ \E tmr \in {NoTimer, QueueTimer(q)} :
                     Block(t, EventQueueEmpty, tmr)
               /\ delivered' = NoEvents
               /\ UNCHANGED <<port, spuPort, keyOf, ipc, ports, ids, holder>>

(* dispatch_event_queue_tryreceive of up to max events.                    *)
QueueTryreceive(t, q, max) ==
    \/ Answer(t, "EFAULT")
    \/ ~Live(q) /\ Answer(t, "ESRCH")
    \/ /\ Live(q)
       /\ LET pl == queue[q].payloads
              n  == IF Len(pl) < max THEN Len(pl) ELSE max
          IN  /\ delivered' = [u \in {t} |-> SubSeq(pl, 1, n)]
              /\ queue' = [queue EXCEPT ![q].payloads = SubSeq(@, n + 1, Len(@))]
       /\ Immediate(t, "OK")
       /\ UNCHANGED <<port, spuPort, keyOf, ipc, ports, ids, holder>>

-----------------------------------------------------------------------------
(* Event ports.                                                            *)

(* dispatch_event_port_create; EFAULT is a null id_ptr, noticed last.      *)
PortCreate(t) ==
    \/ Answer(t, "EINVAL")
    \/ PortIds \subseteq ids /\ Answer(t, "EAGAIN")
    \/ /\ \E p \in PortIds, type \in {"LOCAL", "IPC"} :
             Minted(t, p) /\ port' = [port EXCEPT ![p] = NewPort(type)]
       /\ ports' = ports + 1
       /\ \E code \in {"OK", "EFAULT"} : Immediate(t, code)
       /\ delivered' = NoEvents
       /\ UNCHANGED <<queue, spuPort, keyOf, ipc>>

(* dispatch_event_port_destroy *)
PortDestroy(t, p) ==
    \/ p \notin ids /\ Answer(t, "ESRCH")
    \/ p \in ids /\ port[p].queue # None /\ Answer(t, "EISCONN")
    \/ /\ p \in ids /\ port[p].queue = None
       /\ port' = [port EXCEPT ![p] = NewPort("LOCAL")]
       /\ ports' = ports - 1
       /\ ids' = ids \ {p}
       /\ Immediate(t, "OK")
       /\ delivered' = NoEvents
       /\ UNCHANGED <<queue, spuPort, keyOf, ipc, holder>>

(* dispatch_event_port_connect of p to q (None: no queue has the key).     *)
PortConnect(t, p, q, type) ==
    \/ (~Live(q) \/ p \notin ids) /\ Answer(t, "ESRCH")
    \/ Live(q) /\ p \in ids /\ port[p].type # type /\ Answer(t, "EINVAL")
    \/ /\ Live(q) /\ p \in ids /\ port[p].type = type
       /\ port[p].queue # None
       /\ Answer(t, "EISCONN")
    \/ /\ Live(q) /\ p \in ids /\ port[p].type = type
       /\ port[p].queue = None
       /\ port' = [port EXCEPT ![p].queue = q]
       /\ Immediate(t, "OK")
       /\ delivered' = NoEvents
       /\ UNCHANGED <<queue, spuPort, keyOf, ipc, ports, ids, holder>>

(* dispatch_event_port_connect_local, _ipc                                 *)
ConnectLocal(t, p, q) == PortConnect(t, p, q, "LOCAL")
ConnectIpc(t, p, key) == PortConnect(t, p, ipc[key], "IPC")

(* dispatch_event_port_disconnect *)
PortDisconnect(t, p) ==
    \/ p \notin ids /\ Answer(t, "ESRCH")
    \/ p \in ids /\ port[p].queue = None /\ Answer(t, "ENOTCONN")
    \/ /\ p \in ids /\ port[p].queue # None
       /\ port' = [port EXCEPT ![p].queue = None]
       /\ Immediate(t, "OK")
       /\ delivered' = NoEvents
       /\ UNCHANGED <<queue, spuPort, keyOf, ipc, ports, ids, holder>>

(* Mutants of the send: it takes one event too many; it puts the event in  *)
(* front of the buffered ones.                                             *)
SentOverfull(e, d) ==
    [full |-> e.waiters = <<>> /\ Len(e.payloads) > e.size,
     woken |-> IF e.waiters = <<>> THEN {} ELSE {Head(e.waiters)},
     entry |-> IF e.waiters = <<>> THEN [e EXCEPT !.payloads = Append(@, d)]
               ELSE [e EXCEPT !.waiters = Tail(@)]]
SentFront(e, d) ==
    [full |-> e.waiters = <<>> /\ Len(e.payloads) >= e.size,
     woken |-> IF e.waiters = <<>> THEN {} ELSE {Head(e.waiters)},
     entry |-> IF e.waiters = <<>> THEN [e EXCEPT !.payloads = <<d>> \o @]
               ELSE [e EXCEPT !.waiters = Tail(@)]]

(* send_and_wake_or_enqueue of d to entry e: the head receiver takes it,   *)
(* or it is buffered, or the queue is full.                                *)
Sent(e, d) ==
    [full |-> e.waiters = <<>> /\ Len(e.payloads) >= e.size,
     woken |-> IF e.waiters = <<>> THEN {} ELSE {Head(e.waiters)},
     entry |-> IF e.waiters = <<>> THEN [e EXCEPT !.payloads = Append(@, d)]
               ELSE [e EXCEPT !.waiters = Tail(@)]]

(* Deliver d to live queue q, which has room; rets is what the sender's    *)
(* own call returns.                                                       *)
Deliver(q, d, rets) ==
    LET s == Sent(queue[q], d)
    IN  /\ ~s.full
        /\ queue' = [queue EXCEPT ![q] = s.entry]
        /\ delivered' = [u \in s.woken |-> <<d>>]
        /\ ResolveWakes(s.woken, [u \in s.woken |-> EventQueueReceive(d)], rets, {})
        /\ UNCHANGED <<port, spuPort, keyOf, ipc, ports, ids, holder>>

(* dispatch_event_port_send; ESRCH also for a binding to a queue the table *)
(* does not hold.                                                          *)
PortSend(t, p, d) ==
    LET q == port[p].queue
    IN  \/ (p \notin ids \/ (q # None /\ ~Live(q))) /\ Answer(t, "ESRCH")
        \/ p \in ids /\ q = None /\ Answer(t, "ENOTCONN")
        \/ p \in ids /\ Live(q) /\ Sent(queue[q], d).full /\ Answer(t, "EBUSY")
        \/ p \in ids /\ Live(q) /\ Deliver(q, d, [u \in {t} |-> "OK"])

(* dispatch_thread_connect_event and its disconnect.                       *)
SpuConnect(t, s, q) ==
    \/ ~Live(q) /\ Answer(t, "ESRCH")
    \/ Live(q) /\ spuPort[s] # None /\ Answer(t, "EISCONN")
    \/ /\ Live(q) /\ spuPort[s] = None
       /\ spuPort' = [spuPort EXCEPT ![s] = q]
       /\ Immediate(t, "OK")
       /\ delivered' = NoEvents
       /\ UNCHANGED <<queue, port, keyOf, ipc, ports, ids, holder>>
SpuDisconnect(t, s) ==
    \/ spuPort[s] = None /\ Answer(t, "ENOTCONN")
    \/ /\ spuPort[s] # None
       /\ spuPort' = [spuPort EXCEPT ![s] = None]
       /\ Immediate(t, "OK")
       /\ delivered' = NoEvents
       /\ UNCHANGED <<queue, port, keyOf, ipc, ports, ids, holder>>

(* send_spu_thread_user_event, served by the runtime after the SPU's step. *)
(* A refused event (not connected, full) only answers the SPU.             *)
SpuSend(s, d) ==
    /\ Live(spuPort[s])
    /\ Deliver(spuPort[s], d, NoReturns)

-----------------------------------------------------------------------------
(* Mutant: the waiter record is removed before it is looked for. *)
ExpireQueueWaitUnfound(t) ==
    /\ timer[t].kind = "EventQueue"
    /\ queue' = [queue EXCEPT ![timer[t].id].waiters = Remove(@, t)]
    /\ delivered' = NoEvents
    /\ ResolveExpiry(t, ExpireUnqueued(t, FALSE))
    /\ UNCHANGED <<port, spuPort, keyOf, ipc, ports, ids, holder>>

(* The EventQueue arm of expire_wait.                                      *)
ExpireQueueWait(t) ==
    LET q == timer[t].id
        removed == Live(q) /\ Contains(queue[q].waiters, t)
    IN  /\ timer[t].kind = "EventQueue"
        /\ queue' = IF removed THEN [queue EXCEPT ![q].waiters = Remove(@, t)]
                    ELSE queue
        /\ delivered' = NoEvents
        /\ ResolveExpiry(t, ExpireUnqueued(t, removed))
        /\ UNCHANGED <<port, spuPort, keyOf, ipc, ports, ids, holder>>

(* handle_ppu_thread_exit *)
ThreadExit(t) ==
    /\ status' = [status EXCEPT ![t] = "Finished"]
    /\ returned' = NoReturns
    /\ delivered' = NoEvents
    /\ UNCHANGED <<pending, timer, breaks, hostVars>>

(* Mutant: a child's exit leaves its threads queued. *)
UnpurgedQueue(S) == queue

(* purge_waiters_of, for the threads S.                                    *)
PurgedQueue(S) ==
    [q \in QueueIds |-> [queue[q] EXCEPT !.waiters = RemoveSet(@, S)]]

(* The ids drop_exited_object drops for process p, with pq the purged      *)
(* queues: its ports, and its unkeyed queues nobody waits on.              *)
ExitDrops(p, pq) ==
    {i \in ids : /\ holder[i] = p
                 /\ i \in QueueIds => keyOf[i] = None /\ pq[i].waiters = <<>>}

(* mark_process_exited                                                     *)
ChildExit(p) ==
    LET pq == PurgedQueue(UnitsOf(p))
        D  == ExitDrops(p, pq)
        bound == Unbound(port, D)
    IN  /\ queue' = [q \in QueueIds |-> IF q \in D THEN NoQueue ELSE pq[q]]
        /\ port' = [i \in PortIds |->
                       IF i \in D THEN NewPort("LOCAL") ELSE bound[i]]
        /\ spuPort' = SpuUnbound(D)
        /\ ports' = ports - Cardinality(D \cap PortIds)
        /\ ids' = ids \ D
        /\ RetireUnits(UnitsOf(p))
        /\ UNCHANGED <<keyOf, ipc, holder>>

(* sys_process_exit by t.                                                  *)
ProcessExit(t) ==
    /\ \/ ProcOf[t] # BootProc /\ ChildExit(ProcOf[t])
       \/ ProcOf[t] = BootProc /\ RetireUnits(Threads) /\ UNCHANGED hostVars
    /\ delivered' = NoEvents

Syscall(t) ==
    \/ \E key \in Keys \cup {None} : QueueCreate(t, key)
    \/ \E q \in QueueIds :
          \/ QueueDestroy(t, q) \/ QueueReceive(t, q)
          \/ \E max \in 0..MaxSize : QueueTryreceive(t, q, max)
          \/ \E s \in SpuPorts : SpuConnect(t, s, q)
    \/ PortCreate(t)
    \/ \E p \in PortIds :
          \/ PortDestroy(t, p) \/ PortDisconnect(t, p)
          \/ \E q \in QueueIds : ConnectLocal(t, p, q)
          \/ \E key \in Keys : ConnectIpc(t, p, key)
          \/ \E d \in Data : PortSend(t, p, d)
    \/ \E s \in SpuPorts : SpuDisconnect(t, s)
    \/ ThreadExit(t)
    \/ ProcessExit(t)

Next ==
    \/ \E t \in Threads :
          \/ status[t] = "Runnable" /\ Syscall(t)
          \/ ExpireQueueWait(t)
    \/ ~Halted /\ \E s \in SpuPorts, d \in Data : SpuSend(s, d)

Spec == Init /\ [][Next]_vars

-----------------------------------------------------------------------------
(* Properties.                                                             *)

Codes == {"OK", "EFAULT", "EINVAL", "EAGAIN", "ESRCH", "EBUSY", "EEXIST",
          "EISCONN", "ENOTCONN", "ETIMEDOUT", "ECANCELED"}
Timers == {NoTimer} \cup {QueueTimer(q) : q \in QueueIds}

(* Type invariant: tables keep their shape, no queue holds more events     *)
(* than its size, and no payload is left staged.                           *)
TypeOK ==
    /\ RtTypeOK({NoResponse, EventQueueEmpty}, Timers, Codes)
    /\ queue \in [QueueIds -> [size : 0..MaxSize, payloads : Seq(Data),
                               waiters : Seq(Threads)]]
    /\ \A q \in QueueIds : Len(queue[q].payloads) <= queue[q].size
    /\ port \in [PortIds -> [type : {"LOCAL", "IPC"},
                             queue : QueueIds \cup {None}]]
    /\ spuPort \in [SpuPorts -> QueueIds \cup {None}]
    /\ keyOf \in [QueueIds -> Keys \cup {None}]
    /\ ipc \in [Keys -> QueueIds \cup {None}]
    /\ DOMAIN delivered \subseteq Threads
    /\ ids \subseteq QueueIds \cup PortIds
    /\ holder \in [QueueIds \cup PortIds -> Procs]

QueueWaits(t) == {q \in QueueIds : Contains(queue[q].waiters, t)}

(* The storage invariant of event_queue.rs: buffered events and parked     *)
(* receivers never meet on a queue.  If they did, a receiver would sleep   *)
(* beside an event.                                                        *)
NoEventBesideReceiver ==
    \A q \in QueueIds : queue[q].payloads = <<>> \/ queue[q].waiters = <<>>

(* No lost wake and no stale deadline: a thread is owed a response exactly  *)
(* while Blocked, is then on exactly one live queue's list, once, and a     *)
(* deadline it still has names that list.                                   *)
OneWaker ==
    Halted \/
    \A t \in Threads :
        /\ (status[t] = "Blocked") <=> (pending[t] # NoResponse)
        /\ IF status[t] = "Blocked" THEN \E q \in ids : QueueWaits(t) = {q}
           ELSE QueueWaits(t) = {}
        /\ \A q \in QueueIds : NoDuplicates(queue[q].waiters)
        /\ timer[t] # NoTimer => timer[t].id \in QueueWaits(t)

(* None of the "cannot happen" branches is taken; in particular            *)
(* resolve_sync_wakes never meets a receive without its payload.           *)
NoBreaks == breaks = {}

(* Every record that names a queue names a live one, so a recycled id never *)
(* inherits senders or a key, whatever destroys, exits and id reuse do (the *)
(* cross-module contract of unbind_queue and unbind_event_queue).  The two  *)
(* halves of the key registry are inverse to each other, and                *)
(* process_counts.event_port is the number of live ports.                   *)
BindingsExact ==
    /\ \A p \in PortIds \cap ids : port[p].queue # None => Live(port[p].queue)
    /\ \A s \in SpuPorts : spuPort[s] # None => Live(spuPort[s])
    /\ \A k \in Keys : ipc[k] # None => Live(ipc[k]) /\ keyOf[ipc[k]] = k
    /\ \A q \in QueueIds : keyOf[q] # None => ipc[keyOf[q]] = q
    /\ ports = Cardinality(ids \cap PortIds)

(* The events of a queue leave in the order they were accepted, each once: *)
(* a step hands a prefix of the buffer to one receiver, or adds one event  *)
(* behind it, or passes one event to the oldest receiver, but no other.    *)
EventsInOrder ==
    [][\A q \in ids \cap ids' \cap QueueIds :
        LET pl  == queue[q].payloads
            pl2 == queue'[q].payloads
            w   == queue[q].waiters
            got == {t \in DOMAIN delivered' : delivered'[t] # <<>>}
        IN  \/ pl2 = pl /\ got \cap Waiting(w) = {}
            \/ \E t \in got : pl = delivered'[t] \o pl2
            \/ got = {} /\ \E d \in Data : pl2 = Append(pl, d)
            \/ pl2 = pl /\ w # <<>> /\ got = {Head(w)}
               /\ queue'[q].waiters = Tail(w)]_vars

(* A thread that leaves its receive with CELL_OK holds exactly one event,  *)
(* and a cancelled or timed-out receive holds none.                        *)
OkMeansEvent ==
    [][\A t \in Threads :
        status[t] = "Blocked" /\ t \in DOMAIN returned' =>
            IF returned'[t] = "OK"
            THEN t \in DOMAIN delivered' /\ Len(delivered'[t]) = 1
            ELSE t \notin DOMAIN delivered']_vars
=============================================================================
