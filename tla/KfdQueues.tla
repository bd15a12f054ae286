------------------------------ MODULE KfdQueues ------------------------------
(***************************************************************************)
(* The user queues of amdkfd on one device scheduled by the command        *)
(* processor: the queues of a process (kfd_process_queue_manager.c), the   *)
(* device's lists and counters (kfd_device_queue_manager.c, "cpsch"), the  *)
(* packets that map and unmap queues (kfd_packet_manager.c) and the        *)
(* debugger's queue (kfd_dbgmgr.c).                                        *)
(*                                                                         *)
(* A call works for its process under the process's mutex, and on the      *)
(* device under the lock of the device queue manager.  Every change of the *)
(* queues preempts what runs, waits for the CP with a timeout, and sends a *)
(* new run list.                                                           *)
(***************************************************************************)
EXTENDS KernelQueue

CONSTANTS
    Procs,
    None,
    Asks,             \* the queues each process asks for: their type, and whether they are active
    Debuggable,       \* processes that may register with the debugger
    MaxCalls,         \* bound on the calls that create or update a queue
    MaxPerProcess,    \* KFD_MAX_NUM_OF_QUEUES_PER_PROCESS
    MaxPerDevice,     \* max_num_of_queues_per_device
    DebugLimit,       \* max_no_of_hqd / 2
    MaxFaults         \* bound on preemptions that time out and allocations that fail

ASSUME QueueConstants ==
    /\ None \notin Procs /\ Debuggable \subseteq Procs
    /\ Asks \in [Procs -> SUBSET ({"compute", "sdma"} \X BOOLEAN)]
    /\ {MaxCalls, MaxPerProcess, MaxPerDevice, DebugLimit, MaxFaults} \subseteq Nat

Queues == 1..MaxCalls
Qids   == 0..(MaxPerProcess - 1)

VARIABLES
    queue,            \* [Queues -> [proc, qid, type, active, freed]]: the queue and its MQD
    made,             \* queues created so far
    pqm,              \* [Procs -> Seq(Queues)] pqm->queues, newest first
    slots,            \* [Procs -> SUBSET Qids] pqm->queue_slot_bitmap
    listed,           \* queues on a queues_list or a priv_queue_list
    registered,       \* dqm->queues, of which processes_count is the length
    queue_count, total_queue_count, sdma_queue_count,
    active_runlist,
    lock,             \* the process that holds dqm->lock
    op,               \* [Procs -> [at, call, q, all]] the call in progress
    dbgmgr,           \* the process that has registered with the debugger
    life,             \* [Procs -> {"alive", "uninit", "released"}]; released with its queues
    fence,            \* *dqm->fence_addr = KFD_FENCE_COMPLETED
    mapped, static,   \* queues the CP runs, and those of them it does not preempt with the others
    failed,           \* the last execute_queues_cpsch did not end with the lists' run list
    timeouts,         \* preemptions that have timed out: the CP may answer them late
    strays,           \* SDMA queues that a preemption has left out: it follows the removal of
                      \* the only one, or its packets did not fit into the ring
    faults, updates

pqmVars == <<queue, made, pqm, slots, dbgmgr, life, updates>>
dqmVars == <<listed, registered, queue_count, total_queue_count, sdma_queue_count,
             strays>>
cpVars  == <<hiq, sent, overrun, fence, mapped, static>>
vars    == <<pqmVars, dqmVars, cpVars, active_runlist, lock, op, failed, timeouts, faults>>

NoQueue == [proc |-> None, qid |-> 0, type |-> "none", active |-> FALSE, freed |-> FALSE]

Idle == [at |-> "idle", call |-> "none", q |-> 0, all |-> FALSE]

Init ==
    /\ queue = [q \in Queues |-> NoQueue]
    /\ made = 0 /\ pqm = [p \in Procs |-> <<>>] /\ slots = [p \in Procs |-> {}]
    /\ listed = {} /\ registered = {}
    /\ queue_count = 0 /\ total_queue_count = 0 /\ sdma_queue_count = 0
    /\ active_runlist = FALSE /\ lock = None /\ op = [p \in Procs |-> Idle]
    /\ dbgmgr = None /\ life = [p \in Procs |-> "alive"]
    /\ fence = FALSE /\ mapped = {} /\ static = {}
    /\ failed = FALSE /\ timeouts = 0 /\ strays = {} /\ faults = 0 /\ updates = 0
    /\ KqInit

IsDiq(q) == queue[q].type = "diq"

\* qpd->is_debug, set and cleared with the DIQ's place on the list
is_debug(p) == \E q \in listed : queue[q].proc = p /\ IsDiq(q)

\* what p does next
Goto(p, at) == op' = [op EXCEPT ![p].at = at]
Return(p)   == op' = [op EXCEPT ![p] = Idle]

-----------------------------------------------------------------------------
(* The calls *)

\* pqm_create_queue goes on: a debugged process is within its limit and has a free slot
MayCreate(p, type) ==
    /\ is_debug(p) \/ type = "diq" =>
         Cardinality({q \in listed : queue[q].proc = p /\ ~IsDiq(q)}) < DebugLimit
    /\ slots[p] # Qids

\* find_available_queue_slot
FreeSlot(p) == CHOOSE i \in Qids \ slots[p] : \A k \in Qids \ slots[p] : i <= k

\* pqm_create_queue takes a slot, and registers the process with the device if the process
\* has no queue yet
Create(p, type, active) ==
    LET q == made + 1
        qid == FreeSlot(p)
    IN
    /\ MayCreate(p, type)
    /\ slots' = [slots EXCEPT ![p] = @ \cup {qid}]
    /\ queue' = [queue EXCEPT ![q] = [proc |-> p, qid |-> qid, type |-> type,
                                      active |-> active, freed |-> FALSE]]
    /\ made' = q
    /\ op' = [op EXCEPT ![p] = [at |-> IF pqm[p] = <<>> THEN "register" ELSE "lock",
                                call |-> "create", q |-> q, all |-> FALSE]]

\* kfd_ioctl_create_queue
CreateQueue(p, type, active) ==
    /\ life[p] = "alive" /\ op[p] = Idle /\ made + updates < MaxCalls
    /\ Create(p, type, active)
    /\ UNCHANGED <<pqm, dbgmgr, life, updates, dqmVars, cpVars, active_runlist, lock, failed,
                   timeouts, faults>>

\* kfd_ioctl_dbg_register, which does not learn whether the DIQ could be created
DbgRegister(p) ==
    /\ p \in Debuggable /\ dbgmgr = None
    /\ life[p] = "alive" /\ op[p] = Idle /\ made + updates < MaxCalls
    /\ IF MayCreate(p, "diq") THEN Create(p, "diq", TRUE)
                              ELSE UNCHANGED <<slots, queue, made, op>>
    /\ dbgmgr' = p
    /\ UNCHANGED <<pqm, life, updates, dqmVars, cpVars, active_runlist, lock, failed, timeouts,
                   faults>>

\* register_process
Register(p) ==
    /\ op[p].at = "register" /\ lock = None
    /\ registered' = registered \cup {p}
    /\ Goto(p, "lock")
    /\ UNCHANGED <<pqmVars, listed, queue_count, total_queue_count, sdma_queue_count, strays,
                   cpVars, active_runlist, lock, failed, timeouts, faults>>

\* ... finds no memory, which pqm_create_queue does not learn
RegisterFails(p) ==
    /\ op[p].at = "register"
    /\ faults < MaxFaults /\ faults' = faults + 1
    /\ Goto(p, "lock")
    /\ UNCHANGED <<pqmVars, dqmVars, cpVars, active_runlist, lock, failed, timeouts>>

\* pqm_destroy_queue and pqm_update_queue find the queue by its id
Call(p, call, q) ==
    /\ op[p] = Idle
    /\ op' = [op EXCEPT ![p] = [at |-> "lock", call |-> call, q |-> q,
                                all |-> call = "destroy" /\ IsDiq(q)]]
    /\ UNCHANGED <<queue, made, pqm, slots, dqmVars, cpVars, active_runlist, lock, failed,
                   timeouts, faults>>

\* kfd_ioctl_destroy_queue, which takes the id of the DIQ as well
DestroyQueue(p, q) ==
    /\ life[p] = "alive" /\ q \in {pqm[p][i] : i \in DOMAIN pqm[p]}
    /\ Call(p, "destroy", q)
    /\ UNCHANGED <<dbgmgr, life, updates>>

\* kfd_ioctl_update_queue; not for the DIQ, which has no struct queue to update
UpdateQueue(p, q) ==
    /\ life[p] = "alive" /\ q \in {pqm[p][i] : i \in DOMAIN pqm[p]} /\ ~IsDiq(q)
    /\ made + updates < MaxCalls /\ updates' = updates + 1
    /\ Call(p, "update", q)
    /\ UNCHANGED <<dbgmgr, life>>

\* kfd_ioctl_dbg_unrgesiter, as long as the DIQ is there
DbgUnregister(p) ==
    /\ life[p] = "alive" /\ dbgmgr = p
    /\ \E i \in DOMAIN pqm[p] : IsDiq(pqm[p][i]) /\ Call(p, "destroy", pqm[p][i])
    /\ dbgmgr' = None
    /\ UNCHANGED <<life, updates>>

\* kfd_process_notifier_release: pqm_uninit destroys the queues from the head of the list
Exit(p) ==
    /\ life[p] = "alive" /\ op[p] = Idle
    /\ life' = [life EXCEPT ![p] = "uninit"]
    /\ UNCHANGED <<queue, made, pqm, slots, dbgmgr, updates, dqmVars, cpVars, active_runlist,
                   lock, op, failed, timeouts, faults>>

UninitQueue(p) ==
    /\ life[p] = "uninit" /\ pqm[p] # <<>>
    /\ Call(p, "destroy", Head(pqm[p]))
    /\ UNCHANGED <<dbgmgr, life, updates>>

\* the process's structures are freed: its queues are gone, or pqm_uninit has given up;
\* dev->dbgmgr is freed and keeps its value
Gone(p) ==
    \/ life[p] = "released"
    \/ life[p] = "uninit" /\ op[p] = Idle /\ pqm[p] = <<>>

-----------------------------------------------------------------------------
(* The device queue manager, under its lock *)

\* mutant: inactive queues are counted too
CountAll(active) == 1

\* what a queue adds to queue_count
Count(active) == IF active THEN 1 ELSE 0

Sdma(q) == IF queue[q].type = "sdma" THEN 1 ELSE 0

\* the error path of pqm_create_queue: the slot is free again; the queue stays where
\* create_queue_cpsch has put it
Undo(p) ==
    /\ slots' = [slots EXCEPT ![p] = @ \ {queue[op[p].q].qid}]
    /\ IF pqm[p] = <<>> THEN Goto(p, "unregister") ELSE Return(p)

\* create_queue_cpsch and create_kernel_queue_cpsch up to execute_queues_cpsch
ListQueue(p) ==
    LET q == op[p].q IN
    /\ op[p].at = "lock" /\ op[p].call = "create" /\ lock = None
    /\ IF total_queue_count >= MaxPerDevice
       THEN /\ Undo(p)
            /\ UNCHANGED <<dqmVars, lock>>
       ELSE /\ lock' = p
            /\ listed' = listed \cup {q}
            /\ queue_count' = queue_count + Count(queue[q].active)
            /\ Goto(p, IF queue[q].active THEN "preempt" ELSE "done")
            /\ UNCHANGED <<registered, total_queue_count, sdma_queue_count, strays, slots>>
    /\ UNCHANGED <<queue, made, pqm, dbgmgr, life, updates, cpVars, active_runlist, failed,
                   timeouts, faults>>

\* destroy_queue_cpsch, which refuses the queues of a debugged process; pqm_uninit then
\* gives up, and the process is released with its queues
UnlistQueue(p) ==
    LET q == op[p].q IN
    /\ op[p].at = "lock" /\ op[p].call = "destroy" /\ ~op[p].all /\ lock = None
    /\ IF is_debug(p)
       THEN /\ Return(p)
            /\ life' = [life EXCEPT ![p] = IF @ = "uninit" THEN "released" ELSE @]
            /\ UNCHANGED <<dqmVars, lock>>
       ELSE /\ lock' = p
            /\ listed' = listed \ {q}
            /\ queue_count' = queue_count - Count(queue[q].active)
            /\ sdma_queue_count' = sdma_queue_count - Sdma(q)
            /\ strays' = strays \cup {k \in {q} : Sdma(k) = 1 /\ sdma_queue_count = 1}
            /\ Goto(p, "preempt")
            /\ UNCHANGED <<registered, total_queue_count, life>>
    /\ UNCHANGED <<queue, made, pqm, slots, dbgmgr, updates, cpVars, active_runlist, failed,
                   timeouts, faults>>

\* destroy_kernel_queue_cpsch starts with the preemption of all queues ...
LockDiq(p) ==
    /\ op[p].at = "lock" /\ op[p].call = "destroy" /\ op[p].all /\ lock = None
    /\ lock' = p
    /\ Goto(p, "preempt")
    /\ UNCHANGED <<pqmVars, dqmVars, cpVars, active_runlist, failed, timeouts, faults>>

\* ... and goes on whether it succeeded or not
UnlistDiq(p) ==
    LET q == op[p].q IN
    /\ op[p].at = "unlist"
    /\ listed' = listed \ {q}
    /\ queue_count' = queue_count - 1
    /\ op' = [op EXCEPT ![p] = [@ EXCEPT !.at = "preempt", !.all = FALSE]]
    /\ UNCHANGED <<pqmVars, registered, total_queue_count, sdma_queue_count, strays, cpVars,
                   active_runlist, lock, failed, timeouts, faults>>

\* update_queue: the new properties make the queue active or not
UpdateActive(p, active) ==
    LET q == op[p].q IN
    /\ op[p].at = "lock" /\ op[p].call = "update" /\ lock = None
    /\ lock' = p
    /\ queue' = [queue EXCEPT ![q].active = active]
    /\ queue_count' = queue_count + Count(active) - Count(queue[q].active)
    /\ Goto(p, "preempt")
    /\ UNCHANGED <<made, pqm, slots, dbgmgr, life, updates, listed, registered,
                   total_queue_count, sdma_queue_count, strays, cpVars, active_runlist, failed,
                   timeouts, faults>>

-----------------------------------------------------------------------------
(* execute_queues_cpsch: preempt, wait for the CP, send the run list *)

\* the preemption of destroy_queues_cpsch failed: execute_queues_cpsch gives up, and
\* destroy_kernel_queue_cpsch goes on
PreemptFails(p) ==
    /\ Goto(p, IF op[p].all THEN "unlist" ELSE "done")
    /\ failed' = TRUE

\* pm_send_unmap_queue for the two SDMA engines, taken as one packet, and for the compute
\* queues
SdmaPacket == [type |-> "unmap_sdma"]
UnmapPacket(p) == [type |-> "unmap", all |-> op[p].all]

\* destroy_queues_cpsch: the SDMA queues, of which it does not learn whether they fitted ...
PreemptSdma(p) ==
    /\ op[p].at = "preempt" /\ active_runlist /\ sdma_queue_count > 0
    /\ TrySubmit(SdmaPacket)
    /\ strays' = IF HasRoom(PacketSize["unmap_sdma"])
                 THEN strays ELSE strays \cup {q \in Queues : Sdma(q) = 1}
    /\ Goto(p, "unmap")
    /\ UNCHANGED <<pqmVars, listed, registered, queue_count, total_queue_count,
                   sdma_queue_count, fence, mapped, static, active_runlist, lock, failed,
                   timeouts, faults>>

\* ... and the compute queues, up to the fence
Preempt(p) ==
    /\ \/ op[p].at = "preempt" /\ (active_runlist => sdma_queue_count <= 0)
       \/ op[p].at = "unmap"
    /\ IF ~active_runlist
       THEN /\ Goto(p, IF op[p].all THEN "unlist" ELSE "runlist")
            /\ UNCHANGED <<hiq, sent, overrun, failed>>
       ELSE /\ TrySubmit(UnmapPacket(p))
            /\ IF HasRoom(PacketSize["unmap"])
               THEN Goto(p, "query") /\ UNCHANGED failed
               ELSE PreemptFails(p)
    /\ UNCHANGED <<pqmVars, dqmVars, fence, mapped, static, active_runlist, lock, timeouts,
                   faults>>

\* mutant: the fence keeps the value of the last preemption
FenceKept == fence

\* the fence is set to KFD_FENCE_INIT before the query is sent
FenceInit == FALSE

\* pm_send_query_status
QueryPacket == [type |-> "query"]

\* the fence and the query, of which destroy_queues_cpsch does not learn whether it was sent
Query(p) ==
    /\ op[p].at = "query"
    /\ fence' = FenceInit
    /\ TrySubmit(QueryPacket)
    /\ Goto(p, "wait")
    /\ UNCHANGED <<pqmVars, dqmVars, mapped, static, active_runlist, lock, failed, timeouts,
                   faults>>

\* amdkfd_fence_wait_timeout returns 0
Preempted(p) ==
    /\ op[p].at = "wait" /\ fence
    /\ active_runlist' = FALSE
    /\ Goto(p, IF op[p].all THEN "unlist" ELSE "runlist")
    /\ UNCHANGED <<pqmVars, dqmVars, cpVars, lock, failed, timeouts, faults>>

\* amdkfd_fence_wait_timeout returns -ETIME.  The process is looked up to note it, and an
\* exiting process is no longer found: the kernel oopses with the lock held.
TimeOut(p) ==
    /\ op[p].at = "wait" /\ ~fence
    /\ faults < MaxFaults /\ faults' = faults + 1
    /\ timeouts' = timeouts + 1
    /\ IF life[p] = "alive" THEN PreemptFails(p) ELSE Goto(p, "oops") /\ UNCHANGED failed
    /\ UNCHANGED <<pqmVars, dqmVars, cpVars, active_runlist, lock>>


\* the queues that pm_create_runlist_ib maps
Contents == {q \in listed : queue[q].proc \in registered /\ queue[q].active}

\* pm_send_runlist; the queues of a debugged process are static
RunListPacket == [type |-> "runlist", queues |-> Contents,
                  static |-> {q \in Contents : is_debug(queue[q].proc)}]

\* the rest of execute_queues_cpsch: the run list is sent, unless nothing is to run
RunList(p) ==
    /\ op[p].at = "runlist"
    /\ IF queue_count <= 0 \/ registered = {}
       THEN /\ failed' = FALSE
            /\ UNCHANGED <<hiq, sent, overrun, active_runlist>>
       ELSE /\ TrySubmit(RunListPacket)
            /\ active_runlist' = HasRoom(PacketSize["runlist"])
            /\ failed' = ~HasRoom(PacketSize["runlist"])
    /\ Goto(p, "done")
    /\ UNCHANGED <<pqmVars, dqmVars, fence, mapped, static, lock, timeouts, faults>>

\* pm_allocate_runlist_ib fails
NoMemory(p) ==
    /\ op[p].at = "runlist" /\ queue_count > 0 /\ registered # {}
    /\ faults < MaxFaults /\ faults' = faults + 1
    /\ failed' = TRUE
    /\ Goto(p, "done")
    /\ UNCHANGED <<pqmVars, dqmVars, cpVars, active_runlist, lock, timeouts>>

-----------------------------------------------------------------------------
(* The end of a call *)

\* the queue counts, and is in the process's list unless the run list failed; for a DIQ
\* that does not matter
Created(p) ==
    LET q == op[p].q IN
    /\ op[p].at = "done" /\ op[p].call = "create"
    /\ lock' = None
    /\ IF failed /\ queue[q].active /\ ~IsDiq(q)
       THEN Undo(p) /\ UNCHANGED pqm
       ELSE Return(p) /\ pqm' = [pqm EXCEPT ![p] = <<q>> \o @] /\ UNCHANGED slots
    /\ total_queue_count' = total_queue_count + 1
    /\ sdma_queue_count' = sdma_queue_count + Sdma(q)
    /\ UNCHANGED <<queue, made, dbgmgr, life, updates, listed, registered, queue_count, strays,
                   cpVars, active_runlist, failed, timeouts, faults>>

\* mutant: the list is looked at before the queue is taken from it
EmptyBefore(p, q) == pqm[p] = <<>>

\* the process has no queue but q
EmptyWithout(p, q) == \A i \in DOMAIN pqm[p] : pqm[p][i] = q

\* list_del: the list without q
Without(s, q) ==
    LET at == CHOOSE i \in DOMAIN s : s[i] = q
    IN  [i \in 1..(Len(s) - 1) |-> IF i < at THEN s[i] ELSE s[i + 1]]

\* the MQD and the queue are freed, of which only the CP may still know, after which
\* pqm_destroy_queue forgets the queue
Destroyed(p) ==
    LET q == op[p].q IN
    /\ op[p].at = "done" /\ op[p].call = "destroy"
    /\ lock' = None
    /\ total_queue_count' = total_queue_count - 1
    /\ queue' = [queue EXCEPT ![q] = [NoQueue EXCEPT !.type = queue[q].type, !.freed = TRUE]]
    /\ pqm' = [pqm EXCEPT ![p] = Without(@, q)]
    /\ slots' = [slots EXCEPT ![p] = @ \ {queue[q].qid}]
    /\ IF EmptyWithout(p, q) THEN Goto(p, "unregister") ELSE Return(p)
    /\ UNCHANGED <<made, dbgmgr, life, updates, listed, registered, queue_count,
                   sdma_queue_count, strays, cpVars, active_runlist, failed, timeouts, faults>>

Updated(p) ==
    /\ op[p].at = "done" /\ op[p].call = "update"
    /\ lock' = None
    /\ Return(p)
    /\ UNCHANGED <<pqmVars, dqmVars, cpVars, active_runlist, failed, timeouts, faults>>

\* unregister_process
Unregister(p) ==
    /\ op[p].at = "unregister" /\ lock = None
    /\ registered' = registered \ {p}
    /\ Return(p)
    /\ UNCHANGED <<pqmVars, listed, queue_count, total_queue_count, sdma_queue_count, strays,
                   cpVars, active_runlist, lock, failed, timeouts, faults>>

-----------------------------------------------------------------------------
(* The command processor *)

\* the queues that a packet preempts
Unmapped(packet) ==
    CASE packet.type = "unmap"      -> {q \in mapped : queue[q].type # "sdma"
                                                      /\ (q \in static => packet.all)}
      [] packet.type = "unmap_sdma" -> {q \in mapped \ static : queue[q].type = "sdma"}
      [] OTHER                      -> {}

\* what it does with a ring that was overrun is open
CpStep ==
    LET packet == Current
        added == IF packet.type = "runlist" THEN packet.queues ELSE {}
    IN
    /\ Unread /\ ~overrun
    /\ Consume
    /\ mapped' = (mapped \ Unmapped(packet)) \cup added
    /\ static' = (static \ (Unmapped(packet) \cup added))
                 \cup IF packet.type = "runlist" THEN packet.static ELSE {}
    /\ fence' = (fence \/ packet.type = "query")
    /\ UNCHANGED <<pqmVars, dqmVars, active_runlist, lock, op, failed, timeouts, faults>>

-----------------------------------------------------------------------------

DqmStep(p) ==
    \/ Register(p) \/ RegisterFails(p) \/ ListQueue(p)
    \/ UnlistQueue(p) \/ LockDiq(p) \/ UnlistDiq(p)
    \/ \E active \in BOOLEAN : UpdateActive(p, active)
    \/ PreemptSdma(p) \/ Preempt(p) \/ Query(p) \/ Preempted(p) \/ TimeOut(p)
    \/ RunList(p) \/ NoMemory(p)
    \/ Created(p) \/ Destroyed(p) \/ Updated(p) \/ Unregister(p)

Next ==
    \/ \E p \in Procs :
         \/ \E ask \in Asks[p] : CreateQueue(p, ask[1], ask[2])
         \/ DbgRegister(p) \/ DbgUnregister(p)
         \/ \E q \in Queues : DestroyQueue(p, q) \/ UpdateQueue(p, q)
         \/ Exit(p) \/ UninitQueue(p)
         \/ DqmStep(p)
    \/ CpStep

Spec == Init /\ [][Next]_vars

-----------------------------------------------------------------------------
(* Properties *)

CountOf(P(_)) == Cardinality({q \in listed : P(q)})

\* pqm_uninit has given up on the queues of a process, whose structures are then freed: they
\* stay on the device's lists and are taken to stay as they are
GivenUp(p) == life[p] = "released"

\* what one call may leave in the ring
Round == PacketSize["unmap_sdma"] + PacketSize["unmap"] + PacketSize["query"]
         + PacketSize["runlist"]

\* The CP reads what was submitted, in its order, through the wraps of the ring, until a
\* packet that is moved to the start of the ring meets packets that were not read: the room
\* that acquire_packet_buffer counts includes the rest before the end.  That takes packets
\* left over from preemptions that timed out: it cannot happen as long as the ring holds one
\* call's packets for each of them and one more.
HiqIntact ==
    /\ (timeouts + 1) * Round + PacketSize["unmap_sdma"] <= RingSize => ~overrun
    /\ ~overrun => RingIntact

\* Whenever the lock of the device queue manager is free, its three counters say what is on
\* its lists: through creations that fail half-way, refused and failed destructions, updates
\* and the debugger's queue.  The run list's size, the limit of queues per device and the
\* preemption of SDMA queues are computed from them.
CountersExact ==
    lock = None =>
      /\ queue_count = CountOf(LAMBDA q : queue[q].active)
      /\ total_queue_count = Cardinality(listed)
      /\ sdma_queue_count = CountOf(LAMBDA q : queue[q].type = "sdma")

\* As long as no preemption has timed out, the MQD of a queue is freed only after the CP has
\* unmapped the queue, whatever calls of other processes come between, except for an SDMA
\* queue that is destroyed when it is the only one: sdma_queue_count is lowered before
\* destroy_queues_cpsch asks whether there are any.  (After a timeout every wait may be ended
\* by the answer to the query before; and when a run list could not be sent, active_runlist
\* is false while the static queues are still mapped, and nothing preempts those any more.)
FreedNotMapped ==
    \A q \in mapped \ strays : queue[q].freed => timeouts > 0 \/ (faults > 0 /\ q \in static)

\* queues whose creation failed after they were listed: no id names them
Lost == {q \in listed : \A i \in DOMAIN pqm[queue[q].proc] : pqm[queue[q].proc][i] # q}


\* A process that is gone has left nothing on the device: it is not registered, its queues
\* are on no list, and the counters that uninitialize demands to be 0 are 0 when all
\* processes are gone.  The exception is a process that exits under its debugger:
\* destroy_queue_cpsch refuses a queue that is newer than the DIQ, pqm_uninit gives up, and
\* the DIQ is left as well.
ExitClean ==
    faults = 0 =>
      /\ \A p \in Procs : Gone(p) =>
           IF GivenUp(p) THEN is_debug(p)
           ELSE p \notin registered /\ \A q \in listed : queue[q].proc # p
      /\ (\A p \in Procs : Gone(p) /\ ~GivenUp(p)) => queue_count = 0 /\ registered = {}
=============================================================================
