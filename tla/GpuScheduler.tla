---------------------------- MODULE GpuScheduler ----------------------------
(***************************************************************************)
(* One hardware ring's scheduler (amd/scheduler/gpu_scheduler.c and        *)
(* sched_fence.c): client threads push jobs into the bounded job queues    *)
(* (kfifos) of entities, one kernel thread (amd_sched_main) takes jobs     *)
(* from ready entities, waits for their dependencies and puts them on the  *)
(* ring, and fence callbacks, work items and delayed work finish them.     *)
(*                                                                         *)
(* Every thread is modelled at the granularity of its accesses to shared   *)
(* state: what one lock (or one atomic operation) covers is one action.    *)
(***************************************************************************)
EXTENDS Integers, Sequences, FiniteSets

CONSTANTS
    Entities,            \* struct amd_sched_entity objects of this scheduler
    Jobs,                \* struct amd_sched_job objects, each pushed by its own thread
    ExtFences,           \* fences that do not belong to this scheduler
    NULL,                \* the null pointer
    EntityOf,            \* job->s_entity
    Prio,                \* which of sched->sched_rq[] holds the entity
    Deps,                \* the fences a job's sync object holds when it is submitted
    Destroyable,         \* entities that amd_sched_entity_fini may be called for
    QueueSize,           \* capacity of entity->job_queue
    HwSubmissionLimit,   \* sched->hw_submission_limit
    Timeout,             \* sched->timeout # MAX_SCHEDULE_TIMEOUT
    MayFail,             \* the jobs for which ops->run_job may return NULL
    MaxParks,            \* bound on the number of kthread_park calls
    MayStop              \* amd_sched_fini may be called

Priorities == 0..1                       \* AMD_SCHED_PRIORITY_KERNEL, _NORMAL
AMD_SCHED_MAX_PRIORITY == 2

\* The two fences of struct amd_sched_fence, and foreign fences.
Fences == ({"scheduled", "finished"} \X Jobs) \cup ({"ext"} \X ExtFences)

ASSUME SchedSets ==
    /\ NULL \notin Entities \cup Jobs \cup Fences
    /\ Entities \cap Jobs = {}
    /\ EntityOf \in [Jobs -> Entities]
    /\ Prio \in [Entities -> Priorities]
    /\ Deps \in [Jobs -> SUBSET Fences]
    /\ Destroyable \subseteq Entities

ASSUME SchedBounds ==
    /\ QueueSize \in Nat \ {0}
    /\ HwSubmissionLimit \in Nat \ {0}
    /\ MaxParks \in Nat

ASSUME SchedFlags == Timeout \in BOOLEAN /\ MayFail \subseteq Jobs /\ MayStop \in BOOLEAN

VARIABLES
    queue,          \* [Entities -> Seq(Jobs)]       entity->job_queue
    dependency,     \* [Entities -> Fences or NULL]  entity->dependency
    cb,             \* [Entities -> Fences or NULL]  fence on whose list entity->cb is
    estate,         \* [Entities -> EntityStates]    progress of amd_sched_entity_fini
    rq,             \* [Priorities -> Seq(Entities)] rq->entities
    current,        \* [Priorities -> Entities or NULL] rq->current_entity
    hw_rq_count,    \* sched->hw_rq_count
    mirror,         \* Seq(Jobs) sched->ring_mirror_list
    pc,             \* where amd_sched_main is
    rqi,            \* i of amd_sched_select_entity
    ent,            \* entity of amd_sched_main
    job,            \* sched_job of amd_sched_main
    woken,          \* amd_sched_main was woken since its prepare_to_wait
    park,           \* kthread_should_park()
    parks,          \* number of kthread_park calls so far
    stop,           \* kthread_should_stop()
    sleepers,       \* jobs' submitters and entities' destroyers asleep on job_scheduled
    push,           \* [Jobs -> PushStates] progress of a submission
    sync,           \* [Jobs -> SUBSET Fences] fences left in job->sync
    scheduled,      \* jobs whose s_fence->scheduled is signaled
    finished,       \* jobs whose s_fence->finished is signaled
    extSignaled,    \* foreign fences that are signaled
    waking,         \* entities whose amd_sched_entity_wakeup has yet to wake the scheduler
    hw,             \* [Jobs -> HwStates] the fence run_job returned
    ring,           \* Seq(Jobs) jobs in the order they were put on the hardware ring
    pcb,            \* jobs whose s_fence->cb is on their hardware fence
    processing,     \* [Jobs -> ProcStates] progress of amd_sched_process_job
    finish,         \* [Jobs -> FinishStates] progress of amd_sched_job_finish
    tdr,            \* jobs whose work_tdr timer is pending
    tdrRun,         \* jobs whose work_tdr is executing
    fired           \* history: jobs whose work_tdr timer has expired

entityVars == <<queue, dependency, cb, estate>>
rqVars     == <<rq, current>>
mainVars   == <<pc, rqi, ent, job>>
parkVars   == <<park, parks, stop>>
fenceVars  == <<scheduled, finished, extSignaled>>
hwVars     == <<hw, ring, pcb>>
tdrVars    == <<tdr, tdrRun, fired>>
vars == <<entityVars, rqVars, hw_rq_count, mirror, mainVars, woken, parkVars,
          sleepers, push, sync, fenceVars, waking, hwVars, processing,
          finish, tdrVars>>

MainStates   == {"loop", "prepare", "parked", "ready", "scan", "sleep", "pop",
                 "adddep", "inc", "begin", "run", "scheduled", "install", "process",
                 "out", "wakeup", "exit"}
EntityStates == {"live", "fini", "remove", "dead"}
PushStates   == {"new", "init", "first", "add", "wake", "done"}
HwStates     == {"none", "failed", "emitted", "signaled"}
ProcStates   == {"none", "dec", "signal", "wake"}
FinishStates == {"none", "queued", "cancel", "next", "freed"}

Elems(s) == {s[i] : i \in DOMAIN s}

\* list_del_init: s without its element x, if it is listed
ListDel(s, x) ==
    LET at == CHOOSE i \in DOMAIN s : s[i] = x
    IN  IF x \in Elems(s)
        THEN [i \in 1..(Len(s) - 1) |-> IF i < at THEN s[i] ELSE s[i + 1]]
        ELSE s

Signaled(f) == CASE f[1] = "scheduled" -> f[2] \in scheduled
                 [] f[1] = "finished"  -> f[2] \in finished
                 [] f[1] = "ext"       -> f[2] \in extSignaled

-----------------------------------------------------------------------------
(* Predicates of the code *)

\* amd_sched_entity_is_ready
IsReady(e) == queue[e] # <<>> /\ dependency[e] = NULL

\* mutant: the job the main thread has peeked at is not counted
IsIdlePeeked(e) == \A i \in DOMAIN queue[e] : queue[e][i] = job

\* amd_sched_entity_is_idle
IsIdle(e) == queue[e] = <<>>

\* mutant: off by one
SchedReadyOrFull == hw_rq_count <= HwSubmissionLimit

\* amd_sched_ready
SchedReady == hw_rq_count < HwSubmissionLimit

\* mutant: off by one
SchedWakeupLate == \/ hw_rq_count + 1 < HwSubmissionLimit /\ woken' = TRUE
                   \/ hw_rq_count + 1 >= HwSubmissionLimit /\ UNCHANGED woken

\* amd_sched_wakeup: wake the main thread, but only if the ring has room
SchedWakeup == \/ SchedReady /\ woken' = TRUE
               \/ ~SchedReady /\ UNCHANGED woken

\* list_empty(&entity->list) is false
Listed(e) == e \in Elems(rq[Prio[e]])

\* kfifo_in finds room for one more job
HasRoom(e) == Len(queue[e]) < QueueSize

\* What amd_sched_entity_clear_dep and amd_sched_entity_wakeup do when f is signaled
ClearDep(f) ==
    /\ cb' = [e \in Entities |-> IF cb[e] = f THEN NULL ELSE cb[e]]
    /\ dependency' = [e \in Entities |-> IF cb[e] = f THEN NULL ELSE dependency[e]]

\* The scheduler has just been started by amd_sched_init, and its entities have
\* been initialised by amd_sched_entity_init.
Init ==
    /\ queue = [e \in Entities |-> <<>>]
    /\ dependency = [e \in Entities |-> NULL]
    /\ cb = [e \in Entities |-> NULL]
    /\ estate = [e \in Entities |-> "live"]
    /\ rq = [p \in Priorities |-> <<>>]
    /\ current = [p \in Priorities |-> NULL]
    /\ hw_rq_count = 0
    /\ mirror = <<>>
    /\ pc = "loop" /\ rqi = 0 /\ ent = NULL /\ job = NULL
    /\ woken = FALSE
    /\ park = FALSE /\ parks = 0 /\ stop = FALSE
    /\ sleepers = {}
    /\ push = [j \in Jobs |-> "new"]
    /\ sync = [j \in Jobs |-> {}]
    /\ scheduled = {} /\ finished = {} /\ extSignaled = {}
    /\ waking = {}
    /\ hw = [j \in Jobs |-> "none"]
    /\ ring = <<>>
    /\ pcb = {}
    /\ processing = [j \in Jobs |-> "none"]
    /\ finish = [j \in Jobs |-> "none"]
    /\ tdr = {} /\ tdrRun = {} /\ fired = {}

-----------------------------------------------------------------------------
(* Clients: submitting a job *)

\* amd_sched_job_init and amd_sched_fence_create.  The fences a job depends on
\* were published by submissions that have reached their queues.
JobInit(j) ==
    LET e == EntityOf[j] IN
    /\ push[j] = "new" /\ estate[e] = "live"
    /\ \A f \in Deps[j] : f[1] # "ext" => push[f[2]] \notin {"new", "init"}
    /\ push' = [push EXCEPT ![j] = "init"]
    /\ sync' = [sync EXCEPT ![j] = Deps[j]]
    /\ UNCHANGED <<entityVars, rqVars, hw_rq_count, mirror, mainVars, woken,
                   parkVars, sleepers, fenceVars, waking, hwVars, processing,
                   finish, tdrVars>>

\* amd_sched_entity_push_job up to the unlock in amd_sched_entity_in: put the
\* job into the kfifo, or sleep on job_scheduled while the kfifo is full.  Only
\* the submitter that finds the queue empty goes on to the run queue.
EntityIn(j) ==
    LET e == EntityOf[j] IN
    /\ push[j] = "init" /\ j \notin sleepers
    /\ \/ /\ HasRoom(e)
          /\ queue' = [queue EXCEPT ![e] = Append(@, j)]
          /\ push' = [push EXCEPT ![j] = IF queue[e] = <<>> THEN "first" ELSE "done"]
          /\ UNCHANGED sleepers
       \/ /\ ~HasRoom(e)
          /\ sleepers' = sleepers \cup {j}
          /\ UNCHANGED <<queue, push>>
    /\ UNCHANGED <<dependency, cb, estate, rqVars, hw_rq_count, mirror, mainVars,
                   woken, parkVars, sync, fenceVars, waking,
                   hwVars, processing, finish, tdrVars>>

\* amd_sched_rq_add_entity: list_empty() is tested without the lock ...
RqAddEntityCheck(j) ==
    /\ push[j] = "first"
    /\ push' = [push EXCEPT ![j] = IF Listed(EntityOf[j]) THEN "wake" ELSE "add"]
    /\ UNCHANGED <<entityVars, rqVars, hw_rq_count, mirror, mainVars, woken,
                   parkVars, sleepers, sync, fenceVars, waking,
                   hwVars, processing, finish, tdrVars>>

\* ... and the entity is added under it.
RqAddEntity(j) ==
    LET e == EntityOf[j] IN
    /\ push[j] = "add"
    /\ rq' = [rq EXCEPT ![Prio[e]] = Append(@, e)]
    /\ push' = [push EXCEPT ![j] = "wake"]
    /\ UNCHANGED <<entityVars, current, hw_rq_count, mirror, mainVars, woken,
                   parkVars, sleepers, sync, fenceVars, waking,
                   hwVars, processing, finish, tdrVars>>

\* The amd_sched_wakeup at the end of amd_sched_entity_in.
PushWakeup(j) ==
    /\ push[j] = "wake"
    /\ push' = [push EXCEPT ![j] = "done"]
    /\ SchedWakeup
    /\ UNCHANGED <<entityVars, rqVars, hw_rq_count, mirror, mainVars, parkVars,
                   sleepers, sync, fenceVars, waking, hwVars,
                   processing, finish, tdrVars>>

(* Clients: destroying an entity *)

\* Entry of amd_sched_entity_fini: the client's submissions have returned and it
\* queues no more.
EntityFini(e) ==
    /\ e \in Destroyable /\ estate[e] = "live"
    /\ \A j \in Jobs : EntityOf[j] = e => push[j] \in {"new", "done"}
    /\ estate' = [estate EXCEPT ![e] = "fini"]
    /\ UNCHANGED <<queue, dependency, cb, rqVars, hw_rq_count, mirror, mainVars,
                   woken, parkVars, sleepers, push, sync, fenceVars, waking,
                   hwVars, processing, finish, tdrVars>>

\* wait_event(sched->job_scheduled, amd_sched_entity_is_idle(entity))
EntityFiniWait(e) ==
    /\ estate[e] = "fini" /\ e \notin sleepers
    /\ \/ /\ IsIdle(e)
          /\ estate' = [estate EXCEPT ![e] = "remove"]
          /\ UNCHANGED sleepers
       \/ /\ ~IsIdle(e)
          /\ sleepers' = sleepers \cup {e}
          /\ UNCHANGED estate
    /\ UNCHANGED <<queue, dependency, cb, rqVars, hw_rq_count, mirror, mainVars,
                   woken, parkVars, push, sync, fenceVars, waking, hwVars,
                   processing, finish, tdrVars>>

\* mutant: the rotation point is not reset
RqRemoveEntityOnly(e) ==
    /\ estate[e] = "remove"
    /\ rq' = [rq EXCEPT ![Prio[e]] = ListDel(@, e)]
    /\ estate' = [estate EXCEPT ![e] = "dead"]
    /\ UNCHANGED <<queue, dependency, cb, current, hw_rq_count, mirror, mainVars,
                   woken, parkVars, sleepers, push, sync, fenceVars, waking,
                   hwVars, processing, finish, tdrVars>>

\* amd_sched_rq_remove_entity and kfifo_free; the caller then frees the entity.
RqRemoveEntity(e) ==
    LET p == Prio[e] IN
    /\ estate[e] = "remove"
    /\ rq' = [rq EXCEPT ![p] = ListDel(@, e)]
    /\ current' = [current EXCEPT ![p] = IF @ = e THEN NULL ELSE @]
    /\ estate' = [estate EXCEPT ![e] = "dead"]
    /\ UNCHANGED <<queue, dependency, cb, hw_rq_count, mirror, mainVars, woken,
                   parkVars, sleepers, push, sync, fenceVars, waking, hwVars,
                   processing, finish, tdrVars>>

-----------------------------------------------------------------------------
(* amd_sched_main: waiting for a ready entity *)

\* while (!kthread_should_stop())
MainLoop ==
    /\ pc = "loop"
    /\ pc' = IF stop THEN "exit" ELSE "prepare"
    /\ UNCHANGED <<entityVars, rqVars, hw_rq_count, mirror, rqi, ent, job, woken,
                   parkVars, sleepers, push, sync, fenceVars, waking, hwVars,
                   processing, finish, tdrVars>>

\* prepare_to_wait and amd_sched_blocked; woken collects the wake-ups since then
MainPrepare ==
    /\ pc = "prepare" /\ ~park
    /\ woken' = FALSE
    /\ pc' = "ready"
    /\ UNCHANGED <<entityVars, rqVars, hw_rq_count, mirror, rqi, ent, job,
                   parkVars, sleepers, push, sync, fenceVars, waking, hwVars,
                   processing, finish, tdrVars>>

\* kcl_kthread_parkme in amd_sched_blocked, and its return after the unpark: the
\* wait condition is then false but the thread is runnable, so it tries again
MainPark ==
    /\ \/ pc = "prepare" /\ park /\ pc' = "parked"
       \/ pc = "parked" /\ ~park /\ pc' = "prepare"
    /\ UNCHANGED <<entityVars, rqVars, hw_rq_count, mirror, rqi, ent, job, woken,
                   parkVars, sleepers, push, sync, fenceVars, waking, hwVars,
                   processing, finish, tdrVars>>

\* amd_sched_select_entity found nothing: the wait ends only to stop the thread
NoEntity == pc' = IF stop THEN "loop" ELSE "sleep"

\* the amd_sched_ready test of amd_sched_select_entity
MainReady ==
    /\ pc = "ready"
    /\ \/ SchedReady /\ pc' = "scan" /\ rqi' = 0
       \/ ~SchedReady /\ NoEntity /\ UNCHANGED rqi
    /\ UNCHANGED <<entityVars, rqVars, hw_rq_count, mirror, ent, job, woken,
                   parkVars, sleepers, push, sync, fenceVars, waking, hwVars,
                   processing, finish, tdrVars>>

\* Position i of run queue p is visited before position k: the walk starts after
\* current_entity and wraps around to it
VisitedBefore(p, i, k) ==
    LET After(n) == current[p] # NULL =>
                        \E c \in 1..(n - 1) : rq[p][c] = current[p]
    IN  (After(i) /\ ~After(k)) \/ ((After(i) <=> After(k)) /\ i <= k)

\* positions of run queue p that hold a ready entity
ReadyAt(p) == {i \in DOMAIN rq[p] : IsReady(rq[p][i])}

\* mutant: off by one
MoreRunQueuesOrEnd == rqi < AMD_SCHED_MAX_PRIORITY

\* the loop condition of amd_sched_select_entity, after i++
MoreRunQueues == rqi + 1 < AMD_SCHED_MAX_PRIORITY

\* amd_sched_rq_select_entity on sched_rq[rqi], under its lock; the run queues
\* are tried in order of priority, and the thread sleeps if none has a ready entity
MainSelect ==
    /\ pc = "scan"
    /\ \/ \E i \in ReadyAt(rqi) :
            /\ \A k \in ReadyAt(rqi) : VisitedBefore(rqi, i, k)
            /\ current' = [current EXCEPT ![rqi] = rq[rqi][i]]
            /\ ent' = rq[rqi][i]
            /\ pc' = "pop"
            /\ UNCHANGED rqi
       \/ /\ ReadyAt(rqi) = {}
          /\ \/ MoreRunQueues /\ rqi' = rqi + 1 /\ UNCHANGED pc
             \/ ~MoreRunQueues /\ NoEntity /\ UNCHANGED rqi
          /\ UNCHANGED <<current, ent>>
    /\ UNCHANGED <<entityVars, rq, hw_rq_count, mirror, job, woken, parkVars,
                   sleepers, push, sync, fenceVars, waking, hwVars,
                   processing, finish, tdrVars>>

\* schedule() in wait_event_interruptible returns once a wake-up has arrived
MainSleep ==
    /\ pc = "sleep" /\ woken
    /\ pc' = "prepare"
    /\ UNCHANGED <<entityVars, rqVars, hw_rq_count, mirror, rqi, ent, job, woken,
                   parkVars, sleepers, push, sync, fenceVars, waking, hwVars,
                   processing, finish, tdrVars>>

-----------------------------------------------------------------------------
(* amd_sched_main: one job *)

\* One round of the while loop of amd_sched_entity_pop_job.  ops->dependency
\* (amdgpu_job_dependency) takes some unsignaled fence out of job->sync; without
\* one the job may run.  The queue is not empty here: ent was ready, and only
\* this thread takes jobs out.
PopJob ==
    LET j == Head(queue[ent])
        Unsignaled == {f \in sync[j] : ~Signaled(f)}
    IN
    /\ pc = "pop" /\ queue[ent] # <<>>
    /\ \/ /\ Unsignaled = {}
          /\ dependency' = [dependency EXCEPT ![ent] = NULL]
          /\ sync' = [sync EXCEPT ![j] = {}]
          /\ job' = j /\ pc' = "inc"
       \/ /\ \E f \in Unsignaled :
               /\ dependency' = [dependency EXCEPT ![ent] = f]
               /\ sync' = [sync EXCEPT ![j] = @ \ {f}]
          /\ pc' = "adddep" /\ UNCHANGED job
    /\ UNCHANGED <<queue, cb, estate, rqVars, hw_rq_count, mirror, rqi, ent, woken,
                   parkVars, sleepers, push, fenceVars, waking, hwVars,
                   processing, finish, tdrVars>>

\* mutant: every fence of this scheduler is taken for one of our own
FenceOfScheduler(f) == f[1] # "ext"

\* fence->context == entity->fence_context (finished fences are of the next context)
OwnFence(f) == f[1] = "scheduled" /\ EntityOf[f[2]] = ent

\* amd_sched_entity_add_dependency_cb.  A scheduled fence of the entity itself is
\* ignored; any other fence of this scheduler is replaced by its scheduled fence;
\* entity->cb goes onto a fence that is not signaled yet and the thread goes back
\* to the wait, otherwise the next dependency is tried.
AddDependencyCb ==
    LET f == dependency[ent]
        wait == IF f[1] = "ext" THEN f ELSE <<"scheduled", f[2]>>
    IN
    /\ pc = "adddep"
    /\ \/ /\ OwnFence(f)
          /\ pc' = "pop" /\ UNCHANGED <<dependency, cb, ent>>
       \/ /\ ~OwnFence(f)
          /\ dependency' = [dependency EXCEPT ![ent] = wait]
          /\ \/ /\ ~Signaled(wait)
                /\ cb' = [cb EXCEPT ![ent] = wait]
                /\ pc' = "loop" /\ ent' = NULL
             \/ /\ Signaled(wait)
                /\ pc' = "pop" /\ UNCHANGED <<cb, ent>>
    /\ UNCHANGED <<queue, estate, rqVars, hw_rq_count, mirror, rqi, job, woken,
                   parkVars, sleepers, push, sync, fenceVars, waking, hwVars,
                   processing, finish, tdrVars>>

\* atomic_inc(&sched->hw_rq_count)
MainInc ==
    /\ pc = "inc"
    /\ hw_rq_count' = hw_rq_count + 1
    /\ pc' = "begin"
    /\ UNCHANGED <<entityVars, rqVars, mirror, rqi, ent, job, woken, parkVars,
                   sleepers, push, sync, fenceVars, waking, hwVars, processing,
                   finish, tdrVars>>

\* amd_sched_job_begin, under job_list_lock
JobBegin ==
    /\ pc = "begin"
    /\ mirror' = Append(mirror, job)
    /\ tdr' = IF Timeout /\ mirror = <<>> THEN tdr \cup {job} ELSE tdr
    /\ pc' = "run"
    /\ UNCHANGED <<entityVars, rqVars, hw_rq_count, rqi, ent, job, woken, parkVars,
                   sleepers, push, sync, fenceVars, waking, hwVars, processing,
                   finish, tdrRun, fired>>

\* ops->run_job (amdgpu_job_run): the job is put on the ring behind the earlier
\* ones, or an error leaves the ring as it was and no fence is returned
RunJob ==
    /\ pc = "run"
    /\ \/ /\ hw' = [hw EXCEPT ![job] = "emitted"]
          /\ ring' = Append(ring, job)
       \/ /\ job \in MayFail
          /\ hw' = [hw EXCEPT ![job] = "failed"]
          /\ UNCHANGED ring
    /\ pc' = "scheduled"
    /\ UNCHANGED <<entityVars, rqVars, hw_rq_count, mirror, rqi, ent, job, woken,
                   parkVars, sleepers, push, sync, fenceVars, waking, pcb,
                   processing, finish, tdrVars>>

\* amd_sched_fence_scheduled: the signal runs the amd_sched_entity_clear_dep
\* callbacks of the entities that wait for this job.  They wake nobody.
FenceScheduled ==
    /\ pc = "scheduled"
    /\ scheduled' = scheduled \cup {job}
    /\ ClearDep(<<"scheduled", job>>)
    /\ pc' = "install"
    /\ UNCHANGED <<queue, estate, rqVars, hw_rq_count, mirror, rqi, ent, job, woken,
                   parkVars, sleepers, push, sync, finished, extSignaled,
                   waking, hwVars, processing, finish, tdrVars>>

\* fence_add_callback(fence, &s_fence->cb, amd_sched_process_job); without a
\* fence, or with one that is signaled already, the callback is called directly
InstallCallback ==
    /\ pc = "install"
    /\ \/ /\ hw[job] = "emitted"
          /\ pcb' = pcb \cup {job}
          /\ pc' = "out" /\ UNCHANGED processing
       \/ /\ hw[job] \in {"failed", "signaled"}
          /\ processing' = [processing EXCEPT ![job] = "dec"]
          /\ pc' = "process" /\ UNCHANGED pcb
    /\ UNCHANGED <<entityVars, rqVars, hw_rq_count, mirror, rqi, ent, job, woken,
                   parkVars, sleepers, push, sync, fenceVars, waking, hw, ring,
                   finish, tdrVars>>

\* the direct call of amd_sched_process_job returns
MainProcessed ==
    /\ pc = "process" /\ processing[job] = "none"
    /\ pc' = "out"
    /\ UNCHANGED <<entityVars, rqVars, hw_rq_count, mirror, rqi, ent, job, woken,
                   parkVars, sleepers, push, sync, fenceVars, waking, hwVars,
                   processing, finish, tdrVars>>

\* kfifo_out: only now the job leaves its queue
KfifoOut ==
    /\ pc = "out"
    /\ queue' = [queue EXCEPT ![ent] = Tail(@)]
    /\ pc' = "wakeup"
    /\ UNCHANGED <<dependency, cb, estate, rqVars, hw_rq_count, mirror, rqi, ent, job,
                   woken, parkVars, sleepers, push, sync, fenceVars, waking,
                   hwVars, processing, finish, tdrVars>>

\* mutant: the wake-up is missing
NoWakeUp == UNCHANGED sleepers

\* wake_up(&sched->job_scheduled)
WakeUp == sleepers' = {}

\* the end of the loop body
WakeJobScheduled ==
    /\ pc = "wakeup"
    /\ WakeUp
    /\ pc' = "loop" /\ ent' = NULL /\ job' = NULL
    /\ UNCHANGED <<entityVars, rqVars, hw_rq_count, mirror, rqi, woken, parkVars,
                   push, sync, fenceVars, waking, hwVars, processing, finish,
                   tdrVars>>

-----------------------------------------------------------------------------
(* The hardware, fence callbacks and deferred work *)

\* The ring executes in order; the interrupt handler signals the hardware fence
\* and calls amd_sched_process_job if it is installed
HwSignal(j) ==
    /\ \E i \in DOMAIN ring :
          /\ ring[i] = j /\ hw[j] = "emitted"
          /\ \A k \in 1..(i - 1) : hw[ring[k]] = "signaled"
    /\ hw' = [hw EXCEPT ![j] = "signaled"]
    /\ pcb' = pcb \ {j}
    /\ processing' = IF j \in pcb THEN [processing EXCEPT ![j] = "dec"] ELSE processing
    /\ UNCHANGED <<entityVars, rqVars, hw_rq_count, mirror, mainVars, woken,
                   parkVars, sleepers, push, sync, fenceVars, waking, ring,
                   finish, tdrVars>>

\* amd_sched_process_job: atomic_dec(&sched->hw_rq_count) ...
ProcessDec(j) ==
    /\ processing[j] = "dec"
    /\ hw_rq_count' = hw_rq_count - 1
    /\ processing' = [processing EXCEPT ![j] = "signal"]
    /\ UNCHANGED <<entityVars, rqVars, mirror, mainVars, woken, parkVars, sleepers,
                   push, sync, fenceVars, waking, hwVars, finish, tdrVars>>

\* ... amd_sched_fence_finished, which runs amd_sched_job_finish_cb ...
ProcessSignal(j) ==
    /\ processing[j] = "signal"
    /\ finished' = finished \cup {j}
    /\ finish' = [finish EXCEPT ![j] = "queued"]
    /\ processing' = [processing EXCEPT ![j] = "wake"]
    /\ UNCHANGED <<entityVars, rqVars, hw_rq_count, mirror, mainVars, woken,
                   parkVars, sleepers, push, sync, scheduled, extSignaled,
                   waking, hwVars, tdrVars>>

\* ... and wake_up_interruptible(&sched->wake_up_worker)
ProcessWake(j) ==
    /\ processing[j] = "wake"
    /\ woken' = TRUE
    /\ processing' = [processing EXCEPT ![j] = "none"]
    /\ UNCHANGED <<entityVars, rqVars, hw_rq_count, mirror, mainVars, parkVars,
                   sleepers, push, sync, fenceVars, waking, hwVars, finish,
                   tdrVars>>

\* amd_sched_job_finish up to its first unlock; without a timeout it goes on to
\* free_job
JobFinish(j) ==
    /\ finish[j] = "queued"
    /\ mirror' = ListDel(mirror, j)
    /\ finish' = [finish EXCEPT ![j] = IF Timeout THEN "cancel" ELSE "freed"]
    /\ UNCHANGED <<entityVars, rqVars, hw_rq_count, mainVars, woken, parkVars,
                   sleepers, push, sync, fenceVars, waking, hwVars, processing,
                   tdrVars>>

\* mutant: cancel_delayed_work, which does not wait for a running handler
TimerStopped(j) == TRUE

\* cancel_delayed_work_sync(&s_job->work_tdr) waits for a running handler
HandlerDone(j) == j \notin tdrRun

\* and then the timer is not pending any more
JobFinishCancel(j) ==
    /\ finish[j] = "cancel" /\ HandlerDone(j)
    /\ tdr' = tdr \ {j}
    /\ finish' = [finish EXCEPT ![j] = "next"]
    /\ UNCHANGED <<entityVars, rqVars, hw_rq_count, mirror, mainVars, woken,
                   parkVars, sleepers, push, sync, fenceVars, waking, hwVars,
                   processing, tdrRun, fired>>

\* mutant: no timer for the next job
NextJobIgnored == tdr' = tdr

\* queue TDR for the next job of the mirror list
QueueNextTdr == tdr' = IF mirror = <<>> THEN tdr ELSE tdr \cup {Head(mirror)}

\* the end of amd_sched_job_finish: the next timer and free_job
JobFinishNext(j) ==
    /\ finish[j] = "next"
    /\ QueueNextTdr
    /\ finish' = [finish EXCEPT ![j] = "freed"]
    /\ UNCHANGED <<entityVars, rqVars, hw_rq_count, mirror, mainVars, woken,
                   parkVars, sleepers, push, sync, fenceVars, waking, hwVars,
                   processing, tdrRun, fired>>

\* The timer of work_tdr expires
TdrExpire(j) ==
    /\ j \in tdr /\ j \notin tdrRun
    /\ tdr' = tdr \ {j}
    /\ tdrRun' = tdrRun \cup {j}
    /\ fired' = fired \cup {j}
    /\ UNCHANGED <<entityVars, rqVars, hw_rq_count, mirror, mainVars, woken,
                   parkVars, sleepers, push, sync, fenceVars, waking, hwVars,
                   processing, finish>>

\* amd_sched_job_timedout returns; amdgpu_gpu_reset found no hang and did nothing
JobTimedout(j) ==
    /\ j \in tdrRun
    /\ tdrRun' = tdrRun \ {j}
    /\ UNCHANGED <<entityVars, rqVars, hw_rq_count, mirror, mainVars, woken,
                   parkVars, sleepers, push, sync, fenceVars, waking, hwVars,
                   processing, finish, tdr, fired>>

\* Somebody signals a foreign fence; amd_sched_entity_wakeup clears the
\* dependencies on it ...
ExtSignal(f) ==
    /\ f \notin extSignaled
    /\ extSignaled' = extSignaled \cup {f}
    /\ ClearDep(<<"ext", f>>)
    /\ waking' = waking \cup {e \in Entities : cb[e] = <<"ext", f>>}
    /\ UNCHANGED <<queue, estate, rqVars, hw_rq_count, mirror, mainVars, woken,
                   parkVars, sleepers, push, sync, scheduled, finished, hwVars,
                   processing, finish, tdrVars>>

\* ... and then wakes the scheduler through entity->sched
EntityWakeup(e) ==
    /\ e \in waking
    /\ waking' = waking \ {e}
    /\ SchedWakeup
    /\ UNCHANGED <<entityVars, rqVars, hw_rq_count, mirror, mainVars, parkVars,
                   sleepers, push, sync, fenceVars, hwVars, processing, finish,
                   tdrVars>>

-----------------------------------------------------------------------------
(* Parking and stopping the main thread *)

\* kcl_kthread_park (called by amdgpu_gpu_reset): wakes the thread to be parked
KthreadPark ==
    /\ ~park /\ ~stop /\ pc # "parked" /\ parks < MaxParks
    /\ park' = TRUE /\ parks' = parks + 1
    /\ woken' = TRUE
    /\ UNCHANGED <<entityVars, rqVars, hw_rq_count, mirror, mainVars, stop,
                   sleepers, push, sync, fenceVars, waking, hwVars, processing,
                   finish, tdrVars>>

\* kcl_kthread_unpark, after kthread_park has seen the thread parked
KthreadUnpark ==
    /\ park /\ pc = "parked"
    /\ park' = FALSE
    /\ UNCHANGED <<entityVars, rqVars, hw_rq_count, mirror, mainVars, woken, parks,
                   stop, sleepers, push, sync, fenceVars, waking, hwVars,
                   processing, finish, tdrVars>>

\* amd_sched_fini: kthread_stop
SchedFini ==
    /\ MayStop /\ ~stop /\ ~park /\ pc # "parked"
    /\ stop' = TRUE
    /\ woken' = TRUE
    /\ UNCHANGED <<entityVars, rqVars, hw_rq_count, mirror, mainVars, park, parks,
                   sleepers, push, sync, fenceVars, waking, hwVars, processing,
                   finish, tdrVars>>

-----------------------------------------------------------------------------
SchedMain == \/ MainLoop \/ MainPrepare \/ MainPark \/ MainReady \/ MainSelect
             \/ MainSleep \/ PopJob \/ AddDependencyCb \/ MainInc \/ JobBegin
             \/ RunJob \/ FenceScheduled \/ InstallCallback \/ MainProcessed
             \/ KfifoOut \/ WakeJobScheduled

\* what the submitter of j does once it has started
PushJob(j) == EntityIn(j) \/ RqAddEntityCheck(j) \/ RqAddEntity(j) \/ PushWakeup(j)

\* what amd_sched_entity_fini does once it has started
FiniSteps(e) == EntityFiniWait(e) \/ RqRemoveEntity(e)

ProcessJob(j) == ProcessDec(j) \/ ProcessSignal(j) \/ ProcessWake(j)

FinishWork(j) == JobFinish(j) \/ JobFinishCancel(j) \/ JobFinishNext(j)

Next ==
    \/ SchedMain
    \/ \E j \in Jobs : \/ JobInit(j) \/ PushJob(j) \/ HwSignal(j) \/ ProcessJob(j)
                       \/ FinishWork(j) \/ TdrExpire(j) \/ JobTimedout(j)
    \/ \E e \in Entities : EntityFini(e) \/ FiniSteps(e) \/ EntityWakeup(e)
    \/ \E f \in ExtFences : ExtSignal(f)
    \/ KthreadPark \/ KthreadUnpark \/ SchedFini

Spec == Init /\ [][Next]_vars

\* what goes on once it has begun: the steps of submitters, of callbacks and work
\* items, of the ring, of foreign fences, of destroyers and of the unparking thread
Started ==
    \/ \E j \in Jobs : \/ PushJob(j) \/ HwSignal(j) \/ ProcessJob(j) \/ FinishWork(j)
                       \/ JobTimedout(j)
    \/ \E e \in Entities : FiniSteps(e) \/ EntityWakeup(e)
    \/ \E f \in ExtFences : ExtSignal(f)
    \/ KthreadUnpark

\* The main thread runs on, and so does what has begun; the steps of the latter are
\* finitely many, so that none of it is left out for ever. Nothing obliges a client
\* to submit or to destroy, or a timer to expire.
Fairness == WF_vars(SchedMain) /\ WF_vars(Started)

FairSpec == Spec /\ Fairness
-----------------------------------------------------------------------------
(* Invariants *)

EntityTypeOK ==
    /\ queue \in [Entities -> Seq(Jobs)]
    /\ dependency \in [Entities -> Fences \cup {NULL}]
    /\ cb \in [Entities -> Fences \cup {NULL}]
    /\ estate \in [Entities -> EntityStates]
    /\ waking \subseteq Entities
    /\ rq \in [Priorities -> Seq(Entities)]
    /\ current \in [Priorities -> Entities \cup {NULL}]

MainTypeOK ==
    /\ pc \in MainStates
    /\ rqi \in Priorities
    /\ ent \in Entities \cup {NULL}
    /\ job \in Jobs \cup {NULL}
    /\ hw_rq_count \in Int
    /\ parks \in Nat

FlagTypeOK == woken \in BOOLEAN /\ park \in BOOLEAN /\ stop \in BOOLEAN

JobTypeOK ==
    /\ push \in [Jobs -> PushStates]
    /\ sync \in [Jobs -> SUBSET Fences]
    /\ sleepers \subseteq Jobs \cup Entities
    /\ scheduled \subseteq Jobs /\ finished \subseteq Jobs
    /\ extSignaled \subseteq ExtFences
    /\ hw \in [Jobs -> HwStates] /\ ring \in Seq(Jobs) /\ pcb \subseteq Jobs
    /\ processing \in [Jobs -> ProcStates]
    /\ finish \in [Jobs -> FinishStates]
    /\ mirror \in Seq(Jobs)
    /\ tdr \subseteq Jobs /\ tdrRun \subseteq Jobs /\ fired \subseteq Jobs

\* The program's data structures keep their types: no null entity or job where
\* the code dereferences one, no run queue index past AMD_SCHED_MAX_PRIORITY.
TypeOK == EntityTypeOK /\ MainTypeOK /\ FlagTypeOK /\ JobTypeOK

\* Jobs that hold a unit of hw_rq_count: the one amd_sched_main is running, those
\* that wait for their hardware fence, those whose callback has not decremented yet
Occupied == {j \in Jobs : \/ j = job /\ pc \in {"begin", "run", "scheduled", "install"}
                          \/ j \in pcb
                          \/ processing[j] = "dec"}

\* hw_rq_count, which the main thread and the fence callbacks change without a
\* lock, is always the number of jobs that hold a unit, and never exceeds the limit
\* that amd_sched_ready tests before the increment.
HwCountExact ==
    /\ hw_rq_count = Cardinality(Occupied)
    /\ hw_rq_count <= HwSubmissionLimit

\* The entity amd_sched_main works on, outside every lock, cannot be destroyed
\* before kfifo_out: its queue keeps the job amd_sched_entity_fini waits for.
EntityInUse ==
    pc \in {"pop", "adddep", "inc", "begin", "run", "scheduled", "install",
            "process", "out"}
      => /\ queue[ent] # <<>>
         /\ estate[ent] \in {"live", "fini"}
         /\ pc \notin {"pop", "adddep"} => job = Head(queue[ent])

\* Run queues, though amd_sched_rq_add_entity tests membership without the lock:
\* no entity is listed twice, no destroyed one is listed, a rotation point is
\* listed, and an entity with jobs is listed or its first pusher is about to add it.
RunQueueSound ==
    /\ \A p \in Priorities :
          /\ \A i, k \in DOMAIN rq[p] : rq[p][i] = rq[p][k] => i = k
          /\ current[p] # NULL => current[p] \in Elems(rq[p])
    /\ \A e \in Entities :
          /\ estate[e] = "dead" => ~Listed(e)
          /\ queue[e] # <<>> =>
                Listed(e) \/ \E j \in Jobs : EntityOf[j] = e /\ push[j] \in {"first", "add"}

\* amd_sched_main never sleeps while the ring has room and an entity is ready,
\* unless the wake-up for it is still to come: amd_sched_wakeup skips the wake-up
\* when the ring is full and amd_sched_entity_clear_dep never wakes, and neither
\* may lose the only one.
NoLostWakeup ==
    \A e \in Entities :
        pc = "sleep" /\ ~woken /\ SchedReady /\ IsReady(e)
          => \/ \E j \in Jobs : EntityOf[j] = e /\ push[j] \in {"first", "add", "wake"}
             \/ e \in waking
             \/ \E j \in Jobs : processing[j] \in {"signal", "wake"}

\* After ops->free_job nothing uses the job: it is on no list, no timer or handler
\* of it is pending (amd_sched_job_finish leaves the mirror list before it cancels,
\* so that no other job's finish can arm the timer again), and amd_sched_main, which
\* may still have it at the head of the queue, is past its last use.
FreedJobUnused ==
    \A j \in Jobs : finish[j] = "freed" =>
        /\ j \notin Elems(mirror) \cup tdr \cup tdrRun \cup pcb
        /\ processing[j] \notin {"dec", "signal"}
        /\ job = j => pc \in {"process", "out", "wakeup"}
        /\ \A e \in Entities : \A i \in DOMAIN queue[e] :
              queue[e][i] = j => i = 1 /\ ent = e /\ pc \in {"process", "out"}

\* With a timeout configured the oldest job of the mirror list is always watched:
\* its timer is pending or has expired, or a finishing job is about to arm it.
OldestJobWatched ==
    Timeout /\ mirror # <<>> =>
        \/ Head(mirror) \in tdr \cup fired
        \/ \E j \in Jobs : finish[j] \in {"cancel", "next"}

(* Liveness *)

\* Whatever waits on whatever (bounded queues, ring limit, dependencies, parking),
\* every submitted job is run, its fences signaled and the job freed in the end, and
\* amd_sched_entity_fini, which waits for what is queued, returns.
SubmittedJobsFinish ==
    <>[](/\ \A j \in Jobs : push[j] = "new" \/ finish[j] = "freed"
         /\ \A e \in Entities : estate[e] # "fini")
-----------------------------------------------------------------------------
(* Refinement *)

\* the job amd_sched_main has handed to the hardware but not yet taken out
Leaving(e) == ent = e /\ pc \in {"scheduled", "install", "process", "out"}

Submitted == {j \in Jobs : push[j] \notin {"new", "init"}}
Pending   == [e \in Entities |-> IF Leaving(e) THEN Tail(queue[e]) ELSE queue[e]]
Failed    == {j \in Jobs : hw[j] = "failed"}
Busy      == {j \in Occupied : hw[j] # "none"}

Service == INSTANCE JobService WITH
    submitted <- Submitted, pending <- Pending, failed <- Failed, busy <- Busy

\* The threads, callbacks and work items together do what JobService says: a job
\* starts when run_job returns, leaves the ring with the decrement of
\* hw_rq_count and finishes when its finished fence is signaled.
ImplementsJobService == Service!Spec

=============================================================================
