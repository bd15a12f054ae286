-------------------------------- MODULE VmIds --------------------------------
(***************************************************************************)
(* The VM ids of amdgpu_vm.c.  Jobs of several VMs on several rings share  *)
(* a few hardware ids.  The scheduler thread of a ring grabs an id for a   *)
(* job (amdgpu_vm_grab_id), and emits a flush before the job when the id   *)
(* may hold another address space or an older one (amdgpu_vm_flush).  The  *)
(* GPU executes the commands of a ring in order and the rings side by      *)
(* side; a GPU reset drops them, forgets the translations, and runs the    *)
(* jobs again.                                                             *)
(***************************************************************************)
EXTENDS Integers, Sequences, FiniteSets, SequencesExt

CONSTANTS
    VMs,
    NumRings, NumIds,
    Entities,          \* the rings each VM submits jobs to, as pairs
    Changing,          \* the VMs whose page tables are moved or updated
    MaxJobs, MaxChanges, MaxResets,  \* bounds
    Failing,           \* the numbers of the jobs that may meet a lack of memory
    FlushMayBeUndone   \* amdgpu_fence_emit may fail after the flush has been emitted

ASSUME VmAssumption ==
    /\ NumRings \in Nat \ {0} /\ NumIds \in Nat \ {0}
    /\ Entities \subseteq VMs \X (1..NumRings) /\ Changing \subseteq VMs
    /\ {MaxJobs, MaxChanges, MaxResets} \subseteq Nat
    /\ Failing \subseteq Nat
    /\ FlushMayBeUndone \in BOOLEAN

Rings == 1..NumRings
Ids   == 1..NumIds
None  == 0

VARIABLES
    pt,        \* per VM: the address of its page directory, the number of updates of its
               \* page tables, and how many of them surely are done
    jobs,      \* the jobs, in the order of their submission
    thread,    \* per ring: the job the scheduler thread has in its hands
    id,        \* struct amdgpu_vm_id
    lru,       \* vm_manager.ids_lru
    vm_ids,    \* vm->ids
    counter,   \* gpu_reset_counter
    reset,     \* how far amdgpu_gpu_reset is, and its ring
    redo,      \* per ring: the jobs the recovery has to run again
    hw,        \* per ring: its commands, a job with or without a flush before it
    running,   \* per ring: the GPU executes the first command
    tlb,       \* per id: the address space its translations belong to
    late       \* history, which no step looks at: the ids that noted the counter of a reset
               \* before the ASIC was reset, and have not been flushed since

vars == <<pt, jobs, thread, id, lru, vm_ids, counter, reset, redo, hw, running, tlb, late>>

JobIds == 1..Len(jobs)

NoFlush == [ring |-> None, job |-> None, signaled |-> FALSE]
NoTlb   == [vm |-> None, pd |-> 0, updates |-> 0]
NoReset == [at |-> "no", ring |-> None]

Init ==
    /\ pt = [v \in VMs |-> [pd |-> 0, updates |-> 0, done |-> 0]]
    /\ jobs = <<>>
    /\ thread = [r \in Rings |-> None]
    /\ id = [i \in Ids |-> [owner |-> None, pd |-> 0, flushed_updates |-> 0,
                            last_flush |-> NoFlush, reset_count |-> 0, active |-> {}]]
    /\ lru = [i \in Ids |-> i]
    /\ vm_ids = [v \in VMs |-> [r \in Rings |-> None]]
    /\ counter = 0 /\ reset = NoReset
    /\ redo = [r \in Rings |-> <<>>]
    /\ hw = [r \in Rings |-> <<>>]
    /\ running = [r \in Rings |-> FALSE]
    /\ tlb = [i \in Ids |-> NoTlb]
    /\ late = {}

-----------------------------------------------------------------------------
(* The page tables of a VM, and the submission of jobs *)

\* amdgpu_cs_ib_fill and amdgpu_cs_ib_vm_chunk: the submission may have moved the page
\* directory, for which TTM waits for the jobs of the VM, and may have updated the page
\* tables; the job notes the address and the update, and depends on the latter
Submit(v, r, moved, updated) ==
    LET new == [pt[v] EXCEPT !.pd = IF moved THEN @ + 1 ELSE @,
                             !.updates = IF updated THEN @ + 1 ELSE @]
    IN  /\ Len(jobs) < MaxJobs
        /\ moved \/ updated => v \in Changing
        /\ moved => \A j \in JobIds : jobs[j].vm = v => jobs[j].at = "done"
        /\ new.pd + new.updates <= MaxChanges
        /\ pt' = [pt EXCEPT ![v] = new]
        /\ jobs' = Append(jobs, [vm |-> v, ring |-> r, pd |-> new.pd,
                                 updates |-> new.updates, at |-> "queued",
                                 vm_id |-> None, needs_flush |-> FALSE, wait |-> {}])
        /\ UNCHANGED <<thread, id, lru, vm_ids, counter, reset, redo, hw, running, tlb,
                       late>>

-----------------------------------------------------------------------------
(* amdgpu_sync.c: a sync object keeps the latest fence of each fence context, here a job
   of each entity; the entity of a job is its VM on its ring *)

SameEntity(j, k) == jobs[j].vm = jobs[k].vm /\ jobs[j].ring = jobs[k].ring

amdgpu_sync_fence(sync, j) ==
    IF \E k \in sync : SameEntity(j, k) /\ k > j
    THEN sync
    ELSE {k \in sync : ~SameEntity(j, k)} \cup {j}

\* the fences of a job: scheduled, when the scheduler takes it, and finished
Scheduled(j) == jobs[j].at \in {"hw", "done"}
Finished(j)  == jobs[j].at = "done"

Signaled(f) == IF f.fence = "scheduled" THEN Scheduled(f.job) ELSE Finished(f.job)

\* the fences amdgpu_sync_peek_fence may return, one of them; for a job of the same ring
\* it is sufficient that it is scheduled
amdgpu_sync_peek_fence(sync, r) ==
    {[fence |-> "scheduled", job |-> j] :
        j \in {k \in sync : jobs[k].ring = r /\ ~Scheduled(k)}}
    \cup
    {[fence |-> "finished", job |-> j] :
        j \in {k \in sync : jobs[k].ring # r /\ ~Finished(k)}}

-----------------------------------------------------------------------------
(* amdgpu_vm_grab_id *)

amdgpu_vm_is_gpu_reset(i) == id[i].reset_count # counter

\* mutant: the flush of another ring need not have been executed
FlushKnown(i, r) == id[i].last_flush # NoFlush

\* the last flush of the id comes before the job: it is on the same ring, or done
FlushedBefore(i, r) ==
    /\ id[i].last_flush # NoFlush
    /\ id[i].last_flush.ring = r \/ id[i].last_flush.signaled

\* the id has been flushed for this page directory and no earlier update of it
UpToDate(i, j) ==
    /\ id[i].pd = jobs[j].pd
    /\ jobs[j].updates <= id[i].flushed_updates

\* the job can use the id without a flush
Usable(i, j) ==
    /\ i # None
    /\ ~amdgpu_vm_is_gpu_reset(i)
    /\ id[i].owner = jobs[j].vm
    /\ FlushedBefore(i, jobs[j].ring)
    /\ UpToDate(i, j)

\* the ids of the VM, in the order in which the rings are looked at
VmIdsFrom(v, r) == [k \in Rings |-> vm_ids[v][((r + k - 2) % NumRings) + 1]]

Tail_lru(i) == Append(Remove(lru, i), i)

Reuse(j, i) ==
    /\ id' = [id EXCEPT ![i].active = amdgpu_sync_fence(@, j), ![i].reset_count = counter]
    /\ jobs' = [jobs EXCEPT ![j].vm_id = i, ![j].needs_flush = FALSE, ![j].wait = {}]
    /\ lru' = Tail_lru(i)
    /\ vm_ids' = [vm_ids EXCEPT ![jobs[j].vm][jobs[j].ring] = i]

Take(j, i) ==
    /\ id' = [id EXCEPT ![i] =
                 [owner |-> jobs[j].vm, pd |-> jobs[j].pd,
                  flushed_updates |-> jobs[j].updates, last_flush |-> NoFlush,
                  reset_count |-> counter, active |-> amdgpu_sync_fence(@.active, j)]]
    /\ jobs' = [jobs EXCEPT ![j].vm_id = i, ![j].needs_flush = TRUE, ![j].wait = {}]
    /\ lru' = Tail_lru(i)
    /\ vm_ids' = [vm_ids EXCEPT ![jobs[j].vm][jobs[j].ring] = i]

Idle(r)  == {k \in Ids : amdgpu_sync_peek_fence(id[lru[k]].active, r) = {}}
First(S) == CHOOSE k \in S : \A l \in S : k <= l

\* a fence of every id; the job waits for any of them
WaitForAny(j) ==
    \E f \in [Ids -> UNION {amdgpu_sync_peek_fence(id[i].active, jobs[j].ring) : i \in Ids}] :
        /\ \A i \in Ids : f[i] \in amdgpu_sync_peek_fence(id[i].active, jobs[j].ring)
        /\ jobs' = [jobs EXCEPT ![j].wait = Range(f)]
        /\ UNCHANGED <<id, lru, vm_ids>>

amdgpu_vm_grab_id(j) ==
    LET r == jobs[j].ring
        idle == Idle(r)
        known == VmIdsFrom(jobs[j].vm, r)
        usable == {k \in Rings : Usable(known[k], j)}
    IN  \/ idle = {} /\ WaitForAny(j)
        \/ idle # {} /\ usable # {} /\ Reuse(j, known[First(usable)])
        \/ idle # {} /\ usable = {} /\ Take(j, lru[First(idle)])

-----------------------------------------------------------------------------
(* The scheduler thread of a ring *)

Parked(r) == \/ reset.at = "park" /\ r < reset.ring
             \/ reset.at = "down"
             \/ reset.at = "recover" /\ r >= reset.ring

\* mutant: the scheduler is not woken by the fence array
NeverReady(j) == jobs[j].wait = {}

\* the fence array of the job has signaled
WaitOver(j) == jobs[j].wait = {} \/ \E f \in jobs[j].wait : Signaled(f)

\* amdgpu_job_dependency for the first job of an entity, called again when its fence array
\* has signaled; a job that has got its id is run by the thread next
Dependency(j) ==
    LET r == jobs[j].ring
    IN  /\ thread[r] = None /\ ~Parked(r)
        /\ jobs[j].at = "queued" /\ WaitOver(j)
        /\ \A k \in 1..(j - 1) : SameEntity(j, k) => jobs[k].at # "queued"
        /\ amdgpu_vm_grab_id(j)
        /\ thread' = [thread EXCEPT ![r] = IF jobs'[j].wait = {} THEN j ELSE None]
        /\ UNCHANGED <<pt, counter, reset, redo, hw, running, tlb, late>>

\* an allocation fails in amdgpu_vm_grab_id: the job is run without an id, and dropped by
\* amdgpu_ib_schedule
DependencyFails(j) ==
    /\ j \in Failing
    /\ thread[jobs[j].ring] = None /\ ~Parked(jobs[j].ring)
    /\ jobs[j].at = "queued" /\ WaitOver(j)
    /\ \A k \in 1..(j - 1) : SameEntity(j, k) => jobs[k].at # "queued"
    /\ jobs' = [jobs EXCEPT ![j].at = "done", ![j].wait = {}]
    /\ UNCHANGED <<pt, thread, id, lru, vm_ids, counter, reset, redo, hw, running, tlb, late>>

MustFlush(j) == jobs[j].needs_flush \/ amdgpu_vm_is_gpu_reset(jobs[j].vm_id)

LastFlush(j) == [ring |-> jobs[j].ring, job |-> j, signaled |-> FALSE]

\* amdgpu_job_run: amdgpu_vm_flush notes the fence of its flush, and amdgpu_ib_schedule
\* emits the commands of the job
Emit(j) ==
    /\ hw' = [hw EXCEPT ![jobs[j].ring] = Append(@, [job |-> j, flush |-> MustFlush(j)])]
    /\ id' = IF MustFlush(j) THEN [id EXCEPT ![jobs[j].vm_id].last_flush = LastFlush(j)] ELSE id
    /\ jobs' = [jobs EXCEPT ![j].at = "hw"]

\* a fence cannot be emitted: the ring is rolled back and the scheduler takes the job as
\* done; when it is the job's own fence, that of the undone flush has been noted before
EmitFails(j) ==
    /\ j \in Failing
    /\ \E undone \in {FlushMayBeUndone, FALSE} :
           id' = IF undone /\ MustFlush(j)
                 THEN [id EXCEPT ![jobs[j].vm_id].last_flush = LastFlush(j)]
                 ELSE id
    /\ jobs' = [jobs EXCEPT ![j].at = "done"]
    /\ UNCHANGED hw

\* amd_sched_main: the scheduled fence is signaled, and the job is run
Run(r) ==
    /\ thread[r] # None
    /\ Emit(thread[r]) \/ EmitFails(thread[r])
    /\ thread' = [thread EXCEPT ![r] = None]
    /\ UNCHANGED <<pt, lru, vm_ids, counter, reset, redo, running, tlb, late>>

-----------------------------------------------------------------------------
(* The GPU *)

\* the first command of a ring; the flush before it loads the page directory and drops the
\* cached translations; of the updates, those some job has waited for surely are done
HwStart(r) ==
    LET c == hw[r][1]
        j == jobs[c.job]
        done == IF j.updates > pt[j.vm].done THEN j.updates ELSE pt[j.vm].done
    IN  /\ hw[r] # <<>> /\ ~running[r]
        /\ pt' = [pt EXCEPT ![j.vm].done = done]
        /\ tlb' = IF c.flush
                  THEN [tlb EXCEPT ![j.vm_id] =
                            [vm |-> j.vm, pd |-> j.pd, updates |-> done]]
                  ELSE tlb
        /\ late' = IF c.flush THEN late \ {j.vm_id} ELSE late
        /\ running' = [running EXCEPT ![r] = TRUE]
        /\ UNCHANGED <<jobs, thread, id, lru, vm_ids, counter, reset, redo, hw>>

\* the fences of the command are signaled; one the recovery will run again stays unfinished
HwFinish(r) ==
    LET j == hw[r][1].job
    IN  /\ hw[r] # <<>> /\ running[r]
        /\ jobs' = IF Contains(redo[r], j) THEN jobs ELSE [jobs EXCEPT ![j].at = "done"]
        /\ id' = [i \in Ids |->
                    IF id[i].last_flush.job # None /\ id[i].last_flush.ring = r
                       /\ id[i].last_flush.job = j
                    THEN [id[i] EXCEPT !.last_flush.signaled = TRUE] ELSE id[i]]
        /\ hw' = [hw EXCEPT ![r] = Tail(@)]
        /\ running' = [running EXCEPT ![r] = FALSE]
        /\ UNCHANGED <<pt, thread, lru, vm_ids, counter, reset, redo, tlb, late>>

-----------------------------------------------------------------------------
(* amdgpu_gpu_reset *)

ResetBegin ==
    /\ reset = NoReset /\ counter < MaxResets
    /\ counter' = counter + 1
    /\ reset' = [at |-> "park", ring |-> 1]
    /\ UNCHANGED <<pt, jobs, thread, id, lru, vm_ids, redo, hw, running, tlb, late>>

\* kthread_park waits until the thread has no job; amd_sched_hw_job_reset takes the jobs of
\* the ring off their fences
Park ==
    LET r == reset.ring
    IN  /\ reset.at = "park" /\ thread[r] = None
        /\ redo' = [redo EXCEPT ![r] = [k \in 1..Len(hw[r]) |-> hw[r][k].job]]
        /\ reset' = IF r = NumRings THEN [at |-> "down", ring |-> None]
                    ELSE [reset EXCEPT !.ring = r + 1]
        /\ UNCHANGED <<pt, jobs, thread, id, lru, vm_ids, counter, hw, running, tlb, late>>

\* amdgpu_fence_driver_force_completion signals every fence; the ASIC forgets the rest
HwReset ==
    /\ reset.at = "down"
    /\ reset' = [at |-> "recover", ring |-> 1]
    /\ id' = [i \in Ids |-> IF id[i].last_flush = NoFlush THEN id[i]
                            ELSE [id[i] EXCEPT !.last_flush.signaled = TRUE]]
    /\ hw' = [r \in Rings |-> <<>>]
    /\ running' = [r \in Rings |-> FALSE]
    /\ tlb' = [i \in Ids |-> NoTlb]
    /\ late' = {i \in Ids : ~amdgpu_vm_is_gpu_reset(i)}
    /\ UNCHANGED <<pt, jobs, thread, lru, vm_ids, counter, redo>>

\* amd_sched_job_recovery runs the jobs of the ring again
RecoverJob ==
    LET r == reset.ring
    IN  /\ reset.at = "recover" /\ redo[r] # <<>>
        /\ Emit(Head(redo[r])) \/ EmitFails(Head(redo[r]))
        /\ redo' = [redo EXCEPT ![r] = Tail(@)]
        /\ UNCHANGED <<pt, thread, lru, vm_ids, counter, reset, running, tlb, late>>

Unpark ==
    LET r == reset.ring
    IN  /\ reset.at = "recover" /\ redo[r] = <<>>
        /\ reset' = IF r = NumRings THEN NoReset ELSE [reset EXCEPT !.ring = r + 1]
        /\ UNCHANGED <<pt, jobs, thread, id, lru, vm_ids, counter, redo, hw, running, tlb,
                       late>>

-----------------------------------------------------------------------------
Client == \E e \in Entities, moved, updated \in BOOLEAN : Submit(e[1], e[2], moved, updated)
Work   == \/ \E j \in JobIds : Dependency(j)
          \/ \E r \in Rings : Run(r) \/ HwStart(r) \/ HwFinish(r)
          \/ Park \/ HwReset \/ RecoverJob \/ Unpark
Next   == Client \/ Work \/ ResetBegin \/ \E j \in JobIds : DependencyFails(j)

Spec     == Init /\ [][Next]_vars
FairSpec == Spec /\ WF_vars(Work)

-----------------------------------------------------------------------------
(* Properties *)

\* A job the GPU executes uses the translations of its own VM, of the page directory it was
\* submitted with, and not from before the updates it depends on: the id it was given has
\* not been taken away, and no flush was left out that it needed.  The one exception is an id
\* grabbed after amdgpu_gpu_reset raised gpu_reset_counter and before it parked the scheduler
\* thread: it counts as flushed since the reset, until a job of it is flushed again.
TlbFresh ==
    \A r \in Rings : running[r] =>
        LET j == jobs[hw[r][1].job]
        IN  j.vm_id \notin late =>
            /\ tlb[j.vm_id].vm = j.vm
            /\ tlb[j.vm_id].pd = j.pd
            /\ tlb[j.vm_id].updates >= j.updates

\* No job is kept waiting for an id for ever, whatever ids the others hold and while the GPU
\* is reset: when the submissions end, every job gets done.
JobsGetIds == <>[](\A j \in JobIds : Finished(j))
=============================================================================
