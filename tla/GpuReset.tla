------------------------------- MODULE GpuReset -------------------------------
(***************************************************************************)
(* The reset of a hung GPU (amdgpu_gpu_reset) and the recovery of the jobs *)
(* of one ring (amd_sched_hw_job_reset, amd_sched_job_recovery), with the  *)
(* parts of the scheduler that run at the same time: the main thread, the  *)
(* callbacks of the hardware fences, the work that finishes a job and the  *)
(* timers that detect a timeout.  GpuScheduler models those in full; here  *)
(* the entities are one queue of jobs, in the order of their numbers.      *)
(***************************************************************************)
EXTENDS Integers, Sequences, FiniteSets

CONSTANTS
    NumJobs,            \* jobs submitted to the ring
    HwSubmissionLimit,  \* sched->hw_submission_limit
    ResetThreads,       \* "tdr", a timeout work, and "other", a caller of amdgpu_gpu_reset
                        \* that met -EDEADLK or an illegal command: bound, one of each
    MaxHangs,           \* bound on the hangs of the GPU
    MaxRuns,            \* bound on the hardware fences
    ResumeMayFail       \* amdgpu_asic_reset or amdgpu_resume may fail

ASSUME ResetBounds ==
    /\ NumJobs \in Nat /\ HwSubmissionLimit \in Nat \ {0}
    /\ MaxHangs \in Nat /\ MaxRuns \in Nat
    /\ ResetThreads \subseteq {"tdr", "other"} /\ ResumeMayFail \in BOOLEAN

Jobs  == 1..NumJobs
None  == 0            \* no job, no fence
HwFences == 1..MaxRuns

VARIABLES
    hw_rq_count,
    mirror,       \* sched->ring_mirror_list
    parent,       \* s_fence->parent of each job
    cb,           \* the hardware fence s_fence->cb is on
    main, cur,    \* where amd_sched_main is, and its job
    fresh,        \* the hardware fence its run_job has returned
    next,         \* the next job of the queue
    runs,         \* hardware fences emitted so far
    ring,         \* what the GPU has still to run: pairs of a job and its fence
    hwSignaled,   \* the hardware fences that are signaled
    finished,     \* the jobs whose finished fence is signaled
    finish,       \* the finish work of each job
    tdr,          \* the timeout work of each job
    gpu, hangs,   \* "run", "hung", or "dead" after a reset that failed
    park,         \* KTHREAD_SHOULD_PARK of the main thread
    reset,        \* per thread in amdgpu_gpu_reset: where, for which job's timeout, and
                  \* the variables of amd_sched_job_recovery
    \* history, which no step looks at:
    overlap,      \* two threads have been past amdgpu_check_soft_reset at once
    unfinished,   \* amd_sched_hw_job_reset has met a listed job whose fence had signaled
    early         \* the jobs whose timeout found no hang, and left the job without a timer

mainVars  == <<main, cur, fresh, next>>
hwVars    == <<runs, ring, hwSignaled>>
jobVars   == <<finished, finish, tdr>>
gpuVars   == <<gpu, hangs>>
history   == <<overlap, unfinished, early>>
vars == <<hw_rq_count, mirror, parent, cb, mainVars, hwVars, jobVars, gpuVars, park,
          reset, history>>

NoReset == [at |-> "no", tdrJob |-> None, job |-> None, tmp |-> None,
            fence |-> None]

Init ==
    /\ hw_rq_count = 0 /\ mirror = <<>>
    /\ parent = [j \in Jobs |-> None] /\ cb = [j \in Jobs |-> None]
    /\ main = "top" /\ cur = None /\ fresh = None /\ next = 1
    /\ runs = 0 /\ ring = <<>> /\ hwSignaled = {}
    /\ finished = {}
    /\ finish = [j \in Jobs |-> "no"]
    /\ tdr = [j \in Jobs |-> "off"]
    /\ gpu = "run" /\ hangs = 0
    /\ park = FALSE
    /\ reset = [t \in ResetThreads |-> NoReset]
    /\ overlap = FALSE /\ unfinished = FALSE /\ early = {}

\* list_del_init: s without j, if it is listed
Without(s, j) ==
    LET at == CHOOSE i \in DOMAIN s : s[i] = j
    IN  IF \E i \in DOMAIN s : s[i] = j
        THEN [i \in 1..(Len(s) - 1) |-> IF i < at THEN s[i] ELSE s[i + 1]]
        ELSE s

InMirror(j) == \E i \in DOMAIN mirror : mirror[i] = j

\* the successor of a job in the mirror list, if it has one; list_del_init has made a
\* deleted job its own successor
After(j) ==
    LET later == {i \in DOMAIN mirror : i > 1 /\ mirror[i - 1] = j}
    IN  CASE ~InMirror(j) -> j
          [] InMirror(j) /\ later = {} -> None
          [] OTHER -> mirror[CHOOSE i \in later : TRUE]

First == IF mirror = <<>> THEN None ELSE Head(mirror)

\* job_list_lock, which a thread that dies in amd_sched_hw_job_reset keeps
ListFree == \A t \in ResetThreads : reset[t].at # "oops"

\* schedule_delayed_work does nothing to a pending work; a running one is pending again
Armed(j) == CASE tdr[j] = "running" -> "rearmed"
              [] tdr[j] = "off" -> "armed"
              [] OTHER -> tdr[j]

Arm(j) == tdr' = IF j = None THEN tdr ELSE [tdr EXCEPT ![j] = Armed(j)]

\* amd_sched_process_job for a set of at most one job: the count, the finished fence
\* and, through its callback, the finish work
ProcessJobs(S) ==
    /\ finished' = finished \cup S
    /\ finish' = [j \in Jobs |-> IF j \in S /\ j \notin finished THEN "queued" ELSE finish[j]]

\* amdgpu_job_run puts the job on the ring and returns a new hardware fence, or none
\* when the ring is not ready
RunOnRing(j) ==
    IF gpu = "dead" THEN UNCHANGED <<runs, ring>>
    ELSE /\ runs < MaxRuns
         /\ runs' = runs + 1
         /\ ring' = Append(ring, <<j, runs + 1>>)

RunFence == IF gpu = "dead" THEN None ELSE runs + 1

-----------------------------------------------------------------------------
(* amd_sched_main *)

\* amd_sched_ready
Ready == hw_rq_count < HwSubmissionLimit

\* the scheduler is ready, and there is a job in the queue: it is counted and put on the mirror list
MainBegin ==
    /\ main = "top" /\ ~park
    /\ Ready /\ ListFree
    /\ next <= NumJobs
    /\ hw_rq_count' = hw_rq_count + 1
    /\ mirror' = Append(mirror, next)
    /\ Arm(IF mirror = <<>> THEN next ELSE None)
    /\ main' = "run" /\ cur' = next /\ next' = next + 1
    /\ UNCHANGED <<parent, cb, fresh, hwVars, finished, finish, gpuVars, park, reset, history>>

MainRun ==
    /\ main = "run"
    /\ RunOnRing(cur)
    /\ fresh' = RunFence
    /\ main' = "install"
    /\ UNCHANGED <<hw_rq_count, mirror, parent, cb, cur, next, hwSignaled, jobVars,
                   gpuVars, park, reset, history>>

\* s_fence->parent = fence_get(fence)
SetParent(j, f) == parent' = IF f = None THEN parent ELSE [parent EXCEPT ![j] = f]

\* fence_add_callback, or amd_sched_process_job at once for a signaled fence or none
Install(j, f) ==
    /\ SetParent(j, f)
    /\ \/ /\ f \notin hwSignaled \cup {None}
          /\ cb' = [cb EXCEPT ![j] = f]
          /\ UNCHANGED <<hw_rq_count, finished, finish>>
       \/ /\ f \in hwSignaled \cup {None}
          /\ hw_rq_count' = hw_rq_count - 1
          /\ ProcessJobs({j})
          /\ UNCHANGED cb

MainInstall ==
    /\ main = "install"
    /\ Install(cur, fresh)
    /\ main' = "top" /\ cur' = None /\ fresh' = None
    /\ UNCHANGED <<mirror, next, hwVars, tdr, gpuVars, park, reset, history>>

\* amd_sched_blocked
MainPark ==
    /\ main = "top" /\ park
    /\ main' = "parked"
    /\ UNCHANGED <<hw_rq_count, mirror, parent, cb, cur, fresh, next, hwVars, jobVars,
                   gpuVars, park, reset, history>>

MainUnpark ==
    /\ main = "parked" /\ ~park
    /\ main' = "top"
    /\ UNCHANGED <<hw_rq_count, mirror, parent, cb, cur, fresh, next, hwVars, jobVars,
                   gpuVars, park, reset, history>>

-----------------------------------------------------------------------------
(* The GPU, the callbacks of its fences, and the works of a job *)

\* the GPU has run a job: its fence signals, and the callback on it runs under the lock
\* of the fence, the one fence_remove_callback takes
GpuPass ==
    LET f == Head(ring)[2]
        S == {j \in Jobs : cb[j] = f}
    IN
    /\ gpu = "run" /\ ring # <<>>
    /\ ring' = Tail(ring)
    /\ hwSignaled' = hwSignaled \cup {f}
    /\ hw_rq_count' = hw_rq_count - Cardinality(S)
    /\ cb' = [j \in Jobs |-> IF j \in S THEN None ELSE cb[j]]
    /\ ProcessJobs(S)
    /\ UNCHANGED <<mirror, parent, mainVars, runs, tdr, gpuVars, park, reset, history>>

GpuHang ==
    /\ gpu = "run" /\ ring # <<>> /\ hangs < MaxHangs
    /\ gpu' = "hung" /\ hangs' = hangs + 1
    /\ UNCHANGED <<hw_rq_count, mirror, parent, cb, mainVars, hwVars, jobVars, park,
                   reset, history>>

\* amd_sched_job_finish takes the job off the mirror list
FinishDel(j) ==
    /\ finish[j] = "queued" /\ ListFree
    /\ mirror' = Without(mirror, j)
    /\ finish' = [finish EXCEPT ![j] = "cancel"]
    /\ UNCHANGED <<hw_rq_count, parent, cb, mainVars, hwVars, finished, tdr, gpuVars,
                   park, reset, history>>

\* mutant: cancel_delayed_work, which does not wait
CancelOnly(j) == TRUE

\* cancel_delayed_work_sync waits for the timeout work of the job when it runs
Cancelled(j) == tdr[j] # "running" /\ tdr[j] # "rearmed"

\* the timer of the job is stopped, that of the first job of the list is started, and
\* the job is freed
FinishFree(j) ==
    /\ finish[j] = "cancel" /\ ListFree
    /\ Cancelled(j)
    /\ tdr' = [k \in Jobs |-> CASE k = j /\ tdr[k] = "armed" -> "off"
                               [] k = First -> Armed(k)
                               [] OTHER -> tdr[k]]
    /\ finish' = [finish EXCEPT ![j] = "freed"]
    /\ UNCHANGED <<hw_rq_count, mirror, parent, cb, mainVars, hwVars, finished, gpuVars,
                   park, reset, history>>

FinishWork(j) == FinishDel(j) \/ FinishFree(j)

\* a thread may enter amdgpu_gpu_reset, whatever the others do
MayReset(t) == t \in ResetThreads /\ reset[t].at = "no"

\* the timer has run out, with or without a hang: amd_sched_job_timedout calls
\* amdgpu_gpu_reset
TdrFire(j) ==
    /\ MayReset("tdr")
    /\ tdr[j] = "armed"
    /\ tdr' = [tdr EXCEPT ![j] = "running"]
    /\ reset' = [reset EXCEPT !["tdr"] = [NoReset EXCEPT !.at = "check", !.tdrJob = j]]
    /\ UNCHANGED <<hw_rq_count, mirror, parent, cb, mainVars, hwVars, finished, finish,
                   gpuVars, park, history>>

-----------------------------------------------------------------------------
(* amdgpu_gpu_reset *)

\* amdgpu_cs_handle_lockup, amdgpu_irq_reset_work_func: with or without a hang
OtherReset ==
    /\ MayReset("other")
    /\ reset' = [reset EXCEPT !["other"].at = "check"]
    /\ UNCHANGED <<hw_rq_count, mirror, parent, cb, mainVars, hwVars, jobVars, gpuVars,
                   park, history>>

At(t, s) == t \in ResetThreads /\ reset[t].at = s
Go(t, s) == reset' = [reset EXCEPT ![t].at = s]

\* the timeout work of a job has returned
TdrDone(t) ==
    tdr' = [j \in Jobs |-> IF j # reset[t].tdrJob THEN tdr[j]
                           ELSE IF tdr[j] = "rearmed" THEN "armed" ELSE "off"]

\* a thread past amdgpu_check_soft_reset
Resetting(t) == reset[t].at \notin {"no", "check"}

\* amdgpu_check_soft_reset: without a hang there is nothing to do, and the timer of the job
\* is not started again
ResetCheck(t) ==
    /\ At(t, "check")
    /\ \/ /\ gpu # "run"
          /\ Go(t, "park") /\ UNCHANGED <<tdr, early>>
          /\ overlap' = (overlap \/ \E u \in ResetThreads : Resetting(u))
       \/ /\ gpu = "run"
          /\ reset' = [reset EXCEPT ![t] = NoReset]
          /\ TdrDone(t)
          /\ early' = early \cup {j \in Jobs : j = reset[t].tdrJob /\ tdr[j] = "running"}
          /\ UNCHANGED overlap
    /\ UNCHANGED <<hw_rq_count, mirror, parent, cb, mainVars, hwVars, finished, finish,
                   gpuVars, park, unfinished>>

\* kcl_kthread_park asks the main thread to park ...
ResetPark(t) ==
    /\ At(t, "park")
    /\ park' = TRUE
    /\ Go(t, "parking")
    /\ UNCHANGED <<hw_rq_count, mirror, parent, cb, mainVars, hwVars, jobVars, gpuVars,
                   history>>

\* mutant: the count is left alone
KeepCount == UNCHANGED hw_rq_count

\* atomic_set(&sched->hw_rq_count, 0)
ResetCount == hw_rq_count' = 0

\* mutant: the reset does not wait
NoWait == TRUE

\* kthread_park returns when the thread is parked
Parked == main = "parked"

\* the places of the mirror list whose job has no hardware fence
Fenceless == {i \in DOMAIN mirror : parent[mirror[i]] = None}

\* ... and waits for it; then amd_sched_hw_job_reset takes the callbacks off the
\* hardware fences that have not called them, and forgets those fences
HwJobReset(t) ==
    LET S == {mirror[i] : i \in DOMAIN mirror}
        removed == {j \in S : cb[j] # None}
    IN
    /\ At(t, "parking") /\ Parked /\ ListFree
    /\ Fenceless = {}
    /\ cb' = [j \in Jobs |-> IF j \in removed THEN None ELSE cb[j]]
    /\ parent' = [j \in Jobs |-> IF j \in removed THEN None ELSE parent[j]]
    /\ ResetCount
    /\ unfinished' = (unfinished \/ \E j \in S : j \in finished)
    /\ Go(t, "asic")
    /\ UNCHANGED <<mirror, mainVars, hwVars, jobVars, gpuVars, park, overlap, early>>

\* fence_remove_callback is called for a fence that is gone, after the jobs behind that job
\* have lost theirs: the thread dies with the list lock
HwJobOops(t) ==
    LET behind == {mirror[i] : i \in {k \in DOMAIN mirror : \A b \in Fenceless : b < k}}
        removed == {j \in behind : cb[j] # None}
    IN
    /\ At(t, "parking") /\ Parked /\ ListFree
    /\ Fenceless # {}
    /\ cb' = [j \in Jobs |-> IF j \in removed THEN None ELSE cb[j]]
    /\ parent' = [j \in Jobs |-> IF j \in removed THEN None ELSE parent[j]]
    /\ Go(t, "oops")
    /\ UNCHANGED <<hw_rq_count, mirror, mainVars, hwVars, jobVars, gpuVars, park, history>>

\* amdgpu_fence_driver_force_completion, then the soft or the full reset and its retries
\* until the ring tests pass: the rings are empty and their old fences signaled
AsicReset(t) ==
    /\ At(t, "asic")
    /\ gpu' = "run"
    /\ hwSignaled' = 1..runs
    /\ ring' = <<>>
    /\ Go(t, "recovery")
    /\ UNCHANGED <<hw_rq_count, mirror, parent, cb, mainVars, runs, jobVars, hangs, park,
                   history>>

\* "asic resume failed": the scheduler is unparked, and the rings are not ready
ResumeFails(t) ==
    /\ ResumeMayFail /\ At(t, "asic")
    /\ hwSignaled' = 1..runs
    /\ ring' = <<>>
    /\ gpu' = "dead"
    /\ Go(t, "unpark")
    /\ UNCHANGED <<hw_rq_count, mirror, parent, cb, mainVars, runs, jobVars, hangs, park,
                   history>>

\* mutant: the timer is not started again
NoTimer(j) == UNCHANGED tdr

\* if (s_job && sched->timeout != MAX_SCHEDULE_TIMEOUT) schedule_delayed_work(...)
RecoveryTimer(j) == Arm(j)

\* the beginning of amd_sched_job_recovery and of its loop
RecoveryStart(t) ==
    /\ At(t, "recovery") /\ ListFree
    /\ RecoveryTimer(First)
    /\ reset' = [reset EXCEPT ![t] =
           [@ EXCEPT !.at  = IF First = None THEN "unpark" ELSE "rerun",
                     !.job = First,
                     !.tmp = IF First = None THEN None ELSE After(First)]]
    /\ UNCHANGED <<hw_rq_count, mirror, parent, cb, mainVars, hwVars, finished, finish,
                   gpuVars, park, history>>

\* atomic_inc(&sched->hw_rq_count)
Recount == hw_rq_count' = hw_rq_count + 1

\* with the list lock dropped, run_job ...
RecoveryRun(t) ==
    /\ At(t, "rerun")
    /\ RunOnRing(reset[t].job)
    /\ Recount
    /\ reset' = [reset EXCEPT ![t] = [@ EXCEPT !.at = "reinstall", !.fence = RunFence]]
    /\ UNCHANGED <<mirror, parent, cb, mainVars, hwSignaled, jobVars, gpuVars, park, history>>

\* the next job of list_for_each_entry_safe is the one noted before the lock was dropped
NextToRecover(t) == reset[t].tmp

\* ... and the callback; then the next job, with the lock held again
RecoveryInstall(t) ==
    LET n == NextToRecover(t) IN
    /\ At(t, "reinstall") /\ ListFree
    /\ Install(reset[t].job, reset[t].fence)
    /\ reset' = [reset EXCEPT ![t] =
           [@ EXCEPT !.at    = IF n = None THEN "unpark" ELSE "rerun",
                     !.job   = n,
                     !.tmp   = IF n = None THEN None ELSE After(n),
                     !.fence = None]]
    /\ UNCHANGED <<mirror, mainVars, hwVars, tdr, gpuVars, park, history>>

\* kcl_kthread_unpark, and the return from amdgpu_gpu_reset
ResetUnpark(t) ==
    /\ At(t, "unpark")
    /\ park' = FALSE
    /\ reset' = [reset EXCEPT ![t] = NoReset]
    /\ TdrDone(t)
    /\ UNCHANGED <<hw_rq_count, mirror, parent, cb, mainVars, hwVars, finished, finish,
                   gpuVars, history>>

Reset(t) ==
    \/ ResetCheck(t) \/ ResetPark(t) \/ HwJobReset(t) \/ HwJobOops(t)
    \/ AsicReset(t) \/ ResumeFails(t)
    \/ RecoveryStart(t) \/ RecoveryRun(t) \/ RecoveryInstall(t) \/ ResetUnpark(t)

-----------------------------------------------------------------------------
Main == MainBegin \/ MainRun \/ MainInstall \/ MainPark \/ MainUnpark

Next ==
    \/ Main
    \/ GpuPass \/ GpuHang
    \/ \E j \in Jobs : FinishWork(j) \/ TdrFire(j)
    \/ OtherReset
    \/ \E t \in ResetThreads : Reset(t)

Spec == Init /\ [][Next]_vars

\* threads and works run, timers expire, and a GPU that is not hung runs its jobs
Fairness ==
    /\ WF_vars(Main) /\ WF_vars(GpuPass)
    /\ \A j \in Jobs : WF_vars(FinishWork(j)) /\ WF_vars(TdrFire(j))
    /\ \A t \in ResetThreads : WF_vars(Reset(t))

FairSpec == Spec /\ Fairness

-----------------------------------------------------------------------------
(* Properties *)

\* The count of hardware submissions, which a reset sets to 0 and the recovery counts up
\* again (amd_sched_hw_job_reset, amd_sched_job_recovery), stays the number of callbacks
\* that will decrement it, plus the jobs being run whose callback is not installed yet: as
\* long as no two resets have overlapped, none has met a job that had signaled and was
\* still on the mirror list, and none has died there; nothing in the code excludes these.
CountExact ==
    ~overlap /\ ~unfinished /\ ListFree =>
        hw_rq_count = Cardinality({j \in Jobs : cb[j] # None})
                      + (IF main \in {"run", "install"} THEN 1 ELSE 0)
                      + Cardinality({t \in ResetThreads : reset[t].at = "reinstall"})

\* While a thread is between amd_sched_hw_job_reset and the unparking, the scheduler's
\* thread runs no job ("block scheduler"), as long as no two threads have been past
\* amdgpu_check_soft_reset at once; a thread that finds no hang there does no harm.
SchedulerBlocked ==
    ~overlap =>
        \A t \in ResetThreads :
            reset[t].at \in {"asic", "recovery", "rerun", "reinstall", "unpark"}
                => main = "parked"

\* A job freed by its finish work is not used again, not by the main thread, the mirror
\* list, a timer or timeout work, nor by the recovery that dropped the list lock while the
\* jobs it has run again finish: as long as no two resets have overlapped and none has met
\* a job that had signaled and was still on the mirror list; the recovery runs such a job
\* again while its finish work frees it.
NoFreedJob ==
    ~overlap /\ ~unfinished =>
        \A j \in Jobs : finish[j] = "freed" =>
            /\ cur # j /\ ~InMirror(j) /\ tdr[j] = "off"
            /\ \A t \in ResetThreads :
                  /\ reset[t].tmp # j /\ reset[t].tdrJob # j
                  /\ reset[t].at = "rerun" => reset[t].job # j

\* Every job is finished and freed, however often the GPU hangs and whatever timers run out
\* without a hang, unless a reset fails, two resets overlap, a reset meets a job that has
\* signaled and is still listed, or the GPU ends up hung by an oldest job whose timeout
\* came before the hang: amdgpu_gpu_reset has left that job without a timer.
JobsFinish ==
    \A j \in Jobs :
        \/ <>[](finish[j] = "freed")
        \/ <>(gpu = "dead" \/ overlap \/ unfinished)
        \/ <>[](gpu = "hung" /\ First \in early)

=============================================================================
