----------------------------- MODULE FenceDriver -----------------------------
(***************************************************************************)
(* The hardware fences of one ring (amdgpu_fence.c) and the submission of  *)
(* jobs that emits them (amdgpu_ib_schedule).                              *)
(*                                                                         *)
(* A submission emits up to two fences, one behind the VM flush and one    *)
(* behind the job.  Each fence takes the next sequence number and a slot   *)
(* of a small table.  The GPU writes the number of the last fence it       *)
(* passed to memory and raises an interrupt.  amdgpu_fence_process, run by *)
(* the interrupt, by the fallback timer and by the threads that count the  *)
(* emitted fences, claims the numbers between last_seq and the one in      *)
(* memory with a cmpxchg and signals the fences in their slots.            *)
(*                                                                         *)
(* A fence is named by its count 1, 2, ...; the code sees that count       *)
(* modulo SeqMod (2^32 there).                                             *)
(***************************************************************************)
EXTENDS Integers, Sequences, FiniteSets

CONSTANTS
    NumHwSubmission,  \* num_hw_submission, a power of two
    SeqMod,           \* the width of a sequence number
    FirstSeq,         \* fences that were emitted and signaled before the run starts
    MaxSeq,           \* bound on the fences emitted: fewer than SeqMod in a run, so that no
                      \* worker sleeps in its cmpxchg loop for 2^32 fences
    Workers,          \* who runs amdgpu_fence_process
    FlushMayBeUndone, \* kmem_cache_alloc may fail for the second fence of a submission too
    MaxHangs,         \* bound on the hangs of the GPU
    MayWait,          \* somebody calls amdgpu_fence_wait_empty, once
    SlowGpu           \* a GPU taken for hung may still pass a fence before its reset

\* mutant: one slot per submission
OneSlotEach == NumHwSubmission

\* amdgpu_fence_driver_init_ring: num_fences_mask = num_hw_submission * 2 - 1
NumFences == 2 * NumHwSubmission

ASSUME FenceBounds ==
    /\ NumHwSubmission \in Nat \ {0} /\ SeqMod \in Nat \ {0}
    /\ FirstSeq \in Nat /\ MaxSeq \in FirstSeq..(FirstSeq + SeqMod - 1)
    /\ MaxHangs \in Nat
    /\ SeqMod % NumFences = 0
    /\ FlushMayBeUndone \in BOOLEAN /\ MayWait \in BOOLEAN /\ SlowGpu \in BOOLEAN
ASSUME WorkerSet == Workers \subseteq {"irq", "timer", "count"}

Fences  == 1..MaxSeq
Slots   == 0..(NumFences - 1)
SeqNos  == 0..(SeqMod - 1)
NoFence == 0

\* amdgpu_fence_wait_empty is not called, or has returned
NotCalled == 0
Returned  == -1

VARIABLES
    sync_seq,    \* the fences emitted so far
    last_seq,    \* the last number amdgpu_fence_process has claimed
    mem,         \* the fence value in memory (*drv->cpu_addr)
    fences,      \* the slots
    timer,       \* fallback_timer is pending
    signaled,    \* the fences that are signaled
    enabled,     \* the fences whose enable_signaling has been called
    emitter,     \* where amdgpu_ib_schedule is
    jobs,        \* the fences that end a job and are counted in hw_rq_count
    staged,      \* fences emitted behind the ring's committed write pointer
    ring,        \* fences the GPU has still to pass
    irq,         \* a fence interrupt is pending
    gpu,         \* "run", "hung", or "forced" once force_completion has run
    hangs,       \* number of hangs so far
    passed,      \* the last fence the GPU has passed or force_completion has completed
    work,        \* per worker: where it is in amdgpu_fence_process, and its local variables
    waiter,      \* amdgpu_fence_wait_empty: 0 if not called, the fence waited for, or -1
    waitSeq,     \* the fences in their slots when it was called
    waitQuiet    \* no submission was under way when it was called

submitVars == <<emitter, jobs, staged>>
gpuVars    == <<ring, irq, gpu, hangs, passed>>
waitVars   == <<waiter, waitSeq, waitQuiet>>
vars == <<sync_seq, last_seq, mem, fences, timer, signaled, enabled, submitVars, gpuVars,
          work, waitVars>>

\* the 32 bit number of a fence, and the slot of a number
Seq32(n) == n % SeqMod
Slot(s)  == s % NumFences

\* a worker outside amdgpu_fence_process
Idle == [at |-> "idle", last |-> 0, seq |-> 0, fence |-> NoFence]

Init ==
    /\ sync_seq = FirstSeq /\ last_seq = Seq32(FirstSeq) /\ mem = Seq32(FirstSeq)
    /\ fences = [i \in Slots |-> NoFence]
    /\ timer = FALSE
    /\ signaled = 1..FirstSeq /\ enabled = {}
    /\ emitter = "idle" /\ jobs = {} /\ staged = <<>>
    /\ ring = <<>> /\ irq = FALSE /\ gpu = "run" /\ hangs = 0 /\ passed = FirstSeq
    /\ work = [w \in Workers |-> Idle]
    /\ waiter = NotCalled /\ waitSeq = 0 /\ waitQuiet = FALSE

-----------------------------------------------------------------------------
(* amdgpu_ib_schedule and amdgpu_fence_emit: the scheduler thread *)

\* amd_sched_ready: hw_rq_count < hw_submission_limit, where a job leaves the
\* count when its fence signals
HwReady == Cardinality(jobs) < NumHwSubmission

\* the beginning of amdgpu_ib_schedule, for a job that needs a VM flush or not
IbSchedule ==
    /\ emitter = "idle" /\ gpu # "forced" /\ HwReady
    /\ sync_seq + 2 <= MaxSeq
    /\ emitter' \in {"flush", "job"}
    /\ UNCHANGED <<sync_seq, last_seq, mem, fences, timer, signaled, enabled, jobs, staged,
                   gpuVars, work, waitVars>>

\* amdgpu_fence_emit up to the write of the slot: the number is taken and the
\* fence command is in the ring
FenceEmit ==
    /\ emitter \in {"flush", "job"}
    /\ sync_seq' = sync_seq + 1
    /\ staged' = Append(staged, sync_seq + 1)
    /\ emitter' = IF emitter = "flush" THEN "flush_slot" ELSE "job_slot"
    /\ UNCHANGED <<last_seq, mem, fences, timer, signaled, enabled, jobs, gpuVars, work,
                   waitVars>>

\* amdgpu_fence_emit returns -ENOMEM: amdgpu_ring_undo drops what is staged, a
\* flush fence included
FenceEmitFails ==
    /\ emitter \in {"flush", "job"}
    /\ FlushMayBeUndone \/ staged = <<>>
    /\ staged' = <<>>
    /\ emitter' = "idle"
    /\ UNCHANGED <<sync_seq, last_seq, mem, fences, timer, signaled, enabled, jobs, gpuVars,
                   work, waitVars>>

\* !old || fence_is_signaled(old)
SlotFree(s) == fences[s] = NoFence \/ fences[s] \in signaled

\* the rest of amdgpu_fence_emit, with the old fence of the slot signaled or gone
FenceAssign ==
    LET s == Slot(Seq32(sync_seq)) IN
    /\ emitter \in {"flush_slot", "job_slot"}
    /\ SlotFree(s)
    /\ fences' = [fences EXCEPT ![s] = sync_seq]
    /\ emitter' = IF emitter = "flush_slot" THEN "job" ELSE "commit"
    /\ UNCHANGED <<sync_seq, last_seq, mem, timer, signaled, enabled, jobs, staged, gpuVars,
                   work, waitVars>>

\* mutant: the fallback timer is left alone
NoFallback(f) == UNCHANGED timer

\* amdgpu_fence_enable_signaling starts the timer if it is not pending
StartFallback(f) == timer' = TRUE

\* fence_add_callback and fence_wait call enable_signaling of an unsignaled fence, once
EnableSignaling(f) ==
    \/ /\ f \in signaled \cup enabled
       /\ UNCHANGED <<enabled, timer>>
    \/ /\ f \notin signaled \cup enabled
       /\ enabled' = enabled \cup {f}
       /\ StartFallback(f)

\* "rcu slot is busy": fence_wait(old)
FenceBusy ==
    LET old == fences[Slot(Seq32(sync_seq))] IN
    /\ emitter \in {"flush_slot", "job_slot"}
    /\ ~SlotFree(Slot(Seq32(sync_seq)))
    /\ old \notin enabled
    /\ EnableSignaling(old)
    /\ UNCHANGED <<sync_seq, last_seq, mem, fences, signaled, submitVars, gpuVars,
                   work, waitVars>>

\* amdgpu_ring_commit makes the staged commands visible to the GPU
RingCommit ==
    /\ emitter = "commit"
    /\ ring' = ring \o staged
    /\ staged' = <<>>
    /\ jobs' = jobs \cup {sync_seq}
    /\ emitter' = "callback"
    /\ UNCHANGED <<sync_seq, last_seq, mem, fences, timer, signaled, enabled, irq, gpu, hangs,
                   passed, work, waitVars>>

\* amd_sched_main: fence_add_callback on the fence of the job
AddCallback ==
    /\ emitter = "callback"
    /\ EnableSignaling(sync_seq)
    /\ emitter' = "idle"
    /\ UNCHANGED <<sync_seq, last_seq, mem, fences, signaled, jobs, staged, gpuVars,
                   work, waitVars>>

-----------------------------------------------------------------------------
(* amdgpu_fence_process, one worker at a time each *)

\* the interrupt, the timer (amdgpu_fence_fallback) or amdgpu_fence_count_emitted
ProcessStart(w) ==
    /\ work[w].at = "idle"
    /\ \/ w = "irq" /\ irq /\ irq' = FALSE /\ UNCHANGED timer
       \/ w = "timer" /\ timer /\ timer' = FALSE /\ UNCHANGED irq
       \/ w = "count" /\ UNCHANGED <<timer, irq>>
    /\ work' = [work EXCEPT ![w].at = "last"]
    /\ UNCHANGED <<sync_seq, last_seq, mem, fences, signaled, enabled, submitVars, ring,
                   gpu, hangs, passed, waitVars>>

\* last_seq = atomic_read(&ring->fence_drv.last_seq)
ReadLast(w) ==
    /\ work[w].at = "last"
    /\ work' = [work EXCEPT ![w].last = last_seq, ![w].at = "mem"]
    /\ UNCHANGED <<sync_seq, last_seq, mem, fences, timer, signaled, enabled, submitVars,
                   gpuVars, waitVars>>

\* seq = amdgpu_fence_read(ring)
ReadMem(w) ==
    /\ work[w].at = "mem"
    /\ work' = [work EXCEPT ![w].seq = mem, ![w].at = "cmpxchg"]
    /\ UNCHANGED <<sync_seq, last_seq, mem, fences, timer, signaled, enabled, submitVars,
                   gpuVars, waitVars>>

\* mutant: last_seq is written without the comparison
CmpxchgBlind(w) ==
    /\ last_seq' = work[w].seq
    /\ work' = [work EXCEPT ![w].at = "fallback"]

\* the cmpxchg succeeds, or another worker was faster and the loop is repeated
Cmpxchg(w) ==
    \/ /\ last_seq = work[w].last
       /\ last_seq' = work[w].seq
       /\ work' = [work EXCEPT ![w].at = "fallback"]
    \/ /\ last_seq # work[w].last
       /\ UNCHANGED last_seq
       /\ work' = [work EXCEPT ![w] = [Idle EXCEPT !.at = "last"]]

ClaimSeq(w) ==
    /\ work[w].at = "cmpxchg"
    /\ Cmpxchg(w)
    /\ UNCHANGED <<sync_seq, mem, fences, timer, signaled, enabled, submitVars, gpuVars,
                   waitVars>>

\* mutant: the timer is not armed again for the fences still out
NoReschedule(w) == UNCHANGED timer

\* if (seq != ring->fence_drv.sync_seq) amdgpu_fence_schedule_fallback(ring)
ScheduleFallback(w) == timer' = (timer \/ work[w].seq # Seq32(sync_seq))

\* the return when nothing happened, else the masks before the loop over the slots
CheckFallback(w) ==
    /\ work[w].at = "fallback"
    /\ ScheduleFallback(w)
    /\ \/ /\ work[w].seq = work[w].last
          /\ work' = [work EXCEPT ![w] = Idle]
       \/ /\ work[w].seq # work[w].last
          /\ work' = [work EXCEPT ![w].at = "take", ![w].last = Slot(@), ![w].seq = Slot(@)]
    /\ UNCHANGED <<sync_seq, last_seq, mem, fences, signaled, enabled, submitVars, gpuVars,
                   waitVars>>

\* ++last_seq, and the fence of the slot is read
TakeFence(w) ==
    LET s == Slot(work[w].last + 1) IN
    /\ work[w].at = "take"
    /\ work' = [work EXCEPT ![w].last = s, ![w].fence = fences[s], ![w].at = "clear"]
    /\ UNCHANGED <<sync_seq, last_seq, mem, fences, timer, signaled, enabled, submitVars,
                   gpuVars, waitVars>>

\* mutant: the loop runs one slot too far
LoopPastEnd(w) ==
    IF work[w].last = Slot(work[w].seq + 1) THEN Idle
    ELSE [work[w] EXCEPT !.at = "take", !.fence = NoFence]

\* while (last_seq != seq)
LoopEnd(w) ==
    IF work[w].last = work[w].seq THEN Idle
    ELSE [work[w] EXCEPT !.at = "take", !.fence = NoFence]

\* RCU_INIT_POINTER(*ptr, NULL)
ClearSlot(w) ==
    /\ work[w].at = "clear"
    /\ fences' = [fences EXCEPT ![work[w].last] = NoFence]
    /\ work' = [work EXCEPT ![w] = IF @.fence = NoFence THEN LoopEnd(w)
                                   ELSE [@ EXCEPT !.at = "signal"]]
    /\ UNCHANGED <<sync_seq, last_seq, mem, timer, signaled, enabled, submitVars, gpuVars,
                   waitVars>>

\* fence_signal, whose callback (amd_sched_process_job) takes a job out of the count,
\* and fence_put
SignalFence(w) ==
    LET f == work[w].fence IN
    /\ work[w].at = "signal"
    /\ signaled' = signaled \cup {f}
    /\ enabled' = enabled \ {f}
    /\ jobs' = jobs \ {f}
    /\ work' = [work EXCEPT ![w] = LoopEnd(w)]
    /\ UNCHANGED <<sync_seq, last_seq, mem, fences, timer, emitter, staged, gpuVars,
                   waitVars>>

Process(w) ==
    \/ ReadLast(w) \/ ReadMem(w) \/ ClaimSeq(w) \/ CheckFallback(w)
    \/ TakeFence(w) \/ ClearSlot(w) \/ SignalFence(w)

-----------------------------------------------------------------------------
(* amdgpu_fence_wait_empty *)

\* mutant: the slot of the next fence is looked at
NextSlot == Slot(Seq32(sync_seq + 1))

LastSlot == Slot(Seq32(sync_seq))

\* the call: nothing to wait for, or fence_wait arms the timer
WaitEmpty ==
    LET f == fences[LastSlot] IN
    /\ MayWait /\ waiter = NotCalled
    /\ waitQuiet' = (emitter = "idle")
    /\ waitSeq' = IF emitter \in {"flush_slot", "job_slot"} THEN sync_seq - 1 ELSE sync_seq
    /\ \/ /\ Seq32(sync_seq) = 0 \/ f = NoFence
          /\ waiter' = Returned /\ UNCHANGED <<enabled, timer>>
       \/ /\ Seq32(sync_seq) # 0 /\ f # NoFence
          /\ waiter' = f
          /\ EnableSignaling(f)
    /\ UNCHANGED <<sync_seq, last_seq, mem, fences, signaled, submitVars, gpuVars,
                   work>>

WaitEmptyReturn ==
    /\ waiter \in Fences /\ waiter \in signaled
    /\ waiter' = Returned
    /\ UNCHANGED <<sync_seq, last_seq, mem, fences, timer, signaled, enabled, submitVars,
                   gpuVars, work, waitSeq, waitQuiet>>

-----------------------------------------------------------------------------
(* The GPU, its hangs and the reset *)

\* the GPU passes the next fence: it writes the number, and its interrupt arrives or
\* is lost
GpuPass ==
    /\ gpu = "run" \/ SlowGpu
    /\ ring # <<>>
    /\ mem' = Seq32(Head(ring))
    /\ passed' = IF passed < Head(ring) THEN Head(ring) ELSE passed
    /\ ring' = Tail(ring)
    /\ irq' \in {irq, TRUE}
    /\ UNCHANGED <<sync_seq, last_seq, fences, timer, signaled, enabled, submitVars, gpu, hangs,
                   work, waitVars>>

GpuHang ==
    /\ gpu = "run" /\ ring # <<>> /\ hangs < MaxHangs
    /\ gpu' = "hung" /\ hangs' = hangs + 1
    /\ UNCHANGED <<sync_seq, last_seq, mem, fences, timer, signaled, enabled, submitVars, ring,
                   irq, passed, work, waitVars>>

\* amdgpu_fence_write(ring, ring->fence_drv.sync_seq)
ForceWrite == mem' = Seq32(sync_seq)

\* amdgpu_gpu_reset has parked the scheduler: amd_sched_hw_job_reset takes the jobs
\* out of the count, amdgpu_fence_driver_force_completion completes every fence
ForceCompletion ==
    /\ gpu = "hung" /\ emitter = "idle"
    /\ jobs' = {}
    /\ ForceWrite
    /\ passed' = sync_seq
    /\ gpu' = "forced"
    /\ UNCHANGED <<sync_seq, last_seq, fences, timer, signaled, enabled, emitter, staged, ring,
                   irq, hangs, work, waitVars>>

\* the reset of the hardware drops what is left in the ring
AsicReset ==
    /\ gpu = "forced"
    /\ gpu' = "run" /\ ring' = <<>>
    /\ UNCHANGED <<sync_seq, last_seq, mem, fences, timer, signaled, enabled, submitVars, irq,
                   hangs, passed, work, waitVars>>

-----------------------------------------------------------------------------
Emit == FenceEmit \/ FenceEmitFails \/ FenceAssign \/ FenceBusy \/ RingCommit \/ AddCallback
Wait == WaitEmpty \/ WaitEmptyReturn
Reset == GpuHang \/ ForceCompletion \/ AsicReset

Next ==
    \/ IbSchedule \/ Emit
    \/ \E w \in Workers : ProcessStart(w) \/ Process(w)
    \/ Wait
    \/ GpuPass \/ Reset

Spec == Init /\ [][Next]_vars

\* the scheduler thread and the handlers run to their end, a pending timer fires, the
\* GPU passes fences while it runs, and a hung GPU is reset; interrupts may be lost
Fairness ==
    /\ WF_vars(Emit)
    /\ \A w \in Workers : WF_vars(Process(w))
    /\ WF_vars("timer" \in Workers /\ ProcessStart("timer"))
    /\ WF_vars(gpu = "run" /\ GpuPass)
    /\ WF_vars(ForceCompletion) /\ WF_vars(AsicReset)
    /\ WF_vars(WaitEmptyReturn)

FairSpec == Spec /\ Fairness

-----------------------------------------------------------------------------
(* Properties *)

\* the emitter has taken a number and not yet written its slot
SlotPending == emitter \in {"flush_slot", "job_slot"}

\* "There is always exactly one thread signaling this fence slot": no two runs of
\* amdgpu_fence_process hold the same fence, and none holds a signaled one, so that
\* fence_signal never fails and BUG() is never reached
OneSignaler ==
    \A w \in Workers : work[w].fence # NoFence =>
        /\ work[w].fence \notin signaled
        /\ \A v \in Workers \ {w} : work[v].fence # work[w].fence

\* "When the fence is written ... all buffers associated with that fence are no longer
\* in use by the associated ring": a fence is signaled only when the GPU has passed it
\* or a reset has completed it, through wrapped numbers and reused slots
NoEarlySignal == signaled \subseteq 1..passed

\* with two slots per submission amdgpu_fence_emit waits for a busy slot only while a
\* worker is about to signal it, never for the GPU, so that a hung GPU cannot keep
\* the scheduler thread from parking for the reset: if a GPU taken for hung writes no more
\* (not SlowGpu) and no fence of a VM flush was undone (not FlushMayBeUndone), which stays in
\* its slot until the GPU passes a later number
BusySlotPassed ==
    SlotPending /\ ~SlotFree(Slot(Seq32(sync_seq))) => fences[Slot(Seq32(sync_seq))] <= passed

\* when amdgpu_fence_wait_empty returns from a call made while nothing was being
\* submitted, the GPU is past every fence emitted before the call, unless the number of
\* the last one had wrapped to 0, which the function takes for "nothing emitted"
WaitEmptyIdle ==
    waiter = Returned /\ waitQuiet /\ Seq32(waitSeq) # 0 => waitSeq <= passed

\* in the end the fence of every job signals, though every interrupt is lost: the fallback
\* timer is pending whenever a fence somebody waits for is out.  A reset completes the fences
\* of the jobs caught by a hang by number; nothing is said of those, but those of the jobs
\* that come after it signal again
FencesSignal == <>[](jobs \subseteq signaled)

=============================================================================
