------------------------------ MODULE Contexts -------------------------------
(***************************************************************************)
(* The contexts of an open file (amdgpu_ctx.c) as the threads of a process *)
(* use them: the submission of a job to one ring (amdgpu_cs_ioctl), which  *)
(* keeps the fence of the job in a slot of the context, the wait for an    *)
(* earlier submission (amdgpu_cs_wait_ioctl), the release of a context and *)
(* the close of the file.                                                  *)
(***************************************************************************)
EXTENDS Integers, Sequences, FiniteSets

CONSTANTS
    Tasks,              \* the threads
    amdgpu_sched_jobs,  \* the fence slots of a context
    MaxHandles, MaxCtxs, MaxJobs, MaxSlips  \* bounds

None   == 0
EINVAL == -1

ASSUME CtxAssumption ==
    /\ IsFiniteSet(Tasks) /\ None \notin Tasks
    /\ amdgpu_sched_jobs \in Nat \ {0}
    /\ {MaxHandles, MaxCtxs, MaxJobs, MaxSlips} \subseteq Nat

VARIABLES
    handles,   \* mgr->ctx_handles: the context of a handle
    ctxs,      \* the contexts ever allocated: the reference count, the references nobody
               \* will drop, those dropped twice, the next sequence number, the fence slots
    fences,    \* the fences of the submissions: context, sequence number, dependency,
               \* whether the job has been pushed and whether it is signaled
    pd,        \* the thread that has the page directory reserved
    closed,    \* the file is closed
    pc, op     \* per thread: its place and its local variables

vars == <<handles, ctxs, fences, pd, closed, pc, op>>

CtxIds   == 1..Len(ctxs)
FenceIds == 1..Len(fences)
Slots    == 0..(amdgpu_sched_jobs - 1)
NoOp     == [ctx |-> None, dep_ctx |-> None, dep |-> None, seq |-> 0, other |-> None, fence |-> None]

Init ==
    /\ handles = [h \in 1..MaxHandles |-> None]
    /\ ctxs = <<>> /\ fences = <<>>
    /\ pd = None /\ closed = FALSE
    /\ pc = [t \in Tasks |-> "idle"]
    /\ op = [t \in Tasks |-> NoOp]

Signaled(f) == IF f = None THEN TRUE ELSE fences[f].signaled

-----------------------------------------------------------------------------
(* References to a context: a put that finds no reference left does not release again, as
   long as the freed memory is as amdgpu_ctx_do_release has left it *)

\* amdgpu_ctx_do_release puts the fences of the slots
Released(c) == [c EXCEPT !.refcount = 0, !.fences = [s \in Slots |-> None]]

kref_put(c) == IF c.refcount = 1 THEN Released(c) ELSE [c EXCEPT !.refcount = @ - 1]

\* mutant: a context found in the table is not referenced
FindOnly(c) == c

kref_get(c) == [c EXCEPT !.refcount = @ + 1]

\* a reference that nobody will put any more
Forgotten(c) == [c EXCEPT !.lost = @ + 1]

\* a reference that is put and will be put again
PutEarly(c) == [kref_put(c) EXCEPT !.twice = @ + 1]

\* the bound on both
FewSlips == \A c \in CtxIds : ctxs[c].lost + ctxs[c].twice < MaxSlips

-----------------------------------------------------------------------------
(* amdgpu_ctx_ioctl *)

\* amdgpu_ctx_alloc: the first free handle
Alloc(t, h) ==
    /\ pc[t] = "idle" /\ ~closed
    /\ Len(ctxs) < MaxCtxs
    /\ handles[h] = None /\ \A k \in 1..(h - 1) : handles[k] # None
    /\ ctxs' = Append(ctxs, [refcount |-> 1, lost |-> 0, twice |-> 0, sequence |-> 1,
                             fences |-> [s \in Slots |-> None]])
    /\ handles' = [handles EXCEPT ![h] = Len(ctxs) + 1]
    /\ UNCHANGED <<fences, pd, closed, pc, op>>

\* amdgpu_ctx_free
Free(t, h) ==
    /\ pc[t] = "idle" /\ ~closed
    /\ handles[h] # None
    /\ handles' = [handles EXCEPT ![h] = None]
    /\ ctxs' = [ctxs EXCEPT ![handles[h]] = kref_put(@)]
    /\ UNCHANGED <<fences, pd, closed, pc, op>>

\* amdgpu_ctx_mgr_fini, when no thread is in a call any more
Close ==
    /\ ~closed /\ \A t \in Tasks : pc[t] = "idle"
    /\ closed' = TRUE
    /\ ctxs' = [c \in CtxIds |-> IF \E h \in DOMAIN handles : handles[h] = c
                                 THEN kref_put(ctxs[c]) ELSE ctxs[c]]
    /\ handles' = [h \in DOMAIN handles |-> None]
    /\ UNCHANGED <<fences, pd, pc, op>>

-----------------------------------------------------------------------------
(* The fence slots *)

\* seq & (amdgpu_sched_jobs - 1), for a power of two
SlotOf(seq) == seq % amdgpu_sched_jobs

SlotReused(c, seq) == seq + amdgpu_sched_jobs < c.sequence

amdgpu_ctx_get_fence(c, seq) ==
    CASE seq >= c.sequence  -> EINVAL
      [] SlotReused(c, seq) -> None
      [] OTHER              -> c.fences[SlotOf(seq)]

-----------------------------------------------------------------------------
(* amdgpu_cs_ioctl *)

\* the jobs that may still get a fence
Coming == {t \in Tasks : pc[t] \in {"reserve", "dependencies", "dep_fence", "submit"}}

\* amdgpu_cs_parser_init: amdgpu_ctx_get
CsBegin(t, h) ==
    /\ pc[t] = "idle" /\ ~closed
    /\ handles[h] # None /\ Len(fences) + Cardinality(Coming) < MaxJobs
    /\ ctxs' = [ctxs EXCEPT ![handles[h]] = kref_get(@)]
    /\ op' = [op EXCEPT ![t] = [NoOp EXCEPT !.ctx = handles[h]]]
    /\ pc' = [pc EXCEPT ![t] = "reserve"]
    /\ UNCHANGED <<handles, fences, pd, closed>>

\* ... and its failure: put_ctx leaves p->ctx as it is, and amdgpu_cs_parser_fini puts the
\* context again
CsInitFail(t) ==
    /\ pc[t] = "reserve" /\ FewSlips
    /\ ctxs' = [ctxs EXCEPT ![op[t].ctx] = PutEarly(@)]
    /\ pc' = [pc EXCEPT ![t] = "fini"]
    /\ UNCHANGED <<handles, fences, pd, closed, op>>

\* mutant: the page directory is not among the buffers the submission reserves
ReserveNothing(t) == UNCHANGED pd

ReservePd(t) == pd = None /\ pd' = t

\* amdgpu_cs_parser_bos
CsReserve(t) ==
    /\ pc[t] = "reserve"
    /\ ReservePd(t)
    /\ pc' = [pc EXCEPT ![t] = "dependencies"]
    /\ UNCHANGED <<handles, ctxs, fences, closed, op>>

\* amdgpu_cs_dependencies: the context of a dependency
CsDependency(t, h, seq) ==
    /\ pc[t] = "dependencies" /\ handles[h] # None
    /\ FewSlips
    /\ ctxs' = [ctxs EXCEPT ![handles[h]] = kref_get(@)]
    /\ op' = [op EXCEPT ![t].dep_ctx = handles[h], ![t].seq = seq]
    /\ pc' = [pc EXCEPT ![t] = "dep_fence"]
    /\ UNCHANGED <<handles, fences, pd, closed>>

\* ... and its fence; when there is none any more the reference to the context is kept
CsDependencyFence(t) ==
    LET c == op[t].dep_ctx
        f == amdgpu_ctx_get_fence(ctxs[c], op[t].seq)
    IN  /\ pc[t] = "dep_fence"
        /\ ctxs' = [ctxs EXCEPT ![c] = IF f = None THEN Forgotten(@) ELSE kref_put(@)]
        /\ op' = [op EXCEPT ![t].dep_ctx = None, ![t].dep = IF f = EINVAL THEN None ELSE f]
        /\ pc' = [pc EXCEPT ![t] = IF f = EINVAL THEN "fini" ELSE "submit"]
        /\ UNCHANGED <<handles, fences, pd, closed>>

\* the submission fails before its job is initialised
CsFail(t) ==
    /\ pc[t] \in {"reserve", "dependencies", "submit"}
    /\ pc' = [pc EXCEPT ![t] = "fini"]
    /\ UNCHANGED <<handles, ctxs, fences, pd, closed, op>>

\* amdgpu_cs_submit: amd_sched_job_init makes the fence, amdgpu_ctx_add_fence looks at the
\* next slot
CsSubmit(t) ==
    LET c == ctxs[op[t].ctx]
    IN  /\ pc[t] \in {"dependencies", "submit"}
        /\ fences' = Append(fences, [ctx |-> op[t].ctx, seq |-> None, dep |-> op[t].dep,
                                     pushed |-> None, signaled |-> FALSE])
        /\ op' = [op EXCEPT ![t].seq = c.sequence, ![t].fence = Len(fences) + 1,
                            ![t].other = c.fences[SlotOf(c.sequence)]]
        /\ pc' = [pc EXCEPT ![t] = "add_fence"]
        /\ UNCHANGED <<handles, ctxs, pd, closed>>

\* ... waits for the fence there, and replaces it
CsAddFence(t) ==
    LET o == op[t]
    IN  /\ pc[t] = "add_fence" /\ Signaled(o.other)
        /\ ctxs' = [ctxs EXCEPT ![o.ctx].fences[SlotOf(o.seq)] = o.fence,
                                ![o.ctx].sequence = @ + 1]
        /\ fences' = [fences EXCEPT ![o.fence].seq = o.seq]
        /\ pc' = [pc EXCEPT ![t] = "push"]
        /\ UNCHANGED <<handles, pd, closed, op>>

Pushed == Cardinality({f \in FenceIds : fences[f].pushed # None})

\* amd_sched_entity_push_job
CsPush(t) ==
    /\ pc[t] = "push"
    /\ fences' = [fences EXCEPT ![op[t].fence].pushed = Pushed + 1]
    /\ pc' = [pc EXCEPT ![t] = "fini"]
    /\ UNCHANGED <<handles, ctxs, pd, closed, op>>

\* mutant: a submission that has failed keeps the page directory reserved
FiniKeepsPd(t) ==
    /\ pc[t] = "fini"
    /\ pd' = IF pd = t /\ op[t].fence # None THEN None ELSE pd
    /\ ctxs' = [ctxs EXCEPT ![op[t].ctx] = kref_put(@)]
    /\ op' = [op EXCEPT ![t] = NoOp]
    /\ pc' = [pc EXCEPT ![t] = "idle"]
    /\ UNCHANGED <<handles, fences, closed>>

\* amdgpu_cs_parser_fini drops the reservation and the context
CsFini(t) ==
    /\ pc[t] = "fini"
    /\ pd' = IF pd = t THEN None ELSE pd
    /\ ctxs' = [ctxs EXCEPT ![op[t].ctx] = kref_put(@)]
    /\ op' = [op EXCEPT ![t] = NoOp]
    /\ pc' = [pc EXCEPT ![t] = "idle"]
    /\ UNCHANGED <<handles, fences, closed>>

-----------------------------------------------------------------------------
(* amdgpu_cs_wait_ioctl *)

WaitBegin(t, h, seq) ==
    /\ pc[t] = "idle" /\ ~closed
    /\ handles[h] # None
    /\ ctxs' = [ctxs EXCEPT ![handles[h]] = kref_get(@)]
    /\ op' = [op EXCEPT ![t] = [NoOp EXCEPT !.ctx = handles[h], !.seq = seq]]
    /\ pc' = [pc EXCEPT ![t] = "get_fence"]
    /\ UNCHANGED <<handles, fences, pd, closed>>

WaitFence(t) ==
    /\ pc[t] = "get_fence"
    /\ op' = [op EXCEPT ![t].fence = amdgpu_ctx_get_fence(ctxs[op[t].ctx], op[t].seq)]
    /\ pc' = [pc EXCEPT ![t] = "wait"]
    /\ UNCHANGED <<handles, ctxs, fences, pd, closed>>

WaitEnd(t) ==
    /\ ctxs' = [ctxs EXCEPT ![op[t].ctx] = kref_put(@)]
    /\ op' = [op EXCEPT ![t] = NoOp]
    /\ pc' = [pc EXCEPT ![t] = "idle"]
    /\ UNCHANGED <<handles, fences, pd, closed>>

WaitReturn(t) == /\ pc[t] = "wait"
                 /\ op[t].fence # EINVAL => Signaled(op[t].fence)
                 /\ WaitEnd(t)

WaitTimeout(t) == pc[t] = "wait" /\ op[t].fence > 0 /\ WaitEnd(t)

-----------------------------------------------------------------------------
\* the jobs of a context are one entity: they finish in the order they were pushed, each
\* after its dependency
Finish(f) ==
    /\ fences[f].pushed # None /\ ~fences[f].signaled /\ Signaled(fences[f].dep)
    /\ \A g \in FenceIds : /\ fences[g].ctx = fences[f].ctx
                           /\ fences[g].pushed # None /\ fences[g].pushed < fences[f].pushed
                           => fences[g].signaled
    /\ fences' = [fences EXCEPT ![f].signaled = TRUE]
    /\ UNCHANGED <<handles, ctxs, pd, closed, pc, op>>

Seqs == 0..MaxJobs

Call(t) == \E h \in DOMAIN handles :
    \/ Alloc(t, h) \/ Free(t, h) \/ CsBegin(t, h)
    \/ \E seq \in Seqs : CsDependency(t, h, seq) \/ WaitBegin(t, h, seq)

Step(t) ==
    \/ CsReserve(t) \/ CsDependencyFence(t) \/ CsSubmit(t) \/ CsAddFence(t) \/ CsPush(t)
    \/ CsFini(t) \/ WaitFence(t) \/ WaitReturn(t)

Next ==
    \/ \E t \in Tasks : Call(t) \/ Step(t) \/ CsInitFail(t) \/ CsFail(t) \/ WaitTimeout(t)
    \/ \E f \in FenceIds : Finish(f)
    \/ Close

Spec     == Init /\ [][Next]_vars
FairSpec == /\ Spec
            /\ \A t \in Tasks : WF_vars(Step(t)) /\ SF_vars(CsReserve(t))
            /\ WF_vars(\E f \in FenceIds : Finish(f))

-----------------------------------------------------------------------------
(* Properties *)

Users(c) == {t \in Tasks : op[t].ctx = c}
DepUsers(c) == {t \in Tasks : op[t].dep_ctx = c}
Listed(c) == {h \in DOMAIN handles : handles[h] = c}

\* The references of a context are the handle, the threads that use it and those that
\* amdgpu_cs_dependencies has lost, less those that a failed amdgpu_cs_parser_init has put
\* before amdgpu_cs_parser_fini puts them again. A context is used after its release only
\* behind such a double put, and one that is alive when the file is closed has lost a
\* reference.
RefsExact ==
    \A c \in CtxIds : ctxs[c].refcount =
        Cardinality(Listed(c)) + Cardinality(Users(c)) + Cardinality(DepUsers(c))
        + ctxs[c].lost - ctxs[c].twice

\* A wait for a submission waits for the very fence of that submission, and finds no fence
\* only when that submission is done: no slot is given to a later submission while its fence
\* is not signaled, and two submissions never get the same number. Nothing is said of a
\* context that a failed amdgpu_cs_parser_init has put twice: it may be released, and its
\* slots cleared, under the wait.
LookupExact ==
    \A t \in Tasks : pc[t] = "wait" /\ op[t].fence # EINVAL /\ ctxs[op[t].ctx].twice = 0 =>
        LET wanted == {f \in FenceIds : /\ fences[f].ctx = op[t].ctx
                                        /\ fences[f].seq = op[t].seq /\ op[t].seq # 0}
        IN  IF op[t].fence = None THEN \A f \in wanted : Signaled(f) ELSE wanted = {op[t].fence}

\* Every submission and every wait returns: the fence a submission waits for while it has
\* the page directory reserved is one that signals. (A call on a context that was released
\* under it finds the slots as amdgpu_ctx_fini has left them.)
CallsReturn == \A t \in Tasks : []<>(pc[t] = "idle")
=============================================================================
