----------------------------- MODULE JobService -----------------------------
(***************************************************************************)
(* What the GPU scheduler promises its clients, without threads, run       *)
(* queues, callbacks or wake-ups: every entity is a bounded queue; jobs    *)
(* start in queue order, only after what they depend on, and only while    *)
(* fewer than a fixed number of them occupy the ring; a job's finished     *)
(* fence is signaled once, after it has left the ring.                     *)
(***************************************************************************)
EXTENDS Integers, Sequences, FiniteSets

CONSTANTS Entities, Jobs, ExtFences, EntityOf, Deps, QueueSize, HwSubmissionLimit

VARIABLES
    submitted,      \* jobs that have been queued
    pending,        \* [Entities -> Seq(Jobs)] queued jobs that have not started
    ring,           \* Seq(Jobs) jobs in the order they were put on the ring
    failed,         \* jobs that started but never reached the ring
    busy,           \* jobs that occupy the ring
    finished,       \* jobs whose finished fence is signaled
    extSignaled     \* foreign fences that are signaled

vars == <<submitted, pending, ring, failed, busy, finished, extSignaled>>

Started == {ring[i] : i \in DOMAIN ring} \cup failed

Init ==
    /\ submitted = {}
    /\ pending = [e \in Entities |-> <<>>]
    /\ ring = <<>> /\ failed = {} /\ busy = {} /\ finished = {} /\ extSignaled = {}

Submit(j) ==
    LET e == EntityOf[j] IN
    /\ j \notin submitted /\ Len(pending[e]) < QueueSize
    /\ submitted' = submitted \cup {j}
    /\ pending' = [pending EXCEPT ![e] = Append(@, j)]
    /\ UNCHANGED <<ring, failed, busy, finished, extSignaled>>

\* the dependencies of j that the hardware will not resolve by itself are resolved
Runnable(j) == \A f \in Deps[j] : IF f[1] = "ext" THEN f[2] \in extSignaled
                                                  ELSE f[2] \in Started

Start(e) ==
    LET j == Head(pending[e]) IN
    /\ pending[e] # <<>> /\ Runnable(j)
    /\ Cardinality(busy) < HwSubmissionLimit
    /\ pending' = [pending EXCEPT ![e] = Tail(@)]
    /\ busy' = busy \cup {j}
    /\ \/ ring' = Append(ring, j) /\ UNCHANGED failed
       \/ failed' = failed \cup {j} /\ UNCHANGED ring
    /\ UNCHANGED <<submitted, finished, extSignaled>>

Release(j) ==
    /\ j \in busy
    /\ busy' = busy \ {j}
    /\ UNCHANGED <<submitted, pending, ring, failed, finished, extSignaled>>

Finish(j) ==
    /\ j \in Started \ (busy \cup finished)
    /\ finished' = finished \cup {j}
    /\ UNCHANGED <<submitted, pending, ring, failed, busy, extSignaled>>

Signal(f) ==
    /\ f \notin extSignaled
    /\ extSignaled' = extSignaled \cup {f}
    /\ UNCHANGED <<submitted, pending, ring, failed, busy, finished>>

Next == \/ \E j \in Jobs : Submit(j) \/ Release(j) \/ Finish(j)
        \/ \E e \in Entities : Start(e)
        \/ \E f \in ExtFences : Signal(f)

Spec == Init /\ [][Next]_vars
=============================================================================
