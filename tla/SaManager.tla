------------------------------ MODULE SaManager ------------------------------
(***************************************************************************)
(* The suballocator of amdgpu_sa.c, which hands out pieces of one buffer   *)
(* (the memory of indirect buffers).  A piece is freed together with a     *)
(* fence, and its memory is used again when the fence has signaled.        *)
(*                                                                         *)
(* A request works under the lock of the manager's wait queue, which it    *)
(* drops to wait; fences signal at any time, also while the lock is held.  *)
(***************************************************************************)
EXTENDS Integers, Sequences, FiniteSets

CONSTANTS
    Size,       \* sa_manager->size
    Sizes,      \* sizes of the requests
    Aligns,     \* alignments of the requests
    NumLists,   \* AMDGPU_SA_NUM_FENCE_LISTS
    Threads,    \* the threads that allocate
    MaxAllocs,  \* bound on the requests
    MayFail     \* a request that sleeps may be interrupted by a signal

ASSUME SaAssumption ==
    /\ Size \in Nat \ {0} /\ NumLists \in Nat \ {0} /\ MaxAllocs \in Nat
    /\ Sizes \subseteq 1..Size /\ Aligns \subseteq 1..Size
    /\ MayFail \in BOOLEAN

Bos   == 1..MaxAllocs     \* struct amdgpu_sa_bo, in the order of their allocation
Lists == 0..(NumLists - 1)
None  == 0
MaxTries == 3             \* a list whose tries are above 2 is passed over

VARIABLES
    olist,     \* the pieces by offset
    hole,      \* the piece after which the next one goes, by its place in olist; 0 for the
               \* list itself
    flist,     \* the pieces freed with a fence, one list per fence context modulo NumLists
    range,     \* [soffset, eoffset] of each piece
    held,      \* the pieces their users have not freed
    busy,      \* the pieces the GPU may still use: freed with a fence that is not signaled
    count,     \* requests so far, each with its struct amdgpu_sa_bo
    lock,      \* the thread that holds wq.lock
    req        \* per thread, its call of amdgpu_sa_bo_new

vars == <<olist, hole, flist, range, held, busy, count, lock, req>>

NoRequest == [at |-> "no", bo |-> None, size |-> 0, align |-> 1,
              tries |-> [i \in Lists |-> 0], fences |-> [i \in Lists |-> None]]

Init ==
    /\ olist = <<>> /\ hole = 0
    /\ flist = [i \in Lists |-> <<>>]
    /\ range = [b \in Bos |-> [soffset |-> 0, eoffset |-> 0]]
    /\ held = {} /\ busy = {} /\ count = 0
    /\ lock = None
    /\ req = [t \in Threads |-> NoRequest]

-----------------------------------------------------------------------------
(* The lists *)

In(b, s) == \E i \in DOMAIN s : s[i] = b

Place(b, s) == CHOOSE i \in DOMAIN s : s[i] = b

\* the list without its element at place i, and with b after place i
Cut(s, i) == [k \in 1..(Len(s) - 1) |-> IF k < i THEN s[k] ELSE s[k + 1]]

InsertAfter(s, i, b) ==
    [k \in 1..(Len(s) + 1) |-> IF k <= i THEN s[k] ELSE IF k = i + 1 THEN b ELSE s[k - 1]]

\* list_del_init
Without(s, b) == IF In(b, s) THEN Cut(s, Place(b, s)) ELSE s

\* the memory between the hole and the piece after it
HoleSoffset == IF hole = 0 THEN 0 ELSE range[olist[hole]].eoffset

HoleEoffset == IF hole = Len(olist) THEN Size ELSE range[olist[hole + 1]].soffset

Wasted(soffset, align) == (align - (soffset % align)) % align

\* mutant: the padding of the alignment is not counted
FitsUnpadded(size, align) == HoleEoffset - HoleSoffset >= size

Fits(size, align) == HoleEoffset - HoleSoffset >= size + Wasted(HoleSoffset, align)

\* the place of the hole h after the piece at place i is removed: a hole at the piece itself
\* moves to the piece before
HoleAfterRemove(i, h) == IF i <= h THEN h - 1 ELSE h

\* amdgpu_sa_bo_remove_locked, with the hole at h
RemoveLocked(b, h) ==
    /\ olist' = Cut(olist, Place(b, olist))
    /\ hole' = HoleAfterRemove(Place(b, olist), h)
    /\ flist' = [i \in Lists |-> Without(flist[i], b)]

-----------------------------------------------------------------------------
(* amdgpu_sa_bo_new *)

\* the arguments are in range, and there is memory for the struct amdgpu_sa_bo
Request(t, size, align) ==
    /\ req[t].at = "no" /\ count < MaxAllocs
    /\ count' = count + 1
    /\ req' = [req EXCEPT ![t] = [NoRequest EXCEPT !.at = "lock", !.bo = count + 1,
                                                   !.size = size, !.align = align]]
    /\ UNCHANGED <<olist, hole, flist, range, held, busy, lock>>

\* the outer loop clears the fences and the tries
Begin(t) == [req[t] EXCEPT !.at = "try", !.tries = NoRequest.tries, !.fences = NoRequest.fences]

\* spin_lock, and the beginning of the outer loop
Lock(t) ==
    /\ req[t].at = "lock" /\ lock = None
    /\ lock' = t
    /\ req' = [req EXCEPT ![t] = Begin(t)]
    /\ UNCHANGED <<olist, hole, flist, range, held, busy, count>>

\* if hole points to the end of the buffer
AtEnd == hole = Len(olist)

\* mutant: a piece without a fence is taken for one whose fence is signaled
DoneOrHeld(b) == b \notin busy

\* sa_bo->fence is set and signaled
Done(b) == (\E i \in Lists : In(b, flist[i])) /\ b \notin busy

NextDone == ~AtEnd /\ Done(olist[hole + 1])

\* one turn of the loop of amdgpu_sa_bo_try_free
TryFree(t) ==
    /\ req[t].at = "try"
    /\ NextDone
    /\ RemoveLocked(olist[hole + 1], hole)
    /\ UNCHANGED <<range, held, busy, count, lock, req>>

\* the end of that loop, and amdgpu_sa_bo_try_alloc
TryAlloc(t) ==
    LET b == req[t].bo
        soffset == HoleSoffset + Wasted(HoleSoffset, req[t].align)
    IN
    /\ req[t].at = "try"
    /\ ~NextDone
    /\ \/ /\ Fits(req[t].size, req[t].align)
          /\ range' = [range EXCEPT ![b] = [soffset |-> soffset,
                                            eoffset |-> soffset + req[t].size]]
          /\ olist' = InsertAfter(olist, hole, b)
          /\ hole' = hole + 1
          /\ held' = held \cup {b}
          /\ req' = [req EXCEPT ![t] = NoRequest]
          /\ lock' = None
       \/ /\ ~Fits(req[t].size, req[t].align)
          /\ req' = [req EXCEPT ![t].at = "skip"]
          /\ UNCHANGED <<olist, hole, range, held, lock>>
    /\ UNCHANGED <<flist, busy, count>>

\* the lists whose oldest piece is done and that have tries left
Candidates(t) ==
    {i \in Lists : /\ flist[i] # <<>> /\ Head(flist[i]) \notin busy
                   /\ req[t].tries[i] < MaxTries}

\* how far the oldest piece of a list is from the hole, around the end of the buffer
Distance(i) ==
    LET d == range[Head(flist[i])].soffset - HoleSoffset
    IN  IF d < 0 THEN d + Size ELSE d

\* the closest one, the first list on a tie
Closest(t, i) ==
    \A k \in Candidates(t) : Distance(i) < Distance(k) \/ (Distance(i) = Distance(k) /\ i <= k)

\* amdgpu_sa_bo_next_hole notes the fences of the oldest pieces that are not done
NotedFences(t) ==
    [i \in Lists |-> IF flist[i] # <<>> /\ Head(flist[i]) \in busy
                     THEN Head(flist[i]) ELSE req[t].fences[i]]

\* amdgpu_sa_bo_next_hole: at the end of the buffer the search goes on with its beginning,
\* otherwise with the closest piece that is done
Skip(t) ==
    /\ req[t].at = "skip"
    /\ \/ /\ AtEnd
          /\ hole' = 0
          /\ req' = [req EXCEPT ![t].at = "try"]
          /\ UNCHANGED <<olist, flist>>
       \/ /\ ~AtEnd
          /\ \E i \in Candidates(t) :
               LET best == Head(flist[i]) IN
               /\ Closest(t, i)
               /\ RemoveLocked(best, Place(best, olist) - 1)
               /\ req' = [req EXCEPT ![t].at = "try", ![t].fences = NotedFences(t),
                                     ![t].tries[i] = @ + 1]
       \/ /\ ~AtEnd /\ Candidates(t) = {}
          /\ req' = [req EXCEPT ![t].at = "collect", ![t].fences = NotedFences(t)]
          /\ UNCHANGED <<olist, hole, flist>>
    /\ UNCHANGED <<range, held, busy, count, lock>>

Noted(t) == {req[t].fences[i] : i \in Lists} \ {None}

\* fence_get of the noted fences, and the lock is dropped to wait for any of them; or,
\* with nothing to wait for, wait_event_interruptible_locked
Collect(t) ==
    /\ req[t].at = "collect"
    /\ \/ /\ Noted(t) # {}
          /\ req' = [req EXCEPT ![t].at = "fences"]
          /\ lock' = None
       \/ /\ Noted(t) = {}
          /\ req' = [req EXCEPT ![t].at = "event"]
          /\ UNCHANGED lock
    /\ UNCHANGED <<olist, hole, flist, range, held, busy, count>>

\* kcl_fence_wait_any_timeout returns
FenceWaited(t) ==
    /\ req[t].at = "fences"
    /\ ~(Noted(t) \subseteq busy)
    /\ req' = [req EXCEPT ![t].at = "lock"]
    /\ UNCHANGED <<olist, hole, flist, range, held, busy, count, lock>>

\* amdgpu_sa_event
SaEvent(t) ==
    \/ \E i \in Lists : flist[i] # <<>>
    \/ Fits(req[t].size, req[t].align)

\* the condition of the wait, evaluated with the lock held
Event(t) ==
    /\ req[t].at = "event"
    /\ \/ SaEvent(t) /\ req' = [req EXCEPT ![t] = Begin(t)] /\ UNCHANGED lock
       \/ ~SaEvent(t) /\ req' = [req EXCEPT ![t].at = "sleep"] /\ lock' = None
    /\ UNCHANGED <<olist, hole, flist, range, held, busy, count>>

Woken(t) ==
    /\ req[t].at = "woken" /\ lock = None
    /\ lock' = t
    /\ req' = [req EXCEPT ![t].at = "event"]
    /\ UNCHANGED <<olist, hole, flist, range, held, busy, count>>

\* -ERESTARTSYS: the struct amdgpu_sa_bo is freed
Interrupted(t) ==
    /\ MayFail /\ req[t].at = "sleep"
    /\ req' = [req EXCEPT ![t] = NoRequest]
    /\ UNCHANGED <<olist, hole, flist, range, held, busy, count, lock>>

-----------------------------------------------------------------------------
(* amdgpu_sa_bo_free, with a fence of a context or without *)

\* mutant: nobody is woken
WakeNone == UNCHANGED req

\* wake_up_all_locked
WakeAll ==
    req' = [t \in Threads |-> IF req[t].at = "sleep" THEN [req[t] EXCEPT !.at = "woken"]
                              ELSE req[t]]

FreeWithFence(b, i) ==
    /\ b \in held /\ lock = None
    /\ flist' = [flist EXCEPT ![i] = Append(@, b)]
    /\ held' = held \ {b}
    /\ busy' = busy \cup {b}
    /\ WakeAll
    /\ UNCHANGED <<olist, hole, range, count, lock>>

FreeNow(b) ==
    /\ b \in held /\ lock = None
    /\ RemoveLocked(b, hole)
    /\ held' = held \ {b}
    /\ WakeAll
    /\ UNCHANGED <<range, busy, count, lock>>

Free(b) == FreeNow(b) \/ \E i \in Lists : FreeWithFence(b, i)

\* the GPU has passed the fence of a piece
Signal(b) ==
    /\ b \in busy
    /\ busy' = busy \ {b}
    /\ UNCHANGED <<olist, hole, flist, range, held, count, lock, req>>

-----------------------------------------------------------------------------
Step(t) == Lock(t) \/ TryFree(t) \/ TryAlloc(t) \/ Skip(t) \/ Collect(t) \/ FenceWaited(t) \/ Event(t)
           \/ Woken(t)

Next ==
    \/ \E t \in Threads :
         \/ \E size \in Sizes, align \in Aligns : Request(t, size, align)
         \/ Step(t) \/ Interrupted(t)
    \/ \E b \in Bos : Free(b) \/ Signal(b)

Spec == Init /\ [][Next]_vars

\* threads run, also against one another for the lock; users free what they hold and the
\* GPU passes every fence
Fairness ==
    /\ \A t \in Threads : SF_vars(Step(t))
    /\ WF_vars(\E b \in Bos : Signal(b)) /\ SF_vars(\E b \in Bos : Free(b))

FairSpec == Spec /\ Fairness

-----------------------------------------------------------------------------
(* Properties *)

\* The pieces of olist follow one another in the buffer without overlap and end inside
\* it, whatever holes amdgpu_sa_bo_next_hole and the frees have moved between.
NoOverlap ==
    /\ \A i \in DOMAIN olist :
          range[olist[i]].soffset < range[olist[i]].eoffset /\ range[olist[i]].eoffset <= Size
    /\ \A i, j \in DOMAIN olist : i < j =>
          range[olist[i]].eoffset <= range[olist[j]].soffset

\* A piece that its user holds, or that the GPU may still use because its fence is not
\* signaled, keeps its place in olist, so that (NoOverlap) its memory is given to nobody.
InUseKept ==
    \A b \in held \cup busy : In(b, olist)

\* The fences whose reference amdgpu_sa_bo_new takes before it waits still belong to
\* pieces of the lists, which hold a reference ("so it's save to remote it").
FencesHeld ==
    \A t \in Threads : req[t].at = "collect" => \A b \in Noted(t) : \E i \in Lists : In(b, flist[i])

\* Every request returns when the users free their pieces and the GPU passes the fences:
\* the search through the holes ends and no wake-up is lost.
RequestsReturn == \A t \in Threads : req[t].at # "no" ~> req[t].at = "no"

=============================================================================
