--------------------------- MODULE ContextsProofs ----------------------------
(***************************************************************************)
(* Proofs about the contexts (amdgpu_ctx.c, amdgpu_cs.c), for any number   *)
(* of threads, handles, contexts, submissions and fence slots: the         *)
(* reference counts are exact but for the slips of amdgpu_cs.c, and a wait *)
(* on a context that has not been put twice finds the fence it asks for.   *)
(***************************************************************************)
EXTENDS Contexts, FiniteSetTheorems, TLAPS

-----------------------------------------------------------------------------
(* Remainders and sequences: the slots of a context's fences, its queues *)

\* The slot of a fence is its number modulo amdgpu_sched_jobs: what % and \div are.
LEMMA ModDef ==
    ASSUME NEW N \in Nat \ {0}, NEW a \in Int
    PROVE  /\ a % N \in 0..(N - 1) /\ a \div N \in Int
           /\ a = N * (a \div N) + (a % N)
OBVIOUS

\* Distinct multiples of N are at least N apart.
LEMMA MultiplesApart ==
    ASSUME NEW N \in Nat \ {0}, NEW q \in Int, NEW r \in Int, q > r
    PROVE  N * q - N * r >= N
OBVIOUS

\* Two numbers less than N apart have different slots in a ring of N slots: N consecutive
\* fences of a context never share a slot.
LEMMA ModNe ==
    ASSUME NEW N \in Nat \ {0}, NEW a \in Int, NEW b \in Int, a < b, b - a < N
    PROVE  a % N # b % N
<1> DEFINE q == a \div N
           r == b \div N
           m == a % N
           n == b % N
<1>1. /\ q \in Int /\ m \in 0..(N - 1) /\ a = N * q + m
      /\ r \in Int /\ n \in 0..(N - 1) /\ b = N * r + n
  BY ModDef
<1>2. SUFFICES ASSUME m = n PROVE FALSE
  OBVIOUS
<1> HIDE DEF q, r, m, n
<1>3. N * q \in Int /\ N * r \in Int
  BY <1>1
<1>4. N * r - N * q > 0 /\ N * r - N * q < N
  BY <1>1, <1>2, <1>3
<1>5. CASE r > q
  BY <1>1, <1>4, <1>5, <1>3, MultiplesApart
<1>6. CASE r = q
  BY <1>4, <1>6, <1>3
<1>7. CASE q > r
  <2>1. N * q - N * r >= N
    BY <1>1, <1>7, MultiplesApart
  <2> QED
    BY <2>1, <1>3, <1>4
<1> QED
  BY <1>1, <1>5, <1>6, <1>7

\* Less than N apart, two numbers with the same slot are the same.
LEMMA ModSame ==
    ASSUME NEW N \in Nat \ {0}, NEW a \in Int, NEW b \in Int,
           a - b < N, b - a < N, a % N = b % N
    PROVE  a = b
<1>1. CASE a < b
  BY <1>1, ModNe, Zenon
<1>2. CASE b < a
  BY <1>2, ModNe, Zenon
<1> QED
  BY <1>1, <1>2

\* The remainder is determined by its range and by a multiple.
LEMMA ModUnique ==
    ASSUME NEW N \in Nat \ {0}, NEW a \in Int, NEW q \in Int, NEW m \in 0..(N - 1),
           a = N * q + m
    PROVE  a % N = m /\ a \div N = q
<1> DEFINE r == a \div N
           n == a % N
<1>1. r \in Int /\ n \in 0..(N - 1) /\ a = N * r + n
  BY ModDef
<1> SUFFICES n = m /\ r = q
  OBVIOUS
<1> HIDE DEF r, n
<1>2. N * q \in Int /\ N * r \in Int
  BY <1>1
<1>3. CASE q > r
  <2>1. N * q - N * r >= N
    BY <1>1, <1>3, MultiplesApart
  <2> QED
    BY <2>1, <1>1, <1>2
<1>4. CASE r > q
  <2>1. N * r - N * q >= N
    BY <1>1, <1>4, MultiplesApart
  <2> QED
    BY <2>1, <1>1, <1>2
<1>5. CASE q = r
  BY <1>1, <1>2, <1>5
<1> QED
  BY <1>1, <1>3, <1>4, <1>5

\* A full turn of the ring ends in the same slot.
LEMMA ModTurn ==
    ASSUME NEW N \in Nat \ {0}, NEW a \in Int
    PROVE  (a + N) % N = a % N
<1> DEFINE q == a \div N
           m == a % N
<1>1. q \in Int /\ m \in 0..(N - 1) /\ a = N * q + m
  BY ModDef
<1>2. SUFFICES (a + N) % N = m
  OBVIOUS
<1> HIDE DEF q, m
<1>3. N * (q + 1) = N * q + N
  BY <1>1
<1>4. a + N = N * (q + 1) + m /\ a + N \in Int /\ q + 1 \in Int
  BY <1>1, <1>3
<1> QED
  BY <1>1, <1>4, ModUnique

\* The length of a sequence, and its elements.
LEMMA SeqLen ==
    ASSUME NEW S, NEW s \in Seq(S)
    PROVE  Len(s) \in Nat /\ s \in [1..Len(s) -> S] /\ DOMAIN s = 1..Len(s)
OBVIOUS

\* One element of a sequence.
LEMMA SeqElem ==
    ASSUME NEW S, NEW s \in Seq(S), NEW i \in 1..Len(s)
    PROVE  s[i] \in S
OBVIOUS

\* A sequence with one more element.
LEMMA SeqAppend ==
    ASSUME NEW S, NEW s \in Seq(S), NEW x \in S
    PROVE  /\ Append(s, x) \in Seq(S) /\ Len(Append(s, x)) = Len(s) + 1
           /\ \A i \in 1..Len(s) : Append(s, x)[i] = s[i]
           /\ Append(s, x)[Len(s) + 1] = x
OBVIOUS

\* A sequence with one element replaced.
LEMMA SeqUpdate ==
    ASSUME NEW S, NEW s \in Seq(S), NEW i \in 1..Len(s), NEW e \in S
    PROVE  /\ [s EXCEPT ![i] = e] \in Seq(S)
           /\ Len([s EXCEPT ![i] = e]) = Len(s)
           /\ \A j \in 1..Len(s) : [s EXCEPT ![i] = e][j] = IF j = i THEN e ELSE s[j]
OBVIOUS

-----------------------------------------------------------------------------
(* The inductive invariant *)

Places == {"idle", "reserve", "dependencies", "dep_fence", "submit", "add_fence", "push",
           "fini", "get_fence", "wait"}

Context == [refcount : Int, lost : Nat, twice : Nat, sequence : Nat \ {0},
            fences : [Slots -> Int]]
Fence   == [ctx : Nat, seq : Nat, dep : Int, pushed : Nat, signaled : BOOLEAN]
Locals  == [ctx : Nat, dep_ctx : Nat, dep : Int, seq : Nat, other : Int, fence : Int]

TypeOK ==
    /\ handles \in [1..MaxHandles -> Nat]
    /\ ctxs \in Seq(Context) /\ fences \in Seq(Fence)
    /\ pd \in Tasks \cup {None} /\ closed \in BOOLEAN
    /\ pc \in [Tasks -> Places] /\ op \in [Tasks -> Locals]

\* handles, threads and fences name allocated contexts
Allocated ==
    /\ \A h \in 1..MaxHandles : handles[h] <= Len(ctxs)
    /\ \A t \in Tasks : op[t].ctx <= Len(ctxs) /\ op[t].dep_ctx <= Len(ctxs)

\* a context has one handle at most
OneHandle ==
    \A h, k \in 1..MaxHandles : handles[h] = handles[k] /\ handles[h] # None => h = k

\* a thread has a context exactly during a call, and a second one while it looks for the
\* fence of a dependency
Holding ==
    \A t \in Tasks : /\ op[t].ctx = None <=> pc[t] = "idle"
                     /\ op[t].dep_ctx = None <=> pc[t] # "dep_fence"

\* A context that has a handle, or that a thread uses, has not been released, unless it has
\* been put twice.
NotReleased ==
    \A c \in CtxIds : ctxs[c].twice = 0 =>
        ((\/ \E h \in 1..MaxHandles : handles[h] = c
          \/ \E t \in Tasks : op[t].ctx = c \/ op[t].dep_ctx = c) => ctxs[c].refcount > 0)

CtxInv == TypeOK /\ Allocated /\ OneHandle /\ Holding /\ NotReleased /\ Pushed \in Nat

-----------------------------------------------------------------------------
(* The operators *)

\* kref_put: the slots are cleared exactly by the put that finds one reference
LEMMA PutFacts ==
    ASSUME NEW c \in Context
    PROVE  /\ kref_put(c) \in Context
           /\ kref_put(c).refcount = c.refcount - 1
           /\ kref_put(c).lost = c.lost /\ kref_put(c).twice = c.twice
           /\ kref_put(c).sequence = c.sequence
           /\ c.refcount # 1 => kref_put(c).fences = c.fences
           /\ c.refcount = 1 => kref_put(c).fences = [s \in Slots |-> None]
<1>1. CASE c.refcount = 1
  <2> DEFINE none == [s \in Slots |-> None]
  <2>1. none \in [Slots -> Int]
    BY DEF None
  <2> HIDE DEF none
  <2> DEFINE d == [c EXCEPT !.refcount = 0]
  <2>2. kref_put(c) = [d EXCEPT !.fences = none]
    BY <1>1, Zenon DEF kref_put, Released, none
  <2>0. 0 \in Int
    OBVIOUS
  <2>3. /\ d \in Context /\ d.refcount = 0 /\ d.lost = c.lost /\ d.twice = c.twice
        /\ d.sequence = c.sequence
    BY <2>0, Zenon DEF Context
  <2> HIDE DEF d
  <2>4. /\ kref_put(c) \in Context
        /\ kref_put(c).refcount = 0 /\ kref_put(c).lost = c.lost /\ kref_put(c).twice = c.twice
        /\ kref_put(c).sequence = c.sequence /\ kref_put(c).fences = none
    BY <2>1, <2>2, <2>3, Zenon DEF Context
  <2> QED
    BY <1>1, <2>4 DEF none
<1>2. CASE c.refcount # 1
  BY <1>2 DEF kref_put, Context
<1> QED
  BY <1>1, <1>2, Zenon

\* kref_get
LEMMA GetFacts ==
    ASSUME NEW c \in Context
    PROVE  /\ kref_get(c) \in Context
           /\ kref_get(c).refcount = c.refcount + 1
           /\ kref_get(c).lost = c.lost /\ kref_get(c).twice = c.twice
           /\ kref_get(c).sequence = c.sequence /\ kref_get(c).fences = c.fences
BY DEF kref_get, Context

\* the put of a failed amdgpu_cs_parser_init, which another put follows
LEMMA PutEarlyFacts ==
    ASSUME NEW c \in Context
    PROVE  /\ PutEarly(c) \in Context
           /\ PutEarly(c).refcount = c.refcount - 1
           /\ PutEarly(c).lost = c.lost /\ PutEarly(c).twice = c.twice + 1
           /\ PutEarly(c).sequence = c.sequence
           /\ c.refcount # 1 => PutEarly(c).fences = c.fences
           /\ c.refcount = 1 => PutEarly(c).fences = [s \in Slots |-> None]
<1>1. PICK d \in Context : d = kref_put(c)
  BY PutFacts, Zenon
<1>2. PICK n \in Nat : n = d.twice + 1
  BY DEF Context
<1>3. PutEarly(c) = [d EXCEPT !.twice = n]
  BY <1>1, <1>2, Zenon DEF PutEarly
<1>4. /\ PutEarly(c) \in Context /\ PutEarly(c).refcount = d.refcount
      /\ PutEarly(c).lost = d.lost /\ PutEarly(c).twice = n
      /\ PutEarly(c).sequence = d.sequence /\ PutEarly(c).fences = d.fences
  BY <1>3, Zenon DEF Context
<1> QED
  BY <1>1, <1>2, <1>4, PutFacts, Zenon

\* a reference that is lost
LEMMA ForgottenFacts ==
    ASSUME NEW c \in Context
    PROVE  /\ Forgotten(c) \in Context
           /\ Forgotten(c).refcount = c.refcount
           /\ Forgotten(c).lost = c.lost + 1 /\ Forgotten(c).twice = c.twice
           /\ Forgotten(c).sequence = c.sequence /\ Forgotten(c).fences = c.fences
BY DEF Forgotten, Context

\* seq & (amdgpu_sched_jobs - 1) is an index of the array of fences ...
LEMMA SlotOfIn ==
    ASSUME NEW q \in Nat
    PROVE  SlotOf(q) \in Slots
BY CtxAssumption, ModDef DEF Slots, SlotOf

\* ... that comes back after a turn of the array ...
LEMMA SlotOfTurn ==
    ASSUME NEW q \in Nat
    PROVE  SlotOf(q + amdgpu_sched_jobs) = SlotOf(q)
<1>1. q \in Int /\ amdgpu_sched_jobs \in Nat \ {0}
  BY CtxAssumption
<1> QED
  BY <1>1, ModTurn, Zenon DEF SlotOf

\* ... and not before, so that the fences of the last amdgpu_sched_jobs submissions have slots
\* of their own ...
LEMMA SlotOfNe ==
    ASSUME NEW q \in Nat, NEW s \in Nat, q < s, s - q < amdgpu_sched_jobs
    PROVE  SlotOf(q) # SlotOf(s)
<1>1. q \in Int /\ s \in Int /\ amdgpu_sched_jobs \in Nat \ {0}
  BY CtxAssumption
<1> QED
  BY <1>1, ModNe, Zenon DEF SlotOf

\* ... and two of them in one slot are one.
LEMMA SlotOfSame ==
    ASSUME NEW q \in Nat, NEW s \in Nat, q - s < amdgpu_sched_jobs, s - q < amdgpu_sched_jobs,
           SlotOf(q) = SlotOf(s)
    PROVE  q = s
<1>1. q \in Int /\ s \in Int /\ amdgpu_sched_jobs \in Nat \ {0}
  BY CtxAssumption
<1> QED
  BY <1>1, ModSame, Zenon DEF SlotOf

\* amdgpu_ctx_get_fence: an error, no fence, or the content of the slot
LEMMA GetFenceType ==
    ASSUME NEW c \in Context, NEW seq \in Nat
    PROVE  /\ amdgpu_ctx_get_fence(c, seq) \in Int
           /\ SlotOf(seq) \in Slots
           /\ amdgpu_ctx_get_fence(c, seq) # EINVAL => seq < c.sequence
           /\ seq < c.sequence => amdgpu_ctx_get_fence(c, seq) =
                IF SlotReused(c, seq) THEN None ELSE c.fences[SlotOf(seq)]
<1>1. SlotOf(seq) \in Slots
  BY SlotOfIn, Zenon
<1>2. c.fences[SlotOf(seq)] \in Int /\ c.sequence \in Nat
  BY <1>1, Zenon DEF Context
<1>3. CASE seq >= c.sequence
  <2>0. ~SlotReused(c, seq)
    BY <1>3, <1>2, CtxAssumption DEF SlotReused
  <2>1. amdgpu_ctx_get_fence(c, seq) = EINVAL
    BY <1>3, <2>0, Zenon DEF amdgpu_ctx_get_fence
  <2> QED
    BY <1>1, <1>2, <1>3, <2>1 DEF EINVAL
<1>4. CASE ~(seq >= c.sequence) /\ SlotReused(c, seq)
  BY <1>1, <1>2, <1>4 DEF amdgpu_ctx_get_fence, EINVAL, None
<1>5. CASE ~(seq >= c.sequence) /\ ~SlotReused(c, seq)
  <2>1. amdgpu_ctx_get_fence(c, seq) = c.fences[SlotOf(seq)]
    BY <1>5, Zenon DEF amdgpu_ctx_get_fence
  <2> QED
    BY <1>1, <1>2, <1>5, <2>1 DEF EINVAL
<1> QED
  BY <1>3, <1>4, <1>5, Zenon

\* A thread outside of a call holds nothing.
LEMMA NoOpType == NoOp \in Locals /\ NoOp.ctx = None /\ NoOp.dep_ctx = None
BY DEF NoOp, Locals, None

\* An update of one context leaves the others alone.
LEMMA CtxUpdate ==
    ASSUME TypeOK, NEW i \in CtxIds, NEW e \in Context, ctxs' = [ctxs EXCEPT ![i] = e]
    PROVE  /\ ctxs' \in Seq(Context) /\ Len(ctxs') = Len(ctxs)
           /\ ctxs'[i] = e /\ \A j \in CtxIds : j # i => ctxs'[j] = ctxs[j]
<1>1. ctxs \in Seq(Context) /\ i \in 1..Len(ctxs)
  BY Zenon DEF TypeOK, CtxIds
<1> QED
  BY <1>1, SeqUpdate DEF CtxIds

\* ... which is what a thread relies on when it follows a handle or its own pointer.
LEMMA HeldAlive ==
    ASSUME CtxInv, NEW c \in CtxIds, ctxs[c].twice = 0,
           \/ \E h \in 1..MaxHandles : handles[h] = c
           \/ \E t \in Tasks : op[t].ctx = c \/ op[t].dep_ctx = c
    PROVE  ctxs[c].refcount > 0
BY Zenon DEF CtxInv, NotReleased

\* The contexts there are, in a type-correct state.
LEMMA CtxType ==
    ASSUME TypeOK
    PROVE  /\ Len(ctxs) \in Nat
           /\ \A c \in CtxIds :
                /\ ctxs[c] \in Context
                /\ ctxs[c].refcount \in Int /\ ctxs[c].lost \in Nat /\ ctxs[c].twice \in Nat
                /\ ctxs[c].sequence \in Nat \ {0} /\ ctxs[c].fences \in [Slots -> Int]
<1>1. Len(ctxs) \in Nat
  BY SeqLen, Zenon DEF TypeOK
<1>2. ASSUME NEW c \in CtxIds PROVE ctxs[c] \in Context
  BY SeqElem, Zenon DEF TypeOK, CtxIds
<1> QED
  BY <1>1, <1>2, Zenon DEF Context

\* The fences there are, in a type-correct state.
LEMMA FencesType ==
    ASSUME TypeOK
    PROVE  /\ Len(fences) \in Nat
           /\ \A f \in FenceIds :
                /\ fences[f] \in Fence
                /\ fences[f].ctx \in Nat /\ fences[f].seq \in Nat /\ fences[f].dep \in Int
                /\ fences[f].pushed \in Nat /\ fences[f].signaled \in BOOLEAN
<1>1. Len(fences) \in Nat
  BY SeqLen, Zenon DEF TypeOK
<1>2. ASSUME NEW f \in FenceIds PROVE fences[f] \in Fence
  BY SeqElem, Zenon DEF TypeOK, FenceIds
<1> QED
  BY <1>1, <1>2, Zenon DEF Fence

\* A thread in a call has a context.
LEMMA CallCtx ==
    ASSUME CtxInv, NEW t \in Tasks, pc[t] # "idle"
    PROVE  op[t].ctx \in CtxIds /\ op[t] \in Locals
<1>1. TypeOK /\ Allocated /\ Holding
  BY Zenon DEF CtxInv
<1>2. op[t] \in Locals /\ op[t].ctx \in Nat
  BY <1>1, Zenon DEF TypeOK, Locals
<1> QED
  BY <1>1, <1>2, CtxType DEF Allocated, Holding, CtxIds, None

\* amdgpu_cs_submit: the thread gets a new fence and the number of the next slot.
LEMMA SubmitFacts ==
    ASSUME CtxInv, NEW t \in Tasks, CsSubmit(t)
    PROVE  LET c == ctxs[op[t].ctx]
               new == [ctx |-> op[t].ctx, seq |-> None, dep |-> op[t].dep,
                       pushed |-> None, signaled |-> FALSE]
           IN  /\ op[t].ctx \in CtxIds /\ new \in Fence
               /\ fences' = Append(fences, new)
               /\ op' \in [Tasks -> Locals]
               /\ \A u \in Tasks : u # t => op'[u] = op[u]
               /\ op'[t].ctx = op[t].ctx /\ op'[t].dep_ctx = op[t].dep_ctx
               /\ op'[t].seq = c.sequence /\ op'[t].fence = Len(fences) + 1
               /\ op'[t].other = c.fences[SlotOf(c.sequence)]
<1> DEFINE c == ctxs[op[t].ctx]
           new == [ctx |-> op[t].ctx, seq |-> None, dep |-> op[t].dep,
                   pushed |-> None, signaled |-> FALSE]
           n == Len(fences) + 1
           x == c.fences[SlotOf(c.sequence)]
<1>0. /\ pc[t] \in {"dependencies", "submit"} /\ fences' = Append(fences, new)
      /\ op' = [op EXCEPT ![t].seq = c.sequence, ![t].fence = n, ![t].other = x]
  BY Zenon DEF CsSubmit
<1>1. TypeOK
  BY Zenon DEF CtxInv
<1>2. op[t].ctx \in CtxIds /\ op[t] \in Locals
  BY <1>0, CallCtx, Zenon
<1>3. new \in Fence
  BY <1>2, Zenon DEF Fence, Locals, None
<1>4. c \in Context /\ c.sequence \in Nat
  BY <1>1, <1>2, CtxType, Zenon
<1>5. x \in Int
  BY <1>4, GetFenceType, Zenon DEF Context
<1>6. n \in Int
  BY <1>1, FencesType
<1> HIDE DEF c, x, n
<1> DEFINE o == [op EXCEPT ![t].seq = c.sequence]
<1>7. /\ o \in [Tasks -> Locals] /\ \A u \in Tasks : u # t => o[u] = op[u]
      /\ o[t].ctx = op[t].ctx /\ o[t].dep_ctx = op[t].dep_ctx /\ o[t].seq = c.sequence
  BY <1>1, <1>4, Zenon DEF TypeOK, Locals
<1>8. op' = [[o EXCEPT ![t].fence = n] EXCEPT ![t].other = x]
  BY <1>0, Zenon
<1> HIDE DEF o
<1> DEFINE p == [o EXCEPT ![t].fence = n]
<1>9. /\ p \in [Tasks -> Locals] /\ \A u \in Tasks : u # t => p[u] = o[u]
      /\ p[t].ctx = o[t].ctx /\ p[t].dep_ctx = o[t].dep_ctx /\ p[t].seq = o[t].seq
      /\ p[t].fence = n
  BY <1>6, <1>7, Zenon DEF Locals
<1>10. op' = [p EXCEPT ![t].other = x]
  BY <1>8, Zenon
<1> HIDE DEF p
<1>11. /\ op' \in [Tasks -> Locals] /\ \A u \in Tasks : u # t => op'[u] = p[u]
       /\ op'[t].ctx = p[t].ctx /\ op'[t].dep_ctx = p[t].dep_ctx /\ op'[t].seq = p[t].seq
       /\ op'[t].fence = n /\ op'[t].other = x
  BY <1>5, <1>9, <1>10, Zenon DEF Locals
<1> QED
  BY <1>0, <1>2, <1>3, <1>7, <1>9, <1>11, Zenon DEF c, n, x

\* amdgpu_ctx_add_fence: one slot of one context and its sequence number change.
LEMMA AddFenceFacts ==
    ASSUME CtxInv, NEW t \in Tasks, CsAddFence(t)
    PROVE  LET i == op[t].ctx
               s == SlotOf(op[t].seq)
           IN  /\ i \in CtxIds /\ s \in Slots
               /\ ctxs' \in Seq(Context) /\ Len(ctxs') = Len(ctxs)
               /\ \A j \in CtxIds : j # i => ctxs'[j] = ctxs[j]
               /\ ctxs'[i].refcount = ctxs[i].refcount /\ ctxs'[i].lost = ctxs[i].lost
               /\ ctxs'[i].twice = ctxs[i].twice
               /\ ctxs'[i].sequence = ctxs[i].sequence + 1
               /\ ctxs'[i].fences = [ctxs[i].fences EXCEPT ![s] = op[t].fence]
<1> DEFINE i == op[t].ctx
           s == SlotOf(op[t].seq)
           g == [ctxs[i].fences EXCEPT ![s] = op[t].fence]
           d == [ctxs[i] EXCEPT !.fences = g]
           e == [d EXCEPT !.sequence = d.sequence + 1]
<1>0. /\ pc[t] = "add_fence"
      /\ ctxs' = [ctxs EXCEPT ![i].fences[s] = op[t].fence, ![i].sequence = @ + 1]
  BY Zenon DEF CsAddFence
<1>1. TypeOK
  BY DEF CtxInv
<1>2. i \in CtxIds /\ op[t] \in Locals
  BY <1>0, CallCtx, Zenon
<1>3. ctxs[i] \in Context /\ s \in Slots
  BY <1>1, <1>2, CtxType, GetFenceType, Zenon DEF Locals
<1>4. g \in [Slots -> Int]
  BY <1>2, <1>3, Zenon DEF Context, Locals
<1> HIDE DEF g, s
<1>5. /\ d \in Context /\ d.refcount = ctxs[i].refcount /\ d.lost = ctxs[i].lost
      /\ d.twice = ctxs[i].twice /\ d.sequence = ctxs[i].sequence /\ d.fences = g
  BY <1>3, <1>4, Zenon DEF Context
<1> HIDE DEF d
<1>6. /\ e \in Context /\ e.refcount = ctxs[i].refcount /\ e.lost = ctxs[i].lost
      /\ e.twice = ctxs[i].twice /\ e.sequence = ctxs[i].sequence + 1 /\ e.fences = g
  BY <1>5 DEF Context
<1>7. ctxs' = [ctxs EXCEPT ![i] = e]
  <2>1. ctxs \in [1..Len(ctxs) -> Context] /\ i \in 1..Len(ctxs)
    BY <1>1, <1>2, SeqLen, Zenon DEF TypeOK, CtxIds
  <2>2. [ctxs EXCEPT ![i].fences[s] = op[t].fence] = [ctxs EXCEPT ![i] = d]
    BY <2>1, Zenon DEF d, g
  <2>3. ctxs' = [[ctxs EXCEPT ![i] = d] EXCEPT ![i].sequence = d.sequence + 1]
    BY <1>0, <1>5, <2>1, <2>2, Zenon
  <2> QED
    BY <1>5, <2>1, <2>3, Zenon
<1> HIDE DEF e
<1>8. /\ ctxs' \in Seq(Context) /\ Len(ctxs') = Len(ctxs)
      /\ ctxs'[i] = e /\ \A j \in CtxIds : j # i => ctxs'[j] = ctxs[j]
  BY <1>1, <1>2, <1>6, <1>7, CtxUpdate, Zenon
<1> QED
  BY <1>2, <1>3, <1>6, <1>8, Zenon DEF g, s

\* One field of a fence changes: its number, its place in the queue or its signal.
LEMMA FenceFieldUpdate ==
    ASSUME TypeOK, NEW f
    PROVE  /\ \A q \in Nat : [fences EXCEPT ![f].seq = q] \in Seq(Fence)
           /\ \A q \in Nat : [fences EXCEPT ![f].pushed = q] \in Seq(Fence)
           /\ [fences EXCEPT ![f].signaled = TRUE] \in Seq(Fence)
<1>1. fences \in Seq(Fence) /\ DOMAIN fences = FenceIds
  BY SeqLen, Zenon DEF TypeOK, FenceIds
<1>2. ASSUME f \notin FenceIds PROVE \A e : [fences EXCEPT ![f] = e] = fences
  BY <1>1, <1>2, SeqLen, Zenon DEF FenceIds
<1>3. ASSUME NEW e \in Fence PROVE [fences EXCEPT ![f] = e] \in Seq(Fence)
  BY <1>1, <1>2, SeqUpdate, Zenon DEF FenceIds
<1>4. ASSUME f \in FenceIds
      PROVE  /\ \A q \in Nat : [fences[f] EXCEPT !.seq = q] \in Fence
             /\ \A q \in Nat : [fences[f] EXCEPT !.pushed = q] \in Fence
             /\ [fences[f] EXCEPT !.signaled = TRUE] \in Fence
  <2>1. fences[f] \in Fence
    BY <1>4, FencesType, Zenon
  <2> QED
    BY <2>1, Zenon DEF Fence
<1> QED
  BY <1>1, <1>2, <1>3, <1>4, Zenon

-----------------------------------------------------------------------------
(* The fence slots: what the waits rest on *)

N == amdgpu_sched_jobs

\* The numbers of the fences of a context are below its sequence number and all different; a
\* fence whose slot has been used again is signaled, the others are in their slots, unless
\* the context has been put twice, and a slot holds nothing else.
FenceOk(f) ==
    /\ fences[f].ctx \in CtxIds
    /\ fences[f].seq < ctxs[fences[f].ctx].sequence
    /\ fences[f].seq # None =>
        /\ \A g \in FenceIds :
            fences[g].ctx = fences[f].ctx /\ fences[g].seq = fences[f].seq => g = f
        /\ SlotReused(ctxs[fences[f].ctx], fences[f].seq) /\ ctxs[fences[f].ctx].twice = 0
            => fences[f].signaled
        /\ ~SlotReused(ctxs[fences[f].ctx], fences[f].seq) /\ ctxs[fences[f].ctx].twice = 0
           /\ ctxs[fences[f].ctx].refcount > 0
            => ctxs[fences[f].ctx].fences[SlotOf(fences[f].seq)] = f

SlotOk(c, s) ==
    LET f == ctxs[c].fences[s]
    IN  f # None => /\ f \in FenceIds /\ fences[f].ctx = c /\ fences[f].seq # None
                    /\ SlotOf(fences[f].seq) = s /\ ~SlotReused(ctxs[c], fences[f].seq)

SlotInv == /\ \A f \in FenceIds : FenceOk(f)
           /\ \A c \in CtxIds : \A s \in Slots : SlotOk(c, s)

\* A submission has the page directory reserved while it works on the slots; between its look
\* at the next slot and its replacement the slot stays as it was; a wait that has found no
\* error asks for a number that has been given.
ThreadOk(t) ==
    /\ pc[t] \in {"dependencies", "dep_fence", "submit", "add_fence", "push"} => pd = t
    /\ pc[t] = "add_fence" =>
        /\ op[t].seq = ctxs[op[t].ctx].sequence
        /\ ctxs[op[t].ctx].twice = 0 => op[t].other = ctxs[op[t].ctx].fences[SlotOf(op[t].seq)]
        /\ op[t].fence \in FenceIds /\ fences[op[t].fence].ctx = op[t].ctx
        /\ fences[op[t].fence].seq = None
    /\ pc[t] = "wait" /\ op[t].fence # EINVAL => op[t].seq < ctxs[op[t].ctx].sequence

Wanted(t) == {f \in FenceIds : /\ fences[f].ctx = op[t].ctx
                               /\ fences[f].seq = op[t].seq /\ op[t].seq # 0}

LookupOk(t) ==
    pc[t] = "wait" /\ op[t].fence # EINVAL /\ ctxs[op[t].ctx].twice = 0 =>
        IF op[t].fence = None THEN \A f \in Wanted(t) : Signaled(f) ELSE Wanted(t) = {op[t].fence}

LookupInv == SlotInv /\ \A t \in Tasks : ThreadOk(t) /\ LookupOk(t)

\* the contexts of calls are alive, and numbered from 1
Alive == /\ \A t \in Tasks : op[t].ctx \in CtxIds /\ ctxs[op[t].ctx].twice = 0
                              => ctxs[op[t].ctx].refcount > 0
         /\ \A c \in CtxIds : ctxs[c].sequence \in Nat \ {0}

\* No thread uses a released context that has not been put twice, in this state and in the
\* next.
LEMMA AliveNext == (CtxInv => Alive) /\ (CtxInv' => Alive')
<1>1. CtxInv => Alive
  BY HeldAlive, CtxType, Zenon DEF Alive, CtxInv
<1>2. CtxInv' => Alive'
  BY <1>1, PTL
<1> QED
  BY <1>1, <1>2, Zenon

\* what every step but amdgpu_ctx_add_fence does to the contexts ...
CtxsKept ==
    /\ Len(ctxs') >= Len(ctxs)
    /\ \A c \in CtxIds :
        /\ ctxs'[c].sequence = ctxs[c].sequence
        /\ ctxs'[c].twice = 0 => ctxs[c].twice = 0
        /\ \/ /\ ctxs'[c].fences = ctxs[c].fences
              /\ ctxs'[c].twice = 0 /\ ctxs'[c].refcount > 0 => ctxs[c].refcount > 0
           \/ ctxs'[c].refcount = 0 /\ ctxs'[c].fences = [s \in Slots |-> None]
    /\ \A c \in CtxIds' : c \notin CtxIds => ctxs'[c].fences = [s \in Slots |-> None]

\* ... and to the fences
FencesKept ==
    /\ Len(fences') >= Len(fences)
    /\ \A f \in FenceIds : /\ fences'[f].ctx = fences[f].ctx /\ fences'[f].seq = fences[f].seq
                           /\ fences[f].signaled => fences'[f].signaled
    /\ \A f \in FenceIds' : f \notin FenceIds => fences'[f].ctx \in CtxIds /\ fences'[f].seq = None

\* Such a step keeps the slots right.
LEMMA SlotsKept ==
    ASSUME CtxInv, CtxInv', SlotInv, CtxsKept, FencesKept
    PROVE  SlotInv'
<1>1. TypeOK /\ TypeOK'
  BY Zenon DEF CtxInv
<1>2. CtxIds \subseteq CtxIds' /\ FenceIds \subseteq FenceIds'
  BY <1>1, CtxType, FencesType DEF CtxsKept, FencesKept, CtxIds, FenceIds
<1>3. ASSUME NEW f \in FenceIds' PROVE FenceOk(f)'
  <2>1. CASE f \in FenceIds
    <3> DEFINE c == fences[f].ctx
    <3>1. FenceOk(f) /\ c \in CtxIds /\ fences'[f].ctx = c /\ fences'[f].seq = fences[f].seq
      BY <2>1, Zenon DEF SlotInv, FenceOk, FencesKept
    <3>2. ctxs'[c].sequence = ctxs[c].sequence
      BY <3>1, Zenon DEF CtxsKept
    <3>3. SlotReused(ctxs'[c], fences[f].seq) <=> SlotReused(ctxs[c], fences[f].seq)
      BY <3>2, Zenon DEF SlotReused
    <3>4. /\ ctxs'[c].twice = 0 => ctxs[c].twice = 0
          /\ ctxs'[c].twice = 0 /\ ctxs'[c].refcount > 0 =>
            ctxs[c].refcount > 0 /\ ctxs'[c].fences = ctxs[c].fences
      BY <3>1, SMTT(60) DEF CtxsKept
    <3>5. ASSUME NEW g \in FenceIds', fences'[g].ctx = c, fences'[g].seq = fences[f].seq,
                 fences[f].seq # None
          PROVE  g = f
      <4>1. g \in FenceIds
        BY <3>5, Zenon DEF FencesKept
      <4> QED
        BY <3>1, <3>5, <4>1 DEF FenceOk, FencesKept
    <3>6. fences[f].signaled => fences'[f].signaled
      BY <2>1, Zenon DEF FencesKept
    <3> HIDE DEF c
    <3>7. /\ c \in CtxIds' /\ fences'[f].seq < ctxs'[c].sequence
      BY <1>2, <3>1, <3>2, Zenon DEF FenceOk, c
    <3>8. fences[f].seq # None =>
            /\ SlotReused(ctxs'[c], fences[f].seq) /\ ctxs'[c].twice = 0 => fences'[f].signaled
            /\ ~SlotReused(ctxs'[c], fences[f].seq) /\ ctxs'[c].twice = 0 /\ ctxs'[c].refcount > 0
                => ctxs'[c].fences[SlotOf(fences[f].seq)] = f
      BY <3>1, <3>3, <3>4, <3>6, Zenon DEF FenceOk, c
    <3> QED
      BY <3>1, <3>5, <3>7, <3>8, Zenon DEF FenceOk
  <2>2. CASE f \notin FenceIds
    <3>1. fences'[f].ctx \in CtxIds /\ fences'[f].seq = None
      BY <2>2, Zenon DEF FencesKept
    <3>2. ctxs'[fences'[f].ctx].sequence \in Nat \ {0}
      BY <1>2, <3>1, AliveNext, Zenon DEF Alive
    <3> QED
      BY <1>2, <3>1, <3>2 DEF FenceOk, None
  <2> QED
    BY <2>1, <2>2, Zenon
<1>4. ASSUME NEW c \in CtxIds', NEW s \in Slots PROVE SlotOk(c, s)'
  <2>1. CASE ctxs'[c].fences = [q \in Slots |-> None]
    BY <2>1, Zenon DEF SlotOk
  <2>2. CASE c \in CtxIds /\ ctxs'[c].fences = ctxs[c].fences
    <3> DEFINE f == ctxs[c].fences[s]
    <3>1. SlotOk(c, s)
      BY <2>2, Zenon DEF SlotInv
    <3>2. ctxs'[c].sequence = ctxs[c].sequence
      BY <2>2, Zenon DEF CtxsKept
    <3>3. SlotReused(ctxs'[c], fences[f].seq) <=> SlotReused(ctxs[c], fences[f].seq)
      BY <3>2, Zenon DEF SlotReused
    <3>4. f # None => f \in FenceIds' /\ fences'[f].ctx = fences[f].ctx /\ fences'[f].seq = fences[f].seq
      BY <1>2, <3>1, Zenon DEF SlotOk, FencesKept
    <3> QED
      BY <2>2, <3>1, <3>3, <3>4, Zenon DEF SlotOk
  <2> QED
    BY <2>1, <2>2, Zenon DEF CtxsKept
<1> QED
  BY <1>3, <1>4, Zenon DEF SlotInv

\* ... and leaves the other threads where they were.
LEMMA ThreadKept ==
    ASSUME CtxInv, CtxInv', SlotInv, CtxsKept, FencesKept,
           NEW u \in Tasks, ThreadOk(u), LookupOk(u),
           pc'[u] = pc[u], op'[u] = op[u], pd = u => pd' = u
    PROVE  ThreadOk(u)' /\ LookupOk(u)'
<1>1. TypeOK /\ TypeOK'
  BY Zenon DEF CtxInv
<1>2. CtxIds \subseteq CtxIds' /\ FenceIds \subseteq FenceIds'
  BY <1>1, CtxType, FencesType DEF CtxsKept, FencesKept, CtxIds, FenceIds
<1>3. CASE pc[u] = "add_fence"
  <2>1. op[u].ctx \in CtxIds
    BY <1>3, CallCtx, Zenon
  <2>2. ctxs'[op[u].ctx].twice = 0 => ctxs'[op[u].ctx].refcount > 0
    BY <1>2, <2>1, AliveNext, Zenon DEF Alive
  <2>3. /\ ctxs'[op[u].ctx].sequence = ctxs[op[u].ctx].sequence
        /\ ctxs'[op[u].ctx].twice = 0 =>
            ctxs[op[u].ctx].twice = 0 /\ ctxs'[op[u].ctx].fences = ctxs[op[u].ctx].fences
    BY <2>1, <2>2 DEF CtxsKept
  <2>4. /\ op[u].fence \in FenceIds /\ fences[op[u].fence].ctx = op[u].ctx
        /\ fences[op[u].fence].seq = None
    BY <1>3, Zenon DEF ThreadOk
  <2>5. /\ op[u].fence \in FenceIds' /\ fences'[op[u].fence].ctx = op[u].ctx
        /\ fences'[op[u].fence].seq = None
    BY <1>2, <2>4, Zenon DEF FencesKept
  <2> QED
    BY <1>3, <2>3, <2>5, Zenon DEF ThreadOk, LookupOk
<1>4. CASE pc[u] = "wait"
  <2>1. op[u].ctx \in CtxIds
    BY <1>4, CallCtx, Zenon
  <2>2. /\ ctxs'[op[u].ctx].sequence = ctxs[op[u].ctx].sequence
        /\ ctxs'[op[u].ctx].twice = 0 => ctxs[op[u].ctx].twice = 0
    BY <2>1, Zenon DEF CtxsKept
  <2>3. Wanted(u)' = Wanted(u)
    <3>1. \A f \in Wanted(u) : f \in Wanted(u)'
      BY <1>2, Zenon DEF Wanted, FencesKept
    <3>2. ASSUME NEW f \in Wanted(u)' PROVE f \in Wanted(u)
      BY <1>2, Zenon DEF Wanted, FencesKept, None
    <3> QED
      BY <3>1, <3>2, Zenon
  <2>4. \A f \in Wanted(u) : Signaled(f) => Signaled(f)'
    BY Zenon DEF Wanted, Signaled, FencesKept
  <2> QED
    BY <1>4, <2>2, <2>3, <2>4, Zenon DEF ThreadOk, LookupOk
<1>5. CASE pc[u] \notin {"add_fence", "wait"}
  BY <1>5, Zenon DEF ThreadOk, LookupOk
<1> QED
  BY <1>3, <1>4, <1>5, Zenon

\* A step that changes no context keeps the contexts.
LEMMA CtxsUnchanged == ASSUME TypeOK, UNCHANGED ctxs PROVE CtxsKept
BY CtxType DEF CtxsKept, CtxIds

\* The same for a step that changes no fence.
LEMMA FencesUnchanged == ASSUME TypeOK, UNCHANGED fences PROVE FencesKept
BY FencesType DEF FencesKept, FenceIds

\* kref_get, kref_put and the slips keep the slots of a context, or clear them with the last
\* reference.
LEMMA CtxsUpdated ==
    ASSUME TypeOK, NEW i \in CtxIds, ctxs[i].twice = 0 => ctxs[i].refcount > 0,
           NEW e \in {kref_get(ctxs[i]), kref_put(ctxs[i]), PutEarly(ctxs[i]), Forgotten(ctxs[i])},
           ctxs' = [ctxs EXCEPT ![i] = e]
    PROVE  CtxsKept
<1>1. ctxs[i] \in Context /\ ctxs[i].refcount \in Int /\ ctxs[i].twice \in Nat
  BY CtxType, Zenon
<1>2. /\ e \in Context /\ e.sequence = ctxs[i].sequence
      /\ e.twice = ctxs[i].twice \/ e.twice = ctxs[i].twice + 1
      /\ \/ e.fences = ctxs[i].fences
         \/ e.refcount = 0 /\ e.fences = [s \in Slots |-> None]
  <2>1. CASE e = kref_get(ctxs[i])
    BY <1>1, <2>1, GetFacts, Zenon
  <2>2. CASE e = kref_put(ctxs[i])
    BY <1>1, <2>2, PutFacts
  <2>3. CASE e = Forgotten(ctxs[i])
    BY <1>1, <2>3, ForgottenFacts, Zenon
  <2>4. CASE e = PutEarly(ctxs[i])
    BY <1>1, <2>4, PutEarlyFacts
  <2> QED
    BY <2>1, <2>2, <2>3, <2>4, Zenon
<1>3. /\ Len(ctxs') = Len(ctxs) /\ ctxs'[i] = e /\ \A j \in CtxIds : j # i => ctxs'[j] = ctxs[j]
  BY <1>2, CtxUpdate, Zenon
<1>4. e.twice = 0 => ctxs[i].twice = 0 /\ ctxs[i].refcount > 0
  BY <1>1, <1>2
<1> QED
  BY <1>2, <1>3, <1>4, CtxType DEF CtxsKept, CtxIds

\* The calls that take or drop a reference keep contexts and fences.
LEMMA CallKept ==
    ASSUME CtxInv, NEW t \in Tasks, Call(t)
    PROVE  CtxsKept /\ FencesKept
<1>1. TypeOK /\ DOMAIN handles = 1..MaxHandles
  BY Zenon DEF CtxInv, TypeOK
<1>2. PICK h \in 1..MaxHandles :
          \/ Alloc(t, h) \/ Free(t, h) \/ CsBegin(t, h)
          \/ \E seq \in Seqs : CsDependency(t, h, seq) \/ WaitBegin(t, h, seq)
  BY <1>1, Zenon DEF Call
<1>3. UNCHANGED fences
  BY <1>2, Zenon DEF Alloc, Free, CsBegin, CsDependency, WaitBegin
<1>4. FencesKept
  BY <1>1, <1>3, FencesUnchanged, Zenon
<1>5. CASE Alloc(t, h)
  <2> DEFINE new == [refcount |-> 1, lost |-> 0, twice |-> 0, sequence |-> 1,
                    fences |-> [s \in Slots |-> None]]
  <2>1. new \in Context /\ new.fences = [s \in Slots |-> None]
    BY DEF Context, None
  <2>2. ctxs' = Append(ctxs, new)
    BY <1>5, Zenon DEF Alloc
  <2> HIDE DEF new
  <2>3. /\ Len(ctxs') = Len(ctxs) + 1 /\ ctxs'[Len(ctxs) + 1] = new
        /\ \A c \in CtxIds : ctxs'[c] = ctxs[c]
    BY <1>1, <2>1, <2>2, SeqAppend, SMTT(60) DEF TypeOK, CtxIds
  <2>4. \A c \in CtxIds' : c \in CtxIds \/ c = Len(ctxs) + 1
    BY <1>1, <2>3, CtxType DEF CtxIds
  <2> QED
    BY <1>1, <1>4, <2>1, <2>3, <2>4, CtxType, SMTT(60) DEF CtxsKept
<1>6. CASE ~Alloc(t, h)
  <2>1. /\ handles[h] # None
        /\ \/ ctxs' = [ctxs EXCEPT ![handles[h]] = kref_get(ctxs[handles[h]])]
           \/ ctxs' = [ctxs EXCEPT ![handles[h]] = kref_put(ctxs[handles[h]])]
    BY <1>2, <1>6, Zenon DEF Free, CsBegin, CsDependency, WaitBegin
  <2>2. handles[h] \in CtxIds
    BY <1>1, <2>1, CtxType DEF CtxInv, TypeOK, Allocated, CtxIds, None
  <2>3. ctxs[handles[h]].twice = 0 => ctxs[handles[h]].refcount > 0
    BY <2>2, HeldAlive, Zenon
  <2> QED
    BY <1>1, <1>4, <2>1, <2>2, <2>3, CtxsUpdated, Zenon
<1> QED
  BY <1>5, <1>6, Zenon

\* So do the ends of calls, and the failure of amdgpu_cs_parser_init ...
LEMMA EndKept ==
    ASSUME CtxInv, NEW t \in Tasks, pc[t] # "idle", UNCHANGED fences,
           \/ ctxs' = [ctxs EXCEPT ![op[t].ctx] = kref_put(@)]
           \/ ctxs' = [ctxs EXCEPT ![op[t].ctx] = PutEarly(@)]
    PROVE  CtxsKept /\ FencesKept
<1>1. op[t].ctx \in CtxIds
  BY CallCtx, Zenon
<1>2. ctxs[op[t].ctx].twice = 0 => ctxs[op[t].ctx].refcount > 0
  BY <1>1, HeldAlive, Zenon
<1> QED
  BY <1>1, <1>2, CtxsUpdated, FencesUnchanged, Zenon DEF CtxInv

\* ... and the other steps of a submission, but the one that adds the fence.
LEMMA SubmissionKept ==
    ASSUME CtxInv, NEW t \in Tasks,
           \/ CsReserve(t) \/ CsFail(t) \/ CsSubmit(t) \/ CsPush(t) \/ CsDependencyFence(t)
           \/ WaitFence(t)
    PROVE  CtxsKept /\ FencesKept
<1>0. TypeOK
  BY Zenon DEF CtxInv
<1>1. CASE CsReserve(t) \/ CsFail(t) \/ WaitFence(t)
  <2>1. UNCHANGED <<ctxs, fences>>
    BY <1>1, Zenon DEF CsReserve, CsFail, WaitFence
  <2> QED
    BY <1>0, <2>1, CtxsUnchanged, FencesUnchanged, Zenon
<1>2. CASE CsSubmit(t)
  <2> DEFINE new == [ctx |-> op[t].ctx, seq |-> None, dep |-> op[t].dep,
                     pushed |-> None, signaled |-> FALSE]
  <2>1. new \in Fence /\ fences' = Append(fences, new) /\ op[t].ctx \in CtxIds
    BY <1>2, SubmitFacts, Zenon
  <2>2. new.ctx = op[t].ctx /\ new.seq = None
    BY Zenon
  <2>3. UNCHANGED ctxs
    BY <1>2, Zenon DEF CsSubmit
  <2> HIDE DEF new
  <2>4. /\ Len(fences') = Len(fences) + 1 /\ fences'[Len(fences) + 1] = new
        /\ \A f \in FenceIds : fences'[f] = fences[f]
    BY <1>0, <2>1, SeqAppend, SMTT(60) DEF TypeOK, FenceIds
  <2>5. \A f \in FenceIds' : f \in FenceIds \/ f = Len(fences) + 1
    BY <1>0, <2>4, FencesType, SMTT(60) DEF FenceIds
  <2> QED
    <3>1. CtxsKept
      BY <1>0, <2>3, CtxsUnchanged, Zenon
    <3>2. ASSUME NEW f \in FenceIds', f \notin FenceIds
          PROVE  fences'[f].ctx \in CtxIds /\ fences'[f].seq = None
      BY <2>1, <2>2, <2>4, <2>5, <3>2, Zenon
    <3>3. Len(fences') >= Len(fences)
      BY <1>0, <2>4, FencesType
    <3> QED
      BY <2>4, <3>1, <3>2, <3>3, Zenon DEF FencesKept
<1>3. CASE CsPush(t)
  <2>1. fences' = [fences EXCEPT ![op[t].fence].pushed = Pushed + 1] /\ UNCHANGED ctxs
    BY <1>3, Zenon DEF CsPush
  <2>2. fences \in [1..Len(fences) -> Fence]
    BY <1>0, SeqLen, Zenon DEF TypeOK
  <2>3. Pushed + 1 \in Nat
    BY DEF CtxInv
  <2>4. fences' \in Seq(Fence)
    BY <1>0, <2>1, <2>3, FenceFieldUpdate, Zenon
  <2>5. Len(fences') = Len(fences)
    BY <1>0, <2>1, <2>2, <2>4, FencesType, SeqLen, SMTT(60)
  <2>6. \A f \in FenceIds : fences'[f].ctx = fences[f].ctx /\ fences'[f].seq = fences[f].seq
                            /\ fences'[f].signaled = fences[f].signaled
    BY <2>1, <2>2, Zenon DEF FenceIds, Fence
  <2> QED
    BY <1>0, <2>1, <2>5, <2>6, CtxsUnchanged, FencesType, SMTT(60) DEF FencesKept, FenceIds
<1>4. CASE CsDependencyFence(t)
  <2> DEFINE i == op[t].dep_ctx
             f == amdgpu_ctx_get_fence(ctxs[i], op[t].seq)
  <2>1. /\ pc[t] = "dep_fence" /\ UNCHANGED fences
        /\ ctxs' = [ctxs EXCEPT ![i] = IF f = None THEN Forgotten(ctxs[i]) ELSE kref_put(ctxs[i])]
    BY <1>4, Zenon DEF CsDependencyFence
  <2> HIDE DEF f
  <2>2. i \in CtxIds
    BY <1>0, <2>1, CtxType DEF CtxInv, TypeOK, Allocated, Holding, Locals, CtxIds, None
  <2>3. ctxs[i].twice = 0 => ctxs[i].refcount > 0
    BY <2>2, HeldAlive, Zenon
  <2> QED
    BY <1>0, <2>1, <2>2, <2>3, CtxsUpdated, FencesUnchanged, Zenon
<1> QED
  BY <1>1, <1>2, <1>3, <1>4, Zenon

\* amdgpu_ctx_add_fence: the fence that leaves the slot is signaled, and no other fence with
\* a number that is still in reach belongs into that slot.
LEMMA AddFenceStep ==
    ASSUME CtxInv, LookupInv, NEW t \in Tasks, CsAddFence(t)
    PROVE  LookupInv'
<1>i. PICK i : i = op[t].ctx
  BY Zenon
<1>s. PICK s : s = op[t].seq
  BY Zenon
<1>k. PICK k : k = SlotOf(s)
  BY Zenon
<1>f. PICK f0 : f0 = op[t].fence
  BY Zenon
<1>0. TypeOK /\ SlotInv /\ ThreadOk(t)
  BY Zenon DEF CtxInv, LookupInv
<1>1. /\ pc[t] = "add_fence" /\ Signaled(op[t].other) /\ pc' = [pc EXCEPT ![t] = "push"]
      /\ fences' = [fences EXCEPT ![f0].seq = s] /\ UNCHANGED <<handles, pd, closed, op>>
  BY <1>s, <1>f, Zenon DEF CsAddFence
<1>2. /\ pd = t /\ s = ctxs[i].sequence
      /\ ctxs[i].twice = 0 => op[t].other = ctxs[i].fences[k]
      /\ f0 \in FenceIds /\ fences[f0].ctx = i /\ fences[f0].seq = None
  BY <1>0, <1>1, <1>i, <1>s, <1>k, <1>f, Zenon DEF ThreadOk
<1>3. /\ i \in CtxIds /\ k \in Slots /\ Len(ctxs') = Len(ctxs)
      /\ \A j \in CtxIds : j # i => ctxs'[j] = ctxs[j]
      /\ ctxs'[i].refcount = ctxs[i].refcount /\ ctxs'[i].twice = ctxs[i].twice
      /\ ctxs'[i].sequence = s + 1
      /\ ctxs'[i].fences = [ctxs[i].fences EXCEPT ![k] = f0]
  BY <1>2, <1>i, <1>s, <1>k, <1>f, AddFenceFacts, ZenonT(60)
<1>4. N \in Nat \ {0} /\ s \in Nat \ {0} /\ ctxs[i].fences \in [Slots -> Int]
  BY <1>0, <1>2, <1>3, CtxType, CtxAssumption, Zenon DEF N
<1>5. /\ \A q \in Slots : q # k => ctxs'[i].fences[q] = ctxs[i].fences[q]
      /\ ctxs'[i].fences[k] = f0
  BY <1>3, <1>4, Zenon
<1>6. /\ Len(fences') = Len(fences) /\ \A f \in FenceIds : f # f0 => fences'[f] = fences[f]
      /\ fences'[f0].ctx = i /\ fences'[f0].seq = s /\ fences'[f0].signaled = fences[f0].signaled
  <2>1. fences \in [1..Len(fences) -> Fence] /\ Len(fences) \in Nat
    BY <1>0, SeqLen, Zenon DEF TypeOK
  <2>2. fences' \in Seq(Fence)
    BY <1>0, <1>1, <1>4, FenceFieldUpdate, Zenon
  <2>3. Len(fences') = Len(fences)
    BY <1>1, <2>1, <2>2, SeqLen
  <2> QED
    BY <1>1, <1>2, <2>1, <2>3, Zenon DEF FenceIds, Fence
<1>7. (ctxs[i].twice = 0 => ctxs[i].refcount > 0) /\ CtxIds' = CtxIds /\ FenceIds' = FenceIds
  BY <1>3, <1>6, <1>i, HeldAlive, Zenon DEF CtxIds, FenceIds
<1>8. \A f \in FenceIds : /\ FenceOk(f) /\ f # None
                          /\ fences[f].seq \in Nat /\ SlotOf(fences[f].seq) \in Slots
  BY <1>0, FencesType, SlotOfIn DEF SlotInv, FenceIds, None
<1>9. ASSUME NEW f \in FenceIds, fences[f].ctx = i PROVE fences[f].seq < s
  <2>1. fences[f].seq < ctxs[fences[f].ctx].sequence
    BY <1>8, Zenon DEF FenceOk
  <2> QED
    BY <1>2, <1>9, <2>1, Zenon
<1>a. /\ \A q \in Nat : SlotReused(ctxs[i], q) <=> q + N < s
      /\ \A q \in Nat : SlotReused(ctxs'[i], q) <=> q + N < s + 1
  BY <1>2, <1>3, Zenon DEF SlotReused, N
<1>b. N \in Nat \ {0} /\ s \in Nat
  BY <1>4, Zenon
<1>10. ASSUME NEW f \in FenceIds PROVE FenceOk(f)'
  <2>1. CASE f = f0
    <3>1. ASSUME NEW g \in FenceIds, fences'[g].ctx = i, fences'[g].seq = s PROVE g = f0
      BY <1>4, <1>6, <1>8, <1>9, <3>1, SMTT(60)
    <3>2. ~SlotReused(ctxs'[i], s)
      BY <1>a, <1>b
    <3> QED
      <4>1. /\ fences'[f].ctx = i /\ fences'[f].seq = s /\ i \in CtxIds'
            /\ ctxs'[i].fences[SlotOf(s)] = f
        BY <1>3, <1>5, <1>6, <1>7, <1>k, <2>1, Zenon
      <4>2. s < ctxs'[i].sequence
        BY <1>3, <1>b, SMTT(60)
      <4> QED
        BY <1>7, <2>1, <3>1, <3>2, <4>1, <4>2, Zenon DEF FenceOk
  <2>2. CASE f # f0 /\ fences[f].ctx # i
    <3>1. fences'[f] = fences[f] /\ fences[f].ctx \in CtxIds /\ FenceOk(f)
      BY <1>6, <1>8, <2>2, Zenon DEF FenceOk
    <3>2. ctxs'[fences[f].ctx] = ctxs[fences[f].ctx]
      BY <1>3, <2>2, <3>1, Zenon
    <3>3. ASSUME NEW g \in FenceIds, fences'[g].ctx = fences[f].ctx PROVE fences'[g] = fences[g]
      BY <1>6, <2>2, <3>3, Zenon
    <3> QED
      BY <1>7, <3>1, <3>2, <3>3, ZenonT(60) DEF FenceOk
  <2>3. CASE f # f0 /\ fences[f].ctx = i
    <3> DEFINE q == fences[f].seq
    <3>1. fences'[f] = fences[f] /\ FenceOk(f) /\ q \in Nat /\ q < s /\ SlotOf(q) \in Slots
      BY <1>6, <1>8, <1>9, <2>3, Zenon
    <3>2. ASSUME NEW g \in FenceIds, q # None, fences'[g].ctx = i, fences'[g].seq = q
          PROVE  g = f
      <4>1. g # f0
        BY <1>4, <1>6, <3>1, <3>2, SMTT(60)
      <4> QED
        BY <1>6, <2>3, <3>1, <3>2, <4>1, Zenon DEF FenceOk
    <3>3. ASSUME q # None, SlotReused(ctxs'[i], q), ctxs[i].twice = 0 PROVE fences[f].signaled
      <4>1. CASE SlotReused(ctxs[i], q)
        BY <2>3, <3>1, <3>3, <4>1, Zenon DEF FenceOk
      <4>2. CASE ~SlotReused(ctxs[i], q)
        <5>1. q + N = s
          <6>1. q \in Nat /\ q + N < s + 1 /\ ~(q + N < s)
            BY <1>a, <3>1, <3>3, <4>2, Zenon
          <6> HIDE DEF q
          <6> QED
            BY <1>b, <6>1
        <5>2. SlotOf(q) = k
          <6>1. SlotOf(q + N) = SlotOf(q)
            BY <3>1, SlotOfTurn, Zenon DEF N
          <6> QED
            BY <5>1, <6>1, <1>k, Zenon
        <5>3. ctxs[i].fences[k] = f
          BY <1>7, <2>3, <3>1, <3>3, <4>2, <5>2, Zenon DEF FenceOk
        <5> QED
          BY <1>1, <1>2, <1>8, <3>3, <5>3, Zenon DEF Signaled
      <4> QED
        BY <4>1, <4>2, Zenon
    <3>4. ASSUME q # None, ~SlotReused(ctxs'[i], q), ctxs[i].twice = 0 PROVE ctxs'[i].fences[SlotOf(q)] = f
      <4>1. ~SlotReused(ctxs[i], q) /\ s - q < N
        <5>1. q \in Nat /\ ~(q + N < s + 1) /\ (~SlotReused(ctxs[i], q) <=> ~(q + N < s))
          BY <1>a, <3>1, <3>4, Zenon
        <5> HIDE DEF q
        <5> QED
          BY <1>b, <5>1
      <4>2. SlotOf(q) # k
        BY <1>b, <3>1, <4>1, <1>k, SlotOfNe, ZenonT(60) DEF N
      <4> QED
        BY <1>5, <1>7, <2>3, <3>1, <3>4, <4>1, <4>2, ZenonT(60) DEF FenceOk
    <3>5. q < ctxs'[i].sequence
      BY <1>3, <1>4, <3>1
    <3> QED
      <4>1. fences'[f].ctx = i /\ fences'[f].seq = q /\ i \in CtxIds'
        BY <1>3, <1>7, <2>3, <3>1, Zenon
      <4>2. fences'[f].signaled = fences[f].signaled
        BY <3>1, Zenon
      <4> HIDE DEF q
      <4> QED
        BY <1>3, <1>7, <3>2, <3>3, <3>4, <3>5, <4>1, <4>2, ZenonT(60) DEF FenceOk
  <2> QED
    BY <2>1, <2>2, <2>3, Zenon
<1>11. ASSUME NEW c \in CtxIds, NEW q \in Slots PROVE SlotOk(c, q)'
  <2> DEFINE f == ctxs[c].fences[q]
  <2>0. SlotOk(c, q)
    BY <1>0, Zenon DEF SlotInv
  <2>1. CASE c # i
    <3>1. ctxs'[c] = ctxs[c]
      BY <1>3, <2>1, Zenon
    <3>2. f # None => f # f0
      BY <1>2, <2>0, <2>1, Zenon DEF SlotOk
    <3> QED
      BY <1>6, <1>7, <2>0, <3>1, <3>2, Zenon DEF SlotOk
  <2>2. CASE c = i /\ q = k
    <3>1. ~SlotReused(ctxs'[i], s)
      BY <1>a, <1>b
    <3> QED
      <4>1. /\ ctxs'[c].fences[q] = f0 /\ f0 \in FenceIds' /\ fences'[f0].ctx = c
            /\ fences'[f0].seq = s /\ SlotOf(s) = q /\ s # None
        BY <1>2, <1>4, <1>5, <1>6, <1>7, <1>k, <2>2, ZenonT(60) DEF None
      <4> QED
        BY <2>2, <3>1, <4>1, Zenon DEF SlotOk
  <2>3. CASE c = i /\ q # k
    <3>1. ctxs'[c].fences[q] = f
      BY <1>5, <2>3, Zenon
    <3>2. ASSUME f # None
          PROVE  /\ f \in FenceIds /\ fences'[f].ctx = c /\ fences'[f].seq # None
                 /\ SlotOf(fences'[f].seq) = q /\ ~SlotReused(ctxs'[c], fences'[f].seq)
      <4>1. /\ f \in FenceIds /\ fences[f].ctx = c /\ fences[f].seq # None
            /\ SlotOf(fences[f].seq) = q /\ ~SlotReused(ctxs[c], fences[f].seq)
        BY <2>0, <3>2, Zenon DEF SlotOk
      <4>2. fences'[f] = fences[f]
        BY <1>2, <1>6, <4>1, Zenon
      <4> HIDE DEF f
      <4>3. fences[f].seq + N # s
        <5>1. SlotOf(fences[f].seq + N) = SlotOf(fences[f].seq)
          <6>1. fences[f].seq \in Nat
            BY <1>8, <4>1, Zenon
          <6> QED
            BY <6>1, SlotOfTurn, Zenon DEF N
        <5> QED
          BY <2>3, <4>1, <5>1, <1>k, Zenon
      <4>4. ~SlotReused(ctxs'[c], fences[f].seq)
        <5> DEFINE r == fences[f].seq
        <5>1. r \in Nat /\ r + N # s /\ ~(r + N < s)
          BY <1>8, <1>a, <2>3, <4>1, <4>3, Zenon
        <5>2. SlotReused(ctxs'[c], r) <=> r + N < s + 1
          BY <1>a, <2>3, <5>1, Zenon
        <5> HIDE DEF r
        <5>3. ~(r + N < s + 1)
          BY <1>b, <5>1
        <5> QED
          BY <5>2, <5>3, Zenon DEF r
      <4> QED
        BY <4>1, <4>2, <4>4, Zenon
    <3> HIDE DEF f
    <3> QED
      BY <1>7, <3>1, <3>2, Zenon DEF SlotOk
  <2> QED
    BY <2>1, <2>2, <2>3, Zenon
<1>12. ASSUME NEW u \in Tasks PROVE ThreadOk(u)' /\ LookupOk(u)'
  <2>1. CASE u = t
    BY <1>0, <1>1, <1>2, <2>1, Zenon DEF ThreadOk, LookupOk, TypeOK
  <2>2. CASE u # t /\ pc[u] # "wait"
    <3>1. ThreadOk(u) /\ pc'[u] = pc[u] /\ op'[u] = op[u] /\ pd' = pd
      BY <1>0, <1>1, <2>2, Zenon DEF LookupInv, TypeOK
    <3>2. pc[u] \notin {"dependencies", "dep_fence", "submit", "add_fence", "push"}
      BY <1>2, <2>2, <3>1, Zenon DEF ThreadOk
    <3> QED
      BY <2>2, <3>1, <3>2, Zenon DEF ThreadOk, LookupOk
  <2>3. CASE u # t /\ pc[u] = "wait"
    <3>1. ThreadOk(u) /\ LookupOk(u) /\ pc'[u] = pc[u] /\ op'[u] = op[u]
      BY <1>0, <1>1, <2>3, Zenon DEF LookupInv, TypeOK
    <3>2. op[u].ctx \in CtxIds /\ op[u].seq \in Nat
      BY <1>0, <2>3, CallCtx, Zenon DEF Locals
    <3>3. ASSUME op[u].fence # EINVAL
          PROVE  /\ op[u].seq < ctxs[op[u].ctx].sequence
                 /\ op[u].seq < ctxs'[op[u].ctx].sequence
      <4>1. op[u].seq < ctxs[op[u].ctx].sequence
        BY <2>3, <3>1, <3>3, Zenon DEF ThreadOk
      <4>2. CASE op[u].ctx = i
        BY <1>2, <1>3, <1>4, <3>2, <4>1, <4>2, SMTT(60)
      <4>3. CASE op[u].ctx # i
        BY <1>3, <3>2, <4>1, <4>3, Zenon
      <4> QED
        BY <4>1, <4>2, <4>3, Zenon
    <3>4. ASSUME op[u].fence # EINVAL PROVE Wanted(u)' = Wanted(u)
      <4>1. f0 \notin Wanted(u)
        BY <1>2, Zenon DEF Wanted, None
      <4>2. f0 \notin Wanted(u)'
        <5>1. op[u].ctx = i => op[u].seq # s
          BY <1>2, <1>4, <3>2, <3>3, <3>4, SMTT(60)
        <5> QED
          BY <1>6, <3>1, <5>1, Zenon DEF Wanted
      <4>3. \A f \in FenceIds : f # f0 => (f \in Wanted(u)' <=> f \in Wanted(u))
        BY <1>6, <1>7, <3>1, Zenon DEF Wanted
      <4>4. Wanted(u) \subseteq FenceIds /\ Wanted(u)' \subseteq FenceIds
        BY <1>7, Zenon DEF Wanted
      <4> QED
        BY <4>1, <4>2, <4>3, <4>4, SMTT(60)
    <3>5. \A f \in FenceIds : Signaled(f)' <=> Signaled(f)
      BY <1>6, Zenon DEF Signaled
    <3>6. Wanted(u) \subseteq FenceIds
      BY Zenon DEF Wanted
    <3>7. ThreadOk(u)'
      BY <2>3, <3>1, <3>3, Zenon DEF ThreadOk
    <3>8. LookupOk(u)'
      <4>1. ctxs'[op[u].ctx].twice = ctxs[op[u].ctx].twice
        BY <1>3, <3>2, Zenon
      <4> QED
        BY <2>3, <3>1, <3>4, <3>5, <3>6, <4>1, Zenon DEF LookupOk
    <3> QED
      BY <3>7, <3>8, Zenon
  <2> QED
    BY <2>1, <2>2, <2>3, Zenon
<1> QED
  BY <1>7, <1>10, <1>11, <1>12, Zenon DEF LookupInv, SlotInv

\* amdgpu_ctx_get_fence returns the fence with that number, or none when it is signaled or
\* has never been.
LEMMA GetFenceExact ==
    ASSUME CtxInv, SlotInv, NEW c \in CtxIds, ctxs[c].twice = 0, ctxs[c].refcount > 0,
           NEW seq \in Nat,
           amdgpu_ctx_get_fence(ctxs[c], seq) # EINVAL
    PROVE  LET f == amdgpu_ctx_get_fence(ctxs[c], seq)
               W == {g \in FenceIds : fences[g].ctx = c /\ fences[g].seq = seq /\ seq # 0}
           IN  IF f = None THEN \A g \in W : Signaled(g) ELSE W = {f}
<1> DEFINE x == amdgpu_ctx_get_fence(ctxs[c], seq)
           W == {g \in FenceIds : fences[g].ctx = c /\ fences[g].seq = seq /\ seq # 0}
           n == ctxs[c].sequence
           k == SlotOf(seq)
<1>1. TypeOK
  BY Zenon DEF CtxInv
<1>2. /\ seq < n /\ k \in Slots
      /\ x = IF SlotReused(ctxs[c], seq) THEN None ELSE ctxs[c].fences[k]
  BY <1>1, CtxType, GetFenceType, Zenon DEF N
<1>3. N \in Nat \ {0} /\ n \in Nat
  BY <1>1, CtxAssumption, CtxType, Zenon DEF N
<1>4. \A q \in Nat : SlotReused(ctxs[c], q) <=> q + N < n
  BY Zenon DEF SlotReused, N
<1>5. \A g \in FenceIds : FenceOk(g) /\ fences[g].seq \in Nat /\ g # None
  BY <1>1, FencesType DEF SlotInv, FenceIds, None
<1> HIDE DEF x, k, n
<1>6. CASE SlotReused(ctxs[c], seq)
  <2>1. ASSUME NEW g \in W PROVE Signaled(g)
    BY <1>5, <1>6, Zenon DEF FenceOk, Signaled, None
  <2> QED
    BY <1>2, <1>6, <2>1, Zenon DEF x
<1>7. CASE ~SlotReused(ctxs[c], seq)
  <2>1. \A g \in W : x = g
    BY <1>2, <1>5, <1>7, Zenon DEF FenceOk, k, None
  <2>2. CASE x = None
    BY <1>5, <2>1, <2>2, Zenon DEF x
  <2>3. CASE x # None
    <3>1. SlotOk(c, k) /\ x = ctxs[c].fences[k]
      BY <1>2, <1>7, Zenon DEF SlotInv
    <3>2. /\ x \in FenceIds /\ fences[x].ctx = c /\ fences[x].seq # None
          /\ SlotOf(fences[x].seq) = k /\ ~SlotReused(ctxs[c], fences[x].seq)
      BY <2>3, <3>1, Zenon DEF SlotOk
    <3> DEFINE q == fences[x].seq
    <3>3. q \in Nat /\ q < n /\ ~(q + N < n) /\ ~(seq + N < n) /\ q # 0
      BY <1>4, <1>5, <1>7, <3>2, Zenon DEF FenceOk, n, None
    <3>4. SlotOf(q) = SlotOf(seq)
      BY <3>2, Zenon DEF k
    <3> HIDE DEF q
    <3>5. q - seq < N /\ seq - q < N
      BY <1>2, <1>3, <3>3
    <3>7. q = seq
      BY <3>3, <3>4, <3>5, SlotOfSame, Zenon DEF N
    <3>8. x \in W
      BY <3>2, <3>3, <3>7, Zenon DEF q
    <3>9. W = {x}
      BY <2>1, <3>8, Zenon
    <3> QED
      BY <2>3, <3>9, Zenon DEF x
  <2> QED
    BY <2>2, <2>3, Zenon
<1> QED
  BY <1>6, <1>7, Zenon

\* The steps of a thread other than amdgpu_ctx_add_fence keep the slots, and what they leave
\* the thread with is right.
LEMMA LookupQuiet ==
    ASSUME CtxInv, CtxInv', LookupInv, CtxsKept, FencesKept, NEW t \in Tasks,
           \A u \in Tasks : u # t => pc'[u] = pc[u] /\ op'[u] = op[u] /\ (pd = u => pd' = u),
           ThreadOk(t)', LookupOk(t)'
    PROVE  LookupInv'
<1>1. SlotInv'
  BY SlotsKept, Zenon DEF LookupInv
<1>2. ASSUME NEW u \in Tasks PROVE ThreadOk(u)' /\ LookupOk(u)'
  BY ThreadKept, Zenon DEF LookupInv
<1> QED
  BY <1>1, <1>2, Zenon DEF LookupInv

\* Every step keeps the slots, and what the threads know of them, right.
LEMMA LookupStep ==
    ASSUME CtxInv, CtxInv', LookupInv, [Next]_vars
    PROVE  LookupInv'
<1>0. TypeOK /\ SlotInv /\ \A u \in Tasks : ThreadOk(u) /\ LookupOk(u)
  BY Zenon DEF CtxInv, LookupInv
<1>1. ASSUME NEW t \in Tasks, Call(t) PROVE LookupInv'
  <2>1. \A u \in Tasks : u # t => pc'[u] = pc[u] /\ op'[u] = op[u] /\ pd' = pd
    BY <1>0, <1>1, ZenonT(60) DEF Call, Alloc, Free, CsBegin, CsDependency, WaitBegin, TypeOK
  <2>2. ThreadOk(t)' /\ LookupOk(t)'
    <3>1. \/ pc'[t] \in {"idle", "reserve", "get_fence"}
          \/ pc[t] = "dependencies" /\ pc'[t] = "dep_fence"
      BY <1>0, <1>1, Zenon DEF Call, Alloc, Free, CsBegin, CsDependency, WaitBegin, TypeOK
    <3>2. pd' = pd
      BY <1>1, Zenon DEF Call, Alloc, Free, CsBegin, CsDependency, WaitBegin
    <3> QED
      BY <1>0, <3>1, <3>2, Zenon DEF ThreadOk, LookupOk
  <2> QED
    BY <1>1, <2>1, <2>2, CallKept, LookupQuiet, Zenon
<1>2. ASSUME NEW t \in Tasks, pc[t] # "idle", pc' = [pc EXCEPT ![t] = "idle"],
             op' = [op EXCEPT ![t] = NoOp], ctxs' = [ctxs EXCEPT ![op[t].ctx] = kref_put(@)],
             UNCHANGED fences, pd' = pd \/ (pd = t /\ pd' = None)
      PROVE  LookupInv'
  <2>1. \A u \in Tasks : u # t => pc'[u] = pc[u] /\ op'[u] = op[u] /\ (pd = u => pd' = u)
    BY <1>0, <1>2, Zenon DEF TypeOK
  <2>2. ThreadOk(t)' /\ LookupOk(t)'
    BY <1>0, <1>2, Zenon DEF TypeOK, ThreadOk, LookupOk
  <2> QED
    BY <1>2, <2>1, <2>2, EndKept, LookupQuiet, Zenon
<1>3. ASSUME NEW t \in Tasks, CsFini(t) PROVE LookupInv'
  BY <1>2, <1>3, Zenon DEF CsFini
<1>4. ASSUME NEW t \in Tasks, pc[t] = "wait", WaitEnd(t) PROVE LookupInv'
  BY <1>2, <1>4, Zenon DEF WaitEnd
<1>13. ASSUME NEW t \in Tasks, CsInitFail(t) PROVE LookupInv'
  <2>1. /\ pc[t] = "reserve" /\ pc' = [pc EXCEPT ![t] = "fini"]
        /\ ctxs' = [ctxs EXCEPT ![op[t].ctx] = PutEarly(@)] /\ UNCHANGED <<fences, pd, op>>
    BY <1>13, Zenon DEF CsInitFail
  <2>2. \A u \in Tasks : u # t => pc'[u] = pc[u] /\ op'[u] = op[u] /\ (pd = u => pd' = u)
    BY <1>0, <2>1, Zenon DEF TypeOK
  <2>3. ThreadOk(t)' /\ LookupOk(t)'
    BY <1>0, <2>1, Zenon DEF TypeOK, ThreadOk, LookupOk
  <2>4. CtxsKept /\ FencesKept
    BY <2>1, EndKept, Zenon
  <2> QED
    BY <2>2, <2>3, <2>4, LookupQuiet, Zenon
<1>5. ASSUME NEW t \in Tasks, CsReserve(t) PROVE LookupInv'
  <2>1. /\ pc' = [pc EXCEPT ![t] = "dependencies"] /\ pd = None /\ pd' = t
        /\ UNCHANGED <<fences, op>>
    BY <1>5, Zenon DEF CsReserve, ReservePd
  <2>2. \A u \in Tasks : u # t => pc'[u] = pc[u] /\ op'[u] = op[u] /\ (pd = u => pd' = u)
    BY <1>0, <2>1, CtxAssumption, Zenon DEF TypeOK
  <2>3. ThreadOk(t)' /\ LookupOk(t)'
    BY <1>0, <2>1, Zenon DEF TypeOK, ThreadOk, LookupOk
  <2> QED
    BY <1>5, <2>2, <2>3, SubmissionKept, LookupQuiet, Zenon
<1>6. ASSUME NEW t \in Tasks, CsFail(t) \/ CsPush(t) \/ CsDependencyFence(t) PROVE LookupInv'
  <2>1. /\ UNCHANGED pd
        /\ \/ pc' = [pc EXCEPT ![t] = "fini"]
           \/ pc[t] = "dep_fence" /\ pc' = [pc EXCEPT ![t] = "submit"]
    BY <1>6, Zenon DEF CsFail, CsPush, CsDependencyFence
  <2>2. \A u \in Tasks : u # t => pc'[u] = pc[u] /\ op'[u] = op[u] /\ (pd = u => pd' = u)
    BY <1>0, <1>6, <2>1, Zenon DEF TypeOK, CsFail, CsPush, CsDependencyFence
  <2>3. ThreadOk(t)' /\ LookupOk(t)'
    BY <1>0, <2>1, Zenon DEF TypeOK, ThreadOk, LookupOk
  <2> QED
    BY <1>6, <2>2, <2>3, SubmissionKept, LookupQuiet, Zenon
<1>7. ASSUME NEW t \in Tasks, CsSubmit(t) PROVE LookupInv'
  <2> DEFINE new == [ctx |-> op[t].ctx, seq |-> None, dep |-> op[t].dep,
                     pushed |-> None, signaled |-> FALSE]
  <2>1. /\ pc[t] \in {"dependencies", "submit"} /\ pc' = [pc EXCEPT ![t] = "add_fence"]
        /\ UNCHANGED <<pd, ctxs>>
    BY <1>7, Zenon DEF CsSubmit
  <2>2. /\ new \in Fence /\ fences' = Append(fences, new)
        /\ \A u \in Tasks : u # t => op'[u] = op[u]
        /\ op'[t].ctx = op[t].ctx /\ op'[t].fence = Len(fences) + 1
        /\ op'[t].seq = ctxs[op[t].ctx].sequence
        /\ op'[t].other = ctxs[op[t].ctx].fences[SlotOf(op'[t].seq)]
    BY <1>7, SubmitFacts, Zenon DEF N
  <2>3. new.ctx = op[t].ctx /\ new.seq = None
    BY Zenon
  <2> HIDE DEF new
  <2>4. Len(fences') = Len(fences) + 1 /\ fences'[Len(fences) + 1] = new /\ Len(fences) \in Nat
    BY <1>0, <2>2, SeqAppend, FencesType, SMTT(60) DEF TypeOK
  <2>5. op'[t].fence \in FenceIds'
    BY <2>2, <2>4 DEF FenceIds
  <2>6. pc'[t] = "add_fence" /\ pd' = t
    BY <1>0, <2>1, Zenon DEF TypeOK, ThreadOk
  <2>7. ThreadOk(t)' /\ LookupOk(t)'
    BY <2>1, <2>2, <2>3, <2>4, <2>5, <2>6, Zenon DEF ThreadOk, LookupOk
  <2>8. \A u \in Tasks : u # t => pc'[u] = pc[u] /\ op'[u] = op[u] /\ (pd = u => pd' = u)
    BY <1>0, <2>1, <2>2, Zenon DEF TypeOK
  <2> QED
    BY <1>7, <2>7, <2>8, SubmissionKept, LookupQuiet, Zenon
<1>8. ASSUME NEW t \in Tasks, WaitFence(t) PROVE LookupInv'
  <2> DEFINE c == op[t].ctx
             x == amdgpu_ctx_get_fence(ctxs[c], op[t].seq)
  <2>1. /\ pc[t] = "get_fence" /\ op' = [op EXCEPT ![t].fence = x]
        /\ pc' = [pc EXCEPT ![t] = "wait"] /\ UNCHANGED <<handles, ctxs, fences, pd>>
    BY <1>8, Zenon DEF WaitFence
  <2>2. c \in CtxIds /\ op[t].seq \in Nat /\ (ctxs[c].twice = 0 => ctxs[c].refcount > 0)
    BY <2>1, CallCtx, HeldAlive, Zenon DEF Locals
  <2>3. /\ op'[t].ctx = c /\ op'[t].seq = op[t].seq /\ op'[t].fence = x /\ pc'[t] = "wait"
        /\ \A u \in Tasks : u # t => pc'[u] = pc[u] /\ op'[u] = op[u] /\ (pd = u => pd' = u)
    BY <1>0, <2>1, Zenon DEF TypeOK, Locals
  <2>4. x # EINVAL => op[t].seq < ctxs[c].sequence
    BY <1>0, <2>2, CtxType, GetFenceType, Zenon
  <2>5. x # EINVAL /\ ctxs[c].twice = 0 =>
          IF x = None THEN \A f \in Wanted(t) : Signaled(f) ELSE Wanted(t) = {x}
    BY <1>0, <2>2, GetFenceExact, Zenon DEF Wanted
  <2>6. Wanted(t)' = Wanted(t) /\ \A f : Signaled(f)' <=> Signaled(f)
    BY <2>1, <2>3 DEF Wanted, Signaled, FenceIds
  <2> HIDE DEF x
  <2>7. ThreadOk(t)' /\ LookupOk(t)'
    BY <2>1, <2>3, <2>4, <2>5, <2>6, Zenon DEF ThreadOk, LookupOk
  <2> QED
    BY <1>8, <2>3, <2>7, SubmissionKept, LookupQuiet, Zenon
<1>9. ASSUME CtxsKept, FencesKept, UNCHANGED <<pc, op, pd>> PROVE LookupInv'
  <2>1. ASSUME NEW u \in Tasks PROVE ThreadOk(u)' /\ LookupOk(u)'
    BY <1>0, <1>9, ThreadKept, Zenon
  <2> QED
    BY <1>0, <1>9, <2>1, SlotsKept, Zenon DEF LookupInv
<1>10. ASSUME NEW f \in FenceIds, Finish(f) PROVE LookupInv'
  <2>1. fences' = [fences EXCEPT ![f].signaled = TRUE] /\ UNCHANGED <<ctxs, pd, pc, op>>
    BY <1>10, Zenon DEF Finish
  <2>2. fences \in [1..Len(fences) -> Fence]
    BY <1>0, SeqLen, Zenon DEF TypeOK
  <2>3. fences' \in Seq(Fence)
    BY <1>0, <2>1, FenceFieldUpdate, Zenon
  <2>4. Len(fences') = Len(fences)
    BY <1>0, <2>1, <2>2, <2>3, FencesType, SeqLen, SMTT(60)
  <2>5. \A g \in FenceIds : fences'[g].ctx = fences[g].ctx /\ fences'[g].seq = fences[g].seq
                            /\ (fences[g].signaled => fences'[g].signaled)
    BY <2>1, <2>2, Zenon DEF FenceIds, Fence
  <2>6. FencesKept
    BY <1>0, <2>4, <2>5, FencesType, SMTT(60) DEF FencesKept, FenceIds
  <2> QED
    BY <1>0, <1>9, <2>1, <2>6, CtxsUnchanged, Zenon
<1>11. ASSUME Close PROVE LookupInv'
  <2>1. /\ ctxs' = [c \in CtxIds |-> IF \E h \in DOMAIN handles : handles[h] = c
                                     THEN kref_put(ctxs[c]) ELSE ctxs[c]]
        /\ UNCHANGED <<fences, pd, pc, op>>
    BY <1>11, Zenon DEF Close
  <2>2. ASSUME NEW c \in CtxIds
        PROVE  /\ ctxs'[c].sequence = ctxs[c].sequence /\ ctxs'[c].twice = ctxs[c].twice
               /\ \/ /\ ctxs'[c].fences = ctxs[c].fences
                     /\ ctxs'[c].refcount > 0 => ctxs[c].refcount > 0
                  \/ ctxs'[c].refcount = 0 /\ ctxs'[c].fences = [s \in Slots |-> None]
    <3>1. CASE \E h \in DOMAIN handles : handles[h] = c
      <4>1. ctxs[c] \in Context /\ ctxs[c].refcount \in Int
        BY <1>0, CtxType, Zenon
      <4>2. ctxs'[c] = kref_put(ctxs[c])
        BY <2>1, <3>1, Zenon
      <4> QED
        BY <4>1, <4>2, PutFacts
    <3>2. CASE ~\E h \in DOMAIN handles : handles[h] = c
      BY <2>1, <3>2, Zenon
    <3> QED
      BY <3>1, <3>2, Zenon
  <2>3. Len(ctxs') = Len(ctxs)
    <3>1. DOMAIN ctxs' = 1..Len(ctxs) /\ Len(ctxs) \in Nat
      BY <1>0, <2>1, CtxType, Zenon DEF CtxIds
    <3>2. ctxs' \in Seq(Context)
      BY Zenon DEF CtxInv, TypeOK
    <3> QED
      BY <3>1, <3>2, SeqLen
  <2>4. CtxsKept
    <3>1. CtxIds' = CtxIds /\ Len(ctxs') >= Len(ctxs)
      BY <1>0, <2>3, CtxType DEF CtxIds
    <3> QED
      BY <3>1, <2>2, Zenon DEF CtxsKept
  <2> QED
    BY <1>0, <1>9, <2>1, <2>4, FencesUnchanged, Zenon
<1>12. CASE UNCHANGED vars
  BY <1>0, <1>9, <1>12, CtxsUnchanged, FencesUnchanged, Zenon DEF vars
<1> QED
  BY <1>1, <1>3, <1>4, <1>5, <1>6, <1>7, <1>8, <1>10, <1>11, <1>12, <1>13, AddFenceStep,
     ZenonT(60)
     DEF Next, Step, WaitReturn, WaitTimeout


-----------------------------------------------------------------------------

RefsInv == TypeOK /\ Allocated /\ OneHandle /\ Holding /\ RefsExact

\* A set that gains one element: the form in which reference and user counts grow ...
LEMMA CardAdd ==
    ASSUME NEW S, IsFiniteSet(S), NEW x, x \notin S
    PROVE  /\ IsFiniteSet(S \cup {x})
           /\ Cardinality(S) \in Nat
           /\ Cardinality(S \cup {x}) = Cardinality(S) + 1
BY FS_AddElement, FS_CardinalityType, Zenon

\* ... and one that loses an element.
LEMMA CardRemove ==
    ASSUME NEW S, IsFiniteSet(S), NEW x \in S
    PROVE  /\ IsFiniteSet(S \ {x})
           /\ Cardinality(S) \in Nat \ {0}
           /\ Cardinality(S \ {x}) = Cardinality(S) - 1
<1>1. IsFiniteSet(S \ {x}) /\ Cardinality(S \ {x}) = Cardinality(S) - 1
  BY FS_RemoveElement, Zenon
<1>2. Cardinality(S) \in Nat /\ Cardinality(S \ {x}) \in Nat
  BY <1>1, FS_CardinalityType, Zenon
<1> QED
  BY <1>1, <1>2

\* The sets that are counted are finite.
LEMMA CountedFinite ==
    ASSUME TypeOK, NEW c
    PROVE  /\ IsFiniteSet(Listed(c)) /\ IsFiniteSet(Users(c)) /\ IsFiniteSet(DepUsers(c))
           /\ Cardinality(Listed(c)) \in Nat /\ Cardinality(Users(c)) \in Nat
           /\ Cardinality(DepUsers(c)) \in Nat
<1>1. IsFiniteSet(1..MaxHandles) /\ IsFiniteSet(Tasks)
  BY CtxAssumption, FS_Interval
<1>2. Listed(c) \in SUBSET (1..MaxHandles) /\ Users(c) \in SUBSET Tasks /\ DepUsers(c) \in SUBSET Tasks
  BY Zenon DEF TypeOK, Listed, Users, DepUsers
<1>3. IsFiniteSet(Listed(c)) /\ IsFiniteSet(Users(c)) /\ IsFiniteSet(DepUsers(c))
  BY <1>1, <1>2, FS_Subset, Zenon
<1> QED
  BY <1>3, FS_CardinalityType, Zenon

\* A context that has a handle, or that a thread uses, has not been released, unless it has
\* been put twice.
LEMMA UsedAlive ==
    ASSUME RefsInv, NEW c \in CtxIds, ctxs[c].twice = 0,
           \/ \E h \in 1..MaxHandles : handles[h] = c
           \/ \E t \in Tasks : op[t].ctx = c \/ op[t].dep_ctx = c
    PROVE  ctxs[c].refcount > 0
<1> TypeOK
  BY Zenon DEF RefsInv
<1>1. Listed(c) # {} \/ Users(c) # {} \/ DepUsers(c) # {}
  BY Zenon DEF Listed, Users, DepUsers, TypeOK
<1>2. \/ Cardinality(Listed(c)) # 0 \/ Cardinality(Users(c)) # 0 \/ Cardinality(DepUsers(c)) # 0
  BY <1>1, CountedFinite, FS_EmptySet, Zenon
<1>3. ctxs[c] \in Context
  BY SeqElem, Zenon DEF TypeOK, CtxIds
<1>4. ctxs[c].lost \in Nat
  BY <1>3, Zenon DEF Context
<1>5. ctxs[c].refcount =
        Cardinality(Listed(c)) + Cardinality(Users(c)) + Cardinality(DepUsers(c))
        + ctxs[c].lost - ctxs[c].twice
  BY Zenon DEF RefsInv, RefsExact
<1> QED
  BY <1>2, <1>4, <1>5, CountedFinite, SMTT(60)

\* The number of jobs pushed so far.
LEMMA PushedType ==
    ASSUME TypeOK
    PROVE  Pushed \in Nat
<1> DEFINE P == {f \in FenceIds : fences[f].pushed # None}
<1>1. IsFiniteSet(FenceIds)
  BY FencesType, FS_Interval DEF FenceIds
<1>2. IsFiniteSet(P)
  BY <1>1, FS_Subset, Zenon
<1> QED
  BY <1>2, FS_CardinalityType, Zenon DEF Pushed

\* ... so the counts give what the lookups rest on.
LEMMA RefsCtx == ASSUME RefsInv PROVE CtxInv
BY UsedAlive, PushedType, Zenon DEF RefsInv, CtxInv, NotReleased

-----------------------------------------------------------------------------
(* The steps that change references *)

\* A step that changes neither the references of a context nor their holders keeps the
\* count exact.
LEMMA RefsKept ==
    ASSUME RefsInv, TypeOK', Len(ctxs') = Len(ctxs), UNCHANGED handles,
           \A t \in Tasks : op'[t].ctx = op[t].ctx /\ op'[t].dep_ctx = op[t].dep_ctx,
           \A t \in Tasks : (pc'[t] = "idle" <=> pc[t] = "idle")
                            /\ (pc'[t] = "dep_fence" <=> pc[t] = "dep_fence"),
           \A c \in CtxIds : /\ ctxs'[c].refcount = ctxs[c].refcount
                              /\ ctxs'[c].lost = ctxs[c].lost /\ ctxs'[c].twice = ctxs[c].twice
    PROVE  RefsInv'
<1>1. Allocated' /\ OneHandle' /\ Holding'
  BY Zenon DEF RefsInv, Allocated, OneHandle, Holding
<1>2. ASSUME NEW c PROVE Listed(c)' = Listed(c) /\ Users(c)' = Users(c) /\ DepUsers(c)' = DepUsers(c)
  BY Zenon DEF Listed, Users, DepUsers
<1>3. RefsExact'
  BY <1>2 DEF RefsInv, RefsExact, CtxIds
<1> QED
  BY <1>1, <1>3, Zenon DEF RefsInv

\* amdgpu_ctx_get at the start of a call: the thread is a new holder.
LEMMA RefsBegin ==
    ASSUME RefsInv, NEW t \in Tasks, NEW h \in 1..MaxHandles, NEW p \in Places,
           NEW o \in Locals, pc[t] = "idle", handles[h] # None,
           p \notin {"idle", "dep_fence"}, o.ctx = handles[h], o.dep_ctx = None,
           ctxs' = [ctxs EXCEPT ![handles[h]] = kref_get(@)],
           op' = [op EXCEPT ![t] = o], pc' = [pc EXCEPT ![t] = p],
           UNCHANGED <<handles, fences, pd, closed>>
    PROVE  RefsInv'
<1> DEFINE i == handles[h]
<1>1. TypeOK /\ Allocated /\ OneHandle /\ Holding /\ RefsExact
  BY Zenon DEF RefsInv
<1>2. i \in CtxIds
  BY <1>1, CtxType, SMTT(60) DEF TypeOK, Allocated, CtxIds, None
<1>3. /\ kref_get(ctxs[i]) \in Context
      /\ kref_get(ctxs[i]).refcount = ctxs[i].refcount + 1 /\ kref_get(ctxs[i]).lost = ctxs[i].lost
      /\ kref_get(ctxs[i]).twice = ctxs[i].twice
  BY <1>1, <1>2, CtxType, GetFacts, Zenon
<1>4. /\ ctxs' \in Seq(Context) /\ Len(ctxs') = Len(ctxs)
      /\ ctxs'[i] = kref_get(ctxs[i]) /\ \A j \in CtxIds : j # i => ctxs'[j] = ctxs[j]
  BY <1>1, <1>2, <1>3, CtxUpdate, Zenon
<1>5. TypeOK'
  BY <1>1, <1>4, Zenon DEF TypeOK
<1>6. Allocated' /\ OneHandle' /\ Holding'
  BY <1>1, <1>2, <1>4, SMTT(60) DEF TypeOK, Allocated, OneHandle, Holding, CtxIds, None
<1>7. ASSUME NEW c \in CtxIds
      PROVE  /\ Listed(c)' = Listed(c) /\ DepUsers(c)' = DepUsers(c)
             /\ Users(c)' = IF c = i THEN Users(c) \cup {t} ELSE Users(c)
             /\ t \notin Users(c)
  BY <1>1, <1>2 DEF Listed, Users, DepUsers, TypeOK, Holding, CtxIds, None
<1>8. RefsExact'
  <2> SUFFICES ASSUME NEW c \in CtxIds
               PROVE  ctxs'[c].refcount = Cardinality(Listed(c)') + Cardinality(Users(c)')
                                          + Cardinality(DepUsers(c)')
                                          + ctxs'[c].lost - ctxs'[c].twice
    BY <1>4, Zenon DEF RefsExact, CtxIds
  <2>1. ctxs[c].refcount = Cardinality(Listed(c)) + Cardinality(Users(c))
                           + Cardinality(DepUsers(c)) + ctxs[c].lost - ctxs[c].twice
    BY <1>1, Zenon DEF RefsExact
  <2>2. c = i => Cardinality(Users(c)') = Cardinality(Users(c)) + 1
    BY <1>1, <1>7, CountedFinite, CardAdd, ZenonT(60)
  <2>3. /\ ctxs'[c].refcount = IF c = i THEN ctxs[c].refcount + 1 ELSE ctxs[c].refcount
        /\ ctxs'[c].lost = ctxs[c].lost /\ ctxs'[c].twice = ctxs[c].twice
    BY <1>3, <1>4
  <2>4. /\ ctxs[c].lost \in Nat /\ ctxs[c].twice \in Nat /\ Cardinality(Listed(c)) \in Nat
        /\ Cardinality(Users(c)) \in Nat /\ Cardinality(DepUsers(c)) \in Nat
    BY <1>1, CtxType, CountedFinite, ZenonT(60)
  <2>5. CASE c = i
    <3>1. /\ ctxs'[c].refcount = ctxs[c].refcount + 1 /\ ctxs'[c].lost = ctxs[c].lost
          /\ ctxs'[c].twice = ctxs[c].twice
      BY <2>3, <2>5, Zenon
    <3>2. /\ Cardinality(Users(c)') = Cardinality(Users(c)) + 1
          /\ Cardinality(Listed(c)') = Cardinality(Listed(c))
          /\ Cardinality(DepUsers(c)') = Cardinality(DepUsers(c))
      BY <1>7, <2>2, <2>5, Zenon
    <3> QED
      BY <2>1, <2>4, <3>1, <3>2, SMTT(60)
  <2>6. CASE c # i
    BY <1>7, <2>1, <2>3, <2>6, Zenon
  <2> QED
    BY <2>5, <2>6, Zenon
<1> QED
  BY <1>5, <1>6, <1>8, Zenon DEF RefsInv

\* amdgpu_ctx_put at the end of a call: the thread is no holder any more.
LEMMA RefsEnd ==
    ASSUME RefsInv, NEW t \in Tasks, pc[t] # "idle", pc[t] # "dep_fence",
           ctxs' = [ctxs EXCEPT ![op[t].ctx] = kref_put(@)],
           op' = [op EXCEPT ![t] = NoOp], pc' = [pc EXCEPT ![t] = "idle"],
           pd' \in Tasks \cup {None}, UNCHANGED <<handles, fences, closed>>
    PROVE  RefsInv'
<1> DEFINE i == op[t].ctx
<1>1. TypeOK /\ Allocated /\ OneHandle /\ Holding /\ RefsExact
  BY Zenon DEF RefsInv
<1>2. i \in CtxIds /\ op[t].dep_ctx = None
  BY <1>1, CtxType DEF TypeOK, Allocated, Holding, Locals, CtxIds, None
<1>3. /\ kref_put(ctxs[i]) \in Context
      /\ kref_put(ctxs[i]).refcount = ctxs[i].refcount - 1 /\ kref_put(ctxs[i]).lost = ctxs[i].lost
      /\ kref_put(ctxs[i]).twice = ctxs[i].twice
  BY <1>1, <1>2, CtxType, PutFacts, Zenon
<1>4. /\ ctxs' \in Seq(Context) /\ Len(ctxs') = Len(ctxs)
      /\ ctxs'[i] = kref_put(ctxs[i]) /\ \A j \in CtxIds : j # i => ctxs'[j] = ctxs[j]
  BY <1>1, <1>2, <1>3, CtxUpdate, Zenon
<1>5. NoOp \in Locals /\ NoOp.ctx = None /\ NoOp.dep_ctx = None
  BY NoOpType, Zenon
<1>6. TypeOK'
  BY <1>1, <1>4, <1>5, Zenon DEF TypeOK, Places
<1>7. Allocated' /\ OneHandle' /\ Holding'
  BY <1>1, <1>2, <1>4, <1>5, CtxType, Zenon DEF TypeOK, Allocated, OneHandle, Holding, CtxIds, None
<1>8. ASSUME NEW c \in CtxIds
      PROVE  /\ Listed(c)' = Listed(c) /\ DepUsers(c)' = DepUsers(c)
             /\ Users(c)' = IF c = i THEN Users(c) \ {t} ELSE Users(c)
             /\ c = i => t \in Users(c)
  BY <1>1, <1>2, <1>5, SMTT(60) DEF Listed, Users, DepUsers, TypeOK, CtxIds, None
<1>9. RefsExact'
  <2> SUFFICES ASSUME NEW c \in CtxIds
               PROVE  ctxs'[c].refcount = Cardinality(Listed(c)') + Cardinality(Users(c)')
                                          + Cardinality(DepUsers(c)')
                                          + ctxs'[c].lost - ctxs'[c].twice
    BY <1>4, Zenon DEF RefsExact, CtxIds
  <2>1. ctxs[c].refcount = Cardinality(Listed(c)) + Cardinality(Users(c))
                           + Cardinality(DepUsers(c)) + ctxs[c].lost - ctxs[c].twice
    BY <1>1, Zenon DEF RefsExact
  <2>2. c = i => Cardinality(Users(c)') = Cardinality(Users(c)) - 1
    BY <1>1, <1>8, CountedFinite, CardRemove, ZenonT(60)
  <2>3. /\ ctxs'[c].refcount = IF c = i THEN ctxs[c].refcount - 1 ELSE ctxs[c].refcount
        /\ ctxs'[c].lost = ctxs[c].lost /\ ctxs'[c].twice = ctxs[c].twice
    BY <1>3, <1>4
  <2>4. /\ ctxs[c].lost \in Nat /\ ctxs[c].twice \in Nat /\ Cardinality(Listed(c)) \in Nat
        /\ Cardinality(Users(c)) \in Nat /\ Cardinality(DepUsers(c)) \in Nat
    BY <1>1, CtxType, CountedFinite, ZenonT(60)
  <2>5. CASE c = i
    <3>1. /\ ctxs'[c].refcount = ctxs[c].refcount - 1 /\ ctxs'[c].lost = ctxs[c].lost
          /\ ctxs'[c].twice = ctxs[c].twice
      BY <2>3, <2>5, Zenon
    <3>2. /\ Cardinality(Users(c)') = Cardinality(Users(c)) - 1
          /\ Cardinality(Listed(c)') = Cardinality(Listed(c))
          /\ Cardinality(DepUsers(c)') = Cardinality(DepUsers(c))
      BY <1>8, <2>2, <2>5, Zenon
    <3> QED
      BY <2>1, <2>4, <3>1, <3>2, SMTT(60)
  <2>6. CASE c # i
    BY <1>8, <2>1, <2>3, <2>6, Zenon
  <2> QED
    BY <2>5, <2>6, Zenon
<1> QED
  BY <1>6, <1>7, <1>9, Zenon DEF RefsInv

\* amdgpu_cs_parser_init fails: its put is counted, and the thread is still a holder for
\* amdgpu_cs_parser_fini.
LEMMA RefsInitFail ==
    ASSUME RefsInv, NEW t \in Tasks, CsInitFail(t)
    PROVE  RefsInv'
<1>i. PICK i : i = op[t].ctx
  BY Zenon
<1>0. /\ pc[t] = "reserve" /\ ctxs' = [ctxs EXCEPT ![i] = PutEarly(ctxs[i])]
      /\ pc' = [pc EXCEPT ![t] = "fini"] /\ UNCHANGED <<handles, fences, pd, closed, op>>
  BY <1>i, Zenon DEF CsInitFail
<1>1. TypeOK /\ Allocated /\ OneHandle /\ Holding /\ RefsExact
  BY Zenon DEF RefsInv
<1>2. i \in CtxIds
  BY <1>0, <1>i, CallCtx, RefsCtx, Zenon
<1>3. /\ PutEarly(ctxs[i]) \in Context /\ PutEarly(ctxs[i]).refcount = ctxs[i].refcount - 1
      /\ PutEarly(ctxs[i]).lost = ctxs[i].lost /\ PutEarly(ctxs[i]).twice = ctxs[i].twice + 1
  BY <1>1, <1>2, CtxType, PutEarlyFacts, Zenon
<1>4. /\ ctxs' \in Seq(Context) /\ Len(ctxs') = Len(ctxs)
      /\ ctxs'[i] = PutEarly(ctxs[i]) /\ \A j \in CtxIds : j # i => ctxs'[j] = ctxs[j]
  BY <1>0, <1>1, <1>2, <1>3, CtxUpdate, Zenon
<1>5. TypeOK'
  BY <1>0, <1>1, <1>4, Zenon DEF TypeOK, Places
<1>6. Allocated' /\ OneHandle' /\ Holding'
  BY <1>0, <1>1, <1>4, Zenon DEF TypeOK, Allocated, OneHandle, Holding
<1>7. ASSUME NEW c PROVE Listed(c)' = Listed(c) /\ Users(c)' = Users(c) /\ DepUsers(c)' = DepUsers(c)
  BY <1>0, Zenon DEF Listed, Users, DepUsers
<1>8. RefsExact'
  <2> SUFFICES ASSUME NEW c \in CtxIds
               PROVE  ctxs'[c].refcount = Cardinality(Listed(c)) + Cardinality(Users(c))
                                          + Cardinality(DepUsers(c))
                                          + ctxs'[c].lost - ctxs'[c].twice
    BY <1>4, <1>7, Zenon DEF RefsExact, CtxIds
  <2>1. ctxs[c].refcount = Cardinality(Listed(c)) + Cardinality(Users(c))
                           + Cardinality(DepUsers(c)) + ctxs[c].lost - ctxs[c].twice
    BY <1>1, Zenon DEF RefsExact
  <2>2. /\ ctxs[c].lost \in Nat /\ ctxs[c].twice \in Nat /\ Cardinality(Listed(c)) \in Nat
        /\ Cardinality(Users(c)) \in Nat /\ Cardinality(DepUsers(c)) \in Nat
    BY <1>1, CtxType, CountedFinite, ZenonT(60)
  <2>3. CASE c = i
    <3>1. /\ ctxs'[c].refcount = ctxs[c].refcount - 1 /\ ctxs'[c].lost = ctxs[c].lost
          /\ ctxs'[c].twice = ctxs[c].twice + 1
      BY <1>3, <1>4, <2>3, Zenon
    <3> QED
      BY <2>1, <2>2, <3>1
  <2>4. CASE c # i
    BY <1>4, <2>1, <2>4, Zenon
  <2> QED
    BY <2>3, <2>4, Zenon
<1> QED
  BY <1>5, <1>6, <1>8, Zenon DEF RefsInv

\* amdgpu_cs_dependencies takes a reference to the context of the dependency.
LEMMA RefsDependency ==
    ASSUME RefsInv, NEW t \in Tasks, NEW h \in 1..MaxHandles, NEW seq \in Nat,
           CsDependency(t, h, seq)
    PROVE  RefsInv'
<1> DEFINE i == handles[h]
<1>0. /\ pc[t] = "dependencies" /\ handles[h] # None
      /\ ctxs' = [ctxs EXCEPT ![i] = kref_get(@)]
      /\ op' = [op EXCEPT ![t].dep_ctx = i, ![t].seq = seq]
      /\ pc' = [pc EXCEPT ![t] = "dep_fence"]
      /\ UNCHANGED <<handles, fences, pd, closed>>
  BY Zenon DEF CsDependency
<1>1. TypeOK /\ Allocated /\ OneHandle /\ Holding /\ RefsExact
  BY Zenon DEF RefsInv
<1>2. i \in CtxIds
  BY <1>0, <1>1, CtxType, SMTT(60) DEF TypeOK, Allocated, CtxIds, None
<1>3. /\ kref_get(ctxs[i]) \in Context
      /\ kref_get(ctxs[i]).refcount = ctxs[i].refcount + 1 /\ kref_get(ctxs[i]).lost = ctxs[i].lost
      /\ kref_get(ctxs[i]).twice = ctxs[i].twice
  BY <1>0, <1>1, <1>2, CtxType, GetFacts, Zenon
<1>4. /\ ctxs' \in Seq(Context) /\ Len(ctxs') = Len(ctxs)
      /\ ctxs'[i] = kref_get(ctxs[i]) /\ \A j \in CtxIds : j # i => ctxs'[j] = ctxs[j]
  BY <1>0, <1>1, <1>2, <1>3, CtxUpdate, Zenon
<1>5. /\ op' \in [Tasks -> Locals]
      /\ op'[t].ctx = op[t].ctx /\ op'[t].dep_ctx = i
      /\ \A u \in Tasks : u # t => op'[u] = op[u]
  <2> DEFINE o == [op EXCEPT ![t].dep_ctx = i]
  <2>1. /\ o \in [Tasks -> Locals] /\ o[t].ctx = op[t].ctx /\ o[t].dep_ctx = i
        /\ \A u \in Tasks : u # t => o[u] = op[u]
    BY <1>0, <1>1, <1>2, CtxType, Zenon DEF TypeOK, Locals, CtxIds
  <2>2. op' = [o EXCEPT ![t].seq = seq]
    BY <1>0, Zenon
  <2> HIDE DEF o
  <2> QED
    BY <2>1, <2>2, Zenon DEF Locals
<1>6. TypeOK'
  BY <1>0, <1>1, <1>4, <1>5, ZenonT(60) DEF TypeOK, Places
<1>7. Allocated' /\ OneHandle' /\ Holding'
  BY <1>0, <1>1, <1>2, <1>4, <1>5, CtxType, SMTT(60) DEF TypeOK, Allocated, OneHandle, Holding, CtxIds, None
<1>8. ASSUME NEW c \in CtxIds
      PROVE  /\ Listed(c)' = Listed(c) /\ Users(c)' = Users(c)
             /\ DepUsers(c)' = IF c = i THEN DepUsers(c) \cup {t} ELSE DepUsers(c)
             /\ t \notin DepUsers(c)
  <2>1. op[t].dep_ctx = None /\ c # None
    BY <1>0, <1>1, CtxType, SMTT(60) DEF Holding, CtxIds, None
  <2>2. Listed(c)' = Listed(c) /\ Users(c)' = Users(c)
    BY <1>0, <1>5 DEF Listed, Users
  <2>3. \A u \in Tasks : op'[u].dep_ctx = c <=> op[u].dep_ctx = c \/ (c = i /\ u = t)
    BY <1>5, <2>1, Zenon
  <2> HIDE DEF i
  <2> QED
    BY <2>1, <2>2, <2>3, Zenon DEF DepUsers
<1>9. RefsExact'
  <2> SUFFICES ASSUME NEW c \in CtxIds
               PROVE  ctxs'[c].refcount = Cardinality(Listed(c)') + Cardinality(Users(c)')
                                          + Cardinality(DepUsers(c)')
                                          + ctxs'[c].lost - ctxs'[c].twice
    BY <1>4, Zenon DEF RefsExact, CtxIds
  <2>1. ctxs[c].refcount = Cardinality(Listed(c)) + Cardinality(Users(c))
                           + Cardinality(DepUsers(c)) + ctxs[c].lost - ctxs[c].twice
    BY <1>1, Zenon DEF RefsExact
  <2>2. c = i => Cardinality(DepUsers(c)') = Cardinality(DepUsers(c)) + 1
    BY <1>1, <1>8, CountedFinite, CardAdd, Zenon
  <2>3. /\ ctxs'[c].refcount = IF c = i THEN ctxs[c].refcount + 1 ELSE ctxs[c].refcount
        /\ ctxs'[c].lost = ctxs[c].lost /\ ctxs'[c].twice = ctxs[c].twice
    BY <1>3, <1>4, Zenon
  <2>4. /\ ctxs[c].lost \in Nat /\ ctxs[c].twice \in Nat /\ Cardinality(Listed(c)) \in Nat
        /\ Cardinality(Users(c)) \in Nat /\ Cardinality(DepUsers(c)) \in Nat
    BY <1>0, <1>1, CtxType, CountedFinite, ZenonT(60)
  <2>5. CASE c = i
    <3>1. /\ ctxs'[c].refcount = ctxs[c].refcount + 1 /\ ctxs'[c].lost = ctxs[c].lost
          /\ ctxs'[c].twice = ctxs[c].twice
      BY <2>3, <2>5, Zenon
    <3>2. /\ Cardinality(DepUsers(c)') = Cardinality(DepUsers(c)) + 1
          /\ Cardinality(Listed(c)') = Cardinality(Listed(c))
          /\ Cardinality(Users(c)') = Cardinality(Users(c))
      BY <1>8, <2>2, <2>5, Zenon
    <3> QED
      BY <2>1, <2>4, <3>1, <3>2, SMTT(60)
  <2>6. CASE c # i
    BY <1>8, <2>1, <2>3, <2>6, ZenonT(60)
  <2> QED
    BY <2>5, <2>6, Zenon
<1> QED
  BY <1>6, <1>7, <1>9, Zenon DEF RefsInv

\* ... and puts it back, or loses it.
LEMMA RefsDependencyFence ==
    ASSUME RefsInv, NEW t \in Tasks, CsDependencyFence(t)
    PROVE  RefsInv'
<1> DEFINE i == op[t].dep_ctx
           f == amdgpu_ctx_get_fence(ctxs[i], op[t].seq)
           kept == Forgotten(ctxs[i])
           e == IF f = None THEN kept ELSE kref_put(ctxs[i])
<1>0. /\ pc[t] = "dep_fence" /\ UNCHANGED <<handles, fences, pd, closed>>
      /\ ctxs' = [ctxs EXCEPT ![i] = e]
      /\ op' = [op EXCEPT ![t].dep_ctx = None, ![t].dep = IF f = EINVAL THEN None ELSE f]
      /\ pc' = [pc EXCEPT ![t] = IF f = EINVAL THEN "fini" ELSE "submit"]
  BY Zenon DEF CsDependencyFence
<1>1. TypeOK /\ Allocated /\ OneHandle /\ Holding /\ RefsExact
  BY Zenon DEF RefsInv
<1>2. i \in CtxIds /\ op[t] \in Locals
  BY <1>0, <1>1, CtxType DEF TypeOK, Allocated, Holding, Locals, CtxIds, None
<1>3. f \in Int
  BY <1>1, <1>2, CtxType, GetFenceType, Zenon DEF Locals
<1>4. kref_put(ctxs[i]) \in Context /\ kref_put(ctxs[i]).lost = ctxs[i].lost
      /\ kref_put(ctxs[i]).refcount = ctxs[i].refcount - 1
      /\ kref_put(ctxs[i]).twice = ctxs[i].twice
  BY <1>1, <1>2, CtxType, PutFacts, Zenon
<1>5. kept \in Context /\ kept.lost = ctxs[i].lost + 1 /\ kept.refcount = ctxs[i].refcount
      /\ kept.twice = ctxs[i].twice
  <2>1. ctxs[i] \in Context
    BY <1>1, <1>2, CtxType, Zenon
  <2> QED
    BY <2>1, ForgottenFacts, Zenon
<1> HIDE DEF f, kept
<1>6. /\ e \in Context /\ e.twice = ctxs[i].twice
      /\ \/ e.lost = ctxs[i].lost + 1 /\ e.refcount = ctxs[i].refcount
         \/ e.lost = ctxs[i].lost /\ e.refcount = ctxs[i].refcount - 1
  BY <1>4, <1>5, Zenon
<1> HIDE DEF e
<1>7. /\ ctxs' \in Seq(Context) /\ Len(ctxs') = Len(ctxs)
      /\ ctxs'[i] = e /\ \A j \in CtxIds : j # i => ctxs'[j] = ctxs[j]
  BY <1>0, <1>1, <1>2, <1>6, CtxUpdate, Zenon
<1>8. /\ op' \in [Tasks -> Locals]
      /\ op'[t].ctx = op[t].ctx /\ op'[t].dep_ctx = None
      /\ \A u \in Tasks : u # t => op'[u] = op[u]
  <2> DEFINE o == [op EXCEPT ![t].dep_ctx = None]
             d == IF f = EINVAL THEN None ELSE f
  <2>1. /\ o \in [Tasks -> Locals] /\ o[t].ctx = op[t].ctx /\ o[t].dep_ctx = None
        /\ \A u \in Tasks : u # t => o[u] = op[u]
    BY <1>1, <1>2, Zenon DEF TypeOK, Locals, None
  <2>2. op' = [o EXCEPT ![t].dep = d] /\ d \in Int
    BY <1>0, <1>3 DEF None
  <2> HIDE DEF o, d
  <2> QED
    BY <2>1, <2>2, Zenon DEF Locals
<1>9. TypeOK'
  BY <1>0, <1>1, <1>7, <1>8, Zenon DEF TypeOK, Places
<1>10. Allocated' /\ OneHandle' /\ Holding'
  BY <1>0, <1>1, <1>2, <1>7, <1>8, CtxType, SMTT(60) DEF TypeOK, Allocated, OneHandle, Holding, CtxIds, None
<1>11. ASSUME NEW c \in CtxIds
       PROVE  /\ Listed(c)' = Listed(c) /\ Users(c)' = Users(c)
              /\ DepUsers(c)' = IF c = i THEN DepUsers(c) \ {t} ELSE DepUsers(c)
              /\ c = i => t \in DepUsers(c)
  BY <1>0, <1>1, <1>2, <1>8, SMTT(60) DEF Listed, Users, DepUsers, TypeOK, CtxIds, None
<1>12. RefsExact'
  <2> SUFFICES ASSUME NEW c \in CtxIds
               PROVE  ctxs'[c].refcount = Cardinality(Listed(c)') + Cardinality(Users(c)')
                                          + Cardinality(DepUsers(c)')
                                          + ctxs'[c].lost - ctxs'[c].twice
    BY <1>7, Zenon DEF RefsExact, CtxIds
  <2>1. ctxs[c].refcount = Cardinality(Listed(c)) + Cardinality(Users(c))
                           + Cardinality(DepUsers(c)) + ctxs[c].lost - ctxs[c].twice
    BY <1>1, Zenon DEF RefsExact
  <2>2. c = i => Cardinality(DepUsers(c)') = Cardinality(DepUsers(c)) - 1
    BY <1>1, <1>11, CountedFinite, CardRemove, ZenonT(60)
  <2>4. /\ ctxs[c].lost \in Nat /\ ctxs[c].twice \in Nat /\ Cardinality(Listed(c)) \in Nat
        /\ Cardinality(Users(c)) \in Nat /\ Cardinality(DepUsers(c)) \in Nat
    BY <1>1, CtxType, CountedFinite, ZenonT(60)
  <2>5. CASE c = i
    <3>1. ctxs'[c] = e /\ Listed(c)' = Listed(c) /\ Users(c)' = Users(c)
      BY <1>7, <1>11, <2>5, Zenon
    <3> QED
      BY <1>6, <2>1, <2>2, <2>4, <2>5, <3>1, SMTT(60)
  <2>6. CASE c # i
    BY <1>7, <1>11, <2>1, <2>6, Zenon
  <2> QED
    BY <2>5, <2>6, Zenon
<1> QED
  BY <1>9, <1>10, <1>12, Zenon DEF RefsInv

\* amdgpu_ctx_alloc: the handle is the one reference of the new context.
LEMMA RefsAlloc ==
    ASSUME RefsInv, NEW t \in Tasks, NEW h \in 1..MaxHandles, Alloc(t, h)
    PROVE  RefsInv'
<1> DEFINE new == [refcount |-> 1, lost |-> 0, twice |-> 0, sequence |-> 1,
                    fences |-> [s \in Slots |-> None]]
<1>a. Len(ctxs) \in Nat
  BY CtxType, Zenon DEF RefsInv
<1>b. PICK n \in Nat : n = Len(ctxs) + 1
  BY <1>a
<1>0. /\ handles[h] = None /\ ctxs' = Append(ctxs, new) /\ handles' = [handles EXCEPT ![h] = n]
      /\ UNCHANGED <<fences, pd, closed, pc, op>>
  BY <1>b, Zenon DEF Alloc
<1>1. TypeOK /\ Allocated /\ OneHandle /\ Holding /\ RefsExact
  BY Zenon DEF RefsInv
<1>2. new \in Context /\ new.refcount = 1 /\ new.lost = 0 /\ new.twice = 0
  BY DEF Context, None
<1> HIDE DEF new
<1>3. /\ ctxs' \in Seq(Context) /\ Len(ctxs') = n
      /\ ctxs'[n] = new /\ \A c \in CtxIds : ctxs'[c] = ctxs[c]
  BY <1>0, <1>1, <1>2, <1>b, SeqAppend, SMTT(60) DEF TypeOK, CtxIds
<1>4. Len(ctxs) \in Nat /\ n \in Nat /\ n = Len(ctxs) + 1
  BY <1>a, <1>b, ZenonT(60)
<1>5. TypeOK'
  BY <1>0, <1>1, <1>3, <1>4, ZenonT(60) DEF TypeOK
<1>6. \A k \in 1..MaxHandles : handles'[k] = IF k = h THEN n ELSE handles[k]
  BY <1>0, <1>1, Zenon DEF TypeOK
<1>7. Allocated' /\ OneHandle' /\ Holding'
  <2>1. \A k \in 1..MaxHandles : handles[k] \in Nat /\ handles[k] # n
    <3>1. \A k \in 1..MaxHandles : handles[k] \in Nat /\ handles[k] <= Len(ctxs)
      BY <1>1, Zenon DEF TypeOK, Allocated
    <3> QED
      BY <1>4, <3>1, SMTT(60)
  <2>2. \A u \in Tasks : op[u].ctx \in Nat /\ op[u].dep_ctx \in Nat
    BY <1>1, Zenon DEF TypeOK, Locals
  <2>3. Allocated'
    BY <1>0, <1>1, <1>3, <1>4, <1>6, <2>1, <2>2, SMTT(60) DEF Allocated
  <2>4. OneHandle'
    BY <1>1, <1>6, <2>1, Zenon DEF OneHandle
  <2> QED
    BY <1>0, <1>1, <2>3, <2>4, Zenon DEF Holding
<1>8. ASSUME NEW c \in CtxIds
      PROVE  Listed(c)' = Listed(c) /\ Users(c)' = Users(c) /\ DepUsers(c)' = DepUsers(c)
  <2>1. c # n /\ c # None
    BY <1>4 DEF CtxIds, None
  <2>2. \A k \in 1..MaxHandles : handles'[k] = c <=> handles[k] = c
    BY <1>0, <1>6, <2>1, Zenon
  <2>3. DOMAIN handles = 1..MaxHandles /\ DOMAIN handles' = 1..MaxHandles
    BY <1>1, <1>5, Zenon DEF TypeOK
  <2> QED
    BY <1>0, <2>2, <2>3, Zenon DEF Listed, Users, DepUsers
<1>9. Listed(n)' = {h} /\ Users(n)' = {} /\ DepUsers(n)' = {}
  <2>1. DOMAIN handles' = 1..MaxHandles
    BY <1>5, Zenon DEF TypeOK
  <2>2. \A k \in 1..MaxHandles : handles[k] # n
    BY <1>1, <1>4, SMTT(60) DEF TypeOK, Allocated
  <2>4. \A u \in Tasks : op[u].ctx \in Nat /\ op[u].dep_ctx \in Nat
    BY <1>1, Zenon DEF TypeOK, Locals
  <2>3. \A u \in Tasks : op[u].ctx # n /\ op[u].dep_ctx # n
    BY <1>1, <1>4, <2>4, SMTT(60) DEF Allocated
  <2> QED
    BY <1>0, <1>6, <2>1, <2>2, <2>3, Zenon DEF Listed, Users, DepUsers
<1>10. RefsExact'
  <2>1. CtxIds' = CtxIds \cup {n}
    BY <1>3, <1>4, SMTT(60) DEF CtxIds
  <2>2. Cardinality(Listed(n)') = 1 /\ Cardinality(Users(n)') = 0 /\ Cardinality(DepUsers(n)') = 0
    BY <1>9, FS_Singleton, FS_EmptySet, Zenon
  <2>3. ASSUME NEW c \in CtxIds
        PROVE  ctxs'[c].refcount = Cardinality(Listed(c)') + Cardinality(Users(c)')
                                   + Cardinality(DepUsers(c)') + ctxs'[c].lost - ctxs'[c].twice
    BY <1>1, <1>3, <1>8, Zenon DEF RefsExact
  <2>4. ctxs'[n].refcount = Cardinality(Listed(n)') + Cardinality(Users(n)')
                            + Cardinality(DepUsers(n)') + ctxs'[n].lost - ctxs'[n].twice
    BY <1>2, <1>3, <2>2, SMTT(60)
  <2> QED
    BY <2>1, <2>3, <2>4, Zenon DEF RefsExact
<1> QED
  BY <1>5, <1>7, <1>10, Zenon DEF RefsInv

\* amdgpu_ctx_free: the handle is no reference any more.
LEMMA RefsFree ==
    ASSUME RefsInv, NEW t \in Tasks, NEW h \in 1..MaxHandles, Free(t, h)
    PROVE  RefsInv'
<1> DEFINE i == handles[h]
<1>0. /\ i # None /\ handles' = [handles EXCEPT ![h] = None]
      /\ ctxs' = [ctxs EXCEPT ![i] = kref_put(@)]
      /\ UNCHANGED <<fences, pd, closed, pc, op>>
  BY Zenon DEF Free
<1>1. TypeOK /\ Allocated /\ OneHandle /\ Holding /\ RefsExact
  BY Zenon DEF RefsInv
<1>2. i \in CtxIds
  BY <1>0, <1>1, CtxType, SMTT(60) DEF TypeOK, Allocated, CtxIds, None
<1>3. /\ kref_put(ctxs[i]) \in Context
      /\ kref_put(ctxs[i]).refcount = ctxs[i].refcount - 1 /\ kref_put(ctxs[i]).lost = ctxs[i].lost
      /\ kref_put(ctxs[i]).twice = ctxs[i].twice
  BY <1>1, <1>2, CtxType, PutFacts, Zenon
<1>4. /\ ctxs' \in Seq(Context) /\ Len(ctxs') = Len(ctxs)
      /\ ctxs'[i] = kref_put(ctxs[i]) /\ \A j \in CtxIds : j # i => ctxs'[j] = ctxs[j]
  BY <1>0, <1>1, <1>2, <1>3, CtxUpdate, Zenon
<1>5. TypeOK'
  BY <1>0, <1>1, <1>4, Zenon DEF TypeOK, None
<1>6. \A k \in 1..MaxHandles : handles'[k] = IF k = h THEN None ELSE handles[k]
  BY <1>0, <1>1, ZenonT(60) DEF TypeOK
<1>7. Allocated' /\ OneHandle' /\ Holding'
  BY <1>0, <1>1, <1>4, <1>6, CtxType, SMTT(60) DEF Allocated, OneHandle, Holding, None
<1>8. ASSUME NEW c \in CtxIds
      PROVE  /\ Users(c)' = Users(c) /\ DepUsers(c)' = DepUsers(c)
             /\ Listed(c)' = IF c = i THEN Listed(c) \ {h} ELSE Listed(c)
             /\ c = i => h \in Listed(c)
  <2>1. c # None
    BY DEF CtxIds, None
  <2>2. DOMAIN handles = 1..MaxHandles /\ DOMAIN handles' = 1..MaxHandles
    BY <1>1, <1>5, Zenon DEF TypeOK
  <2>3. \A k \in 1..MaxHandles : handles'[k] = c <=> handles[k] = c /\ k # h
    BY <1>6, <2>1, Zenon
  <2> QED
    BY <1>0, <2>2, <2>3, Zenon DEF Listed, Users, DepUsers
<1>9. RefsExact'
  <2> SUFFICES ASSUME NEW c \in CtxIds
               PROVE  ctxs'[c].refcount = Cardinality(Listed(c)') + Cardinality(Users(c)')
                                          + Cardinality(DepUsers(c)')
                                          + ctxs'[c].lost - ctxs'[c].twice
    BY <1>4, Zenon DEF RefsExact, CtxIds
  <2>1. ctxs[c].refcount = Cardinality(Listed(c)) + Cardinality(Users(c))
                           + Cardinality(DepUsers(c)) + ctxs[c].lost - ctxs[c].twice
    BY <1>1, Zenon DEF RefsExact
  <2>2. c = i => Cardinality(Listed(c)') = Cardinality(Listed(c)) - 1
    BY <1>1, <1>8, CountedFinite, CardRemove, ZenonT(60)
  <2>3. /\ ctxs'[c].refcount = IF c = i THEN ctxs[c].refcount - 1 ELSE ctxs[c].refcount
        /\ ctxs'[c].lost = ctxs[c].lost /\ ctxs'[c].twice = ctxs[c].twice
    BY <1>3, <1>4, ZenonT(60)
  <2>4. /\ ctxs[c].lost \in Nat /\ ctxs[c].twice \in Nat /\ Cardinality(Listed(c)) \in Nat
        /\ Cardinality(Users(c)) \in Nat /\ Cardinality(DepUsers(c)) \in Nat
    BY <1>1, CtxType, CountedFinite, ZenonT(60)
  <2>5. CASE c = i
    <3>1. /\ ctxs'[c].refcount = ctxs[c].refcount - 1 /\ ctxs'[c].lost = ctxs[c].lost
          /\ ctxs'[c].twice = ctxs[c].twice
      BY <2>3, <2>5, Zenon
    <3>2. /\ Cardinality(Listed(c)') = Cardinality(Listed(c)) - 1
          /\ Cardinality(Users(c)') = Cardinality(Users(c))
          /\ Cardinality(DepUsers(c)') = Cardinality(DepUsers(c))
      BY <1>8, <2>2, <2>5, Zenon
    <3> QED
      BY <2>1, <2>4, <3>1, <3>2, SMTT(60)
  <2>6. CASE c # i
    BY <1>8, <2>1, <2>3, <2>6, Zenon
  <2> QED
    BY <2>5, <2>6, Zenon
<1> QED
  BY <1>5, <1>7, <1>9, Zenon DEF RefsInv

\* amdgpu_ctx_mgr_fini puts the reference of every handle.
LEMMA RefsClose ==
    ASSUME RefsInv, Close
    PROVE  RefsInv'
<1> DEFINE Put(c) == IF \E h \in 1..MaxHandles : handles[h] = c THEN kref_put(ctxs[c]) ELSE ctxs[c]
<1>1. TypeOK /\ Allocated /\ OneHandle /\ Holding /\ RefsExact
  BY Zenon DEF RefsInv
<1>2. DOMAIN handles = 1..MaxHandles
  BY <1>1, Zenon DEF TypeOK
<1>0. /\ closed' = TRUE /\ ctxs' = [c \in CtxIds |-> Put(c)]
      /\ handles' = [h \in 1..MaxHandles |-> None]
      /\ UNCHANGED <<fences, pd, pc, op>>
  BY <1>2, Zenon DEF Close
<1>3. ASSUME NEW c \in CtxIds
      PROVE  /\ Put(c) \in Context /\ Put(c).lost = ctxs[c].lost /\ Put(c).twice = ctxs[c].twice
             /\ Put(c).refcount = IF \E h \in 1..MaxHandles : handles[h] = c
                                  THEN ctxs[c].refcount - 1 ELSE ctxs[c].refcount
  <2>1. CASE \E h \in 1..MaxHandles : handles[h] = c
    <3>1. ctxs[c] \in Context
      BY <1>1, CtxType, Zenon
    <3> QED
      BY <2>1, <3>1, PutFacts, Zenon
  <2>2. CASE ~\E h \in 1..MaxHandles : handles[h] = c
    BY <1>1, <2>2, CtxType, Zenon
  <2> QED
    BY <2>1, <2>2, Zenon
<1> HIDE DEF Put
<1>4. Len(ctxs) \in Nat
  BY <1>1, CtxType, Zenon
<1>5. /\ ctxs' \in Seq(Context) /\ Len(ctxs') = Len(ctxs)
      /\ \A c \in CtxIds : ctxs'[c] = Put(c)
  <2>1. ctxs' \in [1..Len(ctxs) -> Context]
    BY <1>0, <1>3, Zenon DEF CtxIds
  <2> QED
    BY <1>0, <1>4, <2>1, SMTT(60) DEF CtxIds
<1>6. TypeOK'
  BY <1>0, <1>1, <1>5, ZenonT(60) DEF TypeOK, None
<1>7. Allocated' /\ OneHandle' /\ Holding'
  BY <1>0, <1>1, <1>4, <1>5, SMTT(60) DEF Allocated, OneHandle, Holding, None
<1>8. ASSUME NEW c \in CtxIds
      PROVE  /\ Users(c)' = Users(c) /\ DepUsers(c)' = DepUsers(c)
             /\ Cardinality(Listed(c)') = 0
             /\ Cardinality(Listed(c)) = IF \E h \in 1..MaxHandles : handles[h] = c THEN 1 ELSE 0
  <2>1. Users(c)' = Users(c) /\ DepUsers(c)' = DepUsers(c)
    BY <1>0, Zenon DEF Users, DepUsers
  <2>2. Listed(c)' = {}
    BY <1>0 DEF Listed, CtxIds, None
  <2>3. CASE \E h \in 1..MaxHandles : handles[h] = c
    <3>1. PICK h \in 1..MaxHandles : handles[h] = c
      BY <2>3, Zenon
    <3>2. Listed(c) = {h}
      BY <1>1, <1>2, <3>1, SMTT(60) DEF Listed, OneHandle, CtxIds, None
    <3> QED
      BY <2>1, <2>2, <2>3, <3>2, FS_EmptySet, FS_Singleton, ZenonT(60)
  <2>4. CASE ~\E h \in 1..MaxHandles : handles[h] = c
    <3>1. Listed(c) = {}
      BY <1>2, <2>4, Zenon DEF Listed
    <3> QED
      BY <2>1, <2>2, <2>4, <3>1, FS_EmptySet, Zenon
  <2> QED
    BY <2>3, <2>4, Zenon
<1>9. RefsExact'
  <2> SUFFICES ASSUME NEW c \in CtxIds
               PROVE  ctxs'[c].refcount = Cardinality(Listed(c)') + Cardinality(Users(c)')
                                          + Cardinality(DepUsers(c)')
                                          + ctxs'[c].lost - ctxs'[c].twice
    BY <1>5, Zenon DEF RefsExact, CtxIds
  <2>1. ctxs[c].refcount = Cardinality(Listed(c)) + Cardinality(Users(c))
                           + Cardinality(DepUsers(c)) + ctxs[c].lost - ctxs[c].twice
    BY <1>1, Zenon DEF RefsExact
  <2>2. /\ ctxs[c].lost \in Nat /\ ctxs[c].twice \in Nat
        /\ Cardinality(Users(c)) \in Nat /\ Cardinality(DepUsers(c)) \in Nat
    BY <1>1, CtxType, CountedFinite, Zenon
  <2>3. ctxs'[c] = Put(c)
    BY <1>5, Zenon
  <2> QED
    BY <1>3, <1>8, <2>1, <2>2, <2>3, SMTT(60)
<1> QED
  BY <1>6, <1>7, <1>9, Zenon DEF RefsInv

-----------------------------------------------------------------------------
(* The steps that leave the references alone *)

\* The steps of a submission that change no reference.
LEMMA RefsSubmission ==
    ASSUME RefsInv, NEW t \in Tasks,
           CsReserve(t) \/ CsFail(t) \/ CsSubmit(t) \/ CsAddFence(t) \/ CsPush(t)
    PROVE  RefsInv'
<1> TypeOK
  BY Zenon DEF RefsInv
<1>1. CASE CsReserve(t)
  <2>1. TypeOK'
    BY <1>1, Zenon DEF TypeOK, CsReserve, ReservePd, Places
  <2> QED
    BY <1>1, <2>1, RefsKept, Zenon DEF CsReserve, TypeOK
<1>2. CASE CsFail(t)
  <2>1. TypeOK'
    BY <1>2, Zenon DEF TypeOK, CsFail, Places
  <2> QED
    BY <1>2, <2>1, RefsKept, Zenon DEF CsFail, TypeOK
<1>3. CASE CsSubmit(t)
  <2> DEFINE new == [ctx |-> op[t].ctx, seq |-> None, dep |-> op[t].dep,
                     pushed |-> None, signaled |-> FALSE]
  <2>1. /\ new \in Fence /\ fences' = Append(fences, new) /\ op' \in [Tasks -> Locals]
        /\ \A u \in Tasks : op'[u].ctx = op[u].ctx /\ op'[u].dep_ctx = op[u].dep_ctx
    BY <1>3, SubmitFacts, RefsCtx, Zenon
  <2> HIDE DEF new
  <2>2. /\ pc[t] \in {"dependencies", "submit"} /\ pc' = [pc EXCEPT ![t] = "add_fence"]
        /\ UNCHANGED <<handles, ctxs, pd, closed>>
    BY <1>3, Zenon DEF CsSubmit
  <2>3. fences' \in Seq(Fence)
    BY <2>1, SeqAppend, Zenon DEF TypeOK
  <2>4. TypeOK'
    BY <2>1, <2>2, <2>3, Zenon DEF TypeOK, Places
  <2> QED
    BY <2>1, <2>2, <2>4, RefsKept, Zenon DEF TypeOK
<1>4. CASE CsAddFence(t)
  <2>1. /\ pc[t] = "add_fence" /\ pc' = [pc EXCEPT ![t] = "push"]
        /\ fences' = [fences EXCEPT ![op[t].fence].seq = op[t].seq]
        /\ UNCHANGED <<handles, pd, closed, op>>
    BY <1>4, Zenon DEF CsAddFence
  <2>2. fences' \in Seq(Fence)
    <3>1. op[t].seq \in Nat
      BY Zenon DEF TypeOK, Locals
    <3> QED
      BY <2>1, <3>1, FenceFieldUpdate, Zenon
  <2>3. /\ ctxs' \in Seq(Context) /\ Len(ctxs') = Len(ctxs)
        /\ \A c \in CtxIds : /\ ctxs'[c].refcount = ctxs[c].refcount
                             /\ ctxs'[c].lost = ctxs[c].lost /\ ctxs'[c].twice = ctxs[c].twice
    BY <1>4, AddFenceFacts, RefsCtx, Zenon
  <2>4. TypeOK'
    BY <2>1, <2>2, <2>3, ZenonT(60) DEF TypeOK, Places
  <2> QED
    BY <2>1, <2>3, <2>4, RefsKept, ZenonT(60) DEF TypeOK
<1>5. CASE CsPush(t)
  <2>1. /\ pc[t] = "push" /\ pc' = [pc EXCEPT ![t] = "fini"]
        /\ fences' = [fences EXCEPT ![op[t].fence].pushed = Pushed + 1]
        /\ UNCHANGED <<handles, ctxs, pd, closed, op>>
    BY <1>5, Zenon DEF CsPush
  <2>2. Pushed + 1 \in Nat
    BY PushedType
  <2>3. fences' \in Seq(Fence)
    BY <2>1, <2>2, FenceFieldUpdate, Zenon
  <2>4. TypeOK'
    BY <2>1, <2>3, ZenonT(60) DEF TypeOK, Places
  <2> QED
    BY <2>1, <2>4, RefsKept, ZenonT(60) DEF TypeOK
<1> QED
  BY <1>1, <1>2, <1>3, <1>4, <1>5, Zenon

\* The reference counts and the holders of references stay in step.
LEMMA RefsStep ==
    ASSUME RefsInv, [Next]_vars
    PROVE  RefsInv'
<1> TypeOK /\ DOMAIN handles = 1..MaxHandles
  BY Zenon DEF RefsInv, TypeOK
<1>1. ASSUME NEW t \in Tasks, Call(t) PROVE RefsInv'
  <2>1. PICK h \in 1..MaxHandles :
          \/ Alloc(t, h) \/ Free(t, h) \/ CsBegin(t, h)
          \/ \E seq \in Seqs : CsDependency(t, h, seq) \/ WaitBegin(t, h, seq)
    BY <1>1, Zenon DEF Call
  <2>2. CASE CsBegin(t, h)
    <3> DEFINE o == [NoOp EXCEPT !.ctx = handles[h]]
    <3>1. o \in Locals /\ o.ctx = handles[h] /\ o.dep_ctx = None
      BY NoOpType, Zenon DEF Locals, TypeOK
    <3> HIDE DEF o
    <3>2. /\ pc[t] = "idle" /\ handles[h] # None
          /\ ctxs' = [ctxs EXCEPT ![handles[h]] = kref_get(@)]
          /\ op' = [op EXCEPT ![t] = o] /\ pc' = [pc EXCEPT ![t] = "reserve"]
          /\ UNCHANGED <<handles, fences, pd, closed>>
      BY <2>2, Zenon DEF CsBegin, o
    <3> QED
      BY <3>1, <3>2, RefsBegin, Zenon DEF Places
  <2>3. ASSUME NEW seq \in Seqs, WaitBegin(t, h, seq) PROVE RefsInv'
    <3> DEFINE o == [NoOp EXCEPT !.ctx = handles[h], !.seq = seq]
    <3>0. seq \in Nat
      BY CtxAssumption DEF Seqs
    <3>1. o \in Locals /\ o.ctx = handles[h] /\ o.dep_ctx = None
      <4> DEFINE p == [NoOp EXCEPT !.ctx = handles[h]]
      <4>1. p \in Locals /\ p.ctx = handles[h] /\ p.dep_ctx = None
        BY NoOpType, Zenon DEF Locals, TypeOK
      <4>2. o = [p EXCEPT !.seq = seq]
        BY Zenon
      <4> HIDE DEF p
      <4> QED
        BY <3>0, <4>1, <4>2, Zenon DEF Locals
    <3> HIDE DEF o
    <3>2. /\ pc[t] = "idle" /\ handles[h] # None
          /\ ctxs' = [ctxs EXCEPT ![handles[h]] = kref_get(@)]
          /\ op' = [op EXCEPT ![t] = o] /\ pc' = [pc EXCEPT ![t] = "get_fence"]
          /\ UNCHANGED <<handles, fences, pd, closed>>
      BY <2>3, Zenon DEF WaitBegin, o
    <3> QED
      BY <3>1, <3>2, RefsBegin, ZenonT(60) DEF Places
  <2>4. ASSUME NEW seq \in Seqs, CsDependency(t, h, seq) PROVE RefsInv'
    <3>1. seq \in Nat
      BY CtxAssumption DEF Seqs
    <3> QED
      BY <2>4, <3>1, RefsDependency, SMTT(60)
  <2> QED
    BY <2>1, <2>2, <2>3, <2>4, RefsAlloc, RefsFree, SMTT(60)
<1>2. ASSUME NEW t \in Tasks, CsFini(t) PROVE RefsInv'
  <2>1. /\ pc[t] = "fini" /\ ctxs' = [ctxs EXCEPT ![op[t].ctx] = kref_put(@)]
        /\ op' = [op EXCEPT ![t] = NoOp] /\ pc' = [pc EXCEPT ![t] = "idle"]
        /\ UNCHANGED <<handles, fences, closed>>
    BY <1>2, Zenon DEF CsFini
  <2>2. pd' \in Tasks \cup {None}
    BY <1>2, Zenon DEF CsFini, TypeOK
  <2> QED
    BY <2>1, <2>2, RefsEnd, Zenon
<1>3. ASSUME NEW t \in Tasks, pc[t] = "wait", WaitEnd(t) PROVE RefsInv'
  <2>1. /\ ctxs' = [ctxs EXCEPT ![op[t].ctx] = kref_put(@)]
        /\ op' = [op EXCEPT ![t] = NoOp] /\ pc' = [pc EXCEPT ![t] = "idle"]
        /\ UNCHANGED <<handles, fences, pd, closed>>
    BY <1>3, Zenon DEF WaitEnd
  <2>2. pd' \in Tasks \cup {None}
    BY <2>1, Zenon DEF TypeOK
  <2> QED
    BY <1>3, <2>1, <2>2, RefsEnd, Zenon
<1>4. ASSUME NEW t \in Tasks, WaitFence(t) PROVE RefsInv'
  <2>1. /\ pc[t] = "get_fence" /\ pc' = [pc EXCEPT ![t] = "wait"]
        /\ op' = [op EXCEPT ![t].fence = amdgpu_ctx_get_fence(ctxs[op[t].ctx], op[t].seq)]
        /\ UNCHANGED <<handles, ctxs, fences, pd, closed>>
    BY <1>4, Zenon DEF WaitFence
  <2>2. amdgpu_ctx_get_fence(ctxs[op[t].ctx], op[t].seq) \in Int
    BY <2>1, CallCtx, RefsCtx, CtxType, GetFenceType, ZenonT(60) DEF Locals
  <2>3. /\ op' \in [Tasks -> Locals]
        /\ \A u \in Tasks : op'[u].ctx = op[u].ctx /\ op'[u].dep_ctx = op[u].dep_ctx
    BY <2>1, <2>2, ZenonT(60) DEF TypeOK, Locals
  <2>4. TypeOK'
    BY <2>1, <2>3, Zenon DEF TypeOK, Places
  <2> QED
    BY <2>1, <2>3, <2>4, RefsKept, Zenon DEF TypeOK
<1>5. ASSUME NEW f \in FenceIds, Finish(f) PROVE RefsInv'
  <2>1. /\ fences' = [fences EXCEPT ![f].signaled = TRUE]
        /\ UNCHANGED <<handles, ctxs, pd, closed, pc, op>>
    BY <1>5, Zenon DEF Finish
  <2>2. fences' \in Seq(Fence)
    BY <2>1, FenceFieldUpdate, Zenon
  <2>3. TypeOK'
    BY <2>1, <2>2, Zenon DEF TypeOK
  <2> QED
    BY <2>1, <2>3, RefsKept, Zenon
<1>6. CASE UNCHANGED vars
  <2>1. TypeOK'
    BY <1>6, Zenon DEF vars, TypeOK
  <2> QED
    BY <1>6, <2>1, RefsKept, Zenon DEF vars
<1> QED
  BY <1>1, <1>2, <1>3, <1>4, <1>5, <1>6, RefsInitFail, RefsDependencyFence, RefsSubmission,
     RefsClose, SMTT(60)
     DEF Next, Step, WaitReturn, WaitTimeout

\* No context, no call.
LEMMA InitRefs == Init => RefsInv
<1> SUFFICES ASSUME Init PROVE RefsInv
  BY Zenon
<1>1. NoOp \in Locals /\ NoOp.ctx = None /\ NoOp.dep_ctx = None
  BY NoOpType, Zenon
<1>2. Len(ctxs) = 0 /\ ctxs \in Seq(Context) /\ fences \in Seq(Fence)
  BY DEF Init
<1>3. TypeOK
  BY <1>1, <1>2, Zenon DEF Init, TypeOK, Places, None
<1> QED
  BY <1>1, <1>2, <1>3, SMTT(60) DEF Init, RefsInv, Allocated, OneHandle, Holding, RefsExact, CtxIds, None

\* The references of a context are its handle, the threads that use it and those that
\* amdgpu_cs_dependencies has lost, less those that a failed amdgpu_cs_parser_init has put
\* twice, whatever the number of threads, contexts and slots: only a context that has been
\* put twice is used after amdgpu_ctx_do_release.
THEOREM RefsExactHolds == Spec => []RefsExact
<1>2. RefsInv => RefsExact
  BY Zenon DEF RefsInv
<1> QED
  BY InitRefs, <1>2, RefsStep, PTL DEF Spec

-----------------------------------------------------------------------------
(* The waits *)

\* amdgpu_cs_wait_ioctl waits for the very fence of the submission it asks for, and finds none
\* only when that submission is done, for any number of slots, threads and contexts, as long
\* as no failed amdgpu_cs_parser_init has put the context twice.
THEOREM LookupExactHolds == Spec => []LookupExact
<1>1. Init => RefsInv /\ LookupInv
  <2> SUFFICES ASSUME Init PROVE LookupInv
    BY InitRefs, Zenon
  <2>1. Len(ctxs) = 0 /\ Len(fences) = 0
    BY Zenon DEF Init
  <2>2. CtxIds = {} /\ FenceIds = {}
    BY <2>1 DEF CtxIds, FenceIds
  <2> QED
    BY <2>2, Zenon DEF Init, LookupInv, SlotInv, ThreadOk, LookupOk
<1>2. RefsInv /\ LookupInv /\ [Next]_vars => (RefsInv /\ LookupInv)'
  <2>1. RefsInv => CtxInv
    BY RefsCtx, Zenon
  <2>2. (RefsInv => CtxInv)'
    BY <2>1, PTL
  <2> QED
    BY <2>1, <2>2, RefsStep, LookupStep, Zenon
<1>3. LookupInv => LookupExact
  BY Zenon DEF LookupInv, LookupOk, LookupExact, Wanted
<1> QED
  BY <1>1, <1>2, <1>3, PTL DEF Spec

=============================================================================
