-------------------------- MODULE FenceDriverProofs --------------------------
(***************************************************************************)
(* Proofs about the fences of a ring (amdgpu_fence.c), for any number of   *)
(* submissions and slots and sequence numbers of any width, with the runs  *)
(* of amdgpu_fence_process by the interrupt, the timer and                 *)
(* amdgpu_fence_count_emitted: no fence is signaled twice or early, a busy *)
(* slot is waited for only while it is being signaled, and                 *)
(* amdgpu_fence_wait_empty waits for all.                                  *)
(***************************************************************************)
EXTENDS FenceDriver, FiniteSetTheorems, TLAPS

-----------------------------------------------------------------------------
(* Remainders and sequences: numbers, slots, the ring *)

\* Sequence numbers and slots are remainders of a count: what % and \div are.
LEMMA ModDef ==
    ASSUME NEW N \in Nat \ {0}, NEW a \in Int
    PROVE  /\ a % N \in 0..(N - 1) /\ a \div N \in Int
           /\ a = N * (a \div N) + (a % N)
OBVIOUS

\* Distinct multiples of N are at least N apart.
LEMMA MultiplesApart ==
    ASSUME NEW N \in Nat \ {0}, NEW q \in Int, NEW r \in Int, q > r
    PROVE  N * q - N * r >= N
OBVIOUS

\* Two numbers less than N apart have different slots in a ring of N slots.
LEMMA ModNe ==
    ASSUME NEW N \in Nat \ {0}, NEW a \in Int, NEW b \in Int, a < b, b - a < N
    PROVE  a % N # b % N
<1> DEFINE q == a \div N
           r == b \div N
           m == a % N
           n == b % N
<1>1. /\ q \in Int /\ m \in 0..(N - 1) /\ a = N * q + m
      /\ r \in Int /\ n \in 0..(N - 1) /\ b = N * r + n
  BY ModDef, Zenon
<1>2. SUFFICES ASSUME m = n PROVE FALSE
  BY Zenon
<1> HIDE DEF q, r, m, n
<1>3. N * q \in Int /\ N * r \in Int
  BY <1>1
<1>4. N * r - N * q > 0 /\ N * r - N * q < N
  BY <1>1, <1>2, <1>3
<1>5. CASE r > q
  BY <1>1, <1>4, <1>5, <1>3, MultiplesApart
<1>6. CASE r = q
  BY <1>4, <1>6, <1>3
<1>7. CASE q > r
  <2>1. N * q - N * r >= N
    BY <1>1, <1>7, MultiplesApart, Zenon
  <2> QED
    BY <2>1, <1>3, <1>4
<1> QED
  BY <1>1, <1>5, <1>6, <1>7

\* Less than N apart, two numbers with the same slot are the same.
LEMMA ModSame ==
    ASSUME NEW N \in Nat \ {0}, NEW a \in Int, NEW b \in Int,
           a - b < N, b - a < N, a % N = b % N
    PROVE  a = b
<1>1. CASE a < b
  BY <1>1, ModNe, Zenon
<1>2. CASE b < a
  BY <1>2, ModNe, Zenon
<1> QED
  BY <1>1, <1>2

\* The remainder is determined by its range and by a multiple.
LEMMA ModUnique ==
    ASSUME NEW N \in Nat \ {0}, NEW a \in Int, NEW q \in Int, NEW m \in 0..(N - 1),
           a = N * q + m
    PROVE  a % N = m /\ a \div N = q
<1> DEFINE r == a \div N
           n == a % N
<1>1. r \in Int /\ n \in 0..(N - 1) /\ a = N * r + n
  BY ModDef, Zenon
<1> SUFFICES n = m /\ r = q
  BY Zenon
<1> HIDE DEF r, n
<1>2. N * q \in Int /\ N * r \in Int
  BY <1>1
<1>3. CASE q > r
  <2>1. N * q - N * r >= N
    BY <1>1, <1>3, MultiplesApart, Zenon
  <2> QED
    BY <2>1, <1>1, <1>2
<1>4. CASE r > q
  <2>1. N * r - N * q >= N
    BY <1>1, <1>4, MultiplesApart, Zenon
  <2> QED
    BY <2>1, <1>1, <1>2
<1>5. CASE q = r
  BY <1>1, <1>2, <1>5
<1> QED
  BY <1>1, <1>3, <1>4, <1>5

\* A full turn of the ring ends in the same slot.
LEMMA ModTurn ==
    ASSUME NEW N \in Nat \ {0}, NEW a \in Int
    PROVE  (a + N) % N = a % N
<1> DEFINE q == a \div N
           m == a % N
<1>1. q \in Int /\ m \in 0..(N - 1) /\ a = N * q + m
  BY ModDef, Zenon
<1>2. SUFFICES (a + N) % N = m
  BY Zenon
<1> HIDE DEF q, m
<1>3. N * (q + 1) = N * q + N
  BY <1>1
<1>4. a + N = N * (q + 1) + m /\ a + N \in Int /\ q + 1 \in Int
  BY <1>1, <1>3
<1> QED
  BY <1>1, <1>4, ModUnique, Zenon

\* The length of a sequence, and its elements.
LEMMA SeqLen ==
    ASSUME NEW S, NEW s \in Seq(S)
    PROVE  Len(s) \in Nat /\ s \in [1..Len(s) -> S] /\ DOMAIN s = 1..Len(s)
OBVIOUS

\* One element of a sequence.
LEMMA SeqElem ==
    ASSUME NEW S, NEW s \in Seq(S), NEW i \in 1..Len(s)
    PROVE  s[i] \in S
OBVIOUS

-----------------------------------------------------------------------------
(* Sequence numbers and slots *)

\* The constants as the arithmetic needs them.
LEMMA Constants ==
    /\ NumHwSubmission \in Nat \ {0} /\ NumFences \in Nat \ {0} /\ SeqMod \in Nat \ {0}
    /\ NumFences = 2 * NumHwSubmission /\ Slots = 0..(NumFences - 1)
    /\ FirstSeq \in Nat /\ MaxSeq \in Nat /\ MaxSeq - FirstSeq < SeqMod
BY FenceBounds DEF NumFences, Slots

\* A count of fences is a number to calculate with.
LEMMA NatInt == \A n \in Nat : n \in Int
OBVIOUS

\* A fence has a slot.
LEMMA SlotType ==
    ASSUME NEW n \in Nat
    PROVE  Slot(n) \in Slots /\ Slot(n) \in Nat /\ Seq32(n) \in Nat
<1>1. n \in Int
  OBVIOUS
<1>2. n % NumFences \in 0..(NumFences - 1) /\ n % SeqMod \in 0..(SeqMod - 1)
  BY <1>1, Constants, ModDef, Zenon
<1> QED
  BY <1>2, Constants DEF Slot, Seq32

\* Because the width of a sequence number is a multiple of the number of slots, the slot of
\* a fence can be computed from its sequence number, across the wrap of the numbers.
LEMMA SlotOfSeq ==
    ASSUME NEW n \in Nat
    PROVE  Slot(Seq32(n)) = Slot(n)
<1> DEFINE N == NumFences
           q == SeqMod \div N
           d == n \div SeqMod
           r == n % SeqMod
           e == r \div N
           m == r % N
<1>1. /\ N \in Nat \ {0} /\ SeqMod \in Nat \ {0}
      /\ q \in Int /\ SeqMod = N * q + (SeqMod % N) /\ SeqMod % N = 0
  BY Constants, FenceBounds, NatInt, ModDef, Zenon
<1>2. d \in Int /\ r \in 0..(SeqMod - 1) /\ n = SeqMod * d + r
  BY <1>1, NatInt, ModDef, Zenon
<1>r. r \in Int
  BY <1>1, <1>2
<1>3. e \in Int /\ m \in 0..(N - 1) /\ r = N * e + m
  BY <1>1, <1>r, ModDef, Zenon
<1>4. Slot(Seq32(n)) = m /\ Slot(n) = n % N
  BY Zenon DEF Slot, Seq32
<1> HIDE DEF N, q, d, r, e, m
<1>5. SeqMod * d = N * (q * d)
  BY <1>1, <1>2
<1>6. N * (q * d + e) = N * (q * d) + N * e /\ q * d \in Int /\ q * d + e \in Int
  BY <1>1, <1>2, <1>3
<1>7. n = N * (q * d + e) + m
  BY <1>1, <1>2, <1>3, <1>5, <1>6
<1>8. ASSUME NEW k \in Int, n = N * k + m
      PROVE  n % N = m
  BY <1>1, <1>3, <1>8, ModUnique
<1> QED
  BY <1>4, <1>6, <1>7, <1>8, Zenon

\* amdgpu_fence_process steps from one slot to the next.
LEMMA SlotNext ==
    ASSUME NEW n \in Nat
    PROVE  Slot(Slot(n) + 1) = Slot(n + 1)
<1> DEFINE N == NumFences
           q == n \div N
           m == n % N
           d == (m + 1) \div N
           r == (m + 1) % N
<1>1. N \in Nat \ {0} /\ q \in Int /\ m \in 0..(N - 1) /\ n = N * q + m
  BY Constants, NatInt, ModDef, Zenon
<1>2. d \in Int /\ r \in 0..(N - 1) /\ m + 1 = N * d + r
  BY <1>1, ModDef
<1>3. Slot(Slot(n) + 1) = r /\ Slot(n + 1) = (n + 1) % N
  BY Zenon DEF Slot
<1> HIDE DEF N, q, m, d, r
<1>4. N * (q + d) = N * q + N * d /\ q + d \in Int
  BY <1>1, <1>2
<1>5. n + 1 = N * (q + d) + r /\ n + 1 \in Int
  BY <1>1, <1>2, <1>4
<1>6. (n + 1) % N = r
  BY <1>1, <1>2, <1>4, <1>5, ModUnique, Zenon
<1> QED
  BY <1>3, <1>6, Zenon

\* Fewer than NumFences fences apart, two fences with one slot are the same.
LEMMA SlotSame ==
    ASSUME NEW a \in Nat, NEW b \in Nat, a - b < NumFences, b - a < NumFences,
           Slot(a) = Slot(b)
    PROVE  a = b
BY Constants, NatInt, ModSame, Zenon DEF Slot

\* A slot comes back after NumFences fences.
LEMMA SlotTurn ==
    ASSUME NEW n \in Nat
    PROVE  Slot(n + NumFences) = Slot(n)
BY Constants, NatInt, ModTurn, Zenon DEF Slot

\* In a run no two fences have the same sequence number.
LEMMA SeqSame ==
    ASSUME NEW a \in FirstSeq..MaxSeq, NEW b \in FirstSeq..MaxSeq, Seq32(a) = Seq32(b)
    PROVE  a = b
<1>1. a \in Int /\ b \in Int /\ a - b < SeqMod /\ b - a < SeqMod
  BY Constants
<1> QED
  BY <1>1, Constants, ModSame, Zenon DEF Seq32

-----------------------------------------------------------------------------
(* The submissions and the GPU *)

Stages == {"idle", "flush", "job", "flush_slot", "job_slot", "commit", "callback"}

\* the last fence that has been written to its slot
Assigned == IF SlotPending THEN sync_seq - 1 ELSE sync_seq

\* the last fence before those of the submission under way
Committed == sync_seq - Len(staged)

\* the submission under way has numbers left, and the fences it has emitted are staged
Submission ==
    /\ sync_seq \in FirstSeq..MaxSeq /\ emitter \in Stages /\ staged \in Seq(Nat)
    /\ emitter = "flush" => sync_seq + 2 <= MaxSeq
    /\ emitter \in {"job", "flush_slot"} => sync_seq + 1 <= MaxSeq
    /\ \A i \in 1..Len(staged) : staged[i] = Committed + i
    /\ emitter \in {"idle", "flush", "callback"} => Len(staged) = 0
    /\ emitter = "flush_slot" => Len(staged) = 1
    /\ emitter = "job" => Len(staged) <= 1
    /\ emitter \in {"job_slot", "commit"} => Len(staged) \in 1..2

\* the fences in the ring are in order, and the GPU has not passed them
RingOrder ==
    /\ gpu \in {"run", "hung", "forced"} /\ ring \in Seq(Nat)
    /\ passed \in FirstSeq..Committed
    /\ gpu = "forced" => emitter = "idle"
    /\ \A i \in 1..Len(ring) : ring[i] <= Committed /\ (gpu # "forced" => ring[i] > passed)
    /\ \A i, k \in 1..Len(ring) : i < k => ring[i] < ring[k]

SubmitInv == Submission /\ RingOrder

\* What amdgpu_ib_schedule has emitted so far is staged for the ring.
LEMMA SubmissionStep == Submission /\ [Next]_vars => Submission'
<1> SUFFICES ASSUME Submission, [Next]_vars PROVE Submission'
  BY Zenon
<1>t. /\ sync_seq \in Nat /\ MaxSeq \in Nat /\ FirstSeq \in Nat /\ sync_seq \in FirstSeq..MaxSeq
      /\ staged \in Seq(Nat) /\ Len(staged) \in Nat
  BY Constants, SeqLen DEF Submission
<1>0. CASE UNCHANGED <<sync_seq, staged, emitter>>
  BY <1>0, Zenon DEF Submission, Committed
<1>e. <<>> \in Seq(Nat) /\ Len(<<>>) = 0 /\ \A s \in Seq(Nat) : Len(s) = 0 => s = <<>>
  OBVIOUS
<1>1. CASE IbSchedule
  <2>1. /\ sync_seq' = sync_seq /\ staged' = staged /\ emitter = "idle"
        /\ emitter' \in {"flush", "job"} /\ sync_seq + 2 <= MaxSeq
    BY <1>1, Zenon DEF IbSchedule
  <2> QED
    BY <1>t, <2>1 DEF Submission, Stages, Committed
<1>2. CASE FenceEmit
  <2>1. /\ sync_seq' = sync_seq + 1 /\ staged' = Append(staged, sync_seq + 1)
        /\ \/ emitter = "flush" /\ emitter' = "flush_slot"
           \/ emitter = "job" /\ emitter' = "job_slot"
    BY <1>2, Zenon DEF FenceEmit
  <2>2. /\ staged' \in Seq(Nat) /\ Len(staged') = Len(staged) + 1
        /\ \A i \in 1..Len(staged) : staged'[i] = staged[i]
        /\ staged'[Len(staged) + 1] = sync_seq + 1
    <3>1. sync_seq + 1 \in Nat
      BY <1>t
    <3> QED
      BY <1>t, <2>1, <3>1
  <2>3. Committed' = Committed
    BY <1>t, <2>1, <2>2 DEF Committed
  <2>4. \A i \in 1..Len(staged') : staged'[i] = Committed' + i
    <3> SUFFICES ASSUME NEW i \in 1..Len(staged') PROVE staged'[i] = Committed + i
      BY <2>3, Zenon
    <3>1. CASE i \in 1..Len(staged)
      BY <2>2, <3>1, Zenon DEF Submission
    <3>2. CASE i = Len(staged) + 1
      BY <1>t, <2>2, <3>2 DEF Committed
    <3> QED
      BY <1>t, <2>2, <3>1, <3>2
  <2> QED
    BY <1>t, <2>1, <2>2, <2>4 DEF Submission, Stages
<1>3. CASE FenceEmitFails \/ RingCommit
  <2>1. sync_seq' = sync_seq /\ staged' = <<>> /\ emitter' \in {"idle", "callback"}
    BY <1>3, Zenon DEF FenceEmitFails, RingCommit
  <2>2. Len(staged') = 0 /\ staged' \in Seq(Nat)
    BY <1>e, <2>1, Zenon
  <2> QED
    BY <1>t, <2>1, <2>2 DEF Submission, Stages, Committed
<1>4. CASE FenceAssign
  <2>1. /\ sync_seq' = sync_seq /\ staged' = staged
        /\ \/ emitter = "flush_slot" /\ emitter' = "job"
           \/ emitter = "job_slot" /\ emitter' = "commit"
    BY <1>4, Zenon DEF FenceAssign
  <2> QED
    BY <1>t, <2>1 DEF Submission, Stages, Committed
<1>5. CASE AddCallback
  <2>1. sync_seq' = sync_seq /\ staged' = staged /\ emitter = "callback" /\ emitter' = "idle"
    BY <1>5, Zenon DEF AddCallback
  <2> QED
    BY <1>t, <2>1, Zenon DEF Submission, Stages, Committed
<1>6. CASE FenceBusy \/ WaitEmpty \/ WaitEmptyReturn \/ GpuPass \/ GpuHang \/ ForceCompletion
            \/ AsicReset \/ UNCHANGED vars
  BY <1>0, <1>6, Zenon
  DEF FenceBusy, WaitEmpty, WaitEmptyReturn, GpuPass, GpuHang, ForceCompletion, AsicReset,
      submitVars, vars
<1>7. ASSUME NEW w \in Workers, ProcessStart(w) \/ Process(w) PROVE Submission'
  BY <1>0, <1>7, Zenon
  DEF ProcessStart, Process, ReadLast, ReadMem, ClaimSeq, CheckFallback, TakeFence,
      ClearSlot, SignalFence, submitVars
<1> QED
  BY <1>1, <1>2, <1>3, <1>4, <1>5, <1>6, <1>7, Zenon DEF Next, Emit, Wait, Reset

\* The GPU passes the fences in their order; a reset completes those that are left and drops
\* them.
LEMMA RingOrderStep == ~SlowGpu /\ SubmitInv /\ [Next]_vars => RingOrder'
<1> SUFFICES ASSUME ~SlowGpu, SubmitInv, [Next]_vars PROVE RingOrder'
  BY Zenon
<1>t. /\ sync_seq \in Nat /\ FirstSeq \in Nat /\ passed \in Nat /\ passed \in FirstSeq..Committed
      /\ staged \in Seq(Nat) /\ Len(staged) \in Nat /\ Committed \in Int
      /\ ring \in Seq(Nat) /\ Len(ring) \in Nat
  BY Constants, SeqLen DEF SubmitInv, Submission, RingOrder, Committed
<1>e. <<>> \in Seq(Nat) /\ Len(<<>>) = 0
  OBVIOUS
<1>0. ASSUME ring' = ring, passed' = passed, gpu' = gpu, Committed' \in Int,
             Committed' >= Committed, gpu = "forced" => emitter' = "idle"
      PROVE  RingOrder'
  <2>1. passed \in FirstSeq..Committed'
    BY <1>0, <1>t
  <2>2. \A i \in 1..Len(ring) : ring[i] <= Committed'
    <3> TAKE i \in 1..Len(ring)
    <3>1. ring[i] \in Nat /\ ring[i] <= Committed
      BY <1>t, SeqElem, Zenon DEF SubmitInv, RingOrder
    <3> QED
      BY <1>0, <1>t, <3>1
  <2> QED
    BY <1>0, <1>t, <2>1, <2>2, Zenon DEF SubmitInv, RingOrder
<1>1. CASE UNCHANGED <<sync_seq, staged, emitter, ring, passed, gpu>>
  BY <1>1, Zenon DEF SubmitInv, RingOrder, Committed
<1>2. CASE IbSchedule \/ AddCallback \/ FenceAssign
  <2>1. /\ sync_seq' = sync_seq /\ staged' = staged /\ ring' = ring /\ passed' = passed
        /\ gpu' = gpu /\ (gpu = "forced" => emitter' = "idle")
    BY <1>2, Zenon
    DEF IbSchedule, AddCallback, FenceAssign, gpuVars, SubmitInv, RingOrder
  <2>2. Committed' = Committed
    BY <2>1, Zenon DEF Committed
  <2> QED
    BY <1>0, <1>t, <2>1, <2>2
<1>3. CASE FenceEmit
  <2>1. /\ sync_seq' = sync_seq + 1 /\ staged' = Append(staged, sync_seq + 1) /\ ring' = ring
        /\ passed' = passed /\ gpu' = gpu /\ gpu # "forced"
    BY <1>3, Zenon DEF FenceEmit, gpuVars, SubmitInv, RingOrder
  <2>2. Len(staged') = Len(staged) + 1
    BY <1>t, <2>1
  <2>3. Committed' = Committed
    BY <1>t, <2>1, <2>2 DEF Committed
  <2> QED
    BY <1>0, <1>t, <2>1, <2>3
<1>4. CASE FenceEmitFails
  <2>1. /\ sync_seq' = sync_seq /\ staged' = <<>> /\ ring' = ring
        /\ passed' = passed /\ gpu' = gpu /\ gpu # "forced"
    BY <1>4, Zenon DEF FenceEmitFails, gpuVars, SubmitInv, RingOrder
  <2>2. Committed' = sync_seq
    BY <1>t, <1>e, <2>1 DEF Committed
  <2> QED
    BY <1>0, <1>t, <2>1, <2>2 DEF Committed
<1>5. CASE RingCommit
  <2>1. /\ sync_seq' = sync_seq /\ staged' = <<>> /\ ring' = ring \o staged
        /\ passed' = passed /\ gpu' = gpu /\ gpu # "forced"
    BY <1>5, Zenon DEF RingCommit, SubmitInv, RingOrder
  <2>2. Committed' = sync_seq
    BY <1>t, <1>e, <2>1 DEF Committed
  <2>3. ring' \in Seq(Nat) /\ Len(ring') = Len(ring) + Len(staged)
    BY <1>t, <2>1
  <2>4. ASSUME NEW i \in 1..Len(ring')
        PROVE  \/ i \in 1..Len(ring) /\ ring'[i] = ring[i]
               \/ /\ i - Len(ring) \in 1..Len(staged)
                  /\ ring'[i] = Committed + (i - Len(ring))
    <3>1. CASE i <= Len(ring)
      BY <1>t, <2>1, <2>3, <3>1
    <3>2. CASE i > Len(ring)
      <4>1. i - Len(ring) \in 1..Len(staged) /\ ring'[i] = staged[i - Len(ring)]
        BY <1>t, <2>1, <2>3, <3>2
      <4> QED
        BY <4>1, Zenon DEF SubmitInv, Submission
    <3> QED
      BY <1>t, <2>3, <3>1, <3>2
  <2>5. \A i \in 1..Len(ring) : ring[i] \in Nat /\ ring[i] <= Committed /\ ring[i] > passed
    BY <1>t, <2>1, SeqElem, Zenon DEF SubmitInv, RingOrder
  <2>6. Committed <= sync_seq /\ Committed + Len(staged) = sync_seq
    BY <1>t DEF Committed
  <2>7. \A i \in 1..Len(ring') : ring'[i] <= sync_seq /\ ring'[i] > passed
    <3> SUFFICES ASSUME NEW i \in 1..Len(ring')
                 PROVE  ring'[i] <= sync_seq /\ ring'[i] > passed
      BY Zenon
    <3>1. \/ i \in 1..Len(ring) /\ ring'[i] = ring[i]
          \/ i - Len(ring) \in 1..Len(staged) /\ ring'[i] = Committed + (i - Len(ring))
      BY <2>4, Zenon
    <3>2. i \in 1..Len(ring) => ring[i] \in Nat /\ ring[i] <= Committed /\ ring[i] > passed
      BY <2>5, Zenon
    <3> QED
      BY <1>t, <2>6, <3>1, <3>2, SMTT(60)
  <2>8. \A i, k \in 1..Len(ring) : i < k => ring[i] < ring[k]
    BY Zenon DEF SubmitInv, RingOrder
  <2>9. \A i, k \in 1..Len(ring') : i < k => ring'[i] < ring'[k]
    <3> SUFFICES ASSUME NEW i \in 1..Len(ring'), NEW k \in 1..Len(ring'), i < k
                 PROVE  ring'[i] < ring'[k]
      BY Zenon
    <3>1. \/ i \in 1..Len(ring) /\ ring'[i] = ring[i]
          \/ i - Len(ring) \in 1..Len(staged) /\ ring'[i] = Committed + (i - Len(ring))
      BY <2>4, Zenon
    <3>2. \/ k \in 1..Len(ring) /\ ring'[k] = ring[k]
          \/ k - Len(ring) \in 1..Len(staged) /\ ring'[k] = Committed + (k - Len(ring))
      BY <2>4, Zenon
    <3>3. CASE i \in 1..Len(ring) /\ k \in 1..Len(ring)
      BY <1>t, <2>8, <3>1, <3>2, <3>3
    <3>4. CASE i \in 1..Len(ring) /\ k \notin 1..Len(ring)
      <4>1. ring[i] \in Nat /\ ring[i] <= Committed
        BY <2>5, <3>4, Zenon
      <4> QED
        BY <1>t, <3>1, <3>2, <3>4, <4>1, SMTT(60)
    <3>5. CASE i \notin 1..Len(ring)
      <4>1. k \notin 1..Len(ring)
        BY <1>t, <2>3, <3>5
      <4>2. /\ ring'[i] = Committed + (i - Len(ring))
            /\ ring'[k] = Committed + (k - Len(ring))
        BY <3>1, <3>2, <3>5, <4>1, Zenon
      <4> QED
        BY <1>t, <2>3, <4>2
    <3> QED
      BY <3>3, <3>4, <3>5, Zenon
  <2>10. passed \in FirstSeq..sync_seq /\ gpu \in {"run", "hung", "forced"}
    BY <1>t, <2>6 DEF SubmitInv, RingOrder
  <2> QED
    BY <2>1, <2>2, <2>3, <2>7, <2>9, <2>10, Zenon DEF RingOrder
<1>6. CASE GpuPass
  <2>1. /\ sync_seq' = sync_seq /\ staged' = staged /\ emitter' = emitter /\ ring # <<>>
        /\ passed' = (IF passed < Head(ring) THEN Head(ring) ELSE passed)
        /\ ring' = Tail(ring) /\ gpu' = gpu /\ gpu = "run"
    BY <1>6, Zenon DEF GpuPass, submitVars
  <2>2. Committed' = Committed
    BY <2>1, Zenon DEF Committed
  <2>3. /\ 1 \in 1..Len(ring) /\ Head(ring) = ring[1]
        /\ ring' \in Seq(Nat) /\ Len(ring') = Len(ring) - 1
        /\ \A i \in 1..Len(ring') : ring'[i] = ring[i + 1] /\ i + 1 \in 1..Len(ring)
    BY <1>t, <2>1
  <2>4. \A i \in 1..Len(ring) : ring[i] \in Nat /\ ring[i] <= Committed /\ ring[i] > passed
    BY <1>t, <2>1, SeqElem, Zenon DEF SubmitInv, RingOrder
  <2>5. \A i, k \in 1..Len(ring) : i < k => ring[i] < ring[k]
    BY Zenon DEF SubmitInv, RingOrder
  <2>6. passed' = ring[1] /\ passed' \in FirstSeq..Committed
    BY <1>t, <2>1, <2>3, <2>4
  <2>7. \A i \in 1..Len(ring') : ring'[i] <= Committed /\ ring'[i] > passed'
    <3> SUFFICES ASSUME NEW i \in 1..Len(ring')
                 PROVE  ring'[i] <= Committed /\ ring'[i] > passed'
      BY Zenon
    <3>1. ring'[i] = ring[i + 1] /\ i + 1 \in 1..Len(ring) /\ 1 < i + 1
      BY <1>t, <2>3
    <3> QED
      BY <2>3, <2>4, <2>5, <2>6, <3>1, Zenon
  <2>8. \A i, k \in 1..Len(ring') : i < k => ring'[i] < ring'[k]
    <3> SUFFICES ASSUME NEW i \in 1..Len(ring'), NEW k \in 1..Len(ring'), i < k
                 PROVE  ring'[i] < ring'[k]
      BY Zenon
    <3>1. ring'[i] = ring[i + 1] /\ i + 1 \in 1..Len(ring)
      BY <2>3, Zenon
    <3>2. ring'[k] = ring[k + 1] /\ k + 1 \in 1..Len(ring)
      BY <2>3, Zenon
    <3>3. i + 1 < k + 1
      BY <1>t, <2>3
    <3> QED
      BY <2>5, <3>1, <3>2, <3>3, Zenon
  <2> QED
    BY <2>1, <2>2, <2>3, <2>6, <2>7, <2>8, Zenon DEF RingOrder
<1>7. CASE GpuHang \/ AsicReset
  <2>1. /\ sync_seq' = sync_seq /\ staged' = staged /\ emitter' = emitter /\ passed' = passed
        /\ \/ gpu' = "run" /\ ring' = <<>>
           \/ gpu = "run" /\ gpu' = "hung" /\ ring' = ring
    BY <1>7, Zenon DEF GpuHang, AsicReset, submitVars
  <2>2. Committed' = Committed
    BY <2>1, Zenon DEF Committed
  <2>3. CASE gpu' = "run" /\ ring' = <<>>
    BY <1>t, <1>e, <2>1, <2>2, <2>3 DEF RingOrder
  <2>4. CASE gpu = "run" /\ gpu' = "hung" /\ ring' = ring
    BY <1>t, <2>1, <2>2, <2>4, Zenon DEF SubmitInv, RingOrder
  <2> QED
    BY <2>1, <2>3, <2>4, Zenon
<1>8. CASE ForceCompletion
  <2>1. /\ sync_seq' = sync_seq /\ staged' = staged /\ emitter' = emitter /\ emitter = "idle"
        /\ passed' = sync_seq /\ gpu' = "forced" /\ ring' = ring
    BY <1>8, Zenon DEF ForceCompletion
  <2>2. Committed = sync_seq
    BY <1>t, <2>1 DEF SubmitInv, Submission, Committed
  <2> QED
    BY <1>t, <2>1, <2>2 DEF SubmitInv, RingOrder, Committed
<1>9. CASE FenceBusy \/ WaitEmpty \/ WaitEmptyReturn \/ UNCHANGED vars
  BY <1>1, <1>9, Zenon
  DEF FenceBusy, WaitEmpty, WaitEmptyReturn, submitVars, gpuVars, vars
<1>10. ASSUME NEW w \in Workers, ProcessStart(w) \/ Process(w) PROVE RingOrder'
  BY <1>1, <1>10, Zenon
  DEF ProcessStart, Process, ReadLast, ReadMem, ClaimSeq, CheckFallback, TakeFence,
      ClearSlot, SignalFence, submitVars, gpuVars
<1> QED
  BY <1>2, <1>3, <1>4, <1>5, <1>6, <1>7, <1>8, <1>9, <1>10, Zenon
  DEF Next, Emit, Wait, Reset

\* The submissions and the GPU keep their order.
LEMMA SubmitStep == ~SlowGpu /\ SubmitInv /\ [Next]_vars => SubmitInv'
BY SubmissionStep, RingOrderStep, Zenon DEF SubmitInv

\* The fences counted so far, as numbers.
LEMMA SubmitFacts ==
    ASSUME SubmitInv
    PROVE  /\ sync_seq \in Nat /\ passed \in Nat /\ Assigned \in Nat /\ FirstSeq \in Nat
           /\ MaxSeq \in Nat /\ FirstSeq <= passed /\ passed <= Assigned
           /\ Assigned <= sync_seq /\ sync_seq <= MaxSeq
<1>1. Len(staged) \in Nat /\ sync_seq \in FirstSeq..MaxSeq /\ passed \in FirstSeq..Committed
  BY SeqLen, Zenon DEF SubmitInv, Submission, RingOrder
<1>2. SlotPending => Len(staged) >= 1
  BY <1>1, SMTT(60) DEF SubmitInv, Submission, SlotPending
<1>3. CASE SlotPending
  BY <1>1, <1>2, <1>3, Constants DEF Committed, Assigned
<1>4. CASE ~SlotPending
  BY <1>1, <1>4, Constants DEF Committed, Assigned
<1> QED
  BY <1>3, <1>4, Zenon

-----------------------------------------------------------------------------
(* The claims of amdgpu_fence_process *)

Places == {"idle", "last", "mem", "cmpxchg", "fallback", "take", "clear", "signal"}

\* the fences that a worker has claimed and not yet signaled, if it has claimed those behind a
\* up to b, or is at a
Claim(at, a, b) ==
    IF at \in {"fallback", "take"} THEN (a + 1)..b
    ELSE IF at \in {"clear", "signal"} THEN a..b
    ELSE {}

\* a worker keeps what it has claimed, or some of it, and claims fences above L
Fresh(new, old, L) == \A n \in new : n \in old \/ n > L

\* the step of a worker signals, and takes out of its slot, only what the worker has claimed
Untouched(claim) ==
    \A n \in Nat : n \notin claim =>
        /\ n \in signaled' => n \in signaled
        /\ fences[Slot(n)] = n => fences'[Slot(n)] = n

\* what the local variables of a worker stand for, last_seq being the number of fence L
WorkOk(r, L, a, b) ==
    /\ r.at \in {"mem", "cmpxchg"} => r.last = Seq32(a) /\ a \in FirstSeq..L
    /\ r.at = "cmpxchg" => r.seq = Seq32(b) /\ b \in a..passed
    /\ r.at = "fallback" => r.last = Seq32(a) /\ r.seq = Seq32(b)
    /\ r.at \in {"take", "clear", "signal"} => r.last = Slot(a) /\ r.seq = Slot(b)
    /\ r.at \in {"fallback", "take", "clear", "signal"} => FirstSeq <= a /\ b \in a..L
    /\ r.at = "take" => a < b
    /\ r.at \in {"clear", "signal"} => a > FirstSeq
    /\ r.fence = IF r.at \in {"clear", "signal"} THEN a ELSE NoFence

\* claimed fences are in their slots and unsignaled, apart from the one a worker has taken
ClaimOk(r, a, b) ==
    \A n \in Claim(r.at, a, b) :
        /\ n \notin signaled
        /\ IF r.at = "signal" /\ n = a THEN \A s \in Slots : fences[s] # n
                                       ELSE fences[Slot(n)] = n

\* a slot holds the last fence that was given it, or none
SlotOk(s) ==
    fences[s] # NoFence =>
        /\ fences[s] \in (FirstSeq + 1)..Assigned /\ Slot(fences[s]) = s
        /\ fences[s] \notin signaled /\ Assigned < fences[s] + NumFences

\* all is well when last_seq is the number of fence L and worker w has claimed, or is about to
\* claim, the fences behind from[w] up to to[w]
Claims(L, from, to) ==
    /\ L \in FirstSeq..passed /\ last_seq = Seq32(L)
    /\ \A s \in Slots : SlotOk(s)
    /\ \A n \in (L + 1)..Assigned : fences[Slot(n)] = n
    /\ \A w \in Workers : WorkOk(work[w], L, from[w], to[w]) /\ ClaimOk(work[w], from[w], to[w])
    /\ \A v, w \in Workers : v # w =>
         Claim(work[v].at, from[v], to[v]) \cap Claim(work[w].at, from[w], to[w]) = {}

FenceTypes ==
    /\ fences \in [Slots -> Nat] /\ signaled \subseteq 1..passed /\ mem = Seq32(passed)
    /\ work \in [Workers -> [at : Places, last : Nat, seq : Nat, fence : Nat]]

FenceInv ==
    /\ SubmitInv /\ FenceTypes
    /\ \E L \in Nat : \E from, to \in [Workers -> Nat] : Claims(L, from, to)

\* Nothing of the claims is disturbed.
LEMMA ClaimsFrame ==
    ASSUME NEW L, NEW from, NEW to, Claims(L, from, to),
           last_seq' = last_seq, passed' = passed, fences' = fences, signaled' = signaled,
           work' = work, Assigned' = Assigned
    PROVE  Claims(L, from, to)'
<1>1. \A s \in Slots : SlotOk(s)'
  BY Zenon DEF Claims, SlotOk
<1>2. \A w \in Workers : WorkOk(work[w], L, from[w], to[w])'
  BY Zenon DEF Claims, WorkOk
<1>3. \A w \in Workers : ClaimOk(work[w], from[w], to[w])'
  BY Zenon DEF Claims, ClaimOk
<1> QED
  BY <1>1, <1>2, <1>3, Zenon DEF Claims

\* Claimed fences have been emitted, and their numbers are not above last_seq.
LEMMA ClaimRange ==
    ASSUME NEW L \in Nat, NEW from \in [Workers -> Nat], NEW to \in [Workers -> Nat],
           Claims(L, from, to), NEW v \in Workers
    PROVE  \A n \in Claim(work[v].at, from[v], to[v]) :
              n \in Nat /\ n # NoFence /\ n > FirstSeq /\ n <= L
<1>1. from[v] \in Nat /\ to[v] \in Nat /\ FirstSeq \in Nat
  BY Constants, Zenon
<1>2. /\ work[v].at \in {"fallback", "take", "clear", "signal"} =>
           FirstSeq <= from[v] /\ to[v] \in from[v]..L
      /\ work[v].at \in {"clear", "signal"} => from[v] > FirstSeq
  BY Zenon DEF Claims, WorkOk
<1>3. CASE work[v].at \in {"fallback", "take"}
  BY <1>1, <1>2, <1>3 DEF Claim, NoFence
<1>4. CASE work[v].at \in {"clear", "signal"}
  BY <1>1, <1>2, <1>4 DEF Claim, NoFence
<1>5. CASE work[v].at \notin {"fallback", "take", "clear", "signal"}
  BY <1>5, Zenon DEF Claim
<1> QED
  BY <1>3, <1>4, <1>5, Zenon

\* A worker's claim stands while others work: last_seq grows, the GPU goes on, and nobody
\* else touches the claimed fences and their slots.
LEMMA ClaimStands ==
    ASSUME NEW L \in Nat, NEW K \in Nat, L <= K, NEW r, NEW a \in Nat, NEW b \in Nat,
           passed \in Nat, passed' \in Nat, passed <= passed',
           WorkOk(r, L, a, b), ClaimOk(r, a, b),
           \A n \in Claim(r.at, a, b) : n \in signaled' => n \in signaled,
           \A n \in Claim(r.at, a, b) : fences[Slot(n)] = n => fences'[Slot(n)] = n,
           \A n \in Claim(r.at, a, b) :
              (\A s \in Slots : fences[s] # n) => \A s \in Slots : fences'[s] # n
    PROVE  WorkOk(r, K, a, b)' /\ ClaimOk(r, a, b)'
<1>1. ClaimOk(r, a, b)'
  BY Zenon DEF ClaimOk
<1>2. /\ a \in FirstSeq..L => a \in FirstSeq..K
      /\ b \in a..L => b \in a..K
      /\ b \in a..passed => b \in a..passed'
  BY Constants
<1>3. WorkOk(r, K, a, b)'
  BY <1>2, Zenon DEF WorkOk
<1> QED
  BY <1>1, <1>3, Zenon

\* A step of worker w keeps the claims, if it is right about its own, and claims at most
\* what follows last_seq and gives up the rest.
LEMMA WorkerStep ==
    ASSUME FenceTypes, NEW L \in Nat, NEW from \in [Workers -> Nat], NEW to \in [Workers -> Nat],
           Claims(L, from, to), NEW w \in Workers, NEW r, NEW K \in Nat, NEW a \in Nat, NEW b \in Nat,
           r = work'[w], \A v \in Workers : v # w => work'[v] = work[v], passed' = passed, passed \in Nat, Assigned' = Assigned,
           L <= K, K \in FirstSeq..passed, last_seq' = Seq32(K),
           \A s \in Slots : fences'[s] \in {fences[s], NoFence},
           \A s \in Slots : SlotOk(s)',
           \A n \in (K + 1)..Assigned : fences'[Slot(n)] = n,
           WorkOk(r, K, a, b)', ClaimOk(r, a, b)',
           Fresh(Claim(r.at, a, b), Claim(work[w].at, from[w], to[w]), L),
           Untouched(Claim(work[w].at, from[w], to[w]))
    PROVE  \E J \in Nat : \E f, t \in [Workers -> Nat] : Claims(J, f, t)'
<1> DEFINE f == [from EXCEPT ![w] = a]
           t == [to EXCEPT ![w] = b]
<1>1. /\ f \in [Workers -> Nat] /\ t \in [Workers -> Nat] /\ f[w] = a /\ t[w] = b
      /\ \A v \in Workers : v # w => f[v] = from[v] /\ t[v] = to[v]
  BY Zenon
<1>2. work'[w] = r /\ \A v \in Workers : v # w => work'[v] = work[v]
  BY Zenon
<1>3. ASSUME NEW v \in Workers, v # w
      PROVE  WorkOk(work[v], K, from[v], to[v])' /\ ClaimOk(work[v], from[v], to[v])'
  <2>1. \A n \in Claim(work[v].at, from[v], to[v]) :
           n \in Nat /\ n # NoFence /\ n \notin Claim(work[w].at, from[w], to[w])
    <3>1. Claim(work[v].at, from[v], to[v]) \cap Claim(work[w].at, from[w], to[w]) = {}
      BY <1>3, Zenon DEF Claims
    <3>2. ASSUME NEW n \in Claim(work[v].at, from[v], to[v]) PROVE n \in Nat /\ n # NoFence
      BY ClaimRange
    <3> QED
      BY <3>1, <3>2, Zenon
  <2>2. \A n \in Claim(work[v].at, from[v], to[v]) :
           (\A s \in Slots : fences[s] # n) => \A s \in Slots : fences'[s] # n
    BY <2>1, Zenon
  <2>3. WorkOk(work[v], L, from[v], to[v]) /\ ClaimOk(work[v], from[v], to[v])
    BY Zenon DEF Claims
  <2>4. from[v] \in Nat /\ to[v] \in Nat /\ passed' \in Nat /\ passed <= passed'
    OBVIOUS
  <2>5. PICK x : x = work[v]
    BY Zenon
  <2>6. x = work'[v]
    BY <1>2, <1>3, <2>5, Zenon
  <2>7. WorkOk(x, K, from[v], to[v])' /\ ClaimOk(x, from[v], to[v])'
    BY <2>1, <2>2, <2>3, <2>4, <2>5, ClaimStands, Zenon DEF Untouched
  <2>8. WorkOk(work[v], K, from[v], to[v])'
    BY <2>6, <2>7, Zenon DEF WorkOk
  <2>9. ClaimOk(work[v], from[v], to[v])'
    BY <2>6, <2>7, Zenon DEF ClaimOk
  <2> QED
    BY <2>8, <2>9, Zenon
<1> HIDE DEF f, t
<1>4. ASSUME NEW v \in Workers
      PROVE  WorkOk(work[v], K, f[v], t[v])' /\ ClaimOk(work[v], f[v], t[v])'
  <2>1. CASE v = w
    <3>1. WorkOk(work[v], K, f[v], t[v])'
      BY <1>1, <1>2, <2>1, Zenon DEF WorkOk
    <3>2. ClaimOk(work[v], f[v], t[v])'
      BY <1>1, <1>2, <2>1, Zenon DEF ClaimOk
    <3> QED
      BY <3>1, <3>2, Zenon
  <2>2. CASE v # w
    <3>1. f[v] = from[v] /\ t[v] = to[v]
      BY <1>1, <2>2, Zenon
    <3>2. WorkOk(work[v], K, from[v], to[v])' /\ ClaimOk(work[v], from[v], to[v])'
      BY <1>3, <2>2, Zenon
    <3>3. WorkOk(work[v], K, f[v], t[v])'
      BY <3>1, <3>2, Zenon DEF WorkOk
    <3>4. ClaimOk(work[v], f[v], t[v])'
      BY <3>1, <3>2, Zenon DEF ClaimOk
    <3> QED
      BY <3>3, <3>4
  <2> QED
    BY <2>1, <2>2, Zenon
<1>5. ASSUME NEW v \in Workers, v # w
      PROVE  Claim(r.at, a, b) \cap Claim(work[v].at, from[v], to[v]) = {}
  <2>0. \A n \in Claim(r.at, a, b) : n \in Claim(work[w].at, from[w], to[w]) \/ n > L
    BY Zenon DEF Fresh
  <2>1. ASSUME NEW n \in Claim(work[v].at, from[v], to[v]) PROVE ~(n > L)
    <3>1. n \in Nat /\ n <= L
      BY ClaimRange, Zenon
    <3> QED
      BY <3>1
  <2>2. Claim(work[w].at, from[w], to[w]) \cap Claim(work[v].at, from[v], to[v]) = {}
    BY <1>5, Zenon DEF Claims
  <2> QED
    BY <2>0, <2>1, <2>2, Zenon
<1>6. ASSUME NEW v \in Workers, NEW u \in Workers, v # u
      PROVE  Claim(work'[v].at, f[v], t[v]) \cap Claim(work'[u].at, f[u], t[u]) = {}
  <2>1. CASE v = w
    BY <1>1, <1>2, <1>5, <1>6, <2>1, Zenon
  <2>2. CASE u = w
    BY <1>1, <1>2, <1>5, <1>6, <2>2, Zenon
  <2>3. CASE v # w /\ u # w
    BY <1>1, <1>2, <1>6, <2>3, Zenon DEF Claims
  <2> QED
    BY <2>1, <2>2, <2>3, Zenon
<1>7. Claims(K, f, t)'
  BY <1>4, <1>6, Zenon DEF Claims
<1> QED
  BY <1>1, <1>7, Zenon

\* The GPU goes on, or the reset completes what is left: the claims stand.
LEMMA ClaimsPassed ==
    ASSUME NEW L \in Nat, NEW from \in [Workers -> Nat], NEW to \in [Workers -> Nat],
           Claims(L, from, to), passed \in Nat, passed' \in Nat, passed <= passed',
           last_seq' = last_seq, fences' = fences, signaled' = signaled, work' = work,
           Assigned' = Assigned
    PROVE  Claims(L, from, to)'
<1>1. \A s \in Slots : SlotOk(s)'
  BY Zenon DEF Claims, SlotOk
<1>2. L \in FirstSeq..passed'
  BY Constants DEF Claims
<1>3. ASSUME NEW w \in Workers
      PROVE  WorkOk(work[w], L, from[w], to[w])' /\ ClaimOk(work[w], from[w], to[w])'
  <2>1. PICK x : x = work[w]
    BY Zenon
  <2>2. x = work'[w] /\ from[w] \in Nat /\ to[w] \in Nat /\ L <= L
    BY <2>1
  <2>3. WorkOk(x, L, from[w], to[w]) /\ ClaimOk(x, from[w], to[w])
    BY <2>1, Zenon DEF Claims
  <2>4. WorkOk(x, L, from[w], to[w])' /\ ClaimOk(x, from[w], to[w])'
    BY <2>2, <2>3, ClaimStands, Zenon
  <2>5. WorkOk(work[w], L, from[w], to[w])'
    BY <2>2, <2>4, Zenon DEF WorkOk
  <2>6. ClaimOk(work[w], from[w], to[w])'
    BY <2>2, <2>4, Zenon DEF ClaimOk
  <2> QED
    BY <2>5, <2>6, Zenon
<1> QED
  BY <1>1, <1>2, <1>3, Zenon DEF Claims

\* amdgpu_fence_emit writes a fence to its slot only when the old one is gone, so that no
\* claimed fence is overwritten.
LEMMA ClaimsAssigned ==
    ASSUME SubmitInv, FenceTypes, FenceAssign,
           NEW L \in Nat, NEW from \in [Workers -> Nat], NEW to \in [Workers -> Nat],
           Claims(L, from, to)
    PROVE  Claims(L, from, to)'
<1> DEFINE s == Slot(Seq32(sync_seq))
           n == sync_seq
<1>t. /\ n \in Nat /\ passed \in Nat /\ FirstSeq \in Nat /\ NumFences \in Nat \ {0}
      /\ FirstSeq <= passed /\ passed <= Assigned
  BY SubmitFacts, Constants, Zenon
<1>1. /\ emitter \in {"flush_slot", "job_slot"} /\ SlotFree(s) /\ emitter' \in {"job", "commit"}
      /\ fences' = [fences EXCEPT ![s] = n] /\ sync_seq' = sync_seq
      /\ last_seq' = last_seq /\ signaled' = signaled /\ passed' = passed /\ work' = work
  BY Zenon DEF FenceAssign, gpuVars
<1>2. s = Slot(n) /\ s \in Slots
  BY <1>t, SlotOfSeq, SlotType, Zenon
<1> HIDE DEF s
<1>3. fences[s] = NoFence
  BY <1>1, <1>2, Zenon DEF SlotFree, Claims, SlotOk
<1>4. Assigned = n - 1 /\ Assigned' = n
  BY <1>1, Zenon DEF Assigned, SlotPending
<1>5. fences'[s] = n /\ \A x \in Slots : x # s => fences'[x] = fences[x]
  BY <1>1, <1>2, Zenon DEF FenceTypes
<1>6. n > passed /\ n # NoFence /\ n \notin signaled /\ L <= passed
  BY <1>t, <1>4 DEF NoFence, FenceTypes, Claims
<1>7. ASSUME NEW x \in Slots PROVE SlotOk(x)'
  <2>1. CASE x = s
    <3>1. n \in (FirstSeq + 1)..n /\ n < n + NumFences
      BY <1>t, <1>6
    <3>2. /\ fences'[x] = n /\ Slot(n) = x /\ n \notin signaled'
          /\ n \in (FirstSeq + 1)..Assigned' /\ Assigned' < n + NumFences
      BY <1>1, <1>2, <1>4, <1>5, <1>6, <2>1, <3>1, Zenon
    <3> QED
      BY <3>2, Zenon DEF SlotOk
  <2>2. CASE x # s /\ fences[x] # NoFence
    <3>1. /\ fences[x] \in (FirstSeq + 1)..Assigned /\ Slot(fences[x]) = x
          /\ fences[x] \notin signaled /\ Assigned < fences[x] + NumFences
      BY <2>2, Zenon DEF Claims, SlotOk
    <3>2. fences[x] \in Nat
      BY Zenon DEF FenceTypes
    <3>3. Slot(fences[x] + NumFences) = x
      BY <3>1, <3>2, SlotTurn, Zenon
    <3>4. fences[x] + NumFences # n
      BY <1>2, <2>2, <3>3, Zenon
    <3>5. fences[x] \in (FirstSeq + 1)..n /\ n < fences[x] + NumFences
      BY <1>t, <1>4, <3>1, <3>2, <3>4
    <3>6. /\ fences'[x] = fences[x] /\ fences[x] \notin signaled'
          /\ fences[x] \in (FirstSeq + 1)..Assigned' /\ Assigned' < fences[x] + NumFences
      BY <1>1, <1>4, <1>5, <2>2, <3>1, <3>5, Zenon
    <3> QED
      BY <3>1, <3>6, Zenon DEF SlotOk
  <2>3. CASE x # s /\ fences[x] = NoFence
    BY <1>5, <2>3, Zenon DEF SlotOk
  <2> QED
    BY <2>1, <2>2, <2>3, Zenon
<1>8. ASSUME NEW k \in Nat, k # NoFence, fences[Slot(k)] = k PROVE fences'[Slot(k)] = k
  BY <1>3, <1>5, <1>8, SlotType, Zenon
<1>9. ASSUME NEW k \in (L + 1)..Assigned' PROVE fences'[Slot(k)] = k
  <2>1. CASE k = n
    BY <1>2, <1>5, <2>1, Zenon
  <2>2. CASE k # n
    <3>1. k \in (L + 1)..Assigned /\ k \in Nat /\ k # NoFence
      BY <1>t, <1>4, <1>9, <2>2 DEF NoFence
    <3> QED
      BY <1>8, <3>1, Zenon DEF Claims
  <2> QED
    BY <2>1, <2>2, Zenon
<1>10. ASSUME NEW w \in Workers
       PROVE  WorkOk(work[w], L, from[w], to[w])' /\ ClaimOk(work[w], from[w], to[w])'
  <2>1. PICK x : x = work[w]
    BY Zenon
  <2>2. /\ x = work'[w] /\ from[w] \in Nat /\ to[w] \in Nat /\ L <= L
        /\ passed' \in Nat /\ passed <= passed'
    BY <1>t, <1>1, <2>1
  <2>3. WorkOk(x, L, from[w], to[w]) /\ ClaimOk(x, from[w], to[w])
    BY <2>1, Zenon DEF Claims
  <2>4. \A k \in Claim(x.at, from[w], to[w]) : k \in Nat /\ k # NoFence /\ k <= L
    BY <2>1, ClaimRange, Zenon
  <2>5. \A k \in Claim(x.at, from[w], to[w]) : fences[Slot(k)] = k => fences'[Slot(k)] = k
    BY <1>8, <2>4, Zenon
  <2>6. \A k \in Claim(x.at, from[w], to[w]) :
           (\A y \in Slots : fences[y] # k) => \A y \in Slots : fences'[y] # k
    <3>1. \A k \in Claim(x.at, from[w], to[w]) : k # n
      BY <1>t, <1>6, <2>4
    <3> QED
      BY <1>5, <3>1, Zenon
  <2>7. WorkOk(x, L, from[w], to[w])' /\ ClaimOk(x, from[w], to[w])'
    BY <1>1, <1>t, <2>2, <2>3, <2>5, <2>6, ClaimStands, Zenon
  <2>8. WorkOk(work[w], L, from[w], to[w])'
    BY <2>2, <2>7, Zenon DEF WorkOk
  <2>9. ClaimOk(work[w], from[w], to[w])'
    BY <2>2, <2>7, Zenon DEF ClaimOk
  <2> QED
    BY <2>8, <2>9, Zenon
<1> QED
  BY <1>1, <1>7, <1>9, <1>10, Zenon DEF Claims

\* A step of worker w that touches no slot and signals nothing.
LEMMA QuietStep ==
    ASSUME SubmitInv, FenceTypes,
           NEW L \in Nat, NEW from \in [Workers -> Nat], NEW to \in [Workers -> Nat],
           Claims(L, from, to), NEW w \in Workers, NEW r, NEW K \in Nat, NEW a \in Nat, NEW b \in Nat,
           r = work'[w], \A v \in Workers : v # w => work'[v] = work[v],
           passed' = passed, fences' = fences, signaled' = signaled, Assigned' = Assigned,
           L <= K, K \in FirstSeq..passed, last_seq' = Seq32(K),
           WorkOk(r, K, a, b)', ClaimOk(r, a, b)',
           Fresh(Claim(r.at, a, b), Claim(work[w].at, from[w], to[w]), L)
    PROVE  \E J \in Nat : \E f, t \in [Workers -> Nat] : Claims(J, f, t)'
<1>1. passed \in Nat
  BY SubmitFacts, Zenon
<1>2. \A s \in Slots : SlotOk(s)'
  BY Zenon DEF Claims, SlotOk
<1>3. \A n \in (K + 1)..Assigned : fences'[Slot(n)] = n
  <2> TAKE n \in (K + 1)..Assigned
  <2>1. n \in (L + 1)..Assigned
    BY SubmitFacts
  <2> QED
    BY <2>1, Zenon DEF Claims
<1>4. \A s \in Slots : fences'[s] \in {fences[s], NoFence}
  BY Zenon
<1>5. Untouched(Claim(work[w].at, from[w], to[w]))
  BY Zenon DEF Untouched
<1> QED
  BY <1>1, <1>2, <1>3, <1>4, <1>5, WorkerStep, Zenon

\* A worker starts, and reads last_seq and the fence value in memory; it claims nothing yet.
LEMMA ReadSteps ==
    ASSUME SubmitInv, FenceTypes,
           NEW L \in Nat, NEW from \in [Workers -> Nat], NEW to \in [Workers -> Nat],
           Claims(L, from, to), NEW w \in Workers, ProcessStart(w) \/ ReadLast(w) \/ ReadMem(w)
    PROVE  \E J \in Nat : \E f, t \in [Workers -> Nat] : Claims(J, f, t)'
<1>t. /\ passed \in Nat /\ L \in FirstSeq..passed /\ last_seq = Seq32(L) /\ mem = Seq32(passed)
      /\ from[w] \in Nat /\ to[w] \in Nat /\ FirstSeq \in Nat
  BY SubmitFacts, Zenon DEF Claims, FenceTypes
<1>1. /\ last_seq' = last_seq /\ fences' = fences /\ signaled' = signaled /\ passed' = passed
      /\ sync_seq' = sync_seq /\ emitter' = emitter
  BY Zenon DEF ProcessStart, ReadLast, ReadMem, submitVars, gpuVars
<1>2. Assigned' = Assigned
  BY <1>1, Zenon DEF Assigned, SlotPending
<1>3. WorkOk(work[w], L, from[w], to[w])
  BY Zenon DEF Claims
<1>4. \A v \in Workers : v # w => work'[v] = work[v]
  BY Zenon DEF ProcessStart, ReadLast, ReadMem, FenceTypes
<1>5. PICK r : r = work'[w]
  BY Zenon
<1>6. ASSUME NEW a \in Nat, NEW b \in Nat, r.at \in {"last", "mem", "cmpxchg"},
             WorkOk(r, L, a, b)'
      PROVE  \E J \in Nat : \E f, t \in [Workers -> Nat] : Claims(J, f, t)'
  <2>1. Claim(r.at, a, b) = {}
    BY <1>6, Zenon DEF Claim
  <2>f. Fresh(Claim(r.at, a, b), Claim(work[w].at, from[w], to[w]), L)
    BY <2>1, Zenon DEF Fresh
  <2>2. ClaimOk(r, a, b)'
    BY <2>1, Zenon DEF ClaimOk
  <2>3. L <= L
    BY <1>t
  <2> QED
    BY <1>t, <1>1, <1>2, <1>4, <1>5, <1>6, <2>f, <2>2, <2>3, QuietStep, Zenon
<1>7. CASE ProcessStart(w)
  <2>1. r.at = "last" /\ r.fence = work[w].fence /\ work[w].at = "idle"
    BY <1>5, <1>7, Zenon DEF ProcessStart, FenceTypes
  <2>2. r.fence = NoFence
    BY <1>3, <2>1, Zenon DEF WorkOk
  <2>3. WorkOk(r, L, from[w], to[w])'
    BY <2>1, <2>2, Zenon DEF WorkOk
  <2> QED
    BY <1>t, <1>6, <2>1, <2>3, Zenon
<1>8. CASE ReadLast(w)
  <2>1. r.at = "mem" /\ r.fence = work[w].fence /\ work[w].at = "last" /\ r.last = last_seq
    BY <1>5, <1>8, Zenon DEF ReadLast, FenceTypes
  <2>2. r.fence = NoFence
    BY <1>3, <2>1, Zenon DEF WorkOk
  <2>3. WorkOk(r, L, L, to[w])'
    BY <1>t, <2>1, <2>2 DEF WorkOk
  <2> QED
    BY <1>t, <1>6, <2>1, <2>3, Zenon
<1>9. CASE ReadMem(w)
  <2>1. /\ r.at = "cmpxchg" /\ r.fence = work[w].fence /\ work[w].at = "mem"
        /\ r.last = work[w].last /\ r.seq = mem
    BY <1>5, <1>9 DEF ReadMem, FenceTypes
  <2>2. r.fence = NoFence /\ r.last = Seq32(from[w]) /\ from[w] \in FirstSeq..L
    BY <1>3, <2>1, Zenon DEF WorkOk
  <2>3. WorkOk(r, L, from[w], passed)'
    BY <1>t, <1>1, <2>1, <2>2 DEF WorkOk
  <2>4. PICK b \in Nat : b = passed
    BY <1>t, Zenon
  <2>5. WorkOk(r, L, from[w], b)'
    BY <1>1, <2>3, <2>4, Zenon DEF WorkOk
  <2> QED
    BY <1>t, <1>6, <2>1, <2>5, Zenon
<1> QED
  BY <1>7, <1>8, <1>9, Zenon

\* The cmpxchg claims the fences behind last_seq up to the one the GPU had passed, all of them
\* in their slots and claimed by nobody else; or it fails, and the worker reads again.
LEMMA ClaimStep ==
    ASSUME SubmitInv, FenceTypes,
           NEW L \in Nat, NEW from \in [Workers -> Nat], NEW to \in [Workers -> Nat],
           Claims(L, from, to), NEW w \in Workers, ClaimSeq(w)
    PROVE  \E J \in Nat : \E f, t \in [Workers -> Nat] : Claims(J, f, t)'
<1>t. /\ passed \in Nat /\ L \in FirstSeq..passed /\ last_seq = Seq32(L) /\ Assigned \in Nat
      /\ passed <= Assigned /\ Assigned <= sync_seq /\ sync_seq \in Nat /\ sync_seq <= MaxSeq
      /\ MaxSeq \in Nat /\ from[w] \in Nat /\ to[w] \in Nat /\ FirstSeq \in Nat
  BY SubmitFacts, Zenon DEF Claims
<1>1. /\ fences' = fences /\ signaled' = signaled /\ passed' = passed
      /\ sync_seq' = sync_seq /\ emitter' = emitter
  BY Zenon DEF ClaimSeq, submitVars, gpuVars
<1>c. work[w].at = "cmpxchg" /\ Cmpxchg(w)
  BY Zenon DEF ClaimSeq
<1>2. Assigned' = Assigned
  BY <1>1, Zenon DEF Assigned, SlotPending
<1>n. from[w] \in Nat /\ to[w] \in Nat /\ L \in FirstSeq..passed
  BY <1>t, Zenon
<1>3. /\ work[w].last = Seq32(from[w]) /\ from[w] \in FirstSeq..L
      /\ work[w].seq = Seq32(to[w]) /\ to[w] \in from[w]..passed /\ work[w].fence = NoFence
  <2>1. WorkOk(work[w], L, from[w], to[w])
    BY Zenon DEF Claims
  <2> QED
    BY <1>c, <2>1, Zenon DEF WorkOk
<1>4. \A v \in Workers : v # w => work'[v] = work[v]
  BY <1>c, Zenon DEF Cmpxchg, FenceTypes
<1>5. PICK r : r = work'[w]
  BY Zenon
<1>6. CASE last_seq = work[w].last
  <2>1. /\ last_seq' = work[w].seq /\ r.at = "fallback" /\ r.last = work[w].last
        /\ r.seq = work[w].seq /\ r.fence = work[w].fence
    BY <1>c, <1>5, <1>6, SMTT(60) DEF Cmpxchg, FenceTypes
  <2>2. from[w] \in FirstSeq..MaxSeq /\ L \in FirstSeq..MaxSeq
    BY <1>t, <1>3
  <2>3. from[w] = L
    BY <1>t, <1>3, <1>6, <2>2, SeqSame, Zenon
  <2>4. L <= to[w] /\ to[w] \in FirstSeq..passed
    BY <1>t, <1>3, <2>3
  <2>5. WorkOk(r, to[w], from[w], to[w])'
    <3>1. FirstSeq <= from[w] /\ to[w] \in from[w]..to[w]
      BY <1>t, <2>3, <2>4, SMTT(60)
    <3> QED
      BY <1>3, <2>1, <3>1, Zenon DEF WorkOk
  <2>6. \A n \in Claim(r.at, from[w], to[w]) :
           n \in Nat /\ n \in (L + 1)..Assigned /\ n # NoFence /\ n > L
    BY <1>t, <2>1, <2>3, <2>4 DEF Claim, NoFence
  <2>7. ClaimOk(r, from[w], to[w])'
    <3>1. ASSUME NEW n \in Claim(r.at, from[w], to[w])
          PROVE  n \notin signaled /\ fences[Slot(n)] = n
      <4>1. fences[Slot(n)] = n /\ Slot(n) \in Slots /\ n # NoFence
        BY <2>6, SlotType, Zenon DEF Claims
      <4>2. SlotOk(Slot(n))
        BY <4>1, Zenon DEF Claims
      <4> QED
        BY <4>1, <4>2, Zenon DEF SlotOk
    <3> QED
      BY <1>1, <2>1, <3>1, Zenon DEF ClaimOk
  <2>8. last_seq' = Seq32(to[w])
    BY <1>3, <2>1, Zenon
  <2>9. Fresh(Claim(r.at, from[w], to[w]), Claim(work[w].at, from[w], to[w]), L)
    BY <2>6, Zenon DEF Fresh
  <2> QED
    BY <1>n, <1>1, <1>2, <1>4, <1>5, <2>4, <2>5, <2>7, <2>8, <2>9, QuietStep, ZenonT(60)
<1>7. CASE last_seq # work[w].last
  <2>1. last_seq' = Seq32(L) /\ r.at = "last" /\ r.fence = NoFence
    BY <1>t, <1>c, <1>5, <1>7 DEF Cmpxchg, FenceTypes, Idle
  <2>2. WorkOk(r, L, from[w], to[w])'
    BY <2>1, Zenon DEF WorkOk
  <2>3. Claim(r.at, from[w], to[w]) = {} /\ L <= L
    BY <1>t, <2>1 DEF Claim
  <2>4. ClaimOk(r, from[w], to[w])'
    BY <2>3, Zenon DEF ClaimOk
  <2>5. Fresh(Claim(r.at, from[w], to[w]), Claim(work[w].at, from[w], to[w]), L)
    BY <2>3, Zenon DEF Fresh
  <2> QED
    BY <1>n, <1>1, <1>2, <1>4, <1>5, <2>1, <2>2, <2>3, <2>4, <2>5, QuietStep, ZenonT(60)
<1> QED
  BY <1>6, <1>7, Zenon

\* Before the loop over the slots the worker is done, or its numbers become slots.
LEMMA FallbackStep ==
    ASSUME SubmitInv, FenceTypes,
           NEW L \in Nat, NEW from \in [Workers -> Nat], NEW to \in [Workers -> Nat],
           Claims(L, from, to), NEW w \in Workers, CheckFallback(w)
    PROVE  \E J \in Nat : \E f, t \in [Workers -> Nat] : Claims(J, f, t)'
<1>t. /\ passed \in Nat /\ L \in FirstSeq..passed /\ last_seq = Seq32(L)
      /\ from[w] \in Nat /\ to[w] \in Nat /\ FirstSeq \in Nat /\ L <= L
  BY SubmitFacts, Constants DEF Claims
<1>1. /\ last_seq' = last_seq /\ fences' = fences /\ signaled' = signaled /\ passed' = passed
      /\ sync_seq' = sync_seq /\ emitter' = emitter /\ work[w].at = "fallback"
  BY Zenon DEF CheckFallback, submitVars, gpuVars
<1>2. Assigned' = Assigned
  BY <1>1, Zenon DEF Assigned, SlotPending
<1>3. /\ work[w].last = Seq32(from[w]) /\ work[w].seq = Seq32(to[w])
      /\ FirstSeq <= from[w] /\ to[w] \in from[w]..L /\ work[w].fence = NoFence
  <2>1. WorkOk(work[w], L, from[w], to[w])
    BY Zenon DEF Claims
  <2> QED
    BY <1>1, <2>1, Zenon DEF WorkOk
<1>4. \A v \in Workers : v # w => work'[v] = work[v]
  BY Zenon DEF CheckFallback, FenceTypes
<1>5. PICK r : r = work'[w]
  BY Zenon
<1>6. CASE work[w].seq = work[w].last
  <2>1. r.at = "idle" /\ r.fence = NoFence
    BY <1>5, <1>6 DEF CheckFallback, FenceTypes, Idle
  <2>2. WorkOk(r, L, from[w], to[w])'
    BY <2>1, Zenon DEF WorkOk
  <2>3. Claim(r.at, from[w], to[w]) = {}
    BY <2>1, Zenon DEF Claim
  <2>4. ClaimOk(r, from[w], to[w])'
    BY <2>3, Zenon DEF ClaimOk
  <2>5. Fresh(Claim(r.at, from[w], to[w]), Claim(work[w].at, from[w], to[w]), L)
    BY <2>3, ZenonT(60) DEF Fresh
  <2> QED
    BY <1>t, <1>1, <1>2, <1>4, <1>5, <2>2, <2>4, <2>5, QuietStep, Zenon
<1>7. CASE work[w].seq # work[w].last
  <2>1. /\ r.at = "take" /\ r.fence = work[w].fence
        /\ r.last = Slot(work[w].last) /\ r.seq = Slot(work[w].seq)
    BY <1>5, <1>7 DEF CheckFallback, FenceTypes
  <2>2. r.last = Slot(from[w]) /\ r.seq = Slot(to[w])
    BY <1>t, <1>3, <2>1, SlotOfSeq, Zenon
  <2>3. from[w] # to[w]
    BY <1>3, <1>7, Zenon
  <2>4. from[w] < to[w]
    BY <1>t, <1>3, <2>3
  <2>5. WorkOk(r, L, from[w], to[w])'
    BY <1>3, <2>1, <2>2, <2>4, Zenon DEF WorkOk
  <2>6. Claim(r.at, from[w], to[w]) = Claim(work[w].at, from[w], to[w])
    BY <1>1, <2>1, Zenon DEF Claim
  <2>7. ClaimOk(work[w], from[w], to[w])
    BY Zenon DEF Claims
  <2>8. ClaimOk(r, from[w], to[w])'
    BY <1>1, <2>1, <2>6, <2>7, Zenon DEF ClaimOk
  <2>9. Fresh(Claim(r.at, from[w], to[w]), Claim(work[w].at, from[w], to[w]), L)
    BY <2>6, Zenon DEF Fresh
  <2> QED
    BY <1>t, <1>1, <1>2, <1>4, <1>5, <2>5, <2>8, <2>9, QuietStep, Zenon
<1> QED
  BY <1>6, <1>7, Zenon

\* The worker takes the next of its fences out of its slot.
LEMMA TakeStep ==
    ASSUME SubmitInv, FenceTypes,
           NEW L \in Nat, NEW from \in [Workers -> Nat], NEW to \in [Workers -> Nat],
           Claims(L, from, to), NEW w \in Workers, TakeFence(w)
    PROVE  \E J \in Nat : \E f, t \in [Workers -> Nat] : Claims(J, f, t)'
<1>t. /\ passed \in Nat /\ L \in FirstSeq..passed /\ last_seq = Seq32(L)
      /\ from[w] \in Nat /\ to[w] \in Nat /\ FirstSeq \in Nat /\ L <= L
  BY SubmitFacts, Constants DEF Claims
<1>1. /\ last_seq' = last_seq /\ fences' = fences /\ signaled' = signaled /\ passed' = passed
      /\ sync_seq' = sync_seq /\ emitter' = emitter /\ work[w].at = "take"
  BY Zenon DEF TakeFence, submitVars, gpuVars
<1>2. Assigned' = Assigned
  BY <1>1, Zenon DEF Assigned, SlotPending
<1>3. /\ work[w].last = Slot(from[w]) /\ work[w].seq = Slot(to[w])
      /\ FirstSeq <= from[w] /\ to[w] \in from[w]..L /\ from[w] < to[w]
  <2>1. WorkOk(work[w], L, from[w], to[w])
    BY Zenon DEF Claims
  <2> QED
    BY <1>1, <2>1, Zenon DEF WorkOk
<1>4. \A v \in Workers : v # w => work'[v] = work[v]
  BY Zenon DEF TakeFence, FenceTypes
<1>5. PICK r : r = work'[w]
  BY Zenon
<1>6. PICK a \in Nat : a = from[w] + 1
  BY <1>t
<1>7. a \in (from[w] + 1)..to[w] /\ a > FirstSeq /\ FirstSeq <= a /\ to[w] \in a..L
  BY <1>t, <1>3, <1>6
<1>8. Slot(work[w].last + 1) = Slot(a)
  BY <1>t, <1>3, <1>6, SlotNext, Zenon
<1>9. /\ r.at = "clear" /\ r.last = Slot(a) /\ r.seq = work[w].seq /\ r.fence = fences[Slot(a)]
  BY <1>5, <1>8, Zenon DEF TakeFence, FenceTypes
<1>10. Claim(work[w].at, from[w], to[w]) = a..to[w] /\ Claim(r.at, a, to[w]) = a..to[w]
  BY <1>1, <1>6, <1>9, Zenon DEF Claim
<1>11. \A n \in a..to[w] : n \notin signaled /\ fences[Slot(n)] = n
  BY <1>1, <1>10, Zenon DEF Claims, ClaimOk
<1>12. a \in a..to[w]
  BY <1>t, <1>7
<1>13. WorkOk(r, L, a, to[w])'
  BY <1>3, <1>7, <1>9, <1>11, <1>12, Zenon DEF WorkOk
<1>14. ClaimOk(r, a, to[w])'
  BY <1>1, <1>9, <1>10, <1>11, Zenon DEF ClaimOk
<1>15. Fresh(Claim(r.at, a, to[w]), Claim(work[w].at, from[w], to[w]), L)
  BY <1>10, Zenon DEF Fresh
<1> QED
  BY <1>t, <1>1, <1>2, <1>4, <1>5, <1>13, <1>14, <1>15, QuietStep, ZenonT(60)

\* The worker empties the slot of the fence it has taken.
LEMMA ClearStep ==
    ASSUME SubmitInv, FenceTypes,
           NEW L \in Nat, NEW from \in [Workers -> Nat], NEW to \in [Workers -> Nat],
           Claims(L, from, to), NEW w \in Workers, ClearSlot(w)
    PROVE  \E J \in Nat : \E f, t \in [Workers -> Nat] : Claims(J, f, t)'
<1> DEFINE a == from[w]
<1>t. /\ passed \in Nat /\ L \in FirstSeq..passed /\ last_seq = Seq32(L)
      /\ a \in Nat /\ to[w] \in Nat /\ FirstSeq \in Nat /\ L <= L
  BY SubmitFacts, Constants DEF Claims
<1>1. /\ last_seq' = last_seq /\ signaled' = signaled /\ passed' = passed
      /\ sync_seq' = sync_seq /\ emitter' = emitter /\ work[w].at = "clear"
      /\ fences' = [fences EXCEPT ![work[w].last] = NoFence]
  BY Zenon DEF ClearSlot, submitVars, gpuVars
<1>2. Assigned' = Assigned
  BY <1>1, Zenon DEF Assigned, SlotPending
<1>3. /\ work[w].last = Slot(a) /\ work[w].seq = Slot(to[w])
      /\ FirstSeq <= a /\ to[w] \in a..L /\ a > FirstSeq /\ work[w].fence = a /\ a # NoFence
  <2>1. WorkOk(work[w], L, from[w], to[w])
    BY Zenon DEF Claims
  <2> QED
    BY <1>t, <1>1, <2>1 DEF WorkOk, NoFence
<1>4. \A v \in Workers : v # w => work'[v] = work[v]
  BY Zenon DEF ClearSlot, FenceTypes
<1>5. PICK r : r = work'[w]
  BY Zenon
<1>6. r = [work[w] EXCEPT !.at = "signal"]
  BY <1>3, <1>5, Zenon DEF ClearSlot, FenceTypes
<1>7. /\ r.at = "signal" /\ r.last = work[w].last /\ r.seq = work[w].seq
      /\ r.fence = work[w].fence
  BY <1>6, Zenon DEF FenceTypes
<1>8. Claim(work[w].at, from[w], to[w]) = a..to[w] /\ Claim(r.at, a, to[w]) = a..to[w]
  BY <1>1, <1>7, Zenon DEF Claim
<1>9. \A n \in a..to[w] : n \notin signaled /\ fences[Slot(n)] = n
  BY <1>1, <1>8, Zenon DEF Claims, ClaimOk
<1>10. a \in a..to[w] /\ a <= L
  BY <1>t, <1>3
<1>11. /\ Slot(a) \in Slots /\ fences[Slot(a)] = a /\ fences'[Slot(a)] = NoFence
       /\ \A s \in Slots : s # Slot(a) => fences'[s] = fences[s]
  BY <1>t, <1>1, <1>3, <1>9, <1>10, SlotType, Zenon DEF FenceTypes
<1>12. ASSUME NEW n \in Nat, n # a, fences[Slot(n)] = n
       PROVE  fences'[Slot(n)] = n
  BY <1>11, <1>12, SlotType, Zenon
<1>13. \A s \in Slots : fences'[s] # a
  <2> TAKE s \in Slots
  <2>1. CASE s = Slot(a)
    BY <1>3, <1>11, <2>1, Zenon
  <2>2. CASE s # Slot(a)
    BY <1>3, <1>11, <2>2, Zenon DEF Claims, SlotOk
  <2> QED
    BY <2>1, <2>2, Zenon
<1>14. WorkOk(r, L, a, to[w])'
  BY <1>3, <1>7, Zenon DEF WorkOk
<1>15. ClaimOk(r, a, to[w])'
  <2> SUFFICES ASSUME NEW n \in a..to[w], n # a PROVE fences'[Slot(n)] = n
    BY <1>1, <1>7, <1>8, <1>9, <1>13, Zenon DEF ClaimOk
  <2>1. n \in Nat
    BY <1>t
  <2> QED
    BY <1>9, <1>12, <2>1, Zenon
<1>16. Fresh(Claim(r.at, a, to[w]), Claim(work[w].at, from[w], to[w]), L)
  BY <1>8, Zenon DEF Fresh
<1>17. \A s \in Slots : fences'[s] \in {fences[s], NoFence}
  BY <1>11, Zenon
<1>18. \A s \in Slots : SlotOk(s)'
  <2> TAKE s \in Slots
  <2>1. SlotOk(s)
    BY Zenon DEF Claims
  <2>2. CASE fences'[s] = NoFence
    BY <2>2, Zenon DEF SlotOk
  <2>3. CASE fences'[s] = fences[s]
    BY <1>1, <1>2, <2>1, <2>3 DEF SlotOk, NumFences
  <2> QED
    BY <1>17, <2>2, <2>3, Zenon
<1>19. \A n \in (L + 1)..Assigned : fences'[Slot(n)] = n
  <2> TAKE n \in (L + 1)..Assigned
  <2>1. n \in Nat /\ n # a
    BY <1>t, <1>10, SubmitFacts
  <2>2. fences[Slot(n)] = n
    BY Zenon DEF Claims
  <2> QED
    BY <1>12, <2>1, <2>2, Zenon
<1>20. Untouched(Claim(work[w].at, from[w], to[w]))
  BY <1>1, <1>8, <1>10, <1>12, Zenon DEF Untouched
<1>21. last_seq' = Seq32(L) /\ passed' = passed
  BY <1>t, <1>1, Zenon
<1> QED
  BY <1>t, <1>21, <1>2, <1>4, <1>5, <1>14, <1>15, <1>16, <1>17, <1>18, <1>19, <1>20, WorkerStep,
     ZenonT(60)

\* The worker signals the fence it has taken, and goes on to the next of its claim or ends.
LEMMA SignalStep ==
    ASSUME SubmitInv, FenceTypes,
           NEW L \in Nat, NEW from \in [Workers -> Nat], NEW to \in [Workers -> Nat],
           Claims(L, from, to), NEW w \in Workers, SignalFence(w)
    PROVE  /\ \E J \in Nat : \E f, t \in [Workers -> Nat] : Claims(J, f, t)'
           /\ work[w].fence \in 1..passed
<1> DEFINE a == from[w]
<1>t. /\ passed \in Nat /\ L \in FirstSeq..passed /\ last_seq = Seq32(L)
      /\ a \in Nat /\ to[w] \in Nat /\ FirstSeq \in Nat /\ L <= L
  BY SubmitFacts, Constants DEF Claims
<1>1. /\ last_seq' = last_seq /\ fences' = fences /\ passed' = passed
      /\ sync_seq' = sync_seq /\ emitter' = emitter /\ work[w].at = "signal"
      /\ signaled' = signaled \cup {work[w].fence}
  BY Zenon DEF SignalFence, gpuVars
<1>2. Assigned' = Assigned
  BY <1>1, Zenon DEF Assigned, SlotPending
<1>3. /\ work[w].last = Slot(a) /\ work[w].seq = Slot(to[w])
      /\ FirstSeq <= a /\ to[w] \in a..L /\ a > FirstSeq /\ work[w].fence = a /\ a # NoFence
  <2>1. WorkOk(work[w], L, from[w], to[w])
    BY Zenon DEF Claims
  <2> QED
    BY <1>t, <1>1, <2>1 DEF WorkOk, NoFence
<1>4. \A v \in Workers : v # w => work'[v] = work[v]
  BY Zenon DEF SignalFence, FenceTypes
<1>5. PICK r : r = work'[w]
  BY Zenon
<1>6. r = LoopEnd(w)
  BY <1>5, Zenon DEF SignalFence, FenceTypes
<1>8. Claim(work[w].at, from[w], to[w]) = a..to[w]
  BY <1>1, Zenon DEF Claim
<1>9. /\ \A n \in a..to[w] : n \notin signaled /\ (n # a => fences[Slot(n)] = n)
      /\ \A s \in Slots : fences[s] # a
  <2>1. a \in a..to[w]
    BY <1>t, <1>3
  <2> QED
    BY <1>1, <1>8, <2>1, Zenon DEF Claims, ClaimOk
<1>10. a \in a..to[w] /\ a <= L /\ a \in 1..passed
  BY <1>t, <1>3
<1>11. ASSUME WorkOk(r, L, a, to[w])', Claim(r.at, a, to[w]) \subseteq (a + 1)..to[w],
              r.at # "signal"
       PROVE  \E J \in Nat : \E f, t \in [Workers -> Nat] : Claims(J, f, t)'
  <2>1. \A n \in Claim(r.at, a, to[w]) : n \in a..to[w] /\ n # a
    BY <1>t, <1>11
  <2>2. Fresh(Claim(r.at, a, to[w]), Claim(work[w].at, from[w], to[w]), L)
    BY <1>8, <2>1, Zenon DEF Fresh
  <2>3. ClaimOk(r, a, to[w])'
    BY <1>1, <1>3, <1>9, <1>11, <2>1, Zenon DEF ClaimOk
  <2>4. \A s \in Slots : SlotOk(s)'
    BY <1>1, <1>2, <1>3, <1>9, Zenon DEF Claims, SlotOk
  <2>5. \A n \in (L + 1)..Assigned : fences'[Slot(n)] = n
    BY <1>1, Zenon DEF Claims
  <2>6. \A s \in Slots : fences'[s] \in {fences[s], NoFence}
    BY <1>1, Zenon
  <2>7. Untouched(Claim(work[w].at, from[w], to[w]))
    BY <1>1, <1>3, <1>8, <1>10, Zenon DEF Untouched
  <2> QED
    BY <1>t, <1>1, <1>2, <1>4, <1>5, <1>11, <2>2, <2>3, <2>4, <2>5, <2>6, <2>7, WorkerStep, ZenonT(60)
<1>12. CASE work[w].last = work[w].seq
  <2>1. r.at = "idle" /\ r.fence = NoFence
    BY <1>6, <1>12, Zenon DEF LoopEnd, Idle
  <2> QED
    BY <1>3, <1>10, <1>11, <2>1, Zenon DEF WorkOk, Claim
<1>13. CASE work[w].last # work[w].seq
  <2>1. /\ r.at = "take" /\ r.fence = NoFence /\ r.last = work[w].last
        /\ r.seq = work[w].seq
    BY <1>6, <1>13, Zenon DEF LoopEnd, FenceTypes
  <2>2. a # to[w]
    BY <1>3, <1>13, Zenon
  <2>3. a < to[w]
    BY <1>t, <1>3, <2>2
  <2>4. WorkOk(r, L, a, to[w])'
    BY <1>3, <2>1, <2>3, Zenon DEF WorkOk
  <2>5. Claim(r.at, a, to[w]) \subseteq (a + 1)..to[w]
    BY <2>1, Zenon DEF Claim
  <2> QED
    BY <1>3, <1>10, <1>11, <2>1, <2>4, <2>5, Zenon
<1> QED
  BY <1>12, <1>13, Zenon

-----------------------------------------------------------------------------
(* The inductive invariant of the fence driver *)

\* The GPU passes fences in order, and a reset completes the rest: passed never falls.
LEMMA PassedGrows ==
    ASSUME SubmitInv, [Next]_vars
    PROVE  passed' \in Nat /\ passed <= passed'
<1>t. sync_seq \in Nat /\ passed \in Nat /\ passed <= sync_seq
  BY SubmitFacts
<1>1. CASE GpuPass
  <2>1. ring \in Seq(Nat) /\ ring # <<>>
    BY <1>1, Zenon DEF GpuPass, SubmitInv, RingOrder
  <2>2. Head(ring) \in Nat
    BY <2>1
  <2> QED
    BY <1>t, <1>1, <2>2 DEF GpuPass
<1>2. CASE ForceCompletion
  BY <1>t, <1>2, Zenon DEF ForceCompletion
<1>3. CASE passed' = passed
  BY <1>t, <1>3
<1>4. CASE IbSchedule \/ Emit \/ Wait \/ GpuHang \/ AsicReset \/ UNCHANGED vars
  BY <1>3, <1>4, Zenon
  DEF IbSchedule, Emit, FenceEmit, FenceEmitFails, FenceAssign, FenceBusy, RingCommit,
      AddCallback, Wait, WaitEmpty, WaitEmptyReturn, GpuHang, AsicReset, gpuVars, vars
<1>5. ASSUME NEW w \in Workers, ProcessStart(w) \/ Process(w)
      PROVE  passed' \in Nat /\ passed <= passed'
  BY <1>3, <1>5, Zenon
  DEF ProcessStart, Process, ReadLast, ReadMem, ClaimSeq, CheckFallback, TakeFence, ClearSlot,
      SignalFence, gpuVars
<1> QED
  BY <1>1, <1>2, <1>4, <1>5, Zenon DEF Next, Reset

\* Only fences that the GPU has passed are signaled, and the memory holds the number of the
\* last one.
LEMMA TypesStep ==
    ASSUME ~SlowGpu, FenceInv, [Next]_vars
    PROVE  FenceTypes'
<1>t. /\ sync_seq \in Nat /\ passed \in Nat /\ Assigned \in Nat /\ passed <= sync_seq
      /\ fences \in [Slots -> Nat] /\ signaled \subseteq 1..passed /\ mem = Seq32(passed)
      /\ work \in [Workers -> [at : Places, last : Nat, seq : Nat, fence : Nat]]
  BY SubmitFacts DEF FenceInv, FenceTypes
<1>0. CASE UNCHANGED <<fences, signaled, passed, mem, work>>
  BY <1>0, <1>t, Zenon DEF FenceTypes
<1>1. CASE FenceAssign
  <2>1. /\ fences' = [fences EXCEPT ![Slot(Seq32(sync_seq))] = sync_seq]
        /\ UNCHANGED <<signaled, passed, mem, work>>
    BY <1>1, Zenon DEF FenceAssign, gpuVars
  <2>2. fences' \in [Slots -> Nat]
    BY <1>t, <2>1, Zenon
  <2> QED
    BY <1>t, <2>1, <2>2, Zenon DEF FenceTypes
<1>2. CASE GpuPass
  <2>1. /\ UNCHANGED <<fences, signaled, work>> /\ mem' = Seq32(Head(ring)) /\ ring # <<>>
        /\ passed' = (IF passed < Head(ring) THEN Head(ring) ELSE passed) /\ gpu = "run"
    BY <1>2, Zenon DEF GpuPass
  <2>2. Head(ring) \in Nat /\ Head(ring) > passed
    <3>1. ring \in Seq(Nat) /\ 1 \in 1..Len(ring) /\ Head(ring) = ring[1]
      BY <2>1 DEF FenceInv, SubmitInv, RingOrder
    <3> QED
      BY <2>1, <3>1 DEF FenceInv, SubmitInv, RingOrder
  <2>3. passed' = Head(ring) /\ passed' \in Nat /\ passed <= passed'
    BY <1>t, <2>1, <2>2
  <2>4. signaled' \subseteq 1..passed'
    BY <1>t, <2>1, <2>3
  <2> QED
    BY <1>t, <2>1, <2>3, <2>4, Zenon DEF FenceTypes
<1>3. CASE ForceCompletion
  <2>1. UNCHANGED <<fences, signaled, work>> /\ mem' = Seq32(sync_seq) /\ passed' = sync_seq
    BY <1>3, Zenon DEF ForceCompletion, ForceWrite
  <2>2. signaled' \subseteq 1..passed'
    BY <1>t, <2>1
  <2> QED
    BY <1>t, <2>1, <2>2, Zenon DEF FenceTypes
<1>4. CASE IbSchedule \/ FenceEmit \/ FenceEmitFails \/ FenceBusy \/ RingCommit \/ AddCallback
            \/ WaitEmpty \/ WaitEmptyReturn \/ GpuHang \/ AsicReset \/ UNCHANGED vars
  BY <1>0, <1>4, Zenon
  DEF IbSchedule, FenceEmit, FenceEmitFails, FenceBusy, RingCommit, AddCallback, WaitEmpty,
      WaitEmptyReturn, GpuHang, AsicReset, gpuVars, vars
<1>5. ASSUME NEW w \in Workers, ProcessStart(w) \/ Process(w) PROVE FenceTypes'
  <2>t. /\ last_seq \in Nat /\ mem \in Nat /\ NoFence \in Nat
        /\ \A n \in Nat : Slot(n) \in Nat /\ Slot(n) \in Slots /\ Slot(n + 1) \in Slots
                          /\ Slot(n + 1) \in Nat
    <3>1. \A n \in Nat : n + 1 \in Nat
      OBVIOUS
    <3>2. PICK L \in Nat : last_seq = Seq32(L)
      BY Zenon DEF FenceInv, Claims
    <3>3. NoFence \in Nat
      BY Zenon DEF NoFence
    <3> QED
      BY <1>t, <3>1, <3>2, <3>3, SlotType, Zenon
  <2>0. ASSUME UNCHANGED <<fences, signaled, passed, mem>>,
               work' \in [Workers -> [at : Places, last : Nat, seq : Nat, fence : Nat]]
        PROVE  FenceTypes'
    BY <1>t, <2>0, Zenon DEF FenceTypes
  <2>w. work[w] \in [at : Places, last : Nat, seq : Nat, fence : Nat]
    BY <1>t, Zenon
  <2>1. CASE ProcessStart(w) \/ ReadLast(w) \/ ReadMem(w)
    <3>1. UNCHANGED <<fences, signaled, passed, mem>>
      BY <2>1, Zenon DEF ProcessStart, ReadLast, ReadMem, gpuVars
    <3>2. work' \in [Workers -> [at : Places, last : Nat, seq : Nat, fence : Nat]]
      BY <1>t, <2>1, <2>t DEF ProcessStart, ReadLast, ReadMem, Places
    <3> QED
      BY <2>0, <3>1, <3>2, Zenon
  <2>2. CASE ClaimSeq(w)
    <3>1. UNCHANGED <<fences, signaled, passed, mem>> /\ Cmpxchg(w)
      BY <2>2, Zenon DEF ClaimSeq, gpuVars
    <3>2. work' \in [Workers -> [at : Places, last : Nat, seq : Nat, fence : Nat]]
      BY <1>t, <2>t, <3>1, SMTT(60) DEF Cmpxchg, Places, Idle
    <3> QED
      BY <2>0, <3>1, <3>2, Zenon
  <2>3. CASE CheckFallback(w)
    <3>1. UNCHANGED <<fences, signaled, passed, mem>>
      BY <2>3, Zenon DEF CheckFallback, gpuVars
    <3>2. work[w].last \in Nat /\ work[w].seq \in Nat
      BY <2>w, Zenon
    <3>3. Slot(work[w].last) \in Nat /\ Slot(work[w].seq) \in Nat
      BY <2>t, <3>2, Zenon
    <3>4. work' \in [Workers -> [at : Places, last : Nat, seq : Nat, fence : Nat]]
      BY <1>t, <2>3, <2>t, <3>3, SMTT(60) DEF CheckFallback, Places, Idle
    <3> QED
      BY <2>0, <3>1, <3>4, Zenon
  <2>4. CASE TakeFence(w)
    <3>1. UNCHANGED <<fences, signaled, passed, mem>>
      BY <2>4, Zenon DEF TakeFence, gpuVars
    <3>2. work[w].last \in Nat
      BY <2>w, Zenon
    <3>3. Slot(work[w].last + 1) \in Nat /\ fences[Slot(work[w].last + 1)] \in Nat
      BY <1>t, <2>t, <3>2, Zenon
    <3>4. work' \in [Workers -> [at : Places, last : Nat, seq : Nat, fence : Nat]]
      BY <1>t, <2>4, <3>3 DEF TakeFence, Places
    <3> QED
      BY <2>0, <3>1, <3>4, Zenon
  <2>5. LoopEnd(w) \in [at : Places, last : Nat, seq : Nat, fence : Nat]
    BY <2>t, <2>w, Zenon DEF LoopEnd, Idle, Places
  <2>6. CASE ClearSlot(w)
    <3>1. /\ UNCHANGED <<signaled, passed, mem>>
          /\ fences' = [fences EXCEPT ![work[w].last] = NoFence]
      BY <2>6, Zenon DEF ClearSlot, gpuVars
    <3>2. fences' \in [Slots -> Nat]
      BY <1>t, <2>t, <3>1, Zenon
    <3>3. work' \in [Workers -> [at : Places, last : Nat, seq : Nat, fence : Nat]]
      BY <1>t, <2>5, <2>6, <2>w, Zenon DEF ClearSlot, Places
    <3> QED
      BY <1>t, <3>1, <3>2, <3>3, Zenon DEF FenceTypes
  <2>7. CASE SignalFence(w)
    <3>1. /\ UNCHANGED <<fences, passed, mem>> /\ signaled' = signaled \cup {work[w].fence}
      BY <2>7, Zenon DEF SignalFence, gpuVars
    <3>2. work[w].fence \in 1..passed
      BY <2>7, SignalStep, Zenon DEF FenceInv
    <3>3. work' \in [Workers -> [at : Places, last : Nat, seq : Nat, fence : Nat]]
      BY <1>t, <2>5, <2>7, Zenon DEF SignalFence
    <3> QED
      BY <1>t, <3>1, <3>2, <3>3, Zenon DEF FenceTypes
  <2> QED
    BY <1>5, <2>1, <2>2, <2>3, <2>4, <2>6, <2>7, Zenon DEF Process
<1> QED
  BY <1>1, <1>2, <1>3, <1>4, <1>5, Zenon DEF Next, Emit, Wait, Reset

\* Every step of the driver keeps the claims of its workers.
LEMMA ClaimsStep ==
    ASSUME ~SlowGpu, FenceInv, [Next]_vars
    PROVE  \E J \in Nat : \E f, t \in [Workers -> Nat] : Claims(J, f, t)'
<1>t. SubmitInv /\ FenceTypes
  BY Zenon DEF FenceInv
<1>s. /\ sync_seq \in Nat /\ passed \in Nat /\ passed <= sync_seq /\ Assigned \in Nat
  BY <1>t, SubmitFacts
<1>c. PICK L \in Nat : \E from, to \in [Workers -> Nat] : Claims(L, from, to)
  BY Zenon DEF FenceInv
<1>d. PICK from \in [Workers -> Nat], to \in [Workers -> Nat] : Claims(L, from, to)
  BY <1>c, Zenon
<1>0. ASSUME UNCHANGED <<last_seq, passed, fences, signaled, work>>, Assigned' = Assigned
      PROVE  Claims(L, from, to)'
  BY <1>d, <1>0, ClaimsFrame, Zenon
<1>1. CASE UNCHANGED <<last_seq, passed, fences, signaled, work, sync_seq, emitter>>
  BY <1>0, <1>1, <1>d, Zenon DEF Assigned, SlotPending
<1>2. CASE IbSchedule \/ FenceEmitFails \/ RingCommit \/ AddCallback
  <2>1. /\ UNCHANGED <<last_seq, passed, fences, signaled, work, sync_seq>>
        /\ emitter \in {"idle", "flush", "job", "commit", "callback"}
        /\ emitter' \in {"flush", "job", "idle", "callback"}
    BY <1>2, Zenon DEF IbSchedule, FenceEmitFails, RingCommit, AddCallback, gpuVars
  <2>2. Assigned' = Assigned
    BY <2>1, Zenon DEF Assigned, SlotPending
  <2> QED
    BY <1>0, <1>d, <2>1, <2>2, Zenon
<1>3. CASE FenceEmit
  <2>1. /\ UNCHANGED <<last_seq, passed, fences, signaled, work>> /\ sync_seq' = sync_seq + 1
        /\ emitter \in {"flush", "job"} /\ emitter' \in {"flush_slot", "job_slot"}
    BY <1>3, Zenon DEF FenceEmit, gpuVars
  <2>2. Assigned' = Assigned
    BY <1>s, <2>1 DEF Assigned, SlotPending
  <2> QED
    BY <1>0, <1>d, <2>1, <2>2, Zenon
<1>4. CASE FenceAssign
  BY <1>t, <1>d, <1>4, ClaimsAssigned, Zenon
<1>5. CASE GpuPass \/ ForceCompletion
  <2>1. /\ UNCHANGED <<last_seq, fences, signaled, work, sync_seq, emitter>>
    BY <1>5, Zenon DEF GpuPass, ForceCompletion, submitVars
  <2>2. Assigned' = Assigned
    BY <2>1, Zenon DEF Assigned, SlotPending
  <2>3. passed' \in Nat /\ passed <= passed'
    BY <1>t, <1>5, PassedGrows, Zenon DEF Next, Reset
  <2> QED
    BY <1>d, <1>s, <2>1, <2>2, <2>3, ClaimsPassed, Zenon
<1>6. CASE FenceBusy \/ WaitEmpty \/ WaitEmptyReturn \/ GpuHang \/ AsicReset \/ UNCHANGED vars
  BY <1>1, <1>6, Zenon
  DEF FenceBusy, WaitEmpty, WaitEmptyReturn, GpuHang, AsicReset, submitVars, gpuVars, vars
<1>7. ASSUME NEW w \in Workers, ProcessStart(w) \/ Process(w)
      PROVE  \E J \in Nat : \E f, t \in [Workers -> Nat] : Claims(J, f, t)'
  <2>1. CASE ProcessStart(w) \/ ReadLast(w) \/ ReadMem(w)
    BY <1>t, <1>d, <2>1, ReadSteps, Zenon
  <2>2. CASE ClaimSeq(w)
    BY <1>t, <1>d, <2>2, ClaimStep, Zenon
  <2>3. CASE CheckFallback(w)
    BY <1>t, <1>d, <2>3, FallbackStep, ZenonT(60)
  <2>4. CASE TakeFence(w)
    BY <1>t, <1>d, <2>4, TakeStep, Zenon
  <2>5. CASE ClearSlot(w)
    BY <1>t, <1>d, <2>5, ClearStep, Zenon
  <2>6. CASE SignalFence(w)
    BY <1>t, <1>d, <2>6, SignalStep, Zenon
  <2> QED
    BY <1>7, <2>1, <2>2, <2>3, <2>4, <2>5, <2>6, Zenon DEF Process
<1> QED
  BY <1>2, <1>3, <1>4, <1>5, <1>6, <1>7, Zenon DEF Next, Emit, Wait, Reset

\* The invariant of the fence driver holds when the run starts: every slot is empty.
LEMMA FenceInit == Init => FenceInv
<1> SUFFICES ASSUME Init PROVE FenceInv
  BY Zenon
<1>t. /\ FirstSeq \in Nat /\ FirstSeq \in FirstSeq..MaxSeq /\ FirstSeq \in FirstSeq..FirstSeq
      /\ <<>> \in Seq(Nat) /\ Len(<<>>) = 0 /\ NoFence \in Nat
  BY FenceBounds DEF NoFence
<1>1. Submission /\ Committed = FirstSeq
  BY <1>t DEF Init, Submission, Committed, Stages
<1>2. RingOrder
  BY <1>t, <1>1 DEF Init, RingOrder
<1>3. FenceTypes
  BY <1>t, Zenon DEF Init, FenceTypes, Idle, Places
<1>4. Assigned = FirstSeq /\ (FirstSeq + 1)..Assigned = {}
  BY <1>t DEF Init, Assigned, SlotPending
<1>5. \A s \in Slots : SlotOk(s)
  BY Zenon DEF Init, SlotOk
<1>6. ASSUME NEW w \in Workers
      PROVE  work[w].at = "idle" /\ work[w].fence = NoFence
  BY Zenon DEF Init, Idle
<1>7. \A w \in Workers : Claim(work[w].at, 0, 0) = {}
  BY <1>6, Zenon DEF Claim
<1>8. \A w \in Workers : WorkOk(work[w], FirstSeq, 0, 0) /\ ClaimOk(work[w], 0, 0)
  BY <1>6, <1>7, Zenon DEF WorkOk, ClaimOk
<1> DEFINE zero == [w \in Workers |-> 0]
<1>9. zero \in [Workers -> Nat] /\ \A w \in Workers : zero[w] = 0
  BY Zenon
<1> HIDE DEF zero
<1>10. Claims(FirstSeq, zero, zero)
  BY <1>t, <1>4, <1>5, <1>7, <1>8, <1>9, Zenon DEF Claims, Init
<1> QED
  BY <1>t, <1>1, <1>2, <1>3, <1>9, <1>10, Zenon DEF FenceInv, SubmitInv

\* The invariant of the fence driver holds throughout, on a GPU that passes no fence once it
\* has been taken for hung.
LEMMA FenceInvHolds == ~SlowGpu => (Spec => []FenceInv)
<1> SUFFICES ASSUME ~SlowGpu PROVE Spec => []FenceInv
  BY Zenon
<1>1. FenceInv /\ [Next]_vars => FenceInv'
  <2> SUFFICES ASSUME FenceInv, [Next]_vars PROVE FenceInv'
    BY Zenon
  <2>1. SubmitInv'
    BY SubmitStep, Zenon DEF FenceInv
  <2> QED
    BY <2>1, TypesStep, ClaimsStep, Zenon DEF FenceInv
<1> QED
  BY <1>1, FenceInit, PTL DEF Spec

\* OneSignaler ("There is always exactly one thread signaling this fence slot"): however many
\* runs of amdgpu_fence_process interleave, no two of them hold the same fence and none
\* holds a signaled one, so that the BUG() behind fence_signal is unreachable.
THEOREM OneSignalerHolds == ~SlowGpu => (Spec => []OneSignaler)
<1>1. FenceInv => OneSignaler
  <2> SUFFICES ASSUME FenceInv, NEW w \in Workers, work[w].fence # NoFence
               PROVE  /\ work[w].fence \notin signaled
                      /\ \A v \in Workers \ {w} : work[v].fence # work[w].fence
    BY Zenon DEF OneSignaler
  <2>1. PICK L \in Nat : \E from, to \in [Workers -> Nat] : Claims(L, from, to)
    BY Zenon DEF FenceInv
  <2>2. PICK from \in [Workers -> Nat], to \in [Workers -> Nat] : Claims(L, from, to)
    BY <2>1, Zenon
  <2>3. ASSUME NEW v \in Workers, work[v].fence # NoFence
        PROVE  work[v].fence \in Claim(work[v].at, from[v], to[v])
    <3>1. WorkOk(work[v], L, from[v], to[v])
      BY <2>2, Zenon DEF Claims
    <3>2. work[v].at \in {"clear", "signal"} /\ work[v].fence = from[v] /\ to[v] \in from[v]..L
      BY <2>3, <3>1, Zenon DEF WorkOk
    <3>3. from[v] \in Nat
      BY Zenon
    <3> QED
      BY <3>2, <3>3 DEF Claim
  <2>4. work[w].fence \notin signaled
    BY <2>2, <2>3, Zenon DEF Claims, ClaimOk
  <2>5. ASSUME NEW v \in Workers, v # w PROVE work[v].fence # work[w].fence
    <3>1. Claim(work[v].at, from[v], to[v]) \cap Claim(work[w].at, from[w], to[w]) = {}
      BY <2>2, <2>5, Zenon DEF Claims
    <3> QED
      BY <2>3, <3>1, Zenon
  <2> QED
    BY <2>4, <2>5, Zenon
<1> QED
  BY <1>1, FenceInvHolds, PTL

\* NoEarlySignal ("all buffers associated with that fence are no longer in use by the
\* associated ring"): through wrapped numbers and reused slots, amdgpu_fence_process signals
\* only fences that the GPU has passed or a reset has completed.
THEOREM NoEarlySignalHolds == ~SlowGpu => (Spec => []NoEarlySignal)
<1>1. FenceInv => NoEarlySignal
  BY Zenon DEF FenceInv, FenceTypes, NoEarlySignal
<1> QED
  BY <1>1, FenceInvHolds, PTL

-----------------------------------------------------------------------------
(* amdgpu_fence_wait_empty *)

\* who called it while nothing was being submitted waits for the last fence emitted
WaitInv ==
    /\ waitSeq \in Nat
    /\ waiter \in Fences /\ waitQuiet => waiter = waitSeq
    /\ WaitEmptyIdle

\* When nothing is being submitted, the slot of the last fence holds that fence, or the GPU has
\* passed it.
LEMMA LastFence ==
    ASSUME FenceInv, emitter = "idle"
    PROVE  \/ fences[LastSlot] = sync_seq
           \/ fences[LastSlot] = NoFence /\ sync_seq <= passed
<1>t. /\ sync_seq \in Nat /\ passed \in Nat /\ NumFences \in Nat \ {0} /\ FirstSeq \in Nat
      /\ fences \in [Slots -> Nat]
  BY SubmitFacts, Constants, Zenon DEF FenceInv, FenceTypes
<1>1. PICK L \in Nat : \E from, to \in [Workers -> Nat] : Claims(L, from, to)
  BY Zenon DEF FenceInv
<1>2. PICK from \in [Workers -> Nat], to \in [Workers -> Nat] : Claims(L, from, to)
  BY <1>1, Zenon
<1>3. Assigned = sync_seq
  BY Zenon DEF Assigned, SlotPending
<1>4. LastSlot = Slot(sync_seq) /\ LastSlot \in Slots
  BY <1>t, SlotOfSeq, SlotType, Zenon DEF LastSlot
<1>5. CASE fences[LastSlot] # NoFence
  <2>1. /\ fences[LastSlot] \in (FirstSeq + 1)..sync_seq /\ Slot(fences[LastSlot]) = LastSlot
        /\ sync_seq < fences[LastSlot] + NumFences
    BY <1>2, <1>3, <1>4, <1>5, Zenon DEF Claims, SlotOk
  <2>2. /\ fences[LastSlot] \in Nat
        /\ sync_seq - fences[LastSlot] < NumFences /\ fences[LastSlot] - sync_seq < NumFences
    BY <1>t, <1>4, <2>1
  <2> QED
    BY <1>t, <1>4, <2>1, <2>2, SlotSame, Zenon
<1>6. CASE fences[LastSlot] = NoFence
  <2>1. CASE sync_seq \in (L + 1)..sync_seq
    <3>1. fences[LastSlot] = sync_seq
      BY <1>2, <1>3, <1>4, <2>1, Zenon DEF Claims
    <3> QED
      BY <3>1, Zenon
  <2>2. CASE sync_seq \notin (L + 1)..sync_seq
    <3>1. L \in FirstSeq..passed
      BY <1>2, Zenon DEF Claims
    <3> QED
      BY <1>t, <1>6, <2>2, <3>1
  <2> QED
    BY <2>1, <2>2, Zenon
<1> QED
  BY <1>5, <1>6, Zenon

\* The call notes the last fence, and it returns only when that one is signaled.
LEMMA WaitStep ==
    ASSUME FenceInv, WaitInv, [Next]_vars
    PROVE  WaitInv'
<1>t. /\ sync_seq \in Nat /\ passed \in Nat /\ signaled \subseteq 1..passed /\ Assigned \in Nat
      /\ waitSeq \in Nat /\ Returned \notin Fences /\ Returned # NotCalled
  BY SubmitFacts DEF FenceInv, FenceTypes, WaitInv, Returned, NotCalled, Fences
<1>1. CASE UNCHANGED waitVars
  <2>1. waiter' = waiter /\ waitSeq' = waitSeq /\ waitQuiet' = waitQuiet
    BY <1>1, Zenon DEF waitVars
  <2>2. passed' \in Nat /\ passed <= passed'
    BY PassedGrows, Zenon DEF FenceInv
  <2>3. waitSeq <= passed => waitSeq <= passed'
    BY <1>t, <2>2
  <2> QED
    BY <2>1, <2>3, Zenon DEF WaitInv, WaitEmptyIdle
<1>2. CASE WaitEmpty
  <2> DEFINE f == fences[LastSlot]
  <2>1. /\ waitQuiet' = (emitter = "idle") /\ passed' = passed
        /\ waitSeq' = (IF SlotPending THEN sync_seq - 1 ELSE sync_seq)
        /\ \/ (Seq32(sync_seq) = 0 \/ f = NoFence) /\ waiter' = Returned
           \/ Seq32(sync_seq) # 0 /\ f # NoFence /\ waiter' = f
    BY <1>2, Zenon DEF WaitEmpty, gpuVars, SlotPending
  <2>2. waitSeq' \in Nat
    BY <1>t, <2>1, Zenon DEF Assigned
  <2>3. CASE waitQuiet'
    <3>1. emitter = "idle"
      BY <2>1, <2>3, Zenon
    <3>2. waitSeq' = sync_seq
      BY <2>1, <3>1, Zenon DEF SlotPending
    <3>3. f = sync_seq \/ (f = NoFence /\ sync_seq <= passed)
      BY <3>1, LastFence, Zenon
    <3>4. CASE waiter' = Returned
      <4>1. Seq32(sync_seq) # 0 => sync_seq <= passed
        <5>1. CASE f = NoFence
          <6>1. f = sync_seq => sync_seq <= passed
            BY <1>t, <5>1 DEF NoFence
          <6> QED
            BY <3>3, <6>1, Zenon
        <5>2. CASE f # NoFence
          <6>1. f # Returned
            <7>1. f \in Nat
              BY <1>t, <3>3, <5>2, Zenon
            <7> QED
              BY <7>1 DEF Returned
          <6> QED
            BY <2>1, <3>4, <5>2, <6>1, Zenon
        <5> QED
          BY <5>1, <5>2, Zenon
      <4> QED
        BY <1>t, <2>1, <2>2, <3>2, <3>4, <4>1, Zenon DEF WaitInv, WaitEmptyIdle
    <3>5. CASE waiter' # Returned
      BY <2>1, <2>2, <3>2, <3>3, <3>5, Zenon DEF WaitInv, WaitEmptyIdle
    <3> QED
      BY <3>4, <3>5, Zenon
  <2>4. CASE ~waitQuiet'
    BY <2>2, <2>4, Zenon DEF WaitInv, WaitEmptyIdle
  <2> QED
    BY <2>3, <2>4, Zenon
<1>3. CASE WaitEmptyReturn
  <2>1. /\ waiter \in Fences /\ waiter \in signaled /\ waiter' = Returned /\ passed' = passed
        /\ waitSeq' = waitSeq /\ waitQuiet' = waitQuiet
    BY <1>3, Zenon DEF WaitEmptyReturn, gpuVars
  <2>2. waiter <= passed
    BY <1>t, <2>1
  <2> QED
    BY <1>t, <2>1, <2>2, Zenon DEF WaitInv, WaitEmptyIdle
<1>4. CASE IbSchedule \/ Emit \/ GpuPass \/ Reset \/ UNCHANGED vars
  BY <1>1, <1>4, Zenon
  DEF IbSchedule, Emit, FenceEmit, FenceEmitFails, FenceAssign, FenceBusy, RingCommit,
      AddCallback, GpuPass, Reset, GpuHang, ForceCompletion, AsicReset, vars
<1>5. ASSUME NEW w \in Workers, ProcessStart(w) \/ Process(w) PROVE WaitInv'
  BY <1>1, <1>5, Zenon
  DEF ProcessStart, Process, ReadLast, ReadMem, ClaimSeq, CheckFallback, TakeFence, ClearSlot,
      SignalFence
<1> QED
  BY <1>2, <1>3, <1>4, <1>5, Zenon DEF Next, Wait

\* WaitEmptyIdle: when amdgpu_fence_wait_empty returns from a call made while nothing was being
\* submitted, the GPU is past every fence emitted before the call, unless the number of the
\* last one had wrapped to 0, even though the slot it reads may be reused while it waits.
THEOREM WaitEmptyIdleHolds == ~SlowGpu => (Spec => []WaitEmptyIdle)
<1> SUFFICES ASSUME ~SlowGpu PROVE Spec => []WaitEmptyIdle
  OBVIOUS
<1>1. Init => WaitInv
  BY DEF Init, WaitInv, WaitEmptyIdle, Fences, NotCalled, Returned
<1>2. FenceInv /\ WaitInv /\ [Next]_vars => WaitInv'
  BY WaitStep, Zenon
<1>3. WaitInv => WaitEmptyIdle
  BY Zenon DEF WaitInv
<1> QED
  BY <1>1, <1>2, <1>3, FenceInvHolds, PTL DEF Spec

-----------------------------------------------------------------------------
(* A busy slot *)

\* a submission whose job is counted has at most two fences, the last one the job's, so that of
\* two neighbouring fences the GPU has not passed one belongs to a counted job
JobsInv ==
    /\ IsFiniteSet(jobs)
    /\ emitter \notin {"idle", "callback"} => Cardinality(jobs) < NumHwSubmission
    /\ \A n \in (passed + 1)..Committed : n \in jobs \/ (n < Committed /\ n + 1 \in jobs)

\* A submission starts only while a job may still be counted, and counts its job at the end.
LEMMA JobsStep ==
    ASSUME ~FlushMayBeUndone, FenceInv, JobsInv, [Next]_vars
    PROVE  JobsInv'
<1>t. /\ sync_seq \in Nat /\ passed \in Nat /\ Len(staged) \in Nat /\ staged \in Seq(Nat)
      /\ Committed \in Int /\ NumHwSubmission \in Nat /\ IsFiniteSet(jobs)
  <2>1. Len(staged) \in Nat /\ sync_seq \in Nat /\ passed \in Nat /\ staged \in Seq(Nat)
    BY SubmitFacts, SeqLen, Zenon DEF FenceInv, SubmitInv, Submission
  <2> QED
    BY <2>1, Constants DEF Committed, JobsInv
<1>0. ASSUME UNCHANGED <<jobs, passed>>, Committed' = Committed,
             \/ emitter' \in {"idle", "callback"}
             \/ emitter \notin {"idle", "callback"} \/ HwReady
      PROVE  JobsInv'
  BY <1>0, Zenon DEF JobsInv, HwReady
<1>1. CASE UNCHANGED <<jobs, passed, sync_seq, staged, emitter>>
  BY <1>1, Zenon DEF JobsInv, Committed
<1>2. CASE IbSchedule \/ FenceAssign \/ AddCallback
  <2>1. /\ UNCHANGED <<jobs, passed, sync_seq, staged>>
        /\ \/ emitter' \in {"idle", "callback"}
           \/ emitter \notin {"idle", "callback"} \/ HwReady
    BY <1>2, Zenon DEF IbSchedule, FenceAssign, AddCallback, gpuVars
  <2>2. Committed' = Committed
    BY <2>1, Zenon DEF Committed
  <2> QED
    BY <1>0, <2>1, <2>2, Zenon
<1>3. CASE FenceEmit
  <2>1. /\ UNCHANGED <<jobs, passed>> /\ emitter \in {"flush", "job"}
        /\ sync_seq' = sync_seq + 1 /\ staged' = Append(staged, sync_seq + 1)
    BY <1>3, Zenon DEF FenceEmit, gpuVars
  <2>2. Len(staged') = Len(staged) + 1
    BY <1>t, <2>1
  <2>3. Committed' = Committed
    BY <1>t, <2>1, <2>2 DEF Committed
  <2> QED
    BY <1>0, <2>1, <2>3, Zenon
<1>4. CASE FenceEmitFails
  <2>1. UNCHANGED <<jobs, passed, sync_seq, staged>> /\ emitter' = "idle"
    BY <1>4, Zenon DEF FenceEmitFails, gpuVars
  <2>2. Committed' = Committed
    BY <2>1, Zenon DEF Committed
  <2> QED
    BY <1>0, <2>1, <2>2, Zenon
<1>5. CASE RingCommit
  <2>1. /\ jobs' = jobs \cup {sync_seq} /\ passed' = passed /\ sync_seq' = sync_seq
        /\ staged' = <<>> /\ emitter = "commit" /\ emitter' = "callback"
    BY <1>5, Zenon DEF RingCommit
  <2>2. Committed' = sync_seq
    BY <1>t, <2>1 DEF Committed
  <2>3. IsFiniteSet(jobs')
    BY <1>t, <2>1, FS_AddElement, Zenon
  <2>4. Committed \in {sync_seq - 1, sync_seq - 2}
    <3>1. Len(staged) = 1 \/ Len(staged) = 2
      BY <1>t, <2>1 DEF FenceInv, SubmitInv, Submission
    <3> QED
      BY <1>t, <3>1, Zenon DEF Committed
  <2>5. ASSUME NEW n \in (passed + 1)..sync_seq
        PROVE  n \in jobs' \/ (n < sync_seq /\ n + 1 \in jobs')
    <3>1. CASE n \in (passed + 1)..Committed
      <4>1. n \in jobs \/ (n < Committed /\ n + 1 \in jobs)
        BY <3>1, Zenon DEF JobsInv
      <4> QED
        BY <1>t, <2>1, <2>4, <3>1, <4>1, SMTT(60)
    <3>2. CASE n \notin (passed + 1)..Committed
      <4>1. n = sync_seq \/ n + 1 = sync_seq
        BY <1>t, <2>4, <3>2
      <4>2. sync_seq \in jobs' /\ (n + 1 = sync_seq => n < sync_seq)
        BY <1>t, <2>1
      <4> QED
        BY <4>1, <4>2, Zenon
    <3> QED
      BY <3>1, <3>2, Zenon
  <2>6. emitter' \in {"idle", "callback"}
    BY <2>1, Zenon
  <2> QED
    BY <2>1, <2>2, <2>3, <2>5, <2>6, Zenon DEF JobsInv
<1>6. CASE GpuPass
  <2>1. UNCHANGED <<jobs, sync_seq, staged, emitter>>
    BY <1>6, Zenon DEF GpuPass, submitVars
  <2>2. passed' \in Nat /\ passed <= passed'
    BY PassedGrows, Zenon DEF FenceInv
  <2>3. Committed' = Committed
    BY <2>1, Zenon DEF Committed
  <2>4. ASSUME NEW p \in Nat, passed <= p, NEW n \in (p + 1)..Committed
        PROVE  n \in (passed + 1)..Committed
    BY <1>t, <2>4
  <2> QED
    BY <2>1, <2>2, <2>3, <2>4, Zenon DEF JobsInv
<1>7. CASE ForceCompletion
  <2>1. /\ jobs' = {} /\ passed' = sync_seq /\ sync_seq' = sync_seq /\ staged' = staged
        /\ emitter' = emitter /\ emitter \in {"idle", "callback"}
    BY <1>7, Zenon DEF ForceCompletion
  <2>2. (passed' + 1)..Committed' = {}
    BY <1>t, <2>1 DEF Committed
  <2> QED
    BY <2>1, <2>2, FS_EmptySet, Zenon DEF JobsInv
<1>8. CASE FenceBusy \/ Wait \/ GpuHang \/ AsicReset \/ UNCHANGED vars
  BY <1>1, <1>8, Zenon
  DEF FenceBusy, Wait, WaitEmpty, WaitEmptyReturn, GpuHang, AsicReset, submitVars, gpuVars, vars
<1>9. ASSUME NEW w \in Workers, SignalFence(w) PROVE JobsInv'
  <2>1. /\ jobs' = jobs \ {work[w].fence} /\ UNCHANGED <<passed, sync_seq, staged, emitter>>
    BY <1>9, Zenon DEF SignalFence, gpuVars
  <2>2. work[w].fence \in 1..passed
    BY <1>9, SignalStep, Zenon DEF FenceInv
  <2>3. IsFiniteSet(jobs') /\ Cardinality(jobs') <= Cardinality(jobs)
    BY <1>t, <2>1, FS_Subset, Zenon
  <2>4. Cardinality(jobs') \in Nat /\ Cardinality(jobs) \in Nat
    BY <1>t, <2>3, FS_CardinalityType, Zenon
  <2>5. Cardinality(jobs) < NumHwSubmission => Cardinality(jobs') < NumHwSubmission
    BY <1>t, <2>3, <2>4
  <2>6. Committed' = Committed
    BY <2>1, Zenon DEF Committed
  <2>7. ASSUME NEW n \in (passed + 1)..Committed
        PROVE  n \in jobs' \/ (n < Committed /\ n + 1 \in jobs')
    <3>1. n \in jobs \/ (n < Committed /\ n + 1 \in jobs)
      BY Zenon DEF JobsInv
    <3>2. n # work[w].fence /\ n + 1 # work[w].fence
      BY <1>t, <2>2
    <3> QED
      BY <2>1, <3>1, <3>2, Zenon
  <2> QED
    BY <2>1, <2>3, <2>5, <2>6, <2>7, Zenon DEF JobsInv
<1>10. ASSUME NEW w \in Workers, ProcessStart(w) \/ Process(w), ~SignalFence(w) PROVE JobsInv'
  BY <1>1, <1>10, Zenon
  DEF ProcessStart, Process, ReadLast, ReadMem, ClaimSeq, CheckFallback, TakeFence, ClearSlot,
      submitVars, gpuVars
<1> QED
  BY <1>2, <1>3, <1>4, <1>5, <1>6, <1>7, <1>8, <1>9, <1>10, ZenonT(60)
  DEF Next, Emit, Reset, Process

\* A set that holds one number of each of N pairs of neighbours has N members.
LEMMA OneOfEachPair ==
    ASSUME NEW S, IsFiniteSet(S), NEW N \in Nat \ {0}, NEW c \in Int,
           \A k \in 0..(N - 1) : c - 2 * k \in S \/ (k # 0 /\ c - 2 * k + 1 \in S)
    PROVE  N <= Cardinality(S)
<1> DEFINE g == [k \in 0..(N - 1) |-> IF c - 2 * k \in S THEN c - 2 * k ELSE c - 2 * k + 1]
<1>1. g \in [0..(N - 1) -> S]
  BY Zenon
<1>2. \A k \in 0..(N - 1) : g[k] \in {c - 2 * k, c - 2 * k + 1}
  BY Zenon
<1> HIDE DEF g
<1>3. ASSUME NEW i \in 0..(N - 1), NEW k \in 0..(N - 1), g[i] = g[k] PROVE i = k
  <2>1. g[i] \in {c - 2 * i, c - 2 * i + 1} /\ g[k] \in {c - 2 * k, c - 2 * k + 1}
    BY <1>2, Zenon
  <2> QED
    BY <1>3, <2>1
<1>4. g \in Injection(0..(N - 1), S)
  BY <1>1, <1>3, Zenon DEF Injection, IsInjective
<1>5. Cardinality(0..(N - 1)) <= Cardinality(S)
  BY <1>4, FS_Injection, Zenon
<1>6. Cardinality(0..(N - 1)) = N
  BY FS_Interval
<1> QED
  BY <1>5, <1>6, Zenon

\* BusySlotPassed: with two slots per submission, the fence that amdgpu_fence_emit finds in the
\* slot it needs has been passed by the GPU, as long as amdgpu_fence_emit does not fail between
\* the two fences of a submission; the wait for the slot is never a wait for the GPU.
THEOREM BusySlotPassedHolds == ~SlowGpu /\ ~FlushMayBeUndone => (Spec => []BusySlotPassed)
<1> SUFFICES ASSUME ~SlowGpu, ~FlushMayBeUndone PROVE Spec => []BusySlotPassed
  BY Zenon
<1>1. Init => JobsInv
  <2> SUFFICES ASSUME Init PROVE JobsInv
    BY Zenon
  <2>1. (passed + 1)..Committed = {}
    BY Constants DEF Init, Committed
  <2> QED
    BY <2>1, FS_EmptySet, Zenon DEF Init, JobsInv
<1>2. FenceInv /\ JobsInv /\ [Next]_vars => JobsInv'
  BY JobsStep, Zenon
<1>3. FenceInv /\ JobsInv => BusySlotPassed
  <2> SUFFICES ASSUME FenceInv, JobsInv, SlotPending, ~SlotFree(Slot(Seq32(sync_seq))),
                      ~(fences[Slot(Seq32(sync_seq))] <= passed)
               PROVE  FALSE
    BY Zenon DEF BusySlotPassed
  <2>t. /\ sync_seq \in Nat /\ passed \in Nat /\ NumHwSubmission \in Nat \ {0}
        /\ NumFences = 2 * NumHwSubmission /\ NumFences \in Nat /\ FirstSeq \in Nat
        /\ fences \in [Slots -> Nat] /\ Assigned \in Nat
    BY SubmitFacts, Constants, Zenon DEF FenceInv, FenceTypes
  <2>1. PICK f \in Nat : f = fences[Slot(Seq32(sync_seq))]
    BY <2>t, SlotOfSeq, SlotType, Zenon
  <2>2. f # NoFence
    BY <2>1, Zenon DEF SlotFree
  <2>3. PICK L \in Nat : \E from, to \in [Workers -> Nat] : Claims(L, from, to)
    BY Zenon DEF FenceInv
  <2>4. f \in (FirstSeq + 1)..Assigned /\ Slot(f) = Slot(sync_seq) /\ Assigned < f + NumFences
    <3>1. Slot(Seq32(sync_seq)) \in Slots /\ Slot(Seq32(sync_seq)) = Slot(sync_seq)
      BY <2>t, SlotOfSeq, SlotType, Zenon
    <3> QED
      BY <2>1, <2>2, <2>3, <3>1, Zenon DEF Claims, SlotOk
  <2>5. Assigned = sync_seq - 1
    BY Zenon DEF Assigned
  <2>6. sync_seq = f + NumFences
    <3>1. CASE sync_seq - f < NumFences
      <4>1. f - sync_seq < NumFences /\ f # sync_seq
        BY <2>t, <2>4, <2>5
      <4> QED
        BY <2>t, <2>4, <3>1, <4>1, SlotSame, Zenon
    <3>2. CASE ~(sync_seq - f < NumFences)
      BY <2>t, <2>4, <2>5, <3>2
    <3> QED
      BY <3>1, <3>2, Zenon
  <2>7. Committed \in {sync_seq - 1, sync_seq - 2}
    <3>1. Len(staged) = 1 \/ Len(staged) = 2
      BY DEF FenceInv, SubmitInv, Submission, SlotPending
    <3> QED
      BY <2>t, <3>1, Zenon DEF Committed
  <2>8. f > passed
    BY <2>1, <2>t
  <2>9. ASSUME NEW k \in 0..(NumHwSubmission - 1)
        PROVE  Committed - 2 * k \in jobs \/ (k # 0 /\ Committed - 2 * k + 1 \in jobs)
    <3>1. Committed - 2 * k \in (passed + 1)..Committed
      BY <2>t, <2>6, <2>7, <2>8
    <3>2. \/ Committed - 2 * k \in jobs
          \/ Committed - 2 * k < Committed /\ Committed - 2 * k + 1 \in jobs
      BY <3>1, Zenon DEF JobsInv
    <3> QED
      BY <2>t, <2>7, <3>2
  <2>10. Committed \in Int /\ IsFiniteSet(jobs)
    BY <2>t, <2>7 DEF JobsInv
  <2>11. NumHwSubmission <= Cardinality(jobs)
    BY <2>t, <2>9, <2>10, OneOfEachPair, Zenon
  <2>12. Cardinality(jobs) < NumHwSubmission
    BY Zenon DEF JobsInv, SlotPending
  <2>13. Cardinality(jobs) \in Nat
    BY <2>10, FS_CardinalityType, Zenon
  <2> QED
    BY <2>t, <2>11, <2>12, <2>13
<1> QED
  BY <1>1, <1>2, <1>3, FenceInvHolds, PTL DEF Spec
=============================================================================
