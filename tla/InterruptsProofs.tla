-------------------------- MODULE InterruptsProofs ---------------------------
(***************************************************************************)
(* Proofs about the way of an interrupt (amdgpu_irq.c, amdgpu_ih.c,        *)
(* kfd_interrupt.c), for any number of users, any size of the two rings    *)
(* and any number of interrupts: the hardware is set to what the users     *)
(* want, vectors are dispatched in order, amdkfd's ring is not used after  *)
(* it is freed, and it is a queue.                                         *)
(***************************************************************************)
EXTENDS Interrupts, TLAPS

-----------------------------------------------------------------------------
(* Remainders and sequences: the places of a ring, the entries written *)

\* The place of an entry is its number modulo the size of the ring: what % and \div are.
LEMMA ModDef ==
    ASSUME NEW N \in Nat \ {0}, NEW a \in Int
    PROVE  /\ a % N \in 0..(N - 1) /\ a \div N \in Int
           /\ a = N * (a \div N) + (a % N)
OBVIOUS

\* Distinct multiples of N are at least N apart.
LEMMA MultiplesApart ==
    ASSUME NEW N \in Nat \ {0}, NEW q \in Int, NEW r \in Int, q > r
    PROVE  N * q - N * r >= N
OBVIOUS

\* Two numbers less than N apart have different slots in a ring of N slots.
LEMMA ModNe ==
    ASSUME NEW N \in Nat \ {0}, NEW a \in Int, NEW b \in Int, a < b, b - a < N
    PROVE  a % N # b % N
<1> DEFINE q == a \div N
           r == b \div N
           m == a % N
           n == b % N
<1>1. /\ q \in Int /\ m \in 0..(N - 1) /\ a = N * q + m
      /\ r \in Int /\ n \in 0..(N - 1) /\ b = N * r + n
  BY ModDef
<1>2. SUFFICES ASSUME m = n PROVE FALSE
  OBVIOUS
<1> HIDE DEF q, r, m, n
<1>3. N * q \in Int /\ N * r \in Int
  BY <1>1
<1>4. N * r - N * q > 0 /\ N * r - N * q < N
  BY <1>1, <1>2, <1>3
<1>5. CASE r > q
  BY <1>1, <1>4, <1>5, <1>3, MultiplesApart
<1>6. CASE r = q
  BY <1>4, <1>6, <1>3
<1>7. CASE q > r
  <2>1. N * q - N * r >= N
    BY <1>1, <1>7, MultiplesApart
  <2> QED
    BY <2>1, <1>3, <1>4
<1> QED
  BY <1>1, <1>5, <1>6, <1>7

\* Less than N apart, two numbers with the same slot are the same.
LEMMA ModSame ==
    ASSUME NEW N \in Nat \ {0}, NEW a \in Int, NEW b \in Int,
           a - b < N, b - a < N, a % N = b % N
    PROVE  a = b
<1>1. CASE a < b
  BY <1>1, ModNe, Zenon
<1>2. CASE b < a
  BY <1>2, ModNe, Zenon
<1> QED
  BY <1>1, <1>2

\* The remainder is determined by its range and by a multiple.
LEMMA ModUnique ==
    ASSUME NEW N \in Nat \ {0}, NEW a \in Int, NEW q \in Int, NEW m \in 0..(N - 1),
           a = N * q + m
    PROVE  a % N = m /\ a \div N = q
<1> DEFINE r == a \div N
           n == a % N
<1>1. r \in Int /\ n \in 0..(N - 1) /\ a = N * r + n
  BY ModDef
<1> SUFFICES n = m /\ r = q
  OBVIOUS
<1> HIDE DEF r, n
<1>2. N * q \in Int /\ N * r \in Int
  BY <1>1
<1>3. CASE q > r
  <2>1. N * q - N * r >= N
    BY <1>1, <1>3, MultiplesApart
  <2> QED
    BY <2>1, <1>1, <1>2
<1>4. CASE r > q
  <2>1. N * r - N * q >= N
    BY <1>1, <1>4, MultiplesApart
  <2> QED
    BY <2>1, <1>1, <1>2
<1>5. CASE q = r
  BY <1>1, <1>2, <1>5
<1> QED
  BY <1>1, <1>3, <1>4, <1>5

\* A full turn of the ring ends in the same slot.
LEMMA ModTurn ==
    ASSUME NEW N \in Nat \ {0}, NEW a \in Int
    PROVE  (a + N) % N = a % N
<1> DEFINE q == a \div N
           m == a % N
<1>1. q \in Int /\ m \in 0..(N - 1) /\ a = N * q + m
  BY ModDef
<1>2. SUFFICES (a + N) % N = m
  OBVIOUS
<1> HIDE DEF q, m
<1>3. N * (q + 1) = N * q + N
  BY <1>1
<1>4. a + N = N * (q + 1) + m /\ a + N \in Int /\ q + 1 \in Int
  BY <1>1, <1>3
<1> QED
  BY <1>1, <1>4, ModUnique

\* The length of a sequence, and its elements.
LEMMA SeqLen ==
    ASSUME NEW S, NEW s \in Seq(S)
    PROVE  Len(s) \in Nat /\ s \in [1..Len(s) -> S] /\ DOMAIN s = 1..Len(s)
OBVIOUS

\* A sequence with one more element.
LEMMA SeqAppend ==
    ASSUME NEW S, NEW s \in Seq(S), NEW x \in S
    PROVE  /\ Append(s, x) \in Seq(S) /\ Len(Append(s, x)) = Len(s) + 1
           /\ \A i \in 1..Len(s) : Append(s, x)[i] = s[i]
           /\ Append(s, x)[Len(s) + 1] = x
OBVIOUS

-----------------------------------------------------------------------------
(* The users of a source *)

Using == {u \in Users : user[u] \in {"enable", "on"}}

\* the users of the source can be numbered from 1 to n
Numbered(n) ==
    \E f \in [1..n -> Users] : /\ \A i, j \in 1..n : f[i] = f[j] => i = j
                               /\ \A u \in Users : u \in Using <=> \E i \in 1..n : f[i] = u

Quiet == \A u \in Users : user[u] \in {"on", "off"}

IrqType ==
    /\ irq_enabled \in BOOLEAN /\ enabled_types \in Nat /\ hw_enabled \in BOOLEAN
    /\ user \in [Users -> {"off", "enable", "on", "disable"}]
    /\ losses \in [n : Nat, resume : BOOLEAN]

\* The count is the number of users while the interrupt is installed, and the hardware is
\* behind it only while a user or a reset is on its way to set it.
IrqInv ==
    /\ IrqType
    /\ irq_enabled => Numbered(enabled_types)
    /\ ~irq_enabled => enabled_types = 0 /\ ~hw_enabled
    /\ Quiet /\ ~losses.resume => (hw_enabled <=> irq_enabled /\ enabled_types # 0)

\* amdgpu_irq_get counts a user more ...
LEMMA NumberedMore ==
    ASSUME NEW n \in Nat, Numbered(n), NEW u \in Users, u \notin Using,
           \A v \in Users : v \in Using' <=> v = u \/ v \in Using
    PROVE  Numbered(n + 1)'
<1>1. PICK f \in [1..n -> Users] :
        /\ \A i, j \in 1..n : f[i] = f[j] => i = j
        /\ \A v \in Users : v \in Using <=> \E i \in 1..n : f[i] = v
  BY Zenon DEF Numbered
<1>g. PICK g : g = [i \in 1..(n + 1) |-> IF i = n + 1 THEN u ELSE f[i]]
  BY Zenon
<1>2. /\ g \in [1..(n + 1) -> Users] /\ g[n + 1] = u /\ \A i \in 1..n : g[i] = f[i]
      /\ \A i \in 1..(n + 1) : i \in 1..n \/ i = n + 1
  BY <1>g
<1>3. \A i \in 1..n : f[i] # u
  BY <1>1, Zenon
<1>4. ASSUME NEW i \in 1..(n + 1), NEW j \in 1..(n + 1), g[i] = g[j] PROVE i = j
  BY <1>4, <1>1, <1>2, <1>3
<1>5. n + 1 \in 1..(n + 1) /\ 1..n \subseteq 1..(n + 1)
  OBVIOUS
<1>6. \A v \in Users : v \in Using' <=> \E i \in 1..(n + 1) : g[i] = v
  BY <1>1, <1>2, <1>5, Zenon
<1> QED
  BY <1>2, <1>4, <1>6, Zenon DEF Numbered

\* ... and amdgpu_irq_put one less.
LEMMA NumberedLess ==
    ASSUME NEW n \in Nat, Numbered(n), NEW u \in Using,
           \A v \in Users : v \in Using' <=> v # u /\ v \in Using
    PROVE  n # 0 /\ Numbered(n - 1)'
<1>1. PICK f \in [1..n -> Users] :
        /\ \A i, j \in 1..n : f[i] = f[j] => i = j
        /\ \A v \in Users : v \in Using <=> \E i \in 1..n : f[i] = v
  BY Zenon DEF Numbered
<1>2. PICK k \in 1..n : f[k] = u
  BY <1>1, Zenon DEF Using
<1>g. PICK g : g = [i \in 1..(n - 1) |-> IF i = k THEN f[n] ELSE f[i]]
  BY Zenon
<1>3. /\ n # 0 /\ n \in 1..n /\ 1..(n - 1) \subseteq 1..n
      /\ \A i \in 1..n : i \in 1..(n - 1) \/ i = n
      /\ n \notin 1..(n - 1)
  OBVIOUS
<1>4. /\ g \in [1..(n - 1) -> Users]
      /\ \A i \in 1..(n - 1) : g[i] = IF i = k THEN f[n] ELSE f[i]
  BY <1>g, <1>3, Zenon
<1>5. ASSUME NEW i \in 1..(n - 1), NEW j \in 1..(n - 1), g[i] = g[j] PROVE i = j
  BY <1>5, <1>1, <1>3, <1>4
<1>6. ASSUME NEW v \in Users PROVE v \in Using' <=> \E i \in 1..(n - 1) : g[i] = v
  <2>1. ASSUME NEW i \in 1..(n - 1), g[i] = v PROVE v \in Using'
    <3>1. v \in Using /\ v # f[k]
      BY <2>1, <1>1, <1>3, <1>4, ZenonT(60)
    <3> QED
      BY <3>1, <1>2, Zenon
  <2>2. ASSUME v \in Using' PROVE \E i \in 1..(n - 1) : g[i] = v
    <3>1. PICK i \in 1..n : f[i] = v /\ i # k
      BY <2>2, <1>1, <1>2, Zenon
    <3>2. CASE i = n
      BY <3>1, <3>2, <1>3, <1>4, Zenon
    <3>3. CASE i # n
      BY <3>1, <3>3, <1>3, <1>4, Zenon
    <3> QED
      BY <3>2, <3>3, Zenon
  <2> QED
    BY <2>1, <2>2, Zenon
<1> QED
  BY <1>3, <1>4, <1>5, <1>6, Zenon DEF Numbered

\* A step of another part of the driver, or one of a source that leaves users and count alone.
LEMMA NumberedKept ==
    ASSUME IrqInv, UNCHANGED <<enabled_types, irq_enabled>>,
           \A u \in Users : u \in Using' <=> u \in Using
    PROVE  irq_enabled' => Numbered(enabled_types)'
<1>1. PICK n : n = enabled_types
  BY Zenon
<1>2. Numbered(n) => Numbered(n)'
  BY Zenon DEF Numbered
<1> QED
  BY <1>1, <1>2, Zenon DEF IrqInv

\* amdgpu_irq_get
LEMMA IrqGet ==
    ASSUME IrqInv, NEW u \in Users, amdgpu_irq_get(u)
    PROVE  IrqInv'
<1>1. /\ irq_enabled /\ user[u] = "off" /\ enabled_types' = enabled_types + 1
      /\ user' = [user EXCEPT ![u] = IF enabled_types + 1 = 1 THEN "enable" ELSE "on"]
      /\ UNCHANGED <<irq_enabled, hw_enabled, losses>>
  BY Zenon DEF amdgpu_irq_get
<1>2. IrqType /\ Numbered(enabled_types)
      /\ (Quiet /\ ~losses.resume => (hw_enabled <=> irq_enabled /\ enabled_types # 0))
  BY <1>1, Zenon DEF IrqInv
<1>3. PICK n \in Nat : n = enabled_types
  BY <1>2, Zenon DEF IrqType
<1>4. /\ user'[u] = IF n = 0 THEN "enable" ELSE "on"
      /\ \A v \in Users : v # u => user'[v] = user[v]
  BY <1>1, <1>2, <1>3 DEF IrqType
<1>5. IrqType'
  BY <1>1, <1>2 DEF IrqType
<1>6. Numbered(enabled_types)'
  <2>1. u \notin Using /\ \A v \in Users : v \in Using' <=> v = u \/ v \in Using
    BY <1>1, <1>4, Zenon DEF Using
  <2>2. Numbered(n + 1)'
    BY <2>1, <1>2, <1>3, NumberedMore, Zenon
  <2>3. enabled_types' = n + 1
    BY <1>1, <1>3, Zenon
  <2> QED
    BY <2>2, <2>3, Zenon DEF Numbered
<1>7. Quiet' => Quiet /\ n # 0
  BY <1>1, <1>4 DEF Quiet
<1> QED
  BY <1>1, <1>2, <1>3, <1>5, <1>6, <1>7 DEF IrqInv

\* amdgpu_irq_put
LEMMA IrqPut ==
    ASSUME IrqInv, NEW u \in Users, amdgpu_irq_put(u)
    PROVE  IrqInv'
<1>1. /\ irq_enabled /\ user[u] = "on" /\ enabled_types' = enabled_types - 1
      /\ user' = [user EXCEPT ![u] = IF enabled_types - 1 = 0 THEN "disable" ELSE "off"]
      /\ UNCHANGED <<irq_enabled, hw_enabled, losses>>
  BY Zenon DEF amdgpu_irq_put
<1>2. IrqType /\ Numbered(enabled_types)
      /\ (Quiet /\ ~losses.resume => (hw_enabled <=> irq_enabled /\ enabled_types # 0))
  BY <1>1, Zenon DEF IrqInv
<1>3. PICK n \in Nat : n = enabled_types
  BY <1>2 DEF IrqType
<1>4. /\ user'[u] = IF n = 1 THEN "disable" ELSE "off"
      /\ \A v \in Users : v # u => user'[v] = user[v]
  BY <1>1, <1>2, <1>3 DEF IrqType
<1>5. n # 0 /\ Numbered(n - 1)'
  <2>1. u \in Using /\ \A v \in Users : v \in Using' <=> v # u /\ v \in Using
    BY <1>1, <1>4 DEF Using
  <2> QED
    BY <2>1, <1>2, <1>3, NumberedLess, Zenon
<1>6. IrqType'
  BY <1>1, <1>2, <1>3, <1>5 DEF IrqType
<1>7. Numbered(enabled_types)'
  BY <1>1, <1>3, <1>5 DEF Numbered
<1>8. Quiet' => Quiet /\ n # 1
  BY <1>1, <1>4 DEF Quiet
<1> QED
  BY <1>1, <1>2, <1>3, <1>5, <1>6, <1>7, <1>8 DEF IrqInv

\* The steps that set the hardware, and those of the other parts.
LEMMA IrqSet ==
    ASSUME IrqInv,
           \/ \E u \in Users : amdgpu_irq_update(u)
           \/ Lose \/ amdgpu_irq_gpu_reset_resume_helper \/ amdgpu_irq_uninstall
           \/ UNCHANGED irqVars
    PROVE  IrqInv'
<1>0. IrqType
  BY Zenon DEF IrqInv
<1>1. ASSUME NEW u \in Users, amdgpu_irq_update(u) PROVE IrqInv'
  <2>1. /\ user[u] \in {"enable", "disable"} /\ hw_enabled' = (irq_enabled /\ enabled_types # 0)
        /\ user' = [user EXCEPT ![u] = IF user[u] = "enable" THEN "on" ELSE "off"]
        /\ UNCHANGED <<irq_enabled, enabled_types, losses>>
    BY <1>1, Zenon DEF amdgpu_irq_update, amdgpu_irq_enabled
  <2>2. IrqType' /\ \A v \in Users : v \in Using' <=> v \in Using
    BY <1>0, <2>1, Zenon DEF IrqType, Using
  <2>3. irq_enabled' => Numbered(enabled_types)'
    BY <2>1, <2>2, NumberedKept, Zenon
  <2> QED
    BY <2>1, <2>2, <2>3, Zenon DEF IrqInv
<1>2. CASE Lose \/ amdgpu_irq_gpu_reset_resume_helper \/ UNCHANGED irqVars
  <2>1. UNCHANGED <<irq_enabled, enabled_types, user>>
    BY <1>2, Zenon DEF Lose, amdgpu_irq_gpu_reset_resume_helper, irqVars
  <2>2. irq_enabled' => Numbered(enabled_types)'
    BY <2>1, NumberedKept, Zenon DEF Using
  <2>3. CASE Lose
    <3>1. hw_enabled' = FALSE /\ losses' = [n |-> losses.n + 1, resume |-> TRUE]
      BY <2>3, Zenon DEF Lose
    <3>2. IrqType'
      <4>1. losses' \in [n : Nat, resume : BOOLEAN]
        BY <1>0, <3>1 DEF IrqType
      <4> QED
        BY <1>0, <2>1, <3>1, <4>1, Zenon DEF IrqType
    <3> QED
      BY <2>1, <2>2, <3>1, <3>2, Zenon DEF IrqInv
  <2>4. CASE amdgpu_irq_gpu_reset_resume_helper
    <3>1. /\ hw_enabled' = (irq_enabled /\ enabled_types # 0)
          /\ losses' = [losses EXCEPT !.resume = FALSE]
      BY <2>4, Zenon DEF amdgpu_irq_gpu_reset_resume_helper
    <3>2. IrqType'
      BY <1>0, <2>1, <3>1, Zenon DEF IrqType
    <3> QED
      BY <2>1, <2>2, <3>1, <3>2, Zenon DEF IrqInv
  <2>5. CASE UNCHANGED irqVars
    <3>1. IrqType' /\ Quiet' = Quiet /\ UNCHANGED <<hw_enabled, losses>>
      BY <1>0, <2>5, Zenon DEF IrqType, Quiet, irqVars
    <3> QED
      BY <2>1, <2>2, <3>1, Zenon DEF IrqInv
  <2> QED
    BY <1>2, <2>3, <2>4, <2>5, Zenon
<1>3. CASE amdgpu_irq_uninstall
  BY <1>0, <1>3, Zenon DEF IrqInv, IrqType, amdgpu_irq_uninstall
<1> QED
  BY <1>1, <1>2, <1>3, Zenon

\* The sources: what the users want and what the hardware does stay in step.
LEMMA IrqStep == IrqInv /\ [Next]_vars => IrqInv'
<1> SUFFICES ASSUME IrqInv, [Next]_vars PROVE IrqInv'
  BY Zenon
<1>1. IrqNext \/ UNCHANGED irqVars
  BY Zenon DEF Next, Sources, Send, Handler, KfdWork, KfdExit, vars
<1>2. IrqNext <=> \/ \E u \in Users : amdgpu_irq_get(u) \/ amdgpu_irq_put(u)
                  \/ \E u \in Users : amdgpu_irq_update(u)
                  \/ Lose \/ amdgpu_irq_gpu_reset_resume_helper \/ amdgpu_irq_uninstall
  BY Zenon DEF IrqNext
<1> QED
  BY <1>1, <1>2, IrqGet, IrqPut, IrqSet, Zenon

\* The interrupt is enabled in the hardware exactly if it is installed and somebody uses it, as
\* soon as no amdgpu_irq_update and no reset is on its way, for any number of users.
THEOREM EnabledExactHolds == Spec => []EnabledExact
<1>1. Init => IrqInv
  <2> SUFFICES ASSUME IrqInit PROVE IrqInv
    BY Zenon DEF Init
  <2>1. IrqType /\ enabled_types = 0
    BY Zenon DEF IrqInit, IrqType
  <2>2. Numbered(0)
    <3>1. \A u \in Users : u \notin Using
      BY Zenon DEF IrqInit, Using
    <3>2. [i \in 1..0 |-> i] \in [1..0 -> Users] /\ ~\E i \in 1..0 : TRUE
      OBVIOUS
    <3> QED
      BY <3>1, <3>2, Zenon DEF Numbered
  <2> QED
    BY <2>1, <2>2, Zenon DEF IrqInit, IrqInv
<1>2. IrqInv => EnabledExact
  <2> SUFFICES ASSUME IrqInv, Quiet, ~losses.resume, irq_enabled
               PROVE  enabled_types # 0 <=> \E u \in Users : user[u] = "on"
    BY Zenon DEF EnabledExact, IrqInv, Quiet
  <2>1. PICK f \in [1..enabled_types -> Users] :
          \A u \in Users : u \in Using <=> \E i \in 1..enabled_types : f[i] = u
    BY Zenon DEF IrqInv, Numbered
  <2>2. \A u \in Users : u \in Using <=> user[u] = "on"
    BY Zenon DEF Using, Quiet
  <2>3. enabled_types # 0 => f[1] \in Users /\ 1 \in 1..enabled_types
    BY DEF IrqInv, IrqType
  <2>4. (\E i \in 1..enabled_types : TRUE) => enabled_types # 0
    OBVIOUS
  <2> QED
    BY <2>1, <2>2, <2>3, <2>4, Zenon
<1> QED
  BY <1>1, <1>2, IrqStep, PTL DEF Spec

-----------------------------------------------------------------------------
(* The ring of the GPU *)

\* While the ring has not overflowed, the vectors from the one the GPU has been told of to the
\* newest are all in the ring, and the handler is between them.
IhInv ==
    /\ written \in Nat /\ overflow \in BOOLEAN /\ lapped \in BOOLEAN
    /\ ih \in [rptr : Int, wptr : Int, at : {"no", "loop", "dispatch", "again"}]
    /\ ~lapped =>
        /\ ~overflow /\ seen \in Nat /\ seen <= written /\ ih.rptr = Ptr(seen)
        /\ \E t \in Nat : told = Ptr(t) /\ t <= seen /\ written < t + RingVectors
        /\ ih.at \in {"loop", "dispatch"} =>
             \E w \in Nat : ih.wptr = Ptr(w) /\ seen <= w /\ w <= written
        /\ ih.at = "dispatch" => ih.rptr # ih.wptr

\* The pointers into the ring: a step further, and a full turn.
LEMMA PtrFacts ==
    ASSUME NEW n \in Nat
    PROVE  Ptr(n) \in Int /\ Ptr(Ptr(n) + 1) = Ptr(n + 1) /\ Ptr(n + RingVectors) = Ptr(n)
<1> DEFINE m == n % RingVectors
           q == n \div RingVectors
           k == (m + 1) % RingVectors
           r == (m + 1) \div RingVectors
<1>0. RingVectors \in Nat \ {0} /\ n \in Int
  BY IhAssumption
<1>1. m \in 0..(RingVectors - 1) /\ q \in Int /\ n = RingVectors * q + m
  BY <1>0, ModDef, Zenon
<1>2. k \in 0..(RingVectors - 1) /\ r \in Int /\ m + 1 = RingVectors * r + k
  BY <1>0, <1>1, ModDef
<1>3. (n + RingVectors) % RingVectors = m
  BY <1>0, ModTurn, Zenon
<1> HIDE DEF m, q, k, r
<1>4. RingVectors * (q + r) = RingVectors * q + RingVectors * r
  BY <1>0, <1>1, <1>2
<1>5. n + 1 = RingVectors * (q + r) + k
  BY <1>0, <1>1, <1>2, <1>4
<1>6. (n + 1) % RingVectors = k
  BY <1>0, <1>1, <1>2, <1>5, ModUnique
<1> QED
  BY <1>1, <1>3, <1>6 DEF Ptr, m, k

\* The slot at the read pointer holds the vector after the one dispatched last.
LEMMA VectorAt ==
    ASSUME written \in Nat, NEW n \in Nat, n < written, written < n + RingVectors
    PROVE  Vector(Ptr(n)) = n + 1
<1> DEFINE S == (written - RingVectors + 1)..written
<1>0. RingVectors \in Nat \ {0}
  BY IhAssumption, Zenon
<1>1. n + 1 \in S /\ Ptr(n + 1 - 1) = Ptr(n)
  BY <1>0
<1>2. ASSUME NEW v \in S, Ptr(v - 1) = Ptr(n) PROVE v = n + 1
  <2>1. v - 1 \in Int /\ n \in Int /\ v - 1 - n < RingVectors /\ n - (v - 1) < RingVectors
    BY <1>0
  <2>2. v - 1 = n
    BY <1>0, <1>2, <2>1, ModSame, Zenon DEF Ptr
  <2> QED
    BY <2>1, <2>2
<1>3. \E v \in S : Ptr(v - 1) = Ptr(n)
  BY <1>1
<1>4. Vector(Ptr(n)) \in S /\ Ptr(Vector(Ptr(n)) - 1) = Ptr(n)
  BY <1>3, Zenon DEF Vector
<1> QED
  BY <1>2, <1>4, Zenon

\* The GPU writes a vector.
LEMMA IhRaise ==
    ASSUME IhInv, Raise
    PROVE  IhInv'
<1>1. /\ written' = written + 1 /\ overflow' = (overflow \/ Ptr(written + 1) = told)
      /\ lapped' = (lapped \/ overflow') /\ UNCHANGED <<told, ih, seen>>
  BY Zenon DEF Raise
<1>2. /\ written \in Nat /\ overflow \in BOOLEAN /\ lapped \in BOOLEAN
      /\ written' \in Nat /\ overflow' \in BOOLEAN /\ lapped' \in BOOLEAN
  BY <1>1 DEF IhInv
<1>3. ASSUME ~lapped' PROVE \E t \in Nat : told = Ptr(t) /\ t <= seen /\ written' < t + RingVectors
  <2>1. ~lapped /\ Ptr(written + 1) # told
    BY <1>1, <1>2, <1>3, Zenon
  <2>2. PICK t \in Nat : told = Ptr(t) /\ t <= seen /\ written < t + RingVectors
    BY <2>1, Zenon DEF IhInv
  <2>3. t + RingVectors # written + 1
    BY <2>1, <2>2, PtrFacts, Zenon
  <2>4. written + 1 < t + RingVectors
    BY <1>2, <2>2, <2>3, IhAssumption
  <2> QED
    BY <1>1, <2>2, <2>4, Zenon
<1>4. ASSUME ~lapped', ih.at \in {"loop", "dispatch"}
      PROVE  \E w \in Nat : ih.wptr = Ptr(w) /\ seen <= w /\ w <= written'
  <2>1. PICK w \in Nat : ih.wptr = Ptr(w) /\ seen <= w /\ w <= written
    BY <1>1, <1>4, Zenon DEF IhInv
  <2>2. w <= written'
    BY <1>1, <1>2, <2>1
  <2> QED
    BY <2>1, <2>2, Zenon
<1>5. ~lapped' => ~lapped /\ ~overflow' /\ seen \in Nat /\ seen <= written'
  BY <1>1, <1>2 DEF IhInv
<1> QED
  BY <1>1, <1>2, <1>3, <1>4, <1>5, Zenon DEF IhInv

\* The handler dispatches the vector at its read pointer: the next one, unless the ring has
\* overflowed.
LEMMA IhDispatch ==
    ASSUME IhInv, Dispatch
    PROVE  IhInv' /\ (~lapped => seen' = seen + 1)
<1>1. /\ ih.at = "dispatch" /\ seen' = Vector(ih.rptr)
      /\ ih' = [rptr |-> Ptr(ih.rptr + 1), wptr |-> ih.wptr, at |-> "loop"]
      /\ UNCHANGED <<written, overflow, told, lapped>>
  BY Zenon DEF Dispatch, IhInv
<1>2. /\ written \in Nat /\ overflow \in BOOLEAN /\ lapped \in BOOLEAN
      /\ ih.rptr \in Int /\ ih.wptr \in Int
  BY Zenon DEF IhInv
<1>3. ih' \in [rptr : Int, wptr : Int, at : {"no", "loop", "dispatch", "again"}]
  <2>1. Ptr(ih.rptr + 1) \in Int
    BY <1>2, IhAssumption, ModDef, SMTT(60) DEF Ptr
  <2> QED
    BY <2>1, <1>1, <1>2, Zenon
<1>4. ASSUME ~lapped
      PROVE  /\ seen' = seen + 1 /\ seen \in Nat /\ ih'.rptr = Ptr(seen + 1) /\ ~overflow
             /\ \E t \in Nat : told = Ptr(t) /\ t <= seen + 1 /\ written < t + RingVectors
             /\ \E w \in Nat : ih.wptr = Ptr(w) /\ seen + 1 <= w /\ w <= written
  <2>1. /\ ~overflow /\ seen \in Nat /\ ih.rptr = Ptr(seen) /\ ih.rptr # ih.wptr
    BY <1>1, <1>4, Zenon DEF IhInv
  <2>2. PICK t \in Nat : told = Ptr(t) /\ t <= seen /\ written < t + RingVectors
    BY <1>4, Zenon DEF IhInv
  <2>3. PICK w \in Nat : ih.wptr = Ptr(w) /\ seen <= w /\ w <= written
    BY <1>1, <1>4, Zenon DEF IhInv
  <2>4. seen + 1 <= w /\ seen < written /\ written < seen + RingVectors
    BY <2>1, <2>2, <2>3, <1>2, IhAssumption
  <2>5. seen' = seen + 1
    BY <1>1, <1>2, <2>1, <2>4, VectorAt, Zenon
  <2>6. ih'.rptr = Ptr(seen + 1)
    BY <1>1, <2>1, PtrFacts, Zenon
  <2> QED
    BY <2>1, <2>2, <2>3, <2>4, <2>5, <2>6
<1>5. ~lapped => seen' <= written'
  BY <1>1, <1>2, <1>4
<1> QED
  BY <1>1, <1>2, <1>3, <1>4, <1>5 DEF IhInv

\* The other steps of the handler move between the vectors.
LEMMA IhMove ==
    ASSUME IhInv, Enter \/ Forward \/ Tell \/ Again \/ UNCHANGED ihVars
    PROVE  IhInv' /\ seen' = seen
<1>0. /\ written \in Nat /\ overflow \in BOOLEAN /\ lapped \in BOOLEAN
      /\ ih \in [rptr : Int, wptr : Int, at : {"no", "loop", "dispatch", "again"}]
  BY Zenon DEF IhInv
<1>1. CASE Enter \/ Again
  <2>1. PICK next \in {"loop", "no"} :
          /\ ih' = [rptr |-> RptrAfterGet, wptr |-> Ptr(written), at |-> next]
          /\ overflow' = FALSE /\ UNCHANGED <<written, told, seen, lapped>>
    BY <1>1, Zenon DEF Enter, Again, amdgpu_ih_get_wptr
  <2>2. Ptr(written) \in Int /\ Ptr(written + 1) \in Int
    BY <1>0, PtrFacts
  <2>3. RptrAfterGet \in Int /\ (~overflow => RptrAfterGet = ih.rptr)
    BY <1>0, <2>2, Zenon DEF RptrAfterGet
  <2>4. /\ ih' \in [rptr : Int, wptr : Int, at : {"no", "loop", "dispatch", "again"}]
        /\ ih'.rptr = RptrAfterGet /\ ih'.wptr = Ptr(written) /\ ih'.at # "dispatch"
    BY <2>1, <2>2, <2>3, Zenon
  <2>5. ~lapped => seen \in Nat /\ seen <= written
    BY Zenon DEF IhInv
  <2>6. ~lapped => \E w \in Nat : ih'.wptr = Ptr(w) /\ seen <= w /\ w <= written
    BY <1>0, <2>4, <2>5
  <2> QED
    BY <1>0, <2>1, <2>3, <2>4, <2>6, Zenon DEF IhInv
<1>2. CASE Forward
  <2>1. /\ ih.at = "loop" /\ ih.rptr # ih.wptr
        /\ ih' = [rptr |-> ih.rptr, wptr |-> ih.wptr, at |-> "dispatch"]
        /\ UNCHANGED <<written, overflow, told, seen, lapped>>
    BY <1>0, <1>2, Zenon DEF Forward
  <2> QED
    BY <1>0, <2>1, Zenon DEF IhInv
<1>3. CASE Tell
  <2>1. /\ ih.at = "loop" /\ told' = ih.rptr
        /\ ih' = [rptr |-> ih.rptr, wptr |-> ih.wptr, at |-> "again"]
        /\ UNCHANGED <<written, overflow, seen, lapped>>
    BY <1>0, <1>3, Zenon DEF Tell
  <2>2. ASSUME ~lapped
        PROVE  \E t \in Nat : told' = Ptr(t) /\ t <= seen /\ written < t + RingVectors
    <3>1. PICK t \in Nat : told = Ptr(t) /\ t <= seen /\ written < t + RingVectors
      BY <2>2, Zenon DEF IhInv
    <3>2. seen \in Nat /\ told' = Ptr(seen)
      BY <2>1, <2>2, Zenon DEF IhInv
    <3>3. seen <= seen /\ written < seen + RingVectors
      BY <1>0, <3>1, <3>2, IhAssumption
    <3> QED
      BY <3>2, <3>3, Zenon
  <2> QED
    BY <1>0, <2>1, <2>2, Zenon DEF IhInv
<1>4. CASE UNCHANGED ihVars
  BY <1>4, Zenon DEF IhInv, ihVars
<1> QED
  BY <1>1, <1>2, <1>3, <1>4, Zenon

\* A step of the driver is one of the GPU's ring, or leaves it alone.
LEMMA IhStep ==
    ASSUME IhInv, [Next]_vars
    PROVE  IhInv' /\ (seen' # seen => seen' = seen + 1 \/ lapped)
<1>1. \/ Raise \/ Dispatch
      \/ Enter \/ Forward \/ Tell \/ Again \/ UNCHANGED ihVars
  BY Zenon DEF Next, Sources, Send, Handler, ForwardToKfd, DispatchNext, KfdWork, KfdExit, vars
<1>2. CASE Raise
  BY <1>2, IhRaise, Zenon DEF Raise
<1> QED
  BY <1>1, <1>2, IhDispatch, IhMove, Zenon

\* As long as the ring of the GPU has not overflowed, amdgpu_ih_process dispatches every vector
\* once and in order, for any size of the ring.
THEOREM InOrderHolds == Spec => InOrder
<1>1. Init => IhInv
  <2>1. ASSUME IhInit PROVE IhInv
    <3>1. Ptr(0) = 0
      <4>1. 0 = RingVectors * 0 + 0
        BY IhAssumption
      <4> QED
        BY <4>1, IhAssumption, ModUnique DEF Ptr
    <3>2. \E t \in Nat : told = Ptr(t) /\ t <= seen /\ written < t + RingVectors
      <4>1. told = 0 /\ seen = 0 /\ written = 0
        BY <2>1, Zenon DEF IhInit
      <4> QED
        BY <3>1, <4>1, IhAssumption
    <3>3. /\ written \in Nat /\ overflow = FALSE /\ lapped = FALSE
          /\ ih \in [rptr : Int, wptr : Int, at : {"no", "loop", "dispatch", "again"}]
          /\ seen \in Nat /\ seen <= written /\ ih.at = "no" /\ ih.rptr = Ptr(seen)
      BY <2>1, <3>1 DEF IhInit
    <3> QED
      BY <3>2, <3>3, Zenon DEF IhInv
  <2> QED
    BY <2>1, Zenon DEF Init
<1>2. IhInv /\ [Next]_vars => IhInv'
  BY IhStep, Zenon
<1>3. IhInv /\ [Next]_vars => [seen' # seen => seen' = seen + 1 \/ lapped]_ihVars
  BY IhStep, Zenon
<1> QED
  BY <1>1, <1>2, <1>3, PTL DEF Spec, InOrder

-----------------------------------------------------------------------------
(* The ring of amdkfd is freed *)

\* kfd_interrupt_exit has cleared interrupts_active under the lock of the handler before it
\* waits for the work item.
ExitInv ==
    /\ exiting \in {"no", "flush", "done"}
    /\ active = (exiting = "no") /\ freed = (exiting = "done")
    /\ ~active => isr.at = "no"
    /\ freed => work.at = "no" /\ ~queued

\* A step of the driver is one of amdkfd's ring, or leaves it alone.
LEMMA KfdSteps ==
    ASSUME [Next]_vars
    PROVE  \/ Interrupt \/ CopyIn \/ Publish \/ Schedule
           \/ WorkStart \/ Check \/ WorkReturn \/ CopyOut \/ Advance
           \/ ExitStop \/ ExitFree \/ UNCHANGED kfdVars
BY Zenon DEF Next, Sources, Send, Handler, ForwardToKfd, DispatchNext, KfdWork, KfdExit, vars,
             Isr, Work, Exit

\* The handler keeps out once it meets interrupts_active false, and the work item ends.
LEMMA ExitStep ==
    ASSUME ExitInv, [Next]_vars
    PROVE  ExitInv'
<1>0. /\ exiting \in {"no", "flush", "done"} /\ active = (exiting = "no") /\ freed = (exiting = "done")
      /\ (~active => isr.at = "no") /\ (freed => work.at = "no" /\ ~queued)
  BY Zenon DEF ExitInv
<1>1. CASE Interrupt
  BY <1>0, <1>1, Zenon DEF ExitInv, Interrupt
<1>2. CASE CopyIn \/ Publish
  BY <1>0, <1>2 DEF ExitInv, CopyIn, Publish
<1>3. CASE Schedule
  BY <1>0, <1>3, Zenon DEF ExitInv, Schedule, NoIsr
<1>4. CASE WorkStart \/ Check \/ WorkReturn \/ CopyOut \/ Advance
  BY <1>0, <1>4, Zenon DEF ExitInv, WorkStart, Check, WorkReturn, CopyOut, Advance
<1>5. CASE ExitStop
  BY <1>0, <1>5, Zenon DEF ExitInv, ExitStop, LockFree
<1>6. CASE ExitFree
  BY <1>0, <1>6, Zenon DEF ExitInv, ExitFree
<1>7. CASE UNCHANGED kfdVars
  BY <1>0, <1>7, Zenon DEF ExitInv, kfdVars
<1> QED
  BY <1>1, <1>2, <1>3, <1>4, <1>5, <1>6, <1>7, KfdSteps, Zenon

\* After kfd_interrupt_exit has freed the ring, neither the interrupt handler nor the work item
\* is in it or will be.
THEOREM NoUseAfterFreeHolds == Spec => []NoUseAfterFree
<1>1. Init => ExitInv
  BY Zenon DEF Init, KfdInit, ExitInv, NoIsr, NoWork
<1>2. ExitInv => NoUseAfterFree
  BY Zenon DEF ExitInv, NoUseAfterFree
<1>3. ExitInv /\ [Next]_vars => ExitInv'
  BY ExitStep
<1> QED
  BY <1>1, <1>2, <1>3, PTL DEF Spec

-----------------------------------------------------------------------------
(* The arithmetic of amdkfd's ring *)

\* a pointer at an entry of the ring
PtrOk(p) == Slot(p) \in Slots /\ p = EntrySize * Slot(p)

\* the slot after s, the entries from slot r to slot w, and the k-th slot from r, with at most
\* one turn each
SlotAfter(s) == IF s = NumEntries - 1 THEN 0 ELSE s + 1
Dist(r, w)   == IF w >= r THEN w - r ELSE w - r + NumEntries
Place(r, k)  == IF r + k - 1 < NumEntries THEN r + k - 1 ELSE r + k - 1 - NumEntries

\* The ring's size divides the range of a word.
LEMMA RingFacts ==
    /\ EntrySize \in Nat \ {0} /\ NumEntries \in Nat \ {0, 1} /\ RingSize \in Nat \ {0}
    /\ WordSize \in Nat \ {0} /\ \E m \in Nat \ {0} : WordSize = RingSize * m
<1>1. /\ EntrySize \in Nat \ {0} /\ NumEntries \in Nat \ {0, 1} /\ WordSize \in Nat \ {0}
      /\ WordSize % RingSize = 0
  BY RingAssumption, Zenon DEF RingSize
<1>2. RingSize \in Nat \ {0}
  BY <1>1 DEF RingSize
<1> DEFINE m == WordSize \div RingSize
<1>3. m \in Int /\ WordSize = RingSize * m + 0
  BY <1>1, <1>2, ModDef
<1> HIDE DEF m
<1>4. m \in Nat \ {0}
  <2>1. m <= 0 => RingSize * m <= 0
    BY <1>2, <1>3
  <2>2. RingSize * m \in Int
    BY <1>2, <1>3
  <2> QED
    BY <1>1, <1>3, <2>1, <2>2
<1>5. WordSize = RingSize * m
  BY <1>2, <1>3
<1> QED
  BY <1>1, <1>2, <1>4, <1>5, Zenon

\* The offset of a slot lies in the ring, below the last entry, and leads back to the slot.
LEMMA SlotOffset ==
    ASSUME NEW s \in Slots
    PROVE  /\ EntrySize * s \in Nat /\ EntrySize * s <= RingSize - EntrySize
           /\ Slot(EntrySize * s) = s /\ PtrOk(EntrySize * s)
<1>1. EntrySize \in Nat \ {0} /\ NumEntries \in Nat /\ s \in Nat /\ s <= NumEntries - 1
  BY RingFacts DEF Slots
<1>2. EntrySize * s \in Nat
  BY <1>1
<1>3. EntrySize * s <= EntrySize * (NumEntries - 1)
  BY <1>1
<1>4. EntrySize * (NumEntries - 1) = RingSize - EntrySize
  BY <1>1 DEF RingSize
<1>5. Slot(EntrySize * s) = s
  <2>1. EntrySize * s = EntrySize * s + 0 /\ 0 \in 0..(EntrySize - 1)
    BY <1>1, <1>2
  <2> QED
    BY <1>1, <1>2, <2>1, ModUnique DEF Slot
<1>6. RingSize \in Nat /\ EntrySize * (NumEntries - 1) \in Int
  BY <1>1 DEF RingSize
<1> QED
  BY <1>2, <1>3, <1>4, <1>5, <1>6, Zenon DEF PtrOk

\* The pointers move to the next slot, from the last one to the first.
LEMMA ForthSlot ==
    ASSUME NEW p, PtrOk(p)
    PROVE  PtrOk(Forth(p)) /\ Slot(Forth(p)) = SlotAfter(Slot(p))
<1>1. PICK s \in Slots : s = Slot(p) /\ p = EntrySize * s
  BY Zenon DEF PtrOk
<1>2. EntrySize \in Nat \ {0} /\ NumEntries \in Nat \ {0} /\ RingSize \in Nat \ {0} /\ s \in Nat
  BY RingFacts DEF Slots
<1>3. CASE s = NumEntries - 1
  <2>1. p + EntrySize = RingSize * 1 + 0 /\ p + EntrySize \in Int /\ 0 \in 0..(RingSize - 1)
    BY <1>1, <1>2, <1>3 DEF RingSize
  <2>2. Forth(p) = 0
    BY <1>2, <2>1, ModUnique DEF Forth
  <2>3. EntrySize * 0 = 0 /\ 0 \in Slots
    BY <1>2 DEF Slots
  <2> QED
    BY <1>1, <1>3, <2>2, <2>3, SlotOffset, Zenon DEF SlotAfter
<1>4. CASE s # NumEntries - 1
  <2>1. s + 1 \in Slots
    BY <1>2, <1>4 DEF Slots
  <2>2. p + EntrySize = EntrySize * (s + 1)
    BY <1>1, <1>2
  <2>3. p + EntrySize \in 0..(RingSize - 1)
    BY <1>2, <2>1, <2>2, SlotOffset
  <2>4. p + EntrySize = RingSize * 0 + (p + EntrySize)
    BY <1>2, <2>3
  <2>5. Forth(p) = p + EntrySize
    BY <1>2, <2>3, <2>4, ModUnique DEF Forth
  <2> QED
    BY <1>1, <1>4, <2>1, <2>2, <2>5, SlotOffset, Zenon DEF SlotAfter
<1> QED
  BY <1>3, <1>4, Zenon

\* The difference of two pointers, as an unsigned word, is the way from one to the other.
LEMMA WordDifference ==
    ASSUME NEW b \in Slots, NEW a \in Slots
    PROVE  \E j \in Nat :
             (EntrySize * a - EntrySize * b) % WordSize = EntrySize * Dist(b, a) + RingSize * j
<1>1. PICK m \in Nat \ {0} : WordSize = RingSize * m
  BY RingFacts, Zenon
<1>2. /\ EntrySize \in Nat \ {0} /\ NumEntries \in Nat \ {0} /\ RingSize \in Nat \ {0}
      /\ WordSize \in Nat \ {0} /\ a \in Nat /\ b \in Nat /\ Dist(b, a) \in Slots
  BY RingFacts DEF Slots, Dist
<1>e. PICK e \in Slots : e = Dist(b, a)
  BY <1>2, Zenon
<1>x. PICK x \in Int : x = EntrySize * a - EntrySize * b
  BY <1>2
<1>3. EntrySize * e \in 0..(RingSize - 1)
  BY <1>2, SlotOffset
<1>4. RingSize <= WordSize
  BY <1>1, <1>2
<1>5. CASE a >= b
  <2>1. x = EntrySize * e
    BY <1>e, <1>x, <1>2, <1>5 DEF Dist
  <2>2. x = WordSize * 0 + x /\ x \in 0..(WordSize - 1)
    BY <1>2, <1>3, <1>4, <2>1
  <2>3. x % WordSize = x
    BY <1>2, <2>2, ModUnique
  <2>4. x = EntrySize * e + RingSize * 0
    BY <1>2, <1>3, <2>1
  <2> QED
    BY <1>e, <1>x, <2>3, <2>4, Zenon
<1>6. CASE a < b
  <2>1. x = EntrySize * e - RingSize
    <3>1. e = a - b + NumEntries
      BY <1>e, <1>2, <1>6 DEF Dist
    <3>2. EntrySize * (a - b + NumEntries) = EntrySize * a - EntrySize * b + NumEntries * EntrySize
      BY <1>2
    <3>3. NumEntries * EntrySize \in Int /\ EntrySize * a \in Int /\ EntrySize * b \in Int
      BY <1>2
    <3> QED
      BY <3>1, <3>2, <3>3, <1>x DEF RingSize
  <2>y. PICK y \in 0..(WordSize - 1) : y = x + WordSize
    BY <1>2, <1>3, <1>4, <2>1
  <2>q. PICK q \in Int : q = -1
    OBVIOUS
  <2>2. x = WordSize * q + y
    BY <1>2, <2>y, <2>q
  <2>4. x % WordSize = x + WordSize
    BY <1>2, <2>2, <2>y, ModUnique, Zenon
  <2>5. RingSize * (m - 1) = WordSize - RingSize /\ m - 1 \in Nat
    BY <1>1, <1>2
  <2>6. x + WordSize = EntrySize * e + RingSize * (m - 1)
    BY <1>2, <1>3, <2>1, <2>5
  <2> QED
    BY <1>e, <1>x, <2>4, <2>5, <2>6, Zenon
<1> QED
  BY <1>2, <1>5, <1>6

\* The number of entries between the pointers, and when the ring counts as full.
LEMMA EntriesBetween ==
    ASSUME NEW r, NEW w, PtrOk(r), PtrOk(w)
    PROVE  /\ ((w - r) % WordSize) \div EntrySize % NumEntries = Dist(Slot(r), Slot(w))
           /\ Full(r, w) <=> Dist(Slot(r), Slot(w)) = NumEntries - 1
<1>1. PICK b \in Slots : b = Slot(r) /\ r = EntrySize * b
  BY Zenon DEF PtrOk
<1>2. PICK a \in Slots : a = Slot(w) /\ w = EntrySize * a
  BY Zenon DEF PtrOk
<1>3. /\ EntrySize \in Nat \ {0} /\ NumEntries \in Nat \ {0} /\ RingSize \in Nat \ {0}
      /\ a \in 0..(NumEntries - 1) /\ b \in 0..(NumEntries - 1)
  BY RingFacts, Zenon DEF Slots
<1>4. ((w - r) % WordSize) \div EntrySize % NumEntries = Dist(b, a)
  <2>e. PICK e : e = Dist(b, a)
    BY Zenon
  <2>1. e \in 0..(NumEntries - 1)
    BY <1>3, <2>e DEF Dist
  <2>2. PICK j \in Nat : (w - r) % WordSize = EntrySize * e + RingSize * j
    <3>1. w - r = EntrySize * a - EntrySize * b
      BY <1>1, <1>2, Zenon
    <3>2. \E j \in Nat :
            (EntrySize * a - EntrySize * b) % WordSize = EntrySize * Dist(b, a) + RingSize * j
      BY WordDifference, Zenon
    <3> QED
      BY <3>1, <2>e, <3>2, Zenon
  <2>n. PICK n \in Nat : n = e + NumEntries * j
    BY <1>3, <2>1
  <2>3. RingSize * j = EntrySize * (NumEntries * j)
    BY <1>3 DEF RingSize
  <2>4. EntrySize * e + EntrySize * (NumEntries * j) = EntrySize * n
    BY <1>3, <2>1, <2>n
  <2>5. EntrySize * n \in Int /\ EntrySize * n = EntrySize * n + 0 /\ 0 \in 0..(EntrySize - 1)
    BY <1>3
  <2>6. (EntrySize * n) \div EntrySize = n
    BY <1>3, <2>5, ModUnique
  <2>7. n = NumEntries * j + e /\ NumEntries * j \in Int
    BY <1>3, <2>1, <2>n
  <2>8. n % NumEntries = e
    BY <1>3, <2>1, <2>7, ModUnique
  <2> QED
    BY <2>e, <2>2, <2>3, <2>4, <2>6, <2>8, Zenon
<1>5. Full(r, w) <=> Dist(a, b) = 1
  <2>e. PICK e : e = Dist(a, b)
    BY Zenon
  <2>1. e \in Slots
    BY <1>3, <2>e DEF Dist, Slots
  <2>2. PICK j \in Nat : (r - w) % WordSize = EntrySize * e + RingSize * j
    <3>1. r - w = EntrySize * b - EntrySize * a
      BY <1>1, <1>2, Zenon
    <3>2. \E j \in Nat :
            (EntrySize * b - EntrySize * a) % WordSize = EntrySize * Dist(a, b) + RingSize * j
      BY WordDifference, Zenon
    <3> QED
      BY <3>1, <2>e, <3>2, Zenon
  <2>x. PICK x : x = EntrySize * e
    BY Zenon
  <2>3. x \in 0..(RingSize - 1)
    BY <1>3, <2>1, <2>x, SlotOffset
  <2>4. x + RingSize * j \in Int /\ x + RingSize * j = RingSize * j + x
    BY <1>3, <2>3
  <2>5. (x + RingSize * j) % RingSize = x
    BY <1>3, <2>3, <2>4, ModUnique
  <2>6. EntrySize * e = EntrySize <=> e = 1
    BY <1>3, <2>1 DEF Slots
  <2> QED
    BY <2>e, <2>2, <2>x, <2>5, <2>6, Zenon DEF Full
<1>6. Dist(a, b) = 1 <=> Dist(b, a) = NumEntries - 1
  BY <1>3, RingFacts DEF Dist
<1> QED
  BY <1>1, <1>2, <1>4, <1>5, <1>6, Zenon

\* The slot of the k-th entry.
LEMMA PlaceOf ==
    ASSUME NEW s \in Slots, NEW k \in 1..NumEntries
    PROVE  (s + k - 1) % NumEntries = Place(s, k) /\ Place(s, k) \in Slots
<1>1. NumEntries \in Nat \ {0} /\ s \in Nat /\ s < NumEntries /\ k \in Nat
  BY RingFacts DEF Slots
<1>2. Place(s, k) \in 0..(NumEntries - 1)
  BY <1>1 DEF Place
<1>3. \/ s + k - 1 = NumEntries * 0 + Place(s, k) \/ s + k - 1 = NumEntries * 1 + Place(s, k)
  BY <1>1 DEF Place
<1>4. s + k - 1 \in Int /\ 0 \in Int /\ 1 \in Int
  BY <1>1
<1>5. (s + k - 1) % NumEntries = Place(s, k)
  BY <1>1, <1>2, <1>3, <1>4, ModUnique, Zenon
<1> QED
  BY <1>2, <1>5, Zenon DEF Slots

\* The entries between the pointers, in these terms.
PendingIs ==
    Pending = [k \in 1..Dist(Slot(rptr), Slot(wptr)) |-> ring[Place(Slot(rptr), k)]]

\* The queue of the ring, in this state and in the next.
LEMMA PendingNow ==
    /\ PtrOk(rptr) /\ PtrOk(wptr) => PendingIs
    /\ (PtrOk(rptr) /\ PtrOk(wptr) => PendingIs)'
<1>1. PtrOk(rptr) /\ PtrOk(wptr) => PendingIs
  <2> SUFFICES ASSUME PtrOk(rptr), PtrOk(wptr) PROVE PendingIs
    BY Zenon
  <2> DEFINE n == ((wptr - rptr) % WordSize) \div EntrySize % NumEntries
  <2>1. n = Dist(Slot(rptr), Slot(wptr))
    BY EntriesBetween, Zenon
  <2> HIDE DEF n
  <2>2. Slot(rptr) \in Slots /\ 1..n \subseteq 1..NumEntries
    <3>1. Slot(rptr) \in Slots /\ Slot(wptr) \in Slots /\ NumEntries \in Nat
      BY RingFacts, Zenon DEF PtrOk
    <3> QED
      BY <2>1, <3>1 DEF Dist, Slots
  <2>3. \A k \in 1..n : (Slot(rptr) + k - 1) % NumEntries = Place(Slot(rptr), k)
    BY <2>2, PlaceOf, Zenon
  <2>4. Pending = [k \in 1..n |-> ring[(Slot(rptr) + k - 1) % NumEntries]]
    BY Zenon DEF Pending, n
  <2>5. Pending = [k \in 1..n |-> ring[Place(Slot(rptr), k)]]
    BY <2>3, <2>4, Zenon
  <2> QED
    BY <2>1, <2>5, Zenon DEF PendingIs
<1>2. (PtrOk(rptr) /\ PtrOk(wptr) => PendingIs)'
  BY <1>1, PTL
<1> QED
  BY <1>1, <1>2, Zenon

-----------------------------------------------------------------------------
(* amdkfd's ring is a queue *)

\* A queue whose entries are those of a shorter one and one more at the end ...
LEMMA FunAppend ==
    ASSUME NEW n \in Nat, NEW f \in [1..(n + 1) -> Int], NEW g \in [1..n -> Int],
           \A k \in 1..n : g[k] = f[k]
    PROVE  f = Append(g, f[n + 1])
<1>1. g \in Seq(Int) /\ Len(g) = n
  OBVIOUS
<1>a. PICK a : a = Append(g, f[n + 1])
  BY Zenon
<1>2. /\ a \in Seq(Int) /\ Len(a) = n + 1
      /\ \A k \in 1..n : a[k] = g[k]
      /\ a[n + 1] = f[n + 1]
  BY <1>a, <1>1, SeqAppend
<1>3. a \in [1..(n + 1) -> Int]
  BY <1>2, SeqLen, Zenon
<1>4. \A k \in 1..(n + 1) : a[k] = f[k]
  BY <1>2
<1> QED
  BY <1>a, <1>3, <1>4

\* ... and one whose entries but the first are those of a shorter one.
LEMMA FunTail ==
    ASSUME NEW n \in Nat, NEW f \in [1..(n + 1) -> Int], NEW g \in [1..n -> Int],
           \A k \in 1..n : g[k] = f[k + 1]
    PROVE  f # <<>> /\ Head(f) = f[1] /\ Tail(f) = g
<1>1. f \in Seq(Int) /\ Len(f) = n + 1
  OBVIOUS
<1>2. f # <<>> /\ Head(f) = f[1]
  BY <1>1
<1>t. PICK t : t = Tail(f)
  BY Zenon
<1>3. t \in Seq(Int) /\ Len(t) = n /\ \A k \in 1..n : t[k] = f[k + 1]
  BY <1>t, <1>1, <1>2
<1>4. t \in [1..n -> Int]
  BY <1>3, SeqLen, Zenon
<1>5. t = g
  BY <1>3, <1>4
<1> QED
  BY <1>t, <1>2, <1>5, Zenon

\* Walking from r to w: the slot at w is not met, a step of w adds it, and a step of r takes
\* the first slot off.
LEMMA Walk ==
    ASSUME NEW r \in Slots, NEW w \in Slots
    PROVE  /\ Dist(r, w) \in 0..(NumEntries - 1) /\ (Dist(r, w) = 0 <=> r = w)
           /\ \A k \in 1..Dist(r, w) : Place(r, k) \in Slots /\ Place(r, k) # w
           /\ Dist(r, w) # NumEntries - 1 =>
                /\ Dist(r, SlotAfter(w)) = Dist(r, w) + 1
                /\ Place(r, Dist(r, w) + 1) = w
           /\ r # w => /\ Dist(SlotAfter(r), w) = Dist(r, w) - 1 /\ Place(r, 1) = r
                       /\ \A k \in 1..(Dist(r, w) - 1) : Place(SlotAfter(r), k) = Place(r, k + 1)
<1>1. NumEntries \in Nat \ {0, 1} /\ r \in 0..(NumEntries - 1) /\ w \in 0..(NumEntries - 1)
  BY RingFacts, Zenon DEF Slots
<1>2. Dist(r, w) \in 0..(NumEntries - 1) /\ (Dist(r, w) = 0 <=> r = w)
  BY <1>1 DEF Dist
<1>3. \A k \in 1..Dist(r, w) : Place(r, k) \in Slots /\ Place(r, k) # w
  BY <1>1 DEF Dist, Place, Slots
<1>4. Dist(r, w) # NumEntries - 1 =>
        Dist(r, SlotAfter(w)) = Dist(r, w) + 1 /\ Place(r, Dist(r, w) + 1) = w
  BY <1>1 DEF Dist, Place, SlotAfter
<1>5. r # w => Dist(SlotAfter(r), w) = Dist(r, w) - 1 /\ Place(r, 1) = r
  BY <1>1 DEF Dist, Place, SlotAfter
<1>6. r # w => \A k \in 1..(Dist(r, w) - 1) : Place(SlotAfter(r), k) = Place(r, k + 1)
  BY <1>1 DEF Dist, Place, SlotAfter
<1> QED
  BY <1>2, <1>3, <1>4, <1>5, <1>6, Zenon

Entering == {"copy", "copying", "publish"}

KfdType ==
    /\ ring \in [Slots -> Int] /\ PtrOk(rptr) /\ PtrOk(wptr) /\ last \in 0..MaxEntries
    /\ isr \in [at : Entering \cup {"no", "schedule"}, wptr : Int]
    /\ work \in [at : {"no", "check", "return", "copy", "advance"}, entry : Int]

\* The handler owns the slot at the write pointer, which stays free while it copies; the work
\* item owns the one at the read pointer, which stays as it was while it copies.
KfdInv ==
    /\ KfdType
    /\ isr.at \in Entering => isr.wptr = wptr /\ ~Full(rptr, wptr) /\ last # 0 /\ active
    /\ isr.at = "publish" => ring[Slot(wptr)] = last
    /\ work.at \in {"copy", "advance"} => rptr # wptr
    /\ work.at = "advance" => work.entry = ring[Slot(rptr)]

\* What the slots of the pointers say about the pointers.
LEMMA KfdFacts ==
    ASSUME KfdInv
    PROVE  /\ Slot(rptr) \in Slots /\ Slot(wptr) \in Slots
           /\ rptr = wptr <=> Slot(rptr) = Slot(wptr)
           /\ Full(rptr, wptr) <=> Dist(Slot(rptr), Slot(wptr)) = NumEntries - 1
           /\ PendingIs
<1>1. PtrOk(rptr) /\ PtrOk(wptr)
  BY Zenon DEF KfdInv, KfdType
<1>2. Full(rptr, wptr) <=> Dist(Slot(rptr), Slot(wptr)) = NumEntries - 1
  BY <1>1, EntriesBetween, Zenon
<1>3. /\ Slot(rptr) \in Slots /\ Slot(wptr) \in Slots
      /\ rptr = wptr <=> Slot(rptr) = Slot(wptr)
  BY <1>1, Zenon DEF PtrOk
<1> QED
  BY <1>1, <1>2, <1>3, PendingNow, Zenon

\* The same for a next state.
LEMMA KfdFactsNext ==
    ASSUME KfdInv'
    PROVE  /\ Slot(rptr') \in Slots /\ Slot(wptr') \in Slots
           /\ PendingIs'
<1>1. PtrOk(rptr') /\ PtrOk(wptr')
  BY Zenon DEF KfdInv, KfdType
<1>2. Slot(rptr') \in Slots /\ Slot(wptr') \in Slots
  BY <1>1, Zenon DEF PtrOk
<1> QED
  BY <1>1, <1>2, PendingNow, Zenon

\* A write to the slot at the write pointer, or none, is not seen in the queue.
LEMMA PendingKept ==
    ASSUME KfdInv, KfdInv', UNCHANGED <<rptr, wptr>>,
           \A s \in Slots \ {Slot(wptr)} : ring'[s] = ring[s]
    PROVE  Pending' = Pending
<1>1. PICK r \in Slots, w \in Slots : r = Slot(rptr) /\ w = Slot(wptr)
  BY KfdFacts, Zenon
<1>2. Pending = [k \in 1..Dist(r, w) |-> ring[Place(r, k)]]
  BY <1>1, KfdFacts, Zenon DEF PendingIs
<1>3. Pending' = [k \in 1..Dist(r, w) |-> ring'[Place(r, k)]]
  BY <1>1, KfdFactsNext, Zenon DEF PendingIs
<1>4. \A k \in 1..Dist(r, w) : ring'[Place(r, k)] = ring[Place(r, k)]
  BY <1>1, Walk
<1> QED
  BY <1>2, <1>3, <1>4, Zenon

\* The length of the queue, and its entries.
LEMMA PendingType ==
    ASSUME KfdInv
    PROVE  /\ Dist(Slot(rptr), Slot(wptr)) \in Nat
           /\ Pending \in [1..Dist(Slot(rptr), Slot(wptr)) -> Int]
           /\ Len(Pending) = Dist(Slot(rptr), Slot(wptr))
<1>1. PICK r \in Slots, w \in Slots : r = Slot(rptr) /\ w = Slot(wptr)
  BY KfdFacts, Zenon
<1>2. Pending = [k \in 1..Dist(r, w) |-> ring[Place(r, k)]]
  BY <1>1, KfdFacts, Zenon DEF PendingIs
<1>3. Dist(r, w) \in Nat /\ \A k \in 1..Dist(r, w) : Place(r, k) \in Slots
  BY Walk, RingFacts
<1>4. Pending \in [1..Dist(r, w) -> Int]
  BY <1>2, <1>3, Zenon DEF KfdInv, KfdType
<1>5. Len(Pending) = Dist(r, w)
  BY <1>3, <1>4
<1> QED
  BY <1>1, <1>3, <1>4, <1>5, Zenon

\* A step that leaves the queue, its entries and the interrupt numbers alone.
LEMMA Stutters ==
    ASSUME KfdInv, KfdInv', UNCHANGED <<rptr, wptr, handled, dropped, active>>,
           \A s \in Slots \ {Slot(wptr)} : ring'[s] = ring[s],
           (IF isr.at \in Entering THEN last - 1 ELSE last)'
             = (IF isr.at \in Entering THEN last - 1 ELSE last)
    PROVE  UNCHANGED Q!vars
BY PendingKept, Zenon DEF Q!vars, Entering

\* enqueue_ih_ring_entry finds the ring full and drops the interrupt, or takes the slot at the
\* write pointer.
LEMMA InterruptStep ==
    ASSUME KfdInv, Interrupt
    PROVE  KfdInv' /\ [Q!Next]_(Q!vars)
<1>1. /\ isr.at = "no" /\ active /\ last < MaxEntries /\ last' = last + 1
      /\ UNCHANGED <<ring, rptr, wptr, active, work, handled>>
  BY Zenon DEF Interrupt
<1>2. last \in Nat /\ MaxEntries \in Nat /\ wptr \in Int
  <2>1. wptr = EntrySize * Slot(wptr) /\ Slot(wptr) \in Int /\ EntrySize \in Int
    BY RingFacts DEF KfdInv, KfdType, PtrOk, Slots
  <2> QED
    BY <2>1, RingAssumption DEF KfdInv, KfdType
<1>3. CASE Full(rptr, wptr)
  <2>1. dropped' = last + 1 /\ UNCHANGED isr
    BY <1>3, Zenon DEF Interrupt
  <2>2. KfdInv'
    BY <1>1, <1>2, <2>1 DEF KfdInv, KfdType, Entering
  <2>3. Pending' = Pending
    BY <1>1, <2>2, PendingKept, Zenon
  <2>4. Len(Pending) = NumEntries - 1
    BY <1>3, KfdFacts, PendingType, Zenon
  <2>5. Q!Drop
    BY <1>1, <2>1, <2>3, <2>4, Zenon DEF Q!Drop
  <2> QED
    BY <2>2, <2>5, Zenon DEF Q!Next
<1>4. CASE ~Full(rptr, wptr)
  <2>1. isr' = [at |-> "copy", wptr |-> wptr] /\ UNCHANGED dropped
    BY <1>4, Zenon DEF Interrupt
  <2>2. KfdInv'
    BY <1>1, <1>2, <1>4, <2>1 DEF KfdInv, KfdType, Entering
  <2>3. UNCHANGED Q!vars
    BY <1>1, <1>2, <2>1, <2>2, Stutters DEF Entering
  <2> QED
    BY <2>2, <2>3, Zenon
<1> QED
  BY <1>3, <1>4, Zenon

\* memcpy into the slot at the write pointer, which the queue does not hold.
LEMMA CopyInStep ==
    ASSUME KfdInv, CopyIn
    PROVE  KfdInv' /\ [Q!Next]_(Q!vars)
<1>1. /\ isr.at \in {"copy", "copying"}
      /\ UNCHANGED <<rptr, wptr, active, work, last, handled, dropped>>
  BY Zenon DEF CopyIn
<1>2. /\ isr.wptr = wptr /\ ~Full(rptr, wptr) /\ last # 0 /\ active
      /\ last \in Int /\ Garbage \in Int
  BY <1>1 DEF KfdInv, KfdType, Entering, Garbage
<1>3. PICK x \in Int, a \in {"copying", "publish"} :
        /\ ring' = [ring EXCEPT ![Slot(wptr)] = x] /\ isr' = [isr EXCEPT !.at = a]
        /\ a = "publish" => x = last
  BY <1>2, Zenon DEF CopyIn
<1>4. /\ ring' \in [Slots -> Int] /\ ring'[Slot(wptr)] = x
      /\ \A s \in Slots \ {Slot(wptr)} : ring'[s] = ring[s]
  BY <1>3, KfdFacts, Zenon DEF KfdInv, KfdType
<1>5. isr' \in [at : Entering \cup {"no", "schedule"}, wptr : Int] /\ isr'.at = a /\ isr'.wptr = wptr
  BY <1>2, <1>3, Zenon DEF KfdInv, KfdType, Entering
<1>6. work.at = "advance" => work.entry = ring'[Slot(rptr)]
  BY <1>4, KfdFacts, Zenon DEF KfdInv
<1>7. KfdInv'
  BY <1>1, <1>2, <1>3, <1>4, <1>5, <1>6, Zenon DEF KfdInv, KfdType
<1>8. UNCHANGED Q!vars
  BY <1>1, <1>3, <1>4, <1>5, <1>7, Stutters, Zenon DEF Entering
<1> QED
  BY <1>7, <1>8, Zenon

\* kfd_interrupt_wptr is written: the entry joins the queue.
LEMMA PublishStep ==
    ASSUME KfdInv, Publish
    PROVE  KfdInv' /\ [Q!Next]_(Q!vars)
<1>1. /\ isr.at = "publish" /\ isr.wptr = wptr /\ active /\ ring[Slot(wptr)] = last /\ last # 0
      /\ wptr' = Forth(wptr) /\ isr' = [isr EXCEPT !.at = "schedule"]
      /\ UNCHANGED <<ring, rptr, active, work, last, handled, dropped>>
  BY Zenon DEF Publish, KfdInv, Entering
<1>2. last \in Nat /\ MaxEntries \in Nat /\ last <= MaxEntries
  BY RingAssumption DEF KfdInv, KfdType
<1>3. PICK r \in Slots, w \in Slots : r = Slot(rptr) /\ w = Slot(wptr)
  BY KfdFacts, Zenon
<1>4. PICK n \in 0..(NumEntries - 2) : n = Dist(r, w)
  <2>1. Dist(r, w) # NumEntries - 1
    BY <1>1, <1>3, KfdFacts, Zenon DEF KfdInv, Entering
  <2>2. Dist(r, w) \in 0..(NumEntries - 1) /\ NumEntries \in Nat
    BY Walk, RingFacts, Zenon
  <2> QED
    BY <2>1, <2>2
<1>5. NumEntries \in Nat \ {0, 1} /\ n \in Nat /\ n # NumEntries - 1
  BY <1>4, RingFacts
<1>6. /\ PtrOk(wptr') /\ Slot(wptr') = SlotAfter(w) /\ Slot(wptr') \in Slots
  BY <1>1, <1>3, ForthSlot, Zenon DEF KfdInv, KfdType, PtrOk
<1>7. Dist(r, SlotAfter(w)) = n + 1 /\ Place(r, n + 1) = w
  BY <1>4, <1>5, Walk
<1>8. rptr # wptr'
  <2>1. r # SlotAfter(w)
    BY <1>5, <1>6, <1>7, Walk
  <2> QED
    BY <1>3, <1>6, <2>1, Zenon
<1>9. isr' \in [at : Entering \cup {"no", "schedule"}, wptr : Int] /\ isr'.at = "schedule"
  BY <1>1, Zenon DEF KfdInv, KfdType
<1>10. KfdInv'
  BY <1>1, <1>6, <1>8, <1>9, Zenon DEF KfdInv, KfdType, Entering
<1>11. Pending' = Append(Pending, last)
  <2>1. Pending = [k \in 1..n |-> ring[Place(r, k)]] /\ Pending \in [1..n -> Int]
    BY <1>3, <1>4, KfdFacts, PendingType, Zenon DEF PendingIs
  <2>2. PICK f : f = [k \in 1..(n + 1) |-> ring[Place(r, k)]]
    BY Zenon
  <2>3. Pending' = f
    BY <1>1, <1>3, <1>6, <1>7, <1>10, <2>2, KfdFactsNext DEF PendingIs
  <2>4. \A k \in 1..(n + 1) : Place(r, k) \in Slots
    <3>1. \A k \in 1..n : Place(r, k) \in Slots
      BY <1>4, Walk, Zenon
    <3> QED
      BY <1>5, <1>7, <3>1
  <2>5. f \in [1..(n + 1) -> Int] /\ f[n + 1] = last
    BY <1>1, <1>3, <1>5, <1>7, <2>2, <2>4 DEF KfdInv, KfdType
  <2>6. \A k \in 1..n : Pending[k] = f[k]
    BY <1>5, <2>1, <2>2
  <2> HIDE DEF Pending
  <2>7. f = Append(Pending, f[n + 1])
    BY <1>5, <2>1, <2>5, <2>6, FunAppend
  <2> QED
    BY <2>3, <2>5, <2>7, Zenon
<1>12. Len(Pending) < NumEntries - 1
  BY <1>3, <1>4, RingFacts, PendingType
<1>13. Q!Accept
  <2>1. last - 1 < MaxEntries /\ last = (last - 1) + 1
    BY <1>1, <1>2
  <2> QED
    BY <1>1, <1>9, <1>11, <1>12, <2>1, Zenon DEF Q!Accept
<1> QED
  BY <1>10, <1>13, Zenon DEF Q!Next

\* The work item is scheduled, starts, looks at the pointers, copies an entry, or ends.
LEMMA QuietStep ==
    ASSUME KfdInv, Schedule \/ WorkStart \/ Check \/ WorkReturn \/ CopyOut
    PROVE  KfdInv' /\ [Q!Next]_(Q!vars)
<1>1. UNCHANGED <<ring, rptr, wptr, active, last, handled, dropped>>
  BY Zenon DEF Schedule, WorkStart, Check, WorkReturn, CopyOut
<1>2. KfdInv'
  <2>1. CASE Schedule
    BY <1>1, <2>1 DEF Schedule, NoIsr, KfdInv, KfdType, Entering
  <2>2. CASE WorkStart
    BY <1>1, <2>2 DEF WorkStart, KfdInv, KfdType
  <2>3. CASE Check
    BY <1>1, <2>3 DEF Check, KfdInv, KfdType
  <2>4. CASE WorkReturn
    BY <1>1, <2>4, SMTT(60) DEF WorkReturn, NoWork, KfdInv, KfdType
  <2>5. CASE CopyOut
    <3>1. ring[Slot(rptr)] \in Int
      BY KfdFacts, Zenon DEF KfdInv, KfdType
    <3> QED
      BY <1>1, <2>5, <3>1 DEF CopyOut, KfdInv, KfdType
  <2> QED
    BY <2>1, <2>2, <2>3, <2>4, <2>5, Zenon
<1>3. isr'.at \in Entering <=> isr.at \in Entering
  BY DEF Schedule, WorkStart, Check, WorkReturn, CopyOut, NoIsr, Entering
<1>4. UNCHANGED Q!vars
  BY <1>1, <1>2, <1>3, Stutters, Zenon
<1> QED
  BY <1>2, <1>4, Zenon

\* kfd_interrupt_rptr is written: the entry the work item has copied leaves the queue, and is
\* handed to the handlers of interrupts.
LEMMA AdvanceStep ==
    ASSUME KfdInv, Advance
    PROVE  KfdInv' /\ [Q!Next]_(Q!vars)
<1>1. /\ work.at = "advance" /\ rptr # wptr /\ work.entry = ring[Slot(rptr)]
      /\ rptr' = Forth(rptr) /\ handled' = work.entry /\ work' = [at |-> "check", entry |-> 0]
      /\ UNCHANGED <<ring, wptr, active, isr, last, dropped>>
  BY Zenon DEF Advance, KfdInv
<1>2. PICK r \in Slots, w \in Slots : r = Slot(rptr) /\ w = Slot(wptr)
  BY KfdFacts
<1>3. r # w
  BY <1>1, <1>2, KfdFacts, Zenon
<1>4. PICK n \in 0..(NumEntries - 2) : Dist(r, w) = n + 1
  <2>1. Dist(r, w) \in 0..(NumEntries - 1) /\ Dist(r, w) # 0 /\ NumEntries \in Nat
    BY <1>3, Walk, RingFacts
  <2> QED
    BY <2>1
<1>5. NumEntries \in Nat \ {0, 1} /\ n \in Nat /\ n # NumEntries - 1
  BY <1>4, RingFacts
<1>6. PtrOk(rptr') /\ Slot(rptr') = SlotAfter(r)
  BY <1>1, <1>2, ForthSlot, Zenon DEF KfdInv, KfdType
<1>7. /\ Dist(SlotAfter(r), w) = n /\ Place(r, 1) = r
      /\ \A k \in 1..n : Place(SlotAfter(r), k) = Place(r, k + 1)
  <2>1. /\ Dist(SlotAfter(r), w) = Dist(r, w) - 1 /\ Place(r, 1) = r
        /\ \A k \in 1..(Dist(r, w) - 1) : Place(SlotAfter(r), k) = Place(r, k + 1)
    BY <1>3, Walk
  <2>2. Dist(r, w) - 1 = n
    BY <1>4, <1>5
  <2> QED
    BY <2>1, <2>2, Zenon
<1>8. ~Full(rptr', wptr)
  <2>1. PtrOk(wptr) /\ w = Slot(wptr)
    BY <1>2, Zenon DEF KfdInv, KfdType
  <2> QED
    BY <1>5, <1>6, <1>7, <2>1, EntriesBetween, Zenon
<1>9. KfdInv'
  BY <1>1, <1>6, <1>8 DEF KfdInv, KfdType
<1>10. /\ Pending # <<>> /\ handled' = Head(Pending) /\ Pending' = Tail(Pending)
  <2>1. PICK f \in [1..(n + 1) -> Int] : f = Pending /\ f = [k \in 1..(n + 1) |-> ring[Place(r, k)]]
    BY <1>2, <1>4, KfdFacts, PendingType, Zenon DEF PendingIs
  <2>2. PICK g : g = [k \in 1..n |-> ring[Place(SlotAfter(r), k)]]
    BY Zenon
  <2>3. Pending' = g
    BY <1>1, <1>2, <1>6, <1>7, <1>9, <2>2, KfdFactsNext, Zenon DEF PendingIs
  <2>4. \A k \in 1..n : g[k] = f[k + 1] /\ f[k + 1] \in Int
    BY <1>5, <1>7, <2>1, <2>2
  <2>5. g \in [1..n -> Int]
    BY <2>2, <2>4, Zenon
  <2>6. f # <<>> /\ Head(f) = f[1] /\ Tail(f) = g
    BY <1>5, <2>4, <2>5, FunTail, Zenon
  <2>7. f[1] = handled'
    BY <1>1, <1>2, <1>5, <1>7, <2>1
  <2> QED
    BY <2>1, <2>3, <2>6, <2>7, Zenon
<1>11. Q!Handle
  BY <1>1, <1>10, Zenon DEF Q!Handle
<1> QED
  BY <1>9, <1>11, Zenon DEF Q!Next

\* kfd_interrupt_exit closes the queue under interrupt_lock, and frees the ring later.
LEMMA StopStep ==
    ASSUME KfdInv, ExitInv, ExitStop \/ ExitFree
    PROVE  KfdInv' /\ [Q!Next]_(Q!vars)
<1>1. UNCHANGED <<ring, rptr, wptr, isr, work, last, handled, dropped>>
  BY Zenon DEF ExitStop, ExitFree
<1>2. CASE ExitStop
  <2>1. isr.at = "no" /\ active /\ active' = FALSE
    BY <1>2, Zenon DEF ExitStop, LockFree, ExitInv
  <2>2. KfdInv'
    BY <1>1, <2>1, Zenon DEF KfdInv, KfdType, Entering
  <2>3. Pending' = Pending
    BY <1>1, <2>2, PendingKept, Zenon
  <2>4. Q!Close
    BY <1>1, <2>1, <2>3, Zenon DEF Q!Close
  <2> QED
    BY <2>2, <2>4, Zenon DEF Q!Next
<1>3. CASE ExitFree
  <2>1. UNCHANGED active
    BY <1>3, Zenon DEF ExitFree
  <2>2. KfdInv'
    BY <1>1, <2>1, Zenon DEF KfdInv, KfdType
  <2>3. UNCHANGED Q!vars
    BY <1>1, <2>1, <2>2, Stutters, Zenon
  <2> QED
    BY <2>2, <2>3, Zenon
<1> QED
  BY <1>2, <1>3, Zenon

\* The ring of kfd_interrupt.c implements the bounded queue of InterruptQueue: whatever the
\* steps of the handler, the work item and the exit are interleaved with, an interrupt is
\* dropped only when the ring is full, and the others are handled once each, in order and
\* never half written.
THEOREM QueueSafety == Spec => Q!Init /\ [][Q!Next]_(Q!vars)
<1>1. Init => KfdInv /\ ExitInv /\ Q!Init
  <2> SUFFICES ASSUME Init PROVE KfdInv /\ ExitInv /\ Q!Init
    BY Zenon
  <2>1. /\ ring = [s \in Slots |-> 0] /\ rptr = 0 /\ wptr = 0 /\ active = TRUE /\ freed = FALSE
        /\ isr = NoIsr /\ queued = FALSE /\ work = NoWork /\ exiting = "no"
        /\ last = 0 /\ handled = 0 /\ dropped = 0
    BY Zenon DEF Init, KfdInit
  <2>2. PtrOk(0) /\ Slot(0) = 0
    <3>1. 0 \in Slots /\ EntrySize * 0 = 0
      BY RingFacts DEF Slots
    <3>2. PtrOk(EntrySize * 0) /\ Slot(EntrySize * 0) = 0
      BY <3>1, SlotOffset, Zenon
    <3> QED
      BY <3>1, <3>2, Zenon
  <2>3. KfdInv
    BY <2>1, <2>2, RingAssumption DEF KfdInv, KfdType, NoIsr, NoWork, Entering
  <2>4. Pending = <<>>
    <3>1. Dist(0, 0) = 0
      BY DEF Dist
    <3>2. Pending \in [1..0 -> Int]
      BY <2>1, <2>2, <2>3, <3>1, PendingType, Zenon
    <3> QED
      BY <3>2
  <2>5. Q!Init
    BY <2>1, <2>4, Zenon DEF Q!Init, NoIsr
  <2>6. ExitInv
    BY <2>1, Zenon DEF ExitInv, NoIsr, NoWork
  <2> QED
    BY <2>3, <2>5, <2>6, Zenon
<1>2. KfdInv /\ ExitInv /\ [Next]_vars => KfdInv' /\ ExitInv' /\ [Q!Next]_(Q!vars)
  <2> SUFFICES ASSUME KfdInv, ExitInv, [Next]_vars
               PROVE  KfdInv' /\ ExitInv' /\ [Q!Next]_(Q!vars)
    BY Zenon
  <2>1. ExitInv'
    BY ExitStep, Zenon
  <2>2. CASE UNCHANGED kfdVars
    <3>1. UNCHANGED <<ring, rptr, wptr, active, isr, work, last, handled, dropped>>
      BY <2>2, Zenon DEF kfdVars
    <3>2. KfdInv'
      BY <3>1, Zenon DEF KfdInv, KfdType
    <3>3. UNCHANGED Q!vars
      BY <3>1, <3>2, Stutters, Zenon
    <3> QED
      BY <2>1, <3>2, <3>3, Zenon
  <2> QED
    BY <2>1, <2>2, KfdSteps, InterruptStep, CopyInStep, PublishStep, QuietStep, AdvanceStep,
       StopStep, Zenon
<1> QED
  BY <1>1, <1>2, PTL DEF Spec

=============================================================================
