--------------------------- MODULE SaManagerProofs ---------------------------
(***************************************************************************)
(* Proofs about SaManager: the pieces of the buffer lie apart, and a piece *)
(* that is held by its user or used by the GPU keeps its memory, for every *)
(* number of threads, fence lists and requests.                            *)
(***************************************************************************)
EXTENDS SaManager, TLAPS

-----------------------------------------------------------------------------
(* Remainders and sequences: alignment, the list of sub-allocations *)

\* Offsets are aligned with a remainder: what % and \div are.
LEMMA ModDef ==
    ASSUME NEW N \in Nat \ {0}, NEW a \in Int
    PROVE  /\ a % N \in 0..(N - 1) /\ a \div N \in Int
           /\ a = N * (a \div N) + (a % N)
OBVIOUS

\* The length of a sequence, and its elements.
LEMMA SeqLen ==
    ASSUME NEW S, NEW s \in Seq(S)
    PROVE  Len(s) \in Nat /\ s \in [1..Len(s) -> S] /\ DOMAIN s = 1..Len(s)
OBVIOUS

\* A sequence with one more element.
LEMMA SeqAppend ==
    ASSUME NEW S, NEW s \in Seq(S), NEW x \in S
    PROVE  /\ Append(s, x) \in Seq(S) /\ Len(Append(s, x)) = Len(s) + 1
           /\ \A i \in 1..Len(s) : Append(s, x)[i] = s[i]
           /\ Append(s, x)[Len(s) + 1] = x
OBVIOUS

-----------------------------------------------------------------------------
(* The inductive invariant *)

Where == {"no", "lock", "try", "skip", "collect", "fences", "event", "sleep", "woken"}

Call == [at : Where, bo : Bos \cup {None}, size : 0..Size, align : 1..Size,
         tries : [Lists -> Nat], fences : [Lists -> Bos \cup {None}]]

SaType ==
    /\ olist \in Seq(Bos) /\ hole \in 0..Len(olist)
    /\ flist \in [Lists -> Seq(Bos)]
    /\ range \in [Bos -> [soffset : Nat, eoffset : Nat]]
    /\ count \in 0..MaxAllocs
    /\ req \in [Threads -> Call]

\* A piece is at most once on the fence lists; those pieces are still in the buffer, and
\* their users have freed them.
FreedOnce ==
    /\ \A i, j \in Lists : \A k \in DOMAIN flist[i], l \in DOMAIN flist[j] :
         flist[i][k] = flist[j][l] => i = j /\ k = l
    /\ \A i \in Lists : \A k \in DOMAIN flist[i] :
         In(flist[i][k], olist) /\ flist[i][k] \notin held

\* The piece of a request is new, and its own.
NewPieces ==
    /\ \A k \in DOMAIN olist : olist[k] \in 1..count
    /\ \A t \in Threads : req[t].at # "no" =>
         /\ req[t].bo \in 1..count /\ ~In(req[t].bo, olist) /\ req[t].size # 0
         /\ \A u \in Threads \ {t} : req[u].at # "no" => req[u].bo # req[t].bo

SaInv ==
    /\ SaType /\ NoOverlap /\ InUseKept /\ held \cap busy = {}
    /\ FreedOnce /\ NewPieces

-----------------------------------------------------------------------------
(* The lists *)

\* The place of a member of a list.
LEMMA PlaceIn ==
    ASSUME NEW s, NEW b, In(b, s)
    PROVE  Place(b, s) \in DOMAIN s /\ s[Place(b, s)] = b
<1>1. \E i \in DOMAIN s : s[i] = b
  BY Zenon DEF In
<1> QED
  BY <1>1, Zenon DEF Place

\* Removing one element keeps the others, in their order.
LEMMA CutFacts ==
    ASSUME NEW S, NEW s \in Seq(S), NEW i \in 1..Len(s)
    PROVE  /\ Cut(s, i) \in Seq(S) /\ Len(Cut(s, i)) = Len(s) - 1
           /\ DOMAIN Cut(s, i) = 1..(Len(s) - 1)
           /\ \A k \in 1..(Len(s) - 1) : Cut(s, i)[k] = IF k < i THEN s[k] ELSE s[k + 1]
<1>1. PICK n \in Nat \ {0} : n = Len(s)
  BY SeqLen
<1>2. s \in [1..n -> S]
  BY <1>1, SeqLen, Zenon
<1>3. PICK c : c = [k \in 1..(n - 1) |-> IF k < i THEN s[k] ELSE s[k + 1]]
  BY Zenon
<1>4. c = Cut(s, i)
  BY <1>1, <1>3, Zenon DEF Cut
<1>5. \A k \in 1..(n - 1) : (IF k < i THEN s[k] ELSE s[k + 1]) \in S
  BY <1>1, <1>2
<1>6. c \in [1..(n - 1) -> S] /\ n - 1 \in Nat
  BY <1>1, <1>3, <1>5
<1>7. c \in Seq(S) /\ Len(c) = n - 1 /\ DOMAIN c = 1..(n - 1)
  BY <1>6
<1>8. \A k \in 1..(n - 1) : c[k] = IF k < i THEN s[k] ELSE s[k + 1]
  BY <1>3, Zenon
<1> QED
  BY <1>1, <1>4, <1>7, <1>8, Zenon

\* What is in a list after an element has been removed.
LEMMA CutIn ==
    ASSUME NEW S, NEW s \in Seq(S), NEW i \in 1..Len(s)
    PROVE  /\ \A x : In(x, Cut(s, i)) => In(x, s)
           /\ \A x : In(x, s) /\ x # s[i] => In(x, Cut(s, i))
<1>1. /\ Len(s) \in Nat /\ DOMAIN s = 1..Len(s) /\ DOMAIN Cut(s, i) = 1..(Len(s) - 1)
      /\ \A k \in 1..(Len(s) - 1) : Cut(s, i)[k] = IF k < i THEN s[k] ELSE s[k + 1]
  BY CutFacts, SeqLen, Zenon
<1>2. \A x : In(x, Cut(s, i)) => In(x, s)
  BY <1>1 DEF In
<1>3. ASSUME NEW x, In(x, s), x # s[i]
      PROVE  In(x, Cut(s, i))
  <2>1. PICK k \in 1..Len(s) : s[k] = x
    BY <1>1, <1>3, Zenon DEF In
  <2>2. k # i
    BY <1>3, <2>1, Zenon
  <2>3. CASE k < i
    BY <1>1, <2>1, <2>3 DEF In
  <2>4. CASE k > i
    <3>1. k - 1 \in 1..(Len(s) - 1) /\ ~(k - 1 < i) /\ (k - 1) + 1 = k
      BY <1>1, <2>4
    <3> QED
      BY <1>1, <2>1, <3>1, Zenon DEF In
  <2> QED
    BY <2>2, <2>3, <2>4
<1> QED
  BY <1>2, <1>3, Zenon

\* Putting an element after place i keeps the others.
LEMMA InsertFacts ==
    ASSUME NEW S, NEW s \in Seq(S), NEW i \in 0..Len(s), NEW b \in S
    PROVE  /\ InsertAfter(s, i, b) \in Seq(S) /\ Len(InsertAfter(s, i, b)) = Len(s) + 1
           /\ DOMAIN InsertAfter(s, i, b) = 1..(Len(s) + 1)
           /\ \A k \in 1..(Len(s) + 1) : InsertAfter(s, i, b)[k]
                = IF k <= i THEN s[k] ELSE IF k = i + 1 THEN b ELSE s[k - 1]
<1>1. PICK n \in Nat : n = Len(s)
  BY SeqLen, Zenon
<1>2. s \in [1..n -> S]
  BY <1>1, SeqLen, Zenon
<1>3. PICK c : c = [k \in 1..(n + 1) |-> IF k <= i THEN s[k] ELSE IF k = i + 1 THEN b ELSE s[k - 1]]
  BY Zenon
<1>4. c = InsertAfter(s, i, b)
  BY <1>1, <1>3, Zenon DEF InsertAfter
<1>5. \A k \in 1..(n + 1) :
        (IF k <= i THEN s[k] ELSE IF k = i + 1 THEN b ELSE s[k - 1]) \in S
  BY <1>1, <1>2
<1>6. c \in [1..(n + 1) -> S] /\ n + 1 \in Nat
  BY <1>1, <1>3, <1>5
<1>7. c \in Seq(S) /\ Len(c) = n + 1 /\ DOMAIN c = 1..(n + 1)
  BY <1>6
<1>8. \A k \in 1..(n + 1) : c[k] = IF k <= i THEN s[k] ELSE IF k = i + 1 THEN b ELSE s[k - 1]
  BY <1>3, Zenon
<1> QED
  BY <1>1, <1>4, <1>7, <1>8, Zenon

\* What is in a list after an element has been put in.
LEMMA InsertIn ==
    ASSUME NEW S, NEW s \in Seq(S), NEW i \in 0..Len(s), NEW b \in S
    PROVE  \A x : In(x, InsertAfter(s, i, b)) <=> In(x, s) \/ x = b
<1>1. /\ Len(s) \in Nat /\ DOMAIN s = 1..Len(s)
      /\ DOMAIN InsertAfter(s, i, b) = 1..(Len(s) + 1)
      /\ \A k \in 1..(Len(s) + 1) : InsertAfter(s, i, b)[k]
           = IF k <= i THEN s[k] ELSE IF k = i + 1 THEN b ELSE s[k - 1]
  BY InsertFacts, SeqLen
<1>2. ASSUME NEW x, In(x, InsertAfter(s, i, b))
      PROVE  In(x, s) \/ x = b
  <2>1. PICK k \in 1..(Len(s) + 1) : InsertAfter(s, i, b)[k] = x
    BY <1>1, <1>2, Zenon DEF In
  <2>2. x = IF k <= i THEN s[k] ELSE IF k = i + 1 THEN b ELSE s[k - 1]
    BY <1>1, <2>1, Zenon
  <2>3. CASE k <= i
    BY <1>1, <2>2, <2>3 DEF In
  <2>4. CASE k > i + 1
    <3>1. k - 1 \in 1..Len(s)
      BY <1>1, <2>4
    <3> QED
      BY <1>1, <2>2, <2>4, <3>1 DEF In
  <2> QED
    BY <2>2, <2>3, <2>4
<1>3. In(b, InsertAfter(s, i, b))
  <2>1. i + 1 \in 1..(Len(s) + 1) /\ InsertAfter(s, i, b)[i + 1] = b
    BY <1>1
  <2> QED
    BY <1>1, <2>1, Zenon DEF In
<1>4. ASSUME NEW x, In(x, s)
      PROVE  In(x, InsertAfter(s, i, b))
  <2>1. PICK k \in 1..Len(s) : s[k] = x
    BY <1>1, <1>4, Zenon DEF In
  <2>2. CASE k <= i
    <3>1. k \in 1..(Len(s) + 1) /\ InsertAfter(s, i, b)[k] = x
      BY <1>1, <2>1, <2>2
    <3> QED
      BY <1>1, <3>1, Zenon DEF In
  <2>3. CASE k > i
    <3>1. k + 1 \in 1..(Len(s) + 1) /\ ~(k + 1 <= i) /\ k + 1 # i + 1 /\ (k + 1) - 1 = k
      BY <1>1, <2>3
    <3>2. InsertAfter(s, i, b)[k + 1] = s[k]
      BY <1>1, <3>1
    <3> QED
      BY <1>1, <2>1, <3>1, <3>2, Zenon DEF In
  <2> QED
    BY <2>2, <2>3
<1> QED
  BY <1>2, <1>3, <1>4, Zenon

\* The places of a list without place p, as places of the whole list.
LEMMA Gap ==
    ASSUME NEW n \in Nat, NEW p \in 1..n
    PROVE  \E f \in [1..(n - 1) -> 1..n] :
             /\ \A k \in 1..(n - 1) : f[k] # p /\ f[k] = IF k < p THEN k ELSE k + 1
             /\ \A k, l \in 1..(n - 1) : k < l => f[k] < f[l]
<1>1. PICK f : f = [k \in 1..(n - 1) |-> IF k < p THEN k ELSE k + 1]
  BY Zenon
<1>2. \A k \in 1..(n - 1) : (IF k < p THEN k ELSE k + 1) \in 1..n
  OBVIOUS
<1>3. f \in [1..(n - 1) -> 1..n]
  BY <1>1, <1>2, Zenon
<1>4. /\ \A k \in 1..(n - 1) : f[k] # p /\ f[k] = IF k < p THEN k ELSE k + 1
      /\ \A k, l \in 1..(n - 1) : k < l => f[k] < f[l]
  BY <1>1
<1> QED
  BY <1>3, <1>4, Zenon

\* list_del_init of an element that is at most once in a list.
LEMMA WithoutFacts ==
    ASSUME NEW S, NEW s \in Seq(S), NEW b,
           \A k, l \in DOMAIN s : s[k] = s[l] => k = l
    PROVE  /\ Without(s, b) \in Seq(S)
           /\ \A k \in DOMAIN Without(s, b) : Without(s, b)[k] # b /\ In(Without(s, b)[k], s)
           /\ \A k, l \in DOMAIN Without(s, b) : Without(s, b)[k] = Without(s, b)[l] => k = l
<1>1. CASE ~In(b, s)
  <2>1. Without(s, b) = s
    BY <1>1, Zenon DEF Without
  <2> QED
    BY <1>1, <2>1, Zenon DEF In
<1>2. CASE In(b, s)
  <2>1. PICK n \in Nat : n = Len(s) /\ DOMAIN s = 1..n
    BY SeqLen, Zenon
  <2>2. PICK p \in 1..n : p = Place(b, s) /\ s[p] = b
    BY <1>2, <2>1, PlaceIn, Zenon
  <2>3. PICK c : c = Cut(s, p)
    BY Zenon
  <2>4. Without(s, b) = c
    BY <1>2, <2>2, <2>3, Zenon DEF Without
  <2>5. /\ c \in Seq(S) /\ DOMAIN c = 1..(n - 1)
        /\ \A k \in 1..(n - 1) : c[k] = IF k < p THEN s[k] ELSE s[k + 1]
    BY <2>1, <2>2, <2>3, CutFacts, ZenonT(60)
  <2>6. PICK f \in [1..(n - 1) -> 1..n] :
             /\ \A k \in 1..(n - 1) : f[k] # p /\ f[k] = IF k < p THEN k ELSE k + 1
             /\ \A k, l \in 1..(n - 1) : k < l => f[k] < f[l]
    BY Gap, ZenonT(60)
  <2>7. /\ \A k \in 1..(n - 1) : c[k] = s[f[k]] /\ f[k] # p
        /\ \A k, l \in 1..(n - 1) : f[k] = f[l] => k = l
    BY <2>5, <2>6, SMTT(60)
  <2>8. ASSUME NEW k \in 1..(n - 1)
        PROVE  c[k] # b /\ In(c[k], s)
    <3>1. PICK m \in 1..n : m = f[k] /\ m # p /\ c[k] = s[m]
      BY <2>6, <2>7, Zenon
    <3>2. s[m] # b
      BY <2>1, <2>2, <3>1, Zenon
    <3> QED
      BY <2>1, <3>1, <3>2, Zenon DEF In
  <2>9. ASSUME NEW k \in 1..(n - 1), NEW l \in 1..(n - 1), c[k] = c[l]
        PROVE  k = l
    <3>1. f[k] \in 1..n /\ f[l] \in 1..n /\ s[f[k]] = s[f[l]]
      BY <2>6, <2>7, <2>9, Zenon
    <3>2. f[k] = f[l]
      BY <2>1, <3>1, Zenon
    <3> QED
      BY <2>7, <3>2, Zenon
  <2> QED
    BY <2>4, <2>5, <2>8, <2>9, Zenon
<1> QED
  BY <1>1, <1>2, Zenon

\* What amdgpu_sa_bo_remove_locked keeps, for a piece that neither its user nor the GPU uses
\* any more.
LEMMA Removal ==
    ASSUME SaInv, NEW b, NEW h \in 0..Len(olist), In(b, olist), b \notin busy,
           RemoveLocked(b, h), UNCHANGED <<range, busy>>, held' = held \ {b}
    PROVE  /\ olist' \in Seq(Bos) /\ hole' \in 0..Len(olist') /\ flist' \in [Lists -> Seq(Bos)]
           /\ \A x : In(x, olist') => In(x, olist)
           /\ NoOverlap' /\ InUseKept' /\ held' \cap busy' = {} /\ FreedOnce'
<1>1. PICK n \in Nat : n = Len(olist) /\ DOMAIN olist = 1..n /\ olist \in [1..n -> Bos]
  BY SeqLen, Zenon DEF SaInv, SaType
<1>2. PICK p \in 1..n : p = Place(b, olist) /\ olist[p] = b
  BY <1>1, PlaceIn, Zenon
<1>3. /\ olist' = Cut(olist, p) /\ hole' = HoleAfterRemove(p, h)
      /\ flist' = [i \in Lists |-> Without(flist[i], b)]
  BY <1>2, Zenon DEF RemoveLocked
<1>4. /\ olist' \in Seq(Bos) /\ Len(olist') = n - 1 /\ DOMAIN olist' = 1..(n - 1)
      /\ \A k \in 1..(n - 1) : olist'[k] = IF k < p THEN olist[k] ELSE olist[k + 1]
  BY <1>1, <1>2, <1>3, CutFacts, Zenon DEF SaInv, SaType
<1>5. hole' \in 0..Len(olist')
  BY <1>1, <1>2, <1>3, <1>4 DEF HoleAfterRemove
<1>6. /\ \A x : In(x, olist') => In(x, olist)
      /\ \A x : In(x, olist) /\ x # b => In(x, olist')
  BY <1>1, <1>2, <1>3, CutIn, Zenon DEF SaInv, SaType
<1>7. NoOverlap'
  <2>1. PICK f \in [1..(n - 1) -> 1..n] :
             /\ \A k \in 1..(n - 1) : f[k] # p /\ f[k] = IF k < p THEN k ELSE k + 1
             /\ \A k, l \in 1..(n - 1) : k < l => f[k] < f[l]
    BY Gap, ZenonT(60)
  <2>2. \A k \in 1..(n - 1) : olist'[k] = olist[f[k]]
    BY <1>4, <2>1, Zenon
  <2>3. ASSUME NEW k \in 1..(n - 1)
        PROVE  range'[olist'[k]].soffset < range'[olist'[k]].eoffset
               /\ range'[olist'[k]].eoffset <= Size
    <3>1. f[k] \in 1..n /\ olist'[k] = olist[f[k]] /\ range' = range
      BY <2>1, <2>2, Zenon
    <3> QED
      BY <1>1, <3>1, Zenon DEF SaInv, NoOverlap
  <2>4. ASSUME NEW k \in 1..(n - 1), NEW l \in 1..(n - 1), k < l
        PROVE  range'[olist'[k]].eoffset <= range'[olist'[l]].soffset
    <3>1. /\ f[k] \in 1..n /\ f[l] \in 1..n /\ f[k] < f[l] /\ range' = range
          /\ olist'[k] = olist[f[k]] /\ olist'[l] = olist[f[l]]
      BY <2>1, <2>2, <2>4, Zenon
    <3> QED
      BY <1>1, <3>1, Zenon DEF SaInv, NoOverlap
  <2> QED
    BY <1>4, <2>3, <2>4, Zenon DEF NoOverlap
<1>8. InUseKept' /\ held' \cap busy' = {}
  BY <1>6, Zenon DEF SaInv, InUseKept
<1>9. ASSUME NEW i \in Lists
      PROVE  /\ flist'[i] \in Seq(Bos)
             /\ \A k \in DOMAIN flist'[i] : flist'[i][k] # b /\ In(flist'[i][k], flist[i])
             /\ \A k, l \in DOMAIN flist'[i] : flist'[i][k] = flist'[i][l] => k = l
  <2>1. flist'[i] = Without(flist[i], b) /\ flist[i] \in Seq(Bos)
    BY <1>3, Zenon DEF SaInv, SaType
  <2>2. \A k, l \in DOMAIN flist[i] : flist[i][k] = flist[i][l] => k = l
    BY Zenon DEF SaInv, FreedOnce
  <2> QED
    BY <2>1, <2>2, WithoutFacts
<1>10. flist' \in [Lists -> Seq(Bos)]
  BY <1>3, <1>9, Zenon
<1>11. FreedOnce'
  <2>1. ASSUME NEW i \in Lists, NEW j \in Lists, NEW k \in DOMAIN flist'[i],
               NEW l \in DOMAIN flist'[j], flist'[i][k] = flist'[j][l]
        PROVE  i = j /\ k = l
    <3>1. In(flist'[i][k], flist[i]) /\ In(flist'[i][k], flist[j])
      BY <1>9, <2>1, Zenon
    <3>2. PICK k1 \in DOMAIN flist[i], l1 \in DOMAIN flist[j] :
            flist[i][k1] = flist'[i][k] /\ flist[j][l1] = flist'[i][k]
      BY <3>1, Zenon DEF In
    <3>3. i = j
      BY <3>2 DEF SaInv, FreedOnce
    <3> QED
      <4>1. \A k2, l2 \in DOMAIN flist'[i] : flist'[i][k2] = flist'[i][l2] => k2 = l2
        BY <1>9, Zenon
      <4>2. l \in DOMAIN flist'[i] /\ flist'[i][k] = flist'[i][l]
        BY <2>1, <3>3, Zenon
      <4> QED
        BY <3>3, <4>1, <4>2, Zenon
  <2>2. ASSUME NEW i \in Lists, NEW k \in DOMAIN flist'[i]
        PROVE  In(flist'[i][k], olist') /\ flist'[i][k] \notin held'
    <3>1. flist'[i][k] # b /\ In(flist'[i][k], flist[i])
      BY <1>9, Zenon
    <3>2. In(flist'[i][k], olist) /\ flist'[i][k] \notin held
      <4>1. PICK k1 \in DOMAIN flist[i] : flist[i][k1] = flist'[i][k]
        BY <3>1, Zenon DEF In
      <4>2. In(flist[i][k1], olist) /\ flist[i][k1] \notin held
        BY Zenon DEF SaInv, FreedOnce
      <4> QED
        BY <4>1, <4>2, Zenon
    <3> QED
      BY <1>6, <3>1, <3>2, Zenon
  <2> QED
    BY <2>1, <2>2, Zenon DEF FreedOnce
<1> QED
  BY <1>4, <1>5, <1>6, <1>7, <1>8, <1>10, <1>11, Zenon

-----------------------------------------------------------------------------
(* The steps *)

\* A step in which the requests go on, return, or fail keeps their pieces apart.
LEMMA NewPiecesKept ==
    ASSUME SaInv, count' = count, \A x : In(x, olist') => In(x, olist),
           \A t \in Threads : req'[t].at # "no" =>
             req[t].at # "no" /\ req'[t].bo = req[t].bo /\ req'[t].size = req[t].size
    PROVE  NewPieces'
<1>1. ASSUME NEW k \in DOMAIN olist'
      PROVE  olist'[k] \in 1..count
  <2>1. In(olist'[k], olist)
    BY Zenon DEF In
  <2>2. PICK i \in DOMAIN olist : olist[i] = olist'[k]
    BY <2>1, Zenon DEF In
  <2> QED
    BY <2>2, Zenon DEF SaInv, NewPieces
<1>2. ASSUME NEW t \in Threads, req'[t].at # "no"
      PROVE  /\ req'[t].bo \in 1..count /\ ~In(req'[t].bo, olist') /\ req'[t].size # 0
             /\ \A u \in Threads \ {t} : req'[u].at # "no" => req'[u].bo # req'[t].bo
  BY <1>2, Zenon DEF SaInv, NewPieces
<1> QED
  BY <1>1, <1>2, Zenon DEF NewPieces

\* A step of one request that touches only its own variables.
LEMMA OneCall ==
    ASSUME SaInv, NEW t \in Threads, NEW c \in Call, req' = [req EXCEPT ![t] = c],
           c.at # "no" => req[t].at # "no" /\ c.bo = req[t].bo /\ c.size = req[t].size
    PROVE  /\ req' \in [Threads -> Call]
           /\ \A u \in Threads : req'[u].at # "no" =>
                req[u].at # "no" /\ req'[u].bo = req[u].bo /\ req'[u].size = req[u].size
<1>1. req \in [Threads -> Call]
  BY Zenon DEF SaInv, SaType
<1> QED
  BY <1>1, Zenon

\* ... and leaves the buffer alone.
LEMMA CallStep ==
    ASSUME SaInv, NEW t \in Threads, NEW c \in Call, req' = [req EXCEPT ![t] = c],
           c.at # "no" => req[t].at # "no" /\ c.bo = req[t].bo /\ c.size = req[t].size,
           UNCHANGED <<olist, flist, range, held, busy, count>>, hole' \in {hole, 0}
    PROVE  SaInv'
<1>1. /\ req' \in [Threads -> Call]
      /\ \A u \in Threads : req'[u].at # "no" =>
           req[u].at # "no" /\ req'[u].bo = req[u].bo /\ req'[u].size = req[u].size
  BY OneCall, Zenon
<1>2. NewPieces'
  BY <1>1, NewPiecesKept, Zenon
<1>3. SaType'
  <2>1. hole' \in 0..Len(olist)
    BY SeqLen DEF SaInv, SaType
  <2> QED
    BY <1>1, <2>1, Zenon DEF SaInv, SaType
<1>4. NoOverlap' /\ InUseKept' /\ FreedOnce'
  BY DEF SaInv, NoOverlap, InUseKept, FreedOnce
<1> QED
  BY <1>2, <1>3, <1>4, Zenon DEF SaInv

\* The call of a thread outside amdgpu_sa_bo_new.
LEMMA NoCall == NoRequest \in Call /\ NoRequest.at = "no"
<1>1. 1 \in 1..Size /\ 0 \in 0..Size
  BY SaAssumption
<1>2. [i \in Lists |-> 0] \in [Lists -> Nat] /\ [i \in Lists |-> None] \in [Lists -> Bos \cup {None}]
  BY Zenon
<1> QED
  BY <1>1, <1>2, Zenon DEF NoRequest, Call, Where

\* amdgpu_sa_bo_new is called: kmalloc gives a piece that is nobody's.
LEMMA RequestStep ==
    ASSUME SaInv, NEW t \in Threads, NEW size \in Sizes, NEW align \in Aligns,
           Request(t, size, align)
    PROVE  SaInv'
<1>1. /\ req[t].at = "no" /\ count < MaxAllocs /\ count' = count + 1
      /\ UNCHANGED <<olist, hole, flist, range, held, busy>>
  BY Zenon DEF Request
<1>2. count \in Nat /\ MaxAllocs \in Nat
  BY SaAssumption DEF SaInv, SaType
<1>3. PICK c : c = [NoRequest EXCEPT !.at = "lock", !.bo = count + 1, !.size = size, !.align = align]
  BY Zenon
<1>4. req' = [req EXCEPT ![t] = c]
  BY <1>3, Zenon DEF Request
<1>5. /\ c \in Call /\ c.bo = count + 1 /\ c.size # 0 /\ count + 1 \in 1..MaxAllocs
  <2>1. size \in 1..Size /\ align \in 1..Size /\ Size \in Nat
    BY SaAssumption, Zenon
  <2>2. count + 1 \in 1..MaxAllocs
    BY <1>1, <1>2
  <2>3. /\ NoRequest.tries \in [Lists -> Nat] /\ NoRequest.fences \in [Lists -> Bos \cup {None}]
        /\ c = [at |-> "lock", bo |-> count + 1, size |-> size, align |-> align,
                tries |-> NoRequest.tries, fences |-> NoRequest.fences]
    BY <1>3, NoCall, Zenon DEF NoRequest, Call
  <2>4. c \in Call /\ c.bo = count + 1 /\ c.size = size
    BY <2>1, <2>2, <2>3 DEF Call, Where, Bos
  <2> QED
    BY <2>1, <2>2, <2>4
<1>6. req' \in [Threads -> Call]
  BY <1>4, <1>5, Zenon DEF SaInv, SaType
<1>7. SaType'
  BY <1>1, <1>2, <1>6 DEF SaInv, SaType
<1>8. NewPieces'
  <2>1. \A k \in DOMAIN olist : olist[k] \in 1..count
    BY Zenon DEF SaInv, NewPieces
  <2>2. ~In(count + 1, olist)
    BY <1>2, <2>1 DEF In
  <2>3. \A u \in Threads : req[u].at # "no" =>
           req[u].bo \in 1..count /\ ~In(req[u].bo, olist) /\ req[u].size # 0
    BY Zenon DEF SaInv, NewPieces
  <2>4. \A u \in Threads : req'[u] = IF u = t THEN c ELSE req[u]
    BY <1>4, Zenon DEF SaInv, SaType
  <2>5. \A u, v \in Threads : u # v /\ req[u].at # "no" /\ req[v].at # "no" => req[u].bo # req[v].bo
    BY Zenon DEF SaInv, NewPieces
  <2>6. ASSUME NEW u \in Threads, req'[u].at # "no"
        PROVE  /\ req'[u].bo \in 1..count' /\ ~In(req'[u].bo, olist') /\ req'[u].size # 0
               /\ \A v \in Threads \ {u} : req'[v].at # "no" => req'[v].bo # req'[u].bo
    <3>1. CASE u = t
      BY <1>1, <1>2, <1>5, <2>2, <2>3, <2>4, <3>1
    <3>2. CASE u # t
      BY <1>1, <1>2, <1>5, <2>3, <2>4, <2>5, <2>6, <3>2
    <3> QED
      BY <3>1, <3>2, Zenon
  <2> QED
    BY <1>1, <1>2, <2>1, <2>6 DEF NewPieces
<1>9. NoOverlap' /\ InUseKept' /\ FreedOnce'
  BY <1>1 DEF SaInv, NoOverlap, InUseKept, FreedOnce
<1> QED
  BY <1>1, <1>7, <1>8, <1>9, Zenon DEF SaInv

\* amdgpu_sa_bo_try_free takes away a piece that is freed and whose fence is signaled.
LEMMA TryFreeStep ==
    ASSUME SaInv, NEW t \in Threads, TryFree(t)
    PROVE  SaInv'
<1>1. PICK b : b = olist[hole + 1]
  BY Zenon
<1>2. /\ hole # Len(olist) /\ b \notin busy /\ \E i \in Lists : In(b, flist[i])
      /\ RemoveLocked(b, hole) /\ UNCHANGED <<range, held, busy, count, req>>
  BY <1>1, Zenon DEF TryFree, NextDone, AtEnd, Done
<1>3. In(b, olist) /\ hole \in 0..Len(olist)
  <2>1. PICK n \in Nat : n = Len(olist) /\ DOMAIN olist = 1..n
    BY SeqLen, Zenon DEF SaInv, SaType
  <2>2. hole \in 0..n /\ hole # n
    BY <1>2, <2>1, Zenon DEF SaInv, SaType
  <2>3. hole + 1 \in DOMAIN olist
    BY <2>1, <2>2
  <2> QED
    BY <1>1, <2>1, <2>2, <2>3, Zenon DEF In
<1>4. held' = held \ {b}
  BY <1>2 DEF In, SaInv, FreedOnce
<1>5. /\ olist' \in Seq(Bos) /\ hole' \in 0..Len(olist') /\ flist' \in [Lists -> Seq(Bos)]
      /\ \A x : In(x, olist') => In(x, olist)
      /\ NoOverlap' /\ InUseKept' /\ held' \cap busy' = {} /\ FreedOnce'
  BY <1>2, <1>3, <1>4, Removal, Zenon
<1>6. NewPieces'
  BY <1>2, <1>5, NewPiecesKept, Zenon
<1> QED
  BY <1>2, <1>5, <1>6, Zenon DEF SaInv, SaType

\* The offsets around the hole, and a piece that fits between them with its padding.
LEMMA HoleFacts ==
    ASSUME SaInv, NEW align \in 1..Size
    PROVE  /\ HoleSoffset \in Nat /\ HoleEoffset \in Nat /\ HoleEoffset <= Size
           /\ Wasted(HoleSoffset, align) \in Nat
           /\ \A k \in DOMAIN olist : k <= hole => range[olist[k]].eoffset <= HoleSoffset
           /\ \A k \in DOMAIN olist : k > hole => range[olist[k]].soffset >= HoleEoffset
<1>1. PICK n \in Nat : n = Len(olist) /\ DOMAIN olist = 1..n /\ olist \in [1..n -> Bos]
  BY SeqLen, Zenon DEF SaInv, SaType
<1>2. hole \in 0..n
  BY <1>1, Zenon DEF SaInv, SaType
<1>3. \A k \in 1..n : /\ range[olist[k]].soffset \in Nat /\ range[olist[k]].eoffset \in Nat
                      /\ range[olist[k]].soffset < range[olist[k]].eoffset
                      /\ range[olist[k]].eoffset <= Size
  BY <1>1, Zenon DEF SaInv, SaType, NoOverlap
<1>4. \A k, l \in 1..n : k < l => range[olist[k]].eoffset <= range[olist[l]].soffset
  BY <1>1, Zenon DEF SaInv, NoOverlap
<1>5. Size \in Nat /\ align \in Nat \ {0}
  BY SaAssumption
<1>6. HoleSoffset \in Nat
  BY <1>2, <1>3 DEF HoleSoffset
<1>7. HoleEoffset \in Nat /\ HoleEoffset <= Size
  <2>1. CASE hole = n
    BY <1>1, <1>5, <2>1 DEF HoleEoffset
  <2>2. CASE hole # n
    <3>0. hole + 1 \in 1..n
      BY <1>2, <2>2
    <3>1. hole + 1 \in 1..n /\ HoleEoffset = range[olist[hole + 1]].soffset
      BY <1>1, <2>2, <3>0, Zenon DEF HoleEoffset
    <3>2. /\ HoleEoffset \in Nat /\ HoleEoffset < range[olist[hole + 1]].eoffset
          /\ range[olist[hole + 1]].eoffset \in Nat /\ range[olist[hole + 1]].eoffset <= Size
      BY <1>3, <3>1, Zenon
    <3> QED
      BY <1>5, <3>2
  <2> QED
    BY <2>1, <2>2, Zenon
<1>8. Wasted(HoleSoffset, align) \in Nat
  <2>1. align - (HoleSoffset % align) \in Int
    BY <1>5, <1>6, ModDef
  <2>2. PICK x \in Int : x = align - (HoleSoffset % align)
    BY <2>1, Zenon
  <2>3. x % align \in 0..(align - 1)
    BY <1>5, ModDef, Zenon
  <2> QED
    BY <1>5, <2>2, <2>3 DEF Wasted
<1>9. ASSUME NEW k \in 1..n, k <= hole
      PROVE  range[olist[k]].eoffset <= HoleSoffset
  <2>1. hole \in 1..n /\ hole # 0 /\ HoleSoffset = range[olist[hole]].eoffset
    BY <1>2, <1>9 DEF HoleSoffset
  <2>2. CASE k = hole
    BY <1>6, <2>1, <2>2
  <2>3. CASE k < hole
    <3>1. /\ range[olist[k]].eoffset <= range[olist[hole]].soffset
          /\ range[olist[hole]].soffset < range[olist[hole]].eoffset
          /\ range[olist[k]].eoffset \in Nat /\ range[olist[hole]].soffset \in Nat
          /\ range[olist[hole]].eoffset \in Nat
      BY <1>3, <1>4, <2>1, <2>3, Zenon
    <3> QED
      BY <2>1, <3>1
  <2> QED
    BY <1>2, <1>9, <2>2, <2>3
<1>10. ASSUME NEW k \in 1..n, k > hole
       PROVE  range[olist[k]].soffset >= HoleEoffset
  <2>1. hole + 1 \in 1..n /\ hole # n
    BY <1>2, <1>10
  <2>2. HoleEoffset = range[olist[hole + 1]].soffset
    BY <1>1, <2>1, Zenon DEF HoleEoffset
  <2>3. CASE k = hole + 1
    BY <1>7, <2>2, <2>3
  <2>4. CASE k > hole + 1
    <3>1. /\ range[olist[hole + 1]].eoffset <= range[olist[k]].soffset
          /\ range[olist[hole + 1]].soffset < range[olist[hole + 1]].eoffset
          /\ range[olist[hole + 1]].eoffset \in Nat /\ range[olist[hole + 1]].soffset \in Nat
          /\ range[olist[k]].soffset \in Nat
      BY <1>3, <1>4, <2>1, <2>4, Zenon
    <3> QED
      BY <2>2, <3>1
  <2> QED
    BY <1>2, <1>10, <2>3, <2>4
<1> QED
  BY <1>1, <1>6, <1>7, <1>8, <1>9, <1>10, Zenon

\* amdgpu_sa_bo_try_alloc puts the new piece into the hole.
LEMMA AllocStep ==
    ASSUME SaInv, NEW t \in Threads, TryAlloc(t), Fits(req[t].size, req[t].align)
    PROVE  SaInv'
<1>1. PICK b, so, eo : /\ b = req[t].bo /\ so = HoleSoffset + Wasted(HoleSoffset, req[t].align)
                       /\ eo = so + req[t].size
  BY Zenon
<1>2. /\ req[t].at # "no" /\ UNCHANGED <<flist, busy, count>>
      /\ range' = [range EXCEPT ![b] = [soffset |-> so, eoffset |-> eo]]
      /\ olist' = InsertAfter(olist, hole, b) /\ hole' = hole + 1
      /\ held' = held \cup {b} /\ req' = [req EXCEPT ![t] = NoRequest]
  BY <1>1, Zenon DEF TryAlloc
<1>3. PICK n \in Nat : n = Len(olist) /\ DOMAIN olist = 1..n /\ olist \in [1..n -> Bos]
  BY SeqLen, Zenon DEF SaInv, SaType
<1>4. /\ hole \in 0..n /\ b \in Bos /\ b \in 1..count /\ ~In(b, olist)
      /\ req[t].size \in 1..Size /\ req[t].align \in 1..Size /\ Size \in Nat
  <2>1. req[t] \in Call
    BY Zenon DEF SaInv, SaType
  <2>2. req[t].size \in 0..Size /\ req[t].align \in 1..Size /\ Size \in Nat
    BY <2>1, SaAssumption, Zenon DEF Call
  <2>3. req[t].bo \in 1..count /\ ~In(req[t].bo, olist) /\ req[t].size # 0
    BY <1>2, Zenon DEF SaInv, NewPieces
  <2>4. hole \in 0..n /\ count \in 0..MaxAllocs /\ MaxAllocs \in Nat
    BY <1>3, SaAssumption, Zenon DEF SaInv, SaType
  <2> QED
    BY <1>1, <2>2, <2>3, <2>4 DEF Bos
<1>5. /\ so \in Nat /\ eo \in Nat /\ so < eo /\ eo <= HoleEoffset /\ eo <= Size /\ HoleSoffset <= so
      /\ HoleSoffset \in Nat /\ HoleEoffset \in Nat
  <2>1. PICK waste \in Nat : waste = Wasted(HoleSoffset, req[t].align)
    BY <1>4, HoleFacts, Zenon
  <2>2. /\ HoleSoffset \in Nat /\ HoleEoffset \in Nat /\ HoleEoffset <= Size
    BY <1>4, HoleFacts, Zenon
  <2>3. HoleEoffset - HoleSoffset >= req[t].size + waste
    BY <2>1, Zenon DEF Fits
  <2> QED
    BY <1>1, <1>4, <2>1, <2>2, <2>3
<1>6. /\ olist' \in Seq(Bos) /\ Len(olist') = n + 1 /\ DOMAIN olist' = 1..(n + 1)
      /\ \A k \in 1..(n + 1) : olist'[k] = IF k <= hole THEN olist[k]
                                         ELSE IF k = hole + 1 THEN b ELSE olist[k - 1]
  <2>1. olist \in Seq(Bos) /\ hole \in 0..Len(olist)
    BY Zenon DEF SaInv, SaType
  <2>2. PICK o : o = InsertAfter(olist, hole, b)
    BY Zenon
  <2>3. o \in Seq(Bos) /\ Len(o) = Len(olist) + 1 /\ DOMAIN o = 1..(Len(olist) + 1)
    BY <1>4, <2>1, <2>2, InsertFacts
  <2>4. \A k \in 1..(Len(olist) + 1) : o[k] = IF k <= hole THEN olist[k]
                                             ELSE IF k = hole + 1 THEN b ELSE olist[k - 1]
    BY <2>2, Zenon DEF InsertAfter
  <2> QED
    BY <1>2, <1>3, <2>2, <2>3, <2>4, Zenon
<1>7. \A x : In(x, olist') <=> In(x, olist) \/ x = b
  <2>1. olist \in Seq(Bos) /\ hole \in 0..Len(olist)
    BY DEF SaInv, SaType
  <2>2. \A x : In(x, InsertAfter(olist, hole, b)) <=> In(x, olist) \/ x = b
    BY <1>4, <2>1, InsertIn, Zenon
  <2> QED
    BY <1>2, <2>2, Zenon
<1>8. /\ range' \in [Bos -> [soffset : Nat, eoffset : Nat]]
      /\ range'[b].soffset = so /\ range'[b].eoffset = eo
      /\ \A k \in 1..n : range'[olist[k]] = range[olist[k]]
  <2>1. \A k \in 1..n : olist[k] # b
    BY <1>3, <1>4, Zenon DEF In
  <2> QED
    BY <1>2, <1>3, <1>4, <1>5, <2>1, Zenon DEF SaInv, SaType
<1>9. NoOverlap'
  <2>1. PICK S, E : /\ S = [k \in 1..n |-> range[olist[k]].soffset]
                    /\ E = [k \in 1..n |-> range[olist[k]].eoffset]
    BY Zenon
  <2>2. /\ \A k \in 1..n : /\ S[k] = range[olist[k]].soffset /\ E[k] = range[olist[k]].eoffset
                            /\ S[k] \in Nat /\ E[k] \in Nat /\ S[k] < E[k] /\ E[k] <= Size
        /\ \A k, l \in 1..n : k < l => E[k] <= S[l]
    BY <1>3, <2>1, Zenon DEF SaInv, SaType, NoOverlap
  <2>3. /\ \A k \in 1..n : k <= hole => E[k] <= so
        /\ \A k \in 1..n : k > hole => eo <= S[k]
    <3>1. /\ \A k \in 1..n : k <= hole => E[k] <= HoleSoffset
          /\ \A k \in 1..n : k > hole => S[k] >= HoleEoffset
      BY <1>3, <1>4, <2>2, HoleFacts, Zenon
    <3> QED
      BY <1>5, <2>2, <3>1
  <2>4. PICK S1, E1 : /\ S1 = [k \in 1..(n + 1) |-> range'[olist'[k]].soffset]
                      /\ E1 = [k \in 1..(n + 1) |-> range'[olist'[k]].eoffset]
    BY Zenon
  <2>5. \A k \in 1..(n + 1) :
          /\ S1[k] = IF k <= hole THEN S[k] ELSE IF k = hole + 1 THEN so ELSE S[k - 1]
          /\ E1[k] = IF k <= hole THEN E[k] ELSE IF k = hole + 1 THEN eo ELSE E[k - 1]
    <3> SUFFICES ASSUME NEW k \in 1..(n + 1)
                 PROVE /\ S1[k] = IF k <= hole THEN S[k] ELSE IF k = hole + 1 THEN so ELSE S[k - 1]
                       /\ E1[k] = IF k <= hole THEN E[k] ELSE IF k = hole + 1 THEN eo ELSE E[k - 1]
      BY Zenon
    <3>1. S1[k] = range'[olist'[k]].soffset /\ E1[k] = range'[olist'[k]].eoffset
      BY <2>4, Zenon
    <3>2. CASE k <= hole
      BY <1>4, <1>6, <1>8, <2>2, <3>1, <3>2, SMTT(60)
    <3>3. CASE k = hole + 1
      BY <1>4, <1>6, <1>8, <3>1, <3>3
    <3>4. CASE k > hole + 1
      <4>1. k - 1 \in 1..n /\ ~(k <= hole) /\ k # hole + 1
        BY <1>4, <3>4
      <4> QED
        <5>0. olist'[k] = olist[k - 1]
          BY <1>6, <4>1, Zenon
        <5>1. olist'[k] = olist[k - 1] /\ range'[olist[k - 1]] = range[olist[k - 1]]
          BY <1>8, <4>1, <5>0, Zenon
        <5>2. S1[k] = S[k - 1] /\ E1[k] = E[k - 1]
          BY <2>2, <3>1, <4>1, <5>1, Zenon
        <5> QED
          BY <4>1, <5>2, Zenon
    <3> QED
      BY <1>4, <3>2, <3>3, <3>4
  <2>6. \A k \in 1..(n + 1) : S1[k] < E1[k] /\ E1[k] <= Size
    BY <1>4, <1>5, <2>2, <2>5
  <2>7. \A k, l \in 1..(n + 1) : k < l => E1[k] <= S1[l]
    BY <1>4, <1>5, <2>2, <2>3, <2>5
  <2> QED
    BY <1>6, <2>4, <2>6, <2>7, Zenon DEF NoOverlap
<1>10. InUseKept' /\ held' \cap busy' = {}
  <2>1. b \notin busy
    BY <1>4, Zenon DEF SaInv, InUseKept
  <2> QED
    BY <1>2, <1>7, <2>1, Zenon DEF SaInv, InUseKept
<1>11. FreedOnce'
  <2>1. \A i \in Lists : \A k \in DOMAIN flist[i] : In(flist[i][k], olist) /\ flist[i][k] \notin held
    BY Zenon DEF SaInv, FreedOnce
  <2>2. \A i \in Lists : \A k \in DOMAIN flist[i] : In(flist[i][k], olist') /\ flist[i][k] \notin held'
    BY <1>2, <1>4, <1>7, <2>1, Zenon
  <2> QED
    BY <1>2, <2>2 DEF SaInv, FreedOnce
<1>12. SaType'
  <2>1. hole' \in 0..Len(olist')
    BY <1>2, <1>4, <1>6
  <2>2. req' \in [Threads -> Call]
    BY <1>2, NoCall, Zenon DEF SaInv, SaType
  <2>3. olist' \in Seq(Bos) /\ UNCHANGED <<flist, count>>
    BY <1>2, <1>6, Zenon
  <2>4. range' \in [Bos -> [soffset : Nat, eoffset : Nat]]
    BY <1>8, Zenon
  <2>5. flist \in [Lists -> Seq(Bos)] /\ count \in 0..MaxAllocs
    BY Zenon DEF SaInv, SaType
  <2> QED
    BY <2>1, <2>2, <2>3, <2>4, <2>5, Zenon DEF SaType
<1>13. NewPieces'
  <2>1. \A k \in DOMAIN olist : olist[k] \in 1..count
    BY Zenon DEF SaInv, NewPieces
  <2>2. \A x : In(x, olist) => x \in 1..count
    BY <2>1, Zenon DEF In
  <2>3. \A k \in DOMAIN olist' : olist'[k] \in 1..count'
    BY <1>2, <1>4, <1>7, <2>2, Zenon DEF In
  <2>4. \A u \in Threads : req'[u] = IF u = t THEN NoRequest ELSE req[u]
    BY <1>2, Zenon DEF SaInv, SaType
  <2>5. ASSUME NEW u \in Threads, req'[u].at # "no"
        PROVE  /\ req'[u].bo \in 1..count' /\ ~In(req'[u].bo, olist') /\ req'[u].size # 0
               /\ \A v \in Threads \ {u} : req'[v].at # "no" => req'[v].bo # req'[u].bo
    <3>1. u # t /\ req'[u] = req[u] /\ req[u].at # "no"
      BY <2>4, <2>5, NoCall, Zenon
    <3>2. /\ req[u].bo \in 1..count /\ ~In(req[u].bo, olist) /\ req[u].size # 0
          /\ \A v \in Threads \ {u} : req[v].at # "no" => req[v].bo # req[u].bo
      BY <3>1, Zenon DEF SaInv, NewPieces
    <3>3. req[u].bo # b
      BY <1>1, <1>2, <3>1, <3>2, Zenon
    <3> QED
      BY <1>2, <1>7, <2>4, <3>1, <3>2, <3>3, NoCall, Zenon
  <2> QED
    BY <2>3, <2>5, Zenon DEF NewPieces
<1> QED
  BY <1>9, <1>10, <1>11, <1>12, <1>13, Zenon DEF SaInv

\* The fences that amdgpu_sa_bo_next_hole notes.
LEMMA NotedType ==
    ASSUME SaInv, NEW t \in Threads
    PROVE  NotedFences(t) \in [Lists -> Bos \cup {None}]
<1>1. req[t].fences \in [Lists -> Bos \cup {None}]
  BY Zenon DEF SaInv, SaType, Call
<1>2. \A i \in Lists : flist[i] # <<>> => Head(flist[i]) \in Bos
  BY DEF SaInv, SaType
<1> QED
  BY <1>1, <1>2, Zenon DEF NotedFences

\* amdgpu_sa_bo_next_hole: the search starts again from the beginning of the buffer, frees
\* the closest piece that is done and goes on there, or ends.
LEMMA SkipStep ==
    ASSUME SaInv, NEW t \in Threads, Skip(t)
    PROVE  SaInv'
<1>1. req[t].at = "skip" /\ UNCHANGED <<range, held, busy, count>> /\ req[t] \in Call
  BY Zenon DEF Skip, SaInv, SaType
<1>2. PICK fs \in [Lists -> Bos \cup {None}] : fs = NotedFences(t)
  BY NotedType, Zenon
<1>3. CASE /\ hole' = 0 /\ req' = [req EXCEPT ![t].at = "try"] /\ UNCHANGED <<olist, flist>>
  <2>1. PICK c : c = [req[t] EXCEPT !.at = "try"]
    BY Zenon
  <2>2. /\ c \in Call /\ c.bo = req[t].bo /\ c.size = req[t].size
        /\ req' = [req EXCEPT ![t] = c]
    BY <1>1, <1>3, <2>1, Zenon DEF Call, Where
  <2> QED
    BY <1>1, <1>3, <2>2, CallStep, Zenon
<1>4. CASE /\ req' = [req EXCEPT ![t].at = "collect", ![t].fences = NotedFences(t)]
           /\ UNCHANGED <<olist, hole, flist>>
  <2>1. PICK c : c = [req[t] EXCEPT !.at = "collect", !.fences = fs]
    BY Zenon
  <2>2. /\ c \in Call /\ c.bo = req[t].bo /\ c.size = req[t].size
    BY <1>1, <2>1, Zenon DEF Call, Where
  <2>3. req' = [req EXCEPT ![t] = c]
    BY <1>2, <1>4, <2>1, Zenon
  <2> QED
    BY <1>1, <1>4, <2>2, <2>3, CallStep, Zenon
<1>5. ASSUME NEW i \in Candidates(t), NEW b, b = Head(flist[i]),
             RemoveLocked(b, Place(b, olist) - 1),
             req' = [req EXCEPT ![t].at = "try", ![t].fences = NotedFences(t), ![t].tries[i] = @ + 1]
      PROVE  SaInv'
  <2>1. i \in Lists /\ flist[i] # <<>> /\ b \notin busy /\ flist[i] \in Seq(Bos)
    BY <1>5, Zenon DEF Candidates, SaInv, SaType
  <2>2. 1 \in DOMAIN flist[i] /\ b = flist[i][1]
    BY <1>5, <2>1
  <2>3. In(b, olist) /\ b \notin held
    BY <2>1, <2>2, Zenon DEF SaInv, FreedOnce
  <2>4. Place(b, olist) - 1 \in 0..Len(olist)
    <3>1. PICK n \in Nat : n = Len(olist) /\ DOMAIN olist = 1..n
      BY SeqLen, Zenon DEF SaInv, SaType
    <3>2. Place(b, olist) \in 1..n
      BY <2>3, <3>1, PlaceIn, Zenon
    <3> QED
      BY <3>1, <3>2
  <2>5. held' = held \ {b}
    BY <1>1, <2>3, Zenon
  <2>6. /\ olist' \in Seq(Bos) /\ hole' \in 0..Len(olist') /\ flist' \in [Lists -> Seq(Bos)]
        /\ \A x : In(x, olist') => In(x, olist)
        /\ NoOverlap' /\ InUseKept' /\ held' \cap busy' = {} /\ FreedOnce'
    BY <1>1, <1>5, <2>1, <2>3, <2>4, <2>5, Removal, Zenon
  <2>7. PICK ts \in [Lists -> Nat] : ts = [req[t].tries EXCEPT ![i] = @ + 1]
    <3>1. req[t].tries \in [Lists -> Nat]
      BY <1>1, Zenon DEF Call
    <3>2. req[t].tries[i] + 1 \in Nat
      BY <2>1, <3>1
    <3>3. [req[t].tries EXCEPT ![i] = @ + 1] \in [Lists -> Nat]
      BY <3>1, <3>2, Zenon
    <3> QED
      BY <3>3, Zenon
  <2>8. PICK c : c = [req[t] EXCEPT !.at = "try", !.fences = fs, !.tries = ts]
    BY Zenon
  <2>9. c \in Call /\ c.bo = req[t].bo /\ c.size = req[t].size
    BY <1>1, <2>8, Zenon DEF Call, Where
  <2>10. req' = [req EXCEPT ![t] = c]
    BY <1>1, <1>2, <1>5, <2>7, <2>8, Zenon DEF SaInv, SaType, Call
  <2>11. /\ req' \in [Threads -> Call]
         /\ \A u \in Threads : req'[u].at # "no" =>
              req[u].at # "no" /\ req'[u].bo = req[u].bo /\ req'[u].size = req[u].size
    BY <1>1, <2>9, <2>10, OneCall, Zenon
  <2>12. NewPieces'
    BY <1>1, <2>6, <2>11, NewPiecesKept, Zenon
  <2> QED
    BY <1>1, <2>6, <2>11, <2>12, Zenon DEF SaInv, SaType
<1> QED
  BY <1>3, <1>4, <1>5, Zenon DEF Skip

\* The steps of amdgpu_sa_bo_new that take the lock, wait and fail.
LEMMA WaitStep ==
    ASSUME SaInv, NEW t \in Threads,
           Lock(t) \/ Collect(t) \/ FenceWaited(t) \/ Event(t) \/ Woken(t) \/ Interrupted(t)
    PROVE  SaInv'
<1>1. UNCHANGED <<olist, hole, flist, range, held, busy, count>> /\ req[t].at # "no"
  BY Zenon DEF Lock, Collect, FenceWaited, Event, Woken, Interrupted
<1>2. req[t] \in Call
  BY Zenon DEF SaInv, SaType
<1>3. Begin(t) \in Call /\ Begin(t).bo = req[t].bo /\ Begin(t).size = req[t].size
  <2>1. NoRequest.tries \in [Lists -> Nat] /\ NoRequest.fences \in [Lists -> Bos \cup {None}]
    BY NoCall, Zenon DEF Call
  <2> QED
    BY <1>2, <2>1, Zenon DEF Begin, Call, Where
<1>4. \E c \in {NoRequest, Begin(t)} \cup {[req[t] EXCEPT !.at = a] : a \in Where} :
        req' = [req EXCEPT ![t] = c]
  <2>1. CASE req' = [req EXCEPT ![t] = Begin(t)]
    BY <2>1, Zenon
  <2>2. CASE req' = [req EXCEPT ![t] = NoRequest]
    BY <2>2, Zenon
  <2>3. CASE \E a \in Where : req' = [req EXCEPT ![t].at = a]
    BY <2>3, Zenon
  <2>4. \/ req' = [req EXCEPT ![t] = Begin(t)]
        \/ req' = [req EXCEPT ![t] = NoRequest]
        \/ \E a \in {"fences", "event", "lock", "sleep"} : req' = [req EXCEPT ![t].at = a]
    BY Zenon DEF Lock, Collect, FenceWaited, Event, Woken, Interrupted
  <2> QED
    BY <2>1, <2>2, <2>3, <2>4, Zenon DEF Where
<1>5. PICK c : /\ c \in {NoRequest, Begin(t)} \cup {[req[t] EXCEPT !.at = a] : a \in Where}
               /\ req' = [req EXCEPT ![t] = c]
  BY <1>4, Zenon
<1>6. c \in Call /\ (c.at # "no" => c.bo = req[t].bo /\ c.size = req[t].size)
  <2>1. CASE c = NoRequest
    BY <2>1, NoCall, Zenon
  <2>2. CASE c = Begin(t)
    BY <1>3, <2>2, Zenon
  <2>3. ASSUME NEW a \in Where, c = [req[t] EXCEPT !.at = a]
        PROVE  c \in Call /\ c.bo = req[t].bo /\ c.size = req[t].size
    BY <1>2, <2>3, Zenon DEF Call
  <2> QED
    BY <1>5, <2>1, <2>2, <2>3, Zenon
<1> QED
  BY <1>1, <1>5, <1>6, CallStep, Zenon

\* wake_up_all_locked lets the sleeping requests go on.
LEMMA Woke ==
    ASSUME SaInv, WakeAll
    PROVE  /\ req' \in [Threads -> Call]
           /\ \A u \in Threads : req'[u].at # "no" =>
                req[u].at # "no" /\ req'[u].bo = req[u].bo /\ req'[u].size = req[u].size
<1>1. req \in [Threads -> Call]
  BY Zenon DEF SaInv, SaType
<1>2. \A u \in Threads : /\ [req[u] EXCEPT !.at = "woken"] \in Call
                         /\ [req[u] EXCEPT !.at = "woken"].bo = req[u].bo
                         /\ [req[u] EXCEPT !.at = "woken"].size = req[u].size
  BY <1>1, SMTT(60) DEF Call, Where
<1>3. \A u \in Threads : req'[u] = IF req[u].at = "sleep" THEN [req[u] EXCEPT !.at = "woken"]
                                   ELSE req[u]
  BY Zenon DEF WakeAll
<1>4. req' \in [Threads -> Call]
  BY <1>1, <1>2, Zenon DEF WakeAll
<1> QED
  BY <1>2, <1>3, <1>4, Zenon

\* amdgpu_sa_bo_free with a fence that is not signaled.
LEMMA FreeLater ==
    ASSUME SaInv, NEW b \in Bos, NEW i \in Lists, FreeWithFence(b, i)
    PROVE  SaInv'
<1>1. /\ b \in held /\ flist' = [flist EXCEPT ![i] = Append(flist[i], b)]
      /\ held' = held \ {b} /\ busy' = busy \cup {b} /\ WakeAll
      /\ UNCHANGED <<olist, hole, range, count>>
  BY Zenon DEF FreeWithFence
<1>2. flist \in [Lists -> Seq(Bos)] /\ flist[i] \in Seq(Bos)
  BY Zenon DEF SaInv, SaType
<1>3. PICK n \in Nat : n = Len(flist[i]) /\ DOMAIN flist[i] = 1..n
  BY <1>2, SeqLen, Zenon
<1>4. /\ flist' \in [Lists -> Seq(Bos)] /\ flist'[i] = Append(flist[i], b)
      /\ \A j \in Lists \ {i} : flist'[j] = flist[j]
  <2>1. Append(flist[i], b) \in Seq(Bos)
    BY <1>2, SeqAppend, Zenon
  <2> QED
    BY <1>1, <1>2, <2>1, Zenon
<1>5. /\ DOMAIN flist'[i] = 1..(n + 1) /\ flist'[i][n + 1] = b
      /\ \A k \in 1..n : flist'[i][k] = flist[i][k]
  <2>1. /\ Append(flist[i], b) \in Seq(Bos) /\ Len(Append(flist[i], b)) = n + 1
        /\ \A k \in 1..n : Append(flist[i], b)[k] = flist[i][k]
        /\ Append(flist[i], b)[n + 1] = b
    BY <1>2, <1>3, SeqAppend
  <2> QED
    BY <1>4, <2>1, SeqLen, Zenon
<1>6. \A j \in Lists : \A k \in DOMAIN flist[j] :
        flist[j][k] # b /\ In(flist[j][k], olist) /\ flist[j][k] \notin held
  BY <1>1 DEF SaInv, FreedOnce
<1>7. /\ \A j \in Lists : \A k \in DOMAIN flist'[j] :
            \/ j = i /\ k = n + 1 /\ flist'[j][k] = b
            \/ k \in DOMAIN flist[j] /\ flist'[j][k] = flist[j][k]
  <2> SUFFICES ASSUME NEW j \in Lists, NEW k \in DOMAIN flist'[j]
               PROVE  \/ j = i /\ k = n + 1 /\ flist'[j][k] = b
                      \/ k \in DOMAIN flist[j] /\ flist'[j][k] = flist[j][k]
    BY Zenon
  <2>1. CASE j = i
    BY <1>3, <1>5, <2>1, SMTT(60)
  <2>2. CASE j # i
    BY <1>4, <2>2, Zenon
  <2> QED
    BY <2>1, <2>2, Zenon
<1>8. In(b, olist)
  BY <1>1, Zenon DEF SaInv, InUseKept
<1>9. FreedOnce'
  <2>1. ASSUME NEW j \in Lists, NEW l \in Lists, NEW k \in DOMAIN flist'[j],
               NEW m \in DOMAIN flist'[l], flist'[j][k] = flist'[l][m]
        PROVE  j = l /\ k = m
    <3>1. \A j1, l1 \in Lists : \A k1 \in DOMAIN flist[j1], m1 \in DOMAIN flist[l1] :
            flist[j1][k1] = flist[l1][m1] => j1 = l1 /\ k1 = m1
      BY Zenon DEF SaInv, FreedOnce
    <3>2. /\ \/ j = i /\ k = n + 1 /\ flist'[j][k] = b
             \/ k \in DOMAIN flist[j] /\ flist'[j][k] = flist[j][k]
          /\ \/ l = i /\ m = n + 1 /\ flist'[l][m] = b
             \/ m \in DOMAIN flist[l] /\ flist'[l][m] = flist[l][m]
      BY <1>7, Zenon
    <3> QED
      BY <1>6, <2>1, <3>1, <3>2
  <2>2. ASSUME NEW j \in Lists, NEW k \in DOMAIN flist'[j]
        PROVE  In(flist'[j][k], olist') /\ flist'[j][k] \notin held'
    BY <1>1, <1>6, <1>7, <1>8
  <2> QED
    BY <2>1, <2>2, Zenon DEF FreedOnce
<1>10. NoOverlap' /\ InUseKept' /\ held' \cap busy' = {}
  BY <1>1, <1>8, Zenon DEF SaInv, NoOverlap, InUseKept
<1>11. req' \in [Threads -> Call] /\ NewPieces'
  BY <1>1, Woke, NewPiecesKept, Zenon
<1>12. SaType'
  BY <1>1, <1>4, <1>11, Zenon DEF SaInv, SaType
<1> QED
  BY <1>9, <1>10, <1>11, <1>12, Zenon DEF SaInv

\* amdgpu_sa_bo_free without a fence, or with one that is signaled.
LEMMA FreeAtOnce ==
    ASSUME SaInv, NEW b \in Bos, FreeNow(b)
    PROVE  SaInv'
<1>1. /\ b \in held /\ RemoveLocked(b, hole) /\ held' = held \ {b} /\ WakeAll
      /\ UNCHANGED <<range, busy, count>>
  BY Zenon DEF FreeNow
<1>2. In(b, olist) /\ b \notin busy /\ hole \in 0..Len(olist)
  BY <1>1, Zenon DEF SaInv, SaType, InUseKept
<1>3. /\ olist' \in Seq(Bos) /\ hole' \in 0..Len(olist') /\ flist' \in [Lists -> Seq(Bos)]
      /\ \A x : In(x, olist') => In(x, olist)
      /\ NoOverlap' /\ InUseKept' /\ held' \cap busy' = {} /\ FreedOnce'
  BY <1>1, <1>2, Removal, Zenon
<1>4. req' \in [Threads -> Call] /\ NewPieces'
  BY <1>1, <1>3, Woke, NewPiecesKept, Zenon
<1> QED
  BY <1>1, <1>3, <1>4, Zenon DEF SaInv, SaType

\* A fence signals, or nothing happens.
LEMMA SignalStep ==
    ASSUME SaInv, (\E b \in Bos : Signal(b)) \/ UNCHANGED vars
    PROVE  SaInv'
<1>1. UNCHANGED <<olist, hole, flist, range, held, count, req>> /\ busy' \subseteq busy
  BY Zenon DEF Signal, vars
<1>2. NewPieces'
  BY <1>1, Zenon DEF SaInv, NewPieces
<1>3. SaType' /\ NoOverlap' /\ InUseKept' /\ FreedOnce'
  BY <1>1 DEF SaInv, SaType, NoOverlap, InUseKept, FreedOnce
<1> QED
  BY <1>1, <1>2, <1>3, Zenon DEF SaInv

\* SaInv is inductive.
LEMMA SaStep ==
    ASSUME SaInv, [Next]_vars
    PROVE  SaInv'
<1>1. ASSUME NEW t \in Threads, TryAlloc(t), ~Fits(req[t].size, req[t].align)
      PROVE  SaInv'
  <2>1. /\ UNCHANGED <<olist, hole, flist, range, held, busy, count>>
        /\ req[t].at = "try" /\ req' = [req EXCEPT ![t].at = "skip"] /\ req[t] \in Call
    BY <1>1, Zenon DEF TryAlloc, SaInv, SaType
  <2>2. PICK c : c = [req[t] EXCEPT !.at = "skip"]
    BY Zenon
  <2>3. c \in Call /\ c.bo = req[t].bo /\ c.size = req[t].size /\ req' = [req EXCEPT ![t] = c]
    BY <2>1, <2>2, Zenon DEF Call, Where
  <2> QED
    BY <2>1, <2>3, CallStep, Zenon
<1>2. ASSUME NEW t \in Threads, Step(t)
      PROVE  SaInv'
  BY <1>1, <1>2, AllocStep, TryFreeStep, SkipStep, WaitStep, Zenon DEF Step
<1>3. ASSUME NEW t \in Threads, Interrupted(t)
      PROVE  SaInv'
  BY <1>3, WaitStep, Zenon
<1>4. ASSUME NEW b \in Bos, Free(b)
      PROVE  SaInv'
  BY <1>4, FreeLater, FreeAtOnce, Zenon DEF Free
<1> QED
  BY <1>2, <1>3, <1>4, RequestStep, SignalStep, Zenon DEF Next

\* The state amdgpu_sa_bo_manager_init leaves.
LEMMA SaStart == Init => SaInv
<1> SUFFICES ASSUME Init PROVE SaInv
  BY Zenon
<1>1. SaType
  <2>1. MaxAllocs \in Nat
    BY SaAssumption, Zenon
  <2>2. req \in [Threads -> Call]
    BY NoCall, Zenon DEF Init
  <2> QED
    BY <2>1, <2>2 DEF Init, SaType
<1>2. DOMAIN olist = {} /\ \A i \in Lists : DOMAIN flist[i] = {}
  BY DEF Init
<1>3. NoOverlap /\ InUseKept /\ held \cap busy = {} /\ FreedOnce
  BY <1>2, Zenon DEF Init, NoOverlap, InUseKept, FreedOnce
<1>4. NewPieces
  BY <1>2, NoCall, Zenon DEF Init, NewPieces
<1> QED
  BY <1>1, <1>3, <1>4, Zenon DEF SaInv

\* The pieces in the buffer lie apart and inside it, wherever amdgpu_sa_bo_next_hole and
\* amdgpu_sa_bo_remove_locked move the hole.
THEOREM NoOverlapHolds == Spec => []NoOverlap
<1>1. Init => SaInv
  BY SaStart, Zenon
<1>2. SaInv /\ [Next]_vars => SaInv'
  BY SaStep, Zenon
<1>3. SaInv => NoOverlap
  BY Zenon DEF SaInv
<1> QED
  BY <1>1, <1>2, <1>3, PTL DEF Spec

\* A piece that its user holds, or that was freed with a fence that has not signaled, is in
\* the buffer: amdgpu_sa_bo_try_free and amdgpu_sa_bo_next_hole take away no other.
THEOREM InUseKeptHolds == Spec => []InUseKept
<1>1. Init => SaInv
  BY SaStart
<1>2. SaInv /\ [Next]_vars => SaInv'
  BY SaStep
<1>3. SaInv => InUseKept
  BY Zenon DEF SaInv
<1> QED
  BY <1>1, <1>2, <1>3, PTL DEF Spec

=============================================================================
