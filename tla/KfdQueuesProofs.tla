--------------------------- MODULE KfdQueuesProofs ---------------------------
(***************************************************************************)
(* Proofs about the device queue manager of amdkfd: its counters say what  *)
(* is on its lists, for any number of processes, queues and calls, and     *)
(* whatever fails.                                                         *)
(***************************************************************************)
EXTENDS KfdQueues, TLAPS

USE DEF pqmVars, dqmVars, cpVars

-----------------------------------------------------------------------------
(* The list of a process's queues *)

Members(s) == {s[i] : i \in DOMAIN s}

Distinct(s) == \A i, k \in DOMAIN s : s[i] = s[k] => i = k

\* the list with x at its head, as pqm_create_queue adds it
With(s, x) == <<x>> \o s

\* list_add of a queue that is not in the list.
LEMMA AddFirst ==
    ASSUME NEW s \in Seq(Queues), Distinct(s), NEW x \in Queues, x \notin Members(s),
           NEW a, a = With(s, x)
    PROVE  /\ a \in Seq(Queues) /\ Distinct(a)
           /\ Members(a) = Members(s) \cup {x}
<1>1. PICK n \in Nat : n = Len(s) /\ DOMAIN s = 1..n
  OBVIOUS
<1>2. /\ a \in Seq(Queues) /\ DOMAIN a = 1..(n + 1)
      /\ a[1] = x
      /\ \A i \in 1..n : a[i + 1] = s[i]
  BY <1>1 DEF With
<1>3. ASSUME NEW i \in 1..(n + 1) PROVE i = 1 \/ \E k \in 1..n : i = k + 1
  <2>1. i = 1 \/ (i - 1 \in 1..n /\ i = (i - 1) + 1)
    BY <1>1
  <2> QED
    BY <2>1, Zenon
<1>4. \A i \in 1..n : s[i] # x
  BY <1>1, Zenon DEF Members
<1>5. ASSUME NEW i \in 1..(n + 1), NEW k \in 1..(n + 1), a[i] = a[k] PROVE i = k
  <2>1. CASE i = 1
    BY <1>2, <1>3, <1>4, <1>5, <2>1, ZenonT(60)
  <2>2. CASE k = 1
    BY <1>2, <1>3, <1>4, <1>5, <2>2, ZenonT(60)
  <2>3. CASE i # 1 /\ k # 1
    <3>1. PICK g \in 1..n : i = g + 1
      BY <1>3, <2>3, Zenon
    <3>2. PICK h \in 1..n : k = h + 1
      BY <1>3, <2>3, Zenon
    <3> QED
      BY <1>1, <1>2, <1>5, <3>1, <3>2, ZenonT(60) DEF Distinct
  <2> QED
    BY <2>1, <2>2, <2>3, Zenon
<1>6. 1 \in 1..(n + 1) /\ \A i \in 1..n : i + 1 \in 1..(n + 1)
  BY <1>1
<1>7. Members(a) = Members(s) \cup {x}
  <2>1. ASSUME NEW y \in Members(a) PROVE y \in Members(s) \cup {x}
    <3>1. PICK i \in 1..(n + 1) : y = a[i]
      BY <1>2, <2>1, Zenon DEF Members
    <3>2. CASE i = 1
      BY <1>2, <3>1, <3>2, Zenon
    <3>3. CASE i # 1
      <4>1. PICK k \in 1..n : i = k + 1
        BY <1>3, <3>3, Zenon
      <4> QED
        BY <1>1, <1>2, <3>1, <4>1, Zenon DEF Members
    <3> QED
      BY <3>2, <3>3, Zenon
  <2>2. x \in Members(a)
    BY <1>2, <1>6, Zenon DEF Members
  <2>3. ASSUME NEW y \in Members(s) PROVE y \in Members(a)
    <3>1. PICK i \in 1..n : y = s[i]
      BY <1>1, <2>3, Zenon DEF Members
    <3> QED
      BY <1>2, <1>6, <3>1, Zenon DEF Members
  <2> QED
    BY <2>1, <2>2, <2>3, Zenon
<1> QED
  BY <1>2, <1>5, <1>7, Zenon DEF Distinct

\* list_del of a queue that is in the list.
LEMMA WithoutMembers ==
    ASSUME NEW S, NEW s \in Seq(S), Distinct(s), NEW x, x \in Members(s),
           NEW d, d = Without(s, x)
    PROVE  /\ d \in Seq(S) /\ Distinct(d)
           /\ Members(d) = Members(s) \ {x}
<1>1. PICK a : a = CHOOSE i \in DOMAIN s : s[i] = x
  BY Zenon
<1>2. PICK n \in Nat : n = Len(s) /\ DOMAIN s = 1..n
  OBVIOUS
<1>3. a \in 1..n /\ s[a] = x
  BY <1>1, <1>2, Zenon DEF Members
<1>4. d = [i \in 1..(n - 1) |-> IF i < a THEN s[i] ELSE s[i + 1]]
  BY <1>1, <1>2, Zenon DEF Without
<1>5. DOMAIN d = 1..(n - 1) /\ \A i \in 1..(n - 1) : d[i] = IF i < a THEN s[i] ELSE s[i + 1]
  BY <1>4, Zenon
<1>6. d \in Seq(S)
  <2>1. n - 1 \in Nat /\ \A i \in 1..(n - 1) : i \in 1..n /\ i + 1 \in 1..n
    BY <1>2, <1>3
  <2>2. \A i \in 1..(n - 1) : (IF i < a THEN s[i] ELSE s[i + 1]) \in S
    BY <1>2, <2>1
  <2> QED
    BY <1>4, <2>1, <2>2
<1>7. ASSUME NEW i \in DOMAIN d
      PROVE  \E k \in DOMAIN s : d[i] = s[k] /\ k # a /\ k = IF i < a THEN i ELSE i + 1
  BY <1>2, <1>3, <1>5
<1>8. ASSUME NEW i \in DOMAIN d, NEW k \in DOMAIN d, d[i] = d[k] PROVE i = k
  <2>1. PICK g \in DOMAIN s : d[i] = s[g] /\ g = IF i < a THEN i ELSE i + 1
    BY <1>7, Zenon
  <2>2. PICK h \in DOMAIN s : d[k] = s[h] /\ h = IF k < a THEN k ELSE k + 1
    BY <1>7, Zenon
  <2>3. g = h
    BY <1>8, <2>1, <2>2, Zenon DEF Distinct
  <2> QED
    BY <1>2, <1>3, <1>5, <2>1, <2>2, <2>3
<1>9. ASSUME NEW k \in DOMAIN s, s[k] # x PROVE \E i \in DOMAIN d : d[i] = s[k]
  <2>1. CASE k < a
    BY <1>2, <1>3, <1>5, <2>1
  <2>2. CASE k > a
    <3>1. k - 1 \in 1..(n - 1) /\ ~(k - 1 < a) /\ (k - 1) + 1 = k
      BY <1>2, <1>3, <2>2
    <3>2. d[k - 1] = s[k]
      BY <1>5, <3>1, Zenon
    <3> QED
      BY <1>5, <3>1, <3>2, Zenon
  <2> QED
    BY <1>2, <1>3, <1>9, <2>1, <2>2
<1>10. ASSUME NEW i \in DOMAIN d PROVE d[i] # x /\ \E k \in DOMAIN s : d[i] = s[k]
  BY <1>2, <1>3, <1>7, Zenon DEF Distinct
<1>11. ASSUME NEW y \in Members(d) PROVE y \in Members(s) \ {x}
  BY <1>10, <1>11, Zenon DEF Members
<1>12. ASSUME NEW y \in Members(s), y # x PROVE y \in Members(d)
  BY <1>9, <1>12, Zenon DEF Members
<1>13. Members(d) = Members(s) \ {x}
  BY <1>11, <1>12, Zenon
<1> QED
  BY <1>6, <1>8, <1>13, Zenon DEF Distinct

-----------------------------------------------------------------------------
(* The invariant *)

Places == {"idle", "register", "lock", "preempt", "unmap", "query", "wait", "unlist",
           "runlist", "done", "oops", "unregister"}

Ops == [at : Places, call : {"none", "create", "destroy", "update"}, q : 0..MaxCalls,
        all : BOOLEAN]

\* the places of a call that holds the lock of the device queue manager
Working == {"preempt", "unmap", "query", "wait", "unlist", "runlist", "done", "oops"}

\* the queues in the list of process p
Mine(p) == Members(pqm[p])

\* queues are records; their fields may be anything
QueueRecords ==
    /\ queue = [q \in Queues |-> queue[q]]
    /\ \A q \in Queues : queue[q] = [proc |-> queue[q].proc, qid |-> queue[q].qid,
                                     type |-> queue[q].type, active |-> queue[q].active,
                                     freed |-> queue[q].freed]

QueueTypes ==
    /\ QueueRecords
    /\ made \in Nat /\ updates \in Nat /\ made <= MaxCalls
    /\ pqm \in [Procs -> Seq(Queues)] /\ \A p \in Procs : Distinct(pqm[p])
    /\ listed \in SUBSET Queues
    /\ op \in [Procs -> Ops] /\ lock \in Procs \cup {None}

\* the lock is held by the process whose call works on the device
LockInv == \A p \in Procs : op[p].at \in Working <=> lock = p

\* what is on the lists has been made; the debugger's queue is always active
ListedOk == \A q \in listed : q <= made /\ queue[q].proc \in Procs
DiqOk == \A q \in Queues : IsDiq(q) /\ queue[q].proc # None => queue[q].active

\* a queue of a process is listed, unless the process is about to destroy it
MineOk(p) ==
    \A q \in Mine(p) :
        /\ q <= made /\ queue[q].proc = p
        /\ q \in listed \/ (op[p].at \in Working /\ op[p].q = q)

\* where the queue of a call is
CallOk(p, at, call, q, all) ==
    /\ at = "register" => call = "create"
    /\ at = "unlist" => call = "destroy" /\ all
    /\ at \in {"lock"} \cup Working => call # "none"
    /\ at \in {"register", "lock"} \cup Working =>
         /\ q \in Queues /\ q <= made /\ queue[q].proc = p
         /\ call = "create" => q \notin Mine(p) /\ (q \in listed <=> at \in Working)
         /\ call = "destroy" => q \in Mine(p) /\ (q \in listed <=> at = "lock" \/ all)
         /\ call = "destroy" /\ all => IsDiq(q) /\ at \notin {"runlist", "done"}
         /\ call = "update" => q \in Mine(p) /\ q \in listed /\ ~IsDiq(q)
         /\ call # "destroy" => ~all

QueuesInv == ListedOk /\ DiqOk /\ \A p \in Procs : MineOk(p)
CallsInv == \A p \in Procs : CallOk(p, op[p].at, op[p].call, op[p].q, op[p].all)

Active == {q \in listed : queue[q].active}
SdmaQueues == {q \in listed : queue[q].type = "sdma"}

\* the holder of the lock has listed a queue that it has not counted yet, or has taken off
\* one that it still counts
Late(call) == IF call = "create" THEN 1 ELSE 0
LateSdma(call, q) == IF call = "create" THEN Sdma(q) ELSE 0
Early(call, all) == IF call = "destroy" /\ ~all THEN 1 ELSE 0

Counts(l, s, e) ==
    /\ queue_count = Cardinality(Active)
    /\ total_queue_count = Cardinality(listed) - l + e
    /\ sdma_queue_count = Cardinality(SdmaQueues) - s

CountInv ==
    /\ lock = None => Counts(0, 0, 0)
    /\ lock # None => Counts(Late(op[lock].call), LateSdma(op[lock].call, op[lock].q),
                             Early(op[lock].call, op[lock].all))

DqmInv == QueueTypes /\ LockInv /\ QueuesInv /\ CallsInv /\ CountInv

-----------------------------------------------------------------------------
(* The calls *)

\* the call of p is at place at, and is there after a step
At(p, at, call, q, all) ==
    op[p].at = at /\ op[p].call = call /\ op[p].q = q /\ op[p].all = all

Moved(p, at, call, q, all) ==
    /\ op' \in [Procs -> Ops]
    /\ op'[p].at = at /\ op'[p].call = call /\ op'[p].q = q /\ op'[p].all = all
    /\ \A u \in Procs : u # p => op'[u] = op[u]

\* A step that assigns the whole record of a call.
LEMMA SetMoved ==
    ASSUME op \in [Procs -> Ops], NEW p \in Procs, NEW r \in Ops, op' = [op EXCEPT ![p] = r]
    PROVE  Moved(p, r.at, r.call, r.q, r.all)
BY Zenon DEF Moved

\* A step that changes the place of a call only.
LEMMA GotoMoved ==
    ASSUME op \in [Procs -> Ops], NEW p \in Procs, NEW a \in Places, Goto(p, a),
           NEW at, NEW c, NEW k, NEW b, At(p, at, c, k, b)
    PROVE  Moved(p, a, c, k, b)
<1>1. op[p] \in Ops
  BY Zenon
<1>2. PICK r : r = [op[p] EXCEPT !.at = a]
  BY Zenon
<1>3. r \in Ops /\ r.at = a /\ r.call = op[p].call /\ r.q = op[p].q /\ r.all = op[p].all
  BY <1>1, <1>2 DEF Ops
<1>4. op' = [op EXCEPT ![p] = r]
  BY <1>2, Zenon DEF Goto
<1>5. Moved(p, r.at, r.call, r.q, r.all)
  BY <1>3, <1>4, SetMoved, Zenon
<1> QED
  BY <1>3, <1>5, Zenon DEF At, Moved

\* A call returns.
LEMMA ReturnMoved ==
    ASSUME op \in [Procs -> Ops], NEW p \in Procs, Return(p)
    PROVE  Moved(p, "idle", "none", 0, FALSE)
<1>1. MaxCalls \in Nat
  BY QueueConstants, Zenon
<1>2. /\ Idle \in Ops
      /\ Idle.at = "idle" /\ Idle.call = "none" /\ Idle.q = 0 /\ Idle.all = FALSE
  BY <1>1 DEF Idle, Ops, Places
<1>3. Moved(p, Idle.at, Idle.call, Idle.q, Idle.all)
  BY <1>2, SetMoved, Zenon DEF Return
<1> QED
  BY <1>2, <1>3, Zenon

\* The lock is taken, kept or released with the place of the call.
LockMoves(p, at) ==
    \/ lock' = lock /\ (at \in Working <=> op[p].at \in Working)
    \/ lock = None /\ lock' = p /\ at \in Working
    \/ lock = p /\ lock' = None /\ at \notin Working

\* One call at a time has the lock.
LEMMA LockStep ==
    ASSUME LockInv, NEW p \in Procs, NEW a, NEW c, NEW k, NEW b, Moved(p, a, c, k, b),
           LockMoves(p, a)
    PROVE  LockInv'
<1>1. None \notin Procs
  BY QueueConstants, Zenon
<1>2. op'[p].at = a /\ \A u \in Procs : u # p => op'[u].at = op[u].at
  BY Zenon DEF Moved
<1> QED
  BY <1>1, <1>2, Zenon DEF LockInv, LockMoves

\* what a step of process p leaves alone: the queues of others
Foreign(p) ==
    /\ \A q \in Queues : q <= made => q <= made'
    /\ \A q \in Queues : q <= made /\ queue[q].proc # p =>
         /\ queue'[q].proc = queue[q].proc /\ queue'[q].type = queue[q].type
         /\ q \in listed' <=> q \in listed
    /\ \A u \in Procs : u # p => pqm'[u] = pqm[u]

\* The calls of the other processes find their queues where they were.
LEMMA OthersCalls ==
    ASSUME QueueTypes, CallsInv, NEW p \in Procs, NEW a, NEW c, NEW k, NEW b,
           Moved(p, a, c, k, b), Foreign(p), NEW u \in Procs, u # p
    PROVE  CallOk(u, op[u].at, op[u].call, op[u].q, op[u].all)'
<1>1. op'[u] = op[u] /\ Mine(u)' = Mine(u)
  BY Zenon DEF Moved, Foreign, Mine
<1>2. PICK x, d, q, l : At(u, x, d, q, l)
  BY Zenon DEF At
<1>3. CallOk(u, x, d, q, l)
  BY <1>2, Zenon DEF CallsInv, At
<1>4. q \in Queues /\ q <= made /\ queue[q].proc = u =>
         /\ q <= made' /\ queue'[q].proc = u /\ queue'[q].type = queue[q].type
         /\ q \in listed' <=> q \in listed
  BY Zenon DEF Foreign
<1>5. CallOk(u, x, d, q, l)'
  BY <1>1, <1>3, <1>4, Zenon DEF CallOk, IsDiq
<1> QED
  BY <1>1, <1>2, <1>5, Zenon DEF At

\* So do their lists.
LEMMA OthersMine ==
    ASSUME QueueTypes, QueuesInv, NEW p \in Procs, NEW a, NEW c, NEW k, NEW b,
           Moved(p, a, c, k, b), Foreign(p), NEW u \in Procs, u # p
    PROVE  MineOk(u)'
<1>1. op'[u] = op[u] /\ Mine(u)' = Mine(u)
  BY Zenon DEF Moved, Foreign, Mine
<1>2. MineOk(u)
  BY Zenon DEF QueuesInv
<1>3. ASSUME NEW q \in Mine(u) PROVE q \in Queues
  <2>1. pqm[u] \in Seq(Queues)
    BY Zenon DEF QueueTypes
  <2>2. \A i \in DOMAIN pqm[u] : pqm[u][i] \in Queues
    BY <2>1
  <2> QED
    BY <1>3, <2>2, Zenon DEF Mine, Members
<1> QED
  BY <1>1, <1>2, <1>3, Zenon DEF MineOk, Foreign

\* What is left to show of a step of p.
LEMMA CallStep ==
    ASSUME QueueTypes, LockInv, QueuesInv, CallsInv, NEW p \in Procs,
           NEW a, NEW c, NEW k, NEW b, Moved(p, a, c, k, b), Foreign(p), LockMoves(p, a),
           ListedOk', DiqOk', MineOk(p)', CallOk(p, a, c, k, b)'
    PROVE  LockInv' /\ QueuesInv' /\ CallsInv'
<1>1. LockInv'
  BY LockStep, Zenon
<1>2. \A u \in Procs : MineOk(u)'
  BY OthersMine, Zenon
<1>3. CallOk(p, op[p].at, op[p].call, op[p].q, op[p].all)'
  BY Zenon DEF Moved
<1>4. \A u \in Procs : CallOk(u, op[u].at, op[u].call, op[u].q, op[u].all)'
  BY <1>3, OthersCalls, Zenon
<1> QED
  BY <1>1, <1>2, <1>4, Zenon DEF QueuesInv, CallsInv

\* A step that leaves the queues and the lists alone.
LEMMA SameStep ==
    ASSUME QueueTypes, LockInv, QueuesInv, CallsInv, NEW p \in Procs,
           NEW a, NEW c, NEW k, NEW b, Moved(p, a, c, k, b), LockMoves(p, a),
           UNCHANGED <<queue, made, pqm, listed>>, CallOk(p, a, c, k, b),
           \A q \in Mine(p) : q \in listed \/ (a \in Working /\ k = q)
    PROVE  LockInv' /\ QueuesInv' /\ CallsInv'
<1>1. Foreign(p)
  BY Zenon DEF Foreign
<1>2. ListedOk' /\ DiqOk' /\ CallOk(p, a, c, k, b)'
  BY Zenon DEF QueuesInv, ListedOk, DiqOk, CallOk, IsDiq, Mine
<1>3. MineOk(p)'
  BY Zenon DEF QueuesInv, MineOk, Mine, Moved
<1> QED
  BY <1>1, <1>2, <1>3, CallStep, Zenon

-----------------------------------------------------------------------------
(* The counters *)

\* The counters as the holder of the lock has left them so far.
LEMMA CountsNow ==
    ASSUME CountInv, NEW p \in Procs, lock = p, NEW a, NEW c, NEW k, NEW b, At(p, a, c, k, b)
    PROVE  Counts(Late(c), LateSdma(c, k), Early(c, b))
<1>1. lock # None
  BY QueueConstants, Zenon
<1> QED
  BY <1>1, Zenon DEF CountInv, At

\* ... and as it leaves them next.
LEMMA CountsNext ==
    ASSUME NEW p \in Procs, lock' = p, NEW a, NEW c, NEW k, NEW b, Moved(p, a, c, k, b),
           Counts(Late(c), LateSdma(c, k), Early(c, b))'
    PROVE  CountInv'
<1>1. lock' # None
  BY QueueConstants, Zenon
<1>2. op'[p].call = c /\ op'[p].q = k /\ op'[p].all = b
  BY Zenon DEF Moved
<1> QED
  BY <1>1, <1>2, Zenon DEF CountInv

\* the queues that are counted, and the counters
Kept ==
    /\ Active' = Active /\ listed' = listed /\ SdmaQueues' = SdmaQueues
    /\ UNCHANGED <<queue_count, total_queue_count, sdma_queue_count>>

\* A step of a process that has not the lock leaves the counters alone.
LEMMA CountsAside ==
    ASSUME QueueTypes, CallsInv, LockInv, CountInv, NEW p \in Procs,
           NEW a, NEW c, NEW k, NEW b, Moved(p, a, c, k, b), Foreign(p),
           op[p].at \notin Working, lock' = lock, Kept
    PROVE  CountInv'
<1>1. CASE lock = None
  BY <1>1, Zenon DEF CountInv, Counts, Kept
<1>2. CASE lock # None
  <2>1. PICK u \in Procs : u = lock
    BY <1>2, Zenon DEF QueueTypes
  <2>2. u # p /\ op[u].at \in Working
    BY <2>1, Zenon DEF LockInv
  <2>3. op'[u] = op[u]
    BY <2>2, Zenon DEF Moved
  <2>4. PICK x, d, q, l : At(u, x, d, q, l)
    BY Zenon DEF At
  <2>5. q \in Queues /\ q <= made /\ queue[q].proc = u
    BY <2>2, <2>4, Zenon DEF CallsInv, CallOk, At
  <2>6. Sdma(q)' = Sdma(q)
    BY <2>2, <2>5, Zenon DEF Foreign, Sdma
  <2>7. Counts(Late(d), LateSdma(d, q), Early(d, l))
    BY <2>1, <2>4, CountsNow, Zenon
  <2>8. Counts(Late(d), LateSdma(d, q), Early(d, l))'
    BY <2>6, <2>7, Zenon DEF Counts, Kept, LateSdma, Late, Early
  <2>9. op'[u].call = d /\ op'[u].q = q /\ op'[u].all = l /\ lock' = u
    BY <2>1, <2>3, <2>4, Zenon DEF At
  <2> QED
    BY <1>2, <2>1, <2>8, <2>9, Zenon DEF CountInv
<1> QED
  BY <1>1, <1>2, Zenon

-----------------------------------------------------------------------------
(* The steps *)

\* the lists and counters
dqmCounted == <<listed, queue_count, total_queue_count, sdma_queue_count>>

\* A call that has the lock goes on; execute_queues_cpsch changes no list.
LEMMA GoesOn ==
    ASSUME DqmInv, NEW p \in Procs, NEW a \in Places,
           op[p].at \in Working, a \in Working \ {"unlist"} \/ (a = "unlist" /\ op[p].all),
           a \in {"runlist", "done"} => ~op[p].all,
           Goto(p, a), UNCHANGED <<pqmVars, dqmCounted, lock>>
    PROVE  DqmInv'
<1>0. QueueTypes /\ LockInv /\ QueuesInv /\ CallsInv /\ CountInv /\ op \in [Procs -> Ops]
  BY Zenon DEF DqmInv, QueueTypes
<1>1. PICK x, c, k, b : At(p, x, c, k, b)
  BY Zenon DEF At
<1>2. Moved(p, a, c, k, b)
  BY <1>0, <1>1, GotoMoved, Zenon
<1>3. lock = p /\ lock' = p /\ a \in Working
  BY <1>0, Zenon DEF LockInv, Working
<1>4. CallOk(p, x, c, k, b)
  BY <1>0, <1>1, Zenon DEF CallsInv, At
<1>5. x \in Working /\ (a = "unlist" => b) /\ (a \in {"runlist", "done"} => ~b)
  BY <1>1, Zenon DEF At
<1>6. a # "register" /\ x # "lock" /\ a # "lock"
  BY <1>3, <1>5, Zenon DEF Working
<1>7. CallOk(p, a, c, k, b)
  BY <1>3, <1>4, <1>5, <1>6, Zenon DEF CallOk
<1>8. \A q \in Mine(p) : q \in listed \/ (a \in Working /\ k = q)
  BY <1>0, <1>1, <1>3, Zenon DEF QueuesInv, MineOk, At
<1>9. LockMoves(p, a)
  BY <1>3, Zenon DEF LockMoves
<1>10. LockInv' /\ QueuesInv' /\ CallsInv'
  BY <1>0, <1>2, <1>7, <1>8, <1>9, SameStep, ZenonT(60) DEF dqmCounted
<1>11. QueueTypes'
  BY <1>0, <1>2, Zenon DEF QueueTypes, QueueRecords, Moved, dqmCounted
<1>12. Counts(Late(c), LateSdma(c, k), Early(c, b))
  BY <1>0, <1>1, <1>3, CountsNow, Zenon
<1>13. Counts(Late(c), LateSdma(c, k), Early(c, b))'
  BY <1>12, Zenon DEF Counts, Active, SdmaQueues, LateSdma, Sdma, Late, Early, dqmCounted
<1>14. CountInv'
  BY <1>2, <1>3, <1>13, CountsNext, Zenon
<1> QED
  BY <1>10, <1>11, <1>14, Zenon DEF DqmInv

\* A call that has not the lock begins, goes on or returns, and changes no list.
LEMMA GoesAside ==
    ASSUME DqmInv, NEW p \in Procs, NEW a, NEW c, NEW k, NEW b, Moved(p, a, c, k, b),
           op[p].at \notin Working, a \notin Working, CallOk(p, a, c, k, b),
           UNCHANGED <<queue, made, pqm, dqmCounted, lock>>, updates' \in Nat
    PROVE  DqmInv'
<1>0. QueueTypes /\ LockInv /\ QueuesInv /\ CallsInv /\ CountInv
  BY Zenon DEF DqmInv
<1>1. Foreign(p) /\ LockMoves(p, a)
  BY Zenon DEF Foreign, LockMoves, dqmCounted
<1>2. \A q \in Mine(p) : q \in listed
  BY <1>0, Zenon DEF QueuesInv, MineOk
<1>3. LockInv' /\ QueuesInv' /\ CallsInv'
  BY <1>0, <1>1, <1>2, SameStep, Zenon DEF dqmCounted
<1>4. QueueTypes'
  BY <1>0, Zenon DEF QueueTypes, QueueRecords, Moved, dqmCounted
<1>5. CountInv'
  BY <1>0, <1>1, CountsAside, Zenon DEF Kept, Active, SdmaQueues, dqmCounted
<1> QED
  BY <1>3, <1>4, <1>5, Zenon DEF DqmInv

\* Places outside the device's lock ask nothing of the lists.
LEMMA OutsideOk ==
    ASSUME NEW p, NEW a \in {"idle", "unregister"}, NEW c, NEW k, NEW b
    PROVE  a \notin Working /\ a \in Places /\ CallOk(p, a, c, k, b)
BY Zenon DEF Working, Places, CallOk

\* So does the beginning of a call.
LEMMA IdlePlace ==
    Idle.at = "idle" /\ "idle" \notin Working /\ "lock" \notin Working /\ "register" \notin Working
BY DEF Idle, Working

\* kfd_ioctl_destroy_queue, kfd_ioctl_update_queue and the like find a queue of the process.
LEMMA CallBegins ==
    ASSUME DqmInv, NEW p \in Procs, NEW c \in {"destroy", "update"}, NEW q \in Mine(p),
           Call(p, c, q), c = "update" => ~IsDiq(q), updates' \in Nat
    PROVE  DqmInv'
<1>0. QueueTypes /\ QueuesInv /\ op \in [Procs -> Ops] /\ pqm[p] \in Seq(Queues)
  BY Zenon DEF DqmInv, QueueTypes
<1>1. q \in Queues
  <2>1. \A i \in DOMAIN pqm[p] : pqm[p][i] \in Queues
    BY <1>0
  <2> QED
    BY <2>1, Zenon DEF Mine, Members
<1>2. PICK b \in BOOLEAN : b = (c = "destroy" /\ IsDiq(q))
  BY Zenon
<1>3. PICK r : r = [at |-> "lock", call |-> c, q |-> q, all |-> b]
  BY Zenon
<1>4. r \in Ops /\ r.at = "lock" /\ r.call = c /\ r.q = q /\ r.all = b
  <2>1. MaxCalls \in Nat
    BY QueueConstants, Zenon
  <2>2. q \in 0..MaxCalls
    BY <1>1, <2>1 DEF Queues
  <2> QED
    BY <1>3, <2>2 DEF Ops, Places
<1>5. Moved(p, "lock", c, q, b)
  <2>1. op' = [op EXCEPT ![p] = r]
    BY <1>2, <1>3, Zenon DEF Call
  <2>2. Moved(p, r.at, r.call, r.q, r.all)
    BY <1>0, <1>4, <2>1, SetMoved, Zenon
  <2> QED
    BY <1>4, <2>2, Zenon
<1>6. op[p].at \notin Working /\ "lock" \notin Working
  BY IdlePlace, Zenon DEF Call
<1>7. q \in listed /\ q <= made /\ queue[q].proc = p
  BY <1>0, <1>6, Zenon DEF QueuesInv, MineOk
<1>8. CallOk(p, "lock", c, q, b)
  BY <1>1, <1>2, <1>6, <1>7, Zenon DEF CallOk
<1> QED
  BY <1>5, <1>6, <1>8, GoesAside, Zenon DEF Call, dqmCounted

\* register_process and unregister_process.
LEMMA Registers ==
    ASSUME DqmInv, NEW p \in Procs, Register(p) \/ RegisterFails(p) \/ Unregister(p)
    PROVE  DqmInv'
<1>0. op \in [Procs -> Ops] /\ CallsInv /\ updates \in Nat
  BY Zenon DEF DqmInv, QueueTypes
<1>1. PICK x, c, k, b : At(p, x, c, k, b)
  BY Zenon DEF At
<1>2. CallOk(p, x, c, k, b)
  BY <1>0, <1>1, Zenon DEF CallsInv, At
<1>3. CASE Register(p) \/ RegisterFails(p)
  <2>1. x = "register" /\ Goto(p, "lock") /\ "lock" \in Places
    BY <1>1, <1>3, Zenon DEF Register, RegisterFails, At, Places
  <2>2. "register" \notin Working /\ "lock" \notin Working
    BY Zenon DEF Working
  <2>3. Moved(p, "lock", c, k, b)
    BY <1>0, <1>1, <2>1, GotoMoved, Zenon
  <2>4. CallOk(p, "lock", c, k, b)
    BY <1>2, <2>1, <2>2, Zenon DEF CallOk
  <2>5. op[p].at \notin Working
    BY <1>1, <2>1, <2>2, Zenon DEF At
  <2> QED
    BY <1>0, <1>3, <2>2, <2>3, <2>4, <2>5, GoesAside, Zenon
    DEF Register, RegisterFails, dqmCounted
<1>4. CASE Unregister(p)
  <2>1. Moved(p, "idle", "none", 0, FALSE)
    BY <1>0, <1>4, ReturnMoved, Zenon DEF Unregister
  <2>2. op[p].at \notin Working
    BY <1>4, Zenon DEF Unregister, Working
  <2>3. "idle" \notin Working /\ CallOk(p, "idle", "none", 0, FALSE)
    BY OutsideOk, Zenon
  <2> QED
    BY <1>0, <1>4, <2>1, <2>2, <2>3, GoesAside, Zenon DEF Unregister, dqmCounted
<1> QED
  BY <1>3, <1>4, Zenon

\* The end of a call that failed: the process is taken off the device, or the call returns.
LEMMA UndoMoved ==
    ASSUME op \in [Procs -> Ops], NEW p \in Procs, Undo(p)
    PROVE  \E a \in {"idle", "unregister"} : \E c, k, b : Moved(p, a, c, k, b)
<1>1. PICK x, c, k, b : At(p, x, c, k, b)
  BY Zenon DEF At
<1>2. CASE Goto(p, "unregister")
  <2>1. "unregister" \in Places
    BY Zenon DEF Places
  <2> QED
    BY <1>1, <1>2, <2>1, GotoMoved, Zenon
<1>3. CASE Return(p)
  BY <1>3, ReturnMoved, Zenon
<1> QED
  BY <1>2, <1>3, Zenon DEF Undo

\* pqm_create_queue begins with a queue that is nowhere yet.
LEMMA CreateBegins ==
    ASSUME DqmInv, NEW p \in Procs, NEW type, NEW active, Create(p, type, active),
           type = "diq" => active, op[p] = Idle, made + updates < MaxCalls,
           UNCHANGED <<pqm, updates, dqmCounted, lock>>
    PROVE  DqmInv'
<1>0. /\ QueueTypes /\ LockInv /\ QueuesInv /\ CallsInv /\ CountInv
      /\ op \in [Procs -> Ops] /\ listed \subseteq Queues /\ made \in Nat /\ updates \in Nat
      /\ MaxCalls \in Nat
  BY QueueConstants, Zenon DEF DqmInv, QueueTypes
<1>1. PICK q : q = made + 1
  BY Zenon
<1>2. /\ q \in Queues /\ q \in 0..MaxCalls /\ made' = q /\ q \in Nat /\ q <= MaxCalls /\ q <= q
      /\ \A k \in Queues : k <= made => k # q /\ k <= q
  BY <1>0, <1>1 DEF Create, Queues
<1>3. PICK id : id = FreeSlot(p)
  BY Zenon
<1>4. PICK r : r = [proc |-> p, qid |-> id, type |-> type, active |-> active, freed |-> FALSE]
  BY Zenon
<1>5. r.proc = p /\ r.type = type /\ r.active = active
  BY <1>4, Zenon
<1>6. queue' = [queue EXCEPT ![q] = r]
  BY <1>1, <1>3, <1>4, Zenon DEF Create
<1>7. queue'[q] = r /\ \A k \in Queues : k # q => queue'[k] = queue[k]
  BY <1>0, <1>2, <1>6, Zenon DEF QueueTypes, QueueRecords
<1>8. QueueRecords'
  <2>1. queue' = [k \in Queues |-> queue'[k]]
    BY <1>0, <1>2, <1>6, Zenon DEF QueueTypes, QueueRecords
  <2>2. \A k \in Queues : queue'[k] = [proc |-> queue'[k].proc, qid |-> queue'[k].qid,
                                       type |-> queue'[k].type, active |-> queue'[k].active,
                                       freed |-> queue'[k].freed]
    <3>1. r = [proc |-> r.proc, qid |-> r.qid, type |-> r.type, active |-> r.active,
               freed |-> r.freed]
      BY <1>4, Zenon
    <3> QED
      BY <1>0, <1>7, <3>1, Zenon DEF QueueTypes, QueueRecords
  <2> QED
    BY <2>1, <2>2, Zenon DEF QueueRecords
<1>9. PICK a \in {"register", "lock"} : a = IF pqm[p] = <<>> THEN "register" ELSE "lock"
  BY Zenon
<1>10. Moved(p, a, "create", q, FALSE)
  <2>1. PICK o : o = [at |-> a, call |-> "create", q |-> q, all |-> FALSE]
    BY Zenon
  <2>2. o \in Ops /\ o.at = a /\ o.call = "create" /\ o.q = q /\ o.all = FALSE
    BY <1>2, <2>1 DEF Ops, Places
  <2>3. op' = [op EXCEPT ![p] = o]
    BY <1>1, <1>9, <2>1, Zenon DEF Create
  <2>4. Moved(p, o.at, o.call, o.q, o.all)
    BY <1>0, <2>2, <2>3, SetMoved, Zenon
  <2> QED
    BY <2>2, <2>4, Zenon
<1>11. op[p].at \notin Working /\ a \notin Working
  BY IdlePlace, Zenon
<1>12. q \notin listed /\ (\A u \in Procs : q \notin Mine(u)) /\ \A k \in listed : k # q
  BY <1>0, <1>2, Zenon DEF QueuesInv, ListedOk, MineOk
<1>13. Foreign(p)
  BY <1>2, <1>7, Zenon DEF Foreign, dqmCounted
<1>14. ListedOk' /\ DiqOk'
  <2>1. ListedOk'
    BY <1>0, <1>2, <1>7, <1>12, Zenon DEF QueuesInv, ListedOk, dqmCounted
  <2>2. DiqOk'
    BY <1>0, <1>5, <1>7, Zenon DEF QueuesInv, DiqOk, IsDiq
  <2> QED
    BY <2>1, <2>2, Zenon
<1>15. MineOk(p)'
  <2>1. ASSUME NEW k \in Mine(p) PROVE k <= made' /\ queue'[k].proc = p /\ k \in listed'
    <3>1. k <= made /\ queue[k].proc = p /\ k \in listed
      BY <1>0, <1>11, <2>1, Zenon DEF QueuesInv, MineOk
    <3> QED
      BY <1>0, <1>2, <1>7, <3>1, Zenon DEF dqmCounted
  <2> QED
    BY <2>1, Zenon DEF MineOk, Mine
<1>16. CallOk(p, a, "create", q, FALSE)'
  BY <1>2, <1>5, <1>7, <1>9, <1>11, <1>12, Zenon DEF CallOk, Mine, dqmCounted
<1>17. LockMoves(p, a)
  BY <1>11, Zenon DEF LockMoves
<1>18. LockInv' /\ QueuesInv' /\ CallsInv'
  BY <1>0, <1>10, <1>13, <1>14, <1>15, <1>16, <1>17, CallStep, Zenon
<1>19. QueueTypes'
  BY <1>0, <1>2, <1>8, <1>10, Zenon DEF QueueTypes, Moved, dqmCounted
<1>20. Kept
  BY <1>0, <1>7, <1>12, Zenon DEF Kept, Active, SdmaQueues, dqmCounted
<1>21. CountInv'
  BY <1>0, <1>10, <1>11, <1>13, <1>20, CountsAside, Zenon
<1> QED
  BY <1>18, <1>19, <1>21, Zenon DEF DqmInv

-----------------------------------------------------------------------------
(* The steps that change the lists *)

INSTANCE FiniteSetTheorems

\* There are finitely many queues.
LEMMA QueuesFinite ==
    ASSUME NEW P \in SUBSET Queues
    PROVE  IsFiniteSet(P) /\ Cardinality(P) \in Nat
<1>1. 1 \in Int /\ MaxCalls \in Int
  BY QueueConstants
<1>2. IsFiniteSet(Queues)
  BY <1>1, FS_Interval, Zenon DEF Queues
<1>3. IsFiniteSet(P)
  BY <1>2, FS_Subset, Zenon
<1> QED
  BY <1>3, FS_CardinalityType, Zenon

\* A set of queues with one queue more.
LEMMA CardMore ==
    ASSUME NEW P \in SUBSET Queues, NEW q, q \notin P
    PROVE  Cardinality(P \cup {q}) = Cardinality(P) + 1
<1>1. IsFiniteSet(P)
  BY QueuesFinite, Zenon
<1> QED
  BY <1>1, FS_AddElement, Zenon

\* A set of queues with one queue less.
LEMMA CardLess ==
    ASSUME NEW P \in SUBSET Queues, NEW q \in P
    PROVE  Cardinality(P \ {q}) = Cardinality(P) - 1
<1>1. IsFiniteSet(P)
  BY QueuesFinite, Zenon
<1> QED
  BY <1>1, FS_RemoveElement, Zenon

\* The counted sets are finite.
LEMMA CardTypes ==
    ASSUME listed \in SUBSET Queues
    PROVE  /\ Active \in SUBSET Queues /\ SdmaQueues \in SUBSET Queues
           /\ Cardinality(listed) \in Nat /\ Cardinality(Active) \in Nat
           /\ Cardinality(SdmaQueues) \in Nat
<1>1. Active \in SUBSET Queues /\ SdmaQueues \in SUBSET Queues
  BY Zenon DEF Active, SdmaQueues
<1> QED
  BY <1>1, QueuesFinite, Zenon

\* What a queue that is listed adds to the counts.
LEMMA ListsMore ==
    ASSUME listed \in SUBSET Queues, NEW q \in Queues, q \notin listed,
           listed' = listed \cup {q}, UNCHANGED queue
    PROVE  /\ Cardinality(listed') = Cardinality(listed) + 1
           /\ Cardinality(Active') = Cardinality(Active) + Count(queue[q].active)
           /\ Cardinality(SdmaQueues') = Cardinality(SdmaQueues) + Sdma(q)
<1>0. /\ Active \in SUBSET Queues /\ SdmaQueues \in SUBSET Queues
      /\ Cardinality(Active) \in Nat /\ Cardinality(SdmaQueues) \in Nat
      /\ q \notin Active /\ q \notin SdmaQueues
  BY CardTypes, Zenon DEF Active, SdmaQueues
<1>1. Cardinality(listed') = Cardinality(listed) + 1
  BY CardMore, Zenon
<1>2. Cardinality(Active') = Cardinality(Active) + Count(queue[q].active)
  <2>1. CASE queue[q].active
    <3>1. Active' = Active \cup {q} /\ Count(queue[q].active) = 1
      BY <2>1, Zenon DEF Active, Count
    <3> QED
      BY <1>0, <3>1, CardMore, Zenon
  <2>2. CASE ~queue[q].active
    <3>1. Active' = Active /\ Count(queue[q].active) = 0
      BY <2>2, Zenon DEF Active, Count
    <3> QED
      BY <1>0, <3>1
  <2> QED
    BY <2>1, <2>2, Zenon
<1>3. Cardinality(SdmaQueues') = Cardinality(SdmaQueues) + Sdma(q)
  <2>1. CASE queue[q].type = "sdma"
    <3>1. SdmaQueues' = SdmaQueues \cup {q} /\ Sdma(q) = 1
      BY <2>1, Zenon DEF SdmaQueues, Sdma
    <3> QED
      BY <1>0, <3>1, CardMore, Zenon
  <2>2. CASE queue[q].type # "sdma"
    <3>1. SdmaQueues' = SdmaQueues /\ Sdma(q) = 0
      BY <2>2, Zenon DEF SdmaQueues, Sdma
    <3> QED
      BY <1>0, <3>1
  <2> QED
    BY <2>1, <2>2, Zenon
<1> QED
  BY <1>1, <1>2, <1>3, Zenon

\* ... and what one that is taken off takes away.
LEMMA ListsLess ==
    ASSUME listed \in SUBSET Queues, NEW q \in listed, listed' = listed \ {q}, UNCHANGED queue
    PROVE  /\ Cardinality(listed') = Cardinality(listed) - 1
           /\ Cardinality(Active') = Cardinality(Active) - Count(queue[q].active)
           /\ Cardinality(SdmaQueues') = Cardinality(SdmaQueues) - Sdma(q)
<1>0. /\ Active \in SUBSET Queues /\ SdmaQueues \in SUBSET Queues
      /\ Cardinality(Active) \in Nat /\ Cardinality(SdmaQueues) \in Nat
  BY CardTypes, Zenon
<1>1. Cardinality(listed') = Cardinality(listed) - 1
  BY CardLess, Zenon
<1>2. Cardinality(Active') = Cardinality(Active) - Count(queue[q].active)
  <2>1. CASE queue[q].active
    <3>1. Active' = Active \ {q} /\ Count(queue[q].active) = 1 /\ q \in Active
      BY <2>1, Zenon DEF Active, Count
    <3> QED
      BY <1>0, <3>1, CardLess, Zenon
  <2>2. CASE ~queue[q].active
    <3>1. Active' = Active /\ Count(queue[q].active) = 0
      BY <2>2, Zenon DEF Active, Count
    <3> QED
      BY <1>0, <3>1
  <2> QED
    BY <2>1, <2>2, Zenon
<1>3. Cardinality(SdmaQueues') = Cardinality(SdmaQueues) - Sdma(q)
  <2>1. CASE queue[q].type = "sdma"
    <3>1. SdmaQueues' = SdmaQueues \ {q} /\ Sdma(q) = 1 /\ q \in SdmaQueues
      BY <2>1, Zenon DEF SdmaQueues, Sdma
    <3> QED
      BY <1>0, <3>1, CardLess, Zenon
  <2>2. CASE queue[q].type # "sdma"
    <3>1. SdmaQueues' = SdmaQueues /\ Sdma(q) = 0
      BY <2>2, Zenon DEF SdmaQueues, Sdma
    <3> QED
      BY <1>0, <3>1
  <2> QED
    BY <2>1, <2>2, Zenon
<1> QED
  BY <1>1, <1>2, <1>3, Zenon

\* A process that does not work on the device has all its queues on the lists.
LEMMA AllListed ==
    ASSUME QueuesInv, NEW p \in Procs, op[p].at \notin Working
    PROVE  \A q \in Mine(p) : q <= made /\ queue[q].proc = p /\ q \in listed
<1>1. MineOk(p)
  BY Zenon DEF QueuesInv
<1> QED
  BY <1>1, Zenon DEF MineOk

\* create_queue_cpsch and create_kernel_queue_cpsch list a queue that they count later.
LEMMA ListQueueStep ==
    ASSUME DqmInv, NEW p \in Procs, ListQueue(p)
    PROVE  DqmInv'
<1>0. /\ QueueTypes /\ LockInv /\ QueuesInv /\ CallsInv /\ CountInv
      /\ op \in [Procs -> Ops] /\ listed \in SUBSET Queues /\ updates \in Nat
  BY Zenon DEF DqmInv, QueueTypes
<1>1. PICK k, b : At(p, "lock", "create", k, b)
  BY Zenon DEF ListQueue, At
<1>2. CallOk(p, "lock", "create", k, b)
  BY <1>0, <1>1, Zenon DEF CallsInv, At
<1>3. /\ k \in Queues /\ k <= made /\ queue[k].proc = p /\ k \notin Mine(p) /\ k \notin listed
      /\ ~b /\ op[p].at \notin Working
  BY <1>1, <1>2, IdlePlace, Zenon DEF CallOk, At
<1>4. lock = None
  BY Zenon DEF ListQueue
<1>5. CASE total_queue_count >= MaxPerDevice
  <2>1. Undo(p) /\ UNCHANGED <<queue, made, pqm, dqmCounted, lock, updates>>
    BY <1>5, Zenon DEF ListQueue, dqmCounted
  <2>2. PICK a \in {"idle", "unregister"} : \E c, l, d : Moved(p, a, c, l, d)
    BY <1>0, <2>1, UndoMoved, Zenon
  <2>3. PICK c, l, d : Moved(p, a, c, l, d)
    BY <2>2, Zenon
  <2>4. a \notin Working /\ CallOk(p, a, c, l, d)
    BY OutsideOk, Zenon
  <2> QED
    BY <1>0, <1>3, <2>1, <2>3, <2>4, GoesAside, Zenon
<1>6. CASE ~(total_queue_count >= MaxPerDevice)
  <2>1. PICK a \in {"preempt", "done"} : a = IF queue[k].active THEN "preempt" ELSE "done"
    BY Zenon
  <2>2. a \in Places /\ a \in Working /\ a \notin {"register", "unlist", "lock"}
    BY Zenon DEF Places, Working
  <2>3. /\ lock' = p /\ listed' = listed \cup {k} /\ Goto(p, a)
        /\ queue_count' = queue_count + Count(queue[k].active)
        /\ UNCHANGED <<queue, made, pqm, updates, total_queue_count, sdma_queue_count>>
    BY <1>1, <1>6, <2>1, Zenon DEF ListQueue, At
  <2>4. Moved(p, a, "create", k, b)
    BY <1>0, <1>1, <2>2, <2>3, GotoMoved, Zenon
  <2>5. Foreign(p)
    BY <1>3, <2>3, Zenon DEF Foreign
  <2>6. ListedOk' /\ DiqOk'
    BY <1>0, <1>3, <2>3, Zenon DEF QueuesInv, ListedOk, DiqOk, IsDiq
  <2>7. MineOk(p)'
    <3>1. \A q \in Mine(p) : q <= made /\ queue[q].proc = p /\ q \in listed
      BY <1>0, <1>3, AllListed, Zenon
    <3> QED
      BY <2>3, <3>1, Zenon DEF MineOk, Mine
  <2>8. CallOk(p, a, "create", k, b)'
    BY <1>3, <2>2, <2>3, Zenon DEF CallOk, Mine
  <2>9. LockInv' /\ QueuesInv' /\ CallsInv'
    BY <1>0, <1>4, <2>2, <2>3, <2>4, <2>5, <2>6, <2>7, <2>8, CallStep, ZenonT(60) DEF LockMoves
  <2>10. listed' \in SUBSET Queues
    BY <1>0, <1>3, <2>3, Zenon
  <2>11. QueueTypes'
    BY <1>0, <2>3, <2>4, <2>10, Zenon DEF QueueTypes, QueueRecords, Moved
  <2>12. /\ Cardinality(listed') = Cardinality(listed) + 1
         /\ Cardinality(Active') = Cardinality(Active) + Count(queue[k].active)
         /\ Cardinality(SdmaQueues') = Cardinality(SdmaQueues) + Sdma(k)
    BY <1>0, <1>3, <2>3, ListsMore, Zenon
  <2>13. Counts(0, 0, 0) /\ Sdma(k)' = Sdma(k) /\ Sdma(k) \in Nat /\ Cardinality(listed) \in Nat
         /\ Cardinality(SdmaQueues) \in Nat
    BY <1>0, <1>4, <2>3, CardTypes, Zenon DEF CountInv, Sdma
  <2>14. Counts(1, Sdma(k), 0)'
    BY <2>3, <2>12, <2>13, SMTT(60) DEF Counts
  <2>15. Late("create") = 1 /\ LateSdma("create", k)' = Sdma(k)' /\ Early("create", b) = 0
    BY Zenon DEF Late, LateSdma, Early
  <2>16. Counts(Late("create"), LateSdma("create", k), Early("create", b))'
    BY <2>14, <2>15, Zenon DEF Late, Early
  <2>17. CountInv'
    BY <2>3, <2>4, <2>16, CountsNext, Zenon
  <2> QED
    BY <2>9, <2>11, <2>17, Zenon DEF DqmInv
<1> QED
  BY <1>5, <1>6, Zenon

\* destroy_queue_cpsch takes a queue off the lists that it still counts, or refuses to.
LEMMA UnlistQueueStep ==
    ASSUME DqmInv, NEW p \in Procs, UnlistQueue(p)
    PROVE  DqmInv'
<1>0. /\ QueueTypes /\ LockInv /\ QueuesInv /\ CallsInv /\ CountInv
      /\ op \in [Procs -> Ops] /\ listed \in SUBSET Queues /\ updates \in Nat
  BY Zenon DEF DqmInv, QueueTypes
<1>a. PICK k, b : At(p, "lock", "destroy", k, b)
  BY Zenon DEF UnlistQueue, At
<1>1. At(p, "lock", "destroy", k, b) /\ ~b
  BY <1>a, Zenon DEF UnlistQueue, At
<1>2. CallOk(p, "lock", "destroy", k, b)
  BY <1>0, <1>1, Zenon DEF CallsInv, At
<1>3. /\ k \in Queues /\ k <= made /\ queue[k].proc = p /\ k \in Mine(p) /\ k \in listed
      /\ op[p].at \notin Working
  BY <1>1, <1>2, IdlePlace, Zenon DEF CallOk, At
<1>4. lock = None
  BY Zenon DEF UnlistQueue
<1>5. CASE is_debug(p)
  <2>1. Return(p) /\ UNCHANGED <<queue, made, pqm, dqmCounted, lock, updates>>
    BY <1>5, Zenon DEF UnlistQueue, dqmCounted
  <2>2. Moved(p, "idle", "none", 0, FALSE)
    BY <1>0, <2>1, ReturnMoved, Zenon
  <2>3. "idle" \notin Working /\ CallOk(p, "idle", "none", 0, FALSE)
    BY OutsideOk, Zenon
  <2> QED
    BY <1>0, <1>3, <2>1, <2>2, <2>3, GoesAside, Zenon
<1>6. CASE ~is_debug(p)
  <2>1. "preempt" \in Places /\ "preempt" \in Working
    BY Zenon DEF Places, Working
  <2>2. /\ lock' = p /\ listed' = listed \ {k} /\ Goto(p, "preempt")
        /\ queue_count' = queue_count - Count(queue[k].active)
        /\ sdma_queue_count' = sdma_queue_count - Sdma(k)
        /\ UNCHANGED <<queue, made, pqm, updates, total_queue_count>>
    BY <1>1, <1>6, Zenon DEF UnlistQueue, At
  <2>3. Moved(p, "preempt", "destroy", k, b)
    BY <1>0, <1>1, <2>1, <2>2, GotoMoved, Zenon
  <2>4. Foreign(p)
    BY <1>3, <2>2, Zenon DEF Foreign
  <2>5. ListedOk' /\ DiqOk'
    BY <1>0, <2>2, Zenon DEF QueuesInv, ListedOk, DiqOk, IsDiq
  <2>6. MineOk(p)'
    <3>0. \A q \in Mine(p) : q <= made /\ queue[q].proc = p /\ q \in listed
      BY <1>0, <1>3, AllListed, Zenon
    <3>1. \A q \in Mine(p) : q <= made /\ queue[q].proc = p /\ (q \in listed' \/ q = k)
      BY <2>2, <3>0, Zenon
    <3>2. op'[p].at \in Working /\ op'[p].q = k
      BY <2>1, <2>3, Zenon DEF Moved
    <3> QED
      BY <2>2, <3>1, <3>2, Zenon DEF MineOk, Mine
  <2>7. CallOk(p, "preempt", "destroy", k, b)'
    BY <1>1, <1>3, <2>2, Zenon DEF CallOk, Mine
  <2>8. LockInv' /\ QueuesInv' /\ CallsInv'
    BY <1>0, <1>4, <2>1, <2>2, <2>3, <2>4, <2>5, <2>6, <2>7, CallStep, ZenonT(60) DEF LockMoves
  <2>9. listed' \in SUBSET Queues
    BY <1>0, <2>2, Zenon
  <2>10. QueueTypes'
    BY <1>0, <2>2, <2>3, <2>9, Zenon DEF QueueTypes, QueueRecords, Moved
  <2>11. /\ Cardinality(listed') = Cardinality(listed) - 1
         /\ Cardinality(Active') = Cardinality(Active) - Count(queue[k].active)
         /\ Cardinality(SdmaQueues') = Cardinality(SdmaQueues) - Sdma(k)
    BY <1>0, <1>3, <2>2, ListsLess, Zenon
  <2>12. /\ Counts(0, 0, 0) /\ Sdma(k) \in Nat /\ Cardinality(listed) \in Nat
         /\ Cardinality(SdmaQueues) \in Nat
    BY <1>0, <1>4, CardTypes, Zenon DEF CountInv, Sdma
  <2>13. Counts(0, 0, 1)'
    BY <2>2, <2>11, <2>12 DEF Counts
  <2>14. Counts(Late("destroy"), LateSdma("destroy", k), Early("destroy", b))'
    BY <1>1, <2>13, Zenon DEF Late, LateSdma, Early
  <2>15. CountInv'
    BY <2>2, <2>3, <2>14, CountsNext, ZenonT(60)
  <2> QED
    BY <2>8, <2>10, <2>15, Zenon DEF DqmInv
<1> QED
  BY <1>5, <1>6, Zenon

\* destroy_kernel_queue_cpsch takes the lock ...
LEMMA LockDiqStep ==
    ASSUME DqmInv, NEW p \in Procs, LockDiq(p)
    PROVE  DqmInv'
<1>0. /\ QueueTypes /\ LockInv /\ QueuesInv /\ CallsInv /\ CountInv /\ op \in [Procs -> Ops]
  BY Zenon DEF DqmInv, QueueTypes
<1>1. PICK k, b : At(p, "lock", "destroy", k, b) /\ b
  BY Zenon DEF LockDiq, At
<1>2. CallOk(p, "lock", "destroy", k, b)
  BY <1>0, <1>1, Zenon DEF CallsInv, At
<1>3. lock = None /\ lock' = p /\ Goto(p, "preempt") /\ UNCHANGED <<pqmVars, dqmVars>>
  BY Zenon DEF LockDiq
<1>4. "preempt" \in Places /\ "preempt" \in Working /\ op[p].at \notin Working
  BY <1>1, Zenon DEF Places, Working, At
<1>5. Moved(p, "preempt", "destroy", k, b)
  BY <1>0, <1>1, <1>3, <1>4, GotoMoved, Zenon
<1>6. CallOk(p, "preempt", "destroy", k, b)
  BY <1>1, <1>2, Zenon DEF CallOk
<1>7. \A q \in Mine(p) : q \in listed
  BY <1>0, <1>4, Zenon DEF QueuesInv, MineOk
<1>8. LockInv' /\ QueuesInv' /\ CallsInv'
  BY <1>0, <1>3, <1>4, <1>5, <1>6, <1>7, SameStep, ZenonT(60) DEF LockMoves
<1>9. QueueTypes'
  BY <1>0, <1>3, <1>5, Zenon DEF QueueTypes, QueueRecords, Moved
<1>10. Counts(0, 0, 0)'
  BY <1>0, <1>3, Zenon DEF CountInv, Counts, Active, SdmaQueues
<1>11. Counts(Late("destroy"), LateSdma("destroy", k), Early("destroy", b))'
  BY <1>1, <1>10, Zenon DEF Late, LateSdma, Early
<1>12. CountInv'
  BY <1>3, <1>5, <1>11, CountsNext, ZenonT(60)
<1> QED
  BY <1>8, <1>9, <1>12, Zenon DEF DqmInv

\* ... and then takes the debugger's queue, which is active, off the list.
LEMMA UnlistDiqStep ==
    ASSUME DqmInv, NEW p \in Procs, UnlistDiq(p)
    PROVE  DqmInv'
<1>0. /\ QueueTypes /\ LockInv /\ QueuesInv /\ CallsInv /\ CountInv
      /\ op \in [Procs -> Ops] /\ listed \in SUBSET Queues /\ None \notin Procs
  BY QueueConstants, Zenon DEF DqmInv, QueueTypes
<1>1. PICK c, k, b : At(p, "unlist", c, k, b)
  BY Zenon DEF UnlistDiq, At
<1>2. CallOk(p, "unlist", c, k, b) /\ "unlist" \in Working
  BY <1>0, <1>1, Zenon DEF CallsInv, At, Working
<1>3. /\ c = "destroy" /\ b
      /\ k \in Queues /\ k <= made /\ queue[k].proc = p /\ k \in Mine(p) /\ k \in listed
      /\ IsDiq(k)
  BY <1>2, Zenon DEF CallOk
<1>4. lock = p /\ lock' = p
  BY <1>0, <1>1, <1>2, Zenon DEF LockInv, UnlistDiq, At
<1>5. /\ listed' = listed \ {k} /\ queue_count' = queue_count - 1
      /\ op' = [op EXCEPT ![p] = [op[p] EXCEPT !.at = "preempt", !.all = FALSE]]
      /\ UNCHANGED <<queue, made, pqm, updates, total_queue_count, sdma_queue_count>>
  BY <1>1, Zenon DEF UnlistDiq, At
<1>6. Moved(p, "preempt", "destroy", k, FALSE)
  <2>1. PICK r : r = [op[p] EXCEPT !.at = "preempt", !.all = FALSE]
    BY Zenon
  <2>2. op[p] \in Ops
    BY <1>0, Zenon
  <2>3. r \in Ops /\ r.at = "preempt" /\ r.call = op[p].call /\ r.q = op[p].q /\ r.all = FALSE
    BY <2>1, <2>2, ZenonT(60) DEF Ops, Places
  <2>4. op' = [op EXCEPT ![p] = r]
    BY <1>5, <2>1, Zenon
  <2>5. Moved(p, r.at, r.call, r.q, r.all)
    BY <1>0, <2>3, <2>4, SetMoved, Zenon
  <2> QED
    BY <1>1, <1>3, <2>3, <2>5, Zenon DEF At
<1>7. Foreign(p)
  BY <1>3, <1>5, Zenon DEF Foreign
<1>8. ListedOk' /\ DiqOk'
  BY <1>0, <1>5, Zenon DEF QueuesInv, ListedOk, DiqOk, IsDiq
<1>9. MineOk(p)'
  <2>0. MineOk(p) /\ op[p].q = k
    BY <1>0, <1>1, Zenon DEF QueuesInv, At
  <2>1. \A q \in Mine(p) : q <= made /\ queue[q].proc = p /\ (q \in listed' \/ q = k)
    BY <1>5, <2>0, Zenon DEF MineOk
  <2>2. op'[p].at \in Working /\ op'[p].q = k
    BY <1>6, Zenon DEF Moved, Working
  <2> QED
    BY <1>5, <2>1, <2>2, Zenon DEF MineOk, Mine
<1>10. CallOk(p, "preempt", "destroy", k, FALSE)'
  BY <1>3, <1>5, Zenon DEF CallOk, Mine
<1>11. LockMoves(p, "preempt")
  BY <1>1, <1>2, <1>4, Zenon DEF LockMoves, Working, At
<1>12. LockInv' /\ QueuesInv' /\ CallsInv'
  BY <1>0, <1>6, <1>7, <1>8, <1>9, <1>10, <1>11, CallStep, ZenonT(60)
<1>13. listed' \in SUBSET Queues
  BY <1>0, <1>5, Zenon
<1>14. QueueTypes'
  BY <1>0, <1>4, <1>5, <1>6, <1>13, Zenon DEF QueueTypes, QueueRecords, Moved
<1>15. Count(queue[k].active) = 1 /\ Sdma(k) = 0
  <2>1. queue[k].active
    BY <1>0, <1>3, Zenon DEF QueuesInv, DiqOk
  <2> QED
    BY <1>3, <2>1, Zenon DEF Count, Sdma, IsDiq
<1>16. /\ Cardinality(listed') = Cardinality(listed) - 1
       /\ Cardinality(Active') = Cardinality(Active) - Count(queue[k].active)
       /\ Cardinality(SdmaQueues') = Cardinality(SdmaQueues) - Sdma(k)
  BY <1>0, <1>3, <1>5, ListsLess, Zenon
<1>17. Counts(0, 0, 0)
  <2>1. Counts(Late(c), LateSdma(c, k), Early(c, b))
    BY <1>0, <1>1, <1>4, CountsNow, Zenon
  <2> QED
    BY <1>3, <2>1, Zenon DEF Late, LateSdma, Early
<1>18. Cardinality(listed) \in Nat /\ Cardinality(SdmaQueues) \in Nat
  BY <1>0, CardTypes, Zenon
<1>19. Counts(0, 0, 1)'
  BY <1>5, <1>15, <1>16, <1>17, <1>18, SMTT(60) DEF Counts
<1>20. Counts(Late("destroy"), LateSdma("destroy", k), Early("destroy", FALSE))'
  BY <1>19, Zenon DEF Late, LateSdma, Early
<1>21. CountInv'
  BY <1>4, <1>6, <1>20, CountsNext, Zenon
<1> QED
  BY <1>12, <1>14, <1>21, Zenon DEF DqmInv

\* What a queue that becomes active or inactive changes of the count.
LEMMA ActiveUpdates ==
    ASSUME listed \in SUBSET Queues, NEW k \in listed, UNCHANGED listed,
           NEW active \in BOOLEAN, queue'[k].active <=> active,
           \A q \in listed : q # k => queue'[q] = queue[q]
    PROVE  Cardinality(Active') = Cardinality(Active) + Count(active) - Count(queue[k].active)
<1>0. Active \in SUBSET Queues /\ Cardinality(Active) \in Nat
  BY CardTypes, Zenon
<1>1. CASE active /\ queue[k].active
  <2>1. Active' = Active /\ Count(active) = 1 /\ Count(queue[k].active) = 1
    BY <1>1, Zenon DEF Active, Count
  <2> QED
    BY <1>0, <2>1
<1>2. CASE ~active /\ ~queue[k].active
  <2>1. Active' = Active /\ Count(active) = 0 /\ Count(queue[k].active) = 0
    BY <1>2, Zenon DEF Active, Count
  <2> QED
    BY <1>0, <2>1
<1>3. CASE active /\ ~queue[k].active
  <2>1. Active' = Active \cup {k} /\ Count(active) = 1 /\ Count(queue[k].active) = 0
        /\ k \notin Active
    BY <1>3, Zenon DEF Active, Count
  <2>2. Cardinality(Active') = Cardinality(Active) + 1
    BY <1>0, <2>1, CardMore, Zenon
  <2> QED
    BY <1>0, <2>1, <2>2
<1>4. CASE ~active /\ queue[k].active
  <2>1. Active' = Active \ {k} /\ Count(active) = 0 /\ Count(queue[k].active) = 1 /\ k \in Active
    BY <1>4, Zenon DEF Active, Count
  <2>2. Cardinality(Active') = Cardinality(Active) - 1
    BY <1>0, <2>1, CardLess, Zenon
  <2> QED
    BY <1>0, <2>1, <2>2
<1> QED
  BY <1>1, <1>2, <1>3, <1>4, Zenon

\* A queue gets a new record.
LEMMA QueueSet ==
    ASSUME QueueRecords, NEW k \in Queues, NEW r, queue' = [queue EXCEPT ![k] = r],
           r = [proc |-> r.proc, qid |-> r.qid, type |-> r.type, active |-> r.active,
                freed |-> r.freed]
    PROVE  /\ QueueRecords' /\ queue'[k] = r
           /\ \A q \in Queues : q # k => queue'[q] = queue[q]
<1>1. queue'[k] = r /\ \A q \in Queues : q # k => queue'[q] = queue[q]
  BY Zenon DEF QueueRecords
<1>2. queue' = [q \in Queues |-> queue'[q]]
  BY Zenon DEF QueueRecords
<1>3. \A q \in Queues : queue'[q] = [proc |-> queue'[q].proc, qid |-> queue'[q].qid,
                                     type |-> queue'[q].type, active |-> queue'[q].active,
                                     freed |-> queue'[q].freed]
  BY <1>1, Zenon DEF QueueRecords
<1> QED
  BY <1>1, <1>2, <1>3, Zenon DEF QueueRecords

\* update_queue: the count follows the queue.
LEMMA UpdateActiveStep ==
    ASSUME DqmInv, NEW p \in Procs, NEW active \in BOOLEAN, UpdateActive(p, active)
    PROVE  DqmInv'
<1>0. /\ QueueTypes /\ LockInv /\ QueuesInv /\ CallsInv /\ CountInv /\ QueueRecords
      /\ op \in [Procs -> Ops] /\ listed \in SUBSET Queues
  BY Zenon DEF DqmInv, QueueTypes
<1>1. PICK k, b : At(p, "lock", "update", k, b)
  BY Zenon DEF UpdateActive, At
<1>2. CallOk(p, "lock", "update", k, b)
  BY <1>0, <1>1, Zenon DEF CallsInv, At
<1>3. /\ k \in Queues /\ k <= made /\ queue[k].proc = p /\ k \in Mine(p) /\ k \in listed
      /\ ~IsDiq(k) /\ ~b /\ op[p].at \notin Working
  BY <1>1, <1>2, IdlePlace, Zenon DEF CallOk, At
<1>4. "preempt" \in Places /\ "preempt" \in Working
  BY Zenon DEF Places, Working
<1>5. /\ lock = None /\ lock' = p /\ Goto(p, "preempt")
      /\ queue' = [queue EXCEPT ![k].active = active]
      /\ queue_count' = queue_count + Count(active) - Count(queue[k].active)
      /\ UNCHANGED <<made, pqm, updates, listed, total_queue_count, sdma_queue_count>>
  BY <1>1, Zenon DEF UpdateActive, At
<1>6. Moved(p, "preempt", "update", k, b)
  BY <1>0, <1>1, <1>4, <1>5, GotoMoved, Zenon
<1>7. PICK r : r = [queue[k] EXCEPT !.active = active]
  BY Zenon
<1>8. /\ r.proc = queue[k].proc /\ r.type = queue[k].type /\ r.active = active
      /\ r = [proc |-> r.proc, qid |-> r.qid, type |-> r.type, active |-> r.active,
              freed |-> r.freed]
  <2>1. queue[k] = [proc |-> queue[k].proc, qid |-> queue[k].qid, type |-> queue[k].type,
                    active |-> queue[k].active, freed |-> queue[k].freed]
    BY <1>0, <1>3, Zenon DEF QueueRecords
  <2> QED
    BY <1>7, <2>1, SMTT(60)
<1>9. QueueRecords' /\ queue'[k] = r /\ \A q \in Queues : q # k => queue'[q] = queue[q]
  <2>1. queue' = [queue EXCEPT ![k] = r]
    BY <1>5, <1>7, Zenon
  <2> QED
    BY <1>0, <1>3, <1>8, <2>1, QueueSet, Zenon
<1>10. \A q \in Queues : queue'[q].proc = queue[q].proc /\ queue'[q].type = queue[q].type
  BY <1>8, <1>9, Zenon
<1>11. Foreign(p)
  BY <1>5, <1>10, Zenon DEF Foreign
<1>12. ListedOk'
  BY <1>0, <1>5, <1>10, Zenon DEF QueuesInv, ListedOk
<1>13. DiqOk'
  BY <1>0, <1>3, <1>9, <1>10, Zenon DEF QueuesInv, DiqOk, IsDiq
<1>14. MineOk(p)'
  <2>1. \A q \in Mine(p) : q <= made /\ queue[q].proc = p /\ q \in listed
    BY <1>0, <1>3, AllListed, Zenon
  <2>2. \A q \in Mine(p) : q <= made /\ queue'[q].proc = p /\ q \in listed
    BY <1>0, <1>10, <2>1, Zenon
  <2> QED
    BY <1>5, <2>2, Zenon DEF MineOk, Mine
<1>15. CallOk(p, "preempt", "update", k, b)'
  <2>1. k <= made' /\ queue'[k].proc = p /\ k \in Mine(p)' /\ k \in listed' /\ ~IsDiq(k)'
    BY <1>3, <1>5, <1>10, Zenon DEF Mine, IsDiq
  <2> QED
    BY <1>3, <2>1, Zenon DEF CallOk
<1>16. LockInv' /\ QueuesInv' /\ CallsInv'
  BY <1>0, <1>4, <1>5, <1>6, <1>11, <1>12, <1>13, <1>14, <1>15, CallStep, ZenonT(60) DEF LockMoves
<1>17. QueueTypes'
  BY <1>0, <1>5, <1>6, <1>9, Zenon DEF QueueTypes, Moved
<1>18. Cardinality(Active') = Cardinality(Active) + Count(active) - Count(queue[k].active)
  <2>1. queue'[k].active <=> active
    BY <1>8, <1>9, Zenon
  <2>2. \A q \in listed : q # k => queue'[q] = queue[q]
    BY <1>0, <1>9, Zenon
  <2> QED
    BY <1>0, <1>3, <1>5, <2>1, <2>2, ActiveUpdates, Zenon
<1>19. SdmaQueues' = SdmaQueues
  BY <1>0, <1>5, <1>10, Zenon DEF SdmaQueues
<1>20. Counts(0, 0, 0)
  BY <1>0, <1>5, Zenon DEF CountInv
<1>21. Counts(0, 0, 0)'
  BY <1>5, <1>18, <1>19, <1>20, ZenonT(60) DEF Counts
<1>22. Counts(Late("update"), LateSdma("update", k), Early("update", b))'
  BY <1>21, Zenon DEF Late, LateSdma, Early
<1>23. CountInv'
  BY <1>5, <1>6, <1>22, CountsNext, ZenonT(60)
<1> QED
  BY <1>16, <1>17, <1>23, Zenon DEF DqmInv

\* ... and keeps it.
LEMMA UpdatedStep ==
    ASSUME DqmInv, NEW p \in Procs, Updated(p)
    PROVE  DqmInv'
<1>0. /\ QueueTypes /\ LockInv /\ QueuesInv /\ CallsInv /\ CountInv /\ op \in [Procs -> Ops]
  BY Zenon DEF DqmInv, QueueTypes
<1>1. PICK k, b : At(p, "done", "update", k, b)
  BY Zenon DEF Updated, At
<1>2. CallOk(p, "done", "update", k, b) /\ "done" \in Working
  BY <1>0, <1>1, Zenon DEF CallsInv, At, Working
<1>3. lock = p /\ lock' = None /\ Return(p) /\ UNCHANGED <<pqmVars, dqmVars>>
  BY <1>0, <1>1, <1>2, Zenon DEF LockInv, Updated, At
<1>4. Moved(p, "idle", "none", 0, FALSE)
  BY <1>0, <1>3, ReturnMoved, Zenon
<1>5. "idle" \notin Working /\ CallOk(p, "idle", "none", 0, FALSE)
  BY OutsideOk, Zenon
<1>6. \A q \in Mine(p) : q \in listed
  <2>1. MineOk(p) /\ op[p].q = k /\ k \in listed
    BY <1>0, <1>1, <1>2, Zenon DEF QueuesInv, At, CallOk
  <2> QED
    BY <2>1, Zenon DEF MineOk
<1>7. LockInv' /\ QueuesInv' /\ CallsInv'
  BY <1>0, <1>3, <1>4, <1>5, <1>6, SameStep, Zenon DEF LockMoves
<1>8. QueueTypes'
  BY <1>0, <1>3, <1>4, Zenon DEF QueueTypes, QueueRecords, Moved
<1>9. Counts(Late("update"), LateSdma("update", k), Early("update", b))
  BY <1>0, <1>1, <1>3, CountsNow, Zenon
<1>10. Counts(0, 0, 0)
  BY <1>9, Zenon DEF Late, LateSdma, Early
<1>11. CountInv'
  BY <1>3, <1>10, Zenon DEF CountInv, Counts, Active, SdmaQueues
<1> QED
  BY <1>7, <1>8, <1>11, Zenon DEF DqmInv

\* The holder of the lock leaves it with exact counters.
LEMMA CountsDone ==
    ASSUME lock' = None, Counts(0, 0, 0)'
    PROVE  CountInv'
BY Zenon DEF CountInv

\* A queue that has been created counts, in the list of its process or lost.
LEMMA CreatedStep ==
    ASSUME DqmInv, NEW p \in Procs, Created(p)
    PROVE  DqmInv'
<1>0. /\ QueueTypes /\ LockInv /\ QueuesInv /\ CallsInv /\ CountInv /\ QueueRecords
      /\ op \in [Procs -> Ops] /\ listed \in SUBSET Queues /\ pqm \in [Procs -> Seq(Queues)]
      /\ MineOk(p) /\ \A u \in Procs : Distinct(pqm[u])
  BY Zenon DEF DqmInv, QueueTypes, QueuesInv
<1>1. PICK k, b : At(p, "done", "create", k, b)
  BY Zenon DEF Created, At
<1>2. CallOk(p, "done", "create", k, b) /\ "done" \in Working
  BY <1>0, <1>1, Zenon DEF CallsInv, At, Working
<1>3. /\ k \in Queues /\ k <= made /\ queue[k].proc = p /\ k \notin Mine(p) /\ k \in listed
      /\ op[p].q = k /\ op[p].at \in Working
  BY <1>1, <1>2, Zenon DEF CallOk, At
<1>4. /\ lock' = None
      /\ total_queue_count' = total_queue_count + 1
      /\ sdma_queue_count' = sdma_queue_count + Sdma(k)
      /\ UNCHANGED <<queue, made, updates, listed, queue_count>>
  BY <1>1, Zenon DEF Created, At
<1>5. lock = p
  BY <1>0, <1>3, Zenon DEF LockInv
<1>6. \A q \in Mine(p) : q <= made /\ queue[q].proc = p /\ q \in listed
  BY <1>0, <1>3, Zenon DEF MineOk
<1>7. CountInv'
  <2>1. Counts(Late("create"), LateSdma("create", k), Early("create", b))
    BY <1>0, <1>1, <1>5, CountsNow, Zenon
  <2>2. Counts(1, Sdma(k), 0)
    BY <2>1, Zenon DEF Late, LateSdma, Early
  <2>3. Sdma(k) \in Nat /\ Cardinality(listed) \in Nat /\ Cardinality(SdmaQueues) \in Nat
    BY <1>0, CardTypes, Zenon DEF Sdma
  <2>4. UNCHANGED <<Active, SdmaQueues>>
    BY <1>4, Zenon DEF Active, SdmaQueues
  <2>5. Counts(0, 0, 0)'
    BY <1>4, <2>2, <2>3, <2>4, SMTT(60) DEF Counts
  <2> QED
    BY <1>4, <2>5, CountsDone, Zenon
<1>8. CASE Undo(p) /\ UNCHANGED pqm
  <2>1. PICK a \in {"idle", "unregister"} : \E c, l, d : Moved(p, a, c, l, d)
    BY <1>0, <1>8, UndoMoved, ZenonT(60)
  <2>2. PICK c, l, d : Moved(p, a, c, l, d)
    BY <2>1, Zenon
  <2>3. a \notin Working /\ CallOk(p, a, c, l, d)
    BY OutsideOk, Zenon
  <2>4. LockMoves(p, a)
    BY <1>4, <1>5, <2>3, Zenon DEF LockMoves
  <2>5. LockInv' /\ QueuesInv' /\ CallsInv'
    BY <1>0, <1>4, <1>6, <1>8, <2>2, <2>3, <2>4, SameStep, ZenonT(60)
  <2>6. QueueTypes'
    BY <1>0, <1>4, <1>8, <2>2, Zenon DEF QueueTypes, QueueRecords, Moved
  <2> QED
    BY <1>7, <2>5, <2>6, ZenonT(60) DEF DqmInv
<1>9. CASE Return(p) /\ pqm' = [pqm EXCEPT ![p] = <<k>> \o @]
  <2>1. Moved(p, "idle", "none", 0, FALSE)
    BY <1>0, <1>9, ReturnMoved, Zenon
  <2>2. "idle" \notin Working
    BY OutsideOk, Zenon
  <2>3. PICK s : s = With(pqm[p], k)
    BY Zenon
  <2>4. s \in Seq(Queues) /\ Distinct(s) /\ Members(s) = Mine(p) \cup {k}
    <3>1. pqm[p] \in Seq(Queues) /\ Distinct(pqm[p]) /\ k \notin Members(pqm[p])
      BY <1>0, <1>3, Zenon DEF Mine
    <3>2. k \in Queues
      BY <1>3, Zenon
    <3>3. s \in Seq(Queues) /\ Distinct(s) /\ Members(s) = Members(pqm[p]) \cup {k}
      BY <2>3, <3>1, <3>2, AddFirst, Zenon
    <3> QED
      BY <3>3, Zenon DEF Mine
  <2>5. /\ pqm' = [pqm EXCEPT ![p] = s]
        /\ pqm'[p] = s /\ \A u \in Procs : u # p => pqm'[u] = pqm[u]
    BY <1>0, <1>9, <2>3, Zenon DEF With
  <2>6. pqm' \in [Procs -> Seq(Queues)] /\ \A u \in Procs : Distinct(pqm'[u])
    BY <1>0, <2>4, <2>5, Zenon
  <2>7. Foreign(p)
    BY <1>4, <2>5, Zenon DEF Foreign
  <2>8. ListedOk' /\ DiqOk' /\ CallOk(p, "idle", "none", 0, FALSE)'
    BY <1>0, <1>4, <2>2, Zenon DEF QueuesInv, ListedOk, DiqOk, IsDiq, CallOk
  <2>9. MineOk(p)'
    <3>1. Mine(p)' = Mine(p) \cup {k}
      BY <2>4, <2>5, Zenon DEF Mine
    <3>2. \A q \in Mine(p)' : q <= made' /\ queue'[q].proc = p /\ q \in listed'
      BY <1>3, <1>4, <1>6, <3>1, Zenon
    <3> QED
      BY <3>2, Zenon DEF MineOk
  <2>10. LockMoves(p, "idle")
    BY <1>4, <1>5, <2>2, Zenon DEF LockMoves
  <2>11. LockInv' /\ QueuesInv' /\ CallsInv'
    BY <1>0, <2>1, <2>7, <2>8, <2>9, <2>10, CallStep, ZenonT(60)
  <2>12. QueueTypes'
    BY <1>0, <1>4, <2>1, <2>6, Zenon DEF QueueTypes, QueueRecords, Moved
  <2> QED
    BY <1>7, <2>11, <2>12, Zenon DEF DqmInv
<1> QED
  BY <1>1, <1>8, <1>9, Zenon DEF Created, At

\* A queue that has been destroyed is in no list and does not count.
LEMMA DestroyedStep ==
    ASSUME DqmInv, NEW p \in Procs, Destroyed(p)
    PROVE  DqmInv'
<1>0. /\ QueueTypes /\ LockInv /\ QueuesInv /\ CallsInv /\ CountInv /\ QueueRecords
      /\ op \in [Procs -> Ops] /\ listed \in SUBSET Queues /\ pqm \in [Procs -> Seq(Queues)]
      /\ MineOk(p) /\ \A u \in Procs : Distinct(pqm[u])
  BY Zenon DEF DqmInv, QueueTypes, QueuesInv
<1>1. PICK k, b : At(p, "done", "destroy", k, b)
  BY Zenon DEF Destroyed, At
<1>2. CallOk(p, "done", "destroy", k, b) /\ "done" \in Working
  BY <1>0, <1>1, Zenon DEF CallsInv, At, Working
<1>3. /\ k \in Queues /\ k <= made /\ queue[k].proc = p /\ k \in Mine(p) /\ k \notin listed
      /\ ~b /\ op[p].q = k /\ op[p].at \in Working
  BY <1>1, <1>2, Zenon DEF CallOk, At
<1>4. /\ lock' = None
      /\ total_queue_count' = total_queue_count - 1
      /\ queue' = [queue EXCEPT ![k] = [NoQueue EXCEPT !.type = queue[k].type, !.freed = TRUE]]
      /\ pqm' = [pqm EXCEPT ![p] = Without(@, k)]
      /\ Goto(p, "unregister") \/ Return(p)
      /\ UNCHANGED <<made, updates, listed, queue_count, sdma_queue_count>>
  BY <1>1, Zenon DEF Destroyed, At
<1>5. lock = p
  BY <1>0, <1>3, Zenon DEF LockInv
<1>6. \A q \in Mine(p) : q <= made /\ queue[q].proc = p /\ (q \in listed \/ q = k)
  BY <1>0, <1>3, Zenon DEF MineOk
<1>7. \E a \in {"idle", "unregister"} : \E c, l, d : Moved(p, a, c, l, d)
  <2>1. CASE Goto(p, "unregister")
    <3>1. "unregister" \in Places
      BY Zenon DEF Places
    <3> QED
      BY <1>0, <1>1, <2>1, <3>1, GotoMoved, Zenon
  <2>2. CASE Return(p)
    BY <1>0, <2>2, ReturnMoved, Zenon
  <2> QED
    BY <1>4, <2>1, <2>2, Zenon
<1>8. PICK a \in {"idle", "unregister"} : \E c, l, d : Moved(p, a, c, l, d)
  BY <1>7, Zenon
<1>9. PICK c, l, d : Moved(p, a, c, l, d)
  BY <1>8, Zenon
<1>10. PICK r : r = [NoQueue EXCEPT !.type = queue[k].type, !.freed = TRUE]
  BY Zenon
<1>11. /\ r.proc = None
       /\ r = [proc |-> r.proc, qid |-> r.qid, type |-> r.type, active |-> r.active,
               freed |-> r.freed]
  BY <1>10, ZenonT(60) DEF NoQueue
<1>12. QueueRecords' /\ queue'[k] = r /\ \A q \in Queues : q # k => queue'[q] = queue[q]
  <2>1. queue' = [queue EXCEPT ![k] = r]
    BY <1>4, <1>10, Zenon
  <2> QED
    BY <1>0, <1>3, <1>11, <2>1, QueueSet, Zenon
<1>13. \A q \in listed : q \in Queues /\ q # k /\ queue'[q] = queue[q]
  BY <1>0, <1>3, <1>12, Zenon
<1>14. PICK s : s = Without(pqm[p], k)
  BY Zenon
<1>15. s \in Seq(Queues) /\ Distinct(s) /\ Members(s) = Mine(p) \ {k}
  <2>1. pqm[p] \in Seq(Queues) /\ Distinct(pqm[p]) /\ k \in Members(pqm[p])
    BY <1>0, <1>3, Zenon DEF Mine
  <2> QED
    BY <1>14, <2>1, WithoutMembers, Zenon DEF Mine
<1>16. pqm' = [pqm EXCEPT ![p] = s] /\ pqm'[p] = s /\ \A u \in Procs : u # p => pqm'[u] = pqm[u]
  BY <1>0, <1>4, <1>14, Zenon
<1>17. pqm' \in [Procs -> Seq(Queues)] /\ \A u \in Procs : Distinct(pqm'[u])
  BY <1>0, <1>15, <1>16, Zenon
<1>18. Foreign(p)
  BY <1>3, <1>4, <1>12, <1>16, Zenon DEF Foreign
<1>19. ListedOk'
  BY <1>0, <1>4, <1>13, Zenon DEF QueuesInv, ListedOk
<1>20. DiqOk'
  BY <1>0, <1>11, <1>12, Zenon DEF QueuesInv, DiqOk, IsDiq
<1>21. MineOk(p)'
  <2>1. Mine(p)' = Mine(p) \ {k}
    BY <1>15, <1>16, Zenon DEF Mine
  <2>2. \A q \in Mine(p)' : q <= made' /\ queue'[q].proc = p /\ q \in listed'
    BY <1>4, <1>6, <1>13, <2>1, Zenon
  <2> QED
    BY <2>2, Zenon DEF MineOk
<1>22. a \notin Working /\ CallOk(p, a, c, l, d)'
  BY Zenon DEF Working, CallOk
<1>23. LockMoves(p, a)
  BY <1>4, <1>5, <1>22, Zenon DEF LockMoves
<1>24. LockInv' /\ QueuesInv' /\ CallsInv'
  BY <1>0, <1>9, <1>18, <1>19, <1>20, <1>21, <1>22, <1>23, CallStep, ZenonT(60)
<1>25. QueueTypes'
  BY <1>0, <1>4, <1>9, <1>12, <1>17, ZenonT(60) DEF QueueTypes, Moved
<1>26. CountInv'
  <2>1. Counts(Late("destroy"), LateSdma("destroy", k), Early("destroy", b))
    BY <1>0, <1>1, <1>5, CountsNow, Zenon
  <2>2. Counts(0, 0, 1)
    BY <1>3, <2>1, Zenon DEF Late, LateSdma, Early
  <2>3. Cardinality(listed) \in Nat /\ Cardinality(SdmaQueues) \in Nat
    BY <1>0, CardTypes, Zenon
  <2>4. UNCHANGED <<Active, SdmaQueues>>
    BY <1>4, <1>13, Zenon DEF Active, SdmaQueues
  <2>5. Counts(0, 0, 0)'
    BY <1>4, <2>2, <2>3, <2>4, SMTT(60) DEF Counts
  <2> QED
    BY <1>4, <2>5, CountsDone, Zenon
<1> QED
  BY <1>24, <1>25, <1>26, Zenon DEF DqmInv

\* The preemption succeeded or failed: the call goes on.
LEMMA GoesTo ==
    ASSUME DqmInv, NEW p \in Procs, op[p].at \in Working,
           \/ Goto(p, "unmap") \/ Goto(p, "query") \/ Goto(p, "wait") \/ Goto(p, "oops")
           \/ Goto(p, IF op[p].all THEN "unlist" ELSE "runlist")
           \/ Goto(p, IF op[p].all THEN "unlist" ELSE "done")
           \/ Goto(p, "done") /\ ~op[p].all,
           UNCHANGED <<pqmVars, dqmCounted, lock>>
    PROVE  DqmInv'
<1>1. {"unmap", "query", "wait", "oops", "unlist", "runlist", "done"} \subseteq Places \cap Working
  BY Zenon DEF Places, Working
<1>2. \/ Goto(p, "unmap") \/ Goto(p, "query") \/ Goto(p, "wait") \/ Goto(p, "oops")
      \/ Goto(p, "unlist") /\ op[p].all
      \/ (Goto(p, "runlist") \/ Goto(p, "done")) /\ ~op[p].all
  BY Zenon
<1>3. \E a \in Places :
        /\ Goto(p, a) /\ a \in Working
        /\ a = "unlist" => op[p].all
        /\ a \in {"runlist", "done"} => ~op[p].all
  BY <1>1, <1>2, Zenon
<1>4. PICK a \in Places : /\ Goto(p, a) /\ a \in Working
                          /\ a = "unlist" => op[p].all
                          /\ a \in {"runlist", "done"} => ~op[p].all
  BY <1>3, Zenon
<1> QED
  BY <1>4, GoesOn, Zenon

\* execute_queues_cpsch: no step of the preemption and of the run list changes what counts.
LEMMA ExecuteStep ==
    ASSUME DqmInv, NEW p \in Procs,
           \/ PreemptSdma(p) \/ Preempt(p) \/ Query(p) \/ Preempted(p) \/ TimeOut(p)
           \/ RunList(p) \/ NoMemory(p)
    PROVE  DqmInv'
<1>0. {"preempt", "unmap", "query", "wait", "runlist"} \subseteq Working
  BY Zenon DEF Working
<1>1. CASE Preempt(p)
  BY <1>0, <1>1, GoesTo, Zenon DEF Preempt, PreemptFails, dqmCounted
<1>2. CASE Query(p)
  BY <1>0, <1>2, GoesTo, Zenon DEF Query, dqmCounted
<1>3. CASE Preempted(p)
  BY <1>0, <1>3, GoesTo, Zenon DEF Preempted, dqmCounted
<1>4. CASE TimeOut(p)
  BY <1>0, <1>4, GoesTo, Zenon DEF TimeOut, PreemptFails, dqmCounted
<1>5. CASE RunList(p) \/ NoMemory(p)
  <2>1. /\ op[p].at = "runlist" /\ Goto(p, "done")
        /\ UNCHANGED <<pqmVars, dqmCounted, lock>>
    BY <1>5, Zenon DEF RunList, NoMemory, dqmCounted
  <2>2. CallOk(p, op[p].at, op[p].call, op[p].q, op[p].all)
    BY Zenon DEF DqmInv, CallsInv
  <2>3. ~op[p].all
    BY <1>0, <2>1, <2>2, Zenon DEF CallOk
  <2> QED
    BY <1>0, <2>1, <2>3, GoesTo, Zenon
<1>6. CASE PreemptSdma(p)
  BY <1>0, <1>6, GoesTo, Zenon DEF PreemptSdma, dqmCounted
<1> QED
  BY <1>1, <1>2, <1>3, <1>4, <1>5, <1>6, Zenon

\* what the invariant is about
seen == <<queue, made, updates, pqm, listed, queue_count, total_queue_count, sdma_queue_count,
          op, lock>>

\* kfd_process_notifier_release begins, the CP works, or nothing happens.
LEMMA NothingSeen ==
    ASSUME DqmInv, UNCHANGED seen
    PROVE  DqmInv'
<1>1. QueueTypes' /\ LockInv'
  BY Zenon DEF DqmInv, seen, QueueTypes, QueueRecords, LockInv
<1>2. \A p \in Procs : Mine(p)' = Mine(p)
  BY Zenon DEF seen, Mine
<1>3. QueuesInv'
  <2>1. ListedOk' /\ DiqOk'
    BY Zenon DEF DqmInv, seen, QueuesInv, ListedOk, DiqOk, IsDiq
  <2>2. ASSUME NEW p \in Procs PROVE MineOk(p)'
    <3>1. MineOk(p)
      BY Zenon DEF DqmInv, QueuesInv
    <3> QED
      BY <1>2, <3>1, Zenon DEF seen, MineOk
  <2> QED
    BY <2>1, <2>2, Zenon DEF QueuesInv
<1>4. CallsInv'
  BY <1>2, ZenonT(60) DEF DqmInv, seen, CallsInv, CallOk, IsDiq
<1>5. CountInv'
  BY Zenon DEF DqmInv, seen, CountInv, Counts, Active, SdmaQueues, Late, LateSdma, Early, Sdma
<1> QED
  BY <1>1, <1>3, <1>4, <1>5, Zenon DEF DqmInv

\* Each step on the device keeps the counters.
LEMMA DqmStepKeeps ==
    ASSUME DqmInv, NEW p \in Procs, DqmStep(p)
    PROVE  DqmInv'
<1>1. CASE Register(p) \/ RegisterFails(p) \/ Unregister(p)
  BY <1>1, Registers, Zenon
<1>2. CASE ListQueue(p)
  BY <1>2, ListQueueStep, Zenon
<1>3. CASE UnlistQueue(p)
  BY <1>3, UnlistQueueStep, Zenon
<1>4. CASE LockDiq(p)
  BY <1>4, LockDiqStep, Zenon
<1>5. CASE UnlistDiq(p)
  BY <1>5, UnlistDiqStep, Zenon
<1>6. CASE \E active \in BOOLEAN : UpdateActive(p, active)
  BY <1>6, UpdateActiveStep, Zenon
<1>7. CASE \/ PreemptSdma(p) \/ Preempt(p) \/ Query(p) \/ Preempted(p) \/ TimeOut(p)
           \/ RunList(p) \/ NoMemory(p)
  BY <1>7, ExecuteStep, ZenonT(60)
<1>8. CASE Created(p)
  BY <1>8, CreatedStep, Zenon
<1>9. CASE Destroyed(p)
  BY <1>9, DestroyedStep, Zenon
<1>10. CASE Updated(p)
  BY <1>10, UpdatedStep, Zenon
<1> QED
  BY <1>1, <1>2, <1>3, <1>4, <1>5, <1>6, <1>7, <1>8, <1>9, <1>10, Zenon DEF DqmStep

\* Each call of a process keeps them.
LEMMA CallKeeps ==
    ASSUME DqmInv, NEW p \in Procs,
           \/ \E ask \in Asks[p] : CreateQueue(p, ask[1], ask[2])
           \/ DbgRegister(p) \/ DbgUnregister(p)
           \/ \E q \in Queues : DestroyQueue(p, q) \/ UpdateQueue(p, q)
           \/ Exit(p) \/ UninitQueue(p)
    PROVE  DqmInv'
<1>0. made \in Nat /\ updates \in Nat /\ updates + 1 \in Nat /\ pqm[p] \in Seq(Queues)
  <2>1. made \in Nat /\ updates \in Nat /\ pqm[p] \in Seq(Queues)
    BY Zenon DEF DqmInv, QueueTypes
  <2> QED
    BY <2>1
<1>1. ASSUME NEW ask \in Asks[p], CreateQueue(p, ask[1], ask[2])
      PROVE  DqmInv'
  <2>1. PICK type, active : type = ask[1] /\ active = ask[2]
    BY Zenon
  <2>2. type # "diq"
    <3>1. Asks[p] \subseteq {"compute", "sdma"} \X BOOLEAN
      BY QueueConstants, Zenon
    <3>2. ask \in {"compute", "sdma"} \X BOOLEAN
      BY <3>1, Zenon
    <3>3. type \in {"compute", "sdma"}
      BY <2>1, <3>2
    <3> QED
      BY <3>3, Zenon
  <2>3. CreateQueue(p, type, active)
    BY <1>1, <2>1, Zenon
  <2> QED
    BY <2>2, <2>3, CreateBegins, Zenon DEF CreateQueue, dqmCounted
<1>2. CASE DbgRegister(p)
  <2>1. CASE Create(p, "diq", TRUE)
    BY <1>2, <2>1, CreateBegins, Zenon DEF DbgRegister, dqmCounted
  <2>2. CASE UNCHANGED <<slots, queue, made, op>>
    BY <1>2, <2>2, NothingSeen, Zenon DEF DbgRegister, seen
  <2> QED
    BY <1>2, <2>1, <2>2, Zenon DEF DbgRegister
<1>3. CASE DbgUnregister(p)
  <2>1. PICK i \in DOMAIN pqm[p] : Call(p, "destroy", pqm[p][i])
    BY <1>3, Zenon DEF DbgUnregister
  <2>2. PICK q : q = pqm[p][i]
    BY Zenon
  <2>3. q \in Mine(p) /\ Call(p, "destroy", q)
    BY <2>1, <2>2, Zenon DEF Mine, Members
  <2> QED
    BY <1>0, <1>3, <2>3, CallBegins, Zenon DEF DbgUnregister
<1>4. ASSUME NEW q \in Queues, DestroyQueue(p, q) PROVE DqmInv'
  <2>1. q \in Mine(p)
    BY <1>4, Zenon DEF DestroyQueue, Mine, Members
  <2> QED
    BY <1>0, <1>4, <2>1, CallBegins, Zenon DEF DestroyQueue
<1>5. ASSUME NEW q \in Queues, UpdateQueue(p, q) PROVE DqmInv'
  <2>1. q \in Mine(p)
    BY <1>5, Zenon DEF UpdateQueue, Mine, Members
  <2> QED
    BY <1>0, <1>5, <2>1, CallBegins, Zenon DEF UpdateQueue
<1>6. CASE Exit(p)
  BY <1>6, NothingSeen, Zenon DEF Exit, seen
<1>7. CASE UninitQueue(p)
  <2>1. PICK q : q = Head(pqm[p])
    BY Zenon
  <2>2. 1 \in DOMAIN pqm[p] /\ q = pqm[p][1]
    BY <1>0, <1>7, <2>1, SMTT(60) DEF UninitQueue
  <2>3. q \in Mine(p) /\ Call(p, "destroy", q)
    BY <1>7, <2>1, <2>2, Zenon DEF UninitQueue, Mine, Members
  <2> QED
    BY <1>0, <1>7, <2>3, CallBegins, Zenon DEF UninitQueue
<1> QED
  BY <1>1, <1>2, <1>3, <1>4, <1>5, <1>6, <1>7, ZenonT(60)

\* No queue yet.
LEMMA DqmInit == Init => DqmInv
<1> SUFFICES ASSUME Init PROVE DqmInv
  OBVIOUS
<1>0. MaxCalls \in Nat /\ None \notin Procs
  BY QueueConstants, Zenon
<1>1. Idle \in Ops /\ Idle.at = "idle" /\ Idle.at \notin Working
  BY <1>0 DEF Idle, Ops, Places, Working
<1>2. /\ NoQueue.proc = None
      /\ NoQueue = [proc |-> NoQueue.proc, qid |-> NoQueue.qid, type |-> NoQueue.type,
                    active |-> NoQueue.active, freed |-> NoQueue.freed]
  BY DEF NoQueue
<1>3. \A q \in Queues : queue[q] = NoQueue
  BY Zenon DEF Init
<1>4. QueueRecords
  BY <1>2, <1>3, Zenon DEF QueueRecords, Init
<1>5. \A p \in Procs : pqm[p] = <<>> /\ op[p] = Idle
  BY Zenon DEF Init
<1>6. <<>> \in Seq(Queues) /\ Distinct(<<>>) /\ Members(<<>>) = {}
  BY DEF Distinct, Members
<1>7. QueueTypes
  <2>1. made \in Nat /\ updates \in Nat /\ made <= MaxCalls
    BY <1>0 DEF Init
  <2>2. pqm \in [Procs -> Seq(Queues)] /\ op \in [Procs -> Ops] /\ lock = None /\ listed = {}
    BY <1>1, <1>6, Zenon DEF Init
  <2> QED
    BY <1>4, <1>5, <1>6, <2>1, <2>2, ZenonT(60) DEF QueueTypes
<1>8. LockInv
  BY <1>0, <1>1, <1>5, Zenon DEF LockInv, Init
<1>9. QueuesInv
  BY <1>2, <1>3, <1>5, <1>6, ZenonT(60) DEF QueuesInv, ListedOk, DiqOk, MineOk, Mine, Init
<1>10. CallsInv
  BY <1>1, <1>5, OutsideOk, Zenon DEF CallsInv
<1>11. Counts(0, 0, 0)
  <2>1. Active = {} /\ SdmaQueues = {} /\ listed = {}
    BY Zenon DEF Active, SdmaQueues, Init
  <2>2. Cardinality({}) = 0
    BY FS_EmptySet, Zenon
  <2>3. queue_count = 0 /\ total_queue_count = 0 /\ sdma_queue_count = 0
    BY Zenon DEF Init
  <2> QED
    BY <2>1, <2>2, <2>3, SMTT(60) DEF Counts
<1>12. CountInv
  BY <1>11, Zenon DEF CountInv, Init
<1> QED
  BY <1>7, <1>8, <1>9, <1>10, <1>12, Zenon DEF DqmInv

\* The counters of the device queue manager say what is on its lists whenever its lock is
\* free, whatever calls are in progress, whatever preemption, registration or run list has
\* failed, and whether processes exit under their debugger or not.
THEOREM CountersExactHolds == Spec => []CountersExact
<1>1. Init => DqmInv
  BY DqmInit, Zenon
<1>2. DqmInv /\ [Next]_vars => DqmInv'
  <2> SUFFICES ASSUME DqmInv, [Next]_vars PROVE DqmInv'
    OBVIOUS
  <2>1. CASE CpStep
    BY <2>1, NothingSeen, Zenon DEF CpStep, seen
  <2>2. CASE UNCHANGED vars
    BY <2>2, NothingSeen, Zenon DEF vars, seen
  <2> QED
    BY <2>1, <2>2, CallKeeps, DqmStepKeeps, Zenon DEF Next
<1>3. DqmInv => CountersExact
  <2> SUFFICES ASSUME DqmInv, lock = None PROVE CountersExact
    BY Zenon DEF CountersExact
  <2>1. Counts(0, 0, 0) /\ listed \in SUBSET Queues
    BY Zenon DEF DqmInv, CountInv, QueueTypes
  <2>2. Cardinality(listed) \in Nat /\ Cardinality(SdmaQueues) \in Nat
    BY <2>1, CardTypes, Zenon
  <2>3. /\ queue_count = Cardinality(Active) /\ total_queue_count = Cardinality(listed)
        /\ sdma_queue_count = Cardinality(SdmaQueues)
    BY <2>1, <2>2 DEF Counts
  <2> QED
    BY <2>3, Zenon DEF CountersExact, CountOf, Active, SdmaQueues
<1> QED
  BY <1>1, <1>2, <1>3, PTL DEF Spec
=============================================================================
