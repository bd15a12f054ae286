---------------------------- MODULE GpuResetProofs ----------------------------
(***************************************************************************)
(* Proofs about the reset of a hung GPU (amdgpu_gpu_reset), for any number *)
(* of jobs, hangs and resets: the scheduler's thread is parked while the   *)
(* jobs are recovered, hw_rq_count stays exact, and no freed job is used,  *)
(* until two resets overlap or one meets a job that had signaled.          *)
(***************************************************************************)
EXTENDS GpuReset, TLAPS

USE DEF mainVars, hwVars, jobVars, gpuVars, history

-----------------------------------------------------------------------------
(* The mirror list *)

\* a list in the order of the job numbers
Sorted(s) == \A i, k \in DOMAIN s : i < k => s[i] < s[k]

Members(s) == {s[i] : i \in DOMAIN s}

\* x is newer than the jobs of a list
Below(s, x) == \A i \in DOMAIN s : s[i] < x

\* list_add_tail of a job that is newer than those of the list.
LEMMA AppendSorted ==
    ASSUME NEW S \in SUBSET Nat, NEW s \in Seq(S), NEW x \in S, Sorted(s),
           Below(s, x)
    PROVE  /\ Append(s, x) \in Seq(S) /\ Sorted(Append(s, x))
           /\ Members(Append(s, x)) = Members(s) \cup {x}
<1>1. PICK a : a = Append(s, x)
  BY Zenon
<1>2. PICK n \in Nat : n = Len(s) /\ DOMAIN s = 1..n
  OBVIOUS
<1>3. /\ a \in Seq(S) /\ DOMAIN a = 1..(n + 1)
      /\ \A i \in 1..n : a[i] = s[i]
      /\ a[n + 1] = x
  BY <1>1, <1>2
<1>4. ASSUME NEW i \in 1..(n + 1) PROVE i \in 1..n \/ i = n + 1
  BY <1>2
<1>5. ASSUME NEW i \in DOMAIN a, NEW k \in DOMAIN a, i < k PROVE a[i] < a[k]
  <2>1. i \in 1..n
    BY <1>2, <1>3, <1>5
  <2>2. CASE k \in 1..n
    BY <1>2, <1>3, <1>5, <2>1, <2>2, Zenon DEF Sorted
  <2>3. CASE k = n + 1
    BY <1>2, <1>3, <2>1, <2>3, Zenon DEF Below
  <2> QED
    BY <1>3, <1>4, <2>2, <2>3, Zenon
<1>6. 1..n \subseteq 1..(n + 1) /\ n + 1 \in 1..(n + 1)
  BY <1>2
<1>7. Members(a) = Members(s) \cup {x}
  BY <1>2, <1>3, <1>4, <1>6, Zenon DEF Members
<1> QED
  BY <1>1, <1>3, <1>5, <1>7, Zenon DEF Sorted

\* list_del_init leaves a list of the same kind.
LEMMA WithoutType ==
    ASSUME NEW S, NEW s \in Seq(S), NEW x
    PROVE  Without(s, x) \in Seq(S)
<1>1. CASE ~ \E i \in DOMAIN s : s[i] = x
  BY <1>1, Zenon DEF Without
<1>2. CASE \E i \in DOMAIN s : s[i] = x
  <2>1. PICK a : a = CHOOSE i \in DOMAIN s : s[i] = x
    BY Zenon
  <2>2. PICK n \in Nat : n = Len(s) /\ DOMAIN s = 1..n
    OBVIOUS
  <2>3. a \in 1..n
    BY <1>2, <2>1, <2>2, Zenon
  <2>4. n - 1 \in Nat /\ \A i \in 1..(n - 1) : i \in 1..n /\ i + 1 \in 1..n
    BY <2>2, <2>3
  <2>5. \A i \in 1..(n - 1) : (IF i < a THEN s[i] ELSE s[i + 1]) \in S
    BY <2>2, <2>4
  <2>6. [i \in 1..(n - 1) |-> IF i < a THEN s[i] ELSE s[i + 1]] \in Seq(S)
    BY <2>4, <2>5
  <2> QED
    BY <1>2, <2>1, <2>2, <2>6, Zenon DEF Without
<1> QED
  BY <1>1, <1>2, Zenon

\* list_del_init takes a job out of the list and keeps the order of the others.
LEMMA WithoutSorted ==
    ASSUME NEW S \in SUBSET Nat, NEW s \in Seq(S), NEW x, Sorted(s), NEW d, d = Without(s, x)
    PROVE  /\ d \in Seq(S) /\ Sorted(d)
           /\ Members(d) = Members(s) \ {x}
<1>1. CASE ~ \E i \in DOMAIN s : s[i] = x
  BY <1>1, Zenon DEF Without, Members
<1>2. CASE \E i \in DOMAIN s : s[i] = x
  <2>1. PICK a : a = CHOOSE i \in DOMAIN s : s[i] = x
    BY Zenon
  <2>2. PICK n \in Nat : n = Len(s) /\ DOMAIN s = 1..n
    OBVIOUS
  <2>3. a \in 1..n /\ s[a] = x
    BY <1>2, <2>1, <2>2, Zenon
  <2>4. d = [i \in 1..(n - 1) |-> IF i < a THEN s[i] ELSE s[i + 1]]
    BY <1>2, <2>1, <2>2, Zenon DEF Without
  <2>5. DOMAIN d = 1..(n - 1) /\ \A i \in 1..(n - 1) : d[i] = IF i < a THEN s[i] ELSE s[i + 1]
    BY <2>4, Zenon
  <2>6. d \in Seq(S)
    BY WithoutType, Zenon
  <2>7. ASSUME NEW i \in DOMAIN d
        PROVE  \E k \in DOMAIN s : d[i] = s[k] /\ k # a /\ k = IF i < a THEN i ELSE i + 1
    BY <2>2, <2>3, <2>5
  <2>8. ASSUME NEW k \in DOMAIN s, k # a PROVE s[k] # x
    <3>0. s[k] \in S /\ s[a] \in S
      BY <2>2, <2>3
    <3>1. s[k] \in Nat /\ s[a] \in Nat
      BY <3>0, Zenon
    <3>2. k < a \/ a < k
      BY <2>2, <2>3, <2>8
    <3>3. s[k] < s[a] \/ s[a] < s[k]
      BY <2>2, <2>3, <3>2, Zenon DEF Sorted
    <3> QED
      BY <2>3, <3>1, <3>3
  <2>9. ASSUME NEW i \in DOMAIN d, NEW k \in DOMAIN d, i < k PROVE d[i] < d[k]
    <3>1. PICK g \in DOMAIN s : d[i] = s[g] /\ g = IF i < a THEN i ELSE i + 1
      BY <2>7, Zenon
    <3>2. PICK h \in DOMAIN s : d[k] = s[h] /\ h = IF k < a THEN k ELSE k + 1
      BY <2>7, Zenon
    <3>3. g < h
      BY <2>3, <2>5, <2>9, <3>1, <3>2
    <3> QED
      BY <3>1, <3>2, <3>3, Zenon DEF Sorted
  <2>10. ASSUME NEW k \in DOMAIN s, s[k] # x PROVE \E i \in DOMAIN d : d[i] = s[k]
    <3>1. CASE k < a
      BY <2>2, <2>3, <2>5, <3>1
    <3>2. CASE k > a
      <4>1. k - 1 \in 1..(n - 1) /\ ~(k - 1 < a) /\ (k - 1) + 1 = k
        BY <2>2, <2>3, <3>2
      <4>2. d[k - 1] = s[k]
        BY <2>5, <4>1, Zenon
      <4> QED
        BY <2>5, <4>1, <4>2, Zenon
    <3> QED
      BY <2>2, <2>3, <2>10, <3>1, <3>2
  <2>11. Members(d) = Members(s) \ {x}
    <3>1. ASSUME NEW i \in DOMAIN d PROVE d[i] # x /\ \E k \in DOMAIN s : d[i] = s[k]
      BY <2>7, <2>8, Zenon
    <3>2. ASSUME NEW y \in Members(d) PROVE y \in Members(s) \ {x}
      BY <3>1, <3>2, Zenon DEF Members
    <3>3. ASSUME NEW y \in Members(s), y # x PROVE y \in Members(d)
      BY <2>10, <3>3, Zenon DEF Members
    <3> QED
      BY <3>2, <3>3, Zenon
  <2> QED
    BY <2>6, <2>9, <2>11, Zenon DEF Sorted
<1> QED
  BY <1>1, <1>2, Zenon

\* the jobs of ring_mirror_list
Listed == Members(mirror)

\* n is the job behind j in the mirror list, or none
Successor(j, n) ==
    /\ n # None => n \in Listed /\ j < n
    /\ \A k \in Listed : j < k => n # None /\ n <= k

\* Jobs are numbered from 1; 0 is no job.
LEMMA JobNumbers == \A k \in Jobs : k \in Nat /\ k # None /\ None < k
BY ResetBounds DEF Jobs, None

\* The mirror list holds jobs.
LEMMA ListedJobs ==
    ASSUME mirror \in Seq(Jobs)
    PROVE  Listed \subseteq Jobs /\ \A k \in Listed : k \in Nat /\ k # None /\ None < k
<1>1. \A i \in DOMAIN mirror : mirror[i] \in Jobs
  OBVIOUS
<1> QED
  BY <1>1, JobNumbers, Zenon DEF Listed, Members

\* list_first_entry_or_null gives the oldest job of the mirror list.
LEMMA FirstFacts ==
    ASSUME mirror \in Seq(Jobs), Sorted(mirror)
    PROVE  Successor(None, First)
<1>1. PICK n \in Nat : n = Len(mirror) /\ DOMAIN mirror = 1..n
  OBVIOUS
<1>2. \A k \in Listed : k \in Nat
  BY ListedJobs, Zenon
<1>3. CASE mirror = <<>>
  <2>1. Listed = {}
    BY <1>3 DEF Listed, Members
  <2> QED
    BY <1>3, <2>1, Zenon DEF Successor, First
<1>4. CASE mirror # <<>>
  <2>1. 1 \in DOMAIN mirror /\ First = mirror[1] /\ mirror[1] \in Jobs
    BY <1>1, <1>4 DEF First
  <2>2. First \in Listed /\ First > 0
    BY <2>1 DEF Listed, Members, Jobs
  <2>3. ASSUME NEW k \in Listed PROVE First <= k
    <3>1. PICK i \in DOMAIN mirror : mirror[i] = k
      BY <2>3, Zenon DEF Listed, Members
    <3>2. i = 1 \/ 1 < i
      BY <1>1, <3>1
    <3>3. mirror[1] = mirror[i] \/ mirror[1] < mirror[i]
      BY <2>1, <3>2, Zenon DEF Sorted
    <3> QED
      BY <1>2, <2>1, <2>2, <3>1, <3>3
  <2> QED
    BY <2>2, <2>3 DEF Successor, None
<1> QED
  BY <1>3, <1>4, Zenon

\* list_next_entry of a job of the mirror list gives the next newer job.
LEMMA AfterFacts ==
    ASSUME mirror \in Seq(Jobs), Sorted(mirror), NEW j \in Listed
    PROVE  Successor(j, After(j))
<1>1. PICK n \in Nat : n = Len(mirror) /\ DOMAIN mirror = 1..n
  OBVIOUS
<1>2. \A k \in Listed : k \in Nat /\ k # None
  BY ListedJobs, Zenon
<1>3. InMirror(j)
  BY Zenon DEF InMirror, Listed, Members
<1>4. PICK p \in 1..n : mirror[p] = j
  BY <1>1, Zenon DEF Listed, Members
<1>5. ASSUME NEW i \in 1..n, mirror[i] = j PROVE i = p
  <2>1. i < p \/ i > p \/ i = p
    BY <1>1
  <2>2. mirror[i] < mirror[p] \/ mirror[p] < mirror[i] \/ i = p
    BY <1>1, <2>1 DEF Sorted
  <2> QED
    BY <1>2, <1>4, <1>5, <2>2
<1>6. PICK later : later = {i \in DOMAIN mirror : i > 1 /\ mirror[i - 1] = j}
  BY Zenon
<1>7. \A i \in later : i = p + 1 /\ i \in 1..n
  <2> SUFFICES ASSUME NEW i \in later PROVE i = p + 1 /\ i \in 1..n
    BY Zenon
  <2>1. i \in 1..n /\ i > 1 /\ mirror[i - 1] = j
    BY <1>1, <1>6, Zenon
  <2>2. i - 1 \in 1..n
    BY <1>1, <2>1
  <2>3. i - 1 = p
    BY <1>5, <2>1, <2>2, Zenon
  <2> QED
    BY <2>1, <2>3
<1>8. ASSUME NEW k \in Listed, j < k
      PROVE  /\ p + 1 \in later /\ mirror[p + 1] <= k
  <2>1. PICK i \in 1..n : mirror[i] = k
    BY <1>1, <1>8, Zenon DEF Listed, Members
  <2>2. ~(i <= p)
    <3>1. i < p => mirror[i] < mirror[p]
      BY <1>1, Zenon DEF Sorted
    <3> QED
      BY <1>1, <1>2, <1>4, <1>8, <2>1, <3>1
  <2>3. p + 1 \in 1..n /\ p + 1 > 1 /\ (p + 1) - 1 = p /\ (i = p + 1 \/ p + 1 < i)
    BY <1>1, <2>2
  <2>4. p + 1 \in later
    BY <1>1, <1>4, <1>6, <2>3, Zenon
  <2>5. mirror[p + 1] = mirror[i] \/ mirror[p + 1] < mirror[i]
    BY <1>1, <2>3, Zenon DEF Sorted
  <2>6. mirror[p + 1] \in Listed
    BY <1>1, <2>3, Zenon DEF Listed, Members
  <2> QED
    BY <1>2, <1>8, <2>1, <2>4, <2>5, <2>6
<1>9. CASE later = {}
  <2>1. After(j) = None
    BY <1>3, <1>6, <1>9, Zenon DEF After
  <2> QED
    BY <1>8, <1>9, <2>1, Zenon DEF Successor
<1>10. CASE later # {}
  <2>1. PICK c : c = CHOOSE i \in later : TRUE
    BY Zenon
  <2>2. c \in later
    BY <1>10, <2>1, Zenon
  <2>3. After(j) = mirror[p + 1] /\ p + 1 \in 1..n
    <3>1. After(j) = mirror[c]
      BY <1>3, <1>6, <1>10, <2>1, Zenon DEF After
    <3> QED
      BY <1>7, <2>2, <3>1, Zenon
  <2>4. p < p + 1
    BY <1>1
  <2>5. j < After(j) /\ After(j) \in Listed
    BY <1>1, <1>4, <2>3, <2>4, Zenon DEF Sorted, Listed, Members
  <2> QED
    BY <1>2, <1>8, <2>3, <2>5, Zenon DEF Successor
<1> QED
  BY <1>9, <1>10, Zenon

-----------------------------------------------------------------------------
(* Types *)

Places == {"no", "check", "park", "parking", "asic", "recovery", "rerun", "reinstall", "unpark",
           "oops"}

OptJobs == Jobs \cup {None}

ResetRecords ==
    [at : Places, tdrJob : OptJobs, job : OptJobs, tmp : OptJobs, fence : Nat]

\* The types of what the proofs reason about.
ResetTypes ==
    /\ mirror \in Seq(Jobs)
    /\ cb \in [Jobs -> Nat]
    /\ main \in {"top", "run", "install", "parked"} /\ cur \in OptJobs
    /\ next \in 1..(NumJobs + 1) /\ fresh \in Nat
    /\ runs \in Nat /\ ring \in Seq(OptJobs \X (Nat \ {0}))
    /\ finish \in [Jobs -> {"no", "queued", "cancel", "freed"}]
    /\ tdr \in [Jobs -> {"off", "armed", "running", "rearmed"}]
    /\ reset \in [ResetThreads -> ResetRecords]

\* the record of a thread that is at a, after the timeout of d, with the variables j, n and
\* f of amd_sched_job_recovery
Rec(a, d, j, n, f) == [at |-> a, tdrJob |-> d, job |-> j, tmp |-> n, fence |-> f]

\* What RecoveryRun assigns to the record of a thread.
LEMMA RecFence ==
    ASSUME NEW q \in ResetRecords, NEW a, NEW f
    PROVE  [q EXCEPT !.at = a, !.fence = f] = Rec(a, q.tdrJob, q.job, q.tmp, f)
<1>1. PICK p : p = [q EXCEPT !.at = a]
  BY Zenon
<1>2. PICK d, k, m, g : d = q.tdrJob /\ k = q.job /\ m = q.tmp /\ g = q.fence
  BY Zenon
<1>3. p = Rec(a, d, k, m, g)
  BY <1>1, <1>2 DEF Rec, ResetRecords
<1>4. [p EXCEPT !.fence = f] = Rec(a, d, k, m, f)
  BY <1>3 DEF Rec
<1> QED
  BY <1>1, <1>2, <1>4, Zenon

\* What RecoveryStart, and first RecoveryInstall, assign to the record of a thread.
LEMMA RecJob ==
    ASSUME NEW q \in ResetRecords, NEW a, NEW j, NEW n
    PROVE  [q EXCEPT !.at = a, !.job = j, !.tmp = n] = Rec(a, q.tdrJob, j, n, q.fence)
<1>1. PICK p : p = [q EXCEPT !.at = a]
  BY Zenon
<1>2. PICK d, k, m, g : d = q.tdrJob /\ k = q.job /\ m = q.tmp /\ g = q.fence
  BY Zenon
<1>3. p = Rec(a, d, k, m, g)
  BY <1>1, <1>2 DEF Rec, ResetRecords
<1>4. PICK o : o = [p EXCEPT !.job = j]
  BY Zenon
<1>5. o = Rec(a, d, j, m, g)
  BY <1>3, <1>4 DEF Rec
<1>6. [o EXCEPT !.tmp = n] = Rec(a, d, j, n, g)
  BY <1>5 DEF Rec
<1> QED
  BY <1>1, <1>2, <1>4, <1>6, Zenon

\* a step has moved thread t, and no other, to the place a, with the job d of its timeout
\* and the variables j and n
Moved(t, a, d, j, n) ==
    /\ t \in ResetThreads
    /\ reset' \in [ResetThreads -> ResetRecords]
    /\ reset'[t].at = a /\ reset'[t].tdrJob = d /\ reset'[t].job = j /\ reset'[t].tmp = n
    /\ \A u \in ResetThreads : u # t => reset'[u] = reset[u]

\* The record of a thread that does not reset.
LEMMA NoResetRec ==
    /\ NoReset \in ResetRecords
    /\ NoReset.at = "no" /\ NoReset.tdrJob = None /\ NoReset.job = None /\ NoReset.tmp = None
BY DEF NoReset, ResetRecords, Places, OptJobs, None

\* A step of a thread that assigns its whole record.
LEMMA SetMoves ==
    ASSUME ResetTypes, NEW t \in ResetThreads, NEW r \in ResetRecords,
           reset' = [reset EXCEPT ![t] = r]
    PROVE  Moved(t, r.at, r.tdrJob, r.job, r.tmp)
BY Zenon DEF ResetTypes, Moved

\* A step of a thread that changes nothing but its place.
LEMMA GoMoves ==
    ASSUME ResetTypes, NEW t \in ResetThreads, NEW s \in Places, Go(t, s)
    PROVE  Moved(t, s, reset[t].tdrJob, reset[t].job, reset[t].tmp)
<1>1. reset[t] \in ResetRecords
  BY Zenon DEF ResetTypes
<1>2. PICK r : r = [reset[t] EXCEPT !.at = s]
  BY Zenon
<1>3. /\ r \in ResetRecords /\ r.at = s
      /\ r.tdrJob = reset[t].tdrJob /\ r.job = reset[t].job /\ r.tmp = reset[t].tmp
  BY <1>1, <1>2 DEF ResetRecords
<1>4. reset' = [reset EXCEPT ![t] = r]
  BY <1>2, Zenon DEF Go
<1> QED
  BY <1>3, <1>4, SetMoves, Zenon

\* The first job of the mirror list and the one behind a job are jobs or none.
LEMMA ListTypes ==
    ASSUME mirror \in Seq(Jobs)
    PROVE  First \in OptJobs /\ \A j \in OptJobs : After(j) \in OptJobs
<1>1. \A i \in DOMAIN mirror : mirror[i] \in OptJobs
  BY DEF OptJobs
<1>2. First \in OptJobs
  <2>1. mirror # <<>> => 1 \in DOMAIN mirror /\ Head(mirror) = mirror[1]
    OBVIOUS
  <2> QED
    BY <1>1, <2>1, Zenon DEF First, OptJobs
<1>3. ASSUME NEW j \in OptJobs PROVE After(j) \in OptJobs
  <2>1. PICK later : later = {i \in DOMAIN mirror : i > 1 /\ mirror[i - 1] = j}
    BY Zenon
  <2>2. PICK c : c = CHOOSE i \in later : TRUE
    BY Zenon
  <2>3. After(j) = CASE ~InMirror(j) -> j
                     [] InMirror(j) /\ later = {} -> None
                     [] OTHER -> mirror[c]
    BY <2>1, <2>2, Zenon DEF After
  <2>4. later # {} => c \in DOMAIN mirror
    BY <2>1, <2>2, Zenon
  <2>5. CASE ~InMirror(j)
    BY <2>3, <2>5, Zenon
  <2>6. CASE InMirror(j) /\ later = {}
    BY <2>3, <2>6, Zenon DEF OptJobs
  <2>7. CASE InMirror(j) /\ later # {}
    BY <1>1, <2>3, <2>4, <2>7, Zenon
  <2> QED
    BY <2>5, <2>6, <2>7, Zenon
<1> QED
  BY <1>2, <1>3, Zenon

\* The timeout of a job begins a reset.
LEMMA TdrFireMoves ==
    ASSUME ResetTypes, NEW j \in Jobs, TdrFire(j)
    PROVE  Moved("tdr", "check", j, None, None)
<1>1. PICK r : r = [NoReset EXCEPT !.at = "check", !.tdrJob = j]
  BY Zenon
<1>2. r \in ResetRecords /\ r.at = "check" /\ r.tdrJob = j /\ r.job = None /\ r.tmp = None
  BY <1>1, ZenonT(60) DEF NoReset, ResetRecords, Places, OptJobs, None
<1>3. "tdr" \in ResetThreads /\ reset' = [reset EXCEPT !["tdr"] = r]
  BY <1>1, Zenon DEF TdrFire, MayReset
<1> QED
  BY <1>2, <1>3, SetMoves, Zenon

\* the place of amd_sched_job_recovery for the job n, and the job behind it
RecoveryPlace(n) == IF n = None THEN "unpark" ELSE "rerun"
RecoveryTmp(n)   == IF n = None THEN None ELSE After(n)

\* The recovery begins with the first job of the mirror list.
LEMMA RecoveryStartMoves ==
    ASSUME ResetTypes, NEW t \in ResetThreads, RecoveryStart(t)
    PROVE  Moved(t, RecoveryPlace(First), reset[t].tdrJob, First, RecoveryTmp(First))
<1>1. reset[t] \in ResetRecords /\ First \in OptJobs /\ After(First) \in OptJobs
  BY ListTypes, Zenon DEF ResetTypes
<1>2. PICK a : a = RecoveryPlace(First)
  BY Zenon
<1>3. PICK n : n = RecoveryTmp(First)
  BY Zenon
<1>4. PICK f : f = First
  BY Zenon
<1>5. a \in Places /\ n \in OptJobs /\ f \in OptJobs
  BY <1>1, <1>2, <1>3, <1>4, Zenon DEF RecoveryPlace, RecoveryTmp, Places, OptJobs
<1>6. PICK r : r = Rec(a, reset[t].tdrJob, f, n, reset[t].fence)
  BY Zenon
<1>7. r \in ResetRecords /\ r.at = a /\ r.tdrJob = reset[t].tdrJob /\ r.job = f /\ r.tmp = n
  BY <1>1, <1>5, <1>6 DEF ResetRecords, Rec
<1>8. reset' = [reset EXCEPT ![t] = [@ EXCEPT !.at = a, !.job = f, !.tmp = n]]
  BY <1>2, <1>3, <1>4, Zenon DEF RecoveryStart, RecoveryPlace, RecoveryTmp
<1>9. r = [reset[t] EXCEPT !.at = a, !.job = f, !.tmp = n]
  BY <1>1, <1>6, RecJob, Zenon
<1>10. reset' = [reset EXCEPT ![t] = r]
  BY <1>8, <1>9, Zenon
<1> QED
  BY <1>2, <1>3, <1>4, <1>6, <1>7, <1>10, SetMoves, Zenon

\* run_job returns a number or none.
LEMMA RunFenceType == ASSUME ResetTypes PROVE RunFence \in Nat
<1>1. runs \in Nat
  BY Zenon DEF ResetTypes
<1> QED
  BY <1>1 DEF RunFence, None

\* The recovery has run a job again.
LEMMA RecoveryRunMoves ==
    ASSUME ResetTypes, NEW t \in ResetThreads, RecoveryRun(t)
    PROVE  Moved(t, "reinstall", reset[t].tdrJob, reset[t].job, reset[t].tmp)
<1>1. reset[t] \in ResetRecords /\ reset \in [ResetThreads -> ResetRecords]
  BY Zenon DEF ResetTypes
<1>2. PICK f \in Nat : f = RunFence
  BY RunFenceType, Zenon
<1>3. PICK r : r = Rec("reinstall", reset[t].tdrJob, reset[t].job, reset[t].tmp, f)
  BY Zenon
<1>4. /\ r \in ResetRecords /\ r.at = "reinstall"
      /\ r.tdrJob = reset[t].tdrJob /\ r.job = reset[t].job /\ r.tmp = reset[t].tmp
  BY <1>1, <1>2, <1>3 DEF ResetRecords, Rec, Places
<1>5. r = [reset[t] EXCEPT !.at = "reinstall", !.fence = f]
  BY <1>1, <1>3, RecFence, Zenon
<1>6. reset' = [reset EXCEPT ![t] = r]
  BY <1>2, <1>5, Zenon DEF RecoveryRun
<1> QED
  BY <1>2, <1>3, <1>4, <1>6, SetMoves, Zenon

\* The recovery goes on to the job it has noted.
LEMMA RecoveryInstallMoves ==
    ASSUME ResetTypes, NEW t \in ResetThreads, RecoveryInstall(t)
    PROVE  Moved(t, RecoveryPlace(reset[t].tmp), reset[t].tdrJob, reset[t].tmp,
                 RecoveryTmp(reset[t].tmp))
<1>1. reset[t] \in ResetRecords /\ reset \in [ResetThreads -> ResetRecords]
  BY Zenon DEF ResetTypes
<1>2. reset[t].tmp \in OptJobs
  BY <1>1 DEF ResetRecords
<1>3. PICK n : n = reset[t].tmp
  BY Zenon
<1>4. After(n) \in OptJobs
  BY <1>2, <1>3, ListTypes, Zenon DEF ResetTypes
<1>5. PICK a : a = RecoveryPlace(n)
  BY Zenon
<1>6. PICK m : m = RecoveryTmp(n)
  BY Zenon
<1>7. a \in Places /\ n \in OptJobs /\ m \in OptJobs
  BY <1>2, <1>3, <1>4, <1>5, <1>6, Zenon DEF RecoveryPlace, RecoveryTmp, Places, OptJobs
<1>8. PICK r : r = Rec(a, reset[t].tdrJob, n, m, None)
  BY Zenon
<1>9. r \in ResetRecords /\ r.at = a /\ r.tdrJob = reset[t].tdrJob /\ r.job = n /\ r.tmp = m
  BY <1>1, <1>7, <1>8 DEF ResetRecords, Rec, None
<1>10. r = [reset[t] EXCEPT !.at = a, !.job = n, !.tmp = m, !.fence = None]
  <2>1. PICK p : p = [reset[t] EXCEPT !.at = a, !.job = n, !.tmp = m]
    BY Zenon
  <2>2. PICK d, g : d = reset[t].tdrJob /\ g = reset[t].fence
    BY Zenon
  <2>3. p = Rec(a, d, n, m, g)
    BY <1>1, <2>1, <2>2, RecJob, Zenon
  <2>4. [p EXCEPT !.fence = None] = Rec(a, d, n, m, None)
    BY <2>3 DEF Rec
  <2> QED
    BY <1>8, <2>1, <2>2, <2>4, Zenon
<1>11. reset' = [reset EXCEPT ![t] = r]
  BY <1>3, <1>5, <1>6, <1>10, Zenon
  DEF RecoveryInstall, NextToRecover, RecoveryPlace, RecoveryTmp
<1> QED
  BY <1>3, <1>5, <1>6, <1>8, <1>9, <1>11, SetMoves, Zenon

\* amd_sched_process_job queues finish works and changes nothing else of them.
LEMMA ProcessTypes ==
    ASSUME ResetTypes, NEW S, ProcessJobs(S)
    PROVE  finish' \in [Jobs -> {"no", "queued", "cancel", "freed"}]
BY Zenon DEF ResetTypes, ProcessJobs

\* fence_add_callback or amd_sched_process_job.
LEMMA InstallTypes ==
    ASSUME ResetTypes, NEW j, NEW f \in Nat, Install(j, f)
    PROVE  /\ cb' \in [Jobs -> Nat]
           /\ finish' \in [Jobs -> {"no", "queued", "cancel", "freed"}]
<1>1. CASE cb' = [cb EXCEPT ![j] = f] /\ UNCHANGED finish
  BY <1>1, Zenon DEF ResetTypes
<1>2. CASE UNCHANGED cb /\ ProcessJobs({j})
  BY <1>2, ProcessTypes, Zenon DEF ResetTypes
<1> QED
  BY <1>1, <1>2, Zenon DEF Install

\* run_job adds a job and a new hardware fence to the ring.
LEMMA RunTypes ==
    ASSUME ResetTypes, NEW j \in OptJobs, RunOnRing(j)
    PROVE  runs' \in Nat /\ ring' \in Seq(OptJobs \X (Nat \ {0}))
<1>1. runs \in Nat /\ ring \in Seq(OptJobs \X (Nat \ {0}))
  BY Zenon DEF ResetTypes
<1>2. runs + 1 \in Nat \ {0}
  BY <1>1
<1>3. PICK e : e = <<j, runs + 1>>
  BY Zenon
<1>4. e \in OptJobs \X (Nat \ {0})
  BY <1>2, <1>3
<1>5. Append(ring, e) \in Seq(OptJobs \X (Nat \ {0}))
  BY <1>1, <1>4
<1> QED
  BY <1>1, <1>2, <1>3, <1>5, Zenon DEF RunOnRing

\* schedule_delayed_work changes a timer to one of its states.
LEMMA ArmTypes ==
    ASSUME ResetTypes, NEW j, Arm(j)
    PROVE  tdr' \in [Jobs -> {"off", "armed", "running", "rearmed"}]
<1>1. \A k \in Jobs : Armed(k) \in {"off", "armed", "running", "rearmed"}
  BY Zenon DEF ResetTypes, Armed
<1> QED
  BY <1>1, Zenon DEF ResetTypes, Arm

\* The return of a timeout work does, too.
LEMMA TdrDoneTypes ==
    ASSUME ResetTypes, NEW t, TdrDone(t)
    PROVE  tdr' \in [Jobs -> {"off", "armed", "running", "rearmed"}]
BY Zenon DEF ResetTypes, TdrDone

\* Every step keeps the types.
LEMMA TypesStep ==
    ASSUME ResetTypes, [Next]_vars
    PROVE  ResetTypes'
<1>t. /\ mirror \in Seq(Jobs) /\ cb \in [Jobs -> Nat] /\ cur \in OptJobs /\ fresh \in Nat
      /\ next \in 1..(NumJobs + 1) /\ None \in OptJobs /\ None \in Nat
      /\ reset \in [ResetThreads -> ResetRecords]
  BY DEF ResetTypes, OptJobs, None
<1>1. CASE MainBegin
  <2>1. next \in Jobs /\ next + 1 \in 1..(NumJobs + 1)
    BY <1>1, <1>t, ResetBounds DEF MainBegin, Jobs
  <2>2. Append(mirror, next) \in Seq(Jobs)
    BY <1>t, <2>1
  <2>3. next \in OptJobs
    BY <2>1, Zenon DEF OptJobs
  <2>4. tdr' \in [Jobs -> {"off", "armed", "running", "rearmed"}]
    BY <1>1, ArmTypes, Zenon DEF MainBegin
  <2> QED
    BY <1>1, <2>1, <2>2, <2>3, <2>4, Zenon DEF MainBegin, ResetTypes
<1>2. CASE MainRun
  <2>1. runs' \in Nat /\ ring' \in Seq(OptJobs \X (Nat \ {0})) /\ RunFence \in Nat
    BY <1>2, <1>t, RunTypes, RunFenceType, Zenon DEF MainRun
  <2> QED
    BY <1>2, <2>1, Zenon DEF MainRun, ResetTypes
<1>3. CASE MainInstall
  <2>1. cb' \in [Jobs -> Nat] /\ finish' \in [Jobs -> {"no", "queued", "cancel", "freed"}]
    BY <1>3, <1>t, InstallTypes, Zenon DEF MainInstall
  <2> QED
    BY <1>3, <1>t, <2>1, Zenon DEF MainInstall, ResetTypes
<1>4. CASE MainPark \/ MainUnpark
  BY <1>4, Zenon DEF MainPark, MainUnpark, ResetTypes
<1>5. CASE GpuPass
  <2>1. PICK S : /\ cb' = [j \in Jobs |-> IF j \in S THEN None ELSE cb[j]]
                 /\ ProcessJobs(S)
    BY <1>5, Zenon DEF GpuPass
  <2>2. cb' \in [Jobs -> Nat]
    BY <1>t, <2>1, Zenon
  <2>3. finish' \in [Jobs -> {"no", "queued", "cancel", "freed"}]
    BY <2>1, ProcessTypes, Zenon
  <2>4. ring' \in Seq(OptJobs \X (Nat \ {0}))
    <3>1. ring \in Seq(OptJobs \X (Nat \ {0})) /\ ring # <<>> /\ ring' = Tail(ring)
      BY <1>5, Zenon DEF GpuPass, ResetTypes
    <3>2. ASSUME NEW S1, NEW s \in Seq(S1), s # <<>> PROVE Tail(s) \in Seq(S1)
      BY <3>2
    <3> QED
      BY <3>1, <3>2, Zenon
  <2> QED
    BY <1>5, <2>2, <2>3, <2>4, Zenon DEF GpuPass, ResetTypes
<1>6. CASE GpuHang
  BY <1>6, Zenon DEF GpuHang, ResetTypes
<1>7. ASSUME NEW j \in Jobs, FinishDel(j) PROVE ResetTypes'
  <2>1. mirror' \in Seq(Jobs)
    BY <1>7, <1>t, WithoutType, Zenon DEF FinishDel
  <2>2. finish' \in [Jobs -> {"no", "queued", "cancel", "freed"}]
    BY <1>7, Zenon DEF FinishDel, ResetTypes
  <2> QED
    BY <1>7, <2>1, <2>2, Zenon DEF FinishDel, ResetTypes
<1>8. ASSUME NEW j \in Jobs, FinishFree(j) PROVE ResetTypes'
  <2>1. finish' \in [Jobs -> {"no", "queued", "cancel", "freed"}]
    BY <1>8, Zenon DEF FinishFree, ResetTypes
  <2>2. \A k \in Jobs : Armed(k) \in {"off", "armed", "running", "rearmed"}
    BY Zenon DEF ResetTypes, Armed
  <2>3. tdr' = [k \in Jobs |-> CASE k = j /\ tdr[k] = "armed" -> "off"
                                [] k = First -> Armed(k)
                                [] OTHER -> tdr[k]]
    BY <1>8, Zenon DEF FinishFree
  <2>4. tdr' \in [Jobs -> {"off", "armed", "running", "rearmed"}]
    BY <2>2, <2>3 DEF ResetTypes
  <2> QED
    BY <1>8, <2>1, <2>4, Zenon DEF FinishFree, ResetTypes
<1>9. ASSUME NEW j \in Jobs, TdrFire(j) PROVE ResetTypes'
  <2>1. reset' \in [ResetThreads -> ResetRecords]
    BY <1>9, TdrFireMoves, Zenon DEF Moved
  <2> QED
    BY <1>9, <2>1, Zenon DEF TdrFire, ResetTypes
<1>10. CASE OtherReset
  <2>1. "other" \in ResetThreads /\ Go("other", "check") /\ "check" \in Places
    BY <1>10, Zenon DEF OtherReset, MayReset, Go, Places
  <2>2. reset' \in [ResetThreads -> ResetRecords]
    BY <2>1, GoMoves, Zenon DEF Moved
  <2> QED
    BY <1>10, <2>2, Zenon DEF OtherReset, ResetTypes
<1>11. ASSUME NEW t \in ResetThreads, Reset(t) PROVE ResetTypes'
  <2>1. CASE ResetCheck(t)
    <3>1. CASE Go(t, "park") /\ UNCHANGED tdr
      <4>1. reset' \in [ResetThreads -> ResetRecords]
        BY <3>1, GoMoves, Zenon DEF Moved, Places
      <4> QED
        BY <2>1, <3>1, <4>1, Zenon DEF ResetCheck, ResetTypes
    <3>2. CASE reset' = [reset EXCEPT ![t] = NoReset] /\ TdrDone(t)
      <4>1. reset' \in [ResetThreads -> ResetRecords]
        BY <3>2, SetMoves, NoResetRec, Zenon DEF Moved
      <4> QED
        BY <2>1, <3>2, <4>1, TdrDoneTypes, Zenon DEF ResetCheck, ResetTypes
    <3> QED
      BY <2>1, <3>1, <3>2, Zenon DEF ResetCheck
  <2>2. CASE ResetPark(t) \/ AsicReset(t) \/ ResumeFails(t)
    <3>1. reset' \in [ResetThreads -> ResetRecords]
      BY <2>2, GoMoves, Zenon DEF Moved, ResetPark, AsicReset, ResumeFails, Places
    <3>2. ring' \in Seq(OptJobs \X (Nat \ {0}))
      <4>1. <<>> \in Seq(OptJobs \X (Nat \ {0}))
        OBVIOUS
      <4> QED
        BY <2>2, <4>1, Zenon DEF ResetPark, AsicReset, ResumeFails, ResetTypes
    <3> QED
      BY <2>2, <3>1, <3>2, Zenon DEF ResetPark, AsicReset, ResumeFails, ResetTypes
  <2>3. CASE HwJobReset(t) \/ HwJobOops(t)
    <3>1. reset' \in [ResetThreads -> ResetRecords]
      BY <2>3, GoMoves, Zenon DEF Moved, HwJobReset, HwJobOops, Places
    <3>2. PICK S : cb' = [j \in Jobs |-> IF j \in S THEN None ELSE cb[j]]
      BY <2>3, Zenon DEF HwJobReset, HwJobOops
    <3>3. cb' \in [Jobs -> Nat]
      BY <1>t, <3>2, Zenon
    <3> QED
      BY <2>3, <3>1, <3>3, Zenon DEF HwJobReset, HwJobOops, ResetTypes
  <2>4. CASE RecoveryStart(t)
    <3>1. reset' \in [ResetThreads -> ResetRecords]
      BY <2>4, RecoveryStartMoves, Zenon DEF Moved
    <3>2. tdr' \in [Jobs -> {"off", "armed", "running", "rearmed"}]
      BY <2>4, ArmTypes, Zenon DEF RecoveryStart, RecoveryTimer
    <3> QED
      BY <2>4, <3>1, <3>2, Zenon DEF RecoveryStart, ResetTypes
  <2>5. CASE RecoveryRun(t)
    <3>1. reset' \in [ResetThreads -> ResetRecords]
      BY <2>5, RecoveryRunMoves, Zenon DEF Moved
    <3>2. reset[t].job \in OptJobs
      BY <1>t DEF ResetRecords
    <3>3. runs' \in Nat /\ ring' \in Seq(OptJobs \X (Nat \ {0}))
      BY <2>5, <3>2, RunTypes, Zenon DEF RecoveryRun
    <3> QED
      BY <2>5, <3>1, <3>3, Zenon DEF RecoveryRun, ResetTypes
  <2>6. CASE RecoveryInstall(t)
    <3>1. reset' \in [ResetThreads -> ResetRecords]
      BY <2>6, RecoveryInstallMoves, Zenon DEF Moved
    <3>2. reset[t].fence \in Nat
      BY <1>t DEF ResetRecords
    <3>3. cb' \in [Jobs -> Nat] /\ finish' \in [Jobs -> {"no", "queued", "cancel", "freed"}]
      BY <2>6, <3>2, InstallTypes, Zenon DEF RecoveryInstall
    <3> QED
      BY <2>6, <3>1, <3>3, Zenon DEF RecoveryInstall, ResetTypes
  <2>7. CASE ResetUnpark(t)
    <3>1. reset' \in [ResetThreads -> ResetRecords]
      BY <2>7, SetMoves, NoResetRec, Zenon DEF Moved, ResetUnpark
    <3>2. tdr' \in [Jobs -> {"off", "armed", "running", "rearmed"}]
      BY <2>7, TdrDoneTypes, Zenon DEF ResetUnpark
    <3> QED
      BY <2>7, <3>1, <3>2, Zenon DEF ResetUnpark, ResetTypes
  <2> QED
    BY <1>11, <2>1, <2>2, <2>3, <2>4, <2>5, <2>6, <2>7, Zenon DEF Reset
<1>12. CASE UNCHANGED vars
  BY <1>12, Zenon DEF vars, ResetTypes
<1> QED
  BY <1>1, <1>2, <1>3, <1>4, <1>5, <1>6, <1>7, <1>8, <1>9, <1>10, <1>11, <1>12, Zenon
  DEF Next, Main, FinishWork

-----------------------------------------------------------------------------
(* The scheduler is blocked *)

\* from amd_sched_hw_job_reset to the unparking, or to the death of the thread there
Blocking == {"asic", "recovery", "rerun", "reinstall", "unpark", "oops"}

\* At most one thread is past amdgpu_check_soft_reset, the main thread is asked to park from
\* ResetPark on, and has parked when amd_sched_hw_job_reset runs.
ThreadInv ==
    \A t \in ResetThreads :
        /\ reset[t].at = "no" => reset[t] = NoReset
        /\ reset[t].at \in Blocking \cup {"parking"} => park
        /\ reset[t].at \in Blocking => main = "parked"
        /\ \A u \in ResetThreads : Resetting(t) /\ Resetting(u) => t = u

\* The two places of a thread that does not reset, or not yet.
LEMMA AsidePlaces ==
    /\ "no" \notin Blocking \cup {"parking"} /\ "no" \notin Blocking
    /\ "check" \notin Blocking \cup {"parking"} /\ "check" \notin Blocking
    /\ \A a \in {"no", "check"} : a \notin Blocking \cup {"parking"} /\ a \notin Blocking
BY Zenon DEF Blocking

\* A step of the thread that resets, or of the first one past amdgpu_check_soft_reset.
LEMMA MovesOn ==
    ASSUME ThreadInv, NEW t \in ResetThreads,
           Resetting(t) \/ \A u \in ResetThreads : ~Resetting(u),
           NEW a, NEW d, NEW j, NEW n, Moved(t, a, d, j, n), a # "no",
           a \in Blocking \cup {"parking"} => park',
           a \in Blocking => main' = "parked"
    PROVE  ThreadInv'
<1>1. reset'[t].at = a /\ \A u \in ResetThreads : u # t => reset'[u] = reset[u]
  BY Zenon DEF Moved
<1>2. \A u \in ResetThreads : u # t => reset[u].at \in {"no", "check"}
  BY Zenon DEF ThreadInv, Resetting
<1>3. \A u \in ResetThreads : u # t => reset'[u].at \in {"no", "check"}
  BY <1>1, <1>2, Zenon
<1>4. SUFFICES ASSUME NEW v \in ResetThreads
               PROVE  /\ reset'[v].at = "no" => reset'[v] = NoReset
                      /\ reset'[v].at \in Blocking \cup {"parking"} => park'
                      /\ reset'[v].at \in Blocking => main' = "parked"
                      /\ \A u \in ResetThreads : Resetting(v)' /\ Resetting(u)' => v = u
  BY Zenon DEF ThreadInv
<1>5. \A u \in ResetThreads : Resetting(u)' => u = t
  BY <1>3, Zenon DEF Resetting
<1>6. CASE v = t
  BY <1>1, <1>5, <1>6, Zenon
<1>7. CASE v # t
  <2>1. reset'[v].at = "no" => reset'[v] = NoReset
    BY <1>1, <1>7, Zenon DEF ThreadInv
  <2>2. reset'[v].at \notin Blocking \cup {"parking"} /\ reset'[v].at \notin Blocking
    BY <1>3, <1>7, AsidePlaces, Zenon
  <2> QED
    BY <1>5, <1>7, <2>1, <2>2, Zenon
<1> QED
  BY <1>6, <1>7, Zenon

\* A thread enters amdgpu_gpu_reset or returns from it: it disturbs no other.
LEMMA MovesAside ==
    ASSUME ThreadInv, NEW t \in ResetThreads,
           NEW a \in {"no", "check"}, NEW d, NEW j, NEW n, Moved(t, a, d, j, n),
           a = "no" => reset'[t] = NoReset,
           Resetting(t) \/ UNCHANGED <<park, main>>
    PROVE  ThreadInv'
<1>1. reset'[t].at = a /\ \A u \in ResetThreads : u # t => reset'[u] = reset[u]
  BY Zenon DEF Moved
<1>2. ~Resetting(t)' /\ \A u \in ResetThreads : u # t => (Resetting(u)' <=> Resetting(u))
  BY <1>1, Zenon DEF Resetting
<1>3. SUFFICES ASSUME NEW v \in ResetThreads
               PROVE  /\ reset'[v].at = "no" => reset'[v] = NoReset
                      /\ reset'[v].at \in Blocking \cup {"parking"} => park'
                      /\ reset'[v].at \in Blocking => main' = "parked"
                      /\ \A u \in ResetThreads : Resetting(v)' /\ Resetting(u)' => v = u
  BY Zenon DEF ThreadInv
<1>4. CASE v = t
  BY <1>1, <1>2, <1>4, AsidePlaces, Zenon
<1>5. CASE v # t
  <2>1. reset'[v] = reset[v] /\ (reset[v].at = "no" => reset[v] = NoReset)
    BY <1>1, <1>5, Zenon DEF ThreadInv
  <2>2. \A u \in ResetThreads : Resetting(v)' /\ Resetting(u)' => v = u
    BY <1>2, <1>5, Zenon DEF ThreadInv
  <2>3. CASE Resetting(t)
    <3>1. reset[v].at \in {"no", "check"}
      BY <1>5, <2>3, Zenon DEF ThreadInv, Resetting
    <3> QED
      BY <2>1, <2>2, <3>1, AsidePlaces, Zenon
  <2>4. CASE UNCHANGED <<park, main>>
    <3>1. /\ reset[v].at \in Blocking \cup {"parking"} => park
          /\ reset[v].at \in Blocking => main = "parked"
      BY Zenon DEF ThreadInv
    <3> QED
      BY <2>1, <2>2, <2>4, <3>1, Zenon
  <2> QED
    BY <2>3, <2>4, Zenon
<1> QED
  BY <1>4, <1>5, Zenon

\* The steps keep the main thread parked while a reset needs it, as long as no two threads
\* are past amdgpu_check_soft_reset: kthread_park has waited for it, and only the thread that
\* resets unparks it.
LEMMA ThreadStep ==
    ASSUME ~overlap', ResetTypes, ThreadInv, [Next]_vars
    PROVE  ThreadInv'
<1>1. CASE UNCHANGED <<reset, park>> /\ (main' = main \/ main' = "parked")
  BY <1>1, Zenon DEF ThreadInv, Resetting
<1>2. CASE UNCHANGED <<reset, park>> /\ (main # "parked" \/ ~park)
  <2>1. \A t \in ResetThreads : reset[t].at \notin Blocking
    BY <1>2, Zenon DEF ThreadInv
  <2> QED
    BY <1>2, <2>1, Zenon DEF ThreadInv, Resetting
<1>3. ASSUME NEW j \in Jobs, TdrFire(j) PROVE ThreadInv'
  <2>1. "tdr" \in ResetThreads /\ UNCHANGED <<park, main>>
    BY <1>3, Zenon DEF TdrFire, MayReset
  <2>2. Moved("tdr", "check", j, None, None) /\ "check" # "no"
    BY <1>3, TdrFireMoves, Zenon
  <2> QED
    BY <2>1, <2>2, MovesAside, Zenon
<1>4. CASE OtherReset
  <2>1. "other" \in ResetThreads /\ UNCHANGED <<park, main>>
    BY <1>4, Zenon DEF OtherReset, MayReset
  <2>2. Go("other", "check")
    BY <1>4, Zenon DEF OtherReset, Go
  <2>3. PICK d, j, n : Moved("other", "check", d, j, n)
    BY <2>1, <2>2, GoMoves, Zenon DEF Places
  <2>4. "check" # "no"
    BY Zenon
  <2> QED
    BY <2>1, <2>3, <2>4, MovesAside, Zenon
<1>5. ASSUME NEW t \in ResetThreads, Reset(t) PROVE ThreadInv'
  <2>0. ASSUME NEW b, At(t, b), b \notin {"no", "check"} PROVE Resetting(t)
    BY <2>0, Zenon DEF At, Resetting
  <2>1. ASSUME NEW a \in Places, Resetting(t) \/ \A u \in ResetThreads : ~Resetting(u),
               Go(t, a), a # "no",
               a \in Blocking \cup {"parking"} => park',
               a \in Blocking => main' = "parked"
        PROVE  ThreadInv'
    <3>1. PICK d, j, n : Moved(t, a, d, j, n)
      BY <2>1, GoMoves, Zenon
    <3> QED
      BY <2>1, <3>1, MovesOn, Zenon
  <2>x. ASSUME reset' = [reset EXCEPT ![t] = NoReset], Resetting(t) \/ UNCHANGED <<park, main>>
        PROVE  ThreadInv'
    <3>1. Moved(t, "no", None, None, None)
      BY <2>x, SetMoves, NoResetRec, Zenon
    <3>2. reset'[t] = NoReset
      BY <2>x, Zenon DEF ResetTypes
    <3> QED
      BY <2>x, <3>1, <3>2, MovesAside, Zenon
  <2>2. CASE ResetCheck(t)
    <3>1. CASE Go(t, "park") /\ overlap' = (overlap \/ \E u \in ResetThreads : Resetting(u))
      <4>1. \A u \in ResetThreads : ~Resetting(u)
        BY <3>1, Zenon
      <4> QED
        BY <2>1, <3>1, <4>1, Zenon DEF Places, Blocking
    <3>2. CASE reset' = [reset EXCEPT ![t] = NoReset]
      BY <2>2, <2>x, <3>2, Zenon DEF ResetCheck
    <3> QED
      BY <2>2, <3>1, <3>2, Zenon DEF ResetCheck
  <2>3. CASE ResetPark(t)
    <3>1. Resetting(t)
      BY <2>0, <2>3, Zenon DEF ResetPark
    <3> QED
      BY <2>1, <2>3, <3>1, Zenon DEF ResetPark, Places, Blocking
  <2>4. CASE HwJobReset(t) \/ HwJobOops(t)
    <3>1. /\ At(t, "parking") /\ main = "parked" /\ UNCHANGED <<main, park>>
          /\ Go(t, "asic") \/ Go(t, "oops")
      BY <2>4, Zenon DEF HwJobReset, HwJobOops, Parked
    <3>2. park /\ Resetting(t)
      BY <2>0, <3>1, Zenon DEF At, ThreadInv
    <3> QED
      BY <2>1, <3>1, <3>2, Zenon DEF Places
  <2>5. ASSUME NEW b \in Blocking, At(t, b), UNCHANGED <<main, park>>
        PROVE  park' /\ main' = "parked" /\ b # "no" /\ Resetting(t)
    BY <2>5, Zenon DEF At, ThreadInv, Blocking, Resetting
  <2>6. CASE AsicReset(t)
    <3>1. "asic" \in Blocking /\ "recovery" \in Places
      BY Zenon DEF Blocking, Places
    <3> QED
      BY <2>1, <2>5, <2>6, <3>1, Zenon DEF AsicReset
  <2>7. CASE ResumeFails(t)
    <3>1. "asic" \in Blocking /\ "unpark" \in Places
      BY Zenon DEF Blocking, Places
    <3> QED
      BY <2>1, <2>5, <2>7, <3>1, Zenon DEF ResumeFails
  <2>8. CASE RecoveryStart(t)
    <3>1. "recovery" \in Blocking /\ RecoveryPlace(First) # "no"
      BY Zenon DEF Blocking, RecoveryPlace
    <3>2. PICK d, j, n : Moved(t, RecoveryPlace(First), d, j, n)
      BY <2>8, RecoveryStartMoves, Zenon
    <3>3. park' /\ main' = "parked" /\ Resetting(t)
      BY <2>5, <2>8, <3>1, Zenon DEF RecoveryStart
    <3> QED
      BY <3>1, <3>2, <3>3, MovesOn, Zenon
  <2>9. CASE RecoveryRun(t)
    <3>1. "rerun" \in Blocking
      BY Zenon DEF Blocking
    <3>2. PICK d, j, n : Moved(t, "reinstall", d, j, n)
      BY <2>9, RecoveryRunMoves, Zenon
    <3>3. park' /\ main' = "parked" /\ Resetting(t)
      BY <2>5, <2>9, <3>1, Zenon DEF RecoveryRun
    <3> QED
      BY <3>2, <3>3, MovesOn, Zenon
  <2>10. CASE RecoveryInstall(t)
    <3>1. "reinstall" \in Blocking /\ RecoveryPlace(reset[t].tmp) # "no"
      BY Zenon DEF Blocking, RecoveryPlace
    <3>2. PICK d, j, n : Moved(t, RecoveryPlace(reset[t].tmp), d, j, n)
      BY <2>10, RecoveryInstallMoves, Zenon
    <3>3. park' /\ main' = "parked" /\ Resetting(t)
      BY <2>5, <2>10, <3>1, Zenon DEF RecoveryInstall
    <3> QED
      BY <3>1, <3>2, <3>3, MovesOn, Zenon
  <2>11. CASE ResetUnpark(t)
    <3>1. Resetting(t) /\ reset' = [reset EXCEPT ![t] = NoReset]
      BY <2>0, <2>11, Zenon DEF ResetUnpark
    <3> QED
      BY <2>x, <3>1, Zenon
  <2> QED
    BY <1>5, <2>2, <2>3, <2>4, <2>6, <2>7, <2>8, <2>9, <2>10, <2>11, Zenon DEF Reset
<1>6. CASE Main
  BY <1>1, <1>2, <1>6, Zenon
  DEF Main, MainBegin, MainRun, MainInstall, MainPark, MainUnpark
<1>7. CASE GpuPass \/ GpuHang \/ \E j \in Jobs : FinishWork(j)
  BY <1>1, <1>7, Zenon DEF GpuPass, GpuHang, FinishWork, FinishDel, FinishFree
<1>8. CASE UNCHANGED vars
  BY <1>1, <1>8, Zenon DEF vars
<1> QED
  BY <1>3, <1>4, <1>5, <1>6, <1>7, <1>8, Zenon DEF Next

\* Initially nothing runs.
LEMMA BlockInit == ASSUME Init PROVE ResetTypes /\ ThreadInv
<1>1. NumJobs \in Nat /\ <<>> \in Seq(Jobs) /\ <<>> \in Seq(OptJobs \X (Nat \ {0}))
  BY ResetBounds
<1>2. 1 \in 1..(NumJobs + 1) /\ None \in Nat /\ 0 \in Nat
  BY <1>1 DEF None
<1>3. reset \in [ResetThreads -> ResetRecords] /\ \A t \in ResetThreads : reset[t] = NoReset
  BY NoResetRec, Zenon DEF Init
<1>4. ResetTypes
  BY <1>1, <1>2, <1>3, Zenon DEF Init, ResetTypes, OptJobs
<1>5. \A t \in ResetThreads : reset[t].at = "no" /\ ~Resetting(t)
  BY <1>3, NoResetRec, Zenon DEF Resetting
<1>6. ThreadInv
  BY <1>3, <1>5, AsidePlaces, Zenon DEF ThreadInv
<1> QED
  BY <1>4, <1>6, Zenon

\* What has happened has happened: no step takes an overlap, or the reset of a job that had
\* signaled, out of the history.
LEMMA HistoryStep ==
    ASSUME [Next]_vars
    PROVE  (overlap => overlap') /\ (unfinished => unfinished')
<1>1. CASE UNCHANGED <<overlap, unfinished>>
  BY <1>1, Zenon
<1>2. ASSUME NEW t \in ResetThreads, ResetCheck(t) PROVE overlap => overlap'
  BY <1>2, Zenon DEF ResetCheck
<1>3. ASSUME NEW t \in ResetThreads, ResetCheck(t) PROVE UNCHANGED unfinished
  BY <1>3, Zenon DEF ResetCheck
<1>4. ASSUME NEW t \in ResetThreads, HwJobReset(t) PROVE unfinished => unfinished'
  BY <1>4, Zenon DEF HwJobReset
<1>5. ASSUME NEW t \in ResetThreads, HwJobReset(t) PROVE UNCHANGED overlap
  BY <1>5, Zenon DEF HwJobReset
<1>6. ASSUME NEW t \in ResetThreads, Reset(t), ~ResetCheck(t), ~HwJobReset(t)
      PROVE  UNCHANGED <<overlap, unfinished>>
  BY <1>6, Zenon DEF Reset, ResetPark, HwJobOops, AsicReset, ResumeFails, RecoveryStart,
     RecoveryRun, RecoveryInstall, ResetUnpark
<1>7. CASE Main
  BY <1>1, <1>7, Zenon DEF Main, MainBegin, MainRun, MainInstall, MainPark, MainUnpark
<1>8. CASE GpuPass \/ GpuHang \/ OtherReset \/ \E j \in Jobs : FinishWork(j) \/ TdrFire(j)
  BY <1>1, <1>8, Zenon DEF GpuPass, GpuHang, OtherReset, FinishWork, FinishDel, FinishFree,
     TdrFire
<1>9. CASE UNCHANGED vars
  BY <1>1, <1>9, Zenon DEF vars
<1> QED
  BY <1>1, <1>2, <1>3, <1>4, <1>5, <1>6, <1>7, <1>8, <1>9, Zenon DEF Next

\* The inductive invariant of the blocking.
BlockInv == ResetTypes /\ (~overlap => ThreadInv)

\* Until two threads have been past amdgpu_check_soft_reset at once, amd_sched_main runs no
\* job between amd_sched_hw_job_reset and the unparking at the end of amdgpu_gpu_reset, for
\* any number of jobs and hangs, whatever the threads before the check do.
THEOREM SchedulerBlockedHolds == Spec => []SchedulerBlocked
<1>1. Init => BlockInv
  BY BlockInit, Zenon DEF BlockInv
<1>2. BlockInv /\ [Next]_vars => BlockInv'
  BY TypesStep, ThreadStep, HistoryStep, Zenon DEF BlockInv
<1>3. BlockInv => SchedulerBlocked
  BY Zenon DEF BlockInv, ThreadInv, SchedulerBlocked, Blocking
<1> QED
  BY <1>1, <1>2, <1>3, PTL DEF Spec

-----------------------------------------------------------------------------
(* The jobs *)

\* a job that has no callback and whose finished fence is not signaled
Waiting(k) == finish[k] = "no" /\ cb[k] = None

\* The mirror list holds the jobs that have begun and whose finish work has not taken them
\* off; a callback is only on the fence of a job that is not finished.
JobOk(j) ==
    /\ j \in Listed <=> j < next /\ finish[j] \in {"no", "queued"}
    /\ ~(j < next) => finish[j] = "no"
    /\ cb[j] # None => j < next /\ finish[j] = "no"
    /\ j \in finished <=> finish[j] # "no"

MirrorInv == Sorted(mirror) /\ \A j \in Jobs : JobOk(j)

\* The job of the main thread waits for its callback.
MainInv ==
    \/ main \in {"run", "install"} /\ cur \in Jobs /\ cur < next /\ Waiting(cur)
    \/ main \in {"top", "parked"} /\ cur = None

\* While the recovery is at job j, that job and all behind it wait, and the job it has noted
\* for the next turn is the one behind j.
RecoveryOk(a, j, n) ==
    /\ a \in {"rerun", "reinstall"} =>
          /\ j \in Listed
          /\ \A k \in Listed : j <= k => Waiting(k)
          /\ Successor(j, n)
    /\ a \in {"asic", "recovery"} => \A k \in Listed : Waiting(k)
    /\ a \notin {"rerun", "reinstall"} => j = None /\ n = None

RecoveryInv == \A t \in ResetThreads : RecoveryOk(reset[t].at, reset[t].job, reset[t].tmp)

JobsInv == MirrorInv /\ MainInv /\ RecoveryInv

\* The job of the main thread is in the mirror list.
LEMMA MainJob ==
    ASSUME MirrorInv, MainInv, main \in {"run", "install"}
    PROVE  cur \in Jobs /\ cur < next /\ Waiting(cur) /\ cur \in Listed
<1>1. cur \in Jobs /\ cur < next /\ Waiting(cur)
  BY Zenon DEF MainInv
<1>2. JobOk(cur)
  BY <1>1, Zenon DEF MirrorInv
<1> QED
  BY <1>1, <1>2, Zenon DEF JobOk, Waiting

\* The job that is run again is in the mirror list and waits.
LEMMA RecoveredJob ==
    ASSUME ResetTypes, MirrorInv, RecoveryInv, NEW t \in ResetThreads,
           reset[t].at \in {"rerun", "reinstall"}
    PROVE  /\ reset[t].job \in Listed /\ reset[t].job \in Jobs /\ reset[t].job < next
           /\ Waiting(reset[t].job)
<1>1. reset[t].job \in Listed /\ \A k \in Listed : reset[t].job <= k => Waiting(k)
  BY Zenon DEF RecoveryInv, RecoveryOk
<1>2. reset[t].job \in Jobs /\ reset[t].job \in Nat
  BY <1>1, ListedJobs, Zenon DEF ResetTypes
<1>3. reset[t].job <= reset[t].job
  BY <1>2
<1>4. JobOk(reset[t].job)
  BY <1>2, Zenon DEF MirrorInv
<1> QED
  BY <1>1, <1>2, <1>3, <1>4, Zenon DEF JobOk

\* fence_add_callback, or amd_sched_process_job, for a job that waits.
LEMMA InstallJobs ==
    ASSUME ResetTypes, MirrorInv, NEW j \in Jobs, NEW f \in Nat, j < next, Waiting(j),
           Install(j, f), UNCHANGED <<mirror, next>>
    PROVE  /\ MirrorInv' /\ Listed' = Listed
           /\ \A k \in Jobs : k # j => cb'[k] = cb[k] /\ finish'[k] = finish[k]
<1>1. Listed' = Listed /\ Sorted(mirror)' /\ next' = next
  BY Zenon DEF Listed, MirrorInv
<1>2. cb \in [Jobs -> Nat] /\ finish \in [Jobs -> {"no", "queued", "cancel", "freed"}]
  BY Zenon DEF ResetTypes
<1>3. \A k \in Jobs : JobOk(k)
  BY Zenon DEF MirrorInv
<1>4. CASE cb' = [cb EXCEPT ![j] = f] /\ UNCHANGED <<finished, finish>>
  <2>1. cb'[j] = f /\ \A k \in Jobs : k # j => cb'[k] = cb[k]
    BY <1>2, <1>4, Zenon
  <2>2. ASSUME NEW k \in Jobs PROVE JobOk(k)'
    <3>1. CASE k = j
      BY <1>1, <1>3, <1>4, <3>1, Zenon DEF JobOk, Waiting
    <3>2. CASE k # j
      BY <1>1, <1>3, <1>4, <2>1, <3>2, Zenon DEF JobOk
    <3> QED
      BY <3>1, <3>2, Zenon
  <2> QED
    BY <1>1, <1>4, <2>1, <2>2, Zenon DEF MirrorInv
<1>5. CASE UNCHANGED cb /\ ProcessJobs({j})
  <2>1. finish'[j] = "queued" /\ \A k \in Jobs : k # j => finish'[k] = finish[k]
    BY <1>3, <1>5, Zenon DEF ProcessJobs, JobOk, Waiting
  <2>2. finished' = finished \cup {j}
    BY <1>5, Zenon DEF ProcessJobs
  <2>3. ASSUME NEW k \in Jobs PROVE JobOk(k)'
    <3>1. CASE k = j
      BY <1>1, <1>3, <1>5, <2>1, <2>2, <3>1, Zenon DEF JobOk, Waiting
    <3>2. CASE k # j
      BY <1>1, <1>3, <1>5, <2>1, <2>2, <3>2, Zenon DEF JobOk
    <3> QED
      BY <3>1, <3>2, Zenon
  <2> QED
    BY <1>1, <1>5, <2>1, <2>3, Zenon DEF MirrorInv
<1> QED
  BY <1>4, <1>5, Zenon DEF Install

\* The ring holds hardware fences.
LEMMA HeadFence ==
    ASSUME ResetTypes, ring # <<>>
    PROVE  Head(ring)[2] # None
<1>1. ring \in Seq(OptJobs \X (Nat \ {0})) /\ ring # <<>>
  BY Zenon DEF ResetTypes
<1>2. PICK e : e = Head(ring)
  BY Zenon
<1>3. ASSUME NEW S, NEW s \in Seq(S), s # <<>> PROVE Head(s) \in S
  BY <1>3
<1>4. e \in OptJobs \X (Nat \ {0})
  BY <1>1, <1>2, <1>3, Zenon
<1>5. e[2] \in Nat \ {0}
  BY <1>4
<1> QED
  BY <1>2, <1>5, Zenon DEF None

\* A fence that signals finishes the jobs with a callback on it, and no job that waits.
LEMMA PassJobs ==
    ASSUME ResetTypes, MirrorInv, GpuPass
    PROVE  /\ MirrorInv' /\ Listed' = Listed
           /\ \A k \in Jobs : Waiting(k) => Waiting(k)'
<1>1. Listed' = Listed /\ Sorted(mirror)' /\ next' = next
  BY Zenon DEF Listed, MirrorInv, GpuPass
<1>2. PICK f : f = Head(ring)[2]
  BY Zenon
<1>3. f # None
  BY <1>2, HeadFence, Zenon DEF GpuPass
<1>4. PICK S : S = {j \in Jobs : cb[j] = f}
  BY Zenon
<1>5. /\ cb' = [j \in Jobs |-> IF j \in S THEN None ELSE cb[j]]
      /\ finished' = finished \cup S
      /\ finish' = [j \in Jobs |-> IF j \in S /\ j \notin finished THEN "queued" ELSE finish[j]]
  BY <1>2, <1>4, Zenon DEF GpuPass, ProcessJobs
<1>6. \A k \in Jobs : JobOk(k)
  BY Zenon DEF MirrorInv
<1>7. ASSUME NEW k \in Jobs, k \in S PROVE JobOk(k)'
  <2>1. cb[k] # None
    BY <1>3, <1>4, <1>7, Zenon
  <2>2. k < next /\ finish[k] = "no" /\ k \notin finished /\ k \in Listed
    BY <1>6, <2>1, Zenon DEF JobOk
  <2>3. cb'[k] = None /\ finish'[k] = "queued" /\ k \in finished'
    BY <1>5, <1>7, <2>2, Zenon
  <2> QED
    BY <1>1, <2>2, <2>3, Zenon DEF JobOk
<1>8. ASSUME NEW k \in Jobs, k \notin S
      PROVE  /\ cb'[k] = cb[k] /\ finish'[k] = finish[k] /\ (k \in finished' <=> k \in finished)
  BY <1>5, <1>8, Zenon
<1>9. ASSUME NEW k \in Jobs PROVE JobOk(k)'
  <2>1. CASE k \in S
    BY <1>7, <2>1, Zenon
  <2>2. CASE k \notin S
    BY <1>1, <1>6, <1>8, <2>2, Zenon DEF JobOk
  <2> QED
    BY <2>1, <2>2, Zenon
<1>10. ASSUME NEW k \in Jobs, Waiting(k) PROVE Waiting(k)'
  <2>1. k \notin S
    BY <1>3, <1>4, <1>10, Zenon DEF Waiting
  <2> QED
    BY <1>8, <1>10, <2>1, Zenon DEF Waiting
<1> QED
  BY <1>1, <1>9, <1>10, Zenon DEF MirrorInv

\* amd_sched_job_begin adds the next job, which waits, at the end of the mirror list.
LEMMA BeginJobs ==
    ASSUME ResetTypes, MirrorInv, MainBegin
    PROVE  /\ MirrorInv' /\ next \in Jobs /\ next < next'
           /\ \A k \in Jobs : k < next => k < next'
           /\ Waiting(next) /\ UNCHANGED <<cb, finish>>
<1>1. /\ next \in 1..(NumJobs + 1) /\ next <= NumJobs /\ next' = next + 1
      /\ mirror' = Append(mirror, next) /\ UNCHANGED <<cb, finish, finished>>
  BY Zenon DEF MainBegin, ResetTypes
<1>2. next \in Jobs /\ next < next' /\ ~(next < next)
  BY <1>1, ResetBounds DEF Jobs
<1>3. \A k \in Jobs : (k < next' <=> k < next \/ k = next)
  BY <1>1, <1>2, ResetBounds DEF Jobs
<1>4. \A k \in Jobs : JobOk(k)
  BY Zenon DEF MirrorInv
<1>5. Waiting(next) /\ next \notin finished
  BY <1>2, <1>4, Zenon DEF JobOk, Waiting
<1>6. Jobs \in SUBSET Nat /\ mirror \in Seq(Jobs) /\ Sorted(mirror)
  BY JobNumbers, Zenon DEF ResetTypes, MirrorInv
<1>7. Below(mirror, next)
  <2> SUFFICES ASSUME NEW i \in DOMAIN mirror PROVE mirror[i] < next
    BY Zenon DEF Below
  <2>1. mirror[i] \in Listed /\ mirror[i] \in Jobs
    BY <1>6, ListedJobs, Zenon DEF Listed, Members
  <2> QED
    BY <1>4, <2>1, Zenon DEF JobOk
<1>8. Sorted(mirror)' /\ Listed' = Listed \cup {next}
  <2>1. /\ Sorted(Append(mirror, next))
        /\ Members(Append(mirror, next)) = Members(mirror) \cup {next}
    BY <1>2, <1>6, <1>7, AppendSorted, ZenonT(60)
  <2> QED
    BY <1>1, <2>1, Zenon DEF Listed, Sorted
<1>9. ASSUME NEW k \in Jobs PROVE JobOk(k)'
  <2>1. CASE k = next
    BY <1>1, <1>2, <1>4, <1>5, <1>8, <2>1, Zenon DEF JobOk, Waiting
  <2>2. CASE k # next
    BY <1>1, <1>3, <1>4, <1>8, <2>2, Zenon DEF JobOk
  <2> QED
    BY <2>1, <2>2, Zenon
<1> QED
  BY <1>1, <1>2, <1>3, <1>5, <1>8, <1>9, Zenon DEF MirrorInv

\* amd_sched_job_finish takes a job that is finished off the mirror list.
LEMMA DelJobs ==
    ASSUME ResetTypes, MirrorInv, NEW j \in Jobs, FinishDel(j)
    PROVE  /\ MirrorInv' /\ Listed' = Listed \ {j} /\ finish[j] # "no"
           /\ \A k \in Jobs : Waiting(k) => k # j /\ Waiting(k)'
<1>1. /\ finish[j] = "queued" /\ mirror' = Without(mirror, j)
      /\ finish' = [finish EXCEPT ![j] = "cancel"] /\ UNCHANGED <<next, cb, finished>>
  BY Zenon DEF FinishDel
<1>2. finish \in [Jobs -> {"no", "queued", "cancel", "freed"}]
  BY Zenon DEF ResetTypes
<1>3. finish'[j] = "cancel" /\ \A k \in Jobs : k # j => finish'[k] = finish[k]
  BY <1>1, <1>2, Zenon
<1>4. Jobs \in SUBSET Nat /\ mirror \in Seq(Jobs) /\ Sorted(mirror)
  BY JobNumbers, Zenon DEF ResetTypes, MirrorInv
<1>5. PICK d : d = Without(mirror, j)
  BY Zenon
<1>6. Sorted(d) /\ Members(d) = Members(mirror) \ {j}
  BY <1>4, <1>5, WithoutSorted, Zenon
<1>7. Sorted(mirror)' /\ Listed' = Listed \ {j}
  BY <1>1, <1>5, <1>6, Zenon DEF Listed, Sorted
<1>8. \A k \in Jobs : JobOk(k)
  BY Zenon DEF MirrorInv
<1>9. ASSUME NEW k \in Jobs PROVE JobOk(k)'
  <2>1. CASE k = j
    BY <1>1, <1>3, <1>7, <1>8, <2>1, Zenon DEF JobOk
  <2>2. CASE k # j
    BY <1>1, <1>3, <1>7, <1>8, <2>2, Zenon DEF JobOk
  <2> QED
    BY <2>1, <2>2, Zenon
<1>10. ASSUME NEW k \in Jobs, Waiting(k) PROVE k # j /\ Waiting(k)'
  BY <1>1, <1>3, <1>10, Zenon DEF Waiting
<1> QED
  BY <1>1, <1>7, <1>9, <1>10, Zenon DEF MirrorInv

\* The end of amd_sched_job_finish frees a job that is off the list.
LEMMA FreeJobs ==
    ASSUME ResetTypes, MirrorInv, NEW j \in Jobs, FinishFree(j)
    PROVE  /\ MirrorInv' /\ Listed' = Listed
           /\ \A k \in Jobs : Waiting(k) => Waiting(k)'
<1>1. /\ finish[j] = "cancel" /\ finish' = [finish EXCEPT ![j] = "freed"]
      /\ UNCHANGED <<mirror, next, cb, finished>>
  BY Zenon DEF FinishFree
<1>2. finish \in [Jobs -> {"no", "queued", "cancel", "freed"}]
  BY Zenon DEF ResetTypes
<1>3. finish'[j] = "freed" /\ \A k \in Jobs : k # j => finish'[k] = finish[k]
  BY <1>1, <1>2, Zenon
<1>4. Sorted(mirror)' /\ Listed' = Listed
  BY <1>1, Zenon DEF Listed, MirrorInv
<1>5. \A k \in Jobs : JobOk(k)
  BY Zenon DEF MirrorInv
<1>6. ASSUME NEW k \in Jobs PROVE JobOk(k)'
  <2>1. CASE k = j
    BY <1>1, <1>3, <1>4, <1>5, <2>1, Zenon DEF JobOk
  <2>2. CASE k # j
    BY <1>1, <1>3, <1>4, <1>5, <2>2, Zenon DEF JobOk
  <2> QED
    BY <2>1, <2>2, Zenon
<1>7. ASSUME NEW k \in Jobs, Waiting(k) PROVE Waiting(k)'
  BY <1>1, <1>3, <1>7, Zenon DEF Waiting
<1> QED
  BY <1>4, <1>6, <1>7, Zenon DEF MirrorInv

\* amd_sched_hw_job_reset leaves no callback; the jobs it meets wait when none has signaled.
LEMMA ResetJobs ==
    ASSUME ~unfinished', ResetTypes, MirrorInv, NEW t \in ResetThreads, HwJobReset(t)
    PROVE  /\ MirrorInv' /\ Listed' = Listed
           /\ \A k \in Listed : Waiting(k)'
           /\ \A k \in Jobs : cb'[k] = None
<1>1. PICK S : S = {j \in Listed : cb[j] # None}
  BY Zenon
<1>2. /\ cb' = [j \in Jobs |-> IF j \in S THEN None ELSE cb[j]]
      /\ \A j \in Listed : j \notin finished
      /\ UNCHANGED <<mirror, next, finish, finished>>
  BY <1>1, Zenon DEF HwJobReset, Listed, Members
<1>3. \A k \in Jobs : JobOk(k)
  BY Zenon DEF MirrorInv
<1>4. ASSUME NEW k \in Jobs PROVE cb'[k] = None
  <2>1. cb[k] # None => k \in S
    BY <1>1, <1>3, Zenon DEF JobOk
  <2> QED
    BY <1>2, <2>1, Zenon
<1>5. Sorted(mirror)' /\ Listed' = Listed
  BY <1>2, Zenon DEF Listed, MirrorInv
<1>6. ASSUME NEW k \in Jobs PROVE JobOk(k)'
  BY <1>2, <1>3, <1>4, <1>5, Zenon DEF JobOk
<1>7. ASSUME NEW k \in Listed PROVE Waiting(k)'
  <2>1. k \in Jobs
    BY ListedJobs, Zenon DEF ResetTypes
  <2> QED
    BY <1>2, <1>3, <1>4, <2>1, Zenon DEF JobOk, Waiting
<1> QED
  BY <1>4, <1>5, <1>6, <1>7, Zenon DEF MirrorInv

\* The thread that dies in amd_sched_hw_job_reset has taken some callbacks off.
LEMMA OopsJobs ==
    ASSUME MirrorInv, NEW t \in ResetThreads, HwJobOops(t)
    PROVE  /\ MirrorInv' /\ Listed' = Listed /\ main = "parked"
           /\ UNCHANGED <<main, cur, finish>>
<1>1. PICK S : cb' = [j \in Jobs |-> IF j \in S THEN None ELSE cb[j]]
  BY Zenon DEF HwJobOops
<1>2. /\ main = "parked" /\ UNCHANGED <<main, cur, mirror, next, finish, finished>>
  BY Zenon DEF HwJobOops, Parked
<1>3. Sorted(mirror)' /\ Listed' = Listed
  BY <1>2, Zenon DEF Listed, MirrorInv
<1>4. \A k \in Jobs : JobOk(k)
  BY Zenon DEF MirrorInv
<1>5. \A k \in Jobs : cb'[k] = cb[k] \/ cb'[k] = None
  BY <1>1, Zenon
<1>6. ASSUME NEW k \in Jobs PROVE JobOk(k)'
  BY <1>2, <1>3, <1>4, <1>5, Zenon DEF JobOk
<1> QED
  BY <1>2, <1>3, <1>6, Zenon DEF MirrorInv

\* what the other steps leave alone
SameJobs == UNCHANGED <<mirror, next, cb, finish, finished>>

\* Every step but those of the lemmas above leaves the jobs alone.
LEMMA JobsFrame ==
    ASSUME [Next]_vars
    PROVE  \/ MainBegin \/ MainInstall \/ GpuPass
           \/ \E j \in Jobs : FinishDel(j) \/ FinishFree(j)
           \/ \E t \in ResetThreads : HwJobReset(t) \/ HwJobOops(t) \/ RecoveryInstall(t)
           \/ SameJobs
<1>1. CASE MainRun \/ MainPark \/ MainUnpark
  BY <1>1, Zenon DEF MainRun, MainPark, MainUnpark, SameJobs
<1>2. CASE GpuHang \/ OtherReset \/ \E j \in Jobs : TdrFire(j)
  BY <1>2, Zenon DEF GpuHang, OtherReset, TdrFire, SameJobs
<1>3. ASSUME NEW t \in ResetThreads, Reset(t)
      PROVE  SameJobs \/ HwJobReset(t) \/ HwJobOops(t) \/ RecoveryInstall(t)
  BY <1>3, Zenon DEF Reset, ResetCheck, ResetPark, AsicReset, ResumeFails, RecoveryStart,
     RecoveryRun, ResetUnpark, SameJobs
<1>4. CASE UNCHANGED vars
  BY <1>4, Zenon DEF vars, SameJobs
<1> QED
  BY <1>1, <1>2, <1>3, <1>4, Zenon DEF Next, Main, FinishWork

\* The steps keep the mirror list.
LEMMA MirrorStep ==
    ASSUME ~unfinished', ResetTypes, JobsInv, [Next]_vars
    PROVE  MirrorInv'
<1>0. MirrorInv /\ MainInv /\ RecoveryInv
  BY Zenon DEF JobsInv
<1>1. CASE MainInstall
  <2>1. main = "install" /\ Install(cur, fresh) /\ UNCHANGED <<mirror, next>> /\ fresh \in Nat
    BY <1>1, Zenon DEF MainInstall, ResetTypes
  <2>2. cur \in Jobs /\ cur < next /\ Waiting(cur)
    BY <1>0, <2>1, MainJob, Zenon
  <2> QED
    BY <1>0, <2>1, <2>2, InstallJobs, Zenon
<1>2. ASSUME NEW t \in ResetThreads, RecoveryInstall(t) PROVE MirrorInv'
  <2>1. /\ reset[t].at = "reinstall" /\ Install(reset[t].job, reset[t].fence)
        /\ UNCHANGED <<mirror, next>> /\ reset[t] \in ResetRecords
    BY <1>2, Zenon DEF RecoveryInstall, At, ResetTypes
  <2>2. reset[t].fence \in Nat
    BY <2>1 DEF ResetRecords
  <2>3. reset[t].job \in Jobs /\ reset[t].job < next /\ Waiting(reset[t].job)
    BY <1>0, <2>1, RecoveredJob, Zenon
  <2> QED
    BY <1>0, <2>1, <2>2, <2>3, InstallJobs, Zenon
<1>3. CASE SameJobs
  BY <1>0, <1>3, Zenon DEF SameJobs, MirrorInv, JobOk, Listed, Sorted
<1>4. CASE MainBegin \/ GpuPass
  BY <1>0, <1>4, BeginJobs, PassJobs, Zenon
<1>5. CASE \E j \in Jobs : FinishDel(j) \/ FinishFree(j)
  BY <1>0, <1>5, DelJobs, FreeJobs, Zenon
<1>6. CASE \E t \in ResetThreads : HwJobReset(t) \/ HwJobOops(t)
  BY <1>0, <1>6, ResetJobs, OopsJobs, Zenon
<1> QED
  BY <1>1, <1>2, <1>3, <1>4, <1>5, <1>6, JobsFrame, Zenon

\* The steps keep the main thread's job waiting for its callback.
LEMMA MainInvStep ==
    ASSUME ResetTypes, ThreadInv, JobsInv, [Next]_vars
    PROVE  MainInv'
<1>0. MirrorInv /\ MainInv /\ RecoveryInv
  BY Zenon DEF JobsInv
<1>1. CASE MainBegin
  <2>1. next \in Jobs /\ next < next' /\ Waiting(next) /\ UNCHANGED <<cb, finish>>
    BY <1>0, <1>1, BeginJobs, Zenon
  <2>2. cur' = next /\ main' = "run"
    BY <1>1, Zenon DEF MainBegin
  <2> QED
    BY <2>1, <2>2, Zenon DEF MainInv, Waiting
<1>2. CASE MainRun
  <2>1. main = "run" /\ main' = "install" /\ UNCHANGED <<cur, next, cb, finish>>
    BY <1>2, Zenon DEF MainRun
  <2> QED
    BY <1>0, <2>1, Zenon DEF MainInv, Waiting
<1>3. CASE MainInstall
  BY <1>3, Zenon DEF MainInstall, MainInv
<1>4. CASE MainPark \/ MainUnpark
  <2>1. main \in {"top", "parked"} /\ main' \in {"top", "parked"} /\ cur' = cur
    BY <1>4, Zenon DEF MainPark, MainUnpark
  <2>2. cur = None
    BY <1>0, <2>1, Zenon DEF MainInv
  <2> QED
    BY <2>1, <2>2, Zenon DEF MainInv
<1>5. ASSUME UNCHANGED <<main, cur, next>>, \A k \in Jobs : Waiting(k) => Waiting(k)'
      PROVE  MainInv'
  BY <1>0, <1>5, Zenon DEF MainInv
<1>6. ASSUME UNCHANGED <<main, cur>>, main = "parked" PROVE MainInv'
  BY <1>0, <1>6, Zenon DEF MainInv
<1>7. CASE GpuPass
  BY <1>0, <1>5, <1>7, PassJobs, Zenon DEF GpuPass
<1>8. CASE \E j \in Jobs : FinishWork(j)
  BY <1>0, <1>5, <1>8, DelJobs, FreeJobs, Zenon DEF FinishWork, FinishDel, FinishFree
<1>9. CASE GpuHang \/ OtherReset \/ \E j \in Jobs : TdrFire(j)
  BY <1>5, <1>9, Zenon DEF GpuHang, OtherReset, TdrFire, Waiting
<1>10. ASSUME NEW t \in ResetThreads, HwJobReset(t) \/ HwJobOops(t) PROVE MainInv'
  BY <1>6, <1>10, Zenon DEF HwJobReset, HwJobOops, Parked
<1>11. ASSUME NEW t \in ResetThreads, RecoveryInstall(t) PROVE MainInv'
  <2>1. main = "parked"
    BY <1>11, Zenon DEF RecoveryInstall, At, ThreadInv, Blocking
  <2> QED
    BY <1>6, <1>11, <2>1, Zenon DEF RecoveryInstall
<1>12. ASSUME NEW t \in ResetThreads, Reset(t), ~HwJobReset(t), ~HwJobOops(t),
              ~RecoveryInstall(t)
       PROVE  UNCHANGED <<main, cur, next, cb, finish>>
  BY <1>12, Zenon DEF Reset, ResetCheck, ResetPark, AsicReset, ResumeFails, RecoveryStart,
     RecoveryRun, ResetUnpark
<1>13. ASSUME NEW t \in ResetThreads, Reset(t) PROVE MainInv'
  BY <1>5, <1>10, <1>11, <1>12, <1>13, Zenon DEF Waiting
<1>14. CASE UNCHANGED vars
  BY <1>5, <1>14, Zenon DEF vars, Waiting
<1> QED
  BY <1>1, <1>2, <1>3, <1>4, <1>7, <1>8, <1>9, <1>13, <1>14, Zenon DEF Next, Main

\* A step that moves no thread and no job that waits keeps the recovery.
LEMMA RecoveryFrame ==
    ASSUME ResetTypes, RecoveryInv, UNCHANGED reset, NEW R, Listed' = Listed \ R,
           \A k \in Jobs : Waiting(k) => k \notin R /\ Waiting(k)'
    PROVE  RecoveryInv'
<1> SUFFICES ASSUME NEW t \in ResetThreads
             PROVE  RecoveryOk(reset[t].at, reset[t].job, reset[t].tmp)'
  BY Zenon DEF RecoveryInv
<1>1. PICK a, j, n : a = reset[t].at /\ j = reset[t].job /\ n = reset[t].tmp
  BY Zenon
<1>2. RecoveryOk(a, j, n)
  BY <1>1, Zenon DEF RecoveryInv
<1>3. Listed \subseteq Jobs /\ Listed \subseteq Nat
  BY ListedJobs, Zenon DEF ResetTypes
<1>4. CASE a \in {"rerun", "reinstall"}
  <2>1. j \in Listed /\ (\A k \in Listed : j <= k => Waiting(k)) /\ Successor(j, n)
    BY <1>2, <1>4, Zenon DEF RecoveryOk
  <2>2. j \in Nat /\ j <= j
    BY <1>3, <2>1
  <2>3. j \in Listed'
    BY <1>3, <2>1, <2>2, Zenon
  <2>4. \A k \in Listed' : j <= k => Waiting(k)'
    BY <1>3, <2>1, Zenon
  <2>5. n # None => n \in Listed' /\ j < n
    <3>1. SUFFICES ASSUME n # None PROVE n \in Listed' /\ j < n
      BY Zenon
    <3>2. n \in Listed /\ j < n
      BY <2>1, <3>1, Zenon DEF Successor
    <3>3. j <= n
      BY <1>3, <2>2, <3>2
    <3> QED
      BY <1>3, <2>1, <3>2, <3>3, Zenon
  <2>6. \A k \in Listed' : j < k => n # None /\ n <= k
    BY <2>1, Zenon DEF Successor
  <2>7. Successor(j, n)'
    BY <2>5, <2>6, Zenon DEF Successor
  <2>8. RecoveryOk(a, j, n)'
    BY <1>4, <2>3, <2>4, <2>7, Zenon DEF RecoveryOk
  <2> QED
    BY <1>1, <2>8, Zenon DEF RecoveryOk, Successor
<1>5. CASE a \notin {"rerun", "reinstall"}
  <2>1. j = None /\ n = None /\ (a \in {"asic", "recovery"} => \A k \in Listed : Waiting(k))
    BY <1>2, <1>5, Zenon DEF RecoveryOk
  <2>2. a \in {"asic", "recovery"} => \A k \in Listed' : Waiting(k)'
    BY <1>3, <2>1, Zenon
  <2>3. RecoveryOk(a, j, n)'
    BY <1>5, <2>1, <2>2, Zenon DEF RecoveryOk
  <2> QED
    BY <1>1, <2>3, Zenon DEF RecoveryOk, Successor
<1> QED
  BY <1>4, <1>5, Zenon

\* A step of the thread that resets: the other threads have nothing to recover.
LEMMA RecoveryMoves ==
    ASSUME ThreadInv, RecoveryInv, NEW t \in ResetThreads, Resetting(t),
           NEW a, NEW d, NEW j, NEW n, Moved(t, a, d, j, n), RecoveryOk(a, j, n)'
    PROVE  RecoveryInv'
<1>1. \A u \in ResetThreads : u # t => reset'[u] = reset[u] /\ reset[u].at \in {"no", "check"}
  BY Zenon DEF ThreadInv, Moved, Resetting
<1> SUFFICES ASSUME NEW u \in ResetThreads
             PROVE  RecoveryOk(reset[u].at, reset[u].job, reset[u].tmp)'
  BY Zenon DEF RecoveryInv
<1>3. CASE u = t
  <2>1. reset'[u].at = a /\ reset'[u].job = j /\ reset'[u].tmp = n
    BY <1>3, Zenon DEF Moved
  <2> QED
    BY <2>1, Zenon DEF RecoveryOk, Successor
<1>4. CASE u # t
  <2>1. reset[u].at \in {"no", "check"} /\ reset'[u] = reset[u]
    BY <1>1, <1>4, Zenon
  <2>2. reset[u].job = None /\ reset[u].tmp = None
    BY <2>1, Zenon DEF RecoveryInv, RecoveryOk
  <2> QED
    BY <2>1, <2>2, Zenon DEF RecoveryOk
<1> QED
  BY <1>3, <1>4, Zenon

\* A thread that enters amdgpu_gpu_reset, passes amdgpu_check_soft_reset or returns has
\* nothing to recover, and leaves the jobs of the others alone.
LEMMA RecoveryAside ==
    ASSUME RecoveryInv, SameJobs, NEW t \in ResetThreads, NEW a \in {"no", "check", "park"},
           NEW d, Moved(t, a, d, None, None)
    PROVE  RecoveryInv'
<1>1. /\ reset'[t].at = a /\ reset'[t].job = None /\ reset'[t].tmp = None
      /\ \A u \in ResetThreads : u # t => reset'[u] = reset[u]
  BY Zenon DEF Moved
<1>2. Listed' = Listed /\ \A k \in Listed : Waiting(k)' <=> Waiting(k)
  BY Zenon DEF SameJobs, Listed, Waiting
<1> SUFFICES ASSUME NEW u \in ResetThreads
             PROVE  RecoveryOk(reset[u].at, reset[u].job, reset[u].tmp)'
  BY Zenon DEF RecoveryInv
<1>3. CASE u = t
  BY <1>1, <1>3, Zenon DEF RecoveryOk
<1>4. CASE u # t
  <2>1. PICK b, j, n : b = reset[u].at /\ j = reset[u].job /\ n = reset[u].tmp
    BY Zenon
  <2>2. RecoveryOk(b, j, n)
    BY <2>1, Zenon DEF RecoveryInv
  <2>3. Successor(j, n)' <=> Successor(j, n)
    BY <1>2, Zenon DEF Successor
  <2>4. RecoveryOk(b, j, n)'
    BY <1>2, <2>2, <2>3, Zenon DEF RecoveryOk
  <2>5. reset'[u].at = b /\ reset'[u].job = j /\ reset'[u].tmp = n
    BY <1>1, <1>4, <2>1, Zenon
  <2> QED
    BY <2>4, <2>5, Zenon DEF RecoveryOk, Successor
<1> QED
  BY <1>3, <1>4, Zenon

\* The steps keep the jobs that are still to be recovered waiting, and the one noted by
\* list_for_each_entry_safe the next of them.
LEMMA RecoveryStep ==
    ASSUME ~unfinished', ResetTypes, ThreadInv, JobsInv, [Next]_vars
    PROVE  RecoveryInv'
<1>0. MirrorInv /\ MainInv /\ RecoveryInv
  BY Zenon DEF JobsInv
<1>1. ASSUME UNCHANGED reset, main # "parked" PROVE RecoveryInv'
  <2> SUFFICES ASSUME NEW t \in ResetThreads
               PROVE  RecoveryOk(reset[t].at, reset[t].job, reset[t].tmp)'
    BY Zenon DEF RecoveryInv
  <2>1. reset[t].at \notin {"asic", "recovery", "rerun", "reinstall"}
    BY <1>1, Zenon DEF ThreadInv, Blocking
  <2>2. reset[t].job = None /\ reset[t].tmp = None
    BY <1>0, <2>1, Zenon DEF RecoveryInv, RecoveryOk
  <2> QED
    BY <1>1, <2>1, <2>2, Zenon DEF RecoveryOk
<1>2. ASSUME UNCHANGED reset, Listed' = Listed, \A k \in Jobs : Waiting(k) => Waiting(k)'
      PROVE  RecoveryInv'
  <2>1. PICK R : R = {}
    BY Zenon
  <2>2. Listed' = Listed \ R /\ \A k \in Jobs : Waiting(k) => k \notin R /\ Waiting(k)'
    BY <1>2, <2>1, Zenon
  <2> QED
    BY <1>0, <1>2, <2>2, RecoveryFrame, Zenon
<1>3. SameJobs => Listed' = Listed /\ \A k \in Jobs : Waiting(k)' <=> Waiting(k)
  BY Zenon DEF SameJobs, Listed, Waiting
<1>4. CASE MainBegin \/ MainInstall \/ MainRun
  BY <1>1, <1>4, Zenon DEF MainBegin, MainInstall, MainRun
<1>5. CASE MainPark \/ MainUnpark \/ GpuHang
  <2>1. SameJobs /\ UNCHANGED reset
    BY <1>5, Zenon DEF MainPark, MainUnpark, GpuHang, SameJobs
  <2> QED
    BY <1>2, <1>3, <2>1, Zenon
<1>6. CASE GpuPass
  BY <1>0, <1>2, <1>6, PassJobs, Zenon DEF GpuPass
<1>7. ASSUME NEW j \in Jobs, FinishDel(j) PROVE RecoveryInv'
  <2>1. Listed' = Listed \ {j} /\ \A k \in Jobs : Waiting(k) => k \notin {j} /\ Waiting(k)'
    BY <1>0, <1>7, DelJobs, Zenon
  <2>2. UNCHANGED reset
    BY <1>7, Zenon DEF FinishDel
  <2> QED
    BY <1>0, <2>1, <2>2, RecoveryFrame, Zenon
<1>8. ASSUME NEW j \in Jobs, FinishFree(j) PROVE RecoveryInv'
  BY <1>0, <1>2, <1>8, FreeJobs, Zenon DEF FinishFree
<1>10. ASSUME NEW j \in Jobs, TdrFire(j) PROVE RecoveryInv'
  <2>1. "tdr" \in ResetThreads /\ SameJobs
    BY <1>10, Zenon DEF TdrFire, MayReset, SameJobs
  <2>2. Moved("tdr", "check", j, None, None)
    BY <1>10, TdrFireMoves, Zenon
  <2> QED
    BY <1>0, <2>1, <2>2, RecoveryAside, Zenon
<1>11. CASE OtherReset
  <2>1. /\ "other" \in ResetThreads /\ SameJobs
        /\ Go("other", "check") /\ reset["other"] = NoReset
    BY <1>11, Zenon DEF OtherReset, MayReset, Go, ThreadInv, SameJobs
  <2>2. PICK d : Moved("other", "check", d, None, None)
    BY <2>1, GoMoves, NoResetRec, Zenon DEF Places
  <2> QED
    BY <1>0, <2>1, <2>2, RecoveryAside, Zenon
<1>12. ASSUME NEW t \in ResetThreads, Reset(t) PROVE RecoveryInv'
  <2>0. PICK j, n : j = reset[t].job /\ n = reset[t].tmp
    BY Zenon
  <2>1. ASSUME NEW b, At(t, b), b \notin {"no", "check"}, NEW a \in Places, Go(t, a),
               RecoveryOk(a, j, n)'
        PROVE  RecoveryInv'
    <3>1. PICK d : Moved(t, a, d, j, n)
      BY <2>0, <2>1, GoMoves, Zenon
    <3>2. Resetting(t)
      BY <2>1, Zenon DEF At, Resetting
    <3> QED
      BY <1>0, <2>1, <3>1, <3>2, RecoveryMoves, Zenon
  <2>2. ASSUME NEW b, At(t, b), b \notin {"rerun", "reinstall"} PROVE j = None /\ n = None
    BY <1>0, <2>0, <2>2, Zenon DEF At, RecoveryInv, RecoveryOk
  <2>3. ASSUME SameJobs, reset' = [reset EXCEPT ![t] = NoReset] PROVE RecoveryInv'
    <3>1. PICK d : Moved(t, "no", d, None, None)
      BY <2>3, SetMoves, NoResetRec, Zenon
    <3> QED
      BY <1>0, <2>3, <3>1, RecoveryAside, Zenon
  <2>4. CASE ResetCheck(t)
    <3>0. SameJobs /\ At(t, "check")
      BY <2>4, Zenon DEF ResetCheck, SameJobs
    <3>1. CASE Go(t, "park")
      <4>1. j = None /\ n = None
        BY <2>2, <3>0, Zenon
      <4>2. PICK d : Moved(t, "park", d, j, n)
        BY <2>0, <3>1, GoMoves, Zenon DEF Places
      <4> QED
        BY <1>0, <3>0, <4>1, <4>2, RecoveryAside, Zenon
    <3>2. CASE reset' = [reset EXCEPT ![t] = NoReset]
      BY <2>3, <3>0, <3>2, Zenon
    <3> QED
      BY <2>4, <3>1, <3>2, Zenon DEF ResetCheck
  <2>5. CASE ResetPark(t)
    <3>1. At(t, "park") /\ Go(t, "parking")
      BY <2>5, Zenon DEF ResetPark
    <3>2. RecoveryOk("parking", j, n)'
      BY <2>2, <3>1, Zenon DEF RecoveryOk
    <3> QED
      BY <2>1, <3>1, <3>2, Zenon DEF Places
  <2>6. CASE HwJobReset(t)
    <3>1. At(t, "parking") /\ Go(t, "asic")
      BY <2>6, Zenon DEF HwJobReset
    <3>2. Listed' = Listed /\ \A k \in Listed : Waiting(k)'
      BY <1>0, <2>6, ResetJobs, Zenon
    <3>3. RecoveryOk("asic", j, n)'
      BY <2>2, <3>1, <3>2, Zenon DEF RecoveryOk
    <3> QED
      BY <2>1, <3>1, <3>3, Zenon DEF Places
  <2>o. CASE HwJobOops(t)
    <3>1. At(t, "parking") /\ Go(t, "oops")
      BY <2>o, Zenon DEF HwJobOops
    <3>2. RecoveryOk("oops", j, n)'
      BY <2>2, <3>1, Zenon DEF RecoveryOk
    <3> QED
      BY <2>1, <3>1, <3>2, Zenon DEF Places
  <2>7. CASE AsicReset(t)
    <3>1. At(t, "asic") /\ Go(t, "recovery") /\ SameJobs
      BY <2>7, Zenon DEF AsicReset, SameJobs
    <3>2. \A k \in Listed : Waiting(k)
      BY <1>0, <3>1, Zenon DEF At, RecoveryInv, RecoveryOk
    <3>3. \A k \in Listed' : Waiting(k)'
      BY <1>3, <3>1, <3>2, Zenon DEF SameJobs, Waiting
    <3>4. RecoveryOk("recovery", j, n)'
      BY <2>2, <3>1, <3>3, Zenon DEF RecoveryOk
    <3> QED
      BY <2>1, <3>1, <3>4, Zenon DEF Places
  <2>8. CASE ResumeFails(t)
    <3>1. At(t, "asic") /\ Go(t, "unpark")
      BY <2>8, Zenon DEF ResumeFails
    <3>2. RecoveryOk("unpark", j, n)'
      BY <2>2, <3>1, Zenon DEF RecoveryOk
    <3> QED
      BY <2>1, <3>1, <3>2, Zenon DEF Places
  <2>9. ASSUME NEW m, m # None => m \in Listed' /\ \A k \in Listed' : m <= k => Waiting(k)',
               Listed' = Listed, NEW d, NEW a, a = RecoveryPlace(m),
               NEW q, q = RecoveryTmp(m), Moved(t, a, d, m, q), Resetting(t)
        PROVE  RecoveryInv'
    <3>1. CASE m = None
      <4>1. a = "unpark" /\ q = None
        BY <2>9, <3>1, Zenon DEF RecoveryPlace, RecoveryTmp
      <4>2. RecoveryOk(a, m, q)'
        BY <3>1, <4>1, Zenon DEF RecoveryOk
      <4> QED
        BY <1>0, <2>9, <4>2, RecoveryMoves, Zenon
    <3>2. CASE m # None
      <4>1. a = "rerun" /\ q = After(m)
        BY <2>9, <3>2, Zenon DEF RecoveryPlace, RecoveryTmp
      <4>2. Successor(m, q)
        BY <1>0, <2>9, <3>2, <4>1, AfterFacts, Zenon DEF ResetTypes, MirrorInv
      <4>3. Successor(m, q)'
        BY <2>9, <4>2, Zenon DEF Successor
      <4>4. RecoveryOk(a, m, q)'
        BY <2>9, <3>2, <4>1, <4>3, Zenon DEF RecoveryOk
      <4> QED
        BY <1>0, <2>9, <4>4, RecoveryMoves, Zenon
    <3> QED
      BY <3>1, <3>2, Zenon
  <2>10. CASE RecoveryStart(t)
    <3>1. At(t, "recovery") /\ SameJobs
      BY <2>10, Zenon DEF RecoveryStart, SameJobs
    <3>2. \A k \in Listed' : Waiting(k)'
      BY <1>0, <1>3, <3>1, Zenon DEF At, RecoveryInv, RecoveryOk, SameJobs, Waiting
    <3>3. PICK m : m = First
      BY Zenon
    <3>4. PICK d, a, q : a = RecoveryPlace(m) /\ q = RecoveryTmp(m) /\ Moved(t, a, d, m, q)
      BY <2>10, <3>3, RecoveryStartMoves, Zenon
    <3>5. m # None => m \in Listed
      BY <1>0, <3>3, FirstFacts, Zenon DEF Successor, ResetTypes, MirrorInv
    <3>6. Resetting(t) /\ Listed' = Listed
      BY <1>3, <3>1, Zenon DEF At, Resetting
    <3> QED
      BY <2>9, <3>2, <3>4, <3>5, <3>6, Zenon
  <2>11. CASE RecoveryRun(t)
    <3>1. At(t, "rerun") /\ SameJobs
      BY <2>11, Zenon DEF RecoveryRun, SameJobs
    <3>2. PICK d : Moved(t, "reinstall", d, j, n)
      BY <2>0, <2>11, RecoveryRunMoves, Zenon
    <3>3. j \in Listed /\ (\A k \in Listed : j <= k => Waiting(k)) /\ Successor(j, n)
      BY <1>0, <2>0, <3>1, Zenon DEF At, RecoveryInv, RecoveryOk
    <3>4. Successor(j, n)' /\ j \in Listed' /\ \A k \in Listed' : j <= k => Waiting(k)'
      BY <1>3, <3>1, <3>3, Zenon DEF Successor, SameJobs, Waiting
    <3>5. RecoveryOk("reinstall", j, n)'
      BY <3>4, Zenon DEF RecoveryOk
    <3>6. Resetting(t)
      BY <3>1, Zenon DEF At, Resetting
    <3> QED
      BY <1>0, <3>2, <3>5, <3>6, RecoveryMoves, Zenon
  <2>12. CASE RecoveryInstall(t)
    <3>1. /\ reset[t].at = "reinstall" /\ Install(j, reset[t].fence)
          /\ UNCHANGED <<mirror, next>>
      BY <2>0, <2>12, Zenon DEF RecoveryInstall, At
    <3>2. reset[t].fence \in Nat
      BY DEF ResetTypes, ResetRecords
    <3>3. j \in Jobs /\ j < next /\ Waiting(j)
      BY <1>0, <2>0, <3>1, RecoveredJob, Zenon
    <3>4. /\ Listed' = Listed
          /\ \A k \in Jobs : k # j => cb'[k] = cb[k] /\ finish'[k] = finish[k]
      BY <1>0, <3>1, <3>2, <3>3, InstallJobs, Zenon
    <3>5. j \in Listed /\ (\A k \in Listed : j <= k => Waiting(k)) /\ Successor(j, n)
      BY <1>0, <2>0, <3>1, Zenon DEF RecoveryInv, RecoveryOk
    <3>6. ASSUME n # None, NEW k \in Listed, n <= k PROVE Waiting(k)'
      <4>1. j < n /\ n \in Listed
        BY <3>5, <3>6, Zenon DEF Successor
      <4>2. j \in Nat /\ n \in Nat /\ k \in Nat /\ k \in Jobs
        BY <3>5, <3>6, <4>1, ListedJobs, Zenon DEF ResetTypes
      <4>3. j <= k /\ k # j
        BY <3>6, <4>1, <4>2
      <4> QED
        BY <3>4, <3>5, <4>2, <4>3, Zenon DEF Waiting
    <3>7. n # None => n \in Listed' /\ \A k \in Listed' : n <= k => Waiting(k)'
      BY <3>4, <3>5, <3>6, Zenon DEF Successor
    <3>8. PICK d, a, q : a = RecoveryPlace(n) /\ q = RecoveryTmp(n) /\ Moved(t, a, d, n, q)
      BY <2>0, <2>12, RecoveryInstallMoves, Zenon
    <3>9. Resetting(t)
      BY <3>1, Zenon DEF Resetting
    <3> QED
      BY <2>9, <3>4, <3>7, <3>8, <3>9, Zenon
  <2>13. CASE ResetUnpark(t)
    BY <2>3, <2>13, Zenon DEF ResetUnpark, SameJobs
  <2> QED
    BY <1>12, <2>4, <2>5, <2>6, <2>o, <2>7, <2>8, <2>10, <2>11, <2>12, <2>13, Zenon DEF Reset
<1>13. CASE UNCHANGED vars
  <2>1. SameJobs /\ UNCHANGED reset
    BY <1>13, Zenon DEF vars, SameJobs
  <2> QED
    BY <1>2, <1>3, <2>1, Zenon
<1> QED
  BY <1>4, <1>5, <1>6, <1>7, <1>8, <1>10, <1>11, <1>12, <1>13, Zenon DEF Next, Main, FinishWork

-----------------------------------------------------------------------------
(* The timers, and freed jobs *)

Running == {"running", "rearmed"}

\* A timeout work runs for the thread that resets on its behalf, and a freed job has no
\* timer.
TdrOk(j) ==
    /\ finish[j] = "freed" => tdr[j] = "off"
    /\ tdr[j] \in Running => "tdr" \in ResetThreads /\ reset["tdr"].tdrJob = j
    /\ \A t \in ResetThreads : reset[t].tdrJob = j => tdr[j] \in Running

TdrInv ==
    /\ \A j \in Jobs : TdrOk(j)
    /\ \A t \in ResetThreads : t # "tdr" => reset[t].tdrJob = None

\* a step starts and ends no timeout work, and leaves freed jobs without a timer
TimersKept ==
    \A j \in Jobs :
        /\ tdr'[j] \in Running <=> tdr[j] \in Running
        /\ finish'[j] = "freed" => tdr'[j] = "off"

\* a step changes no thread's tdrJob
CallersKept == \A t \in ResetThreads : reset'[t].tdrJob = reset[t].tdrJob

\* Such steps keep the timers.
LEMMA TdrFrame ==
    ASSUME TdrInv, TimersKept, CallersKept
    PROVE  TdrInv'
BY ZenonT(60) DEF TdrInv, TdrOk, TimersKept, CallersKept

\* Only the end of amd_sched_job_finish frees a job.
LEMMA FreedStep ==
    ASSUME ResetTypes, [Next]_vars, NEW j \in Jobs, finish'[j] = "freed"
    PROVE  finish[j] = "freed" \/ FinishFree(j)
<1>0. finish \in [Jobs -> {"no", "queued", "cancel", "freed"}]
  BY Zenon DEF ResetTypes
<1>1. ASSUME NEW S, ProcessJobs(S) PROVE finish[j] = "freed"
  BY <1>1, Zenon DEF ProcessJobs
<1>2. ASSUME NEW k, NEW f, Install(k, f) PROVE finish[j] = "freed"
  BY <1>1, <1>2, Zenon DEF Install
<1>3. CASE MainInstall \/ \E t \in ResetThreads : RecoveryInstall(t)
  BY <1>2, <1>3, Zenon DEF MainInstall, RecoveryInstall
<1>4. CASE GpuPass
  BY <1>1, <1>4, Zenon DEF GpuPass
<1>5. CASE MainBegin \/ SameJobs \/ \E t \in ResetThreads : HwJobReset(t) \/ HwJobOops(t)
  BY <1>5, Zenon DEF MainBegin, SameJobs, HwJobReset, HwJobOops
<1>6. ASSUME NEW k \in Jobs, FinishDel(k) PROVE finish[j] = "freed"
  BY <1>0, <1>6, Zenon DEF FinishDel
<1>7. ASSUME NEW k \in Jobs, FinishFree(k) PROVE finish[j] = "freed" \/ j = k
  BY <1>0, <1>7, Zenon DEF FinishFree
<1> QED
  BY <1>3, <1>4, <1>5, <1>6, <1>7, JobsFrame, Zenon

\* schedule_delayed_work for a job that is not freed.
LEMMA ArmKeeps ==
    ASSUME ResetTypes, TdrInv, NEW k, Arm(k), UNCHANGED finish,
           k \in Jobs => finish[k] # "freed"
    PROVE  TimersKept
<1>1. tdr \in [Jobs -> {"off", "armed", "running", "rearmed"}]
  BY Zenon DEF ResetTypes
<1>2. ASSUME NEW j \in Jobs PROVE Armed(j) \in Running <=> tdr[j] \in Running
  BY <1>1, Zenon DEF Armed, Running
<1>3. ASSUME NEW j \in Jobs PROVE tdr'[j] = tdr[j] \/ (j = k /\ tdr'[j] = Armed(j))
  BY <1>1, Zenon DEF Arm
<1> QED
  BY <1>2, <1>3, ZenonT(60) DEF TimersKept, TdrInv, TdrOk

\* A job of the mirror list is not freed.
LEMMA ListedNotFreed ==
    ASSUME ResetTypes, MirrorInv, NEW j \in Listed
    PROVE  j \in Jobs /\ finish[j] # "freed"
<1>1. j \in Jobs
  BY ListedJobs, Zenon DEF ResetTypes
<1> QED
  BY <1>1, Zenon DEF MirrorInv, JobOk

\* cancel_delayed_work_sync has stopped the timer of the job that is freed, and the timer of
\* the first job of the list is started.
LEMMA FreeKeeps ==
    ASSUME ResetTypes, MirrorInv, TdrInv, NEW j \in Jobs, FinishFree(j)
    PROVE  TimersKept
<1>1. /\ finish[j] = "cancel" /\ finish' = [finish EXCEPT ![j] = "freed"]
      /\ tdr[j] \notin Running
  BY Zenon DEF FinishFree, Cancelled, Running
<1>2. tdr' = [k \in Jobs |-> CASE k = j /\ tdr[k] = "armed" -> "off"
                              [] k = First -> Armed(k)
                              [] OTHER -> tdr[k]]
  BY Zenon DEF FinishFree
<1>3. /\ tdr \in [Jobs -> {"off", "armed", "running", "rearmed"}]
      /\ finish \in [Jobs -> {"no", "queued", "cancel", "freed"}]
  BY Zenon DEF ResetTypes
<1>4. First \in Jobs => finish[First] # "cancel" /\ finish[First] # "freed"
  <2>1. First # None => First \in Listed
    BY FirstFacts, Zenon DEF Successor, ResetTypes, MirrorInv
  <2>2. SUFFICES ASSUME First \in Jobs PROVE finish[First] # "cancel" /\ finish[First] # "freed"
    BY Zenon
  <2>3. First \in Listed
    BY <2>1, <2>2, JobNumbers, Zenon
  <2> QED
    BY <2>2, <2>3, Zenon DEF MirrorInv, JobOk
<1>5. j # First
  BY <1>1, <1>4, Zenon
<1>6. tdr'[j] = "off"
  <2>1. tdr[j] = "armed" \/ tdr[j] = "off"
    BY <1>1, <1>3, Zenon DEF Running
  <2> QED
    BY <1>2, <1>5, <2>1, Zenon
<1>7. ASSUME NEW k \in Jobs, k # j
      PROVE  tdr'[k] = tdr[k] \/ (k = First /\ tdr'[k] = Armed(k))
  BY <1>2, <1>7, Zenon
<1>8. ASSUME NEW k \in Jobs PROVE Armed(k) \in Running <=> tdr[k] \in Running
  BY <1>3, Zenon DEF Armed, Running
<1>9. ASSUME NEW k \in Jobs
      PROVE  /\ tdr'[k] \in Running <=> tdr[k] \in Running
             /\ finish'[k] = "freed" => tdr'[k] = "off"
  <2>1. CASE k = j
    BY <1>1, <1>6, <2>1, Zenon DEF Running
  <2>2. CASE k # j
    <3>1. finish'[k] = finish[k]
      BY <1>1, <1>3, <2>2, Zenon
    <3>2. finish[k] = "freed" => tdr[k] = "off" /\ k # First
      BY <1>4, Zenon DEF TdrInv, TdrOk
    <3> QED
      BY <1>7, <1>8, <2>2, <3>1, <3>2, Zenon
  <2> QED
    BY <2>1, <2>2, Zenon
<1> QED
  BY <1>9, Zenon DEF TimersKept

\* The timeout work returns with the reset; another thread has none.
LEMMA DoneKeeps ==
    ASSUME ResetTypes, TdrInv, NEW t \in ResetThreads,
           TdrDone(t), reset' = [reset EXCEPT ![t] = NoReset], UNCHANGED finish
    PROVE  TdrInv'
<1>1. PICK d : d = reset[t].tdrJob
  BY Zenon
<1>2. /\ reset'[t].tdrJob = None
      /\ \A u \in ResetThreads : u # t => reset'[u] = reset[u]
  BY NoResetRec, Zenon DEF ResetTypes
<1>3. \A u \in ResetThreads : u # "tdr" => reset[u].tdrJob = None
  BY Zenon DEF TdrInv
<1>6. tdr' = [j \in Jobs |-> IF j # d THEN tdr[j]
                             ELSE IF tdr[j] = "rearmed" THEN "armed" ELSE "off"]
  BY <1>1, Zenon DEF TdrDone
<1>7. \A j \in Jobs : j # None
  BY JobNumbers, Zenon
<1>8. CASE t # "tdr"
  <2>1. d = None
    BY <1>1, <1>3, <1>8, Zenon
  <2>2. CallersKept
    BY <1>1, <1>2, <2>1, Zenon DEF CallersKept
  <2>3. \A j \in Jobs : tdr'[j] = tdr[j]
    BY <1>6, <1>7, <2>1, Zenon
  <2>4. TimersKept
    BY <2>3, Zenon DEF TimersKept, TdrInv, TdrOk
  <2> QED
    BY <2>2, <2>4, TdrFrame, Zenon
<1>9. CASE t = "tdr"
  <2>0. \A u \in ResetThreads : reset'[u].tdrJob = None
    BY <1>2, <1>3, <1>9, Zenon
  <2>8. ASSUME NEW j \in Jobs PROVE TdrOk(j)'
    <3>1. TdrOk(j)
      BY Zenon DEF TdrInv
    <3>2. tdr'[j] \notin Running
      <4>1. CASE j = d
        BY <1>6, <4>1, Zenon DEF Running
      <4>2. CASE j # d
        <5>1. tdr[j] \notin Running
          BY <1>1, <1>9, <3>1, <4>2, Zenon DEF TdrOk
        <5> QED
          BY <1>6, <4>2, <5>1, Zenon
      <4> QED
        BY <4>1, <4>2, Zenon
    <3>3. finish[j] = "freed" => j # d /\ tdr[j] = "off"
      BY <1>1, <3>1, Zenon DEF TdrOk, Running
    <3>4. finish'[j] = "freed" => tdr'[j] = "off"
      BY <1>6, <3>3, Zenon
    <3> QED
      BY <1>7, <2>0, <3>2, <3>4, Zenon DEF TdrOk
  <2> QED
    BY <2>0, <2>8, Zenon DEF TdrInv
<1> QED
  BY <1>8, <1>9, Zenon

\* A thread keeps its tdrJob through every step of its reset but the last.
LEMMA CallersStep ==
    ASSUME ResetTypes, NEW t \in ResetThreads, Reset(t)
    PROVE  \/ CallersKept
           \/ At(t, "check") /\ ResetCheck(t) /\ reset' = [reset EXCEPT ![t] = NoReset]
           \/ ResetUnpark(t)
<1>1. ASSUME NEW a, NEW j, NEW n, Moved(t, a, reset[t].tdrJob, j, n) PROVE CallersKept
  BY <1>1, Zenon DEF Moved, CallersKept
<1>2. ASSUME NEW a \in Places, Go(t, a) PROVE CallersKept
  BY <1>1, <1>2, GoMoves, Zenon
<1>3. CASE ResetCheck(t)
  BY <1>2, <1>3, Zenon DEF ResetCheck, Places
<1>4. CASE ResetPark(t)
  BY <1>2, <1>4, Zenon DEF ResetPark, Places
<1>5. CASE HwJobReset(t) \/ HwJobOops(t)
  BY <1>2, <1>5, Zenon DEF HwJobReset, HwJobOops, Places
<1>6. CASE AsicReset(t)
  BY <1>2, <1>6, Zenon DEF AsicReset, Places
<1>7. CASE ResumeFails(t)
  BY <1>2, <1>7, Zenon DEF ResumeFails, Places
<1>8. CASE RecoveryStart(t)
  BY <1>1, <1>8, RecoveryStartMoves, Zenon
<1>9. CASE RecoveryRun(t)
  BY <1>1, <1>9, RecoveryRunMoves, Zenon
<1>10. CASE RecoveryInstall(t)
  BY <1>1, <1>10, RecoveryInstallMoves, Zenon
<1> QED
  BY <1>3, <1>4, <1>5, <1>6, <1>7, <1>8, <1>9, <1>10, Zenon DEF Reset

\* The steps keep the timers.
LEMMA TdrStep ==
    ASSUME ResetTypes, ThreadInv, MirrorInv, TdrInv, [Next]_vars
    PROVE  TdrInv'
<1>1. ASSUME UNCHANGED tdr, \A j \in Jobs : ~FinishFree(j) PROVE TimersKept
  BY <1>1, FreedStep, Zenon DEF TimersKept, TdrInv, TdrOk
<1>2. UNCHANGED reset => CallersKept
  BY Zenon DEF CallersKept
<1>3. CASE MainBegin
  <2>1. PICK k : k = IF mirror = <<>> THEN next ELSE None
    BY Zenon
  <2>2. Arm(k) /\ UNCHANGED <<finish, reset>>
    BY <1>3, <2>1, Zenon DEF MainBegin
  <2>3. k \in Jobs => finish[k] # "freed"
    <3>1. Waiting(next)
      BY <1>3, BeginJobs, Zenon
    <3>2. k = next \/ k = None
      BY <2>1, Zenon
    <3> QED
      BY <3>1, <3>2, JobNumbers, Zenon DEF Waiting
  <2> QED
    BY <1>2, <2>2, <2>3, ArmKeeps, TdrFrame, Zenon
<1>4. ASSUME NEW j \in Jobs, FinishFree(j) PROVE TdrInv'
  BY <1>2, <1>4, FreeKeeps, TdrFrame, Zenon DEF FinishFree
<1>5. ASSUME UNCHANGED <<tdr, reset>> PROVE TdrInv'
  BY <1>1, <1>2, <1>4, <1>5, TdrFrame, Zenon
<1>6. CASE MainRun \/ MainInstall \/ MainPark \/ MainUnpark
  BY <1>5, <1>6, Zenon DEF MainRun, MainInstall, MainPark, MainUnpark
<1>7. CASE GpuPass \/ GpuHang \/ \E j \in Jobs : FinishDel(j)
  BY <1>5, <1>7, Zenon DEF GpuPass, GpuHang, FinishDel
<1>9. ASSUME NEW j \in Jobs, TdrFire(j) PROVE TdrInv'
  <2>0. \A u \in ResetThreads : reset[u].tdrJob = None
    <3>1. reset["tdr"].tdrJob = None
      BY <1>9, NoResetRec, Zenon DEF TdrFire, MayReset, ThreadInv
    <3> QED
      BY <3>1, Zenon DEF TdrInv
  <2>1. /\ \A u \in ResetThreads : reset[u].tdrJob = None
        /\ \A k \in Jobs : tdr[k] \notin Running
    BY <2>0, JobNumbers, Zenon DEF TdrInv, TdrOk
  <2>2. Moved("tdr", "check", j, None, None)
    BY <1>9, TdrFireMoves, Zenon
  <2>3. tdr[j] = "armed" /\ tdr' = [tdr EXCEPT ![j] = "running"] /\ UNCHANGED finish
    BY <1>9, Zenon DEF TdrFire
  <2>4. tdr'[j] = "running" /\ \A k \in Jobs : k # j => tdr'[k] = tdr[k]
    BY <2>3, Zenon DEF ResetTypes
  <2>5. /\ "tdr" \in ResetThreads /\ reset'["tdr"].tdrJob = j
        /\ \A u \in ResetThreads : u # "tdr" => reset'[u].tdrJob = None
    BY <2>1, <2>2, Zenon DEF Moved
  <2>6. ASSUME NEW k \in Jobs PROVE TdrOk(k)'
    <3>1. TdrOk(k) /\ k # None
      BY JobNumbers, Zenon DEF TdrInv
    <3>2. CASE k = j
      BY <2>3, <2>4, <2>5, <3>1, <3>2, Zenon DEF TdrOk, Running
    <3>3. CASE k # j
      BY <2>1, <2>3, <2>4, <2>5, <3>1, <3>3, Zenon DEF TdrOk
    <3> QED
      BY <3>2, <3>3, Zenon
  <2> QED
    BY <2>5, <2>6, Zenon DEF TdrInv
<1>10. CASE OtherReset
  <2>1. /\ "other" \in ResetThreads /\ Go("other", "check") /\ UNCHANGED tdr
    BY <1>10, Zenon DEF OtherReset, MayReset, Go
  <2>2. PICK a, j, n : Moved("other", a, reset["other"].tdrJob, j, n)
    BY <2>1, GoMoves, Zenon DEF Places
  <2>3. CallersKept
    BY <2>2, Zenon DEF CallersKept, Moved
  <2> QED
    BY <1>1, <1>4, <2>1, <2>3, TdrFrame, Zenon
<1>11. ASSUME NEW t \in ResetThreads, Reset(t) PROVE TdrInv'
  <2>1. CASE RecoveryStart(t)
    <3>1. Arm(First) /\ UNCHANGED finish
      BY <2>1, Zenon DEF RecoveryStart, RecoveryTimer
    <3>2. First \in Jobs => finish[First] # "freed"
      <4>1. First # None => First \in Listed
        BY FirstFacts, Zenon DEF Successor, ResetTypes, MirrorInv
      <4> QED
        BY <4>1, JobNumbers, ListedNotFreed, Zenon
    <3>3. Moved(t, RecoveryPlace(First), reset[t].tdrJob, First, RecoveryTmp(First))
      BY <2>1, RecoveryStartMoves, Zenon
    <3>4. CallersKept
      BY <3>3, Zenon DEF CallersKept, Moved
    <3> QED
      BY <3>1, <3>2, <3>4, ArmKeeps, TdrFrame, Zenon
  <2>2. CASE ResetUnpark(t) \/ (ResetCheck(t) /\ reset' = [reset EXCEPT ![t] = NoReset])
    <3>1. TdrDone(t) /\ UNCHANGED finish /\ reset' = [reset EXCEPT ![t] = NoReset]
      <4>1. CASE ResetUnpark(t)
        BY <4>1, Zenon DEF ResetUnpark
      <4>2. CASE ResetCheck(t) /\ reset' = [reset EXCEPT ![t] = NoReset]
        <5>1. reset'[t].at = "no"
          BY <4>2, NoResetRec, Zenon DEF ResetTypes
        <5>2. ~Go(t, "park")
          <6>1. SUFFICES ASSUME Go(t, "park") PROVE FALSE
            BY Zenon
          <6>2. reset'[t].at = "park"
            BY <6>1, GoMoves, Zenon DEF Moved, Places
          <6> QED
            BY <5>1, <6>2, Zenon
        <5> QED
          BY <4>2, <5>2, Zenon DEF ResetCheck
      <4> QED
        BY <2>2, <4>1, <4>2, Zenon
    <3> QED
      BY <3>1, DoneKeeps, Zenon
  <2>3. CASE CallersKept /\ ~RecoveryStart(t) /\ ~ResetUnpark(t)
    <3>1. CASE UNCHANGED tdr
      BY <1>1, <1>4, <2>3, <3>1, TdrFrame, Zenon
    <3>2. CASE ResetCheck(t) /\ reset' = [reset EXCEPT ![t] = NoReset]
      BY <2>2, <3>2, Zenon
    <3>3. UNCHANGED tdr \/ (ResetCheck(t) /\ reset' = [reset EXCEPT ![t] = NoReset])
      BY <1>11, <2>3, Zenon DEF Reset, ResetCheck, ResetPark, HwJobReset, HwJobOops,
         AsicReset, ResumeFails, RecoveryRun, RecoveryInstall
    <3> QED
      BY <3>1, <3>2, <3>3, Zenon
  <2> QED
    BY <1>11, <2>1, <2>2, <2>3, CallersStep, Zenon
<1>12. CASE UNCHANGED vars
  BY <1>5, <1>12, Zenon DEF vars
<1> QED
  BY <1>3, <1>4, <1>6, <1>7, <1>9, <1>10, <1>11, <1>12, Zenon DEF Next, Main, FinishWork

\* The inductive invariant of the reset.
ResetInv == ResetTypes /\ ThreadInv /\ JobsInv /\ TdrInv

\* It holds until two resets overlap or one meets a listed job that has signaled.
SoundReset == ~overlap /\ ~unfinished => ResetInv

\* Every step keeps it: the history only grows.
LEMMA ResetInvHolds == Spec => []SoundReset
<1>1. Init => SoundReset
  <2> SUFFICES ASSUME Init PROVE ResetInv
    BY Zenon DEF SoundReset
  <2>1. ResetTypes /\ ThreadInv
    BY BlockInit, Zenon
  <2>2. mirror = <<>> /\ next = 1 /\ finished = {} /\ main = "top" /\ cur = None
    BY Zenon DEF Init
  <2>3. \A j \in Jobs : cb[j] = None /\ finish[j] = "no" /\ tdr[j] = "off"
    BY Zenon DEF Init
  <2>4. \A t \in ResetThreads : reset[t] = NoReset
    BY Zenon DEF Init
  <2>5. Listed = {} /\ Sorted(mirror)
    BY <2>2 DEF Listed, Members, Sorted
  <2>6. \A j \in Jobs : ~(j < next)
    BY <2>2, ResetBounds DEF Jobs
  <2>7. MirrorInv
    BY <2>2, <2>3, <2>5, <2>6, Zenon DEF MirrorInv, JobOk
  <2>8. MainInv
    BY <2>2, Zenon DEF MainInv
  <2>9. RecoveryInv
    BY <2>4, NoResetRec, Zenon DEF RecoveryInv, RecoveryOk
  <2>10. TdrInv
    BY <2>3, <2>4, NoResetRec, JobNumbers, Zenon DEF TdrInv, TdrOk, Running
  <2> QED
    BY <2>1, <2>7, <2>8, <2>9, <2>10, Zenon DEF ResetInv, JobsInv
<1>2. SoundReset /\ [Next]_vars => SoundReset'
  <2> SUFFICES ASSUME SoundReset, [Next]_vars, ~overlap', ~unfinished' PROVE ResetInv'
    BY Zenon DEF SoundReset
  <2>0. ResetInv
    BY HistoryStep, Zenon DEF SoundReset
  <2>1. ResetTypes /\ ThreadInv /\ JobsInv /\ TdrInv /\ MirrorInv
    BY <2>0, Zenon DEF ResetInv, JobsInv
  <2>2. ResetTypes' /\ ThreadInv' /\ TdrInv'
    BY <2>1, TypesStep, ThreadStep, TdrStep, Zenon
  <2>3. MirrorInv' /\ MainInv' /\ RecoveryInv'
    BY <2>1, MirrorStep, MainInvStep, RecoveryStep, Zenon
  <2> QED
    BY <2>2, <2>3, Zenon DEF ResetInv, JobsInv
<1> QED
  BY <1>1, <1>2, PTL DEF Spec

\* A job that its finish work has freed is used by nobody: amd_sched_main, the mirror list,
\* the timers and the recovery, which notes the next job before it drops the list lock; until
\* two resets overlap, or amd_sched_hw_job_reset meets a listed job that has signaled.
THEOREM NoFreedJobHolds == Spec => []NoFreedJob
<1>1. SoundReset => NoFreedJob
  <2> SUFFICES ASSUME ResetInv, NEW j \in Jobs, finish[j] = "freed"
               PROVE  /\ cur # j /\ ~InMirror(j) /\ tdr[j] = "off"
                      /\ \A t \in ResetThreads :
                            /\ reset[t].tmp # j /\ reset[t].tdrJob # j
                            /\ reset[t].at = "rerun" => reset[t].job # j
    BY Zenon DEF NoFreedJob, SoundReset
  <2>1. ResetTypes /\ MirrorInv /\ MainInv /\ RecoveryInv /\ TdrInv
    BY Zenon DEF ResetInv, JobsInv
  <2>2. j \notin Listed /\ j # None
    BY <2>1, ListedNotFreed, JobNumbers, Zenon
  <2>3. ~InMirror(j)
    BY <2>2, Zenon DEF InMirror, Listed, Members
  <2>4. cur # j
    BY <2>1, <2>2, Zenon DEF MainInv, Waiting
  <2>5. tdr[j] = "off" /\ \A t \in ResetThreads : reset[t].tdrJob # j
    BY <2>1, Zenon DEF TdrInv, TdrOk, Running
  <2>6. ASSUME NEW t \in ResetThreads
        PROVE  reset[t].tmp # j /\ (reset[t].at = "rerun" => reset[t].job # j)
    <3>1. RecoveryOk(reset[t].at, reset[t].job, reset[t].tmp)
      BY <2>1, Zenon DEF RecoveryInv
    <3>2. reset[t].tmp # None => reset[t].tmp \in Listed
      BY <3>1, Zenon DEF RecoveryOk, Successor
    <3>3. reset[t].at = "rerun" => reset[t].job \in Listed
      BY <3>1, Zenon DEF RecoveryOk
    <3> QED
      BY <2>2, <3>2, <3>3, Zenon
  <2> QED
    BY <2>3, <2>4, <2>5, <2>6, Zenon
<1> QED
  BY <1>1, ResetInvHolds, PTL

-----------------------------------------------------------------------------
(* The count of hardware submissions *)

INSTANCE FiniteSetTheorems

\* the jobs whose callback will lower the count
Counted == {j \in Jobs : cb[j] # None}

\* the job that the main thread has counted and not yet installed
OfMain == IF main \in {"run", "install"} THEN 1 ELSE 0

\* the job that the recovery has counted and not yet installed
Reinstalling == \E t \in ResetThreads : reset[t].at = "reinstall"
OfRecovery == IF Reinstalling THEN 1 ELSE 0

\* There are finitely many jobs.
LEMMA CountedFinite ==
    \A P \in SUBSET Jobs : IsFiniteSet(P) /\ Cardinality(P) \in Nat
<1>1. IsFiniteSet(Jobs)
  <2>1. 1 \in Int /\ NumJobs \in Int
    BY ResetBounds
  <2> QED
    BY <2>1, FS_Interval, Zenon DEF Jobs
<1> SUFFICES ASSUME NEW P \in SUBSET Jobs PROVE IsFiniteSet(P) /\ Cardinality(P) \in Nat
  BY Zenon
<1>2. IsFiniteSet(P)
  BY <1>1, FS_Subset, Zenon
<1> QED
  BY <1>2, FS_CardinalityType, Zenon

\* As one thread resets at a time, at most one job is run again.
LEMMA CountIs ==
    ASSUME ThreadInv
    PROVE  hw_rq_count = Cardinality(Counted) + OfMain + OfRecovery => CountExact
<1>1. PICK Q : Q = {t \in ResetThreads : reset[t].at = "reinstall"}
  BY Zenon
<1>2. Cardinality(Q) = OfRecovery
  <2>1. CASE ~Reinstalling
    <3>1. Q = {}
      BY <1>1, <2>1, Zenon DEF Reinstalling
    <3> QED
      BY <2>1, <3>1, FS_EmptySet, Zenon DEF OfRecovery
  <2>2. CASE Reinstalling
    <3>1. PICK t \in ResetThreads : reset[t].at = "reinstall"
      BY <2>2, Zenon DEF Reinstalling
    <3>2. Q = {t}
      BY <1>1, <3>1, Zenon DEF ThreadInv, Resetting
    <3>3. Cardinality({t}) = 1
      BY FS_Singleton, Zenon
    <3> QED
      BY <2>2, <3>2, <3>3, Zenon DEF OfRecovery
  <2> QED
    BY <2>1, <2>2, Zenon
<1> QED
  BY <1>1, <1>2, Zenon DEF CountExact, Counted, OfMain

\* Where the thread that resets is tells whether a job is being run again.
LEMMA ReinstallingAt ==
    ASSUME ThreadInv, NEW t \in ResetThreads, Resetting(t)
    PROVE  Reinstalling <=> reset[t].at = "reinstall"
BY Zenon DEF ThreadInv, Reinstalling, Resetting

\* Where it moves tells whether one is being run again afterwards.
LEMMA ReinstallingMoves ==
    ASSUME ThreadInv, NEW t \in ResetThreads, Resetting(t),
           NEW a, NEW d, NEW j, NEW n, Moved(t, a, d, j, n)
    PROVE  Reinstalling' <=> a = "reinstall"
<1>1. \A u \in ResetThreads : u # t => reset'[u].at \in {"no", "check"}
  BY Zenon DEF ThreadInv, Moved, Resetting
<1>2. reset'[t].at = a
  BY Zenon DEF Moved
<1> QED
  BY <1>1, <1>2, Zenon DEF Reinstalling

\* A thread that does not reset makes no difference.
LEMMA ReinstallingAside ==
    ASSUME NEW t \in ResetThreads, reset[t].at # "reinstall",
           NEW a, NEW d, NEW j, NEW n, Moved(t, a, d, j, n), a # "reinstall"
    PROVE  OfRecovery' = OfRecovery
<1>1. reset'[t].at = a /\ \A u \in ResetThreads : u # t => reset'[u] = reset[u]
  BY Zenon DEF Moved
<1>2. Reinstalling' <=> Reinstalling
  BY <1>1, Zenon DEF Reinstalling
<1> QED
  BY <1>2, Zenon DEF OfRecovery

\* Nothing moves a thread that died in amd_sched_hw_job_reset.
LEMMA OopsStays ==
    ASSUME ResetTypes, [Next]_vars, ListFree'
    PROVE  ListFree
<1>1. CASE UNCHANGED reset
  BY <1>1, Zenon DEF ListFree
<1>2. ASSUME NEW t \in ResetThreads, NEW a, NEW d, NEW j, NEW n, Moved(t, a, d, j, n),
             reset[t].at # "oops"
      PROVE  ListFree
  BY <1>2, Zenon DEF ListFree, Moved
<1>3. ASSUME NEW t \in ResetThreads, NEW a \in Places, Go(t, a), reset[t].at # "oops"
      PROVE  ListFree
  BY <1>2, <1>3, GoMoves, Zenon
<1>4. ASSUME NEW t \in ResetThreads, reset' = [reset EXCEPT ![t] = NoReset],
             reset[t].at # "oops"
      PROVE  ListFree
  BY <1>2, <1>4, SetMoves, NoResetRec, Zenon
<1>5. CASE OtherReset
  <2>1. "other" \in ResetThreads /\ Go("other", "check") /\ reset["other"].at # "oops"
    BY <1>5, Zenon DEF OtherReset, MayReset, Go
  <2> QED
    BY <1>3, <2>1, Zenon DEF Places
<1>6. ASSUME NEW j \in Jobs, TdrFire(j) PROVE ListFree
  <2>1. "tdr" \in ResetThreads /\ reset["tdr"].at # "oops"
    BY <1>6, Zenon DEF TdrFire, MayReset
  <2> QED
    BY <1>2, <1>6, <2>1, TdrFireMoves, Zenon
<1>7. ASSUME NEW t \in ResetThreads, Reset(t) PROVE ListFree
  <2>1. reset[t].at # "oops"
    BY <1>7, Zenon DEF Reset, ResetCheck, ResetPark, HwJobReset, HwJobOops, AsicReset,
       ResumeFails, RecoveryStart, RecoveryRun, RecoveryInstall, ResetUnpark, At
  <2>2. CASE ResetCheck(t)
    BY <1>3, <1>4, <2>1, <2>2, Zenon DEF ResetCheck, Places
  <2>3. CASE ResetPark(t) \/ AsicReset(t) \/ ResumeFails(t)
    BY <1>3, <2>1, <2>3, Zenon DEF ResetPark, AsicReset, ResumeFails, Places
  <2>4. CASE HwJobReset(t) \/ HwJobOops(t)
    BY <2>4, Zenon DEF HwJobReset, HwJobOops
  <2>5. CASE RecoveryStart(t) \/ RecoveryRun(t) \/ RecoveryInstall(t)
    BY <1>2, <2>1, <2>5, RecoveryStartMoves, RecoveryRunMoves, RecoveryInstallMoves, Zenon
  <2>6. CASE ResetUnpark(t)
    BY <1>4, <2>1, <2>6, Zenon DEF ResetUnpark
  <2> QED
    BY <1>7, <2>2, <2>3, <2>4, <2>5, <2>6, Zenon DEF Reset
<1>8. CASE Main
  BY <1>1, <1>8, Zenon DEF Main, MainBegin, MainRun, MainInstall, MainPark, MainUnpark
<1>9. CASE GpuPass \/ GpuHang \/ \E j \in Jobs : FinishWork(j)
  BY <1>1, <1>9, Zenon DEF GpuPass, GpuHang, FinishWork, FinishDel, FinishFree
<1>10. CASE UNCHANGED vars
  BY <1>1, <1>10, Zenon DEF vars
<1> QED
  BY <1>5, <1>6, <1>7, <1>8, <1>9, <1>10, Zenon DEF Next

\* fence_add_callback adds a callback; amd_sched_process_job at once lowers the count.
LEMMA InstallCounts ==
    ASSUME ResetTypes, hw_rq_count \in Int, NEW j \in Jobs, cb[j] = None, NEW f \in Nat,
           Install(j, f)
    PROVE  /\ hw_rq_count' - Cardinality(Counted') = hw_rq_count - Cardinality(Counted) - 1
           /\ hw_rq_count' \in Int
<1>0. cb \in [Jobs -> Nat] /\ Counted \in SUBSET Jobs /\ j \notin Counted
  BY Zenon DEF ResetTypes, Counted
<1>1. IsFiniteSet(Counted) /\ Cardinality(Counted) \in Nat
  BY <1>0, CountedFinite, Zenon
<1>2. CASE f # None /\ cb' = [cb EXCEPT ![j] = f] /\ UNCHANGED hw_rq_count
  <2>1. Counted' = Counted \cup {j}
    BY <1>0, <1>2, Zenon DEF Counted
  <2>2. Cardinality(Counted') = Cardinality(Counted) + 1
    BY <1>0, <1>1, <2>1, FS_AddElement, Zenon
  <2> QED
    BY <1>1, <1>2, <2>2
<1>3. CASE UNCHANGED cb /\ hw_rq_count' = hw_rq_count - 1
  <2>1. Counted' = Counted
    BY <1>3, Zenon DEF Counted
  <2> QED
    BY <1>1, <1>3, <2>1
<1> QED
  BY <1>2, <1>3, Zenon DEF Install

\* The callbacks on a fence lower the count once each.
LEMMA PassCounts ==
    ASSUME ResetTypes, hw_rq_count \in Int, GpuPass
    PROVE  /\ hw_rq_count' - Cardinality(Counted') = hw_rq_count - Cardinality(Counted)
           /\ hw_rq_count' \in Int
<1>1. PICK f : f = Head(ring)[2]
  BY Zenon
<1>2. f # None
  BY <1>1, HeadFence, Zenon DEF GpuPass
<1>3. PICK S : S = {j \in Jobs : cb[j] = f}
  BY Zenon
<1>4. /\ cb' = [j \in Jobs |-> IF j \in S THEN None ELSE cb[j]]
      /\ hw_rq_count' = hw_rq_count - Cardinality(S)
  BY <1>1, <1>3, Zenon DEF GpuPass
<1>5. S \subseteq Counted /\ Counted \in SUBSET Jobs
  BY <1>2, <1>3, Zenon DEF Counted
<1>6. Counted' = Counted \ S
  BY <1>4, Zenon DEF Counted
<1>7. /\ IsFiniteSet(Counted) /\ Cardinality(Counted) \in Nat
      /\ IsFiniteSet(S) /\ Cardinality(S) \in Nat
  BY <1>5, CountedFinite, Zenon
<1>8. Counted \cap S = S
  BY <1>5, Zenon
<1>9. Cardinality(Counted') = Cardinality(Counted) - Cardinality(S)
  <2>1. PICK C : C = Counted
    BY Zenon
  <2>2. IsFiniteSet(C) /\ C \cap S = S
    BY <1>7, <1>8, <2>1, Zenon
  <2>3. Cardinality(C \ S) = Cardinality(C) - Cardinality(C \cap S)
    BY <2>2, FS_Difference, Zenon
  <2> QED
    BY <1>6, <2>1, <2>2, <2>3, Zenon
<1> QED
  BY <1>4, <1>7, <1>9, SMTT(60)

CountInv == hw_rq_count = Cardinality(Counted) + OfMain + OfRecovery

\* The parts of the count are numbers, before a step and after it.
LEMMA CountTypes ==
    /\ Cardinality(Counted) \in Nat /\ OfMain \in Nat /\ OfRecovery \in Nat
    /\ Cardinality(Counted') \in Nat /\ OfMain' \in Nat /\ OfRecovery' \in Nat
<1>1. Counted \in SUBSET Jobs /\ Counted' \in SUBSET Jobs
  BY Zenon DEF Counted
<1>2. Cardinality(Counted) \in Nat /\ Cardinality(Counted') \in Nat
  BY <1>1, CountedFinite, Zenon
<1>3. OfMain \in Nat /\ OfMain' \in Nat
  BY DEF OfMain
<1>4. OfRecovery \in Nat /\ OfRecovery' \in Nat
  BY DEF OfRecovery
<1> QED
  BY <1>2, <1>3, <1>4, Zenon

\* The steps of amdgpu_gpu_reset: the count is exact again when it begins at 0, and the job
\* that is run again is counted until its callback is installed.
LEMMA ResetCounts ==
    ASSUME ~unfinished', ListFree', ResetInv, CountInv, NEW t \in ResetThreads, Reset(t)
    PROVE  CountInv'
<1>0. hw_rq_count \in Int
  BY CountTypes DEF CountInv
<1>1. ResetTypes /\ ThreadInv /\ MirrorInv /\ MainInv /\ RecoveryInv
  BY Zenon DEF ResetInv, JobsInv
<1>2. OfMain' = OfMain
  BY Zenon DEF Reset, ResetCheck, ResetPark, HwJobReset, HwJobOops, AsicReset, ResumeFails,
               RecoveryStart, RecoveryRun, RecoveryInstall, ResetUnpark, OfMain
<1>c. CASE ResetCheck(t)
  <2>1. reset[t].at = "check" /\ UNCHANGED <<hw_rq_count, cb>>
    BY <1>c, Zenon DEF ResetCheck, At
  <2>3. OfRecovery' = OfRecovery
    <3>1. CASE Go(t, "park")
      <4>1. PICK d, j, n : Moved(t, "park", d, j, n)
        BY <1>1, <3>1, GoMoves, Zenon DEF Places
      <4>2. "park" # "reinstall" /\ reset[t].at # "reinstall"
        BY <2>1, Zenon
      <4> QED
        BY <4>1, <4>2, ReinstallingAside, Zenon
    <3>2. CASE reset' = [reset EXCEPT ![t] = NoReset]
      <4>1. PICK d, j, n : Moved(t, "no", d, j, n)
        BY <1>1, <3>2, SetMoves, NoResetRec, Zenon
      <4>2. "no" # "reinstall" /\ reset[t].at # "reinstall"
        BY <2>1, Zenon
      <4> QED
        BY <4>1, <4>2, ReinstallingAside, Zenon
    <3> QED
      BY <1>c, <3>1, <3>2, Zenon DEF ResetCheck
  <2> QED
    BY <1>2, <2>1, <2>3, Zenon DEF CountInv, Counted
<1>o. CASE HwJobOops(t)
  <2>1. Go(t, "oops")
    BY <1>o, Zenon DEF HwJobOops
  <2>2. reset'[t].at = "oops"
    BY <1>1, <2>1, GoMoves, Zenon DEF Moved, Places
  <2> QED
    BY <2>2, Zenon DEF ListFree
<1>n. SUFFICES ASSUME ~ResetCheck(t), ~HwJobOops(t) PROVE CountInv'
  BY <1>c, <1>o, Zenon
<1>r. Resetting(t)
  BY <1>n, Zenon DEF Reset, ResetPark, HwJobReset, AsicReset, ResumeFails, RecoveryStart,
                     RecoveryRun, RecoveryInstall, ResetUnpark, At, Resetting
<1>3. OfRecovery = IF reset[t].at = "reinstall" THEN 1 ELSE 0
  BY <1>1, <1>r, ReinstallingAt, Zenon DEF OfRecovery
<1>4. ASSUME NEW a, NEW d, NEW j, NEW n, Moved(t, a, d, j, n)
      PROVE  OfRecovery' = IF a = "reinstall" THEN 1 ELSE 0
  <2>1. Reinstalling' <=> a = "reinstall"
    BY <1>1, <1>r, <1>4, ReinstallingMoves, SMTT(60)
  <2> QED
    BY <2>1, Zenon DEF OfRecovery
<1>5. ASSUME NEW s \in Places, s # "reinstall", Go(t, s) PROVE OfRecovery' = 0
  BY <1>1, <1>4, <1>5, GoMoves, Zenon
<1>6. ASSUME reset' = [reset EXCEPT ![t] = NoReset] PROVE OfRecovery' = 0
  BY <1>1, <1>4, <1>6, SetMoves, NoResetRec, Zenon
<1>7. /\ \A s \in {"park", "parking", "asic", "recovery", "unpark"} :
            s \in Places /\ s # "reinstall"
      /\ \A n : RecoveryPlace(n) # "reinstall"
  BY Zenon DEF Places, RecoveryPlace
<1>8. CASE ResetPark(t) \/ AsicReset(t) \/ ResumeFails(t) \/ RecoveryStart(t) \/ ResetUnpark(t)
  <2>1. OfRecovery = 0
    BY <1>3, <1>8, Zenon DEF ResetPark, AsicReset, ResumeFails, RecoveryStart, ResetUnpark, At
  <2>2. OfRecovery' = 0
    <3>1. CASE RecoveryStart(t)
      <4>1. PICK f : f = First
        BY Zenon
      <4>2. Moved(t, RecoveryPlace(f), reset[t].tdrJob, f, RecoveryTmp(f))
        BY <1>1, <3>1, <4>1, RecoveryStartMoves, Zenon
      <4>3. PICK a : a = RecoveryPlace(f)
        BY Zenon
      <4>4. a # "reinstall" /\ Moved(t, a, reset[t].tdrJob, f, RecoveryTmp(f))
        BY <1>7, <4>2, <4>3, Zenon
      <4>5. OfRecovery' = IF a = "reinstall" THEN 1 ELSE 0
        BY <1>4, <4>4, Zenon
      <4> QED
        BY <4>4, <4>5, Zenon
    <3>2. CASE ResetUnpark(t)
      BY <1>6, <3>2, Zenon DEF ResetUnpark
    <3>3. CASE ResetPark(t) \/ AsicReset(t) \/ ResumeFails(t)
      BY <1>5, <1>7, <3>3, Zenon DEF ResetPark, AsicReset, ResumeFails
    <3> QED
      BY <1>8, <3>1, <3>2, <3>3, Zenon
  <2>3. UNCHANGED <<hw_rq_count, cb>>
    BY <1>8, Zenon DEF ResetPark, AsicReset, ResumeFails, RecoveryStart, ResetUnpark
  <2> QED
    BY <1>2, <2>1, <2>2, <2>3, Zenon DEF CountInv, Counted
<1>9. CASE HwJobReset(t)
  <2>1. OfMain' = 0
    BY <1>2, <1>9, Zenon DEF HwJobReset, Parked, OfMain
  <2>2. OfRecovery' = 0
    BY <1>5, <1>7, <1>9, Zenon DEF HwJobReset
  <2>3. Counted' = {}
    BY <1>1, <1>9, ResetJobs, Zenon DEF Counted
  <2>4. Cardinality(Counted') = 0
    BY <2>3, FS_EmptySet, Zenon
  <2>5. hw_rq_count' = 0
    BY <1>9, Zenon DEF HwJobReset, ResetCount
  <2> QED
    BY <2>1, <2>2, <2>4, <2>5, SMTT(60) DEF CountInv
<1>10. CASE RecoveryRun(t)
  <2>1. OfRecovery = 0 /\ OfRecovery' = 1
    BY <1>1, <1>3, <1>4, <1>10, RecoveryRunMoves, Zenon DEF RecoveryRun, At
  <2>2. Counted' = Counted /\ hw_rq_count' = hw_rq_count + 1
    BY <1>10, Zenon DEF RecoveryRun, Recount, Counted
  <2> QED
    BY <1>0, <1>2, <2>1, <2>2, CountTypes, SMTT(60) DEF CountInv
<1>11. CASE RecoveryInstall(t)
  <2>1. OfRecovery = 1 /\ OfRecovery' = 0
    BY <1>1, <1>3, <1>4, <1>7, <1>11, RecoveryInstallMoves, ZenonT(60) DEF RecoveryInstall, At
  <2>2. reset[t].job \in Jobs /\ cb[reset[t].job] = None
    BY <1>1, <1>11, RecoveredJob, Zenon DEF RecoveryInstall, At, Waiting
  <2>3. reset[t].fence \in Nat
    <3>1. reset[t] \in ResetRecords
      BY <1>1, Zenon DEF ResetTypes
    <3> QED
      BY <3>1 DEF ResetRecords
  <2>4. /\ hw_rq_count' - Cardinality(Counted') = hw_rq_count - Cardinality(Counted) - 1
        /\ hw_rq_count' \in Int
    BY <1>0, <1>1, <1>11, <2>2, <2>3, InstallCounts, ZenonT(60) DEF RecoveryInstall
  <2> QED
    BY <1>0, <1>2, <2>1, <2>4, CountTypes, SMTT(60) DEF CountInv
<1> QED
  BY <1>n, <1>8, <1>9, <1>10, <1>11, Zenon DEF Reset

\* Every step keeps the count exact: a job that is run is counted before its callback is
\* there, a callback lowers the count once, and a reset starts again from 0 with no callback
\* left and with the main thread parked.
LEMMA CountStep ==
    ASSUME ~unfinished', ListFree', ResetInv, CountInv, [Next]_vars
    PROVE  CountInv'
<1>0. hw_rq_count \in Int
  BY CountTypes DEF CountInv
<1>1. ResetTypes /\ ThreadInv /\ MirrorInv /\ MainInv /\ RecoveryInv
  BY Zenon DEF ResetInv, JobsInv
<1>2. CASE UNCHANGED <<hw_rq_count, cb>> /\ OfMain' = OfMain /\ OfRecovery' = OfRecovery
  BY <1>2, Zenon DEF CountInv, Counted
<1>3. ASSUME UNCHANGED reset PROVE OfRecovery' = OfRecovery
  BY <1>3, Zenon DEF OfRecovery, Reinstalling
<1>4. ASSUME UNCHANGED main PROVE OfMain' = OfMain
  BY <1>4, Zenon DEF OfMain
<1>5. CASE MainBegin
  <2>1. OfMain = 0 /\ OfMain' = 1
    BY <1>5, Zenon DEF MainBegin, OfMain
  <2>2. OfRecovery' = OfRecovery /\ Counted' = Counted /\ hw_rq_count' = hw_rq_count + 1
    BY <1>3, <1>5, Zenon DEF MainBegin, Counted
  <2> QED
    BY <1>0, <2>1, <2>2, CountTypes, SMTT(60) DEF CountInv
<1>6. CASE MainRun \/ MainPark \/ MainUnpark
  <2>1. OfMain' = OfMain
    BY <1>6, Zenon DEF MainRun, MainPark, MainUnpark, OfMain
  <2> QED
    BY <1>2, <1>3, <1>6, <2>1, Zenon DEF MainRun, MainPark, MainUnpark
<1>7. CASE MainInstall
  <2>1. OfMain = 1 /\ OfMain' = 0
    BY <1>7, Zenon DEF MainInstall, OfMain
  <2>2. cur \in Jobs /\ cb[cur] = None /\ fresh \in Nat
    BY <1>1, <1>7, MainJob, Zenon DEF MainInstall, Waiting, ResetTypes
  <2>3. /\ hw_rq_count' - Cardinality(Counted') = hw_rq_count - Cardinality(Counted) - 1
        /\ hw_rq_count' \in Int
    BY <1>0, <1>1, <1>7, <2>2, InstallCounts, ZenonT(60) DEF MainInstall
  <2>4. OfRecovery' = OfRecovery
    BY <1>3, <1>7, Zenon DEF MainInstall
  <2> QED
    BY <1>0, <2>1, <2>3, <2>4, CountTypes, SMTT(60) DEF CountInv
<1>8. CASE GpuPass
  <2>1. /\ hw_rq_count' - Cardinality(Counted') = hw_rq_count - Cardinality(Counted)
        /\ hw_rq_count' \in Int
    BY <1>0, <1>1, <1>8, PassCounts, Zenon
  <2>2. OfRecovery' = OfRecovery /\ OfMain' = OfMain
    BY <1>3, <1>4, <1>8, Zenon DEF GpuPass
  <2> QED
    BY <1>0, <2>1, <2>2, CountTypes, SMTT(60) DEF CountInv
<1>9. CASE GpuHang \/ \E j \in Jobs : FinishWork(j)
  BY <1>2, <1>3, <1>4, <1>9, Zenon DEF GpuHang, FinishWork, FinishDel, FinishFree
<1>10. CASE (\E j \in Jobs : TdrFire(j)) \/ OtherReset
  <2>2. \E t \in ResetThreads : reset[t].at = "no" /\ \E d, j, n : Moved(t, "check", d, j, n)
    <3>1. CASE OtherReset
      <4>1. "other" \in ResetThreads /\ Go("other", "check") /\ reset["other"].at = "no"
        BY <3>1, Zenon DEF OtherReset, MayReset, Go
      <4>2. "check" \in Places
        BY Zenon DEF Places
      <4> QED
        BY <1>1, <4>1, <4>2, GoMoves, Zenon
    <3>2. CASE \E j \in Jobs : TdrFire(j)
      <4>1. PICK j \in Jobs : TdrFire(j)
        BY <3>2, Zenon
      <4>2. /\ "tdr" \in ResetThreads /\ Moved("tdr", "check", j, None, None)
            /\ reset["tdr"].at = "no"
        BY <1>1, <4>1, TdrFireMoves, Zenon DEF TdrFire, MayReset
      <4> QED
        BY <4>2, Zenon
    <3> QED
      BY <1>10, <3>1, <3>2, Zenon
  <2>4. OfRecovery' = OfRecovery
    <3>1. "check" # "reinstall" /\ "no" # "reinstall"
      BY Zenon
    <3> QED
      BY <2>2, <3>1, ReinstallingAside, Zenon
  <2> QED
    BY <1>2, <1>4, <1>10, <2>4, Zenon DEF TdrFire, OtherReset
<1>11. ASSUME NEW t \in ResetThreads, Reset(t) PROVE CountInv'
  BY <1>11, ResetCounts, Zenon
<1>12. CASE UNCHANGED vars
  BY <1>2, <1>3, <1>4, <1>12, Zenon DEF vars
<1> QED
  BY <1>5, <1>6, <1>7, <1>8, <1>9, <1>10, <1>11, <1>12, ZenonT(60) DEF Next, Main

\* The inductive invariant of the count.
SoundCount == ~overlap /\ ~unfinished /\ ListFree => CountInv

\* The count of hardware submissions is exact through hangs and resets: it is the number of
\* callbacks that will lower it (amd_sched_process_job), plus the job that the main thread or
\* amd_sched_job_recovery has counted and whose callback is not installed yet; until two
\* resets overlap, or one meets a listed job that has signaled or dies for one without a fence.
THEOREM CountExactHolds == Spec => []CountExact
<1>1. Init => SoundCount
  <2> SUFFICES ASSUME Init PROVE CountInv
    BY Zenon DEF SoundCount
  <2>1. hw_rq_count = 0 /\ OfMain = 0
    BY Zenon DEF Init, OfMain
  <2>2. Counted = {}
    BY Zenon DEF Init, Counted
  <2>3. ~Reinstalling
    BY NoResetRec, Zenon DEF Init, Reinstalling
  <2>4. Cardinality(Counted) = 0 /\ OfRecovery = 0
    BY <2>2, <2>3, FS_EmptySet, Zenon DEF OfRecovery
  <2> QED
    BY <2>1, <2>4 DEF CountInv
<1>2. SoundReset /\ SoundCount /\ [Next]_vars => SoundCount'
  <2> SUFFICES ASSUME SoundReset, SoundCount, [Next]_vars, ~overlap', ~unfinished', ListFree'
               PROVE  CountInv'
    BY Zenon DEF SoundCount
  <2>1. ResetInv /\ ResetTypes
    BY HistoryStep, Zenon DEF SoundReset, ResetInv
  <2>2. CountInv
    BY <2>1, HistoryStep, OopsStays, Zenon DEF SoundCount
  <2> QED
    BY <2>1, <2>2, CountStep, Zenon
<1>3. SoundReset /\ SoundCount => CountExact
  <2> SUFFICES ASSUME SoundReset, SoundCount, ~overlap, ~unfinished, ListFree PROVE CountExact
    BY Zenon DEF CountExact
  <2>1. ThreadInv /\ CountInv
    BY Zenon DEF SoundReset, SoundCount, ResetInv
  <2> QED
    BY <2>1, CountIs, Zenon DEF CountInv
<1> QED
  BY <1>1, <1>2, <1>3, ResetInvHolds, PTL DEF Spec
=============================================================================
