------------------------- MODULE GpuSchedulerProofs -------------------------
(***************************************************************************)
(* Proofs about GpuScheduler for every set of entities, jobs and fences    *)
(* and every value of the other constants.  First the entities and the run *)
(* queues; then the life of a job from its submission to ops->free_job:    *)
(* what the job queues, the ring, the callbacks, the mirror list and the   *)
(* timers have to do with each other, how many jobs are on the ring, and   *)
(* which step of JobService each action is.                                *)
(***************************************************************************)
EXTENDS GpuScheduler, TLAPS

-----------------------------------------------------------------------------
(* Sequences: the queues of the scheduler *)

\* A sequence with one more element.
LEMMA SeqAppend ==
    ASSUME NEW S, NEW s \in Seq(S), NEW x \in S
    PROVE  /\ Append(s, x) \in Seq(S) /\ Len(Append(s, x)) = Len(s) + 1
           /\ \A i \in 1..Len(s) : Append(s, x)[i] = s[i]
           /\ Append(s, x)[Len(s) + 1] = x
OBVIOUS

-----------------------------------------------------------------------------
(* Sequences *)

\* list_del_init leaves a list of the same elements or of all but one
LEMMA ListDelType ==
    ASSUME NEW S, NEW s \in Seq(S), NEW x
    PROVE  ListDel(s, x) \in Seq(S)
<1>1. CASE x \notin Elems(s)
  BY <1>1, Zenon DEF ListDel
<1>2. CASE x \in Elems(s)
  <2> DEFINE at == CHOOSE i \in DOMAIN s : s[i] = x
             t == [i \in 1..(Len(s) - 1) |-> IF i < at THEN s[i] ELSE s[i + 1]]
  <2>1. at \in 1..Len(s)
    BY <1>2 DEF Elems
  <2>2. Len(s) - 1 \in Nat
    BY <2>1
  <2>3. t \in Seq(S)
    BY <2>1, <2>2
  <2> QED
    BY <1>2, <2>3, Zenon DEF ListDel
<1> QED
  BY <1>1, <1>2, Zenon

\* list_del_init takes one element out of a list without repetitions
LEMMA ListDelFacts ==
    ASSUME NEW S, NEW s \in Seq(S), NEW x, \A i, k \in DOMAIN s : s[i] = s[k] => i = k,
           NEW d, d = ListDel(s, x)
    PROVE  /\ d \in Seq(S)
           /\ \A i \in DOMAIN d : d[i] # x /\ \E k \in DOMAIN s : d[i] = s[k]
           /\ \A i, k \in DOMAIN d : d[i] = d[k] => i = k
           /\ \A k \in DOMAIN s : s[k] # x => \E i \in DOMAIN d : d[i] = s[k]
<1>1. CASE x \notin Elems(s)
  BY <1>1, Zenon DEF ListDel, Elems
<1>2. CASE x \in Elems(s)
  <2>1. PICK a : a = CHOOSE i \in DOMAIN s : s[i] = x
    BY Zenon
  <2>2. PICK n \in Nat : n = Len(s) /\ DOMAIN s = 1..n
    OBVIOUS
  <2>3. a \in 1..n /\ s[a] = x
    BY <1>2, <2>1, <2>2, Zenon DEF Elems
  <2>4. d = [i \in 1..(n - 1) |-> IF i < a THEN s[i] ELSE s[i + 1]]
    BY <1>2, <2>1, <2>2, Zenon DEF ListDel
  <2>5. DOMAIN d = 1..(n - 1) /\ \A i \in 1..(n - 1) : d[i] = IF i < a THEN s[i] ELSE s[i + 1]
    BY <2>4, Zenon
  <2>6. d \in Seq(S)
    BY <2>4, <2>2, <2>3, ListDelType
  <2>7. ASSUME NEW i \in DOMAIN d
        PROVE  \E k \in DOMAIN s : d[i] = s[k] /\ k # a /\ k = IF i < a THEN i ELSE i + 1
    BY <2>2, <2>3, <2>5
  <2>8. ASSUME NEW i \in DOMAIN d PROVE d[i] # x /\ \E k \in DOMAIN s : d[i] = s[k]
    BY <2>2, <2>3, <2>7, Zenon
  <2>9. ASSUME NEW i \in DOMAIN d, NEW k \in DOMAIN d, d[i] = d[k] PROVE i = k
    <3>1. PICK g \in DOMAIN s : d[i] = s[g] /\ g = IF i < a THEN i ELSE i + 1
      BY <2>7, Zenon
    <3>2. PICK h \in DOMAIN s : d[k] = s[h] /\ h = IF k < a THEN k ELSE k + 1
      BY <2>7, Zenon
    <3>3. g = h
      BY <2>9, <3>1, <3>2, Zenon
    <3> QED
      BY <2>3, <2>5, <3>1, <3>2, <3>3
  <2>10. ASSUME NEW k \in DOMAIN s, s[k] # x PROVE \E i \in DOMAIN d : d[i] = s[k]
    <3>1. CASE k < a
      BY <2>2, <2>3, <2>5, <3>1
    <3>2. CASE k > a
      <4>1. k - 1 \in 1..(n - 1) /\ ~(k - 1 < a) /\ (k - 1) + 1 = k
        BY <2>2, <2>3, <3>2
      <4>2. d[k - 1] = s[k]
        BY <2>5, <4>1, Zenon
      <4> QED
        BY <2>5, <4>1, <4>2, Zenon
    <3> QED
      BY <2>2, <2>3, <2>10, <3>1, <3>2
  <2> QED
    BY <2>6, <2>8, <2>9, <2>10, Zenon
<1> QED
  BY <1>1, <1>2, Zenon

\* a list without its head: kfifo_out
LEMMA SeqTail ==
    ASSUME NEW S, NEW s \in Seq(S), s # <<>>
    PROVE  /\ Tail(s) \in Seq(S) /\ DOMAIN Tail(s) = 1..(Len(s) - 1)
           /\ \A i \in 1..(Len(s) - 1) : Tail(s)[i] = s[i + 1]
OBVIOUS

\* kfifo_in does not change which job is next
LEMMA AppendHead ==
    ASSUME NEW S, NEW s \in Seq(S), NEW x \in S, s # <<>>
    PROVE  Append(s, x) # <<>> /\ Head(Append(s, x)) = Head(s)
OBVIOUS

\* a fence is foreign, or one of the two fences of a job
LEMMA FenceCases ==
    ASSUME NEW f \in Fences
    PROVE  \/ f[1] = "ext" /\ f[2] \in ExtFences
           \/ f[1] \in {"scheduled", "finished"} /\ f[2] \in Jobs
                 /\ <<"scheduled", f[2]>> \in Fences
BY Zenon DEF Fences

\* NULL is no entity, no job and no fence
LEMMA NullDistinct == NULL \notin Entities /\ NULL \notin Jobs /\ NULL \notin Fences
BY SchedSets, Zenon

-----------------------------------------------------------------------------
(* Type correctness and the lifetime of entities *)

\* where amd_sched_main uses the entity, and where it uses the job
UsesEntity == {"pop", "adddep", "inc", "begin", "run", "scheduled", "install",
               "process", "out"}
UsesJob    == UsesEntity \ {"pop", "adddep"}

\* the entity in use has a job, and that is the job in use; its callback is on no
\* fence, and a callback is only ever on the fence that is waited for
MainInv ==
    /\ pc \in UsesEntity => ent \in Entities /\ queue[ent] # <<>>
    /\ pc \in UsesJob => job = Head(queue[ent])
    /\ pc = "adddep" => dependency[ent] # NULL
    /\ pc \in UsesEntity => cb[ent] = NULL
    /\ \A e \in Entities : cb[e] # NULL => dependency[e] = cb[e]

\* an entity that is being destroyed gets no more jobs, and past the wait of
\* amd_sched_entity_fini it has none
FiniInv ==
    \A e \in Entities :
        /\ estate[e] # "live" =>
              \A j \in Jobs : EntityOf[j] = e => push[j] \in {"new", "done"}
        /\ estate[e] \in {"remove", "dead"} => queue[e] = <<>>

Inv1 == TypeOK /\ MainInv /\ FiniInv

\* what amd_sched_main works on while it uses an entity
LEMMA HeadInUse ==
    ASSUME EntityTypeOK, MainInv
    PROVE  /\ pc \in UsesEntity => Head(queue[ent]) \in Jobs
           /\ pc \in UsesJob => job \in Jobs
BY DEF EntityTypeOK, MainInv, UsesEntity, UsesJob

\* an entity's queue
LEMMA QueueSeq ==
    ASSUME EntityTypeOK, NEW e \in Entities
    PROVE  /\ Len(queue[e]) \in Nat /\ DOMAIN queue[e] = 1..Len(queue[e])
           /\ \A i \in DOMAIN queue[e] : queue[e][i] \in Jobs
           /\ queue[e] # <<>> => 1 \in DOMAIN queue[e] /\ Head(queue[e]) = queue[e][1]
BY DEF EntityTypeOK

\* what amd_sched_init and amd_sched_entity_init set up satisfies the invariant
LEMMA InitInv1 == Init => Inv1
<1> SUFFICES ASSUME Init PROVE Inv1
  BY Zenon
<1> USE SchedSets DEF Init
<1>1. EntityTypeOK
  BY DEF EntityTypeOK, EntityStates, Priorities
<1>2. MainTypeOK
  BY DEF MainTypeOK, MainStates, Priorities
<1>3. JobTypeOK
  BY DEF JobTypeOK, PushStates, HwStates, ProcStates, FinishStates
<1>4. FlagTypeOK
  BY Zenon DEF FlagTypeOK
<1>5. MainInv /\ FiniInv
  BY Zenon DEF MainInv, FiniInv, UsesEntity, UsesJob
<1> QED
  BY <1>1, <1>2, <1>3, <1>4, <1>5, Zenon DEF Inv1, TypeOK

USE DEF entityVars, rqVars, mainVars, parkVars, fenceVars, hwVars, tdrVars

\* no step of a thread or callback takes entities and run queues out of their types
LEMMA EntityTypeStep == Inv1 /\ [Next]_vars => EntityTypeOK'
<1> SUFFICES ASSUME Inv1, [Next]_vars PROVE EntityTypeOK'
  BY Zenon
<1> USE DEF Inv1, TypeOK, EntityTypeOK, EntityStates
<1>1. CASE SchedMain
  <2>1. CASE MainSelect
    <3>1. UNCHANGED <<queue, dependency, cb, estate, waking, rq>>
      BY <2>1, Zenon DEF MainSelect
    <3>2. ASSUME NEW i \in ReadyAt(rqi) PROVE rq[rqi][i] \in Entities
      BY DEF ReadyAt, MainTypeOK
    <3>3. current' \in [Priorities -> Entities \cup {NULL}]
      BY <2>1, <3>2, Zenon DEF MainSelect
    <3> QED
      BY <3>1, <3>3, Zenon
  <2>2. CASE PopJob
    <3>1. UNCHANGED <<queue, cb, estate, waking, rq, current>>
      BY <2>2, ZenonT(60) DEF PopJob
    <3>2. ent \in Entities /\ Head(queue[ent]) \in Jobs
      BY <2>2 DEF PopJob, MainInv, UsesEntity
    <3>3. sync[Head(queue[ent])] \subseteq Fences
      BY <3>2, Zenon DEF JobTypeOK
    <3>4. dependency' \in [Entities -> Fences \cup {NULL}]
      BY <2>2, <3>3, ZenonT(60) DEF PopJob
    <3> QED
      BY <3>1, <3>4, Zenon
  <2>3. CASE AddDependencyCb
    <3>1. UNCHANGED <<queue, estate, waking, rq, current>>
      BY <2>3, Zenon DEF AddDependencyCb
    <3>2. ent \in Entities /\ dependency[ent] \in Fences
      BY <2>3, Zenon DEF AddDependencyCb, MainInv, UsesEntity
    <3> DEFINE w == IF dependency[ent][1] = "ext" THEN dependency[ent]
                    ELSE <<"scheduled", dependency[ent][2]>>
    <3>3. w \in Fences
      BY <3>2, FenceCases, Zenon
    <3>4. CASE OwnFence(dependency[ent])
      BY <2>3, <3>1, <3>4, Zenon DEF AddDependencyCb
    <3>5. CASE ~OwnFence(dependency[ent]) /\ ~Signaled(w)
      <4>1. /\ dependency' = [dependency EXCEPT ![ent] = w]
            /\ cb' = [cb EXCEPT ![ent] = w]
        BY <2>3, <3>5, Zenon DEF AddDependencyCb
      <4> HIDE DEF w
      <4> QED
        BY <3>1, <3>3, <4>1, Zenon
    <3>6. CASE ~OwnFence(dependency[ent]) /\ Signaled(w)
      <4>1. dependency' = [dependency EXCEPT ![ent] = w] /\ cb' = cb
        BY <2>3, <3>6, Zenon DEF AddDependencyCb
      <4> HIDE DEF w
      <4> QED
        BY <3>1, <3>3, <4>1, Zenon
    <3> QED
      BY <3>4, <3>5, <3>6, Zenon
  <2>4. CASE FenceScheduled
    BY <2>4, Zenon DEF FenceScheduled, ClearDep
  <2>5. CASE KfifoOut
    <3>1. UNCHANGED <<dependency, cb, estate, waking, rq, current>>
      BY <2>5, Zenon DEF KfifoOut
    <3>2. Tail(queue[ent]) \in Seq(Jobs)
      BY <2>5 DEF KfifoOut, MainInv, UsesEntity
    <3>3. queue' \in [Entities -> Seq(Jobs)]
      BY <2>5, <3>2, Zenon DEF KfifoOut
    <3> QED
      BY <3>1, <3>3, Zenon
  <2> QED
    BY <1>1, <2>1, <2>2, <2>3, <2>4, <2>5, ZenonT(60)
    DEF SchedMain, MainLoop, MainPrepare, MainPark, MainReady, MainSleep, MainInc,
        JobBegin, RunJob, InstallCallback, MainProcessed, WakeJobScheduled
<1>2. ASSUME NEW j \in Jobs,
             JobInit(j) \/ PushJob(j) \/ HwSignal(j) \/ ProcessJob(j)
               \/ FinishWork(j) \/ TdrExpire(j) \/ JobTimedout(j)
      PROVE  EntityTypeOK'
  <2> EntityOf[j] \in Entities /\ Prio[EntityOf[j]] \in Priorities
    BY SchedSets, Zenon
  <2>1. CASE JobInit(j)
    BY <2>1, Zenon DEF JobInit
  <2>2. CASE EntityIn(j)
    <3>1. UNCHANGED <<dependency, cb, estate, waking, rq, current>>
      BY <2>2, ZenonT(60) DEF EntityIn
    <3>2. CASE HasRoom(EntityOf[j])
      <4>1. queue' = [queue EXCEPT ![EntityOf[j]] = Append(@, j)]
        BY <2>2, <3>2, Zenon DEF EntityIn
      <4> QED
        BY <3>1, <4>1
    <3>3. CASE ~HasRoom(EntityOf[j])
      BY <2>2, <3>1, <3>3, ZenonT(60) DEF EntityIn
    <3> QED
      BY <3>2, <3>3, ZenonT(60)
  <2>3. CASE RqAddEntity(j)
    BY <2>3 DEF RqAddEntity
  <2> QED
    BY <1>2, <2>1, <2>2, <2>3, ZenonT(60)
    DEF PushJob, RqAddEntityCheck, PushWakeup, HwSignal, ProcessJob, ProcessDec,
        ProcessSignal, ProcessWake, FinishWork, JobFinish, JobFinishCancel,
        JobFinishNext, TdrExpire, JobTimedout
<1>3. ASSUME NEW e \in Entities, EntityFini(e) \/ FiniSteps(e) \/ EntityWakeup(e)
      PROVE  EntityTypeOK'
  <2>1. CASE RqRemoveEntity(e)
    <3>1. Prio[e] \in Priorities
      BY SchedSets, Zenon
    <3>2. ListDel(rq[Prio[e]], e) \in Seq(Entities)
      BY <3>1, ListDelType, Zenon
    <3>3. rq' \in [Priorities -> Seq(Entities)]
      BY <2>1, <3>2, Zenon DEF RqRemoveEntity
    <3>4. current' \in [Priorities -> Entities \cup {NULL}]
      BY <2>1, Zenon DEF RqRemoveEntity
    <3>5. estate' \in [Entities -> EntityStates]
      BY <2>1, Zenon DEF RqRemoveEntity
    <3>6. UNCHANGED <<queue, dependency, cb, waking>>
      BY <2>1, Zenon DEF RqRemoveEntity
    <3> QED
      BY <3>3, <3>4, <3>5, <3>6, Zenon
  <2>2. CASE EntityFini(e) \/ EntityFiniWait(e)
    BY <2>2, Zenon DEF EntityFini, EntityFiniWait
  <2>3. CASE EntityWakeup(e)
    BY <2>3, Zenon DEF EntityWakeup
  <2> QED
    BY <1>3, <2>1, <2>2, <2>3, Zenon DEF FiniSteps
<1>4. ASSUME NEW f \in ExtFences, ExtSignal(f) PROVE EntityTypeOK'
  BY <1>4, Zenon DEF ExtSignal, ClearDep
<1>5. CASE KthreadPark \/ KthreadUnpark \/ SchedFini
  BY <1>5, Zenon DEF KthreadPark, KthreadUnpark, SchedFini
<1>6. CASE UNCHANGED vars
  BY <1>6, Zenon DEF vars
<1> QED
  BY <1>1, <1>2, <1>3, <1>4, <1>5, <1>6, Zenon DEF Next

\* no step takes the local state of amd_sched_main out of its types
LEMMA MainTypeStep == Inv1 /\ [Next]_vars => MainTypeOK'
<1> SUFFICES ASSUME Inv1, [Next]_vars PROVE MainTypeOK'
  OBVIOUS
<1> USE DEF Inv1, TypeOK, MainTypeOK, MainStates
<1>1. CASE SchedMain
  <2>1. CASE MainLoop \/ MainPrepare \/ MainPark \/ MainSleep
    BY <2>1, ZenonT(60) DEF MainLoop, MainPrepare, MainPark, MainSleep
  <2>2. CASE MainReady
    BY <2>2 DEF MainReady, NoEntity, Priorities
  <2>3. CASE MainSelect
    <3>1. ASSUME NEW i \in ReadyAt(rqi) PROVE rq[rqi][i] \in Entities
      BY DEF ReadyAt, EntityTypeOK
    <3>2. ent' \in Entities \cup {NULL}
      BY <2>3, <3>1, Zenon DEF MainSelect
    <3>3. rqi' = rqi \/ (rqi' = rqi + 1 /\ MoreRunQueues)
      BY <2>3, Zenon DEF MainSelect
    <3>5. rqi' \in Priorities
      BY <3>3 DEF MoreRunQueues, AMD_SCHED_MAX_PRIORITY, Priorities
    <3>4. pc' \in MainStates
      BY <2>3, Zenon DEF MainSelect, NoEntity
    <3> QED
      BY <2>3, <3>2, <3>4, <3>5, ZenonT(60) DEF MainSelect
  <2>4. CASE PopJob
    <3>1. Head(queue[ent]) \in Jobs
      BY <2>4, HeadInUse, Zenon DEF PopJob, UsesEntity
    <3> QED
      BY <2>4, <3>1, Zenon DEF PopJob
  <2>5. CASE AddDependencyCb
    BY <2>5, ZenonT(60) DEF AddDependencyCb
  <2>6. CASE MainInc
    BY <2>6 DEF MainInc
  <2>7. CASE JobBegin \/ RunJob \/ FenceScheduled \/ InstallCallback
    <3>1. /\ UNCHANGED <<rqi, ent, job, hw_rq_count, parks>>
          /\ pc' \in {"run", "scheduled", "install", "out", "process"}
      BY <2>7, Zenon DEF JobBegin, RunJob, FenceScheduled, InstallCallback
    <3> QED
      BY <3>1, Zenon
  <2>8. CASE MainProcessed \/ KfifoOut \/ WakeJobScheduled
    BY <2>8, Zenon DEF MainProcessed, KfifoOut, WakeJobScheduled
  <2> QED
    BY <1>1, <2>1, <2>2, <2>3, <2>4, <2>5, <2>6, <2>7, <2>8, ZenonT(60) DEF SchedMain
<1>2. ASSUME NEW j \in Jobs,
             JobInit(j) \/ PushJob(j) \/ HwSignal(j) \/ ProcessJob(j)
               \/ FinishWork(j) \/ TdrExpire(j) \/ JobTimedout(j)
      PROVE  MainTypeOK'
  <2>1. CASE ProcessDec(j)
    BY <2>1 DEF ProcessDec
  <2>2. CASE ~ProcessDec(j)
    <3>1. UNCHANGED <<pc, rqi, ent, job, hw_rq_count, parks>>
      BY <1>2, <2>2, Zenon
      DEF JobInit, PushJob, EntityIn, RqAddEntityCheck, RqAddEntity, PushWakeup,
          HwSignal, ProcessJob, ProcessSignal, ProcessWake, FinishWork,
          JobFinish, JobFinishCancel, JobFinishNext, TdrExpire, JobTimedout
    <3> QED
      BY <3>1, ZenonT(60)
  <2> QED
    BY <2>1, <2>2, Zenon
<1>3. ASSUME NEW e \in Entities, EntityFini(e) \/ FiniSteps(e) \/ EntityWakeup(e)
      PROVE  MainTypeOK'
  <2>1. UNCHANGED <<pc, rqi, ent, job, hw_rq_count, parks>>
    BY <1>3, Zenon
    DEF EntityFini, FiniSteps, EntityFiniWait, RqRemoveEntity, EntityWakeup
  <2> QED
    BY <2>1, Zenon
<1>4. ASSUME NEW f \in ExtFences, ExtSignal(f) PROVE MainTypeOK'
  BY <1>4, Zenon DEF ExtSignal
<1>5. CASE KthreadPark \/ KthreadUnpark \/ SchedFini
  <2>1. UNCHANGED <<pc, rqi, ent, job, hw_rq_count>>
    BY <1>5, Zenon DEF KthreadPark, KthreadUnpark, SchedFini
  <2>2. parks' = parks \/ parks' = parks + 1
    BY <1>5, Zenon DEF KthreadPark, KthreadUnpark, SchedFini
  <2> QED
    BY <2>1, <2>2
<1>6. CASE UNCHANGED vars
  BY <1>6, Zenon DEF vars
<1> QED
  BY <1>1, <1>2, <1>3, <1>4, <1>5, <1>6, ZenonT(60) DEF Next

\* no step takes the flags of the scheduler thread out of their types
LEMMA FlagTypeStep == Inv1 /\ [Next]_vars => FlagTypeOK'
<1> SUFFICES ASSUME FlagTypeOK, [Next]_vars PROVE FlagTypeOK'
  BY Zenon DEF Inv1, TypeOK
<1> USE DEF FlagTypeOK
<1>1. CASE SchedMain
  <2>1. UNCHANGED <<park, stop>> /\ (woken' = woken \/ woken' = FALSE)
    BY <1>1, Zenon
    DEF SchedMain, MainLoop, MainPrepare, MainPark, MainReady, MainSelect, MainSleep,
        PopJob, AddDependencyCb, MainInc, JobBegin, RunJob, FenceScheduled,
        InstallCallback, MainProcessed, KfifoOut, WakeJobScheduled
  <2> QED
    BY <2>1, ZenonT(60)
<1>2. ASSUME NEW j \in Jobs,
             JobInit(j) \/ PushJob(j) \/ HwSignal(j) \/ ProcessJob(j)
               \/ FinishWork(j) \/ TdrExpire(j) \/ JobTimedout(j)
      PROVE  FlagTypeOK'
  <2>1. UNCHANGED <<park, stop>> /\ (woken' = woken \/ woken' = TRUE)
    BY <1>2, Zenon
    DEF JobInit, PushJob, EntityIn, RqAddEntityCheck, RqAddEntity, PushWakeup,
        SchedWakeup, HwSignal, ProcessJob, ProcessDec, ProcessSignal, ProcessWake,
        FinishWork, JobFinish, JobFinishCancel, JobFinishNext, TdrExpire, JobTimedout
  <2> QED
    BY <2>1, Zenon
<1>3. ASSUME NEW e \in Entities, EntityFini(e) \/ FiniSteps(e) \/ EntityWakeup(e)
      PROVE  FlagTypeOK'
  <2>1. UNCHANGED <<park, stop>> /\ (woken' = woken \/ woken' = TRUE)
    BY <1>3, Zenon
    DEF EntityFini, FiniSteps, EntityFiniWait, RqRemoveEntity, EntityWakeup, SchedWakeup
  <2> QED
    BY <2>1, Zenon
<1>4. ASSUME NEW f \in ExtFences, ExtSignal(f) PROVE FlagTypeOK'
  BY <1>4, Zenon DEF ExtSignal
<1>5. CASE KthreadPark \/ KthreadUnpark \/ SchedFini
  BY <1>5, Zenon DEF KthreadPark, KthreadUnpark, SchedFini
<1>6. CASE UNCHANGED vars
  BY <1>6, Zenon DEF vars
<1> QED
  BY <1>1, <1>2, <1>3, <1>4, <1>5, <1>6, Zenon DEF Next

-----------------------------------------------------------------------------
(* The jobs, the finishing of entities and the theorems *)

\* no step takes jobs, their fences, works and timers out of their types
LEMMA JobTypeStep == Inv1 /\ [Next]_vars => JobTypeOK'
<1> SUFFICES ASSUME Inv1, [Next]_vars PROVE JobTypeOK'
  OBVIOUS
<1> USE DEF Inv1, TypeOK, JobTypeOK, PushStates, HwStates, ProcStates,
        FinishStates
<1>1. CASE SchedMain
  <2> pc \in UsesJob => job \in Jobs
    BY HeadInUse, Zenon
  <2>1. CASE PopJob
    <3>1. Head(queue[ent]) \in Jobs
      BY <2>1, HeadInUse, Zenon DEF PopJob, UsesEntity
    <3> DEFINE j == Head(queue[ent])
    <3>2. sync' = [sync EXCEPT ![j] = {}]
            \/ \E f \in Fences : sync' = [sync EXCEPT ![j] = @ \ {f}]
      <4>1. sync[j] \subseteq Fences
        BY <3>1, Zenon
      <4> QED
        BY <2>1, <4>1, Zenon DEF PopJob
    <3> HIDE DEF j
    <3>3. CASE sync' = [sync EXCEPT ![j] = {}]
      BY <2>1, <3>3, Zenon DEF PopJob
    <3>4. ASSUME NEW f \in Fences, sync' = [sync EXCEPT ![j] = @ \ {f}]
          PROVE  JobTypeOK'
      BY <2>1, <3>4, ZenonT(60) DEF PopJob
    <3> QED
      BY <3>2, <3>3, <3>4, Zenon
  <2>2. CASE JobBegin
    BY <2>2 DEF JobBegin, UsesJob, UsesEntity
  <2>3. CASE RunJob
    <3>1. UNCHANGED <<push, sync, sleepers, scheduled, finished, extSignaled,
                      pcb, processing, finish, mirror, tdr, tdrRun, fired>>
      BY <2>3, Zenon DEF RunJob
    <3>2. CASE hw' = [hw EXCEPT ![job] = "emitted"] /\ ring' = Append(ring, job)
      <4>1. job \in Jobs
        BY <2>3, Zenon DEF RunJob, UsesJob, UsesEntity
      <4> QED
        BY <3>1, <3>2, <4>1
    <3>3. CASE hw' = [hw EXCEPT ![job] = "failed"] /\ ring' = ring
      BY <3>1, <3>3, Zenon
    <3> QED
      BY <2>3, <3>2, <3>3, Zenon DEF RunJob
  <2>4. CASE FenceScheduled
    BY <2>4, Zenon DEF FenceScheduled, UsesJob, UsesEntity
  <2>5. CASE InstallCallback
    BY <2>5, Zenon DEF InstallCallback, UsesJob, UsesEntity
  <2>6. CASE WakeJobScheduled
    BY <2>6, Zenon DEF WakeJobScheduled, WakeUp
  <2> QED
    BY <1>1, <2>1, <2>2, <2>3, <2>4, <2>5, <2>6, ZenonT(60)
    DEF SchedMain, MainLoop, MainPrepare, MainPark, MainReady, MainSelect, MainSleep,
        AddDependencyCb, MainInc, MainProcessed, KfifoOut
<1>2. ASSUME NEW j \in Jobs,
             JobInit(j) \/ PushJob(j) \/ HwSignal(j) \/ ProcessJob(j)
               \/ FinishWork(j) \/ TdrExpire(j) \/ JobTimedout(j)
      PROVE  JobTypeOK'
  <2>1. CASE JobInit(j)
    <3>1. Deps[j] \subseteq Fences
      BY SchedSets, Zenon
    <3>2. push' \in [Jobs -> PushStates] /\ sync' \in [Jobs -> SUBSET Fences]
      BY <2>1, <3>1, Zenon DEF JobInit
    <3> QED
      BY <2>1, <3>2, Zenon DEF JobInit
  <2>2. CASE EntityIn(j)
    BY <2>2, Zenon DEF EntityIn
  <2>3. CASE RqAddEntityCheck(j) \/ RqAddEntity(j) \/ PushWakeup(j)
    BY <2>3, ZenonT(60) DEF RqAddEntityCheck, RqAddEntity, PushWakeup
  <2>4. CASE HwSignal(j)
    BY <2>4, Zenon DEF HwSignal
  <2>5. CASE ProcessJob(j)
    <3>1. CASE ProcessDec(j)
      BY <3>1, Zenon DEF ProcessDec
    <3>2. CASE ProcessSignal(j)
      BY <3>2, Zenon DEF ProcessSignal
    <3>3. CASE ProcessWake(j)
      BY <3>3, Zenon DEF ProcessWake
    <3> QED
      BY <2>5, <3>1, <3>2, <3>3, Zenon DEF ProcessJob
  <2>6. CASE JobFinish(j)
    <3>1. ListDel(mirror, j) \in Seq(Jobs)
      BY ListDelType, Zenon
    <3>2. finish' \in [Jobs -> FinishStates]
      BY <2>6, Zenon DEF JobFinish
    <3> QED
      BY <2>6, <3>1, <3>2, Zenon DEF JobFinish
  <2>7. CASE JobFinishCancel(j)
    BY <2>7, Zenon DEF JobFinishCancel
  <2>9. CASE JobFinishNext(j)
    <3>1. mirror # <<>> => Head(mirror) \in Jobs
      OBVIOUS
    <3>2. tdr' \subseteq Jobs
      BY <2>9, <3>1, Zenon DEF JobFinishNext, QueueNextTdr
    <3> QED
      BY <2>9, <3>2, Zenon DEF JobFinishNext
  <2>8. CASE TdrExpire(j) \/ JobTimedout(j)
    BY <2>8, Zenon DEF TdrExpire, JobTimedout
  <2> QED
    BY <1>2, <2>1, <2>2, <2>3, <2>4, <2>5, <2>6, <2>7, <2>8, <2>9, ZenonT(60)
    DEF PushJob, FinishWork
<1>3. ASSUME NEW e \in Entities, EntityFini(e) \/ FiniSteps(e) \/ EntityWakeup(e)
      PROVE  JobTypeOK'
  BY <1>3, ZenonT(60) DEF EntityFini, FiniSteps, EntityFiniWait, RqRemoveEntity, EntityWakeup
<1>4. ASSUME NEW f \in ExtFences, ExtSignal(f) PROVE JobTypeOK'
  BY <1>4, Zenon DEF ExtSignal
<1>5. CASE KthreadPark \/ KthreadUnpark \/ SchedFini
  BY <1>5, Zenon DEF KthreadPark, KthreadUnpark, SchedFini
<1>6. CASE UNCHANGED vars
  BY <1>6, Zenon DEF vars
<1> QED
  BY <1>1, <1>2, <1>3, <1>4, <1>5, <1>6, ZenonT(60) DEF Next

\* pushes, callbacks and destruction leave the entity and the job that amd_sched_main
\* uses in place, and its own steps keep hold of them
LEMMA MainInvStep == Inv1 /\ [Next]_vars => MainInv'
<1> SUFFICES ASSUME Inv1, [Next]_vars PROVE MainInv'
  OBVIOUS
<1> USE SchedSets, NullDistinct
    DEF Inv1, TypeOK, MainInv, UsesEntity, UsesJob, EntityTypeOK
<1>1. CASE SchedMain
  <2>1. CASE MainLoop \/ MainPrepare \/ MainPark \/ MainSleep \/ MainReady
    BY <2>1, Zenon DEF MainLoop, MainPrepare, MainPark, MainSleep, MainReady, NoEntity
  <2>2. CASE MainSelect
    <3>1. UNCHANGED <<queue, dependency, cb>>
      BY <2>2, Zenon DEF MainSelect
    <3>2. CASE ReadyAt(rqi) = {}
      BY <2>2, <3>1, <3>2, Zenon DEF MainSelect, NoEntity
    <3>3. ASSUME NEW i \in ReadyAt(rqi), ent' = rq[rqi][i], pc' = "pop"
          PROVE  MainInv'
      <4>1. rq[rqi][i] \in Entities
        BY DEF ReadyAt, MainTypeOK
      <4>2. queue[rq[rqi][i]] # <<>> /\ dependency[rq[rqi][i]] = NULL
        BY Zenon DEF ReadyAt, IsReady
      <4>3. cb[rq[rqi][i]] = NULL
        BY <4>1, <4>2, Zenon
      <4> QED
        BY <3>1, <3>3, <4>1, <4>2, <4>3, ZenonT(60)
    <3> QED
      BY <2>2, <3>2, <3>3, Zenon DEF MainSelect
  <2>3. CASE PopJob
    <3>1. UNCHANGED <<queue, cb, ent>> /\ pc = "pop" /\ ent \in Entities
      BY <2>3, Zenon DEF PopJob
    <3>2. CASE pc' = "inc" /\ job' = Head(queue[ent])
                 /\ dependency' = [dependency EXCEPT ![ent] = NULL]
      BY <3>1, <3>2, Zenon
    <3>3. ASSUME NEW f \in Fences, pc' = "adddep",
                 dependency' = [dependency EXCEPT ![ent] = f]
          PROVE  MainInv'
      BY <3>1, <3>3, Zenon
    <3>4. Head(queue[ent]) \in Jobs
      BY <3>1, HeadInUse, Zenon
    <3>5. sync[Head(queue[ent])] \subseteq Fences
      BY <3>4, Zenon DEF JobTypeOK
    <3> QED
      BY <2>3, <3>2, <3>3, <3>5, Zenon DEF PopJob
  <2>4. CASE AddDependencyCb
    <3>1. UNCHANGED <<queue, job>> /\ pc = "adddep" /\ ent \in Entities
      BY <2>4, Zenon DEF AddDependencyCb
    <3>2. CASE UNCHANGED <<dependency, cb, ent>> /\ pc' = "pop"
      BY <3>1, <3>2, Zenon
    <3>3. ASSUME NEW w, dependency' = [dependency EXCEPT ![ent] = w],
                 cb' = [cb EXCEPT ![ent] = w], pc' = "loop"
          PROVE  MainInv'
      BY <3>1, <3>3, Zenon
    <3>4. ASSUME NEW w, dependency' = [dependency EXCEPT ![ent] = w],
                 UNCHANGED <<cb, ent>>, pc' = "pop"
          PROVE  MainInv'
      BY <3>1, <3>4, Zenon
    <3> QED
      BY <2>4, <3>2, <3>3, <3>4, Zenon DEF AddDependencyCb
  <2>5. CASE MainInc \/ JobBegin \/ RunJob \/ InstallCallback
    BY <2>5, Zenon DEF MainInc, JobBegin, RunJob, InstallCallback
  <2>6. CASE FenceScheduled
    BY <2>6, Zenon DEF FenceScheduled, ClearDep
  <2>7. CASE MainProcessed \/ KfifoOut \/ WakeJobScheduled
    BY <2>7, Zenon DEF MainProcessed, KfifoOut, WakeJobScheduled
  <2> QED
    BY <1>1, <2>1, <2>2, <2>3, <2>4, <2>5, <2>6, <2>7, ZenonT(60) DEF SchedMain
<1>2. ASSUME NEW j \in Jobs,
             JobInit(j) \/ PushJob(j) \/ HwSignal(j) \/ ProcessJob(j)
               \/ FinishWork(j) \/ TdrExpire(j) \/ JobTimedout(j)
      PROVE  MainInv'
  <2>1. CASE EntityIn(j)
    <3>1. UNCHANGED <<dependency, cb, pc, ent, job>> /\ EntityOf[j] \in Entities
      BY <2>1, Zenon DEF EntityIn
    <3>2. CASE queue' = queue
      BY <3>1, <3>2, Zenon
    <3>3. CASE queue' = [queue EXCEPT ![EntityOf[j]] = Append(@, j)]
      <4>1. ASSUME NEW e \in Entities, queue[e] # <<>>
            PROVE  queue'[e] # <<>> /\ Head(queue'[e]) = Head(queue[e])
        <5>1. queue[e] \in Seq(Jobs)
          BY Zenon
        <5>2. queue'[e] = queue[e] \/ queue'[e] = Append(queue[e], j)
          BY <3>3, Zenon
        <5>3. Append(queue[e], j) # <<>> /\ Head(Append(queue[e], j)) = Head(queue[e])
          BY <4>1, <5>1, AppendHead, ZenonT(60)
        <5> QED
          BY <4>1, <5>2, <5>3, Zenon
      <4> QED
        BY <3>1, <4>1, Zenon
    <3> QED
      BY <2>1, <3>2, <3>3, Zenon DEF EntityIn
  <2>2. CASE ~EntityIn(j)
    <3>1. UNCHANGED <<queue, dependency, cb, pc, ent, job>>
      BY <1>2, <2>2, Zenon
      DEF JobInit, PushJob, RqAddEntityCheck, RqAddEntity, PushWakeup, HwSignal,
          ProcessJob, ProcessDec, ProcessSignal, ProcessWake, FinishWork,
          JobFinish, JobFinishCancel, JobFinishNext, TdrExpire, JobTimedout
    <3> QED
      BY <3>1, Zenon
  <2> QED
    BY <2>1, <2>2, Zenon
<1>3. ASSUME NEW e \in Entities, EntityFini(e) \/ FiniSteps(e) \/ EntityWakeup(e)
      PROVE  MainInv'
  <2>1. UNCHANGED <<queue, dependency, cb, pc, ent, job>>
    BY <1>3, Zenon DEF EntityFini, FiniSteps, EntityFiniWait, RqRemoveEntity, EntityWakeup
  <2> QED
    BY <2>1, Zenon
<1>4. ASSUME NEW f \in ExtFences, ExtSignal(f) PROVE MainInv'
  <2>1. UNCHANGED <<queue, pc, ent, job>>
    BY <1>4, Zenon DEF ExtSignal
  <2>2. ASSUME NEW e \in Entities
        PROVE  /\ cb'[e] = (IF cb[e] = <<"ext", f>> THEN NULL ELSE cb[e])
               /\ dependency'[e] = (IF cb[e] = <<"ext", f>> THEN NULL ELSE dependency[e])
    BY <1>4, ZenonT(60) DEF ExtSignal, ClearDep
  <2>3. <<"ext", f>> # NULL
    BY DEF Fences
  <2> QED
    BY <2>1, <2>2, <2>3, Zenon
<1>5. CASE KthreadPark \/ KthreadUnpark \/ SchedFini
  BY <1>5, Zenon DEF KthreadPark, KthreadUnpark, SchedFini
<1>6. CASE UNCHANGED vars
  BY <1>6, Zenon DEF vars
<1> QED
  BY <1>1, <1>2, <1>3, <1>4, <1>5, <1>6, ZenonT(60) DEF Next

\* amd_sched_entity_fini gets past its wait only when the queue is empty, and an entity
\* that is being destroyed gets no new job
LEMMA FiniInvStep == Inv1 /\ [Next]_vars => FiniInv'
<1> SUFFICES ASSUME Inv1, [Next]_vars PROVE FiniInv'
  OBVIOUS
<1> USE SchedSets DEF Inv1, TypeOK, FiniInv, EntityTypeOK, JobTypeOK
<1>1. CASE SchedMain
  <2>1. CASE KfifoOut
    <3>1. UNCHANGED <<estate, push>>
      BY <2>1, Zenon DEF KfifoOut
    <3>2. ent \in Entities /\ queue[ent] # <<>>
      BY <2>1, Zenon DEF KfifoOut, MainInv, UsesEntity
    <3>3. queue' = [queue EXCEPT ![ent] = Tail(@)]
      BY <2>1, Zenon DEF KfifoOut
    <3>4. estate[ent] \notin {"remove", "dead"}
      BY <3>2, Zenon
    <3>5. \A e \in Entities : e # ent => queue'[e] = queue[e]
      BY <3>3, Zenon
    <3>6. FiniInv
      BY Zenon
    <3> HIDE DEF Inv1
    <3> QED
      BY <3>1, <3>4, <3>5, <3>6, Zenon
  <2>2. CASE ~KfifoOut
    <3>1. UNCHANGED <<estate, push, queue>>
      BY <1>1, <2>2, Zenon
      DEF SchedMain, MainLoop, MainPrepare, MainPark, MainReady, MainSelect,
          MainSleep, PopJob, AddDependencyCb, MainInc, JobBegin, RunJob,
          FenceScheduled, InstallCallback, MainProcessed, WakeJobScheduled
    <3> QED
      BY <3>1, Zenon
  <2> QED
    BY <2>1, <2>2, Zenon
<1>2. ASSUME NEW j \in Jobs,
             JobInit(j) \/ PushJob(j) \/ HwSignal(j) \/ ProcessJob(j)
               \/ FinishWork(j) \/ TdrExpire(j) \/ JobTimedout(j)
      PROVE  FiniInv'
  <2> EntityOf[j] \in Entities
    BY Zenon
  <2>1. CASE JobInit(j)
    BY <2>1, ZenonT(60) DEF JobInit
  <2>2. CASE EntityIn(j)
    <3>1. UNCHANGED estate /\ estate[EntityOf[j]] = "live"
      BY <2>2, Zenon DEF EntityIn
    <3>2. CASE UNCHANGED <<queue, push>>
      BY <3>1, <3>2, Zenon
    <3>3. CASE ~UNCHANGED <<queue, push>>
      <4>1. queue' = [queue EXCEPT ![EntityOf[j]] = Append(@, j)]
        BY <2>2, <3>3, ZenonT(60) DEF EntityIn
      <4>2. \A k \in Jobs : k # j => push'[k] = push[k]
        BY <2>2, <3>3 DEF EntityIn
      <4>3. \A e \in Entities : e # EntityOf[j] => queue'[e] = queue[e]
        BY <4>1, Zenon
      <4>4. FiniInv
        BY Zenon
      <4> HIDE DEF Inv1
      <4>5. ASSUME NEW e \in Entities, estate'[e] # "live",
                   NEW k \in Jobs, EntityOf[k] = e
            PROVE  push'[k] \in {"new", "done"}
        BY <3>1, <4>2, <4>4, <4>5, Zenon
      <4>6. ASSUME NEW e \in Entities, estate'[e] \in {"remove", "dead"}
            PROVE  queue'[e] = <<>>
        BY <3>1, <4>3, <4>4, <4>6, ZenonT(60)
      <4> QED
        BY <4>5, <4>6, Zenon
    <3> QED
      BY <3>2, <3>3, Zenon
  <2>3. CASE RqAddEntityCheck(j) \/ RqAddEntity(j) \/ PushWakeup(j)
    <3>1. UNCHANGED <<estate, queue>> /\ estate[EntityOf[j]] = "live"
      BY <2>3, Zenon DEF RqAddEntityCheck, RqAddEntity, PushWakeup
    <3>2. \A k \in Jobs : k # j => push'[k] = push[k]
      <4>1. PICK state : push' = [push EXCEPT ![j] = state]
        BY <2>3, Zenon DEF RqAddEntityCheck, RqAddEntity, PushWakeup
      <4>2. push \in [Jobs -> PushStates]
        BY Zenon DEF Inv1, TypeOK, JobTypeOK
      <4> QED
        BY <4>1, <4>2, Zenon
    <3>3. FiniInv
      OBVIOUS
    <3> HIDE DEF Inv1
    <3>4. ASSUME NEW e \in Entities, estate'[e] # "live",
                 NEW k \in Jobs, EntityOf[k] = e
          PROVE  push'[k] \in {"new", "done"}
      BY <3>1, <3>2, <3>3, <3>4, Zenon
    <3>5. ASSUME NEW e \in Entities, estate'[e] \in {"remove", "dead"}
          PROVE  queue'[e] = <<>>
      BY <3>1, <3>3, <3>5, Zenon
    <3> QED
      BY <3>4, <3>5
  <2>4. CASE ~(JobInit(j) \/ PushJob(j))
    <3>1. UNCHANGED <<estate, push, queue>>
      BY <1>2, <2>4, Zenon
      DEF HwSignal, ProcessJob, ProcessDec, ProcessSignal, ProcessWake, FinishWork,
          JobFinish, JobFinishCancel, JobFinishNext, TdrExpire, JobTimedout
    <3> QED
      BY <3>1, Zenon
  <2> QED
    BY <2>1, <2>2, <2>3, <2>4, Zenon DEF PushJob
<1>3. ASSUME NEW e \in Entities, EntityFini(e) \/ FiniSteps(e) \/ EntityWakeup(e)
      PROVE  FiniInv'
  <2>1. UNCHANGED <<queue, push>>
    BY <1>3, Zenon DEF EntityFini, FiniSteps, EntityFiniWait, RqRemoveEntity, EntityWakeup
  <2>2. CASE EntityFini(e)
    BY <2>1, <2>2, ZenonT(60) DEF EntityFini
  <2>3. CASE EntityFiniWait(e)
    <3>1. CASE UNCHANGED estate
      BY <2>1, <3>1, Zenon
    <3>2. CASE queue[e] = <<>> /\ estate[e] = "fini"
                 /\ estate' = [estate EXCEPT ![e] = "remove"]
      BY <2>1, <3>2, ZenonT(60)
    <3> QED
      BY <2>3, <3>1, <3>2, Zenon DEF EntityFiniWait, IsIdle
  <2>4. CASE RqRemoveEntity(e)
    BY <2>1, <2>4, ZenonT(60) DEF RqRemoveEntity
  <2>5. CASE EntityWakeup(e)
    BY <2>1, <2>5, Zenon DEF EntityWakeup
  <2> QED
    BY <1>3, <2>2, <2>3, <2>4, <2>5, Zenon DEF FiniSteps
<1>4. ASSUME NEW f \in ExtFences, ExtSignal(f) PROVE FiniInv'
  BY <1>4, Zenon DEF ExtSignal
<1>5. CASE KthreadPark \/ KthreadUnpark \/ SchedFini
  BY <1>5, Zenon DEF KthreadPark, KthreadUnpark, SchedFini
<1>6. CASE UNCHANGED vars
  BY <1>6, Zenon DEF vars
<1> QED
  BY <1>1, <1>2, <1>3, <1>4, <1>5, <1>6, ZenonT(60) DEF Next

\* every step preserves the invariant
LEMMA Inv1Step == Inv1 /\ [Next]_vars => Inv1'
BY EntityTypeStep, MainTypeStep, FlagTypeStep, JobTypeStep, MainInvStep, FiniInvStep, Zenon
DEF Inv1, TypeOK

\* the invariant holds in every reachable state
LEMMA Inv1Holds == Spec => []Inv1
BY InitInv1, Inv1Step, PTL DEF Spec

\* The scheduler's data keeps its types in every execution: for instance the main
\* thread never takes a job from a missing entity or an empty queue.
THEOREM TypeCorrect == Spec => []TypeOK
<1>1. Inv1 => TypeOK
  BY Zenon DEF Inv1
<1> QED
  BY <1>1, Inv1Holds, PTL

\* The entity amd_sched_main works on is never destroyed under it, although
\* amd_sched_entity_fini and amd_sched_main share no lock.
THEOREM EntityInUseHolds == Spec => []EntityInUse
<1>1. Inv1 => EntityInUse
  BY Zenon DEF Inv1, TypeOK, EntityTypeOK, EntityStates, MainInv, FiniInv, EntityInUse,
     UsesEntity, UsesJob
<1> QED
  BY <1>1, Inv1Holds, PTL

-----------------------------------------------------------------------------
(* The run queues *)

\* an entity is only in the run queue of its priority; a pusher that is about to add it
\* finds it unlisted, alone and with a job; amd_sched_main only uses a listed one
RqInv ==
    /\ \A p \in Priorities : \A i \in DOMAIN rq[p] : Prio[rq[p][i]] = p
    /\ \A j \in Jobs : push[j] = "add" => ~Listed(EntityOf[j])
    /\ \A j \in Jobs : push[j] \in {"first", "add"} /\ ~Listed(EntityOf[j]) =>
          /\ queue[EntityOf[j]] # <<>>
          /\ \A k \in Jobs : push[k] \in {"first", "add"} /\ EntityOf[k] = EntityOf[j] => k = j
    /\ pc \in UsesEntity => Listed(ent)
    /\ RunQueueSound

\* amd_sched_rq_select_entity finds an entity
Selects ==
    /\ pc = "scan" /\ pc' = "pop"
    /\ \E i \in DOMAIN rq[rqi] : /\ current' = [current EXCEPT ![rqi] = rq[rqi][i]]
                                 /\ ent' = rq[rqi][i]
    /\ UNCHANGED <<rq, push, queue, estate>>

\* the steps of the scheduler as far as run queues are concerned
LEMMA RqFrame ==
    ASSUME Inv1, [Next]_vars
    PROVE  \/ /\ UNCHANGED <<rq, current, push, queue, estate>>
              /\ pc' \in UsesEntity => pc \in UsesEntity /\ ent' = ent
           \/ Selects
           \/ KfifoOut
           \/ \E j \in Jobs : JobInit(j) \/ PushJob(j)
           \/ \E e \in Entities : EntityFini(e) \/ FiniSteps(e)
<1>1. CASE SchedMain
  <2>1. CASE MainSelect
    <3>1. CASE ReadyAt(rqi) = {}
      BY <2>1, <3>1, Zenon DEF MainSelect, NoEntity, UsesEntity
    <3>2. ASSUME NEW i \in ReadyAt(rqi),
                 current' = [current EXCEPT ![rqi] = rq[rqi][i]], ent' = rq[rqi][i], pc' = "pop"
          PROVE  Selects
      BY <2>1, <3>2, Zenon DEF MainSelect, Selects, ReadyAt
    <3> QED
      BY <2>1, <3>1, <3>2, Zenon DEF MainSelect
  <2>2. CASE AddDependencyCb \/ PopJob
    BY <2>2, Zenon DEF AddDependencyCb, PopJob, UsesEntity
  <2>3. CASE ~(MainSelect \/ AddDependencyCb \/ PopJob \/ KfifoOut)
    BY <1>1, <2>3, ZenonT(60)
    DEF SchedMain, MainLoop, MainPrepare, MainPark, MainReady, MainSleep, MainInc, JobBegin,
        RunJob, FenceScheduled, InstallCallback, MainProcessed, WakeJobScheduled, NoEntity,
        UsesEntity
  <2> QED
    BY <2>1, <2>2, <2>3, Zenon
<1>2. ASSUME NEW j \in Jobs,
             HwSignal(j) \/ ProcessJob(j) \/ FinishWork(j) \/ TdrExpire(j) \/ JobTimedout(j)
      PROVE  UNCHANGED <<rq, current, push, queue, estate, pc, ent>>
  BY <1>2, Zenon
  DEF HwSignal, ProcessJob, ProcessDec, ProcessSignal, ProcessWake, FinishWork, JobFinish,
      JobFinishCancel, JobFinishNext, TdrExpire, JobTimedout
<1>3. ASSUME NEW e \in Entities, EntityWakeup(e)
      PROVE  UNCHANGED <<rq, current, push, queue, estate, pc, ent>>
  BY <1>3, Zenon DEF EntityWakeup
<1>4. ASSUME NEW f \in ExtFences, ExtSignal(f)
      PROVE  UNCHANGED <<rq, current, push, queue, estate, pc, ent>>
  BY <1>4, Zenon DEF ExtSignal
<1>5. CASE KthreadPark \/ KthreadUnpark \/ SchedFini
  BY <1>5, Zenon DEF KthreadPark, KthreadUnpark, SchedFini
<1>6. CASE UNCHANGED vars
  BY <1>6, Zenon DEF vars
<1> QED
  BY <1>1, <1>2, <1>3, <1>4, <1>5, <1>6, ZenonT(60) DEF Next

\* the steps keep the run queues as the invariant says: amd_sched_rq_add_entity tests
\* list_empty without the lock, but only the pusher that found the queue empty gets there
LEMMA RqStep == Inv1 /\ RqInv /\ [Next]_vars => RqInv'
<1> SUFFICES ASSUME Inv1, RqInv, [Next]_vars PROVE RqInv'
  BY ZenonT(60)
<1>t. /\ EntityTypeOK /\ MainTypeOK /\ FiniInv /\ RunQueueSound
      /\ EntityOf \in [Jobs -> Entities] /\ Prio \in [Entities -> Priorities]
      /\ push \in [Jobs -> PushStates] /\ rq \in [Priorities -> Seq(Entities)]
      /\ current \in [Priorities -> Entities \cup {NULL}]
      /\ estate \in [Entities -> EntityStates] /\ NULL \notin Entities
      /\ \A p \in Priorities : \A i \in DOMAIN rq[p] : rq[p][i] \in Entities
      /\ pc \in UsesEntity => ent \in Entities
  BY SchedSets, NullDistinct DEF Inv1, TypeOK, EntityTypeOK, JobTypeOK, RqInv, MainInv
<1>1. ASSUME UNCHANGED <<rq, current, push, queue>>,
             \A e \in Entities : estate'[e] = "dead" => estate[e] = "dead",
             pc' \in UsesEntity => pc \in UsesEntity /\ ent' = ent
      PROVE  RqInv'
  <2>1. \A e \in Entities : Listed(e)' <=> Listed(e)
    BY <1>1, ZenonT(60) DEF Listed, Elems
  <2>2. RunQueueSound'
    BY <1>t, <1>1, <2>1, SMTT(60) DEF RunQueueSound, Elems
  <2> QED
    BY <1>t, <1>1, <2>1, <2>2, Zenon DEF RqInv
<1>2. CASE Selects
  <2>1. PICK i \in DOMAIN rq[rqi] : /\ current' = [current EXCEPT ![rqi] = rq[rqi][i]]
                                    /\ ent' = rq[rqi][i]
    BY <1>2, Zenon DEF Selects
  <2>2. UNCHANGED <<rq, push, queue, estate>>
    BY <1>2, Zenon DEF Selects
  <2>3. rqi \in Priorities /\ Prio[rq[rqi][i]] = rqi
    BY <1>t, <2>1, Zenon DEF MainTypeOK, RqInv
  <2>4. \A p \in Priorities : current'[p] # NULL => current'[p] \in Elems(rq[p])
    BY <1>t, <2>1, <2>3, ZenonT(60) DEF RunQueueSound, Elems
  <2>5. Listed(ent')
    BY <2>1, <2>3, Zenon DEF Listed, Elems
  <2>6. RunQueueSound'
    BY <1>t, <2>2, <2>4 DEF RunQueueSound, Listed, Elems
  <2> QED
    BY <1>t, <2>2, <2>5, <2>6 DEF RqInv, Listed, Elems
<1>3. CASE KfifoOut
  <2>1. /\ pc = "out" /\ pc' = "wakeup" /\ UNCHANGED <<rq, current, push, estate>>
        /\ queue' = [queue EXCEPT ![ent] = Tail(@)]
    BY <1>3, Zenon DEF KfifoOut
  <2>2. ent \in Entities /\ Listed(ent)
    BY <2>1, Zenon DEF Inv1, MainInv, RqInv, UsesEntity
  <2>3. \A e \in Entities : e # ent => queue'[e] = queue[e]
    BY <1>t, <2>1, Zenon DEF EntityTypeOK
  <2>4. \A e \in Entities : Listed(e)' <=> Listed(e)
    BY <2>1, ZenonT(60) DEF Listed, Elems
  <2>5. RunQueueSound'
    BY <1>t, <2>1, <2>2, <2>3, <2>4 DEF RunQueueSound, Elems
  <2> QED
    BY <1>t, <2>1, <2>2, <2>3, <2>4, <2>5, ZenonT(60) DEF RqInv, UsesEntity
<1>4. ASSUME NEW j \in Jobs, JobInit(j) \/ PushJob(j) PROVE RqInv'
  <2>d. PICK E \in Entities : E = EntityOf[j]
    BY <1>t, Zenon
  <2>e. Prio[E] \in Priorities
    BY <1>t, Zenon
  <2>1. CASE JobInit(j) \/ PushWakeup(j)
    <3>1. /\ push[j] \in {"new", "wake"} /\ UNCHANGED <<rq, current, queue, estate, pc, ent>>
          /\ \E s \in {"init", "done"} : push' = [push EXCEPT ![j] = s]
      BY <2>1, Zenon DEF JobInit, PushWakeup
    <3>2. /\ push'[j] \notin {"first", "add"} /\ push[j] \notin {"first", "add"}
          /\ \A k \in Jobs \ {j} : push'[k] = push[k]
      BY <1>t, <3>1, Zenon
    <3>3. \A e \in Entities : Listed(e)' <=> Listed(e)
      BY <3>1, ZenonT(60) DEF Listed, Elems
    <3>4. RunQueueSound'
      BY <1>t, <3>1, <3>2, <3>3 DEF RunQueueSound, Elems
    <3> QED
      BY <1>t, <3>1, <3>2, <3>3, <3>4, Zenon DEF RqInv
  <2>2. CASE EntityIn(j)
    <3>1. /\ push[j] = "init" /\ UNCHANGED <<rq, current, estate, pc, ent>>
          /\ \/ UNCHANGED <<queue, push>>
             \/ /\ queue' = [queue EXCEPT ![E] = Append(@, j)]
                /\ push' = [push EXCEPT ![j] = IF queue[E] = <<>> THEN "first" ELSE "done"]
      BY <2>d, <2>2, Zenon DEF EntityIn
    <3>2. CASE UNCHANGED <<queue, push>>
      BY <1>1, <3>1, <3>2, Zenon
    <3>3. CASE ~UNCHANGED <<queue, push>>
      <4>1. /\ push'[j] = IF queue[E] = <<>> THEN "first" ELSE "done"
            /\ \A k \in Jobs \ {j} : push'[k] = push[k]
        BY <1>t, <3>1, <3>3, Zenon
      <4>2. queue'[E] # <<>> /\ \A e \in Entities \ {E} : queue'[e] = queue[e]
        <5>1. PICK q \in Seq(Jobs) : q = queue[E]
          BY <1>t, Zenon DEF EntityTypeOK
        <5>2. Append(q, j) # <<>>
          <6>1. PICK d \in Seq(Jobs) : d = Append(q, j) /\ Len(d) = Len(q) + 1
            BY SeqAppend, Zenon
          <6>2. Len(q) \in Nat
            OBVIOUS
          <6>3. Len(d) # 0
            BY <6>1, <6>2
          <6> QED
            BY <6>1, <6>3, Zenon
        <5> QED
          BY <1>t, <3>1, <3>3, <5>1, <5>2, ZenonT(60) DEF EntityTypeOK
      <4>3. \A e \in Entities : Listed(e)' <=> Listed(e)
        BY <3>1, Zenon DEF Listed, Elems
      <4>4. ASSUME NEW e \in Entities, queue'[e] # <<>>
            PROVE  Listed(e)' \/ \E k \in Jobs : EntityOf[k] = e /\ push'[k] \in {"first", "add"}
        <5>1. CASE queue[e] # <<>>
          BY <1>t, <3>1, <4>1, <4>3, <5>1 DEF RunQueueSound
        <5>2. CASE queue[e] = <<>>
          BY <2>d, <4>1, <4>2, <4>4, <5>2, ZenonT(60)
        <5> QED
          BY <5>1, <5>2, ZenonT(60)
      <4>5. RunQueueSound'
        BY <1>t, <3>1, <4>3, <4>4 DEF RunQueueSound, Elems
      <4>6. ASSUME NEW k \in Jobs, push'[k] \in {"first", "add"}, ~Listed(EntityOf[k])'
            PROVE  /\ queue'[EntityOf[k]] # <<>>
                   /\ \A l \in Jobs : push'[l] \in {"first", "add"} /\ EntityOf[l] = EntityOf[k] => l = k
        <5>1. CASE EntityOf[k] = E
          <6>1. push[k] \in {"first", "add"} => queue[E] # <<>>
            BY <1>t, <4>3, <4>6, <5>1, Zenon DEF RqInv
          <6>2. CASE queue[E] = <<>>
            <7>1. \A l \in Jobs : EntityOf[l] = E => push[l] \notin {"first", "add"}
              BY <1>t, <4>3, <4>6, <5>1, <6>2, ZenonT(60) DEF RqInv
            <7> QED
              BY <4>1, <4>2, <4>6, <5>1, <7>1, Zenon
          <6>3. CASE queue[E] # <<>>
            <7>1. k # j /\ push[k] \in {"first", "add"}
              BY <4>1, <4>6, <6>3, Zenon
            <7> QED
              BY <1>t, <4>1, <4>2, <4>3, <4>6, <5>1, <6>3, <7>1 DEF RqInv
          <6> QED
            BY <6>2, <6>3, Zenon
        <5>2. CASE EntityOf[k] # E
          BY <1>t, <2>d, <4>1, <4>2, <4>3, <4>6, <5>2, ZenonT(60) DEF RqInv
        <5> QED
          BY <5>1, <5>2, Zenon
      <4>7. \A k \in Jobs : push'[k] = "add" => ~Listed(EntityOf[k])'
        BY <1>t, <4>1, <4>3, Zenon DEF RqInv
      <4> QED
        BY <1>t, <3>1, <4>3, <4>5, <4>6, <4>7, ZenonT(60) DEF RqInv
    <3> QED
      BY <3>2, <3>3, Zenon
  <2>3. CASE RqAddEntityCheck(j)
    <3>1. /\ push[j] = "first" /\ UNCHANGED <<rq, current, queue, estate, pc, ent>>
          /\ push' = [push EXCEPT ![j] = IF Listed(E) THEN "wake" ELSE "add"]
      BY <2>d, <2>3, Zenon DEF RqAddEntityCheck
    <3>2. /\ push'[j] = IF Listed(E) THEN "wake" ELSE "add"
          /\ \A k \in Jobs \ {j} : push'[k] = push[k]
      BY <1>t, <3>1, Zenon
    <3>3. \A e \in Entities : Listed(e)' <=> Listed(e)
      BY <3>1, ZenonT(60) DEF Listed, Elems
    <3>4. RunQueueSound'
      BY <1>t, <2>d, <3>1, <3>2, <3>3, SMTT(60) DEF RunQueueSound, Elems
    <3>5. ASSUME NEW k \in Jobs, push'[k] \in {"first", "add"}, ~Listed(EntityOf[k])'
          PROVE  /\ queue'[EntityOf[k]] # <<>>
                 /\ \A l \in Jobs : push'[l] \in {"first", "add"} /\ EntityOf[l] = EntityOf[k] => l = k
      BY <1>t, <2>d, <3>1, <3>2, <3>3, <3>5 DEF RqInv
    <3> QED
      BY <1>t, <2>d, <3>1, <3>2, <3>3, <3>4, <3>5, Zenon DEF RqInv
  <2>4. CASE RqAddEntity(j)
    <3>1. /\ push[j] = "add" /\ UNCHANGED <<current, queue, estate, pc, ent>>
          /\ push' = [push EXCEPT ![j] = "wake"]
          /\ rq' = [rq EXCEPT ![Prio[E]] = Append(@, E)]
      BY <2>d, <2>4, Zenon DEF RqAddEntity
    <3>2. /\ push'[j] = "wake" /\ \A k \in Jobs \ {j} : push'[k] = push[k]
          /\ ~Listed(E) /\ estate[E] = "live"
      BY <1>t, <2>d, <3>1, Zenon DEF RqInv, FiniInv, EntityStates
    <3>3. PICK s \in Seq(Entities) : s = rq[Prio[E]]
      BY <1>t, <2>e, Zenon
    <3>4. PICK n \in Nat : n = Len(s) /\ DOMAIN s = 1..n
      OBVIOUS
    <3>5. PICK d : d = Append(s, E)
      BY Zenon
    <3>6. /\ DOMAIN d = 1..(n + 1) /\ d[n + 1] = E
          /\ \A i \in 1..n : d[i] = s[i]
      BY <2>e, <3>4, <3>5, SeqAppend
    <3>7. rq'[Prio[E]] = d /\ \A p \in Priorities \ {Prio[E]} : rq'[p] = rq[p]
      BY <1>t, <2>e, <3>1, <3>3, <3>5, ZenonT(60)
    <3>8. \A i \in DOMAIN s : s[i] # E
      BY <3>2, <3>3, Zenon DEF Listed, Elems
    <3>9. ASSUME NEW p \in Priorities, NEW i \in DOMAIN rq'[p]
          PROVE  \/ i \in DOMAIN rq[p] /\ rq'[p][i] = rq[p][i] /\ rq[p][i] # E
                 \/ p = Prio[E] /\ i = n + 1 /\ rq'[p][i] = E
      <4>1. CASE p = Prio[E]
        <5>1. rq'[p] = d /\ rq[p] = s /\ i \in 1..(n + 1)
          BY <3>3, <3>6, <3>7, <4>1, Zenon
        <5>2. CASE i = n + 1
          BY <3>6, <4>1, <5>1, <5>2, Zenon
        <5>3. CASE i # n + 1
          <6>1. i \in 1..n
            BY <5>1, <5>3, SMTT(60)
          <6> QED
            BY <3>4, <3>6, <3>8, <5>1, <6>1, ZenonT(60)
        <5> QED
          BY <5>2, <5>3, Zenon
      <4>2. CASE p # Prio[E]
        BY <1>t, <3>7, <4>2, SMTT(60) DEF RqInv
      <4> QED
        BY <4>1, <4>2, Zenon
    <3>10. ASSUME NEW p \in Priorities, NEW i \in DOMAIN rq[p]
           PROVE  i \in DOMAIN rq'[p] /\ rq'[p][i] = rq[p][i]
      BY <3>3, <3>4, <3>6, <3>7, SMTT(60)
    <3>11. \A e \in Entities : Listed(e)' <=> Listed(e) \/ e = E
      <4>1. n + 1 \in DOMAIN rq'[Prio[E]]
        BY <3>6, <3>7
      <4> QED
        <5>1. ASSUME NEW e \in Entities, Listed(e)' PROVE Listed(e) \/ e = E
          <6>1. PICK i \in DOMAIN rq'[Prio[e]] : rq'[Prio[e]][i] = e
            BY <5>1, Zenon DEF Listed, Elems
          <6> QED
            BY <1>t, <3>9, <6>1 DEF Listed, Elems
        <5>2. ASSUME NEW e \in Entities, Listed(e) PROVE Listed(e)'
          BY <1>t, <3>10, <5>2, Zenon DEF Listed, Elems
        <5>3. Listed(E)'
          BY <3>6, <3>7, <4>1, ZenonT(60) DEF Listed, Elems
        <5> QED
          BY <5>1, <5>2, <5>3, Zenon
    <3>12. ASSUME NEW p \in Priorities, NEW i \in DOMAIN rq'[p], NEW k \in DOMAIN rq'[p],
                  rq'[p][i] = rq'[p][k]
           PROVE  i = k
      <4>1. \/ i \in DOMAIN rq[p] /\ rq'[p][i] = rq[p][i] /\ rq[p][i] # E
            \/ i = n + 1 /\ rq'[p][i] = E
        BY <3>9, Zenon
      <4>2. \/ k \in DOMAIN rq[p] /\ rq'[p][k] = rq[p][k] /\ rq[p][k] # E
            \/ k = n + 1 /\ rq'[p][k] = E
        BY <3>9, ZenonT(60)
      <4> QED
        BY <1>t, <3>12, <4>1, <4>2, ZenonT(60) DEF RunQueueSound
    <3>13. \A p \in Priorities : current'[p] # NULL => current'[p] \in Elems(rq'[p])
      BY <1>t, <3>1, <3>10 DEF RunQueueSound, Elems
    <3>14. \A p \in Priorities : \A i \in DOMAIN rq'[p] : Prio[rq'[p][i]] = p
      BY <1>t, <3>9, Zenon DEF RqInv
    <3>15. RunQueueSound'
      <4>1. \A e \in Entities : estate'[e] = "dead" => ~Listed(e)'
        BY <1>t, <3>1, <3>2, <3>11, ZenonT(60) DEF RunQueueSound
      <4>2. \A e \in Entities : queue'[e] # <<>> =>
               Listed(e)' \/ \E k \in Jobs : EntityOf[k] = e /\ push'[k] \in {"first", "add"}
        BY <1>t, <2>d, <3>1, <3>2, <3>11 DEF RunQueueSound
      <4> QED
        BY <3>12, <3>13, <4>1, <4>2, ZenonT(60) DEF RunQueueSound
    <3>16. \A k \in Jobs : push'[k] = "add" => ~Listed(EntityOf[k])'
      BY <1>t, <2>d, <3>1, <3>2, <3>11, Zenon DEF RqInv
    <3>17. ASSUME NEW k \in Jobs, push'[k] \in {"first", "add"}, ~Listed(EntityOf[k])'
           PROVE  /\ queue'[EntityOf[k]] # <<>>
                  /\ \A l \in Jobs : push'[l] \in {"first", "add"} /\ EntityOf[l] = EntityOf[k] => l = k
      BY <1>t, <3>1, <3>2, <3>11, <3>17, Zenon DEF RqInv
    <3>18. pc' \in UsesEntity => Listed(ent)'
      <4>1. pc \in UsesEntity => ent \in Entities
        BY Zenon DEF Inv1, MainInv
      <4> QED
        BY <3>1, <3>11, <4>1, Zenon DEF RqInv
    <3> QED
      BY <3>14, <3>15, <3>16, <3>17, <3>18, Zenon DEF RqInv
  <2> QED
    BY <1>4, <2>1, <2>2, <2>3, <2>4, Zenon DEF PushJob

<1>5. ASSUME NEW E \in Entities, EntityFini(E) \/ FiniSteps(E) PROVE RqInv'
  <2>1. CASE EntityFini(E) \/ EntityFiniWait(E)
    <3>1. /\ UNCHANGED <<rq, current, push, queue, pc, ent>>
          /\ \E s \in {"fini", "remove"} : estate' = [estate EXCEPT ![E] = s] \/ estate' = estate
      BY <2>1, Zenon DEF EntityFini, EntityFiniWait
    <3>2. \A e \in Entities : estate'[e] = "dead" => estate[e] = "dead"
      BY <1>t, <3>1, Zenon
    <3> QED
      BY <1>1, <3>1, <3>2, Zenon
  <2>2. CASE RqRemoveEntity(E)
    <3>1. /\ estate[E] = "remove" /\ UNCHANGED <<push, queue, pc, ent>>
          /\ rq' = [rq EXCEPT ![Prio[E]] = ListDel(@, E)]
          /\ current' = [current EXCEPT ![Prio[E]] = IF @ = E THEN NULL ELSE @]
          /\ estate' = [estate EXCEPT ![E] = "dead"]
      BY <2>2, Zenon DEF RqRemoveEntity
    <3>2. /\ queue[E] = <<>>
          /\ \A j \in Jobs : EntityOf[j] = E => push[j] \notin {"first", "add"}
      BY <1>t, <3>1, Zenon DEF FiniInv
    <3>3. Prio[E] \in Priorities
      BY <1>t, Zenon
    <3>4. PICK s \in Seq(Entities) : s = rq[Prio[E]]
      BY <1>t, <3>3, Zenon
    <3>5. PICK d : d = ListDel(s, E)
      BY Zenon
    <3>6. \A i, k \in DOMAIN s : s[i] = s[k] => i = k
      BY <1>t, <3>3, <3>4, ZenonT(60) DEF RunQueueSound
    <3>7. /\ \A i \in DOMAIN d : d[i] # E /\ \E k \in DOMAIN s : d[i] = s[k]
          /\ \A i, k \in DOMAIN d : d[i] = d[k] => i = k
          /\ \A k \in DOMAIN s : s[k] # E => \E i \in DOMAIN d : d[i] = s[k]
      BY <3>5, <3>6, ListDelFacts
    <3>8. rq'[Prio[E]] = d /\ \A p \in Priorities \ {Prio[E]} : rq'[p] = rq[p]
      BY <1>t, <3>1, <3>3, <3>4, <3>5, ZenonT(60)
    <3>9. \A p \in Priorities : \A x \in Elems(rq'[p]) : x \in Elems(rq[p])
      BY <3>4, <3>7, <3>8, SMTT(60) DEF Elems
    <3>10. \A p \in Priorities : \A x \in Elems(rq[p]) : x # E => x \in Elems(rq'[p])
      BY <3>4, <3>7, <3>8 DEF Elems
    <3>11. \A e \in Entities : Listed(e)' <=> Listed(e) /\ e # E
      <4>1. E \notin Elems(rq'[Prio[E]])
        BY <3>7, <3>8, ZenonT(60) DEF Elems
      <4> QED
        BY <1>t, <3>9, <3>10, <4>1, Zenon DEF Listed
    <3>12. ASSUME NEW p \in Priorities, NEW i \in DOMAIN rq'[p] PROVE Prio[rq'[p][i]] = p
      <4>1. rq'[p][i] \in Elems(rq[p])
        BY <3>9, Zenon DEF Elems
      <4> QED
        BY <4>1 DEF RqInv, Elems
    <3>13. \A p \in Priorities : current'[p] # NULL => current'[p] \in Elems(rq'[p])
      <4>1. ASSUME NEW p \in Priorities, current'[p] # NULL
            PROVE  current'[p] = current[p] /\ current[p] # E
        <5>1. CASE p = Prio[E]
          BY <1>t, <3>1, <4>1, <5>1, Zenon
        <5>2. CASE p # Prio[E]
          <6>1. current'[p] = current[p]
            BY <1>t, <3>1, <3>3, <5>2, Zenon
          <6>2. current[p] \in Elems(rq[p])
            BY <1>t, <4>1, <6>1, ZenonT(60) DEF RunQueueSound
          <6>3. \A x \in Elems(rq[p]) : Prio[x] = p
            BY Zenon DEF RqInv, Elems
          <6> QED
            BY <5>2, <6>1, <6>2, <6>3, Zenon
        <5> QED
          BY <5>1, <5>2, Zenon
      <4> QED
        BY <1>t, <3>10, <4>1, Zenon DEF RunQueueSound
    <3>14. ASSUME NEW p \in Priorities, NEW i \in DOMAIN rq'[p], NEW k \in DOMAIN rq'[p],
                  rq'[p][i] = rq'[p][k]
           PROVE  i = k
      <4>1. CASE p = Prio[E]
        BY <3>7, <3>8, <3>14, <4>1, ZenonT(60)
      <4>2. CASE p # Prio[E]
        BY <1>t, <3>8, <3>14, <4>2, ZenonT(60) DEF RunQueueSound
      <4> QED
        BY <4>1, <4>2, Zenon
    <3>15. \A e \in Entities : estate'[e] = "dead" => ~Listed(e)'
      BY <1>t, <3>1, <3>11, ZenonT(60) DEF RunQueueSound
    <3>16. \A e \in Entities : queue'[e] # <<>> =>
              Listed(e)' \/ \E k \in Jobs : EntityOf[k] = e /\ push'[k] \in {"first", "add"}
      BY <1>t, <3>1, <3>2, <3>11, ZenonT(60) DEF RunQueueSound
    <3>17. RunQueueSound'
      BY <3>13, <3>14, <3>15, <3>16, ZenonT(60) DEF RunQueueSound
    <3>18. pc' \in UsesEntity => Listed(ent)'
      <4>1. pc \in UsesEntity => ent \in Entities /\ queue[ent] # <<>>
        BY Zenon DEF Inv1, MainInv
      <4> QED
        BY <3>1, <3>2, <3>11, <4>1, Zenon DEF RqInv
    <3> QED
      BY <1>t, <3>1, <3>2, <3>11, <3>12, <3>17, <3>18, ZenonT(60) DEF RqInv
  <2> QED
    BY <1>5, <2>1, <2>2, Zenon DEF FiniSteps
<1> QED
  BY <1>1, <1>2, <1>3, <1>4, <1>5, RqFrame, Zenon

\* the run queues are as the invariant says in every reachable state
LEMMA RqInvHolds == Spec => []RqInv
<1>1. ASSUME Init PROVE RqInv
  <2>1. /\ pc = "loop" /\ estate = [e \in Entities |-> "live"]
        /\ queue = [e \in Entities |-> <<>>] /\ push = [j \in Jobs |-> "new"]
        /\ rq = [p \in Priorities |-> <<>>] /\ current = [p \in Priorities |-> NULL]
    BY <1>1, Zenon DEF Init
  <2>2. /\ \A p \in Priorities : DOMAIN rq[p] = {} /\ Elems(rq[p]) = {} /\ current[p] = NULL
        /\ \A j \in Jobs : push[j] = "new"
        /\ \A e \in Entities : estate[e] = "live" /\ queue[e] = <<>>
        /\ pc \notin UsesEntity
    BY <2>1 DEF UsesEntity, Elems
  <2>3. RunQueueSound
    BY <2>1, <2>2, Zenon DEF RunQueueSound, Listed
  <2> QED
    BY <2>2, <2>3, Zenon DEF RqInv
<1> QED
  BY <1>1, Inv1Holds, RqStep, PTL DEF Spec

\* The run queues are sound in every execution, although amd_sched_rq_add_entity tests
\* membership without the lock under which it adds.
THEOREM RunQueueSoundHolds == Spec => []RunQueueSound
<1>1. RqInv => RunQueueSound
  BY Zenon DEF RqInv
<1> QED
  BY <1>1, RqInvHolds, PTL

-----------------------------------------------------------------------------
(* What a step does to the jobs *)

\* everything about jobs but their dependencies
jobVars == <<queue, push, scheduled, finished, hw, ring, pcb, processing, finish,
             mirror, tdr, tdrRun, fired>>

\* amd_sched_main has no job
Idle == {"loop", "prepare", "parked", "ready", "scan", "sleep", "pop", "adddep", "exit"}

\* amd_sched_main moves while it has no job
MainIdle == pc \in Idle /\ pc' \in Idle /\ UNCHANGED <<jobVars, job>>

\* amd_sched_entity_pop_job returns a job
TakeJob ==
    /\ pc = "pop" /\ pc' = "inc"
    /\ ent \in Entities /\ queue[ent] # <<>> /\ job' = Head(queue[ent])
    /\ UNCHANGED <<jobVars, ent>>

\* amd_sched_main goes on with its job
MainRuns == \/ TakeJob \/ MainInc \/ JobBegin \/ RunJob \/ FenceScheduled
            \/ InstallCallback \/ MainProcessed \/ KfifoOut \/ WakeJobScheduled

\* the submitter of j goes on after its job is queued
PushOn(j) ==
    /\ push[j] \in {"first", "add", "wake"}
    /\ \E s \in {"add", "wake", "done"} : push' = [push EXCEPT ![j] = s]
    /\ UNCHANGED <<queue, scheduled, finished, hw, ring, pcb, processing, finish,
                   mirror, tdr, tdrRun, fired, pc, ent, job>>

\* somebody else does something about job j
JobStep(j) == \/ JobInit(j) \/ EntityIn(j) \/ PushOn(j) \/ HwSignal(j) \/ ProcessJob(j)
              \/ FinishWork(j) \/ TdrExpire(j) \/ JobTimedout(j)

\* the steps of the scheduler as far as jobs are concerned
LEMMA JobFrame ==
    ASSUME Inv1, [Next]_vars
    PROVE  \/ UNCHANGED <<jobVars, pc, ent, job>>
           \/ MainIdle
           \/ MainRuns
           \/ \E j \in Jobs : JobStep(j)
<1>1. CASE SchedMain
  <2>1. CASE MainLoop \/ MainPrepare \/ MainPark \/ MainReady \/ MainSleep \/ AddDependencyCb
    BY <2>1, Zenon
    DEF MainLoop, MainPrepare, MainPark, MainReady, MainSleep, AddDependencyCb, NoEntity,
        MainIdle, Idle, jobVars
  <2>2. CASE MainSelect
    BY <2>2, Zenon DEF MainSelect, NoEntity, MainIdle, Idle, jobVars
  <2>3. CASE PopJob
    <3>1. ent \in Entities
      BY <2>3, Zenon DEF PopJob, Inv1, MainInv, UsesEntity
    <3> QED
      BY <2>3, <3>1, Zenon DEF PopJob, MainIdle, Idle, TakeJob, MainRuns, jobVars
  <2> QED
    BY <1>1, <2>1, <2>2, <2>3, Zenon DEF SchedMain, MainRuns
<1>2. ASSUME NEW j \in Jobs,
             JobInit(j) \/ PushJob(j) \/ HwSignal(j) \/ ProcessJob(j)
               \/ FinishWork(j) \/ TdrExpire(j) \/ JobTimedout(j)
      PROVE  JobStep(j)
  <2>1. CASE RqAddEntityCheck(j)
    <3>1. PICK s \in {"add", "wake"} : push' = [push EXCEPT ![j] = s]
      BY <2>1, Zenon DEF RqAddEntityCheck
    <3> QED
      BY <2>1, <3>1, Zenon DEF RqAddEntityCheck, PushOn, JobStep
  <2>2. CASE RqAddEntity(j)
    BY <2>2, Zenon DEF RqAddEntity, PushOn, JobStep
  <2>3. CASE PushWakeup(j)
    BY <2>3, Zenon DEF PushWakeup, PushOn, JobStep
  <2> QED
    BY <1>2, <2>1, <2>2, <2>3, Zenon DEF PushJob, JobStep
<1>3. ASSUME NEW e \in Entities, EntityFini(e) \/ FiniSteps(e) \/ EntityWakeup(e)
      PROVE  UNCHANGED <<jobVars, pc, ent, job>>
  BY <1>3, Zenon
  DEF EntityFini, FiniSteps, EntityFiniWait, RqRemoveEntity, EntityWakeup, jobVars
<1>4. ASSUME NEW f \in ExtFences, ExtSignal(f)
      PROVE  UNCHANGED <<jobVars, pc, ent, job>>
  BY <1>4, Zenon DEF ExtSignal, jobVars
<1>5. CASE KthreadPark \/ KthreadUnpark \/ SchedFini
  BY <1>5, Zenon DEF KthreadPark, KthreadUnpark, SchedFini, jobVars
<1>6. CASE UNCHANGED vars
  BY <1>6, Zenon DEF vars, jobVars
<1> QED
  BY <1>1, <1>2, <1>3, <1>4, <1>5, <1>6, Zenon DEF Next

-----------------------------------------------------------------------------
(* The invariant *)

\* amd_sched_main has started its job, which is still at the head of the queue
Leaves == {"scheduled", "install", "process", "out"}

\* a job is queued once, in the queue of its entity, after its submission and until
\* after its start
QueueInv ==
    /\ \A e \in Entities : \A i \in DOMAIN queue[e] :
          /\ EntityOf[queue[e][i]] = e
          /\ push[queue[e][i]] \notin {"new", "init"}
          /\ hw[queue[e][i]] # "none" => i = 1 /\ ent = e /\ pc \in Leaves
    /\ \A e \in Entities : \A i, k \in DOMAIN queue[e] : queue[e][i] = queue[e][k] => i = k
    /\ \A j \in Jobs : push[j] \in {"new", "init"} => hw[j] = "none"
    /\ \A j \in Jobs : push[j] \notin {"new", "init"} =>
          hw[j] # "none" \/ \E i \in DOMAIN queue[EntityOf[j]] : queue[EntityOf[j]][i] = j

\* amd_sched_main has one job at a time; it is started once, its callback runs once
\* and its finish work is queued once
HwInv ==
    /\ pc \in {"inc", "begin", "run"} => hw[job] = "none"
    /\ pc \in Leaves => hw[job] # "none"
    /\ pc \in {"scheduled", "install"} =>
          job \notin pcb /\ processing[job] = "none" /\ finish[job] = "none"
    /\ pc = "process" => hw[job] \in {"failed", "signaled"}
    /\ pc \in Idle => job = NULL
    /\ pc = "wakeup" => job \in Jobs

CallbackInv ==
    \A j \in Jobs :
        /\ j \in pcb => hw[j] = "emitted"
        /\ processing[j] # "none" => hw[j] \in {"failed", "signaled"}
        /\ finish[j] # "none" => hw[j] \in {"failed", "signaled"}
        /\ processing[j] \in {"dec", "signal"} => finish[j] = "none"
        /\ j \in finished <=> finish[j] # "none"
        /\ j \in scheduled => hw[j] # "none"
        /\ (\E i \in DOMAIN ring : ring[i] = j) <=> hw[j] \in {"emitted", "signaled"}

\* the mirror list holds started jobs that no amd_sched_job_finish has taken out; a timer
\* or handler of a job runs only until its amd_sched_job_finish has cancelled it
MirrorInv ==
    /\ \A i \in DOMAIN mirror :
          /\ finish[mirror[i]] \in {"none", "queued"}
          /\ hw[mirror[i]] # "none" \/ (pc = "run" /\ mirror[i] = job)
    /\ \A i, k \in DOMAIN mirror : mirror[i] = mirror[k] => i = k
    /\ \A j \in tdr \cup tdrRun : finish[j] \in {"none", "queued", "cancel"} /\ Timeout
    /\ \A j \in Jobs : finish[j] \in {"cancel", "next"} => Timeout

JobInv == Inv1 /\ QueueInv /\ HwInv /\ CallbackInv /\ MirrorInv

\* kfifo_in
LEMMA QueueIn ==
    ASSUME Inv1, NEW j \in Jobs, EntityIn(j), ~UNCHANGED <<queue, push>>
    PROVE  \E n \in Nat :
              /\ push[j] = "init"
              /\ \E s \in {"first", "done"} : push' = [push EXCEPT ![j] = s]
              /\ UNCHANGED <<scheduled, finished, hw, ring, pcb, processing, finish,
                             mirror, tdr, tdrRun, fired, pc, ent, job>>
              /\ \A e \in Entities \ {EntityOf[j]} : queue'[e] = queue[e]
              /\ DOMAIN queue[EntityOf[j]] = 1..n
              /\ DOMAIN queue'[EntityOf[j]] = 1..(n + 1)
              /\ \A i \in 1..n : queue'[EntityOf[j]][i] = queue[EntityOf[j]][i]
              /\ queue'[EntityOf[j]][n + 1] = j
<1>1. PICK q : q = queue[EntityOf[j]]
  BY Zenon
<1>2. EntityOf[j] \in Entities /\ q \in Seq(Jobs)
  BY <1>1, SchedSets, Zenon DEF Inv1, TypeOK, EntityTypeOK
<1>3. PICK n \in Nat : n = Len(q) /\ DOMAIN q = 1..n
  BY <1>2
<1>4. queue' = [queue EXCEPT ![EntityOf[j]] = Append(@, j)]
  BY Zenon DEF EntityIn
<1>5. queue'[EntityOf[j]] = Append(q, j)
  BY <1>1, <1>2, <1>4, Zenon DEF Inv1, TypeOK, EntityTypeOK
<1>6. \A e \in Entities \ {EntityOf[j]} : queue'[e] = queue[e]
  BY <1>4, Zenon DEF Inv1, TypeOK, EntityTypeOK
<1>7. /\ DOMAIN Append(q, j) = 1..(n + 1) /\ Append(q, j)[n + 1] = j
      /\ \A i \in 1..n : Append(q, j)[i] = q[i]
  BY <1>2, <1>3, SeqAppend
<1>8. \E s \in {"first", "done"} : push' = [push EXCEPT ![j] = s]
  BY Zenon DEF EntityIn
<1>9. /\ push[j] = "init"
      /\ UNCHANGED <<scheduled, finished, hw, ring, pcb, processing, finish,
                     mirror, tdr, tdrRun, fired, pc, ent, job>>
  BY Zenon DEF EntityIn
<1>10. /\ DOMAIN queue[EntityOf[j]] = 1..n /\ DOMAIN queue'[EntityOf[j]] = 1..(n + 1)
       /\ \A i \in 1..n : queue'[EntityOf[j]][i] = queue[EntityOf[j]][i]
       /\ queue'[EntityOf[j]][n + 1] = j
  BY <1>1, <1>3, <1>5, <1>7, Zenon
<1> QED
  BY <1>6, <1>8, <1>9, <1>10, Zenon

\* kfifo_out
LEMMA QueueOut ==
    ASSUME Inv1, KfifoOut
    PROVE  /\ pc = "out" /\ pc' = "wakeup" /\ ent \in Entities
           /\ job \in Jobs /\ queue[ent] # <<>> /\ job = queue[ent][1]
           /\ UNCHANGED <<push, scheduled, finished, hw, ring, pcb, processing, finish,
                          mirror, tdr, tdrRun, fired, ent, job>>
           /\ \A e \in Entities \ {ent} : queue'[e] = queue[e]
           /\ \E n \in Nat : /\ DOMAIN queue[ent] = 1..(n + 1)
                             /\ DOMAIN queue'[ent] = 1..n
                             /\ \A i \in 1..n : queue'[ent][i] = queue[ent][i + 1]
<1>1. /\ pc = "out" /\ pc' = "wakeup" /\ queue' = [queue EXCEPT ![ent] = Tail(@)]
      /\ UNCHANGED <<push, scheduled, finished, hw, ring, pcb, processing, finish,
                     mirror, tdr, tdrRun, fired, ent, job>>
  BY Zenon DEF KfifoOut
<1>2. ent \in Entities /\ queue[ent] # <<>> /\ job = Head(queue[ent])
  BY <1>1, Zenon DEF Inv1, MainInv, UsesEntity, UsesJob
<1>3. PICK q : q = queue[ent]
  BY Zenon
<1>4. q \in Seq(Jobs) /\ q # <<>> /\ queue'[ent] = Tail(q)
  BY <1>1, <1>2, <1>3, Zenon DEF Inv1, TypeOK, EntityTypeOK
<1>5. /\ DOMAIN Tail(q) = 1..(Len(q) - 1)
      /\ \A i \in 1..(Len(q) - 1) : Tail(q)[i] = q[i + 1]
  BY <1>4, SeqTail, Zenon
<1>6. PICK n \in Nat : n = Len(q) - 1 /\ DOMAIN q = 1..(n + 1)
  BY <1>4
<1>7. q[1] = job /\ job \in Jobs
  BY <1>2, <1>3, <1>4
<1>8. \A e \in Entities \ {ent} : queue'[e] = queue[e]
  BY <1>1, Zenon DEF Inv1, TypeOK, EntityTypeOK
<1>9. /\ DOMAIN queue[ent] = 1..(n + 1) /\ DOMAIN queue'[ent] = 1..n
      /\ \A i \in 1..n : queue'[ent][i] = queue[ent][i + 1]
  BY <1>3, <1>4, <1>5, <1>6, Zenon
<1>10. job = queue[ent][1]
  BY <1>3, <1>7, Zenon
<1> QED
  BY <1>1, <1>2, <1>7, <1>8, <1>9, <1>10, Zenon

\* what amd_sched_main works on
LEMMA MainJob ==
    ASSUME Inv1, pc \in UsesJob
    PROVE  /\ ent \in Entities /\ job \in Jobs /\ 1 \in DOMAIN queue[ent]
           /\ job = queue[ent][1]
<1>1. ent \in Entities /\ queue[ent] # <<>> /\ job = Head(queue[ent])
  BY Zenon DEF Inv1, MainInv, UsesEntity, UsesJob
<1> QED
  BY <1>1, QueueSeq, Zenon DEF Inv1, TypeOK

-----------------------------------------------------------------------------
(* The steps preserve the invariant *)

\* kfifo_in comes once for a job and kfifo_out after its start
LEMMA QueueStep == JobInv /\ [Next]_vars => QueueInv'
<1> SUFFICES ASSUME JobInv, [Next]_vars PROVE QueueInv'
  BY Zenon
<1>t. /\ Inv1 /\ TypeOK /\ QueueInv /\ HwInv /\ CallbackInv
      /\ EntityOf \in [Jobs -> Entities] /\ push \in [Jobs -> PushStates]
      /\ hw \in [Jobs -> HwStates]
      /\ \A e \in Entities : \A i \in DOMAIN queue[e] : queue[e][i] \in Jobs
  BY SchedSets, QueueSeq, ZenonT(60) DEF JobInv, Inv1, TypeOK, JobTypeOK
<1>u. ASSUME UNCHANGED <<queue, push>>, \A j \in Jobs : hw'[j] = "none" <=> hw[j] = "none",
             \/ pc \notin Leaves
             \/ pc' \in Leaves /\ ent' = ent
      PROVE  QueueInv'
  <2>1. ASSUME NEW e \in Entities, NEW i \in DOMAIN queue[e]
        PROVE  /\ EntityOf[queue[e][i]] = e
               /\ push[queue[e][i]] \notin {"new", "init"}
               /\ hw'[queue[e][i]] # "none" => i = 1 /\ ent' = e /\ pc' \in Leaves
    BY <1>t, <1>u DEF QueueInv
  <2> QED
    BY <1>t, <1>u, <2>1, SMTT(60) DEF QueueInv
<1>1. CASE UNCHANGED <<jobVars, pc, ent, job>>
  BY <1>1, <1>u, Zenon DEF jobVars
<1>2. CASE MainIdle
  BY <1>2, <1>u, Zenon DEF MainIdle, jobVars, Idle, Leaves
<1>3. CASE MainRuns
  <2>1. CASE TakeJob \/ MainInc \/ JobBegin
    BY <2>1, <1>u, ZenonT(60) DEF TakeJob, MainInc, JobBegin, jobVars, Leaves
  <2>2. CASE RunJob
    <3>1. /\ pc = "run" /\ pc' = "scheduled" /\ UNCHANGED <<queue, push, ent, job>>
          /\ \E s \in {"emitted", "failed"} : hw' = [hw EXCEPT ![job] = s]
      BY <2>2, Zenon DEF RunJob
    <3>2. job \in Jobs /\ ent \in Entities /\ 1 \in DOMAIN queue[ent] /\ job = queue[ent][1]
      BY <1>t, <3>1, MainJob, Zenon DEF UsesJob, UsesEntity
    <3>3. EntityOf[job] = ent /\ push[job] \notin {"new", "init"}
      BY <1>t, <3>2, Zenon DEF QueueInv
    <3>4. hw'[job] # "none" /\ \A j \in Jobs \ {job} : hw'[j] = hw[j]
      BY <1>t, <3>1, <3>2, Zenon
    <3>5. ASSUME NEW e \in Entities, NEW i \in DOMAIN queue[e], hw'[queue[e][i]] # "none"
          PROVE  i = 1 /\ ent' = e /\ pc' \in Leaves
      <4>1. CASE queue[e][i] = job
        BY <1>t, <3>1, <3>2, <3>3, <4>1, SMTT(60) DEF QueueInv, Leaves
      <4>2. CASE queue[e][i] # job
        BY <1>t, <3>1, <3>4, <3>5, <4>2 DEF QueueInv, Leaves
      <4> QED
        BY <4>1, <4>2, Zenon
    <3> QED
      BY <1>t, <3>1, <3>3, <3>4, <3>5 DEF QueueInv
  <2>3. CASE FenceScheduled \/ InstallCallback \/ MainProcessed
    BY <2>3, <1>u, ZenonT(60) DEF FenceScheduled, InstallCallback, MainProcessed, Leaves
  <2>4. CASE KfifoOut
    <3>1. /\ pc = "out" /\ ent \in Entities /\ UNCHANGED <<push, hw>> /\ job \in Jobs
          /\ 1 \in DOMAIN queue[ent] /\ job = queue[ent][1]
          /\ \A e \in Entities \ {ent} : queue'[e] = queue[e]
      BY <1>t, <2>4, QueueOut, MainJob, Zenon DEF UsesJob, UsesEntity
    <3>2. PICK n \in Nat : /\ DOMAIN queue[ent] = 1..(n + 1)
                           /\ DOMAIN queue'[ent] = 1..n
                           /\ \A i \in 1..n : queue'[ent][i] = queue[ent][i + 1]
      BY <1>t, <2>4, QueueOut, Zenon
    <3>3. hw[job] # "none"
      BY <1>t, <3>1, Zenon DEF HwInv, Leaves
    <3>4. ASSUME NEW e \in Entities, NEW i \in DOMAIN queue'[e]
          PROVE  \E k \in DOMAIN queue[e] : /\ queue'[e][i] = queue[e][k]
                                            /\ k = IF e = ent THEN i + 1 ELSE i
      BY <3>1, <3>2, SMTT(60)
    <3>5. ASSUME NEW e \in Entities, NEW i \in DOMAIN queue'[e]
          PROVE  /\ EntityOf[queue'[e][i]] = e
                 /\ push[queue'[e][i]] \notin {"new", "init"}
                 /\ hw[queue'[e][i]] = "none"
      <4>1. PICK k \in DOMAIN queue[e] : /\ queue'[e][i] = queue[e][k]
                                         /\ k = IF e = ent THEN i + 1 ELSE i
        BY <3>4, ZenonT(60)
      <4>2. e = ent => k # 1
        BY <3>2, <4>1
      <4> QED
        BY <1>t, <4>1, <4>2 DEF QueueInv
    <3>6. ASSUME NEW e \in Entities, NEW i \in DOMAIN queue'[e], NEW k \in DOMAIN queue'[e],
                 queue'[e][i] = queue'[e][k]
          PROVE  i = k
      <4>1. CASE e = ent
        <5>1. i \in 1..n /\ k \in 1..n /\ i + 1 \in DOMAIN queue[e] /\ k + 1 \in DOMAIN queue[e]
          BY <3>2, <4>1
        <5>2. queue[e][i + 1] = queue[e][k + 1]
          BY <3>2, <3>6, <4>1, <5>1, ZenonT(60)
        <5> QED
          BY <1>t, <5>1, <5>2, SMTT(60) DEF QueueInv
      <4>2. CASE e # ent
        BY <1>t, <3>1, <3>6, <4>2 DEF QueueInv
      <4> QED
        BY <4>1, <4>2, Zenon
    <3>7. ASSUME NEW j \in Jobs, push[j] \notin {"new", "init"}, hw[j] = "none"
          PROVE  \E i \in DOMAIN queue'[EntityOf[j]] : queue'[EntityOf[j]][i] = j
      <4>1. PICK i \in DOMAIN queue[EntityOf[j]] : queue[EntityOf[j]][i] = j
        BY <1>t, <3>7, Zenon DEF QueueInv
      <4>2. CASE EntityOf[j] = ent
        <5>1. i # 1
          BY <3>1, <3>3, <3>7, <4>1, <4>2, ZenonT(60)
        <5>2. i \in 1..(n + 1)
          BY <3>2, <4>1, <4>2, ZenonT(60)
        <5>3. i - 1 \in 1..n /\ (i - 1) + 1 = i
          BY <5>1, <5>2
        <5>4. queue'[ent][i - 1] = j
          BY <3>2, <4>1, <4>2, <5>3, ZenonT(60)
        <5> QED
          BY <3>2, <4>2, <5>3, <5>4, Zenon
      <4>3. CASE EntityOf[j] # ent
        BY <1>t, <3>1, <4>1, <4>3, ZenonT(60)
      <4> QED
        BY <4>2, <4>3, Zenon
    <3> QED
      BY <1>t, <3>1, <3>5, <3>6, <3>7 DEF QueueInv
  <2>5. CASE WakeJobScheduled
    BY <2>5, <1>u, Zenon DEF WakeJobScheduled, Leaves
  <2> QED
    BY <1>3, <2>1, <2>2, <2>3, <2>4, <2>5, ZenonT(60) DEF MainRuns

<1>4. ASSUME NEW j \in Jobs, JobStep(j) PROVE QueueInv'
  <2>1. CASE JobInit(j)
    <3>1. /\ push[j] = "new" /\ push' = [push EXCEPT ![j] = "init"]
          /\ UNCHANGED <<queue, hw, pc, ent>>
      BY <2>1, Zenon DEF JobInit
    <3>2. push'[j] = "init" /\ \A k \in Jobs \ {j} : push'[k] = push[k]
      BY <1>t, <3>1, Zenon
    <3>3. \A k \in Jobs : push'[k] \in {"new", "init"} <=> push[k] \in {"new", "init"}
      BY <3>1, <3>2, Zenon
    <3> QED
      BY <1>t, <3>1, <3>3 DEF QueueInv
  <2>2. CASE EntityIn(j)
    <3>1. CASE UNCHANGED <<queue, push>>
      BY <1>t, <1>u, <2>2, <3>1, Zenon DEF EntityIn
    <3>2. CASE ~UNCHANGED <<queue, push>>
      <4>1. PICK n \in Nat :
              /\ push[j] = "init"
              /\ \E s \in {"first", "done"} : push' = [push EXCEPT ![j] = s]
              /\ UNCHANGED <<hw, pc, ent>>
              /\ \A e \in Entities \ {EntityOf[j]} : queue'[e] = queue[e]
              /\ DOMAIN queue[EntityOf[j]] = 1..n
              /\ DOMAIN queue'[EntityOf[j]] = 1..(n + 1)
              /\ \A i \in 1..n : queue'[EntityOf[j]][i] = queue[EntityOf[j]][i]
              /\ queue'[EntityOf[j]][n + 1] = j
        BY <1>t, <2>2, <3>2, QueueIn, Zenon
      <4>2. push'[j] \notin {"new", "init"} /\ \A k \in Jobs \ {j} : push'[k] = push[k]
        BY <1>t, <4>1, Zenon
      <4>3. hw[j] = "none"
        BY <1>t, <4>1, Zenon DEF QueueInv
      <4>4. ASSUME NEW e \in Entities, NEW i \in DOMAIN queue'[e]
            PROVE  \/ i \in DOMAIN queue[e] /\ queue'[e][i] = queue[e][i] /\ queue[e][i] # j
                   \/ e = EntityOf[j] /\ i = n + 1 /\ queue'[e][i] = j
        <5>1. CASE e = EntityOf[j] /\ i = n + 1
          BY <4>1, <5>1, Zenon
        <5>2. CASE ~(e = EntityOf[j] /\ i = n + 1)
          <6>1. i \in DOMAIN queue[e] /\ queue'[e][i] = queue[e][i]
            BY <4>1, <5>2
          <6>2. push[queue[e][i]] # "init"
            BY <1>t, <6>1, Zenon DEF QueueInv
          <6> QED
            BY <4>1, <6>1, <6>2, ZenonT(60)
        <5> QED
          BY <5>1, <5>2, Zenon
      <4>5. ASSUME NEW e \in Entities, NEW i \in DOMAIN queue'[e]
            PROVE  /\ EntityOf[queue'[e][i]] = e
                   /\ push'[queue'[e][i]] \notin {"new", "init"}
                   /\ hw'[queue'[e][i]] # "none" => i = 1 /\ ent' = e /\ pc' \in Leaves
        <5>1. CASE i \in DOMAIN queue[e] /\ queue'[e][i] = queue[e][i] /\ queue[e][i] # j
          BY <1>t, <4>1, <4>2, <5>1, SMTT(60) DEF QueueInv
        <5>2. CASE e = EntityOf[j] /\ i = n + 1 /\ queue'[e][i] = j
          BY <4>1, <4>2, <4>3, <5>2, ZenonT(60)
        <5> QED
          BY <4>4, <5>1, <5>2, ZenonT(60)
      <4>6. ASSUME NEW e \in Entities, NEW i \in DOMAIN queue'[e], NEW k \in DOMAIN queue'[e],
                   queue'[e][i] = queue'[e][k]
            PROVE  i = k
        <5>1. \/ i \in DOMAIN queue[e] /\ queue'[e][i] = queue[e][i] /\ queue[e][i] # j
              \/ i = n + 1 /\ queue'[e][i] = j
          BY <4>4, Zenon
        <5>2. \/ k \in DOMAIN queue[e] /\ queue'[e][k] = queue[e][k] /\ queue[e][k] # j
              \/ k = n + 1 /\ queue'[e][k] = j
          BY <4>4, Zenon
        <5> QED
          BY <1>t, <4>6, <5>1, <5>2 DEF QueueInv
      <4>7. ASSUME NEW k \in Jobs, push'[k] \notin {"new", "init"}, hw'[k] = "none"
            PROVE  \E i \in DOMAIN queue'[EntityOf[k]] : queue'[EntityOf[k]][i] = k
        <5>1. CASE k = j
          <6>1. n + 1 \in DOMAIN queue'[EntityOf[j]]
            BY <4>1
          <6> QED
            BY <4>1, <5>1, <6>1, ZenonT(60)
        <5>2. CASE k # j
          <6>1. PICK i \in DOMAIN queue[EntityOf[k]] : queue[EntityOf[k]][i] = k
            BY <1>t, <4>1, <4>2, <4>7, <5>2, ZenonT(60) DEF QueueInv
          <6>2. EntityOf[k] \in Entities
            BY <1>t, Zenon
          <6>3. i \in DOMAIN queue'[EntityOf[k]] /\ queue'[EntityOf[k]][i] = k
            BY <4>1, <6>1, <6>2
          <6> QED
            BY <6>3, Zenon
        <5> QED
          BY <5>1, <5>2, Zenon
      <4>8. \A k \in Jobs : push'[k] \in {"new", "init"} => hw'[k] = "none"
        BY <1>t, <4>1, <4>2, ZenonT(60) DEF QueueInv
      <4> QED
        BY <4>5, <4>6, <4>7, <4>8, Zenon DEF QueueInv
    <3> QED
      BY <3>1, <3>2, Zenon
  <2>3. CASE PushOn(j)
    <3>1. \A k \in Jobs : push'[k] \in {"new", "init"} <=> push[k] \in {"new", "init"}
      BY <1>t, <2>3, Zenon DEF PushOn
    <3>2. UNCHANGED <<queue, hw, pc, ent>>
      BY <2>3, Zenon DEF PushOn
    <3> QED
      BY <1>t, <3>1, <3>2 DEF QueueInv
  <2>4. CASE HwSignal(j)
    <3>1. /\ hw[j] = "emitted" /\ hw' = [hw EXCEPT ![j] = "signaled"]
          /\ UNCHANGED <<queue, push, pc, ent>>
      BY <2>4, Zenon DEF HwSignal
    <3>2. \A k \in Jobs : hw'[k] = "none" <=> hw[k] = "none"
      BY <1>t, <3>1, Zenon
    <3> QED
      BY <1>u, <3>1, <3>2, Zenon
  <2>5. CASE ProcessJob(j) \/ FinishWork(j) \/ TdrExpire(j) \/ JobTimedout(j)
    BY <1>u, <2>5, Zenon
    DEF ProcessJob, ProcessDec, ProcessSignal, ProcessWake, FinishWork, JobFinish,
        JobFinishCancel, JobFinishNext, TdrExpire, JobTimedout
  <2> QED
    BY <1>4, <2>1, <2>2, <2>3, <2>4, <2>5, ZenonT(60) DEF JobStep
<1> QED
  BY <1>t, <1>1, <1>2, <1>3, <1>4, JobFrame, Zenon

\* a job keeps its place in its life while amd_sched_main has it
LEMMA HwStep == JobInv /\ [Next]_vars => HwInv'
<1> SUFFICES ASSUME JobInv, [Next]_vars PROVE HwInv'
  OBVIOUS
<1>t. /\ Inv1 /\ QueueInv /\ HwInv /\ CallbackInv
      /\ hw \in [Jobs -> HwStates] /\ processing \in [Jobs -> ProcStates]
      /\ finish \in [Jobs -> FinishStates] /\ pcb \subseteq Jobs
  BY Zenon DEF JobInv, Inv1, TypeOK, JobTypeOK
<1>j. /\ pc \in UsesJob => job \in Jobs
      /\ pc \in Leaves => pc \in UsesJob
  BY <1>t, MainJob, Zenon DEF Leaves, UsesJob, UsesEntity
<1>1. CASE UNCHANGED <<jobVars, pc, ent, job>>
  BY <1>t, <1>1, Zenon DEF jobVars, HwInv
<1>2. CASE MainIdle
  BY <1>t, <1>2, Zenon DEF MainIdle, jobVars, Idle, Leaves, HwInv
<1>3. CASE MainRuns
  <2>1. CASE TakeJob
    <3>1. /\ pc = "pop" /\ pc' = "inc" /\ UNCHANGED hw /\ ent \in Entities
          /\ 1 \in DOMAIN queue[ent] /\ job' = queue[ent][1]
      BY <1>t, <2>1, QueueSeq, ZenonT(60) DEF TakeJob, jobVars, Inv1, TypeOK
    <3>2. hw'[job'] = "none"
      BY <1>t, <3>1 DEF QueueInv, Leaves
    <3> QED
      BY <3>1, <3>2, Zenon DEF HwInv, Leaves, Idle
  <2>2. CASE MainInc \/ JobBegin
    <3>1. pc \in {"inc", "begin"} /\ pc' \in {"begin", "run"} /\ UNCHANGED <<hw, job>>
      BY <2>2, Zenon DEF MainInc, JobBegin
    <3> QED
      BY <1>t, <3>1, Zenon DEF HwInv, Leaves, Idle
  <2>3. CASE RunJob
    <3>1. /\ pc = "run" /\ pc' = "scheduled" /\ UNCHANGED <<job, pcb, processing, finish>>
          /\ \E s \in {"emitted", "failed"} : hw' = [hw EXCEPT ![job] = s]
      BY <2>3, Zenon DEF RunJob
    <3>2. job \in Jobs /\ hw[job] = "none"
      BY <1>t, <1>j, <3>1, Zenon DEF HwInv, UsesJob, UsesEntity
    <3>3. job \notin pcb /\ processing[job] = "none" /\ finish[job] = "none"
      BY <1>t, <3>2, Zenon DEF CallbackInv
    <3>4. hw'[job] # "none"
      BY <1>t, <3>1, <3>2, Zenon
    <3> QED
      BY <3>1, <3>3, <3>4, Zenon DEF HwInv, Leaves, Idle
  <2>4. CASE FenceScheduled
    <3>1. pc = "scheduled" /\ pc' = "install" /\ UNCHANGED <<job, hw, pcb, processing, finish>>
      BY <2>4, Zenon DEF FenceScheduled
    <3> QED
      BY <1>t, <3>1, Zenon DEF HwInv, Leaves, Idle
  <2>5. CASE InstallCallback
    <3>1. /\ pc = "install" /\ UNCHANGED <<job, hw>>
          /\ \/ pc' = "out"
             \/ pc' = "process" /\ hw[job] \in {"failed", "signaled"}
      BY <2>5, Zenon DEF InstallCallback
    <3> QED
      BY <1>t, <3>1, Zenon DEF HwInv, Leaves, Idle
  <2>6. CASE MainProcessed
    <3>1. pc = "process" /\ pc' = "out" /\ UNCHANGED <<job, hw>>
      BY <2>6, Zenon DEF MainProcessed
    <3> QED
      BY <1>t, <3>1, Zenon DEF HwInv, Leaves, Idle
  <2>7. CASE KfifoOut
    BY <1>t, <2>7, QueueOut, Zenon DEF HwInv, Leaves, Idle
  <2>8. CASE WakeJobScheduled
    <3>1. pc' = "loop" /\ job' = NULL
      BY <2>8, Zenon DEF WakeJobScheduled
    <3> QED
      BY <3>1, Zenon DEF HwInv, Leaves
  <2> QED
    BY <1>3, <2>1, <2>2, <2>3, <2>4, <2>5, <2>6, <2>7, <2>8, ZenonT(60) DEF MainRuns
<1>4. ASSUME NEW j \in Jobs, JobStep(j) PROVE HwInv'
  <2>1. CASE JobInit(j) \/ EntityIn(j) \/ PushOn(j) \/ TdrExpire(j) \/ JobTimedout(j)
    <3>1. UNCHANGED <<pc, job, hw, pcb, processing, finish>>
      BY <2>1, Zenon DEF JobInit, EntityIn, PushOn, TdrExpire, JobTimedout
    <3> QED
      BY <1>t, <3>1, Zenon DEF HwInv
  <2>2. CASE HwSignal(j)
    <3>1. /\ hw[j] = "emitted" /\ hw' = [hw EXCEPT ![j] = "signaled"] /\ pcb' = pcb \ {j}
          /\ processing' = IF j \in pcb THEN [processing EXCEPT ![j] = "dec"] ELSE processing
          /\ UNCHANGED <<pc, job, finish>>
      BY <2>2, Zenon DEF HwSignal
    <3>2. \A k \in Jobs : /\ hw'[k] = IF k = j THEN "signaled" ELSE hw[k]
                          /\ k \notin pcb => processing'[k] = processing[k]
      BY <1>t, <3>1, Zenon
    <3> QED
      BY <1>t, <1>j, <3>1, <3>2, Zenon DEF HwInv, UsesJob, UsesEntity, Leaves, Idle
  <2>3. CASE ProcessJob(j)
    <3>1. /\ processing[j] # "none" /\ UNCHANGED <<pc, job, hw, pcb>>
          /\ \E s \in ProcStates : processing' = [processing EXCEPT ![j] = s]
          /\ finish' = finish \/ finish' = [finish EXCEPT ![j] = "queued"]
      BY <2>3, Zenon DEF ProcessJob, ProcessDec, ProcessSignal, ProcessWake, ProcStates
    <3>2. \A k \in Jobs \ {j} : processing'[k] = processing[k] /\ finish'[k] = finish[k]
      BY <1>t, <3>1, Zenon
    <3> QED
      BY <1>t, <1>j, <3>1, <3>2, ZenonT(60) DEF HwInv, UsesJob, UsesEntity, Leaves, Idle
  <2>4. CASE FinishWork(j)
    <3>1. /\ finish[j] # "none" /\ UNCHANGED <<pc, job, hw, pcb, processing>>
          /\ \E s \in FinishStates : finish' = [finish EXCEPT ![j] = s]
      <4>1. CASE JobFinish(j)
        BY <4>1, Zenon DEF JobFinish, FinishStates
      <4>2. CASE JobFinishCancel(j) \/ JobFinishNext(j)
        BY <4>2, Zenon DEF JobFinishCancel, JobFinishNext, FinishStates
      <4> QED
        BY <2>4, <4>1, <4>2, Zenon DEF FinishWork
    <3>2. \A k \in Jobs \ {j} : finish'[k] = finish[k]
      BY <1>t, <3>1, Zenon
    <3> QED
      BY <1>t, <1>j, <3>1, <3>2, Zenon DEF HwInv, UsesJob, UsesEntity, Leaves, Idle
  <2> QED
    BY <1>4, <2>1, <2>2, <2>3, <2>4, Zenon DEF JobStep
<1> QED
  BY <1>t, <1>1, <1>2, <1>3, <1>4, JobFrame, ZenonT(60)

\* the callback and the finish work of a job run once, after the ring is done with it
LEMMA CallbackStep == JobInv /\ [Next]_vars => CallbackInv'
<1> SUFFICES ASSUME JobInv, [Next]_vars PROVE CallbackInv'
  OBVIOUS
<1>t. /\ Inv1 /\ QueueInv /\ HwInv /\ CallbackInv
      /\ hw \in [Jobs -> HwStates] /\ processing \in [Jobs -> ProcStates]
      /\ finish \in [Jobs -> FinishStates] /\ pcb \subseteq Jobs /\ ring \in Seq(Jobs)
  BY Zenon DEF JobInv, Inv1, TypeOK, JobTypeOK
<1>j. pc \in UsesJob => job \in Jobs
  BY <1>t, MainJob, Zenon
<1>1. ASSUME UNCHANGED <<hw, ring, pcb, processing, finish, finished, scheduled>>
      PROVE  CallbackInv'
  BY <1>t, <1>1 DEF CallbackInv
<1>2. CASE MainIdle
  BY <1>1, <1>2, Zenon DEF MainIdle, jobVars
<1>3. CASE MainRuns
  <2>1. CASE TakeJob \/ MainInc \/ JobBegin \/ MainProcessed \/ KfifoOut \/ WakeJobScheduled
    BY <1>1, <2>1, ZenonT(60)
    DEF TakeJob, MainInc, JobBegin, MainProcessed, KfifoOut, WakeJobScheduled, jobVars
  <2>2. CASE RunJob
    <3>1. /\ pc = "run" /\ UNCHANGED <<pcb, processing, finish, finished, scheduled>>
          /\ \/ hw' = [hw EXCEPT ![job] = "emitted"] /\ ring' = Append(ring, job)
             \/ hw' = [hw EXCEPT ![job] = "failed"] /\ ring' = ring
      BY <2>2, Zenon DEF RunJob
    <3>2. job \in Jobs /\ hw[job] = "none"
      BY <1>t, <1>j, <3>1, Zenon DEF HwInv, UsesJob, UsesEntity
    <3>3. /\ job \notin pcb \cup finished \cup scheduled
          /\ processing[job] = "none" /\ finish[job] = "none"
          /\ ~\E i \in DOMAIN ring : ring[i] = job
      BY <1>t, <3>2, Zenon DEF CallbackInv
    <3>4. /\ hw'[job] = IF ring' = ring THEN "failed" ELSE "emitted"
          /\ \A k \in Jobs \ {job} : hw'[k] = hw[k]
          /\ \A k \in Jobs : (\E i \in DOMAIN ring' : ring'[i] = k) <=>
                                \/ \E i \in DOMAIN ring : ring[i] = k
                                \/ k = job /\ ring' # ring
      <4>1. CASE ring' = Append(ring, job)
        <5>1. PICK n \in Nat : n = Len(ring) /\ DOMAIN ring = 1..n
          BY <1>t
        <5>2. PICK r : r = Append(ring, job)
          BY Zenon
        <5>3. /\ DOMAIN r = 1..(n + 1) /\ \A i \in 1..n : r[i] = ring[i]
              /\ r[n + 1] = job
          BY <1>t, <3>2, <5>1, <5>2, SeqAppend, SMTT(60)
        <5>4. r # ring
          BY <5>1, <5>3
        <5>5. hw' = [hw EXCEPT ![job] = "emitted"]
          BY <3>1, <4>1, <5>2, <5>4, ZenonT(60)
        <5> QED
          BY <1>t, <3>2, <4>1, <5>1, <5>2, <5>3, <5>4, <5>5, SMTT(60)
      <4>2. CASE hw' = [hw EXCEPT ![job] = "failed"] /\ ring' = ring
        BY <1>t, <3>2, <4>2, ZenonT(60)
      <4> QED
        BY <3>1, <4>1, <4>2, ZenonT(60)
    <3> QED
      BY <1>t, <3>1, <3>2, <3>3, <3>4, SMTT(60) DEF CallbackInv
  <2>3. CASE FenceScheduled
    <3>1. /\ pc = "scheduled" /\ scheduled' = scheduled \cup {job}
          /\ UNCHANGED <<hw, ring, pcb, processing, finish, finished>>
      BY <2>3, Zenon DEF FenceScheduled
    <3>2. hw[job] # "none"
      BY <1>t, <3>1, ZenonT(60) DEF HwInv, Leaves
    <3> QED
      BY <1>t, <3>1, <3>2 DEF CallbackInv
  <2>4. CASE InstallCallback
    <3>1. /\ pc = "install" /\ UNCHANGED <<hw, ring, finish, finished, scheduled>>
          /\ \/ /\ hw[job] = "emitted" /\ pcb' = pcb \cup {job} /\ UNCHANGED processing
             \/ /\ hw[job] \in {"failed", "signaled"} /\ UNCHANGED pcb
                /\ processing' = [processing EXCEPT ![job] = "dec"]
      BY <2>4, Zenon DEF InstallCallback
    <3>2. job \in Jobs /\ finish[job] = "none"
      BY <1>t, <1>j, <3>1, Zenon DEF HwInv, UsesJob, UsesEntity
    <3> QED
      BY <1>t, <3>1, <3>2 DEF CallbackInv
  <2> QED
    BY <1>3, <2>1, <2>2, <2>3, <2>4, ZenonT(60) DEF MainRuns
<1>4. ASSUME NEW j \in Jobs, JobStep(j) PROVE CallbackInv'
  <2>1. CASE JobInit(j) \/ EntityIn(j) \/ PushOn(j) \/ TdrExpire(j) \/ JobTimedout(j)
    BY <1>1, <2>1, ZenonT(60) DEF JobInit, EntityIn, PushOn, TdrExpire, JobTimedout
  <2>2. CASE HwSignal(j)
    <3>1. /\ hw[j] = "emitted" /\ hw' = [hw EXCEPT ![j] = "signaled"] /\ pcb' = pcb \ {j}
          /\ processing' = IF j \in pcb THEN [processing EXCEPT ![j] = "dec"] ELSE processing
          /\ UNCHANGED <<ring, finish, finished, scheduled>>
      BY <2>2, Zenon DEF HwSignal
    <3>2. \A k \in Jobs : /\ hw'[k] = IF k = j THEN "signaled" ELSE hw[k]
                          /\ k # j => processing'[k] = processing[k]
      BY <1>t, <3>1, Zenon
    <3> QED
      BY <1>t, <3>1, <3>2 DEF CallbackInv
  <2>3. CASE ProcessDec(j) \/ ProcessWake(j)
    <3>1. /\ UNCHANGED <<hw, ring, pcb, finish, finished, scheduled>>
          /\ \/ processing[j] = "dec" /\ processing' = [processing EXCEPT ![j] = "signal"]
             \/ processing' = [processing EXCEPT ![j] = "none"]
      BY <2>3, Zenon DEF ProcessDec, ProcessWake
    <3> QED
      BY <1>t, <3>1 DEF CallbackInv
  <2>4. CASE ProcessSignal(j)
    <3>1. /\ processing[j] = "signal" /\ processing' = [processing EXCEPT ![j] = "wake"]
          /\ finished' = finished \cup {j} /\ finish' = [finish EXCEPT ![j] = "queued"]
          /\ UNCHANGED <<hw, ring, pcb, scheduled>>
      BY <2>4, Zenon DEF ProcessSignal
    <3> QED
      BY <1>t, <3>1 DEF CallbackInv
  <2>5. CASE FinishWork(j)
    <3>1. /\ finish[j] # "none" /\ UNCHANGED <<hw, ring, pcb, processing, finished, scheduled>>
          /\ \E s \in FinishStates \ {"none"} : finish' = [finish EXCEPT ![j] = s]
      <4>1. CASE JobFinish(j)
        BY <4>1, Zenon DEF JobFinish, FinishStates
      <4>2. CASE JobFinishCancel(j) \/ JobFinishNext(j)
        BY <4>2, Zenon DEF JobFinishCancel, JobFinishNext, FinishStates
      <4> QED
        BY <2>5, <4>1, <4>2, Zenon DEF FinishWork
    <3> QED
      BY <1>t, <3>1 DEF CallbackInv
  <2> QED
    BY <1>4, <2>1, <2>2, <2>3, <2>4, <2>5, ZenonT(60) DEF JobStep, ProcessJob
<1>5. CASE UNCHANGED <<jobVars, pc, ent, job>>
  BY <1>1, <1>5, Zenon DEF jobVars
<1> QED
  BY <1>t, <1>2, <1>3, <1>4, <1>5, JobFrame, ZenonT(60)

\* amd_sched_job_finish leaves the mirror list before it cancels the timer
LEMMA MirrorStep == JobInv /\ [Next]_vars => MirrorInv'
<1> SUFFICES ASSUME JobInv, [Next]_vars PROVE MirrorInv'
  OBVIOUS
<1>t. /\ Inv1 /\ HwInv /\ CallbackInv /\ MirrorInv
      /\ hw \in [Jobs -> HwStates] /\ finish \in [Jobs -> FinishStates]
      /\ tdr \subseteq Jobs /\ tdrRun \subseteq Jobs /\ mirror \in Seq(Jobs)
  BY Zenon DEF JobInv, Inv1, TypeOK, JobTypeOK
<1>j. pc \in UsesJob => job \in Jobs
  BY <1>t, MainJob, Zenon
<1>m. \A i \in DOMAIN mirror : mirror[i] \in Jobs
  BY <1>t
<1>1. ASSUME UNCHANGED <<mirror, tdr, tdrRun>>,
             \A k \in Jobs : finish'[k] = finish[k] \/ (finish'[k] = "queued" /\ finish[k] = "none"),
             \A k \in Jobs : hw[k] # "none" => hw'[k] # "none",
             pc # "run" \/ (pc' = pc /\ job' = job)
      PROVE  MirrorInv'
  <2>1. ASSUME NEW i \in DOMAIN mirror
        PROVE  /\ finish'[mirror[i]] \in {"none", "queued"}
               /\ hw'[mirror[i]] # "none" \/ (pc' = "run" /\ mirror[i] = job')
    BY <1>t, <1>m, <1>1, Zenon DEF MirrorInv
  <2>2. \A k \in tdr \cup tdrRun : finish'[k] \in {"none", "queued", "cancel"} /\ Timeout
    BY <1>t, <1>1, Zenon DEF MirrorInv
  <2>3. \A k \in Jobs : finish'[k] \in {"cancel", "next"} => Timeout
    BY <1>t, <1>1, Zenon DEF MirrorInv
  <2> QED
    BY <1>t, <1>1, <2>1, <2>2, <2>3, ZenonT(60) DEF MirrorInv
<1>2. CASE MainIdle
  <2>1. UNCHANGED <<mirror, tdr, tdrRun, finish, hw>> /\ pc # "run"
    BY <1>2, Zenon DEF MainIdle, jobVars, Idle
  <2> QED
    BY <1>1, <2>1, Zenon
<1>3. CASE MainRuns
  <2>1. CASE \/ TakeJob \/ MainInc \/ FenceScheduled \/ InstallCallback \/ MainProcessed
             \/ KfifoOut \/ WakeJobScheduled
    <3>1. UNCHANGED <<mirror, tdr, tdrRun, finish, hw>> /\ pc # "run"
      BY <2>1, Zenon
      DEF TakeJob, MainInc, FenceScheduled, InstallCallback, MainProcessed, KfifoOut,
          WakeJobScheduled, jobVars
    <3> QED
      BY <1>1, <3>1
  <2>2. CASE JobBegin
    <3>1. /\ pc = "begin" /\ pc' = "run" /\ UNCHANGED <<job, tdrRun, finish, hw>>
          /\ mirror' = Append(mirror, job)
          /\ tdr' = tdr \/ (Timeout /\ tdr' = tdr \cup {job})
      BY <2>2, Zenon DEF JobBegin
    <3>2. job \in Jobs /\ hw[job] = "none" /\ finish[job] = "none"
      BY <1>t, <1>j, <3>1, Zenon DEF HwInv, CallbackInv, UsesJob, UsesEntity
    <3>3. \A i \in DOMAIN mirror : mirror[i] # job
      BY <1>t, <3>1, <3>2, Zenon DEF MirrorInv
    <3>4. PICK n \in Nat : n = Len(mirror) /\ DOMAIN mirror = 1..n
      BY <1>t, SMTT(60)
    <3>5. /\ DOMAIN mirror' = 1..(n + 1) /\ \A i \in 1..n : mirror'[i] = mirror[i]
          /\ mirror'[n + 1] = job
      BY <1>t, <3>1, <3>2, <3>4, SeqAppend, SMTT(60)
    <3>6. ASSUME NEW i \in DOMAIN mirror'
          PROVE  \/ i \in DOMAIN mirror /\ mirror'[i] = mirror[i]
                 \/ i = n + 1 /\ mirror'[i] = job
      BY <3>4, <3>5
    <3>7. ASSUME NEW i \in DOMAIN mirror'
          PROVE  /\ finish'[mirror'[i]] \in {"none", "queued"}
                 /\ hw'[mirror'[i]] # "none" \/ (pc' = "run" /\ mirror'[i] = job')
      BY <1>t, <3>1, <3>2, <3>6, ZenonT(60) DEF MirrorInv
    <3>8. ASSUME NEW i \in DOMAIN mirror', NEW k \in DOMAIN mirror', mirror'[i] = mirror'[k]
          PROVE  i = k
      BY <1>t, <3>3, <3>6, <3>8 DEF MirrorInv
    <3>9. \A k \in tdr' \cup tdrRun' : finish'[k] \in {"none", "queued", "cancel"} /\ Timeout
      BY <1>t, <3>1, <3>2, Zenon DEF MirrorInv
    <3>10. \A k \in Jobs : finish'[k] \in {"cancel", "next"} => Timeout
      BY <1>t, <3>1, Zenon DEF MirrorInv
    <3> QED
      BY <3>7, <3>8, <3>9, <3>10, Zenon DEF MirrorInv
  <2>3. CASE RunJob
    <3>1. /\ pc = "run" /\ UNCHANGED <<mirror, tdr, tdrRun, finish>>
          /\ \E s \in {"emitted", "failed"} : hw' = [hw EXCEPT ![job] = s]
      BY <2>3, Zenon DEF RunJob
    <3>2. job \in Jobs
      BY <1>j, <3>1, Zenon DEF UsesJob, UsesEntity
    <3>3. hw'[job] # "none" /\ \A k \in Jobs \ {job} : hw'[k] = hw[k]
      BY <1>t, <3>1, <3>2, Zenon
    <3>4. \A i \in DOMAIN mirror : hw'[mirror[i]] # "none"
      BY <1>t, <1>m, <3>3, Zenon DEF MirrorInv
    <3> QED
      BY <1>t, <3>1, <3>4, Zenon DEF MirrorInv
  <2> QED
    BY <1>3, <2>1, <2>2, <2>3, ZenonT(60) DEF MainRuns
<1>4. ASSUME NEW j \in Jobs, JobStep(j) PROVE MirrorInv'
  <2>1. CASE JobInit(j) \/ EntityIn(j) \/ PushOn(j) \/ ProcessDec(j) \/ ProcessWake(j)
    <3>1. UNCHANGED <<pc, job, hw, mirror, tdr, tdrRun, finish>>
      BY <2>1, Zenon DEF JobInit, EntityIn, PushOn, ProcessDec, ProcessWake
    <3> QED
      BY <1>1, <3>1, Zenon
  <2>2. CASE HwSignal(j)
    <3>1. hw' = [hw EXCEPT ![j] = "signaled"] /\ UNCHANGED <<pc, job, mirror, tdr, tdrRun, finish>>
      BY <2>2, Zenon DEF HwSignal
    <3>2. \A k \in Jobs : hw[k] # "none" => hw'[k] # "none"
      BY <1>t, <3>1, Zenon
    <3> QED
      BY <1>1, <3>1, <3>2, Zenon
  <2>3. CASE ProcessSignal(j)
    <3>1. /\ processing[j] = "signal" /\ finish' = [finish EXCEPT ![j] = "queued"]
          /\ UNCHANGED <<pc, job, hw, mirror, tdr, tdrRun>>
      BY <2>3, Zenon DEF ProcessSignal
    <3>2. finish[j] = "none"
      BY <1>t, <3>1, Zenon DEF CallbackInv
    <3>3. \A k \in Jobs : finish'[k] = finish[k] \/ (finish'[k] = "queued" /\ finish[k] = "none")
      BY <1>t, <3>1, <3>2, Zenon
    <3> QED
      BY <1>1, <3>1, <3>3, Zenon
  <2>4. CASE JobFinish(j)
    <3>1. /\ finish[j] = "queued" /\ mirror' = ListDel(mirror, j)
          /\ finish' = [finish EXCEPT ![j] = IF Timeout THEN "cancel" ELSE "freed"]
          /\ UNCHANGED <<pc, job, hw, tdr, tdrRun>>
      BY <2>4, Zenon DEF JobFinish
    <3>2. \A i, k \in DOMAIN mirror : mirror[i] = mirror[k] => i = k
      BY <1>t, ZenonT(60) DEF MirrorInv
    <3>3. /\ \A i \in DOMAIN mirror' : mirror'[i] # j /\ \E k \in DOMAIN mirror : mirror'[i] = mirror[k]
          /\ \A i, k \in DOMAIN mirror' : mirror'[i] = mirror'[k] => i = k
      BY <1>t, <3>1, <3>2, ListDelFacts
    <3>4. /\ finish'[j] = IF Timeout THEN "cancel" ELSE "freed"
          /\ \A k \in Jobs \ {j} : finish'[k] = finish[k]
      BY <1>t, <3>1, ZenonT(60)
    <3>5. ASSUME NEW i \in DOMAIN mirror'
          PROVE  /\ finish'[mirror'[i]] \in {"none", "queued"}
                 /\ hw'[mirror'[i]] # "none" \/ (pc' = "run" /\ mirror'[i] = job')
      <4>1. PICK k \in DOMAIN mirror : mirror'[i] = mirror[k] /\ mirror[k] # j
        BY <3>3, Zenon
      <4> QED
        BY <1>t, <1>m, <3>1, <3>4, <4>1 DEF MirrorInv
    <3>6. \A k \in tdr' \cup tdrRun' : finish'[k] \in {"none", "queued", "cancel"} /\ Timeout
      BY <1>t, <3>1, <3>4, Zenon DEF MirrorInv
    <3>7. \A k \in Jobs : finish'[k] \in {"cancel", "next"} => Timeout
      BY <1>t, <3>4, Zenon DEF MirrorInv
    <3> QED
      BY <3>3, <3>5, <3>6, <3>7, Zenon DEF MirrorInv
  <2>5. CASE JobFinishCancel(j) \/ JobFinishNext(j)
    <3>1. /\ finish[j] \in {"cancel", "next"} /\ UNCHANGED <<pc, job, hw, mirror, tdrRun>>
          /\ \/ j \notin tdrRun /\ tdr' = tdr \ {j} /\ finish' = [finish EXCEPT ![j] = "next"]
             \/ /\ finish[j] = "next" /\ finish' = [finish EXCEPT ![j] = "freed"]
                /\ tdr' = tdr \/ (mirror # <<>> /\ tdr' = tdr \cup {Head(mirror)})
      BY <2>5, Zenon DEF JobFinishCancel, JobFinishNext, QueueNextTdr, HandlerDone
    <3>2. Timeout /\ \A i \in DOMAIN mirror : mirror[i] # j
      BY <1>t, <3>1, Zenon DEF MirrorInv
    <3>3. finish'[j] \in {"next", "freed"} /\ \A k \in Jobs \ {j} : finish'[k] = finish[k]
      BY <1>t, <3>1, Zenon
    <3>4. \A i \in DOMAIN mirror : finish'[mirror[i]] \in {"none", "queued"}
      BY <1>t, <1>m, <3>2, <3>3, ZenonT(60) DEF MirrorInv
    <3>5. mirror # <<>> => Head(mirror) = mirror[1] /\ 1 \in DOMAIN mirror
      BY <1>t
    <3>6. j \notin tdr' \cup tdrRun'
      BY <1>t, <3>1, <3>2, <3>5, SMTT(60) DEF MirrorInv
    <3>7. \A k \in tdr' \cup tdrRun' : finish'[k] \in {"none", "queued", "cancel"}
      BY <1>t, <3>1, <3>3, <3>4, <3>5, <3>6, SMTT(60) DEF MirrorInv
    <3> QED
      BY <1>t, <3>1, <3>2, <3>4, <3>7, Zenon DEF MirrorInv
  <2>6. CASE TdrExpire(j) \/ JobTimedout(j)
    <3>1. /\ UNCHANGED <<pc, job, hw, mirror, finish>>
          /\ \A k \in tdr' \cup tdrRun' : k \in tdr \cup tdrRun
      BY <2>6, Zenon DEF TdrExpire, JobTimedout
    <3> QED
      BY <1>t, <3>1, Zenon DEF MirrorInv
  <2> QED
    BY <1>4, <2>1, <2>2, <2>3, <2>4, <2>5, <2>6, ZenonT(60) DEF JobStep, ProcessJob, FinishWork
<1>5. CASE UNCHANGED <<jobVars, pc, ent, job>>
  <2>1. UNCHANGED <<pc, job, mirror, tdr, tdrRun, finish, hw>>
    BY <1>5, Zenon DEF jobVars
  <2> QED
    BY <1>1, <2>1, Zenon
<1> QED
  BY <1>t, <1>2, <1>3, <1>4, <1>5, JobFrame, ZenonT(60)

\* the life of a job is as the invariant says in every reachable state
LEMMA JobInvHolds == Spec => []JobInv
<1>1. Init => JobInv
  <2> SUFFICES ASSUME Init PROVE JobInv
    BY Zenon
  <2>1. Inv1
    BY InitInv1, Zenon
  <2>2. /\ queue = [e \in Entities |-> <<>>] /\ push = [j \in Jobs |-> "new"]
        /\ hw = [j \in Jobs |-> "none"] /\ ring = <<>> /\ pcb = {} /\ pc = "loop" /\ job = NULL
        /\ processing = [j \in Jobs |-> "none"] /\ finish = [j \in Jobs |-> "none"]
        /\ scheduled = {} /\ finished = {} /\ mirror = <<>> /\ tdr = {} /\ tdrRun = {}
    BY Zenon DEF Init
  <2>3. QueueInv
    BY <2>2, SMTT(60) DEF QueueInv
  <2>4. HwInv /\ CallbackInv /\ MirrorInv
    BY <2>2 DEF HwInv, CallbackInv, MirrorInv, Leaves
  <2> QED
    BY <2>1, <2>3, <2>4, Zenon DEF JobInv
<1>2. JobInv /\ [Next]_vars => JobInv'
  BY Inv1Step, QueueStep, HwStep, CallbackStep, MirrorStep, ZenonT(60) DEF JobInv
<1> QED
  BY <1>1, <1>2, PTL DEF Spec

\* After ops->free_job nothing in the scheduler uses the job any more: no list, timer,
\* handler or callback has it, and amd_sched_main is past its last use of it.
THEOREM FreedJobUnusedHolds == Spec => []FreedJobUnused
<1>1. JobInv => FreedJobUnused
  <2> SUFFICES ASSUME JobInv, NEW j \in Jobs, finish[j] = "freed"
               PROVE  /\ j \notin Elems(mirror) \cup tdr \cup tdrRun \cup pcb
                      /\ processing[j] \notin {"dec", "signal"}
                      /\ job = j => pc \in {"process", "out", "wakeup"}
                      /\ \A e \in Entities : \A i \in DOMAIN queue[e] :
                            queue[e][i] = j => i = 1 /\ ent = e /\ pc \in {"process", "out"}
    BY Zenon DEF FreedJobUnused
  <2>1. /\ Inv1 /\ QueueInv /\ HwInv /\ CallbackInv /\ MirrorInv /\ pc \in MainStates
        /\ NULL \notin Jobs
    BY NullDistinct, ZenonT(60) DEF JobInv, Inv1, TypeOK, MainTypeOK
  <2>2. j \notin Elems(mirror) \cup tdr \cup tdrRun
    BY <2>1 DEF MirrorInv, Elems
  <2>3. j \notin pcb /\ processing[j] \notin {"dec", "signal"} /\ hw[j] # "none"
    BY <2>1, Zenon DEF CallbackInv
  <2>4. job = j => pc \in {"process", "out", "wakeup"}
    BY <2>1, <2>3, Zenon DEF HwInv, MainStates, Idle, Leaves
  <2>5. ASSUME NEW e \in Entities, NEW i \in DOMAIN queue[e], queue[e][i] = j
        PROVE  i = 1 /\ ent = e /\ pc \in {"process", "out"}
    <3>1. i = 1 /\ ent = e /\ pc \in Leaves
      BY <2>1, <2>3, <2>5, Zenon DEF QueueInv
    <3>2. job = j
      BY <2>1, <2>5, <3>1, MainJob, Zenon DEF Leaves, UsesJob, UsesEntity
    <3> QED
      BY <2>4, <3>1, <3>2, Zenon DEF Leaves
  <2> QED
    BY <2>2, <2>3, <2>4, <2>5, ZenonT(60)
<1> QED
  BY <1>1, JobInvHolds, PTL

\* With a timeout the oldest job of the mirror list is always watched, although
\* amd_sched_job_finish lets go of the lock between leaving the list and arming the timer
\* of the next job.
THEOREM OldestJobWatchedHolds == Spec => []OldestJobWatched
<1> DEFINE Arming == \E j \in Jobs : finish[j] \in {"cancel", "next"}
           Watched == Head(mirror) \in tdr \cup fired
<1>1. Init => OldestJobWatched
  BY Zenon DEF Init, OldestJobWatched
<1>2. ASSUME JobInv, OldestJobWatched, [Next]_vars PROVE OldestJobWatched'
  <2> SUFFICES ASSUME Timeout, mirror' # <<>> PROVE (Watched \/ Arming)'
    BY Zenon DEF OldestJobWatched
  <2>t. /\ Inv1 /\ CallbackInv /\ MirrorInv /\ finish \in [Jobs -> FinishStates]
        /\ mirror \in Seq(Jobs)
        /\ mirror # <<>> => Watched \/ Arming
    BY <1>2, Zenon DEF JobInv, Inv1, TypeOK, JobTypeOK, OldestJobWatched
  <2>1. ASSUME UNCHANGED mirror, \A j \in tdr \cup fired : j \in tdr' \cup fired',
               \A j \in Jobs : finish[j] \in {"cancel", "next"} => finish'[j] = finish[j]
        PROVE  (Watched \/ Arming)'
    BY <2>t, <2>1, Zenon
  <2>2. CASE JobBegin
    <3>1. /\ mirror' = Append(mirror, job) /\ UNCHANGED <<fired, finish>> /\ pc = "begin"
          /\ tdr' = IF mirror = <<>> THEN tdr \cup {job} ELSE tdr
      BY <2>2, Zenon DEF JobBegin
    <3>2. job \in Jobs
      BY <2>t, <3>1, MainJob, Zenon DEF UsesJob, UsesEntity
    <3>3. CASE mirror = <<>>
      <4>1. Head(mirror') = job
        BY <3>1, <3>2, <3>3
      <4> QED
        BY <3>1, <3>3, <4>1, ZenonT(60)
    <3>4. CASE mirror # <<>>
      <4>1. Head(mirror') = Head(mirror)
        BY <2>t, <3>1, <3>2, <3>4, AppendHead, Zenon
      <4> QED
        BY <2>t, <3>1, <3>4, <4>1, ZenonT(60)
    <3> QED
      BY <3>3, <3>4, Zenon
  <2>3. CASE MainIdle \/ (MainRuns /\ ~JobBegin) \/ UNCHANGED <<jobVars, pc, ent, job>>
    <3>1. UNCHANGED <<mirror, tdr, fired, finish>>
      BY <2>3, Zenon
      DEF MainIdle, MainRuns, TakeJob, MainInc, RunJob, FenceScheduled, InstallCallback,
          MainProcessed, KfifoOut, WakeJobScheduled, jobVars
    <3> QED
      BY <2>1, <3>1, Zenon
  <2>4. ASSUME NEW j \in Jobs, JobStep(j) PROVE (Watched \/ Arming)'
    <3>1. CASE \/ JobInit(j) \/ EntityIn(j) \/ PushOn(j) \/ HwSignal(j) \/ ProcessDec(j)
               \/ ProcessWake(j) \/ TdrExpire(j) \/ JobTimedout(j)
      <4>1. UNCHANGED <<mirror, finish>> /\ \A k \in tdr \cup fired : k \in tdr' \cup fired'
        BY <3>1, Zenon
        DEF JobInit, EntityIn, PushOn, HwSignal, ProcessDec, ProcessWake, TdrExpire, JobTimedout
      <4> QED
        BY <2>1, <4>1, Zenon
    <3>2. CASE ProcessSignal(j)
      <4>1. /\ processing[j] = "signal" /\ finish' = [finish EXCEPT ![j] = "queued"]
            /\ UNCHANGED <<mirror, tdr, fired>>
        BY <3>2, Zenon DEF ProcessSignal
      <4>2. finish[j] = "none"
        BY <2>t, <4>1, Zenon DEF CallbackInv
      <4>3. \A k \in Jobs : finish[k] \in {"cancel", "next"} => finish'[k] = finish[k]
        BY <2>t, <4>1, <4>2, Zenon
      <4> QED
        BY <2>1, <4>1, <4>3, Zenon
    <3>3. CASE JobFinish(j) \/ JobFinishCancel(j)
      <4>1. \E s \in {"cancel", "next"} : finish' = [finish EXCEPT ![j] = s]
        BY <3>3, Zenon DEF JobFinish, JobFinishCancel
      <4> QED
        BY <2>t, <4>1, Zenon
    <3>4. CASE JobFinishNext(j)
      <4>1. UNCHANGED mirror /\ tdr' = IF mirror = <<>> THEN tdr ELSE tdr \cup {Head(mirror)}
        BY <3>4, Zenon DEF JobFinishNext, QueueNextTdr
      <4> QED
        BY <4>1, Zenon
    <3> QED
      BY <2>4, <3>1, <3>2, <3>3, <3>4, ZenonT(60) DEF JobStep, ProcessJob, FinishWork
  <2> QED
    BY <2>t, <1>2, <2>2, <2>3, <2>4, JobFrame, ZenonT(60)
<1> QED
  BY <1>1, <1>2, JobInvHolds, PTL DEF Spec

-----------------------------------------------------------------------------
(* Wake-ups *)

\* a wake-up for entity e is still to come
WakeupDue(e) ==
    \/ \E j \in Jobs : EntityOf[j] = e /\ push[j] \in {"first", "add", "wake"}
    \/ e \in waking
    \/ \E j \in Jobs : processing[j] \in {"signal", "wake"}

\* amd_sched_select_entity has passed entity e, or has returned nothing
Passed(e) == pc = "sleep" \/ (pc = "scan" /\ Prio[e] < rqi)

\* an entity that is ready behind the back of amd_sched_select_entity wakes the scheduler
WakeInv ==
    \A e \in Entities : Passed(e) /\ ~woken /\ SchedReady /\ IsReady(e) => WakeupDue(e)

\* no wake-up is lost: an entity gets ready by the push into an empty queue or by the
\* signal of a foreign fence, and the ring gets room in amd_sched_process_job; all of them
\* wake the scheduler afterwards, or find the ring full
LEMMA WakeStep == JobInv /\ RqInv /\ WakeInv /\ [Next]_vars => WakeInv'
<1> SUFFICES ASSUME JobInv, RqInv, WakeInv, [Next]_vars PROVE WakeInv'
  BY Zenon
<1>t. /\ Inv1 /\ EntityTypeOK /\ MainTypeOK /\ JobTypeOK /\ CallbackInv
      /\ EntityOf \in [Jobs -> Entities] /\ Prio \in [Entities -> Priorities]
      /\ push \in [Jobs -> PushStates] /\ processing \in [Jobs -> ProcStates]
  BY SchedSets, Zenon DEF JobInv, Inv1, TypeOK, JobTypeOK
<1>1. CASE SchedMain
  <2>1. CASE MainSelect
    <3>1. \/ pc' = "pop" \/ pc' = "loop"
          \/ /\ pc' \in {"scan", "sleep"} /\ ReadyAt(rqi) = {} /\ pc = "scan"
             /\ pc' = "scan" => rqi' = rqi + 1
             /\ pc' = "sleep" => ~MoreRunQueues
             /\ UNCHANGED <<queue, dependency, woken, hw_rq_count, push, waking, processing>>
      BY <2>1, Zenon DEF MainSelect, NoEntity
    <3>2. CASE pc' = "pop" \/ pc' = "loop"
      BY <3>2, Zenon DEF WakeInv, Passed
    <3>3. CASE pc' # "pop" /\ pc' # "loop"
      <4> SUFFICES ASSUME NEW e \in Entities, Passed(e)', ~woken', SchedReady', IsReady(e)'
                   PROVE  WakeupDue(e)'
        BY Zenon DEF WakeInv
      <4>1. /\ ReadyAt(rqi) = {} /\ pc = "scan"
            /\ ~woken /\ SchedReady /\ IsReady(e)
            /\ WakeupDue(e) => WakeupDue(e)'
        BY <3>1, <3>3, SMTT(60) DEF SchedReady, IsReady, WakeupDue
      <4>2. Prio[e] \in Int /\ rqi \in Int /\ Prio[e] <= rqi
        BY <1>t, <3>1, <3>3
        DEF Passed, MoreRunQueues, AMD_SCHED_MAX_PRIORITY, Priorities, MainTypeOK
      <4>3. CASE Prio[e] < rqi
        BY <4>1, <4>3, Zenon DEF WakeInv, Passed
      <4>4. CASE Prio[e] = rqi
        <5>1. ~Listed(e)
          BY <4>1, <4>4, Zenon DEF ReadyAt, Listed, Elems
        <5>2. \E j \in Jobs : EntityOf[j] = e /\ push[j] \in {"first", "add"}
          BY <4>1, <5>1, Zenon DEF RqInv, RunQueueSound, IsReady
        <5> QED
          BY <4>1, <5>2, Zenon DEF WakeupDue
      <4> QED
        BY <4>2, <4>3, <4>4
    <3> QED
      BY <3>2, <3>3, Zenon
  <2>2. CASE MainReady
    <3>1. \/ pc' = "scan" /\ rqi' = 0
          \/ pc' = "loop"
          \/ pc' = "sleep" /\ ~SchedReady /\ UNCHANGED hw_rq_count
      BY <2>2, Zenon DEF MainReady, NoEntity
    <3> QED
      BY <1>t, <3>1 DEF WakeInv, Passed, SchedReady, Priorities
  <2>3. CASE ~(MainSelect \/ MainReady)
    <3>1. pc' \notin {"scan", "sleep"}
      BY <1>1, <2>3, ZenonT(60)
      DEF SchedMain, MainLoop, MainPrepare, MainPark, MainSleep, PopJob, AddDependencyCb,
          MainInc, JobBegin, RunJob, FenceScheduled, InstallCallback, MainProcessed, KfifoOut,
          WakeJobScheduled
    <3> QED
      BY <3>1, Zenon DEF WakeInv, Passed
  <2> QED
    BY <2>1, <2>2, <2>3, Zenon
<1>2. ASSUME UNCHANGED <<pc, rqi, woken, hw_rq_count, queue, dependency>>,
             \A e \in Entities : WakeupDue(e) => WakeupDue(e)'
      PROVE  WakeInv'
  BY <1>2, Zenon DEF WakeInv, Passed, SchedReady, IsReady
<1>3. ASSUME woken' = TRUE PROVE WakeInv'
  BY <1>3, Zenon DEF WakeInv
<1>4. ASSUME NEW j \in Jobs,
             JobInit(j) \/ PushJob(j) \/ HwSignal(j) \/ ProcessJob(j)
               \/ FinishWork(j) \/ TdrExpire(j) \/ JobTimedout(j)
      PROVE  WakeInv'
  <2>1. CASE JobInit(j) \/ RqAddEntityCheck(j) \/ RqAddEntity(j)
    <3>1. /\ UNCHANGED <<pc, rqi, woken, hw_rq_count, queue, dependency, waking, processing>>
          /\ \/ push[j] = "new" /\ push' = [push EXCEPT ![j] = "init"]
             \/ \E s \in {"add", "wake"} : push' = [push EXCEPT ![j] = s]
      <4>1. CASE RqAddEntityCheck(j)
        BY <4>1, Zenon DEF RqAddEntityCheck
      <4>2. CASE JobInit(j) \/ RqAddEntity(j)
        BY <4>2, Zenon DEF JobInit, RqAddEntity
      <4> QED
        BY <2>1, <4>1, <4>2, Zenon
    <3>2. \A k \in Jobs : push[k] \in {"first", "add", "wake"} => push'[k] \in {"first", "add", "wake"}
      BY <1>t, <3>1, Zenon
    <3>3. \A e \in Entities : WakeupDue(e) => WakeupDue(e)'
      BY <3>1, <3>2, Zenon DEF WakeupDue
    <3> QED
      BY <1>2, <3>1, <3>3, Zenon
  <2>2. CASE EntityIn(j)
    <3>1. /\ UNCHANGED <<pc, rqi, woken, hw_rq_count, dependency, waking, processing>>
          /\ push[j] = "init"
          /\ \/ UNCHANGED <<queue, push>>
             \/ /\ queue' = [queue EXCEPT ![EntityOf[j]] = Append(@, j)]
                /\ push' = [push EXCEPT ![j] = IF queue[EntityOf[j]] = <<>> THEN "first" ELSE "done"]
      BY <2>2, Zenon DEF EntityIn
    <3>2. \A k \in Jobs : push[k] \in {"first", "add", "wake"} => push'[k] = push[k]
      BY <1>t, <3>1, Zenon
    <3>3. \A e \in Entities : WakeupDue(e) => WakeupDue(e)'
      BY <3>1, <3>2, Zenon DEF WakeupDue
    <3>4. CASE UNCHANGED <<queue, push>>
      BY <1>2, <3>1, <3>3, <3>4, Zenon
    <3>5. CASE ~UNCHANGED <<queue, push>>
      <4> SUFFICES ASSUME NEW e \in Entities, Passed(e)', ~woken', SchedReady', IsReady(e)'
                   PROVE  WakeupDue(e)'
        BY Zenon DEF WakeInv
      <4>1. Passed(e) /\ ~woken /\ SchedReady /\ dependency[e] = NULL
        BY <3>1, Zenon DEF Passed, SchedReady, IsReady
      <4>2. CASE queue[e] # <<>>
        BY <3>3, <4>1, <4>2, Zenon DEF WakeInv, IsReady
      <4>3. CASE queue[e] = <<>>
        <5>1. e = EntityOf[j]
          BY <1>t, <3>1, <3>5, <4>3, Zenon DEF IsReady, EntityTypeOK
        <5>2. push'[j] = "first"
          BY <1>t, <3>1, <3>5, <4>3, <5>1, ZenonT(60)
        <5> QED
          BY <5>1, <5>2, Zenon DEF WakeupDue
      <4> QED
        BY <4>2, <4>3, Zenon
    <3> QED
      BY <3>4, <3>5, Zenon
  <2>3. CASE PushWakeup(j)
    <3>1. \/ woken' = TRUE
          \/ ~SchedReady /\ UNCHANGED hw_rq_count
      BY <2>3, Zenon DEF PushWakeup, SchedWakeup
    <3> QED
      BY <1>3, <3>1, Zenon DEF WakeInv, SchedReady
  <2>4. CASE HwSignal(j)
    <3>1. /\ hw[j] = "emitted"
          /\ UNCHANGED <<pc, rqi, woken, hw_rq_count, queue, dependency, waking, push>>
          /\ processing' = processing \/ processing' = [processing EXCEPT ![j] = "dec"]
      BY <2>4, Zenon DEF HwSignal
    <3>2. processing[j] = "none"
      BY <1>t, <3>1, Zenon DEF CallbackInv
    <3>3. \A k \in Jobs : processing[k] \in {"signal", "wake"} => processing'[k] = processing[k]
      BY <1>t, <3>1, <3>2, Zenon
    <3>4. \A e \in Entities : WakeupDue(e) => WakeupDue(e)'
      BY <3>1, <3>3, Zenon DEF WakeupDue
    <3> QED
      BY <1>2, <3>1, <3>4, Zenon
  <2>5. CASE ProcessDec(j) \/ ProcessSignal(j)
    <3>1. \E s \in {"signal", "wake"} : processing' = [processing EXCEPT ![j] = s]
      BY <2>5, Zenon DEF ProcessDec, ProcessSignal
    <3>2. \A e \in Entities : WakeupDue(e)'
      BY <1>t, <3>1, Zenon DEF WakeupDue
    <3> QED
      BY <3>2, Zenon DEF WakeInv
  <2>6. CASE ProcessWake(j)
    BY <1>3, <2>6, Zenon DEF ProcessWake
  <2>7. CASE FinishWork(j) \/ TdrExpire(j) \/ JobTimedout(j)
    <3>1. UNCHANGED <<pc, rqi, woken, hw_rq_count, queue, dependency, waking, push, processing>>
      BY <2>7, Zenon
      DEF FinishWork, JobFinish, JobFinishCancel, JobFinishNext, TdrExpire, JobTimedout
    <3> QED
      BY <1>2, <3>1, Zenon DEF WakeupDue
  <2> QED
    BY <1>4, <2>1, <2>2, <2>3, <2>4, <2>5, <2>6, <2>7, ZenonT(60) DEF PushJob, ProcessJob
<1>5. ASSUME NEW e \in Entities, EntityFini(e) \/ FiniSteps(e) PROVE WakeInv'
  <2>1. UNCHANGED <<pc, rqi, woken, hw_rq_count, queue, dependency, waking, push, processing>>
    BY <1>5, Zenon DEF EntityFini, FiniSteps, EntityFiniWait, RqRemoveEntity
  <2> QED
    BY <1>2, <2>1, Zenon DEF WakeupDue
<1>6. ASSUME NEW e \in Entities, EntityWakeup(e) PROVE WakeInv'
  <2>1. \/ woken' = TRUE
        \/ ~SchedReady /\ UNCHANGED hw_rq_count
    BY <1>6, Zenon DEF EntityWakeup, SchedWakeup
  <2> QED
    BY <1>3, <2>1, Zenon DEF WakeInv, SchedReady
<1>7. ASSUME NEW f \in ExtFences, ExtSignal(f) PROVE WakeInv'
  <2>1. /\ UNCHANGED <<pc, rqi, woken, hw_rq_count, queue, push, processing>>
        /\ dependency' = [e \in Entities |-> IF cb[e] = <<"ext", f>> THEN NULL ELSE dependency[e]]
        /\ waking' = waking \cup {e \in Entities : cb[e] = <<"ext", f>>}
    BY <1>7, Zenon DEF ExtSignal, ClearDep
  <2>2. ASSUME NEW e \in Entities, Passed(e)', ~woken', SchedReady', IsReady(e)'
        PROVE  WakeupDue(e)'
    <3>1. CASE cb[e] = <<"ext", f>>
      BY <2>1, <3>1, Zenon DEF WakeupDue
    <3>2. CASE cb[e] # <<"ext", f>>
      <4>1. IsReady(e) /\ Passed(e) /\ ~woken /\ SchedReady
        BY <2>1, <2>2, <3>2, Zenon DEF IsReady, Passed, SchedReady
      <4>2. WakeupDue(e)
        BY <4>1, Zenon DEF WakeInv
      <4> QED
        BY <2>1, <4>2, Zenon DEF WakeupDue
    <3> QED
      BY <3>1, <3>2, Zenon
  <2> QED
    BY <2>2 DEF WakeInv
<1>8. CASE KthreadPark \/ SchedFini
  BY <1>3, <1>8, Zenon DEF KthreadPark, SchedFini
<1>9. CASE KthreadUnpark \/ UNCHANGED vars
  <2>1. UNCHANGED <<pc, rqi, woken, hw_rq_count, queue, dependency, waking, push, processing>>
    BY <1>9, Zenon DEF KthreadUnpark, vars
  <2> QED
    BY <1>2, <2>1, Zenon DEF WakeupDue
<1> QED
  BY <1>1, <1>4, <1>5, <1>6, <1>7, <1>8, <1>9, ZenonT(60) DEF Next

\* amd_sched_main never sleeps while the ring has room and an entity is ready, unless the
\* wake-up for it is still to come: neither the wake-up that amd_sched_wakeup skips when the
\* ring is full nor the one amd_sched_entity_clear_dep does not send is missed.
THEOREM NoLostWakeupHolds == Spec => []NoLostWakeup
<1>1. Init => WakeInv
  BY Zenon DEF Init, WakeInv, Passed
<1>2. WakeInv => NoLostWakeup
  BY Zenon DEF WakeInv, NoLostWakeup, Passed, WakeupDue
<1> QED
  BY <1>1, <1>2, JobInvHolds, RqInvHolds, WakeStep, PTL DEF Spec

-----------------------------------------------------------------------------
(* The jobs on the ring *)

\* amd_sched_main has found room on the ring and not used it yet
Admitted == {"scan", "pop", "adddep", "inc"}

\* only amd_sched_main and amd_sched_process_job change hw_rq_count, and nobody but
\* amd_sched_main finds room
LEMMA CountFrame ==
    ASSUME [Next]_vars
    PROVE  /\ UNCHANGED hw_rq_count \/ MainInc \/ \E j \in Jobs : ProcessDec(j)
           /\ pc' \in Admitted => pc \in Admitted \/ SchedReady
<1>1. CASE SchedMain
  <2>1. UNCHANGED hw_rq_count \/ MainInc
    BY <1>1, Zenon
    DEF SchedMain, MainLoop, MainPrepare, MainPark, MainReady, MainSelect, MainSleep, PopJob,
        AddDependencyCb, JobBegin, RunJob, FenceScheduled, InstallCallback, MainProcessed,
        KfifoOut, WakeJobScheduled
  <2>2. pc' \in Admitted => pc \in Admitted \/ SchedReady
    BY <1>1, Zenon
    DEF SchedMain, MainLoop, MainPrepare, MainPark, MainReady, MainSelect, MainSleep, PopJob,
        AddDependencyCb, MainInc, JobBegin, RunJob, FenceScheduled, InstallCallback,
        MainProcessed, KfifoOut, WakeJobScheduled, NoEntity, Admitted
  <2> QED
    BY <2>1, <2>2, Zenon
<1>2. ASSUME NEW j \in Jobs,
             JobInit(j) \/ PushJob(j) \/ HwSignal(j) \/ ProcessJob(j)
               \/ FinishWork(j) \/ TdrExpire(j) \/ JobTimedout(j)
      PROVE  (UNCHANGED hw_rq_count \/ ProcessDec(j)) /\ UNCHANGED pc
  BY <1>2, Zenon
  DEF JobInit, PushJob, EntityIn, RqAddEntityCheck, RqAddEntity, PushWakeup, HwSignal,
      ProcessJob, ProcessDec, ProcessSignal, ProcessWake, FinishWork, JobFinish,
      JobFinishCancel, JobFinishNext, TdrExpire, JobTimedout
<1>3. ASSUME NEW e \in Entities, EntityFini(e) \/ FiniSteps(e) \/ EntityWakeup(e)
      PROVE  UNCHANGED <<hw_rq_count, pc>>
  BY <1>3, Zenon DEF EntityFini, FiniSteps, EntityFiniWait, RqRemoveEntity, EntityWakeup
<1>4. ASSUME NEW f \in ExtFences, ExtSignal(f)
      PROVE  UNCHANGED <<hw_rq_count, pc>>
  BY <1>4, Zenon DEF ExtSignal
<1>5. CASE KthreadPark \/ KthreadUnpark \/ SchedFini
  BY <1>5, Zenon DEF KthreadPark, KthreadUnpark, SchedFini
<1>6. CASE UNCHANGED vars
  BY <1>6, Zenon DEF vars
<1> QED
  BY <1>1, <1>2, <1>3, <1>4, <1>5, <1>6, ZenonT(60) DEF Next

\* which jobs a step puts on the ring and takes off
LEMMA OccupiedStep ==
    ASSUME JobInv, [Next]_vars
    PROVE  \/ Occupied' = Occupied /\ UNCHANGED hw_rq_count
           \/ MainInc /\ job \in Jobs \ Occupied /\ Occupied' = Occupied \cup {job}
           \/ \E j \in Occupied : ProcessDec(j) /\ Occupied' = Occupied \ {j}
<1> DEFINE Runs == {"begin", "run", "scheduled", "install"}
<1>t. /\ Inv1 /\ HwInv /\ CallbackInv /\ pc \in MainStates
      /\ processing \in [Jobs -> ProcStates] /\ pcb \subseteq Jobs /\ NULL \notin Jobs
  BY NullDistinct, Zenon DEF JobInv, Inv1, TypeOK, MainTypeOK, JobTypeOK
<1>m. ASSUME pc \in UsesJob PROVE job \in Jobs
  BY <1>t, <1>m, MainJob, Zenon
<1>1. CASE MainInc
  <2>1. pc = "inc" /\ pc' = "begin" /\ UNCHANGED <<job, pcb, processing>>
    BY <1>1, Zenon DEF MainInc
  <2>2. job \in Jobs /\ hw[job] = "none"
    BY <1>t, <1>m, <2>1, Zenon DEF UsesJob, UsesEntity, HwInv
  <2>3. job \notin pcb /\ processing[job] # "dec"
    BY <1>t, <2>2, Zenon DEF CallbackInv
  <2>4. job \notin Occupied
    BY <2>1, <2>3, Zenon DEF Occupied
  <2>5. Occupied' = Occupied \cup {job}
    BY <2>1, <2>2, Zenon DEF Occupied
  <2> QED
    BY <1>1, <2>2, <2>4, <2>5, Zenon
<1>2. ASSUME NEW j \in Jobs, ProcessDec(j)
      PROVE  j \in Occupied /\ Occupied' = Occupied \ {j}
  <2>1. /\ processing[j] = "dec" /\ processing' = [processing EXCEPT ![j] = "signal"]
        /\ UNCHANGED <<job, pcb, pc>>
    BY <1>2, Zenon DEF ProcessDec
  <2>2. j \notin pcb /\ ~(j = job /\ pc \in Runs)
    BY <1>t, <2>1, Zenon DEF CallbackInv, HwInv
  <2>3. processing'[j] # "dec" /\ \A k \in Jobs : k # j => processing'[k] = processing[k]
    BY <1>t, <2>1, Zenon
  <2>4. j \in Occupied
    BY <2>1, Zenon DEF Occupied
  <2>5. Occupied' = Occupied \ {j}
    BY <2>1, <2>2, <2>3, Zenon DEF Occupied
  <2> QED
    BY <2>4, <2>5, Zenon
<1>3. CASE ~MainInc /\ \A j \in Jobs : ~ProcessDec(j)
  <2> SUFFICES Occupied' = Occupied
    BY <1>3, CountFrame, Zenon
  <2>e. ASSUME \A j \in Jobs : ((j = job' /\ pc' \in Runs) \/ j \in pcb' \/ processing'[j] = "dec")
                               <=> ((j = job /\ pc \in Runs) \/ j \in pcb \/ processing[j] = "dec")
        PROVE  Occupied' = Occupied
    BY <2>e, Zenon DEF Occupied
  <2>1. ASSUME pcb' = pcb, job' = job, pc' \in Runs <=> pc \in Runs,
               \A j \in Jobs : processing'[j] = "dec" <=> processing[j] = "dec"
        PROVE  Occupied' = Occupied
    BY <2>1, Zenon DEF Occupied
  <2>2. CASE UNCHANGED <<jobVars, pc, ent, job>> \/ MainIdle
    <3>1. UNCHANGED <<pcb, processing, job>> /\ (pc' = pc \/ (pc \in Idle /\ pc' \in Idle))
      BY <2>2, Zenon DEF MainIdle, jobVars
    <3>2. pc' \in Runs <=> pc \in Runs
      BY <3>1, Zenon DEF Idle
    <3> QED
      BY <2>1, <3>1, <3>2, Zenon
  <2>3. CASE TakeJob \/ WakeJobScheduled
    <3>1. pc \notin Runs /\ pc' \notin Runs /\ UNCHANGED <<pcb, processing>>
      BY <2>3, Zenon DEF TakeJob, WakeJobScheduled, jobVars
    <3> HIDE DEF Runs
    <3> QED
      BY <2>e, <3>1, Zenon
  <2>4. CASE JobBegin \/ RunJob \/ FenceScheduled \/ MainProcessed \/ KfifoOut
    BY <2>4, <2>1, Zenon DEF JobBegin, RunJob, FenceScheduled, MainProcessed, KfifoOut
  <2>5. CASE InstallCallback
    <3>1. /\ pc = "install" /\ pc' \in {"out", "process"} /\ UNCHANGED job
          /\ \/ pcb' = pcb \cup {job} /\ UNCHANGED processing
             \/ processing' = [processing EXCEPT ![job] = "dec"] /\ UNCHANGED pcb
      BY <2>5, Zenon DEF InstallCallback
    <3>2. job \in Jobs
      BY <1>m, <3>1, Zenon DEF UsesJob, UsesEntity
    <3>3. \A j \in Jobs : (j \in pcb' \/ processing'[j] = "dec")
                          <=> (j = job \/ j \in pcb \/ processing[j] = "dec")
      BY <1>t, <3>1, <3>2, Zenon
    <3>4. pc \in Runs /\ pc' \notin Runs
      BY <3>1, Zenon
    <3> HIDE DEF Runs
    <3> QED
      BY <2>e, <3>1, <3>3, <3>4, Zenon
  <2>6. ASSUME NEW j \in Jobs, HwSignal(j) PROVE Occupied' = Occupied
    <3>1. /\ pcb' = pcb \ {j} /\ UNCHANGED <<job, pc>>
          /\ processing' = IF j \in pcb THEN [processing EXCEPT ![j] = "dec"] ELSE processing
      BY <2>6, Zenon DEF HwSignal
    <3>2. \A k \in Jobs : (k \in pcb' \/ processing'[k] = "dec")
                          <=> (k \in pcb \/ processing[k] = "dec")
      BY <1>t, <3>1, Zenon
    <3> QED
      BY <3>1, <3>2, Zenon DEF Occupied
  <2>7. ASSUME NEW j \in Jobs, ProcessSignal(j) \/ ProcessWake(j) PROVE Occupied' = Occupied
    <3>1. /\ UNCHANGED <<pcb, job, pc>> /\ processing[j] # "dec"
          /\ \E s \in {"wake", "none"} : processing' = [processing EXCEPT ![j] = s]
      BY <2>7, Zenon DEF ProcessSignal, ProcessWake
    <3>2. \A k \in Jobs : processing'[k] = "dec" <=> processing[k] = "dec"
      BY <1>t, <3>1, Zenon
    <3> QED
      BY <2>1, <3>1, <3>2, Zenon
  <2>8. ASSUME NEW j \in Jobs,
               JobInit(j) \/ EntityIn(j) \/ PushOn(j) \/ FinishWork(j) \/ TdrExpire(j)
                 \/ JobTimedout(j)
        PROVE  Occupied' = Occupied
    <3>1. UNCHANGED <<pcb, processing, job, pc>>
      BY <2>8, Zenon
      DEF JobInit, EntityIn, PushOn, FinishWork, JobFinish, JobFinishCancel, JobFinishNext,
          TdrExpire, JobTimedout
    <3> QED
      BY <2>1, <3>1, Zenon
  <2> QED
    <3>1. CASE MainRuns
      BY <1>3, <3>1, <2>3, <2>4, <2>5, Zenon DEF MainRuns
    <3>2. ASSUME NEW j \in Jobs, JobStep(j) PROVE Occupied' = Occupied
      BY <1>3, <3>2, <2>6, <2>7, <2>8, Zenon DEF JobStep, ProcessJob
    <3> QED
      BY <1>t, <2>2, <3>1, <3>2, JobFrame, Zenon
<1> QED
  BY <1>1, <1>2, <1>3, Zenon

-----------------------------------------------------------------------------
(* A job starts after what it depends on *)

\* what f stands for has happened, or the hardware resolves it by itself
Resolved(f) == IF f[1] = "ext" THEN f[2] \in extSignaled ELSE hw[f[2]] # "none"

\* the fence whose callback list amd_sched_entity_add_dependency_cb uses for f
WaitsFor(f) == IF f[1] = "ext" THEN f ELSE <<"scheduled", f[2]>>

\* dependency f of job j is not forgotten: it is in job->sync, or resolved, or
\* amd_sched_main has just taken it out, or the entity waits for it
Accounted(j, f) ==
    \/ f \in sync[j]
    \/ Resolved(f)
    \/ pc = "adddep" /\ j = queue[ent][1] /\ dependency[ent] = f
    \/ cb[EntityOf[j]] = WaitsFor(f)

\* a job depends on jobs that were queued before it was initialised, ...
DepsPushed ==
    \A j \in Jobs : push[j] # "new" =>
        \A f \in Deps[j] : f[1] # "ext" => push[f[2]] \notin {"new", "init"}

\* ... and that are before it if they are in the same queue, ...
DepsBefore ==
    \A e \in Entities : \A i, k \in DOMAIN queue[e] : \A f \in Deps[queue[e][i]] :
        f[1] # "ext" /\ f[2] = queue[e][k] => k < i

\* ... no dependency of it is forgotten, ...
DepsAccounted ==
    \A j \in Jobs : push[j] # "new" => \A f \in Deps[j] : Accounted(j, f)

\* ... and all are resolved when amd_sched_entity_pop_job returns it
DepsResolved == pc \in {"inc", "begin", "run"} => \A f \in Deps[job] : Resolved(f)

DepInv == DepsPushed /\ DepsBefore /\ DepsAccounted /\ DepsResolved

\* the steps of the scheduler as far as dependencies are concerned
LEMMA DepFrame ==
    ASSUME [Next]_vars
    PROVE  \/ /\ UNCHANGED <<sync, dependency, cb, extSignaled>>
              /\ pc = "adddep" => UNCHANGED <<pc, ent>>
              /\ pc' \in {"inc", "begin", "run"} => pc \in {"inc", "begin"} /\ job' = job
           \/ UNCHANGED <<sync, dependency, cb, extSignaled, pc, ent, job>>
           \/ PopJob \/ AddDependencyCb \/ FenceScheduled
           \/ \E j \in Jobs : JobInit(j)
           \/ \E f \in ExtFences : ExtSignal(f)
<1>1. CASE SchedMain
  <2>1. CASE MainLoop \/ MainPrepare \/ MainPark \/ MainReady \/ MainSelect \/ MainSleep
    BY <2>1, Zenon
    DEF MainLoop, MainPrepare, MainPark, MainReady, MainSelect, MainSleep, NoEntity
  <2>2. CASE MainInc \/ JobBegin \/ RunJob \/ InstallCallback \/ MainProcessed \/ KfifoOut
               \/ WakeJobScheduled
    BY <2>2, Zenon
    DEF MainInc, JobBegin, RunJob, InstallCallback, MainProcessed, KfifoOut, WakeJobScheduled
  <2> QED
    BY <1>1, <2>1, <2>2, Zenon DEF SchedMain
<1>2. ASSUME NEW j \in Jobs,
             PushJob(j) \/ HwSignal(j) \/ ProcessJob(j)
               \/ FinishWork(j) \/ TdrExpire(j) \/ JobTimedout(j)
      PROVE  UNCHANGED <<sync, dependency, cb, extSignaled, pc, ent, job>>
  BY <1>2, Zenon
  DEF PushJob, EntityIn, RqAddEntityCheck, RqAddEntity, PushWakeup, HwSignal,
      ProcessJob, ProcessDec, ProcessSignal, ProcessWake, FinishWork, JobFinish,
      JobFinishCancel, JobFinishNext, TdrExpire, JobTimedout
<1>3. ASSUME NEW e \in Entities, EntityFini(e) \/ FiniSteps(e) \/ EntityWakeup(e)
      PROVE  UNCHANGED <<sync, dependency, cb, extSignaled, pc, ent, job>>
  BY <1>3, Zenon DEF EntityFini, FiniSteps, EntityFiniWait, RqRemoveEntity, EntityWakeup
<1>5. CASE KthreadPark \/ KthreadUnpark \/ SchedFini
  BY <1>5, Zenon DEF KthreadPark, KthreadUnpark, SchedFini
<1>6. CASE UNCHANGED vars
  BY <1>6, Zenon DEF vars
<1> QED
  BY <1>1, <1>2, <1>3, <1>5, <1>6, Zenon DEF Next

\* a job that is queued or started stays so, and a signaled fence stays signaled
LEMMA DepsGrow ==
    ASSUME Inv1, [Next]_vars
    PROVE  /\ \A j \in Jobs : push[j] \notin {"new", "init"} => push'[j] \notin {"new", "init"}
           /\ \A j \in Jobs : push[j] = "new" => push'[j] = "new" \/ JobInit(j)
           /\ \A j \in Jobs : hw[j] # "none" => hw'[j] # "none"
           /\ extSignaled \subseteq extSignaled'
<1>t. push \in [Jobs -> PushStates] /\ hw \in [Jobs -> HwStates]
  BY Zenon DEF Inv1, TypeOK, JobTypeOK
<1>1. extSignaled \subseteq extSignaled'
  BY DepFrame, Zenon
  DEF PopJob, AddDependencyCb, FenceScheduled, JobInit, ExtSignal, vars
<1>2. CASE UNCHANGED <<jobVars, pc, ent, job>> \/ MainIdle
  BY <1>1, <1>2, Zenon DEF MainIdle, jobVars
<1>3. CASE MainRuns
  <2>1. CASE ~RunJob
    BY <1>1, <1>3, <2>1, Zenon
    DEF MainRuns, TakeJob, MainInc, JobBegin, FenceScheduled, InstallCallback, MainProcessed,
        KfifoOut, WakeJobScheduled, jobVars
  <2>2. CASE RunJob
    <3>1. push' = push /\ \E h \in {"emitted", "failed"} : hw' = [hw EXCEPT ![job] = h]
      BY <2>2, Zenon DEF RunJob
    <3> QED
      BY <1>t, <1>1, <3>1, Zenon
  <2> QED
    BY <2>1, <2>2, Zenon
<1>4. ASSUME NEW j \in Jobs, JobStep(j)
      PROVE  /\ \A k \in Jobs : push[k] \notin {"new", "init"} => push'[k] \notin {"new", "init"}
             /\ \A k \in Jobs : push[k] = "new" => push'[k] = "new" \/ JobInit(k)
             /\ \A k \in Jobs : hw[k] # "none" => hw'[k] # "none"
  <2>1. CASE JobInit(j)
    <3>1. push[j] = "new" /\ push' = [push EXCEPT ![j] = "init"] /\ hw' = hw
      BY <2>1, Zenon DEF JobInit
    <3> QED
      BY <1>t, <2>1, <3>1, Zenon
  <2>2. CASE EntityIn(j) \/ PushOn(j)
    <3>1. /\ hw' = hw /\ push[j] # "new"
          /\ push' = push
             \/ \E s \in {"first", "add", "wake", "done"} : push' = [push EXCEPT ![j] = s]
      BY <2>2, Zenon DEF EntityIn, PushOn
    <3> QED
      BY <1>t, <3>1, Zenon
  <2>3. CASE HwSignal(j)
    <3>1. push' = push /\ hw' = [hw EXCEPT ![j] = "signaled"]
      BY <2>3, Zenon DEF HwSignal
    <3> QED
      BY <1>t, <3>1, Zenon
  <2>4. CASE ProcessJob(j) \/ FinishWork(j) \/ TdrExpire(j) \/ JobTimedout(j)
    BY <2>4, Zenon
    DEF ProcessJob, ProcessDec, ProcessSignal, ProcessWake, FinishWork, JobFinish,
        JobFinishCancel, JobFinishNext, TdrExpire, JobTimedout
  <2> QED
    BY <1>4, <2>1, <2>2, <2>3, <2>4, Zenon DEF JobStep
<1> QED
  BY <1>1, <1>2, <1>3, <1>4, JobFrame, Zenon

\* what is resolved stays resolved
LEMMA ResolvedStep ==
    ASSUME Inv1, [Next]_vars, NEW f \in Fences, Resolved(f)
    PROVE  Resolved(f)'
<1>1. CASE f[1] = "ext"
  BY <1>1, DepsGrow, Zenon DEF Resolved
<1>2. CASE f[1] # "ext"
  BY <1>2, FenceCases, DepsGrow, Zenon DEF Resolved
<1> QED
  BY <1>1, <1>2, Zenon

\* a fence that is signaled is resolved, and so is one whose wait is over
LEMMA SignaledResolved ==
    ASSUME CallbackInv, NEW f \in Fences, Signaled(f) \/ Signaled(WaitsFor(f))
    PROVE  Resolved(f)
<1>1. CASE f[1] = "ext"
  <2>1. Signaled(f)
    BY <1>1, Zenon DEF WaitsFor
  <2> QED
    BY <1>1, <2>1, Zenon DEF Signaled, Resolved
<1>2. CASE f[1] # "ext"
  <2>1. f[2] \in Jobs /\ f[1] \in {"scheduled", "finished"}
    BY <1>2, FenceCases, Zenon
  <2>2. f[2] \in scheduled \cup finished
    BY <1>2, <2>1, Zenon DEF Signaled, WaitsFor
  <2>3. hw[f[2]] # "none"
    BY <2>1, <2>2, Zenon DEF CallbackInv
  <2> QED
    BY <1>2, <2>3, Zenon DEF Resolved
<1> QED
  BY <1>1, <1>2, Zenon

\* amd_sched_job_init is given fences of jobs that have been pushed, and those stay pushed
LEMMA DepsPushedStep == JobInv /\ DepInv /\ [Next]_vars => DepsPushed'
<1> SUFFICES ASSUME JobInv, DepInv, [Next]_vars, NEW j \in Jobs, push'[j] # "new",
                    NEW f \in Deps[j], f[1] # "ext"
             PROVE  push'[f[2]] \notin {"new", "init"}
  BY Zenon DEF DepsPushed
<1>1. Inv1 /\ f \in Fences
  BY SchedSets, Zenon DEF JobInv
<1>2. f[2] \in Jobs
  BY <1>1, FenceCases, Zenon
<1>3. push[f[2]] \notin {"new", "init"}
  BY <1>1, DepsGrow, Zenon DEF DepInv, DepsPushed, JobInit
<1> QED
  BY <1>1, <1>2, <1>3, DepsGrow, Zenon

\* the dependencies of a job taken from its queue have all been met: DepsResolved is kept
LEMMA DepsResolvedStep == JobInv /\ DepInv /\ [Next]_vars => DepsResolved'
<1> SUFFICES ASSUME JobInv, DepInv, [Next]_vars, pc' \in {"inc", "begin", "run"},
                    NEW f \in Deps[job']
             PROVE  Resolved(f)'
  BY Zenon DEF DepsResolved
<1>t. Inv1 /\ QueueInv /\ CallbackInv /\ EntityTypeOK /\ MainInv
  BY Zenon DEF JobInv, Inv1, TypeOK
<1>1. CASE PopJob
  <2>0. /\ pc = "pop" /\ queue[ent] # <<>> /\ job' = Head(queue[ent])
        /\ {g \in sync[Head(queue[ent])] : ~Signaled(g)} = {}
    <3>1. \/ /\ pc = "pop" /\ queue[ent] # <<>> /\ job' = Head(queue[ent])
             /\ {g \in sync[Head(queue[ent])] : ~Signaled(g)} = {}
          \/ pc' = "adddep"
      BY <1>1, Zenon DEF PopJob
    <3> QED
      BY <3>1, Zenon
  <2>1. /\ ent \in Entities /\ \A g \in sync[Head(queue[ent])] : Signaled(g)
    <3>1. ent \in Entities
      BY <1>t, <2>0, Zenon DEF MainInv, UsesEntity
    <3>2. ASSUME NEW g \in sync[Head(queue[ent])], ~Signaled(g) PROVE FALSE
      <4>1. g \in {h \in sync[Head(queue[ent])] : ~Signaled(h)}
        BY <3>2, Zenon
      <4> QED
        BY <2>0, <4>1, Zenon
    <3> QED
      BY <3>1, <3>2, Zenon
  <2>2. /\ 1 \in DOMAIN queue[ent] /\ job' = queue[ent][1] /\ job' \in Jobs
    BY <1>t, <2>0, <2>1, QueueSeq, Zenon
  <2>3. EntityOf[job'] = ent /\ push[job'] # "new" /\ cb[ent] = NULL
    <3>1. cb[ent] = NULL
      BY <1>t, <2>0, Zenon DEF MainInv, UsesEntity
    <3>2. EntityOf[queue[ent][1]] = ent /\ push[queue[ent][1]] \notin {"new", "init"}
      BY <1>t, <2>1, <2>2, Zenon DEF QueueInv
    <3> QED
      BY <2>2, <3>1, <3>2, Zenon
  <2>4. f \in Fences
    BY <2>2, SchedSets, Zenon
  <2>5. WaitsFor(f) # NULL
    BY <2>4, FenceCases, NullDistinct, Zenon DEF WaitsFor
  <2>6. f \in sync[job'] \/ Resolved(f)
    BY <2>0, <2>2, <2>3, <2>5, Zenon DEF DepInv, DepsAccounted, Accounted
  <2>7. Resolved(f)
    BY <1>t, <2>0, <2>1, <2>4, <2>6, SignaledResolved, Zenon
  <2> QED
    BY <1>t, <2>4, <2>7, ResolvedStep, Zenon
<1>2. CASE ~PopJob
  <2>1. pc \in {"inc", "begin", "run"} /\ job' = job
    BY <1>2, DepFrame, Zenon DEF AddDependencyCb, FenceScheduled, JobInit, ExtSignal
  <2>2. job \in Jobs
    BY <1>t, <2>1, MainJob, Zenon DEF UsesJob, UsesEntity
  <2>3. f \in Fences /\ Resolved(f)
    BY <2>1, <2>2, SchedSets, Zenon DEF DepInv, DepsResolved
  <2> QED
    BY <1>t, <2>3, ResolvedStep, Zenon
<1> QED
  BY <1>1, <1>2, Zenon

\* only kfifo_in and kfifo_out change a queue
LEMMA QueueFrame ==
    ASSUME Inv1, [Next]_vars
    PROVE  \/ UNCHANGED queue
           \/ KfifoOut
           \/ \E j \in Jobs : EntityIn(j) /\ ~UNCHANGED <<queue, push>>
<1>1. CASE UNCHANGED <<jobVars, pc, ent, job>> \/ MainIdle
  BY <1>1, Zenon DEF MainIdle, jobVars
<1>2. CASE MainRuns
  BY <1>2, Zenon
  DEF MainRuns, TakeJob, MainInc, JobBegin, RunJob, FenceScheduled, InstallCallback,
      MainProcessed, WakeJobScheduled, jobVars
<1>3. ASSUME NEW j \in Jobs, JobStep(j)
      PROVE  UNCHANGED queue \/ (EntityIn(j) /\ ~UNCHANGED <<queue, push>>)
  BY <1>3, Zenon
  DEF JobStep, JobInit, PushOn, HwSignal, ProcessJob, ProcessDec, ProcessSignal, ProcessWake,
      FinishWork, JobFinish, JobFinishCancel, JobFinishNext, TdrExpire, JobTimedout
<1> QED
  BY <1>1, <1>2, <1>3, JobFrame, Zenon

\* a new job is behind the jobs it depends on, and kfifo_out keeps the order
LEMMA DepsBeforeStep == JobInv /\ DepInv /\ [Next]_vars => DepsBefore'
<1> SUFFICES ASSUME JobInv, DepInv, [Next]_vars PROVE DepsBefore'
  BY Zenon
<1>t. /\ Inv1 /\ QueueInv /\ DepsBefore /\ DepsPushed
      /\ \A e \in Entities : \A i \in DOMAIN queue[e] : i \in Nat /\ queue[e][i] \in Jobs
  BY QueueSeq DEF JobInv, Inv1, TypeOK, DepInv
<1>1. CASE UNCHANGED queue
  BY <1>1, <1>t, Zenon DEF DepsBefore
<1>2. CASE KfifoOut
  <2>1. ent \in Entities /\ \A e \in Entities \ {ent} : queue'[e] = queue[e]
    BY <1>t, <1>2, QueueOut, Zenon
  <2>2. PICK n \in Nat : /\ DOMAIN queue[ent] = 1..(n + 1)
                         /\ DOMAIN queue'[ent] = 1..n
                         /\ \A i \in 1..n : queue'[ent][i] = queue[ent][i + 1]
    BY <1>t, <1>2, QueueOut, Zenon
  <2>3. ASSUME NEW i \in 1..n, NEW k \in 1..n, NEW f \in Deps[queue[ent][i + 1]],
               f[1] # "ext", f[2] = queue[ent][k + 1]
        PROVE  k < i
    <3>1. i + 1 \in 1..(n + 1) /\ k + 1 \in 1..(n + 1)
      BY <2>2
    <3>2. k + 1 < i + 1
      BY <1>t, <2>1, <2>2, <2>3, <3>1, Zenon DEF DepsBefore
    <3> QED
      BY <3>2
  <2>4. ASSUME NEW i \in DOMAIN queue'[ent], NEW k \in DOMAIN queue'[ent],
               NEW f \in Deps[queue'[ent][i]], f[1] # "ext", f[2] = queue'[ent][k]
        PROVE  k < i
    BY <2>2, <2>3, <2>4, ZenonT(60)
  <2>5. ASSUME NEW d \in Entities \ {ent}, NEW i \in DOMAIN queue'[d],
               NEW k \in DOMAIN queue'[d], NEW f \in Deps[queue'[d][i]],
               f[1] # "ext", f[2] = queue'[d][k]
        PROVE  k < i
    <3>1. queue'[d] = queue[d] /\ d \in Entities
      BY <2>1, Zenon
    <3> QED
      BY <1>t, <2>5, <3>1, Zenon DEF DepsBefore
  <2> QED
    BY <2>4, <2>5, Zenon DEF DepsBefore
<1>3. ASSUME NEW j \in Jobs, EntityIn(j), ~UNCHANGED <<queue, push>>
      PROVE  DepsBefore'
  <2> DEFINE e == EntityOf[j]
  <2>0. PICK n \in Nat : /\ push[j] = "init"
                         /\ \A d \in Entities \ {e} : queue'[d] = queue[d]
                         /\ DOMAIN queue[e] = 1..n
                         /\ DOMAIN queue'[e] = 1..(n + 1)
                         /\ \A i \in 1..n : queue'[e][i] = queue[e][i]
                         /\ queue'[e][n + 1] = j
    BY <1>t, <1>3, QueueIn, Zenon
  <2>e. e \in Entities
    BY SchedSets, Zenon
  <2> HIDE DEF e
  <2>1. ASSUME NEW i \in 1..(n + 1), NEW k \in 1..(n + 1),
               NEW f \in Deps[queue'[e][i]], f[1] # "ext", f[2] = queue'[e][k]
        PROVE  k < i
    <3>1. (i \in 1..n \/ i = n + 1) /\ (k \in 1..n \/ k = n + 1)
      BY <2>0
    <3>2. CASE k = n + 1
      <4>1. f[2] = j
        BY <2>0, <2>1, <3>2, Zenon
      <4>2. queue'[e][i] \in Jobs /\ push[queue'[e][i]] # "new"
        <5>1. CASE i \in 1..n
          <6>1. i \in DOMAIN queue[e] /\ queue'[e][i] = queue[e][i]
            BY <2>0, <5>1, Zenon
          <6>2. queue[e][i] \in Jobs /\ push[queue[e][i]] \notin {"new", "init"}
            BY <1>t, <2>e, <6>1, Zenon DEF QueueInv
          <6> QED
            BY <6>1, <6>2, Zenon
        <5>2. CASE i = n + 1
          BY <1>3, <2>0, <5>2, Zenon
        <5> QED
          BY <3>1, <5>1, <5>2, Zenon
      <4>3. push[j] \notin {"new", "init"}
        BY <1>t, <2>1, <4>1, <4>2, ZenonT(60) DEF DepsPushed
      <4> QED
        BY <2>0, <4>3, Zenon
    <3>3. CASE k \in 1..n /\ i = n + 1
      BY <2>0, <3>3
    <3>4. CASE k \in 1..n /\ i \in 1..n
      BY <1>t, <2>0, <2>1, <2>e, <3>4, ZenonT(60) DEF DepsBefore
    <3> QED
      BY <3>1, <3>2, <3>3, <3>4, Zenon
  <2>2. ASSUME NEW i \in DOMAIN queue'[e], NEW k \in DOMAIN queue'[e],
               NEW f \in Deps[queue'[e][i]], f[1] # "ext", f[2] = queue'[e][k]
        PROVE  k < i
    BY <2>0, <2>1, <2>2, Zenon
  <2>3. ASSUME NEW d \in Entities \ {e}, NEW i \in DOMAIN queue'[d], NEW k \in DOMAIN queue'[d],
               NEW f \in Deps[queue'[d][i]], f[1] # "ext", f[2] = queue'[d][k]
        PROVE  k < i
    <3>1. queue'[d] = queue[d] /\ d \in Entities
      BY <2>0, Zenon
    <3> QED
      BY <1>t, <2>3, <3>1, Zenon DEF DepsBefore
  <2> QED
    BY <2>2, <2>3, Zenon DEF DepsBefore
<1> QED
  BY <1>t, <1>1, <1>2, <1>3, QueueFrame, Zenon

\* only kfifo_out changes the head of a queue
LEMMA HeadKept ==
    ASSUME Inv1, [Next]_vars, ~KfifoOut, NEW e \in Entities, 1 \in DOMAIN queue[e]
    PROVE  queue'[e][1] = queue[e][1]
<1>1. ASSUME NEW j \in Jobs, EntityIn(j), ~UNCHANGED <<queue, push>>
      PROVE  queue'[e][1] = queue[e][1]
  <2>0. PICK n \in Nat :
           /\ push[j] = "init"
           /\ \A d \in Entities \ {EntityOf[j]} : queue'[d] = queue[d]
           /\ DOMAIN queue[EntityOf[j]] = 1..n
           /\ DOMAIN queue'[EntityOf[j]] = 1..(n + 1)
           /\ \A i \in 1..n : queue'[EntityOf[j]][i] = queue[EntityOf[j]][i]
           /\ queue'[EntityOf[j]][n + 1] = j
    BY <1>1, QueueIn, Zenon
  <2>1. CASE EntityOf[j] = e
    <3>1. 1 \in 1..n
      BY <2>0, <2>1, Zenon
    <3>2. queue'[EntityOf[j]][1] = queue[EntityOf[j]][1]
      BY <2>0, <3>1, Zenon
    <3> QED
      BY <2>1, <3>2, Zenon
  <2>2. CASE EntityOf[j] # e
    BY <2>0, <2>2, Zenon
  <2> QED
    BY <2>1, <2>2, Zenon
<1> QED
  BY <1>1, QueueFrame, Zenon

\* amd_sched_entity_pop_job takes one dependency out of job->sync, or finds all of the
\* rest signaled
LEMMA PopAccounted ==
    ASSUME JobInv, PopJob, NEW j \in Jobs, NEW f \in Fences, ~Resolved(f), Accounted(j, f)
    PROVE  Accounted(j, f)'
<1> DEFINE h == Head(queue[ent])
<1>t. /\ Inv1 /\ CallbackInv /\ EntityTypeOK /\ MainInv /\ sync \in [Jobs -> SUBSET Fences]
      /\ dependency \in [Entities -> Fences \cup {NULL}]
  BY Zenon DEF JobInv, Inv1, TypeOK, EntityTypeOK, JobTypeOK
<1>1. /\ pc = "pop" /\ UNCHANGED <<queue, cb, ent>>
      /\ \/ {g \in sync[h] : ~Signaled(g)} = {} /\ sync' = [sync EXCEPT ![h] = {}]
         \/ /\ pc' = "adddep"
            /\ \E g \in Fences : /\ dependency' = [dependency EXCEPT ![ent] = g]
                                 /\ sync' = [sync EXCEPT ![h] = @ \ {g}]
  <2>1. \A g \in {a \in sync[h] : ~Signaled(a)} : g \in Fences
    BY <1>t, HeadInUse, Zenon DEF PopJob, UsesEntity
  <2> QED
    BY <2>1, Zenon DEF PopJob
<1>2. ent \in Entities /\ h \in Jobs /\ h = queue[ent][1]
  BY <1>t, <1>1, HeadInUse, QueueSeq, Zenon DEF MainInv, UsesEntity
<1> HIDE DEF h
<1>3. CASE cb[EntityOf[j]] = WaitsFor(f)
  BY <1>1, <1>3, Zenon DEF Accounted, WaitsFor
<1>4. CASE f \in sync[j] /\ j # h
  <2>1. sync'[j] = sync[j]
    BY <1>t, <1>1, <1>4, Zenon
  <2> QED
    BY <1>4, <2>1, Zenon DEF Accounted
<1>5. CASE f \in sync[j] /\ j = h
  <2>1. f \in {g \in sync[h] : ~Signaled(g)}
    BY <1>t, <1>5, SignaledResolved, Zenon
  <2>2. PICK g \in Fences : /\ dependency' = [dependency EXCEPT ![ent] = g]
                            /\ sync' = [sync EXCEPT ![h] = @ \ {g}] /\ pc' = "adddep"
    BY <1>1, <2>1, Zenon
  <2>3. CASE f = g
    <3>1. dependency'[ent] = f
      BY <1>t, <1>2, <2>2, <2>3, Zenon
    <3> QED
      BY <1>1, <1>2, <1>5, <2>2, <3>1, Zenon DEF Accounted
  <2>4. CASE f # g
    <3>1. sync'[j] = sync[j] \ {g}
      BY <1>t, <1>2, <1>5, <2>2, Zenon
    <3>2. f \in sync'[j]
      BY <1>5, <2>4, <3>1, Zenon
    <3> QED
      BY <3>2, Zenon DEF Accounted
  <2> QED
    BY <2>3, <2>4, Zenon
<1> QED
  BY <1>1, <1>3, <1>4, <1>5, Zenon DEF Accounted

\* amd_sched_entity_add_dependency_cb ignores only a dependency that is resolved
LEMMA AddDepAccounted ==
    ASSUME JobInv, DepInv, AddDependencyCb, NEW j \in Jobs, NEW f \in Deps[j],
           push[j] # "new", ~Resolved(f), Accounted(j, f)
    PROVE  Accounted(j, f)'
<1>t. /\ Inv1 /\ QueueInv /\ CallbackInv /\ EntityTypeOK /\ MainInv /\ f \in Fences
      /\ cb \in [Entities -> Fences \cup {NULL}] /\ EntityOf[j] \in Entities
  BY SchedSets, Zenon DEF JobInv, Inv1, TypeOK, EntityTypeOK
<1>1. /\ pc = "adddep" /\ UNCHANGED sync
      /\ \/ OwnFence(dependency[ent]) /\ UNCHANGED cb
         \/ cb' = [cb EXCEPT ![ent] = WaitsFor(dependency[ent])]
         \/ Signaled(WaitsFor(dependency[ent])) /\ UNCHANGED cb
  BY Zenon DEF AddDependencyCb, WaitsFor
<1>2. ent \in Entities /\ queue[ent] # <<>> /\ cb[ent] = NULL
  BY <1>t, <1>1, Zenon DEF MainInv, UsesEntity
<1>3. 1 \in DOMAIN queue[ent] /\ DOMAIN queue[ent] = 1..Len(queue[ent]) /\ Len(queue[ent]) \in Nat
  BY <1>t, <1>2, QueueSeq, Zenon
<1>4. CASE f \in sync[j]
  BY <1>1, <1>4, Zenon DEF Accounted
<1>5. CASE cb[EntityOf[j]] = WaitsFor(f)
  <2>1. EntityOf[j] # ent
    <3>1. WaitsFor(f) # NULL
      BY <1>t, FenceCases, NullDistinct, Zenon DEF WaitsFor
    <3> QED
      BY <1>2, <1>5, <3>1, Zenon
  <2>2. cb'[EntityOf[j]] = cb[EntityOf[j]]
    BY <1>t, <1>1, <2>1, Zenon
  <2> QED
    BY <1>5, <2>2, Zenon DEF Accounted, WaitsFor
<1>6. CASE j = queue[ent][1] /\ dependency[ent] = f
  <2>1. EntityOf[j] = ent
    BY <1>t, <1>2, <1>3, <1>6, Zenon DEF QueueInv
  <2>2. CASE OwnFence(f)
    <3>1. f[1] = "scheduled" /\ EntityOf[f[2]] = ent
      BY <2>2, Zenon DEF OwnFence
    <3>2. f[2] \in Jobs /\ f[1] # "ext"
      BY <1>t, <3>1, FenceCases, Zenon
    <3>3. push[f[2]] \notin {"new", "init"} /\ hw[f[2]] = "none"
      BY <3>2, Zenon DEF DepInv, DepsPushed, Resolved
    <3>4. PICK k \in DOMAIN queue[ent] : queue[ent][k] = f[2]
      BY <1>t, <3>1, <3>2, <3>3, Zenon DEF QueueInv
    <3>5. k < 1
      BY <1>2, <1>3, <1>6, <3>2, <3>4, Zenon DEF DepInv, DepsBefore
    <3> QED
      BY <1>3, <3>5
  <2>3. CASE Signaled(WaitsFor(f))
    BY <1>t, <2>3, SignaledResolved, Zenon
  <2>4. CASE cb' = [cb EXCEPT ![ent] = WaitsFor(f)]
    <3>1. cb'[ent] = WaitsFor(f)
      BY <1>t, <1>2, <2>4, Zenon
    <3> QED
      BY <2>1, <3>1, Zenon DEF Accounted, WaitsFor
  <2> QED
    BY <1>1, <1>6, <2>2, <2>3, <2>4, Zenon
<1> QED
  BY <1>4, <1>5, <1>6, Zenon DEF Accounted

\* no step forgets a dependency
LEMMA DepsAccountedStep == JobInv /\ DepInv /\ [Next]_vars => DepsAccounted'
<1> SUFFICES ASSUME JobInv, DepInv, [Next]_vars, NEW j \in Jobs, push'[j] # "new",
                    NEW f \in Deps[j]
             PROVE  Accounted(j, f)'
  BY Zenon DEF DepsAccounted
<1>t. /\ Inv1 /\ HwInv /\ EntityTypeOK /\ MainInv /\ f \in Fences /\ EntityOf[j] \in Entities
      /\ sync \in [Jobs -> SUBSET Fences]
  BY SchedSets, Zenon DEF JobInv, Inv1, TypeOK, JobTypeOK
<1>1. CASE push[j] = "new"
  <2>1. sync' = [sync EXCEPT ![j] = Deps[j]]
    BY <1>t, <1>1, DepsGrow, Zenon DEF JobInit
  <2>2. f \in sync'[j]
    BY <1>t, <2>1, Zenon
  <2> QED
    BY <2>2, Zenon DEF Accounted
<1>2. CASE push[j] # "new" /\ Resolved(f)
  BY <1>t, <1>2, ResolvedStep, Zenon DEF Accounted
<1>3. CASE push[j] # "new" /\ ~Resolved(f)
  <2>a. Accounted(j, f)
    BY <1>3, Zenon DEF DepInv, DepsAccounted
  <2>h. pc = "adddep" => queue'[ent][1] = queue[ent][1] /\ cb[ent] = NULL /\ ent \in Entities
    <3> SUFFICES ASSUME pc = "adddep"
                 PROVE  queue'[ent][1] = queue[ent][1] /\ cb[ent] = NULL /\ ent \in Entities
      BY Zenon
    <3>1. ent \in Entities /\ queue[ent] # <<>> /\ cb[ent] = NULL
      BY <1>t, Zenon DEF MainInv, UsesEntity
    <3>2. 1 \in DOMAIN queue[ent] /\ ~KfifoOut
      BY <1>t, <3>1, QueueSeq, Zenon DEF KfifoOut
    <3> QED
      BY <1>t, <3>1, <3>2, HeadKept, Zenon
  <2>1. CASE /\ UNCHANGED <<sync, dependency, cb>>
             /\ pc = "adddep" => UNCHANGED <<pc, ent>>
    <3>1. CASE pc = "adddep"
      BY <2>a, <2>h, <2>1, <3>1, <1>3, Zenon DEF Accounted, WaitsFor
    <3>2. CASE pc # "adddep"
      BY <2>a, <2>1, <3>2, <1>3, Zenon DEF Accounted, WaitsFor
    <3> QED
      BY <3>1, <3>2, Zenon
  <2>2. CASE PopJob
    BY <1>t, <1>3, <2>a, <2>2, PopAccounted, Zenon
  <2>3. CASE AddDependencyCb
    BY <1>3, <2>a, <2>3, AddDepAccounted, Zenon
  <2>4. ASSUME NEW k \in Jobs, JobInit(k) PROVE Accounted(j, f)'
    <3>1. /\ push[k] = "new" /\ sync' = [sync EXCEPT ![k] = Deps[k]]
          /\ UNCHANGED <<queue, dependency, cb, pc, ent>>
      BY <2>4, Zenon DEF JobInit
    <3>2. sync'[j] = sync[j]
      BY <1>t, <1>3, <3>1, Zenon
    <3> QED
      BY <1>3, <2>a, <3>1, <3>2, Zenon DEF Accounted, WaitsFor
  <2>5. ASSUME NEW g \in Fences, ClearDep(g), UNCHANGED <<queue, sync, ent>>,
               pc' = pc \/ pc = "scheduled", WaitsFor(f) = g => Resolved(f)'
        PROVE  Accounted(j, f)'
    <3>1. CASE f \in sync[j]
      BY <2>5, <3>1, Zenon DEF Accounted
    <3>2. CASE pc = "adddep" /\ j = queue[ent][1] /\ dependency[ent] = f
      <4>1. dependency'[ent] = f
        BY <2>5, <2>h, <3>2, NullDistinct, Zenon DEF ClearDep
      <4> QED
        BY <2>5, <3>2, <4>1, Zenon DEF Accounted
    <3>3. CASE cb[EntityOf[j]] = WaitsFor(f)
      <4>1. CASE WaitsFor(f) = g
        BY <2>5, <4>1, Zenon DEF Accounted
      <4>2. CASE WaitsFor(f) # g
        <5>1. cb'[EntityOf[j]] = WaitsFor(f)
          BY <1>t, <2>5, <3>3, <4>2, Zenon DEF ClearDep
        <5> QED
          BY <5>1, Zenon DEF Accounted, WaitsFor
      <4> QED
        BY <4>1, <4>2, Zenon
    <3> QED
      BY <1>3, <2>a, <3>1, <3>2, <3>3, Zenon DEF Accounted
  <2>6. CASE FenceScheduled
    <3>1. /\ pc = "scheduled" /\ ClearDep(<<"scheduled", job>>)
          /\ UNCHANGED <<queue, sync, ent, hw, extSignaled>>
      BY <2>6, Zenon DEF FenceScheduled
    <3>2. job \in Jobs /\ hw[job] # "none"
      BY <1>t, <3>1, MainJob, Zenon DEF HwInv, Leaves, UsesJob, UsesEntity
    <3>3. <<"scheduled", job>> \in Fences
      BY <3>2, Zenon DEF Fences
    <3>4. ASSUME WaitsFor(f) = <<"scheduled", job>> PROVE Resolved(f)'
      <4>1. f[1] # "ext" /\ f[2] = job
        BY <3>4, <1>t DEF WaitsFor
      <4> QED
        BY <3>1, <3>2, <4>1, ZenonT(60) DEF Resolved
    <3> QED
      BY <2>5, <3>1, <3>3, <3>4, Zenon
  <2>7. ASSUME NEW x \in ExtFences, ExtSignal(x) PROVE Accounted(j, f)'
    <3>1. /\ extSignaled' = extSignaled \cup {x} /\ ClearDep(<<"ext", x>>)
          /\ UNCHANGED <<queue, sync, pc, ent>>
      BY <2>7, Zenon DEF ExtSignal
    <3>2. <<"ext", x>> \in Fences
      BY Zenon DEF Fences
    <3>3. ASSUME WaitsFor(f) = <<"ext", x>> PROVE Resolved(f)'
      <4>1. f[1] = "ext" /\ f[2] = x
        BY <3>3, <1>t DEF WaitsFor
      <4> QED
        BY <3>1, <4>1, ZenonT(60) DEF Resolved
    <3> QED
      BY <2>5, <3>1, <3>2, <3>3, Zenon
  <2> QED
    BY <2>1, <2>2, <2>3, <2>4, <2>6, <2>7, DepFrame, ZenonT(60)
<1> QED
  BY <1>1, <1>2, <1>3, Zenon

\* dependencies are kept track of in every execution
LEMMA DepInvHolds == Spec => []DepInv
<1>1. ASSUME Init PROVE DepInv
  <2>1. /\ push = [j \in Jobs |-> "new"] /\ queue = [e \in Entities |-> <<>>] /\ pc = "loop"
    BY <1>1, Zenon DEF Init
  <2>2. DepsPushed /\ DepsAccounted /\ DepsResolved
    BY <2>1, Zenon DEF DepsPushed, DepsAccounted, DepsResolved
  <2>3. \A e \in Entities : DOMAIN queue[e] = {}
    BY <2>1
  <2>4. DepsBefore
    BY <2>3, Zenon DEF DepsBefore
  <2> QED
    BY <2>2, <2>4, Zenon DEF DepInv
<1>2. JobInv /\ DepInv /\ [Next]_vars => DepInv'
  BY DepsPushedStep, DepsBeforeStep, DepsAccountedStep, DepsResolvedStep, Zenon DEF DepInv
<1> QED
  BY <1>1, <1>2, JobInvHolds, PTL DEF Spec

-----------------------------------------------------------------------------
(* The scheduler implements JobService *)

\* the main thread has started its job and not yet taken it out of the queue exactly
\* where Leaving says so
LEMMA LeavingFacts ==
    ASSUME Inv1, NEW e \in Entities, Leaving(e)
    PROVE  /\ ent = e /\ pc \in Leaves /\ queue[e] \in Seq(Jobs) /\ queue[e] # <<>>
           /\ job = Head(queue[e]) /\ job \in Jobs
<1>1. ent = e /\ pc \in Leaves
  BY Zenon DEF Leaving, Leaves
<1>2. pc \in UsesJob /\ pc \in UsesEntity
  BY <1>1, Zenon DEF Leaves, UsesJob, UsesEntity
<1>3. queue[e] # <<>> /\ job = Head(queue[e])
  BY <1>1, <1>2, Zenon DEF Inv1, MainInv
<1>4. job \in Jobs
  BY <1>2, MainJob, Zenon
<1> QED
  BY <1>1, <1>3, <1>4, Zenon DEF Inv1, TypeOK, EntityTypeOK

\* what amd_sched_main has not handed to the hardware does not change while the queues
\* do not and amd_sched_main does not pass run_job or kfifo_out
LEMMA PendingSame ==
    ASSUME UNCHANGED queue, \A e \in Entities : Leaving(e)' <=> Leaving(e)
    PROVE  Pending' = Pending
BY DEF Pending

\* the jobs on the ring
LEMMA BusySame ==
    ASSUME Occupied' = Occupied, \A j \in Jobs : hw'[j] = "none" <=> hw[j] = "none"
    PROVE  Busy' = Busy
<1>1. Occupied \subseteq Jobs
  BY Zenon DEF Occupied
<1> QED
  BY <1>1, Zenon DEF Busy

\* the started jobs of JobService are those for which run_job has returned
LEMMA StartedFacts ==
    ASSUME JobInv
    PROVE  \A j \in Jobs : j \in Service!Started <=> hw[j] # "none"
<1> TAKE j \in Jobs
<1>1. hw[j] \in {"none", "failed", "emitted", "signaled"}
  BY Zenon DEF JobInv, Inv1, TypeOK, JobTypeOK, HwStates
<1>2. (\E i \in DOMAIN ring : ring[i] = j) <=> hw[j] \in {"emitted", "signaled"}
  BY Zenon DEF JobInv, CallbackInv
<1>3. j \in Failed <=> hw[j] = "failed"
  BY Zenon DEF Failed
<1>4. j \in Service!Started <=> (\E i \in DOMAIN ring : ring[i] = j) \/ j \in Failed
  BY Zenon DEF Service!Started
<1> QED
  BY <1>1, <1>2, <1>3, <1>4, Zenon

\* ops->run_job is the start of a job: its dependencies are resolved, it is the first of
\* its entity's queue, and there is room for it on the ring
LEMMA RunJobStarts ==
    ASSUME JobInv, DepInv, RunJob, Cardinality(Busy) < HwSubmissionLimit
    PROVE  ent \in Entities /\ Service!Start(ent)
<1>t. /\ Inv1 /\ HwInv /\ CallbackInv /\ hw \in [Jobs -> HwStates] /\ DepsResolved
      /\ queue \in [Entities -> Seq(Jobs)]
  BY Zenon DEF JobInv, Inv1, TypeOK, EntityTypeOK, JobTypeOK, DepInv
<1>1. /\ pc = "run" /\ pc' = "scheduled"
      /\ UNCHANGED <<queue, ent, job, push, finished, extSignaled, pcb, processing>>
      /\ \/ hw' = [hw EXCEPT ![job] = "emitted"] /\ ring' = Append(ring, job)
         \/ hw' = [hw EXCEPT ![job] = "failed"] /\ UNCHANGED ring
  BY Zenon DEF RunJob
<1>2. ent \in Entities /\ job \in Jobs /\ queue[ent] # <<>> /\ job = Head(queue[ent])
  BY <1>t, <1>1, MainJob, Zenon DEF Inv1, MainInv, UsesJob, UsesEntity
<1>3. hw[job] = "none" /\ \A f \in Deps[job] : Resolved(f)
  BY <1>t, <1>1, Zenon DEF HwInv, DepsResolved
<1>4. /\ hw'[job] # "none" /\ \A j \in Jobs \ {job} : hw'[j] = hw[j]
      /\ \/ hw'[job] = "emitted" /\ ring' = Append(ring, job)
         \/ hw'[job] = "failed" /\ UNCHANGED ring
  BY <1>t, <1>1, <1>2, Zenon
<1>5. /\ \A e \in Entities : ~Leaving(e)
      /\ \A e \in Entities : Leaving(e)' <=> e = ent
  BY <1>1, Zenon DEF Leaving
<1>6. Pending[ent] = queue[ent] /\ Pending' = [Pending EXCEPT ![ent] = Tail(@)]
  BY <1>1, <1>2, <1>5, Zenon DEF Pending
<1>7. Service!Runnable(job)
  <2> SUFFICES ASSUME NEW f \in Deps[job]
               PROVE  IF f[1] = "ext" THEN f[2] \in extSignaled ELSE f[2] \in Service!Started
    BY Zenon DEF Service!Runnable
  <2>1. f \in Fences
    BY <1>2, SchedSets, Zenon
  <2> QED
    BY <1>3, <2>1, FenceCases, StartedFacts, Zenon DEF Resolved
<1>8. Occupied' = Occupied /\ job \in Occupied /\ Occupied \subseteq Jobs
  BY <1>1, <1>2, Zenon DEF Occupied
<1>9. Busy' = Busy \cup {job}
  BY <1>3, <1>4, <1>8, Zenon DEF Busy
<1>10. \/ ring' = Append(ring, job) /\ Failed' = Failed
       \/ Failed' = Failed \cup {job} /\ UNCHANGED ring
  <2>1. \A j \in Jobs : j \in Failed' <=> hw'[j] = "failed"
    BY Zenon DEF Failed
  <2>2. \A j \in Jobs : j \in Failed <=> hw[j] = "failed"
    BY Zenon DEF Failed
  <2>3. Failed \subseteq Jobs /\ Failed' \subseteq Jobs
    BY Zenon DEF Failed
  <2>4. CASE hw'[job] = "emitted" /\ ring' = Append(ring, job)
    BY <1>2, <1>3, <1>4, <2>1, <2>2, <2>3, <2>4, Zenon
  <2>5. CASE hw'[job] = "failed" /\ UNCHANGED ring
    BY <1>2, <1>3, <1>4, <2>1, <2>2, <2>3, <2>5, Zenon
  <2> QED
    BY <1>4, <2>4, <2>5, Zenon
<1>11. Submitted' = Submitted
  BY <1>1, Zenon DEF Submitted
<1>12. job = Head(Pending[ent]) /\ Pending[ent] # <<>>
  BY <1>2, <1>6, Zenon
<1>13. UNCHANGED <<Submitted, finished, extSignaled>>
  BY <1>1, <1>11, Zenon
<1>14. /\ Service!Runnable(Head(Pending[ent])) /\ Busy' = Busy \cup {Head(Pending[ent])}
       /\ \/ ring' = Append(ring, Head(Pending[ent])) /\ UNCHANGED Failed
          \/ Failed' = Failed \cup {Head(Pending[ent])} /\ UNCHANGED ring
  BY <1>7, <1>9, <1>10, <1>12, Zenon
<1>15. Service!Cardinality(Busy) < HwSubmissionLimit
  BY Zenon DEF Service!Cardinality, Cardinality
<1> QED
  BY <1>2, <1>6, <1>12, <1>13, <1>14, <1>15, ZenonT(60) DEF Service!Start

\* kfifo_in is the submission
LEMMA EntityInSubmits ==
    ASSUME JobInv, NEW j \in Jobs, EntityIn(j), ~UNCHANGED <<queue, push>>
    PROVE  Service!Submit(j)
<1> DEFINE e == EntityOf[j]
<1>t. /\ Inv1 /\ queue \in [Entities -> Seq(Jobs)] /\ push \in [Jobs -> PushStates]
      /\ e \in Entities
  BY SchedSets, Zenon DEF JobInv, Inv1, TypeOK, EntityTypeOK, JobTypeOK
<1>1. /\ push[j] = "init" /\ Len(queue[e]) < QueueSize
      /\ queue' = [queue EXCEPT ![e] = Append(@, j)]
      /\ \E s \in {"first", "done"} : push' = [push EXCEPT ![j] = s]
      /\ UNCHANGED <<pc, ent, job, ring, hw, pcb, processing, finished, extSignaled>>
  BY Zenon DEF EntityIn, HasRoom
<1> HIDE DEF e
<1>2. PICK q : q = queue[e]
  BY Zenon
<1>3. q \in Seq(Jobs) /\ queue'[e] = Append(q, j)
  BY <1>t, <1>1, <1>2, Zenon
<1>4. PICK p : p = Pending[e]
  BY Zenon
<1>5. /\ p = IF Leaving(e) THEN Tail(q) ELSE q
      /\ Leaving(e) => q # <<>>
  BY <1>t, <1>2, <1>4, LeavingFacts, Zenon DEF Pending
<1>6. Len(p) < QueueSize /\ Append(p, j) = IF Leaving(e) THEN Tail(Append(q, j)) ELSE Append(q, j)
  <2>1. Len(q) < QueueSize /\ QueueSize \in Nat
    BY <1>1, <1>2, SchedBounds, Zenon
  <2>2. CASE ~Leaving(e)
    BY <1>5, <2>1, <2>2, Zenon
  <2>3. CASE Leaving(e)
    <3>1. q # <<>> /\ p = Tail(q)
      BY <1>5, <2>3, Zenon
    <3>2. Len(Tail(q)) = Len(q) - 1 /\ Append(Tail(q), j) = Tail(Append(q, j)) /\ Len(q) \in Nat
      BY <1>3, <3>1
    <3> QED
      BY <2>1, <2>3, <3>1, <3>2
  <2> QED
    BY <2>2, <2>3, Zenon
<1>7. \A d \in Entities : Leaving(d)' <=> Leaving(d)
  BY <1>1, Zenon DEF Leaving
<1>8. Pending' = [Pending EXCEPT ![e] = Append(Pending[e], j)]
  <2>1. Pending'[e] = Append(p, j)
    BY <1>t, <1>3, <1>6, <1>7, Zenon DEF Pending
  <2>2. \A d \in Entities \ {e} : Pending'[d] = Pending[d]
    BY <1>t, <1>1, <1>7, Zenon DEF Pending
  <2>3. Pending = [d \in Entities |-> Pending[d]] /\ Pending' = [d \in Entities |-> Pending'[d]]
    BY Zenon DEF Pending
  <2> QED
    BY <1>t, <1>4, <2>1, <2>2, <2>3, Zenon
<1>9. j \notin Submitted /\ Submitted' = Submitted \cup {j}
  <2>1. push'[j] \notin {"new", "init"} /\ \A k \in Jobs \ {j} : push'[k] = push[k]
    BY <1>t, <1>1, Zenon
  <2> QED
    BY <1>1, <2>1, Zenon DEF Submitted
<1>10. UNCHANGED <<Failed, Busy>>
  BY <1>1, Zenon DEF Failed, Busy, Occupied
<1>11. UNCHANGED <<ring, Failed, Busy, finished, extSignaled>>
  BY <1>1, <1>10, Zenon
<1>12. Len(Pending[EntityOf[j]]) < QueueSize
  BY <1>4, <1>6, Zenon DEF e
<1>13. Pending' = [Pending EXCEPT ![EntityOf[j]] = Append(Pending[EntityOf[j]], j)]
  BY <1>8, Zenon DEF e
<1> QED
  BY <1>9, <1>11, <1>12, <1>13, Zenon DEF Service!Submit

\* the decrement of hw_rq_count releases the ring
LEMMA ProcessDecReleases ==
    ASSUME JobInv, [Next]_vars, NEW j \in Jobs, ProcessDec(j)
    PROVE  Service!Release(j)
<1>0. Occupied' = Occupied \ {j}
  <2>1. processing[j] = "dec" /\ processing' = [processing EXCEPT ![j] = "signal"] /\ UNCHANGED pc
    BY Zenon DEF ProcessDec
  <2>2. processing \in [Jobs -> ProcStates]
    BY Zenon DEF JobInv, Inv1, TypeOK, JobTypeOK
  <2>3. ASSUME NEW k \in Jobs, ProcessDec(k) PROVE k = j
    <3>1. processing' = [processing EXCEPT ![k] = "signal"]
      BY <2>3, Zenon DEF ProcessDec
    <3>2. processing'[j] = "signal" /\ (k # j => processing'[j] = "dec")
      BY <2>1, <2>2, <3>1, Zenon
    <3> QED
      BY <3>2, Zenon
  <2>4. ~MainInc /\ ~UNCHANGED hw_rq_count
    <3>1. hw_rq_count \in Int /\ hw_rq_count' = hw_rq_count - 1
      BY Zenon DEF ProcessDec, JobInv, Inv1, TypeOK, MainTypeOK
    <3>2. hw_rq_count' # hw_rq_count
      BY <3>1
    <3> QED
      BY <2>1, <3>2, Zenon DEF MainInc
  <2>5. Occupied \subseteq Jobs
    BY Zenon DEF Occupied
  <2> QED
    BY <2>3, <2>4, <2>5, OccupiedStep, Zenon
<1>1. /\ UNCHANGED <<queue, pc, ent, push, ring, hw, finished, extSignaled>>
      /\ processing[j] = "dec"
  BY Zenon DEF ProcessDec
<1>2. j \in Occupied /\ hw[j] # "none"
  BY <1>1, Zenon DEF Occupied, JobInv, CallbackInv
<1>3. j \in Busy /\ Busy' = Busy \ {j}
  BY <1>0, <1>1, <1>2, Zenon DEF Busy
<1>4. Pending' = Pending
  BY <1>1, PendingSame, Zenon DEF Leaving
<1>5. UNCHANGED <<Submitted, Pending, ring, Failed, finished, extSignaled>>
  BY <1>1, <1>4, Zenon DEF Submitted, Failed
<1> QED
  BY <1>3, <1>5, Zenon DEF Service!Release

\* the finished fence is signaled once, after the decrement
LEMMA ProcessSignalFinishes ==
    ASSUME JobInv, NEW j \in Jobs, ProcessSignal(j)
    PROVE  Service!Finish(j)
<1>t. /\ Inv1 /\ CallbackInv /\ HwInv /\ processing \in [Jobs -> ProcStates]
  BY Zenon DEF JobInv, Inv1, TypeOK, JobTypeOK
<1>1. /\ UNCHANGED <<queue, pc, ent, job, push, ring, hw, pcb, extSignaled>>
      /\ processing[j] = "signal" /\ processing' = [processing EXCEPT ![j] = "wake"]
      /\ finished' = finished \cup {j}
  BY Zenon DEF ProcessSignal
<1>2. /\ hw[j] \in {"failed", "signaled"} /\ finish[j] = "none" /\ j \notin pcb
      /\ j \notin finished
  BY <1>t, <1>1, Zenon DEF CallbackInv
<1>3. ~(j = job /\ pc \in {"begin", "run", "scheduled", "install"})
  BY <1>t, <1>1, <1>2, Zenon DEF HwInv
<1>4. j \notin Busy
  BY <1>1, <1>2, <1>3, Zenon DEF Busy, Occupied
<1>5. \A k \in Jobs : processing'[k] = "dec" <=> processing[k] = "dec"
  BY <1>t, <1>1, Zenon
<1>6. Occupied' = Occupied
  BY <1>1, <1>5, Zenon DEF Occupied
<1>7. j \in Service!Started
  BY <1>2, StartedFacts, Zenon
<1>8. Pending' = Pending /\ Busy' = Busy
  BY <1>1, <1>6, PendingSame, BusySame, Zenon DEF Leaving
<1>9. UNCHANGED <<Submitted, Pending, ring, Failed, Busy, extSignaled>>
  BY <1>1, <1>8, Zenon DEF Submitted, Failed
<1> QED
  BY <1>1, <1>2, <1>4, <1>7, <1>9, ZenonT(60) DEF Service!Finish

\* what JobService does not see
LEMMA ServiceStutters ==
    ASSUME UNCHANGED <<ring, finished, extSignaled>>, Pending' = Pending, Busy' = Busy,
           \A j \in Jobs : push'[j] \in {"new", "init"} <=> push[j] \in {"new", "init"},
           \A j \in Jobs : hw'[j] = "failed" <=> hw[j] = "failed"
    PROVE  UNCHANGED Service!vars
<1>1. Submitted' = Submitted
  BY Zenon DEF Submitted
<1>2. Failed' = Failed
  BY Zenon DEF Failed
<1> QED
  BY <1>1, <1>2, Zenon DEF Service!vars

\* the steps of amd_sched_main other than run_job
LEMMA MainStutters ==
    ASSUME JobInv, [Next]_vars, UNCHANGED extSignaled,
           UNCHANGED <<jobVars, pc, ent, job>> \/ MainIdle \/ (MainRuns /\ ~RunJob),
           \A j \in Jobs : ~ProcessDec(j)
    PROVE  UNCHANGED Service!vars
<1>t. Inv1 /\ queue \in [Entities -> Seq(Jobs)]
  BY Zenon DEF JobInv, Inv1, TypeOK, EntityTypeOK
<1>1. UNCHANGED <<push, hw, ring, finished>>
  BY Zenon
  DEF MainIdle, MainRuns, TakeJob, MainInc, JobBegin, FenceScheduled, InstallCallback,
      MainProcessed, KfifoOut, WakeJobScheduled, jobVars
<1>2. Busy' = Busy
  <2>1. CASE Occupied' = Occupied
    BY <1>1, <2>1, BusySame, Zenon
  <2>2. CASE MainInc /\ job \in Jobs \ Occupied /\ Occupied' = Occupied \cup {job}
    <3>1. hw[job] = "none"
      BY <2>2, Zenon DEF MainInc, JobInv, HwInv
    <3> QED
      BY <1>1, <2>2, <3>1, Zenon DEF Busy
  <2>3. Occupied \subseteq Jobs
    BY Zenon DEF Occupied
  <2> QED
    BY <2>1, <2>2, <2>3, OccupiedStep, Zenon
<1>3. Pending' = Pending
  <2>1. CASE UNCHANGED <<jobVars, pc, ent, job>>
    BY <2>1, PendingSame, Zenon DEF Leaving, jobVars
  <2>2. CASE MainIdle
    <3>1. UNCHANGED queue /\ \A e \in Entities : ~Leaving(e) /\ ~Leaving(e)'
      BY <2>2, Zenon DEF MainIdle, Idle, Leaving, jobVars
    <3> QED
      BY <3>1, PendingSame, Zenon
  <2>3. CASE TakeJob \/ MainInc \/ JobBegin \/ WakeJobScheduled
    <3>1. UNCHANGED queue /\ \A e \in Entities : ~Leaving(e) /\ ~Leaving(e)'
      BY <2>3, Zenon DEF TakeJob, MainInc, JobBegin, WakeJobScheduled, Leaving, jobVars
    <3> QED
      BY <3>1, PendingSame, Zenon
  <2>4. CASE FenceScheduled \/ InstallCallback \/ MainProcessed
    <3>1. UNCHANGED queue /\ \A e \in Entities : Leaving(e)' <=> Leaving(e)
      BY <2>4, Zenon DEF FenceScheduled, InstallCallback, MainProcessed, Leaving
    <3> QED
      BY <3>1, PendingSame, Zenon
  <2>5. CASE KfifoOut
    <3>1. /\ pc = "out" /\ pc' = "wakeup" /\ ent \in Entities
          /\ queue' = [queue EXCEPT ![ent] = Tail(@)]
      BY <1>t, <2>5, QueueOut, Zenon DEF KfifoOut
    <3>2. /\ \A e \in Entities : Leaving(e) <=> e = ent
          /\ \A e \in Entities : ~Leaving(e)'
      BY <3>1, Zenon DEF Leaving
    <3>3. queue'[ent] = Tail(queue[ent]) /\ \A e \in Entities \ {ent} : queue'[e] = queue[e]
      BY <1>t, <3>1, Zenon
    <3>4. \A e \in Entities : (IF Leaving(e)' THEN Tail(queue'[e]) ELSE queue'[e])
                              = (IF Leaving(e) THEN Tail(queue[e]) ELSE queue[e])
      BY <3>2, <3>3, Zenon
    <3> QED
      BY <3>4, Zenon DEF Pending
  <2> QED
    BY <2>1, <2>2, <2>3, <2>4, <2>5, ZenonT(60) DEF MainRuns
<1> QED
  BY <1>1, <1>2, <1>3, ServiceStutters, Zenon

\* the steps of submitters, callbacks, work items and timers
LEMMA JobStepService ==
    ASSUME JobInv, [Next]_vars, NEW j \in Jobs, JobStep(j), UNCHANGED extSignaled,
           \A k \in Jobs : ~ProcessDec(k)
    PROVE  [Service!Next]_(Service!vars)
<1>t. /\ Inv1 /\ hw \in [Jobs -> HwStates] /\ push \in [Jobs -> PushStates]
      /\ CallbackInv
  BY Zenon DEF JobInv, Inv1, TypeOK, JobTypeOK
<1>1. CASE EntityIn(j) /\ ~UNCHANGED <<queue, push>>
  BY <1>1, EntityInSubmits, Zenon DEF Service!Next
<1>2. CASE ProcessSignal(j)
  BY <1>2, ProcessSignalFinishes, Zenon DEF Service!Next
<1>3. CASE ~(EntityIn(j) /\ ~UNCHANGED <<queue, push>>) /\ ~ProcessSignal(j)
  <2>1. /\ UNCHANGED <<queue, pc, ent, ring, finished>>
        /\ \A k \in Jobs : push'[k] \in {"new", "init"} <=> push[k] \in {"new", "init"}
        /\ \A k \in Jobs : hw'[k] = "failed" <=> hw[k] = "failed"
        /\ \A k \in Jobs : hw'[k] = "none" <=> hw[k] = "none"
    <3>1. CASE JobInit(j)
      <4>1. /\ push[j] = "new" /\ push' = [push EXCEPT ![j] = "init"]
            /\ UNCHANGED <<queue, pc, ent, ring, finished, hw>>
        BY <3>1, Zenon DEF JobInit
      <4>2. \A k \in Jobs : push'[k] \in {"new", "init"} <=> push[k] \in {"new", "init"}
        BY <1>t, <4>1, Zenon
      <4> QED
        BY <4>1, <4>2, Zenon
    <3>2. CASE EntityIn(j)
      <4>1. UNCHANGED <<queue, push, pc, ent, ring, finished, hw>>
        BY <1>3, <3>2, Zenon DEF EntityIn
      <4> QED
        BY <4>1, Zenon
    <3>3. CASE PushOn(j)
      <4>1. /\ push[j] \in {"first", "add", "wake"}
            /\ \E s \in {"add", "wake", "done"} : push' = [push EXCEPT ![j] = s]
            /\ UNCHANGED <<queue, pc, ent, ring, finished, hw>>
        BY <3>3, Zenon DEF PushOn
      <4>2. \A k \in Jobs : push'[k] \in {"new", "init"} <=> push[k] \in {"new", "init"}
        BY <1>t, <4>1, Zenon
      <4> QED
        BY <4>1, <4>2, Zenon
    <3>4. CASE HwSignal(j)
      <4>1. /\ \E i \in DOMAIN ring : ring[i] = j
            /\ hw' = [hw EXCEPT ![j] = "signaled"]
            /\ UNCHANGED <<queue, push, pc, ent, ring, finished>>
        BY <3>4, Zenon DEF HwSignal
      <4>2. hw[j] \in {"emitted", "signaled"}
        BY <1>t, <4>1, Zenon DEF CallbackInv
      <4>3. \A k \in Jobs : \/ hw'[k] = hw[k]
                            \/ hw'[k] = "signaled" /\ hw[k] \in {"emitted", "signaled"}
        BY <1>t, <4>1, <4>2, Zenon
      <4> QED
        BY <4>1, <4>3, Zenon
    <3>5. CASE ProcessWake(j) \/ FinishWork(j) \/ TdrExpire(j) \/ JobTimedout(j)
      <4>1. UNCHANGED <<queue, push, pc, ent, ring, finished, hw>>
        BY <3>5, Zenon
        DEF ProcessWake, FinishWork, JobFinish, JobFinishCancel, JobFinishNext, TdrExpire,
            JobTimedout
      <4> QED
        BY <4>1, Zenon
    <3> QED
      BY <1>3, <3>1, <3>2, <3>3, <3>4, <3>5, Zenon DEF JobStep, ProcessJob
  <2>2. ~MainInc
    BY <2>1, Zenon DEF MainInc
  <2>3. Occupied' = Occupied
    <3>1. Occupied \subseteq Jobs
      BY Zenon DEF Occupied
    <3> QED
      BY <2>2, <3>1, OccupiedStep, Zenon
  <2>4. Pending' = Pending /\ Busy' = Busy
    BY <2>1, <2>3, PendingSame, BusySame, Zenon DEF Leaving
  <2>5. UNCHANGED <<ring, finished, extSignaled>>
    BY <2>1, Zenon
  <2> QED
    BY <2>1, <2>4, <2>5, ServiceStutters, Zenon
<1> QED
  BY <1>1, <1>2, <1>3, Zenon

\* every step of the scheduler is a step of JobService or leaves what it shows unchanged
LEMMA ServiceStep ==
    ASSUME JobInv, DepInv, [Next]_vars, RunJob => Cardinality(Busy) < HwSubmissionLimit
    PROVE  [Service!Next]_(Service!vars)
<1>t. Inv1
  BY Zenon DEF JobInv
<1>1. ASSUME NEW x \in ExtFences, ExtSignal(x) PROVE [Service!Next]_(Service!vars)
  <2>1. /\ x \notin extSignaled /\ extSignaled' = extSignaled \cup {x}
        /\ UNCHANGED <<queue, push, hw, ring, pcb, processing, finished, pc, ent, job>>
    BY <1>1, Zenon DEF ExtSignal
  <2>2. Pending' = Pending
    BY <2>1, PendingSame, Zenon DEF Leaving
  <2>3. UNCHANGED <<Submitted, Pending, ring, Failed, Busy, finished>>
    BY <2>1, <2>2, Zenon DEF Submitted, Failed, Busy, Occupied
  <2>4. Service!Signal(x)
    BY <2>1, <2>3, Zenon DEF Service!Signal
  <2> QED
    BY <2>4, Zenon DEF Service!Next
<1>2. ASSUME NEW j \in Jobs, ProcessDec(j) PROVE [Service!Next]_(Service!vars)
  BY <1>2, ProcessDecReleases, Zenon DEF Service!Next
<1>3. CASE RunJob
  BY <1>3, RunJobStarts, Zenon DEF Service!Next
<1>4. CASE /\ ~RunJob /\ \A j \in Jobs : ~ProcessDec(j)
           /\ \A x \in ExtFences : ~ExtSignal(x)
  <2>1. UNCHANGED extSignaled
    BY <1>4, DepFrame, Zenon DEF PopJob, AddDependencyCb, FenceScheduled, JobInit
  <2> QED
    BY <1>t, <1>4, <2>1, JobFrame, MainStutters, JobStepService, ZenonT(60)
<1> QED
  BY <1>1, <1>2, <1>3, <1>4, Zenon

-----------------------------------------------------------------------------
(* The number of jobs on the ring *)

INSTANCE FiniteSetTheorems

\* the count is exact, and there is room for the job that amd_sched_main looks for
CountInv ==
    /\ IsFiniteSet(Occupied)
    /\ HwCountExact
    /\ pc \in Admitted => SchedReady

\* the steps keep the count exact: amd_sched_main adds its job after amd_sched_ready has
\* found room, and amd_sched_process_job takes a job off
LEMMA CountStep ==
    ASSUME JobInv, CountInv, [Next]_vars
    PROVE  CountInv'
<1>t. /\ IsFiniteSet(Occupied) /\ hw_rq_count = Cardinality(Occupied)
      /\ hw_rq_count <= HwSubmissionLimit /\ (pc \in Admitted => SchedReady)
      /\ (pc' \in Admitted => pc \in Admitted \/ SchedReady)
  BY CountFrame, Zenon DEF CountInv, HwCountExact
<1>n. hw_rq_count \in Nat /\ HwSubmissionLimit \in Nat
  BY <1>t, FS_CardinalityType, SchedBounds, ZenonT(60)
<1>1. CASE Occupied' = Occupied /\ UNCHANGED hw_rq_count
  BY <1>1, <1>t, Zenon DEF CountInv, HwCountExact, SchedReady
<1>2. CASE MainInc /\ job \in Jobs \ Occupied /\ Occupied' = Occupied \cup {job}
  <2>1. /\ IsFiniteSet(Occupied') /\ Cardinality(Occupied') = Cardinality(Occupied) + 1
    BY <1>2, <1>t, FS_AddElement, ZenonT(60)
  <2>2. pc = "inc" /\ pc' = "begin" /\ hw_rq_count' = hw_rq_count + 1
    BY <1>2, Zenon DEF MainInc
  <2>3. hw_rq_count < HwSubmissionLimit /\ pc' \notin Admitted
    BY <1>t, <2>2, Zenon DEF Admitted, SchedReady
  <2>4. hw_rq_count' <= HwSubmissionLimit
    BY <1>n, <2>2, <2>3, SMTT(60)
  <2> QED
    BY <1>t, <2>1, <2>2, <2>3, <2>4, ZenonT(60) DEF CountInv, HwCountExact
<1>3. ASSUME NEW j \in Occupied, ProcessDec(j), Occupied' = Occupied \ {j}
      PROVE  CountInv'
  <2>1. /\ IsFiniteSet(Occupied') /\ Cardinality(Occupied') = Cardinality(Occupied) - 1
    BY <1>3, <1>t, FS_RemoveElement, ZenonT(60)
  <2>2. hw_rq_count' = hw_rq_count - 1
    BY <1>3, Zenon DEF ProcessDec
  <2>3. /\ hw_rq_count' <= HwSubmissionLimit
        /\ hw_rq_count < HwSubmissionLimit => hw_rq_count' < HwSubmissionLimit
    BY <1>n, <1>t, <2>2, SMTT(60)
  <2> QED
    BY <1>t, <2>1, <2>2, <2>3, ZenonT(60) DEF CountInv, HwCountExact, SchedReady
<1> QED
  BY <1>1, <1>2, <1>3, OccupiedStep, ZenonT(60)

\* the count is exact and there is room where amd_sched_main has found it
LEMMA CountInvHolds == Spec => []CountInv
<1>1. Init => CountInv
  <2> SUFFICES ASSUME Init PROVE CountInv
    OBVIOUS
  <2>1. Occupied = {} /\ hw_rq_count = 0 /\ pc \notin Admitted
    BY Zenon DEF Init, Occupied, Admitted
  <2>2. 0 <= HwSubmissionLimit
    BY SchedBounds, SMTT(60)
  <2> QED
    BY <2>1, <2>2, FS_EmptySet, Zenon DEF CountInv, HwCountExact
<1> QED
  BY <1>1, JobInvHolds, CountStep, PTL DEF Spec

\* hw_rq_count, which amd_sched_main and the fence callbacks change without a lock, is the
\* number of the jobs that hold a unit of the ring, and never exceeds hw_submission_limit
THEOREM HwCountExactHolds == Spec => []HwCountExact
<1>1. CountInv => HwCountExact
  BY Zenon DEF CountInv
<1> QED
  BY <1>1, CountInvHolds, PTL

-----------------------------------------------------------------------------
(* The refinement *)

\* amd_sched_main runs its job only while there is room for it on the ring
LEMMA RoomOnRing ==
    ASSUME JobInv, CountInv, RunJob
    PROVE  Cardinality(Busy) < HwSubmissionLimit
<1>1. pc = "run"
  BY Zenon DEF RunJob
<1>2. job \in Jobs /\ hw[job] = "none"
  BY <1>1, MainJob, Zenon DEF JobInv, HwInv, UsesJob, UsesEntity
<1>3. job \in Occupied /\ Busy \subseteq Occupied \ {job}
  BY <1>1, <1>2, Zenon DEF Busy, Occupied
<1>4. IsFiniteSet(Occupied) /\ Cardinality(Occupied) <= HwSubmissionLimit
  BY Zenon DEF CountInv, HwCountExact
<1>5. /\ IsFiniteSet(Occupied \ {job})
      /\ Cardinality(Occupied \ {job}) = Cardinality(Occupied) - 1
  BY <1>3, <1>4, FS_RemoveElement, ZenonT(60)
<1>6. IsFiniteSet(Busy) /\ Cardinality(Busy) <= Cardinality(Occupied \ {job})
  BY <1>3, <1>5, FS_Subset, ZenonT(60)
<1>7. Cardinality(Busy) \in Nat /\ Cardinality(Occupied) \in Nat /\ HwSubmissionLimit \in Nat
  BY <1>4, <1>6, FS_CardinalityType, SchedBounds, ZenonT(60)
<1> QED
  BY <1>4, <1>5, <1>6, <1>7, SMTT(60)

\* The threads, callbacks and work items of the scheduler together implement JobService: jobs
\* start in queue order, after their dependencies, within hw_submission_limit; and a finished
\* fence is signaled once, after its job has left the ring.
THEOREM JobServiceImplemented == Spec => ImplementsJobService
<1>1. ASSUME Init PROVE Service!Init
  <2>1. /\ push = [j \in Jobs |-> "new"] /\ queue = [e \in Entities |-> <<>>] /\ pc = "loop"
        /\ hw = [j \in Jobs |-> "none"] /\ ring = <<>> /\ finished = {} /\ extSignaled = {}
    BY <1>1, Zenon DEF Init
  <2>2. Submitted = {} /\ Failed = {} /\ Busy = {}
    BY <2>1, Zenon DEF Submitted, Failed, Busy, Occupied
  <2>3. Pending = [e \in Entities |-> <<>>]
    BY <2>1, Zenon DEF Pending, Leaving
  <2> QED
    BY <2>1, <2>2, <2>3, ZenonT(60) DEF Service!Init
<1>2. JobInv /\ CountInv /\ DepInv /\ [Next]_vars => [Service!Next]_(Service!vars)
  BY RoomOnRing, ServiceStep, Zenon
<1> QED
  BY <1>1, <1>2, JobInvHolds, CountInvHolds, DepInvHolds, PTL
  DEF Spec, ImplementsJobService, Service!Spec
=============================================================================
