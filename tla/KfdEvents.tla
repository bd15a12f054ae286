------------------------------ MODULE KfdEvents ------------------------------
(***************************************************************************)
(* The events of one process in kfd_events.c: creating and destroying      *)
(* them, setting and resetting them by ioctl, by interrupts of the GPU and *)
(* by exceptions, and threads that wait for any or all of several events.  *)
(*                                                                         *)
(* All of it runs under event_mutex, except the loop of a waiting thread,  *)
(* which looks at the flags of its waiters and sleeps without the mutex.   *)
(***************************************************************************)
EXTENDS Integers, Sequences, FiniteSets

CONSTANTS
    Threads,
    SignalLimit,     \* KFD_SIGNAL_EVENT_LIMIT, also the slots of a signal page
    FirstNonsignal,  \* KFD_FIRST_NONSIGNAL_EVENT_ID
    LastNonsignal,   \* KFD_LAST_NONSIGNAL_EVENT_ID, itself not used
    Types,           \* the types of the events created
    MaxEvents,       \* bound on the events created
    Timeouts,        \* subset of {"zero", "finite", "infinite"}
    Interruptible,   \* the threads that are sent signals
    GpuSignals,      \* bound on the writes of the GPU
    MaxWaits         \* bound on the events waited for, in all calls of kfd_wait_on_events

ASSUME EventAssumption ==
    /\ {SignalLimit, FirstNonsignal, LastNonsignal, MaxEvents, GpuSignals,
        MaxWaits} \subseteq Nat
    /\ SignalLimit > 0 /\ SignalLimit < FirstNonsignal /\ FirstNonsignal < LastNonsignal
    /\ Types \subseteq {"signal", "debug", "memory"}
    /\ Timeouts \subseteq {"zero", "finite", "infinite"}
    /\ Interruptible \subseteq Threads

Objects == 1..MaxEvents                  \* struct kfd_event, in the order of creation
SlotNumbers == 0..(SignalLimit - 1)
Ids == 0..(LastNonsignal - 1)
Partial == -1                            \* an interrupt that does not carry an id
Unknown == -2                            \* stands for the ids that no event has

VARIABLES
    event,      \* each kfd_event
    created,    \* events created so far
    count,      \* p->signal_event_count
    pages,      \* number of signal pages
    used,       \* the slots taken, pairs of a page and a slot
    written,    \* the slots the GPU has written
    next_id,    \* p->next_nonsignal_event_id
    waiters,    \* ev->waiters, pairs of a thread and the place in its array
    wait,       \* each thread's call of kfd_wait_on_events
    signals,    \* the threads with a signal pending
    irqs,       \* interrupts on their way: an event id, or Partial
    writes, waits

slotVars == <<count, pages, used, next_id>>
gpuVars  == <<written, irqs, writes>>
vars == <<event, created, slotVars, gpuVars, waiters, wait, signals, waits>>

NoEvent == [alive |-> FALSE, id |-> 0, type |-> "signal", auto |-> FALSE,
            signaled |-> FALSE, slot |-> <<>>]
NoWait  == [at |-> "no", ev |-> <<>>, activated |-> <<>>, all |-> FALSE,
            timeout |-> "zero"]

Init ==
    /\ event = [o \in Objects |-> NoEvent] /\ created = 0
    /\ count = 0 /\ pages = 0 /\ used = {} /\ written = {}
    /\ next_id = FirstNonsignal
    /\ waiters = [o \in Objects |-> {}]
    /\ wait = [t \in Threads |-> NoWait]
    /\ signals = {} /\ irqs = {} /\ writes = 0 /\ waits = 0

Alive == {o \in Objects : event[o].alive}

\* lookup_event_by_id
Named(id) == {o \in Alive : event[o].id = id}

KnownIds == {event[o].id : o \in Alive} \cup {Unknown}

SmallestOf(S) == CHOOSE x \in S : \A y \in S : x <= y

-----------------------------------------------------------------------------
(* kfd_event_create, kfd_event_destroy *)

FreeSlots(p) == {s \in SlotNumbers : <<p, s>> \notin used}

\* the page of the next slot: the newest one with a free slot, or a new page
SlotPage ==
    LET open == {p \in 0..(pages - 1) : FreeSlots(p) # {}}
    IN  IF open = {} THEN pages ELSE CHOOSE p \in open : \A q \in open : q <= p

\* make_signal_event_id: page_index | slot; pages after the first one have the index 1
SignalId(p, s) == IF p > 0 /\ s % 2 = 0 THEN s + 1 ELSE s

AtLimit == count = SignalLimit

NewEvent(id, type, auto, slot) ==
    /\ created < MaxEvents
    /\ created' = created + 1
    /\ event' = [event EXCEPT ![created + 1] =
          [alive |-> TRUE, id |-> id, type |-> type, auto |-> auto, signaled |-> FALSE,
           slot |-> slot]]

\* create_signal_event; at the limit the call fails
CreateSignalEvent(type, auto) ==
    LET p == SlotPage
        s == SmallestOf(FreeSlots(p))
    IN
    /\ type \in {"signal", "debug"}
    /\ ~AtLimit
    /\ NewEvent(SignalId(p, s), type, auto, <<p, s>>)
    /\ count' = count + 1
    /\ used' = used \cup {<<p, s>>}
    /\ pages' = IF p = pages THEN pages + 1 ELSE pages
    /\ written' = written \ {<<p, s>>}
    /\ UNCHANGED <<next_id, irqs, writes, waiters, wait, signals, waits>>

\* mutant: ids in use are not passed over
UnusedOrUsed(first) == first..(LastNonsignal - 1)

UnusedFrom(first) == {id \in first..(LastNonsignal - 1) : Named(id) = {}}

\* the unused ids from the next one on, or else all
UnusedIds == IF UnusedFrom(next_id) # {} THEN UnusedFrom(next_id)
             ELSE UnusedFrom(FirstNonsignal)

\* create_other_event, make_nonsignal_event_id
CreateOtherEvent(type, auto) ==
    LET id == SmallestOf(UnusedIds) IN
    /\ type \notin {"signal", "debug"}
    /\ \/ /\ UnusedIds # {}
          /\ NewEvent(id, type, auto, <<>>)
          /\ next_id' = id + 1
       \/ /\ UnusedIds = {}
          /\ next_id' = FirstNonsignal
          /\ UNCHANGED <<event, created>>
    /\ UNCHANGED <<count, pages, used, gpuVars, waiters, wait, signals, waits>>

\* destroy_event; the waiters are abandoned
Destroy(o) ==
    /\ o \in Alive
    /\ event' = [event EXCEPT ![o] = NoEvent]
    /\ \/ event[o].slot # <<>> /\ used' = used \ {event[o].slot} /\ count' = count - 1
       \/ event[o].slot = <<>> /\ UNCHANGED <<used, count>>
    /\ waiters' = [waiters EXCEPT ![o] = {}]
    /\ UNCHANGED <<created, pages, next_id, gpuVars, wait, signals, waits>>

-----------------------------------------------------------------------------
(* set_event, and its callers *)

\* wake_up_process; a thread that has not gone to sleep yet is running, and stays so
Wake(w) == IF w.at = "sleep" THEN "test" ELSE w.at

\* set_event for each event of a set
SetEvents(S) ==
    /\ event' = [o \in Objects |->
          IF o \in S
          THEN [event[o] EXCEPT !.signaled = ~event[o].auto \/ waiters[o] = {}]
          ELSE event[o]]
    /\ waiters' = [o \in Objects |-> IF o \in S THEN {} ELSE waiters[o]]
    /\ wait' = [t \in Threads |->
          LET hit == {i \in DOMAIN wait[t].activated : \E o \in S : <<t, i>> \in waiters[o]}
          IN  IF hit = {} THEN wait[t]
              ELSE [wait[t] EXCEPT
                     !.activated = [i \in DOMAIN @ |-> @[i] \/ i \in hit],
                     !.at = Wake(wait[t])]]

\* kfd_set_event
SetEvent(o) ==
    /\ o \in Alive /\ event[o].type = "signal"
    /\ SetEvents({o})
    /\ UNCHANGED <<created, slotVars, gpuVars, signals, waits>>

\* kfd_reset_event
ResetEvent(o) ==
    /\ o \in Alive /\ event[o].type = "signal"
    /\ event' = [event EXCEPT ![o].signaled = FALSE]
    /\ UNCHANGED <<created, slotVars, gpuVars, waiters, wait, signals, waits>>

\* the GPU writes the slot of an event and sends an interrupt with its id or without
GpuWrite(o) ==
    /\ writes < GpuSignals
    /\ o \in Alive /\ event[o].slot # <<>>
    /\ writes' = writes + 1
    /\ written' = written \cup {event[o].slot}
    /\ \E m \in {event[o].id, Partial} : irqs' = irqs \cup {m}
    /\ UNCHANGED <<event, created, slotVars, waiters, wait, signals, waits>>

GpuSignaled(S) == {o \in S : event[o].type \in {"signal", "debug"}}

\* kfd_signal_event_interrupt: the event with the id, or all those whose slot is written;
\* acknowledge_signal clears their slots
SignalEventInterrupt(m) ==
    LET S == IF m # Partial THEN GpuSignaled(Named(m))
             ELSE {o \in GpuSignaled(Alive) : event[o].slot \in written}
    IN
    /\ m \in irqs
    /\ irqs' = irqs \ {m}
    /\ SetEvents(S)
    /\ written' = written \ {event[o].slot : o \in S}
    /\ UNCHANGED <<created, slotVars, writes, signals, waits>>

\* lookup_events_by_type_and_signal, from an IOMMU fault or a hardware exception; bounded
\* with the writes of the GPU
ExceptionEvent ==
    /\ writes < GpuSignals
    /\ writes' = writes + 1
    /\ SetEvents({o \in Alive : event[o].type = "memory"})
    /\ UNCHANGED <<created, slotVars, written, irqs, signals, waits>>

-----------------------------------------------------------------------------
(* kfd_wait_on_events *)

\* mutant: a waiter starts out not activated
StartInactive(ids, evs, i) == FALSE

\* init_event_waiter takes over the state of the event, and resets an auto-reset event:
\* a second waiter of the same call for it finds it reset
StartActivated(ids, evs, i) ==
    /\ event[evs[i]].signaled
    /\ event[evs[i]].auto => \A k \in 1..(i - 1) : ids[k] # ids[i]

WaitOnEvents(t, ids, all, timeout) ==
    LET known == {n \in 0..Len(ids) : \A i \in 1..n : Named(ids[i]) # {}}
        n == CHOOSE k \in known : \A l \in known : l <= k
        evs == [i \in 1..n |-> CHOOSE o \in Named(ids[i]) : TRUE]
        S == {evs[i] : i \in 1..n}
    IN
    /\ wait[t].at = "no" /\ waits + Len(ids) <= MaxWaits
    /\ waits' = waits + Len(ids)
    /\ event' = [o \in Objects |->
          IF o \in S THEN [event[o] EXCEPT !.signaled = @ /\ ~event[o].auto] ELSE event[o]]
    /\ \/ /\ n = Len(ids)
          /\ wait' = [wait EXCEPT ![t] =
                [at |-> "test", ev |-> evs, all |-> all, timeout |-> timeout,
                 activated |-> [i \in 1..n |-> StartActivated(ids, evs, i)]]]
          /\ waiters' = [o \in Objects |->
                waiters[o] \cup {<<t, i>> : i \in {k \in 1..n : evs[k] = o}}]
       \/ /\ n < Len(ids)                        \* -EINVAL, and the waiters are freed
          /\ UNCHANGED <<wait, waiters>>
    /\ UNCHANGED <<created, slotVars, gpuVars, signals>>

\* test_event_condition
Condition(t) ==
    LET act == wait[t].activated
    IN  IF wait[t].all THEN \A i \in DOMAIN act : act[i] ELSE \E i \in DOMAIN act : act[i]

\* the checks of the loop, in their order
Test(t) ==
    /\ wait[t].at = "test"
    /\ wait' = [wait EXCEPT ![t].at = CASE t \in signals -> "leave"
                                        [] t \notin signals /\ Condition(t) -> "copy"
                                        [] t \notin signals /\ ~Condition(t)
                                             /\ wait[t].timeout = "zero" -> "leave"
                                        [] OTHER -> "prepare"]
    /\ signals' = signals \ {t}
    /\ UNCHANGED <<event, created, slotVars, gpuVars, waiters, waits>>

\* copy_signaled_event_data reads the events of the activated waiters
CopyData(t) ==
    /\ wait[t].at = "copy"
    /\ wait' = [wait EXCEPT ![t].at = "leave"]
    /\ UNCHANGED <<event, created, slotVars, gpuVars, waiters, signals, waits>>

\* schedule_timeout_interruptible sets the state of the task, then sleeps; a signal that
\* is pending keeps it awake
Sleep(t) ==
    /\ wait[t].at = "prepare"
    /\ wait' = [wait EXCEPT ![t].at = IF t \in signals THEN "test" ELSE "sleep"]
    /\ UNCHANGED <<event, created, slotVars, gpuVars, waiters, signals, waits>>

\* mutant: the time that is left is forgotten
SameTimeout == "finite"

\* nothing is left of the timeout
Expired == "zero"

TimerExpires(t) ==
    /\ wait[t].at = "sleep" /\ wait[t].timeout = "finite"
    /\ wait' = [wait EXCEPT ![t].at = "test", ![t].timeout = Expired]
    /\ UNCHANGED <<event, created, slotVars, gpuVars, waiters, signals, waits>>

SendSignal(t) ==
    /\ t \in Interruptible /\ wait[t].at # "no" /\ t \notin signals
    /\ signals' = signals \cup {t}
    /\ wait' = [wait EXCEPT ![t].at = Wake(wait[t])]
    /\ UNCHANGED <<event, created, slotVars, gpuVars, waiters, waits>>

\* mutant: the lists are emptied, of the waiters of other threads too
EmptyLists(t) == Threads \X (1..MaxWaits)

\* free_waiters takes them all off
OwnWaiters(t) == {<<t, i>> : i \in DOMAIN wait[t].ev}

Leave(t) ==
    /\ wait[t].at = "leave"
    /\ waiters' = [o \in Objects |-> waiters[o] \ OwnWaiters(t)]
    /\ wait' = [wait EXCEPT ![t] = NoWait]
    /\ signals' = signals \ {t}
    /\ UNCHANGED <<event, created, slotVars, gpuVars, waits>>

-----------------------------------------------------------------------------
Waiting(t) == Test(t) \/ CopyData(t) \/ Sleep(t) \/ Leave(t) \/ TimerExpires(t)

Next ==
    \/ \E type \in Types, auto \in BOOLEAN :
         CreateSignalEvent(type, auto) \/ CreateOtherEvent(type, auto)
    \/ \E o \in Objects : Destroy(o) \/ SetEvent(o) \/ ResetEvent(o) \/ GpuWrite(o)
    \/ \E m \in irqs : SignalEventInterrupt(m)
    \/ ExceptionEvent
    \/ \E t \in Threads :
         \/ \E n \in 1..MaxWaits : \E ids \in [1..n -> KnownIds] :
              \E all \in {TRUE, n = 1}, timeout \in Timeouts : WaitOnEvents(t, ids, all, timeout)
         \/ Waiting(t) \/ SendSignal(t)

Spec == Init /\ [][Next]_vars

\* waiting threads are scheduled and timers expire
FairSpec == Spec /\ \A t \in Threads : WF_vars(Waiting(t))

-----------------------------------------------------------------------------
(* Properties *)

\* No two events of a process have one id, although page_index | slot does not tell the
\* slots of two pages apart: the limit on signal events keeps the process at one page, and
\* the search for other ids passes over the ones in use.
IdsUnique == \A o, k \in Alive : event[o].id = event[k].id => o = k

\* The lists of the events and the waits of the threads agree, with threads leaving and
\* events destroyed in any order: a list leads only to threads that are still in their wait
\* for this event, which exists, never to freed waiters; and a thread is on the list of each
\* event it still waits for, so that set_event reaches it.
WaitersExact ==
    /\ \A o \in Objects : \A w \in waiters[o] :
          /\ o \in Alive /\ wait[w[1]].at # "no"
          /\ w[2] \in DOMAIN wait[w[1]].ev /\ wait[w[1]].ev[w[2]] = o
    /\ \A t \in Threads : \A i \in DOMAIN wait[t].ev :
          \/ wait[t].activated[i]
          \/ wait[t].ev[i] \notin Alive
          \/ <<t, i>> \in waiters[wait[t].ev[i]]

\* An event that is signaled has no waiter that does not know it: init_event_waiter and
\* set_event between them miss no signal.
NoMissedSignal ==
    \A o \in Alive : event[o].signaled =>
        \A w \in waiters[o] : wait[w[1]].activated[w[2]]

\* Waits with a finite timeout return, whatever is signaled or destroyed meanwhile.
FiniteWaitsReturn ==
    <>[](\A t \in Threads : wait[t].at = "no" \/ wait[t].timeout = "infinite")

\* A thread whose waiters satisfy its wait returns from it, also without a timeout.
WokenReturns ==
    \A t \in Threads : wait[t].at # "no" /\ Condition(t) ~> wait[t].at = "no"

=============================================================================
