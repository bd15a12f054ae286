--------------------------- MODULE KfdEventsProofs ---------------------------
(***************************************************************************)
(* Proofs about the events of a process: the ids are unique for every      *)
(* limit on the events, the lists of waiters and the waiting threads agree *)
(* and no signal is missed, for any number of threads and events.          *)
(***************************************************************************)
EXTENDS KfdEvents, FiniteSetTheorems, TLAPS

-----------------------------------------------------------------------------
(* Sequences: the events a call waits for *)

\* The length of a sequence, and its elements.
LEMMA SeqLen ==
    ASSUME NEW S, NEW s \in Seq(S)
    PROVE  Len(s) \in Nat /\ s \in [1..Len(s) -> S] /\ DOMAIN s = 1..Len(s)
OBVIOUS

\* A table given entry by entry.
LEMMA SeqOfFun ==
    ASSUME NEW S, NEW n \in Nat, NEW f \in [1..n -> S]
    PROVE  f \in Seq(S) /\ DOMAIN f = 1..n
OBVIOUS

-----------------------------------------------------------------------------
(* Least and greatest elements *)

\* The search loops of the driver (find_next_zero_bit and the like) end at the first hit: a
\* set of naturals that has an element has a least one.
LEMMA NatMin ==
    ASSUME NEW S \in SUBSET Nat, S # {}
    PROVE  \E x \in S : \A y \in S : x <= y
<1> DEFINE R == OpToRel(<, Nat)
<1>1. IsWellFoundedOn(R, Nat)
  BY NatLessThanWellFounded, Zenon
<1>2. \A x, y \in Nat : x < y => <<x, y>> \in R
  BY Zenon DEF OpToRel
<1> HIDE DEF R
<1>3. PICK x \in S : \A y \in S : ~ (<<y, x>> \in R)
  BY <1>1, WFMin, Zenon
<1>4. ASSUME NEW y \in S PROVE x <= y
  <2>1. x \in Nat /\ y \in Nat
    BY Zenon
  <2>2. ~ (y < x)
    BY <2>1, <1>2, <1>3, Zenon
  <2> QED
    BY <2>1, <2>2
<1> QED
  BY <1>4, Zenon

\* ... and a set of numbers up to n has a greatest one.
LEMMA IntervalMax ==
    ASSUME NEW n \in Nat, NEW S \in SUBSET (0..n), S # {}
    PROVE  \E x \in S : \A y \in S : y <= x
<1> DEFINE T == {n - x : x \in S}
<1>1. T \in SUBSET Nat /\ T # {}
  <2>1. \A x \in S : n - x \in Nat
    OBVIOUS
  <2> QED
    BY <2>1, Zenon
<1>2. PICK k \in T : \A y \in T : k <= y
  BY <1>1, NatMin, Zenon
<1>3. PICK x \in S : k = n - x
  BY <1>2, Zenon
<1>4. ASSUME NEW y \in S PROVE y <= x
  <2>1. n - y \in T
    BY Zenon
  <2>2. k <= n - y
    BY <1>2, <2>1, Zenon
  <2> QED
    BY <2>2, <1>3
<1> QED
  BY <1>4, Zenon

-----------------------------------------------------------------------------
(* Ids *)

Others == FirstNonsignal..(LastNonsignal - 1)

Event == [alive : BOOLEAN, id : Nat, type : {"signal", "debug", "memory"},
          auto : BOOLEAN, signaled : BOOLEAN, slot : {<<>>} \cup ({0} \X SlotNumbers)]

EventsOk ==
    /\ created \in 0..MaxEvents
    /\ event \in [Objects -> Event]
    /\ \A o \in Objects : o > created => ~event[o].alive

\* an event with a slot has the number of the slot as its id, and the slot is taken
IdOk(e) == IF e.slot = <<>> THEN e.id \in Others
           ELSE e.id \in SlotNumbers /\ e.slot = <<0, e.id>> /\ e.slot \in used

SlotsOk ==
    /\ pages \in {0, 1}
    /\ next_id \in FirstNonsignal..LastNonsignal
    /\ used \in SUBSET ({0} \X SlotNumbers)
    /\ count = Cardinality(used)
    /\ \A o \in Alive : IdOk(event[o])

IdsInv == EventsOk /\ SlotsOk /\ IdsUnique

\* The state of a process before kfd_event_create is called.
LEMMA IdsInit == Init => IdsInv
<1> SUFFICES ASSUME Init PROVE IdsInv
  BY Zenon
<1>1. EventsOk
  BY EventAssumption DEF Init, EventsOk, Event, NoEvent
<1>2. Alive = {}
  BY Zenon DEF Init, Alive, NoEvent
<1>3. SlotsOk
  BY <1>2, EventAssumption, FS_EmptySet DEF Init, SlotsOk
<1> QED
  BY <1>1, <1>2, <1>3, Zenon DEF IdsInv, IdsUnique

\* The handlers that only signal, reset or wait leave the ids and slots alone.
LEMMA IdsKept ==
    ASSUME IdsInv, UNCHANGED <<created, slotVars>>, event' \in [Objects -> Event],
           \A o \in Objects : /\ event'[o].alive = event[o].alive
                              /\ event'[o].id = event[o].id /\ event'[o].slot = event[o].slot
    PROVE  IdsInv' /\ Alive' = Alive
<1>1. EventsOk'
  BY Zenon DEF IdsInv, EventsOk
<1>2. Alive' = Alive
  BY Zenon DEF Alive
<1>3. ASSUME NEW o \in Alive PROVE IdOk(event[o])'
  BY <1>3, slotVars = slotVars', Zenon DEF IdsInv, SlotsOk, IdOk, Alive, slotVars
<1>4. SlotsOk'
  BY <1>2, <1>3, Zenon DEF IdsInv, SlotsOk, slotVars
<1>5. IdsUnique'
  BY <1>2 DEF IdsInv, IdsUnique, Alive
<1> QED
  BY <1>1, <1>2, <1>4, <1>5, Zenon DEF IdsInv

\* The event that kfd_event_create adds is a new object; the others stay as they are.
LEMMA NewEventFacts ==
    ASSUME IdsInv, NEW id \in Nat, NEW type \in Types, NEW auto \in BOOLEAN,
           NEW slot \in {<<>>} \cup ({0} \X SlotNumbers), NewEvent(id, type, auto, slot)
    PROVE  /\ EventsOk'
           /\ created + 1 \in Objects \ Alive /\ created' = created + 1
           /\ Alive' = Alive \cup {created + 1}
           /\ \A o \in Alive : event'[o] = event[o]
           /\ event'[created + 1].id = id /\ event'[created + 1].slot = slot
           /\ ~event'[created + 1].signaled
<1> DEFINE e == [alive |-> TRUE, id |-> id, type |-> type, auto |-> auto,
                 signaled |-> FALSE, slot |-> slot]
<1> PICK n : n = created + 1
  BY Zenon
<1>1. /\ created \in 0..MaxEvents /\ created < MaxEvents /\ created' = n
      /\ event' = [event EXCEPT ![n] = e]
  BY Zenon DEF NewEvent, IdsInv, EventsOk
<1>2. e \in Event /\ e.alive /\ e.id = id /\ e.slot = slot /\ ~e.signaled
  BY EventAssumption, Zenon DEF Event
<1> HIDE DEF e
<1>3. n \in Objects /\ created' \in 0..MaxEvents
  BY <1>1, EventAssumption DEF Objects
<1>4. event \in [Objects -> Event] /\ ~event[n].alive
  BY <1>1, <1>3 DEF IdsInv, EventsOk
<1>5. event' \in [Objects -> Event] /\ event'[n] = e /\ \A o \in Objects \ {n} : event'[o] = event[o]
  BY <1>1, <1>2, <1>3, <1>4, Zenon
<1>6. EventsOk'
  <2> SUFFICES ASSUME NEW o \in Objects, o > created' PROVE ~event'[o].alive
    BY <1>3, <1>5, Zenon DEF EventsOk
  <2>1. o \in Objects \ {n} /\ o > created
    BY <1>1 DEF Objects
  <2> QED
    BY <2>1, <1>5, Zenon DEF IdsInv, EventsOk
<1>7. n \notin Alive /\ Alive' = Alive \cup {n} /\ \A o \in Alive : event'[o] = event[o]
  BY <1>2, <1>3, <1>4, <1>5, Zenon DEF Alive
<1> QED
  BY <1>1, <1>2, <1>3, <1>5, <1>6, <1>7, Zenon

\* A page has SignalLimit slots (KFD_SIGNAL_EVENT_LIMIT).
LEMMA SlotCount ==
    /\ IsFiniteSet({0} \X SlotNumbers)
    /\ Cardinality({0} \X SlotNumbers) = SignalLimit
<1>1. SignalLimit \in Nat /\ SignalLimit > 0
  BY EventAssumption, Zenon
<1>2. 0 \in Int /\ SignalLimit - 1 \in Int /\ ~(0 > SignalLimit - 1)
  BY <1>1
<1>3. IsFiniteSet(0..(SignalLimit - 1)) /\ Cardinality(0..(SignalLimit - 1)) = SignalLimit
  <2>1. /\ IsFiniteSet(0..(SignalLimit - 1))
        /\ Cardinality(0..(SignalLimit - 1)) =
             IF 0 > SignalLimit - 1 THEN 0 ELSE (SignalLimit - 1) - 0 + 1
    BY <1>2, FS_Interval, Zenon
  <2> QED
    BY <2>1, <1>1
<1>4. IsFiniteSet({0}) /\ Cardinality({0}) = 1
  BY FS_Singleton, Zenon
<1>5. /\ IsFiniteSet({0} \X SlotNumbers)
      /\ Cardinality({0} \X SlotNumbers) = Cardinality({0}) * Cardinality(SlotNumbers)
  BY <1>3, <1>4, FS_Product, Zenon DEF SlotNumbers
<1> QED
  BY <1>1, <1>3, <1>4, <1>5 DEF SlotNumbers

\* Below the limit the first page has a free slot, so that allocate_signal_page is called
\* for the first event of a process only.
LEMMA OnePage ==
    ASSUME IdsInv, ~AtLimit
    PROVE  SlotPage = 0 /\ FreeSlots(0) # {} /\ (pages = 0 \/ SlotPage # pages)
<1>1. /\ pages \in {0, 1} /\ used \in SUBSET ({0} \X SlotNumbers)
      /\ Cardinality(used) # SignalLimit
  BY Zenon DEF IdsInv, SlotsOk, AtLimit
<1>3. FreeSlots(0) # {}
  <2> SUFFICES ASSUME FreeSlots(0) = {} PROVE FALSE
    BY Zenon
  <2>1. used = {0} \X SlotNumbers
    BY <1>1 DEF FreeSlots
  <2> QED
    BY <2>1, <1>1, SlotCount, Zenon
<1>4. SlotPage = 0
  <2>1. CASE pages = 0
    <3>1. {p \in 0..(pages - 1) : FreeSlots(p) # {}} = {}
      BY <2>1
    <3> QED
      BY <3>1, <2>1, Zenon DEF SlotPage
  <2>2. CASE pages = 1
    <3>1. {p \in 0..(pages - 1) : FreeSlots(p) # {}} = {0}
      BY <2>2, <1>3
    <3> QED
      BY <3>1 DEF SlotPage
  <2> QED
    BY <2>1, <2>2, <1>1, Zenon
<1> QED
  BY <1>1, <1>3, <1>4, Zenon

\* create_signal_event takes the first free slot of the page, and its number as the id.
LEMMA SignalSlot ==
    ASSUME IdsInv, NEW type, NEW auto, CreateSignalEvent(type, auto)
    PROVE  \E s \in SlotNumbers :
             /\ <<0, s>> \notin used /\ s \in Nat
             /\ NewEvent(s, type, auto, <<0, s>>) /\ count' = count + 1
             /\ used' = used \cup {<<0, s>>} /\ next_id' = next_id
             /\ pages' = IF 0 = pages THEN pages + 1 ELSE pages
<1> PICK s : s = SmallestOf(FreeSlots(0))
  BY Zenon
<1>1. SlotPage = 0 /\ FreeSlots(0) # {} /\ (pages = 0 \/ SlotPage # pages)
  BY OnePage, Zenon DEF CreateSignalEvent
<1>2. s \in FreeSlots(0)
  <2>1. FreeSlots(0) \in SUBSET Nat
    BY EventAssumption DEF FreeSlots, SlotNumbers
  <2>2. \E x \in FreeSlots(0) : \A y \in FreeSlots(0) : x <= y
    BY <2>1, <1>1, NatMin, Zenon
  <2> QED
    BY <2>2, Zenon DEF SmallestOf
<1>3. s \in SlotNumbers /\ <<0, s>> \notin used /\ s \in Nat
  BY <1>2, EventAssumption DEF FreeSlots, SlotNumbers
<1>4. SignalId(0, s) = s
  BY DEF SignalId
<1>5. /\ NewEvent(s, type, auto, <<0, s>>) /\ count' = count + 1
      /\ used' = used \cup {<<0, s>>} /\ next_id' = next_id
      /\ pages' = IF 0 = pages THEN pages + 1 ELSE pages
  BY <1>1, <1>4, Zenon DEF CreateSignalEvent
<1> QED
  BY <1>3, <1>5, Zenon

\* create_signal_event
LEMMA IdsCreateSignal ==
    ASSUME IdsInv, NEW type \in Types, NEW auto \in BOOLEAN, CreateSignalEvent(type, auto)
    PROVE  IdsInv'
<1>5. PICK s \in SlotNumbers :
        /\ <<0, s>> \notin used /\ s \in Nat
        /\ NewEvent(s, type, auto, <<0, s>>) /\ count' = count + 1
        /\ used' = used \cup {<<0, s>>} /\ next_id' = next_id
        /\ pages' = IF 0 = pages THEN pages + 1 ELSE pages
  BY SignalSlot, Zenon
<1>3. s \in SlotNumbers /\ <<0, s>> \notin used /\ s \in Nat
  BY <1>5, Zenon
<1> PICK n : n = created + 1
  BY Zenon
<1>6. /\ EventsOk'
      /\ n \in Objects \ Alive
      /\ Alive' = Alive \cup {n}
      /\ \A o \in Alive : event'[o] = event[o]
      /\ event'[n].id = s /\ event'[n].slot = <<0, s>>
  BY <1>3, <1>5, NewEventFacts
<1>7. /\ pages \in {0, 1} /\ next_id \in FirstNonsignal..LastNonsignal
      /\ used \in SUBSET ({0} \X SlotNumbers)
      /\ count = Cardinality(used)
      /\ \A o \in Alive : IdOk(event[o])
  BY Zenon DEF IdsInv, SlotsOk
<1>8. ASSUME NEW o \in Alive PROVE IdOk(event[o])' /\ event[o].id # s
  <2>1. IdOk(event[o]) /\ event'[o] = event[o]
    BY <1>6, <1>7, Zenon
  <2>2. CASE event[o].slot = <<>>
    BY <2>1, <2>2, <1>3, EventAssumption, SMTT(60) DEF IdOk, Others, SlotNumbers
  <2>3. CASE event[o].slot # <<>>
    BY <2>1, <2>3, <1>3, <1>5, Zenon DEF IdOk
  <2> QED
    BY <2>2, <2>3, Zenon
<1>9. IdOk(event[n])'
  <2>1. <<0, s>> # <<>>
    BY Zenon
  <2> QED
    BY <2>1, <1>6, <1>5, <1>3, Zenon DEF IdOk
<1>10. Cardinality(used') = count'
  <2>1. IsFiniteSet(used)
    BY <1>7, SlotCount, FS_Subset, Zenon
  <2>2. Cardinality(used \cup {<<0, s>>}) = Cardinality(used) + 1
    BY <2>1, <1>3, FS_AddElement, Zenon
  <2> QED
    BY <2>2, <1>5, <1>7, Zenon
<1>11. SlotsOk'
  BY <1>3, <1>5, <1>6, <1>7, <1>8, <1>9, <1>10 DEF SlotsOk
<1>12. IdsUnique'
  BY <1>6, <1>8 DEF IdsInv, IdsUnique
<1> QED
  BY <1>6, <1>11, <1>12, Zenon DEF IdsInv

\* make_nonsignal_event_id finds an id that no event has, or fails.
LEMMA OtherId ==
    ASSUME IdsInv, NEW type, NEW auto, CreateOtherEvent(type, auto)
    PROVE  /\ UNCHANGED <<count, pages, used>>
           /\ \/ next_id' = FirstNonsignal /\ UNCHANGED <<event, created>>
              \/ \E id \in Others :
                   /\ id \in Nat /\ \A o \in Alive : event[o].id # id
                   /\ NewEvent(id, type, auto, <<>>) /\ next_id' = id + 1
<1> PICK id : id = SmallestOf(UnusedIds)
  BY Zenon
<1>1. /\ \/ /\ UnusedIds # {} /\ NewEvent(id, type, auto, <<>>) /\ next_id' = id + 1
         \/ next_id' = FirstNonsignal /\ UNCHANGED <<event, created>>
      /\ UNCHANGED <<count, pages, used>>
  BY Zenon DEF CreateOtherEvent
<1>2. next_id \in FirstNonsignal..LastNonsignal
  BY Zenon DEF IdsInv, SlotsOk
<1>3. UnusedIds \in SUBSET Others /\ \A i \in UnusedIds : Named(i) = {}
  BY <1>2, EventAssumption DEF UnusedIds, UnusedFrom, Others
<1>4. Others \subseteq Nat
  BY EventAssumption DEF Others
<1>5. ASSUME UnusedIds # {} PROVE id \in UnusedIds
  <2>1. \E x \in UnusedIds : \A y \in UnusedIds : x <= y
    BY <1>3, <1>4, <1>5, NatMin, Zenon
  <2> QED
    BY <2>1, Zenon DEF SmallestOf
<1>6. ASSUME UnusedIds # {} PROVE \A o \in Alive : event[o].id # id
  BY <1>3, <1>5, <1>6, Zenon DEF Named
<1> QED
  BY <1>1, <1>3, <1>4, <1>5, <1>6, Zenon

\* create_other_event
LEMMA IdsCreateOther ==
    ASSUME IdsInv, NEW type \in Types, NEW auto \in BOOLEAN, CreateOtherEvent(type, auto)
    PROVE  IdsInv'
<1>1. /\ \/ next_id' = FirstNonsignal /\ UNCHANGED <<event, created>>
         \/ \E id \in Others :
              /\ id \in Nat /\ \A o \in Alive : event[o].id # id
              /\ NewEvent(id, type, auto, <<>>) /\ next_id' = id + 1
      /\ UNCHANGED <<count, pages, used>>
  BY OtherId, Zenon
<1>2. /\ pages \in {0, 1} /\ next_id \in FirstNonsignal..LastNonsignal
      /\ used \in SUBSET ({0} \X SlotNumbers)
      /\ count = Cardinality(used)
      /\ \A o \in Alive : IdOk(event[o])
  BY Zenon DEF IdsInv, SlotsOk
<1>3. CASE UNCHANGED <<event, created>> /\ next_id' = FirstNonsignal
  <2>1. EventsOk' /\ Alive' = Alive /\ IdsUnique'
    BY <1>3, Zenon DEF IdsInv, EventsOk, IdsUnique, Alive
  <2>2. ASSUME NEW o \in Alive PROVE IdOk(event[o])'
    BY <1>1, <1>2, <1>3, Zenon DEF IdOk
  <2> QED
    BY <2>1, <2>2, <1>1, <1>2, <1>3, EventAssumption DEF IdsInv, SlotsOk
<1>4. ASSUME NEW id \in Others, id \in Nat, \A o \in Alive : event[o].id # id,
             NewEvent(id, type, auto, <<>>), next_id' = id + 1
      PROVE  IdsInv'
  <2>1. next_id' \in FirstNonsignal..LastNonsignal
    BY <1>4, EventAssumption DEF Others
  <2> PICK n : n = created + 1
    BY Zenon
  <2>2. /\ EventsOk'
        /\ n \in Objects \ Alive
        /\ Alive' = Alive \cup {n}
        /\ \A o \in Alive : event'[o] = event[o]
        /\ event'[n].id = id /\ event'[n].slot = <<>>
    BY <1>4, NewEventFacts
  <2>3. ASSUME NEW o \in Alive PROVE IdOk(event[o])'
    BY <2>2, <1>1, <1>2, Zenon DEF IdOk
  <2>4. IdOk(event[n])'
    BY <2>2, Zenon DEF IdOk
  <2>5. SlotsOk'
    BY <2>1, <2>2, <2>3, <2>4, <1>1, <1>2, Zenon DEF SlotsOk
  <2>6. IdsUnique'
    BY <2>2, <1>4 DEF IdsInv, IdsUnique
  <2> QED
    BY <2>2, <2>5, <2>6, Zenon DEF IdsInv
<1> QED
  BY <1>1, <1>3, <1>4, Zenon

\* destroy_event frees the slot with the id.
LEMMA IdsDestroy ==
    ASSUME IdsInv, NEW o \in Objects, Destroy(o)
    PROVE  IdsInv'
<1>1. /\ o \in Alive /\ event' = [event EXCEPT ![o] = NoEvent]
      /\ \/ event[o].slot # <<>> /\ used' = used \ {event[o].slot} /\ count' = count - 1
         \/ event[o].slot = <<>> /\ used' = used /\ count' = count
      /\ created' = created /\ pages' = pages /\ next_id' = next_id
  BY Zenon DEF Destroy
<1>2. /\ pages \in {0, 1} /\ next_id \in FirstNonsignal..LastNonsignal
      /\ used \in SUBSET ({0} \X SlotNumbers)
      /\ count = Cardinality(used)
      /\ \A k \in Alive : IdOk(event[k])
  BY Zenon DEF IdsInv, SlotsOk
<1>3. event \in [Objects -> Event] /\ NoEvent \in Event /\ ~NoEvent.alive
  BY Zenon DEF IdsInv, EventsOk, NoEvent, Event
<1>4. /\ event' \in [Objects -> Event] /\ ~event'[o].alive
      /\ \A k \in Objects \ {o} : event'[k] = event[k]
  BY <1>1, <1>3, Zenon
<1>5. Alive' = Alive \ {o}
  BY <1>4 DEF Alive
<1>6. EventsOk'
  BY <1>1, <1>4, Zenon DEF IdsInv, EventsOk
<1>7. ASSUME NEW k \in Alive \ {o} PROVE IdOk(event[k])' /\ event'[k] = event[k]
  <2>1. event'[k] = event[k] /\ IdOk(event[k]) /\ event[k].id # event[o].id
    BY <1>1, <1>2, <1>4, Zenon DEF Alive, IdsInv, IdsUnique
  <2>2. CASE event[k].slot = <<>>
    BY <2>1, <2>2, Zenon DEF IdOk
  <2>3. CASE event[k].slot # <<>>
    <3>1. event[k].slot # event[o].slot
      BY <2>1, <2>3, <1>1, <1>2 DEF IdOk
    <3>2. event[k].slot \in used'
      BY <3>1, <2>1, <2>3, <1>1, Zenon DEF IdOk
    <3> QED
      BY <3>2, <2>1, <2>3, Zenon DEF IdOk
  <2> QED
    BY <2>1, <2>2, <2>3, Zenon
<1>8. used' \in SUBSET ({0} \X SlotNumbers) /\ count' = Cardinality(used')
  <2>1. CASE event[o].slot = <<>>
    BY <2>1, <1>1, <1>2, Zenon
  <2>2. CASE event[o].slot # <<>>
    <3>1. event[o].slot \in used
      BY <2>2, <1>1, <1>2, Zenon DEF IdOk
    <3>2. IsFiniteSet(used)
      BY <1>2, SlotCount, FS_Subset, Zenon
    <3>3. Cardinality(used \ {event[o].slot}) = Cardinality(used) - 1
      BY <3>1, <3>2, FS_RemoveElement, Zenon
    <3> QED
      BY <3>3, <2>2, <1>1, <1>2, Zenon
  <2> QED
    BY <2>1, <2>2, Zenon
<1>9. SlotsOk'
  BY <1>1, <1>2, <1>5, <1>7, <1>8, Zenon DEF SlotsOk
<1>10. IdsUnique'
  BY <1>5, <1>7 DEF IdsInv, IdsUnique
<1> QED
  BY <1>6, <1>9, <1>10, Zenon DEF IdsInv

\* what a handler that does not create or destroy an event may change
SameEvents ==
    /\ UNCHANGED <<created, slotVars>> /\ event' \in [Objects -> Event]
    /\ \A o \in Objects :
         /\ event'[o].alive = event[o].alive /\ event'[o].auto = event[o].auto
         /\ event'[o].id = event[o].id /\ event'[o].slot = event[o].slot

\* set_event changes signaled only, also the one in WaitOnEvents does.
LEMMA SignaledOnly ==
    ASSUME IdsInv, NEW f \in [Objects -> BOOLEAN], NEW S, UNCHANGED <<created, slotVars>>,
           event' = [o \in Objects |->
             IF o \in S THEN [event[o] EXCEPT !.signaled = f[o]] ELSE event[o]]
    PROVE  /\ SameEvents
           /\ \A o \in Objects : event'[o].signaled = IF o \in S THEN f[o] ELSE event[o].signaled
<1>1. event \in [Objects -> Event]
  BY Zenon DEF IdsInv, EventsOk
<1>2. ASSUME NEW o \in Objects
      PROVE  /\ event'[o] \in Event
             /\ event'[o].alive = event[o].alive /\ event'[o].auto = event[o].auto
             /\ event'[o].id = event[o].id /\ event'[o].slot = event[o].slot
             /\ event'[o].signaled = IF o \in S THEN f[o] ELSE event[o].signaled
  <2>1. event[o] \in Event /\ f[o] \in BOOLEAN
    BY <1>1, Zenon
  <2>2. CASE o \in S
    <3>1. event'[o] = [event[o] EXCEPT !.signaled = f[o]]
      BY <2>2, Zenon
    <3> QED
      BY <3>1, <2>1, <2>2, Zenon DEF Event
  <2>3. CASE o \notin S
    BY <2>1, <2>3, Zenon
  <2> QED
    BY <2>2, <2>3, Zenon
<1>3. event' \in [Objects -> Event]
  BY <1>2, event' = [o \in Objects |-> event'[o]], Zenon
<1> QED
  BY <1>2, <1>3, Zenon DEF SameEvents

-----------------------------------------------------------------------------
(* Waiters *)

Wait == [at : {"no", "test", "copy", "prepare", "sleep", "leave"}, ev : Seq(Objects),
         activated : Seq(BOOLEAN), all : BOOLEAN, timeout : {"zero", "finite", "infinite"}]

\* a waiter per event of the wait; an object that is created later is not among them
WaitOk(w) ==
    /\ DOMAIN w.activated = DOMAIN w.ev
    /\ w.at = "no" => w.ev = <<>>
    /\ \A i \in DOMAIN w.ev : w.ev[i] <= created

WaitsType ==
    /\ wait \in [Threads -> Wait]
    /\ waiters \in [Objects -> SUBSET (Threads \X Nat)]
    /\ \A t \in Threads : WaitOk(wait[t])

WaitsInv == WaitsType /\ WaitersExact /\ NoMissedSignal

\* Nobody waits at first.
LEMMA WaitsInit == Init => WaitsInv
<1> SUFFICES ASSUME Init PROVE WaitsInv
  OBVIOUS
<1>1. /\ wait = [t \in Threads |-> NoWait] /\ waiters = [o \in Objects |-> {}]
  BY Zenon DEF Init
<1>2. NoWait \in Wait /\ NoWait.ev = <<>> /\ NoWait.activated = <<>>
  BY DEF NoWait, Wait
<1>3. WaitOk(NoWait)
  BY <1>2 DEF WaitOk
<1>4. WaitsType
  BY <1>1, <1>2, <1>3, Zenon DEF WaitsType
<1> QED
  BY <1>1, <1>2, <1>4 DEF WaitsInv, WaitersExact, NoMissedSignal, Alive

\* The steps of a waiting thread in its loop, and the handlers that do not signal.
LEMMA WaitsKept ==
    ASSUME WaitsInv, created' = created, Alive' = Alive, waiters' = waiters,
           \A o \in Alive : event'[o].signaled => event[o].signaled,
           wait' \in [Threads -> Wait],
           \A t \in Threads : /\ wait'[t].ev = wait[t].ev
                              /\ wait'[t].activated = wait[t].activated
                              /\ (wait'[t].at = "no") = (wait[t].at = "no")
    PROVE  WaitsInv'
<1>1. /\ wait \in [Threads -> Wait] /\ waiters \in [Objects -> SUBSET (Threads \X Nat)]
      /\ \A t \in Threads : WaitOk(wait[t])
  BY Zenon DEF WaitsInv, WaitsType
<1>2. \A t \in Threads : WaitOk(wait[t])'
  BY <1>1, Zenon DEF WaitOk
<1>3. WaitsType'
  BY <1>1, <1>2, Zenon DEF WaitsType
<1>4. ASSUME NEW o \in Objects, NEW w \in waiters[o] PROVE w[1] \in Threads
  BY <1>1
<1>5. WaitersExact'
  BY <1>4 DEF WaitsInv, WaitersExact
<1>6. NoMissedSignal'
  BY <1>4, Zenon DEF WaitsInv, NoMissedSignal, Alive
<1> QED
  BY <1>3, <1>5, <1>6, Zenon DEF WaitsInv

\* A thread that already waits does not wait for the event that kfd_event_create adds.
LEMMA WaitsCreate ==
    ASSUME WaitsInv, EventsOk, UNCHANGED <<wait, waiters>>,
           NEW n \in Objects, n = created + 1, created' = n,
           Alive' = Alive \cup {n}, \A o \in Alive : event'[o] = event[o],
           ~event'[n].signaled
    PROVE  WaitsInv'
<1>1. /\ wait \in [Threads -> Wait] /\ waiters \in [Objects -> SUBSET (Threads \X Nat)]
      /\ \A t \in Threads : WaitOk(wait[t])
  BY Zenon DEF WaitsInv, WaitsType
<1>2. created \in Nat
  BY EventAssumption DEF EventsOk
<1>3. ASSUME NEW t \in Threads PROVE WaitOk(wait[t])' /\ \A i \in DOMAIN wait[t].ev : wait[t].ev[i] # n
  <2>1. wait[t].ev \in Seq(Objects) /\ WaitOk(wait[t])
    BY <1>1, Zenon DEF Wait
  <2>2. ASSUME NEW i \in DOMAIN wait[t].ev PROVE wait[t].ev[i] \in Nat /\ wait[t].ev[i] <= created
    BY <2>1, EventAssumption, SMTT(60) DEF WaitOk, Objects
  <2>3. \A i \in DOMAIN wait[t].ev : wait[t].ev[i] <= n /\ wait[t].ev[i] # n
    BY <2>2, <1>2
  <2> QED
    BY <2>1, <2>3, Zenon DEF WaitOk
<1>4. WaitsType'
  BY <1>1, <1>3, Zenon DEF WaitsType
<1>5. WaitersExact'
  BY <1>1, <1>3 DEF WaitsInv, WaitersExact
<1>6. NoMissedSignal'
  BY Zenon DEF WaitsInv, NoMissedSignal
<1> QED
  BY <1>4, <1>5, <1>6, Zenon DEF WaitsInv

\* destroy_event takes the waiters off its list; their threads go on waiting.
LEMMA WaitsDestroy ==
    ASSUME WaitsInv, UNCHANGED <<wait, created>>, NEW o \in Objects,
           waiters' = [waiters EXCEPT ![o] = {}],
           Alive' = Alive \ {o}, \A k \in Alive \ {o} : event'[k] = event[k]
    PROVE  WaitsInv'
<1>1. /\ wait \in [Threads -> Wait] /\ waiters \in [Objects -> SUBSET (Threads \X Nat)]
      /\ \A t \in Threads : WaitOk(wait[t])
  BY Zenon DEF WaitsInv, WaitsType
<1>2. /\ waiters' \in [Objects -> SUBSET (Threads \X Nat)] /\ waiters'[o] = {}
      /\ \A k \in Objects \ {o} : waiters'[k] = waiters[k]
  BY <1>1, Zenon
<1>3. \A t \in Threads : WaitOk(wait[t])'
  BY <1>1, Zenon DEF WaitOk
<1>4. WaitsType'
  BY <1>1, <1>2, <1>3, Zenon DEF WaitsType
<1>5. WaitersExact'
  <2>1. ASSUME NEW k \in Objects, NEW w \in waiters'[k]
        PROVE  /\ k \in Alive' /\ wait'[w[1]].at # "no"
               /\ w[2] \in DOMAIN wait'[w[1]].ev /\ wait'[w[1]].ev[w[2]] = k
    <3>1. k # o /\ w \in waiters[k]
      BY <1>2, Zenon
    <3> QED
      BY <3>1, Zenon DEF WaitsInv, WaitersExact
  <2>2. ASSUME NEW t \in Threads, NEW i \in DOMAIN wait[t].ev
        PROVE  \/ wait'[t].activated[i] \/ wait'[t].ev[i] \notin Alive'
               \/ <<t, i>> \in waiters'[wait'[t].ev[i]]
    <3>1. wait[t].ev[i] \in Objects
      BY <1>1 DEF Wait
    <3> QED
      BY <3>1, <1>2 DEF WaitsInv, WaitersExact
  <2> QED
    BY <2>1, <2>2, Zenon DEF WaitersExact
<1>6. NoMissedSignal'
  BY <1>2, Zenon DEF WaitsInv, NoMissedSignal, Alive
<1> QED
  BY <1>4, <1>5, <1>6, Zenon DEF WaitsInv

\* set_event activates the waiters of its list and leaves everything else of a wait alone.
LEMMA SetEventsWait ==
    ASSUME WaitsType, NEW S, SetEvents(S), NEW t \in Threads
    PROVE  /\ wait'[t] \in Wait /\ wait'[t].ev = wait[t].ev
           /\ DOMAIN wait'[t].activated = DOMAIN wait[t].activated
           /\ (wait'[t].at = "no") = (wait[t].at = "no")
           /\ \A i \in DOMAIN wait[t].activated :
                wait'[t].activated[i] = (wait[t].activated[i] \/ \E o \in S : <<t, i>> \in waiters[o])
<1> DEFINE act == wait[t].activated
           hit == {i \in DOMAIN act : \E o \in S : <<t, i>> \in waiters[o]}
           new == [i \in DOMAIN act |-> act[i] \/ i \in hit]
           w   == [wait[t] EXCEPT !.activated = new]
<1>1. wait[t] \in Wait /\ act \in Seq(BOOLEAN)
  BY Zenon DEF WaitsType, Wait
<1>2. wait'[t] = IF hit = {} THEN wait[t] ELSE [w EXCEPT !.at = Wake(wait[t])]
  BY Zenon DEF SetEvents
<1>3. new \in Seq(BOOLEAN) /\ DOMAIN new = DOMAIN act
  <2>1. DOMAIN act = 1..Len(act) /\ Len(act) \in Nat
    BY <1>1
  <2>2. new \in [1..Len(act) -> BOOLEAN]
    BY <2>1, <1>1, Zenon
  <2> QED
    BY <2>1, <2>2, SeqOfFun, Zenon
<1>4. \A i \in DOMAIN act : new[i] = (act[i] \/ \E o \in S : <<t, i>> \in waiters[o])
  BY Zenon
<1>5. hit = {} => \A i \in DOMAIN act : ~\E o \in S : <<t, i>> \in waiters[o]
  BY Zenon
<1> HIDE DEF hit, new
<1>6. /\ w \in Wait /\ w.activated = new /\ w.ev = wait[t].ev /\ w.at = wait[t].at
  BY <1>1, <1>3, Zenon DEF Wait
<1> HIDE DEF w
<1>7. CASE hit = {}
  <2>1. wait'[t] = wait[t]
    BY <1>2, <1>7, Zenon
  <2>2. \A i \in DOMAIN act : act[i] \in BOOLEAN
    BY <1>1
  <2> QED
    BY <2>1, <2>2, <1>1, <1>5, <1>7, Zenon
<1>8. CASE hit # {}
  <2>1. wait'[t] = [w EXCEPT !.at = Wake(wait[t])]
    BY <1>2, <1>8, Zenon
  <2>2. /\ Wake(wait[t]) \in {"no", "test", "copy", "prepare", "sleep", "leave"}
        /\ (Wake(wait[t]) = "no") = (wait[t].at = "no")
    BY <1>1, Zenon DEF Wake, Wait
  <2>3. /\ wait'[t] \in Wait /\ wait'[t].ev = w.ev /\ wait'[t].activated = w.activated
        /\ wait'[t].at = Wake(wait[t])
    BY <2>1, <2>2, <1>6, Zenon DEF Wait
  <2> QED
    BY <2>2, <2>3, <1>3, <1>4, <1>6, Zenon
<1> QED
  BY <1>7, <1>8, Zenon

\* set_event empties the list after all its waiters are activated.
LEMMA WaitsSet ==
    ASSUME WaitsInv, NEW S, SetEvents(S), created' = created, Alive' = Alive,
           \A o \in Alive \ S : event'[o].signaled = event[o].signaled
    PROVE  WaitsInv'
<1>1. /\ WaitsType /\ wait \in [Threads -> Wait]
      /\ waiters \in [Objects -> SUBSET (Threads \X Nat)]
      /\ \A t \in Threads : WaitOk(wait[t])
  BY Zenon DEF WaitsInv, WaitsType
<1>2. \A t \in Threads :
        /\ wait'[t] \in Wait /\ wait'[t].ev = wait[t].ev
        /\ DOMAIN wait'[t].activated = DOMAIN wait[t].activated
        /\ (wait'[t].at = "no") = (wait[t].at = "no")
        /\ \A i \in DOMAIN wait[t].activated :
             wait'[t].activated[i] = (wait[t].activated[i] \/ \E o \in S : <<t, i>> \in waiters[o])
  BY <1>1, SetEventsWait, Zenon
<1>3. waiters' = [o \in Objects |-> IF o \in S THEN {} ELSE waiters[o]]
  BY Zenon DEF SetEvents
<1>4. wait' \in [Threads -> Wait]
  <2>1. wait' = [t \in Threads |-> wait'[t]]
    BY Zenon DEF SetEvents
  <2> QED
    BY <2>1, <1>2, Zenon
<1>5. \A t \in Threads : WaitOk(wait[t])'
  BY <1>1, <1>2, Zenon DEF WaitOk
<1>6. WaitsType'
  BY <1>1, <1>3, <1>4, <1>5, Zenon DEF WaitsType
<1>7. ASSUME NEW o \in Objects, NEW w \in waiters'[o]
      PROVE  /\ o \notin S /\ w \in waiters[o] /\ w[1] \in Threads
             /\ o \in Alive /\ wait[w[1]].at # "no"
             /\ w[2] \in DOMAIN wait[w[1]].ev /\ wait[w[1]].ev[w[2]] = o
  <2>1. o \notin S /\ w \in waiters[o]
    BY <1>3, Zenon
  <2>2. w[1] \in Threads
    BY <2>1, <1>1
  <2> QED
    BY <2>1, <2>2, Zenon DEF WaitsInv, WaitersExact
<1>8. ASSUME NEW t \in Threads, NEW i \in DOMAIN wait[t].ev
      PROVE  \/ wait'[t].activated[i] \/ wait'[t].ev[i] \notin Alive
             \/ <<t, i>> \in waiters'[wait'[t].ev[i]]
  <2>1. i \in DOMAIN wait[t].activated /\ wait[t].ev[i] \in Objects
    BY <1>1 DEF WaitOk, Wait
  <2>2. \/ wait[t].activated[i] \/ wait[t].ev[i] \notin Alive
        \/ <<t, i>> \in waiters[wait[t].ev[i]]
    BY Zenon DEF WaitsInv, WaitersExact
  <2>3. CASE wait[t].ev[i] \in S /\ <<t, i>> \in waiters[wait[t].ev[i]]
    BY <2>1, <2>3, <1>2, ZenonT(60)
  <2> QED
    BY <2>1, <2>2, <2>3, <1>2, <1>3, Zenon
<1>9. WaitersExact'
  BY <1>2, <1>7, <1>8 DEF WaitersExact
<1>10. NoMissedSignal'
  <2> SUFFICES ASSUME NEW o \in Alive, event'[o].signaled, NEW w \in waiters'[o]
               PROVE  wait'[w[1]].activated[w[2]]
    BY Zenon DEF NoMissedSignal
  <2>1. o \in Objects
    BY Zenon DEF Alive
  <2>2. /\ o \notin S /\ w \in waiters[o] /\ w[1] \in Threads
        /\ w[2] \in DOMAIN wait[w[1]].ev
    BY <2>1, <1>7, Zenon
  <2>3. wait[w[1]].activated[w[2]] /\ w[2] \in DOMAIN wait[w[1]].activated
    BY <2>2, <1>1, Zenon DEF WaitsInv, NoMissedSignal, WaitOk
  <2> QED
    BY <2>2, <2>3, <1>2, Zenon
<1> QED
  BY <1>6, <1>9, <1>10, Zenon DEF WaitsInv

\* free_waiters takes all waiters of a thread off their lists before they are freed.
LEMMA WaitsLeave ==
    ASSUME WaitsInv, NEW t \in Threads, Leave(t)
    PROVE  WaitsInv'
<1>1. /\ wait \in [Threads -> Wait] /\ waiters \in [Objects -> SUBSET (Threads \X Nat)]
      /\ \A u \in Threads : WaitOk(wait[u])
  BY Zenon DEF WaitsInv, WaitsType
<1>2. /\ waiters' = [o \in Objects |-> waiters[o] \ OwnWaiters(t)]
      /\ wait' = [wait EXCEPT ![t] = NoWait]
      /\ event' = event /\ created' = created
  BY Zenon DEF Leave
<1>3. Alive' = Alive
  BY <1>2, Zenon DEF Alive
<1>4. NoWait \in Wait /\ NoWait.ev = <<>> /\ NoWait.activated = <<>>
  BY DEF NoWait, Wait
<1>5. /\ wait' \in [Threads -> Wait] /\ wait'[t] = NoWait
      /\ \A u \in Threads \ {t} : wait'[u] = wait[u]
  BY <1>1, <1>2, <1>4, Zenon
<1>6. WaitsType'
  <2>1. WaitOk(NoWait)'
    BY <1>4 DEF WaitOk
  <2>2. \A u \in Threads : WaitOk(wait[u])'
    BY <2>1, <1>1, <1>2, <1>5, Zenon DEF WaitOk
  <2> QED
    BY <2>2, <1>1, <1>2, <1>5, Zenon DEF WaitsType
<1>7. ASSUME NEW o \in Objects, NEW w \in waiters'[o]
      PROVE  /\ w \in waiters[o] /\ w[1] \in Threads \ {t}
             /\ o \in Alive /\ wait[w[1]].at # "no"
             /\ w[2] \in DOMAIN wait[w[1]].ev /\ wait[w[1]].ev[w[2]] = o
  <2>1. w \in waiters[o] /\ w \notin OwnWaiters(t)
    BY <1>2, Zenon
  <2>2. w \in Threads \X Nat
    BY <2>1, <1>1, Zenon
  <2>3. /\ o \in Alive /\ wait[w[1]].at # "no"
        /\ w[2] \in DOMAIN wait[w[1]].ev /\ wait[w[1]].ev[w[2]] = o
    BY <2>1, Zenon DEF WaitsInv, WaitersExact
  <2>4. w[1] # t
    BY <2>1, <2>2, <2>3 DEF OwnWaiters
  <2> QED
    BY <2>1, <2>2, <2>3, <2>4, Zenon
<1>8. ASSUME NEW u \in Threads, NEW i \in DOMAIN wait'[u].ev
      PROVE  \/ wait'[u].activated[i] \/ wait'[u].ev[i] \notin Alive
             \/ <<u, i>> \in waiters'[wait'[u].ev[i]]
  <2>1. u # t
    BY <1>4, <1>5
  <2>2. wait'[u] = wait[u] /\ wait[u].ev[i] \in Objects
    BY <2>1, <1>1, <1>5 DEF Wait
  <2>3. <<u, i>> \notin OwnWaiters(t)
    BY <2>1, Zenon DEF OwnWaiters
  <2> QED
    BY <2>2, <2>3, <1>2, Zenon DEF WaitsInv, WaitersExact
<1>9. WaitersExact'
  BY <1>3, <1>5, <1>7, <1>8, SMTT(60) DEF WaitersExact
<1>10. NoMissedSignal'
  <2>1. Alive \subseteq Objects
    BY Zenon DEF Alive
  <2> QED
    BY <2>1, <1>2, <1>3, <1>5, <1>7 DEF WaitsInv, NoMissedSignal
<1> QED
  BY <1>6, <1>9, <1>10, Zenon DEF WaitsInv

\* kfd_wait_on_events with events that all exist: a waiter for each is on its list before the
\* mutex is released, and takes over what has been signaled.
LEMMA WaitsBegin ==
    ASSUME WaitsInv, NEW t \in Threads, wait[t].at = "no", created' = created, Alive' = Alive,
           EventsOk, NEW n \in Nat, NEW evs \in [1..n -> Alive], NEW act \in [1..n -> BOOLEAN],
           NEW all \in BOOLEAN, NEW timeout \in Timeouts,
           wait' = [wait EXCEPT ![t] = [at |-> "test", ev |-> evs, all |-> all,
                                        timeout |-> timeout, activated |-> act]],
           waiters' = [o \in Objects |->
                         waiters[o] \cup {<<t, i>> : i \in {k \in 1..n : evs[k] = o}}],
           \A o \in Alive : event'[o].signaled => event[o].signaled,
           \A i \in 1..n : event'[evs[i]].signaled => act[i]
    PROVE  WaitsInv'
<1>1. /\ wait \in [Threads -> Wait] /\ waiters \in [Objects -> SUBSET (Threads \X Nat)]
      /\ \A u \in Threads : WaitOk(wait[u])
  BY Zenon DEF WaitsInv, WaitsType
<1>w. PICK w0 : w0 = [at |-> "test", ev |-> evs, all |-> all, timeout |-> timeout,
                      activated |-> act]
  BY Zenon
<1>2. w0 \in Wait /\ w0.at # "no" /\ w0.ev = evs /\ w0.activated = act
  <2>1. Alive \subseteq Objects
    BY Zenon DEF Alive
  <2>2. evs \in Seq(Objects) /\ act \in Seq(BOOLEAN)
    <3>1. evs \in [1..n -> Objects]
      BY <2>1, Zenon
    <3> QED
      BY <3>1, SeqOfFun, Zenon
  <2>3. timeout \in {"zero", "finite", "infinite"}
    BY EventAssumption, Zenon
  <2> QED
    BY <2>2, <2>3, <1>w, Zenon DEF Wait
<1>3. WaitOk(w0)'
  <2>1. ASSUME NEW o \in Alive PROVE o <= created
    <3>1. o \in Objects /\ event[o].alive
      BY Zenon DEF Alive
    <3>2. o \in Nat /\ created \in Nat
      BY <3>1, EventAssumption DEF EventsOk, Objects
    <3> QED
      BY <3>1, <3>2 DEF EventsOk
  <2>2. DOMAIN evs = 1..n /\ DOMAIN act = 1..n /\ \A i \in 1..n : evs[i] <= created
    BY <2>1, Zenon
  <2> QED
    BY <2>2, <1>2, Zenon DEF WaitOk
<1>4. wait' = [wait EXCEPT ![t] = w0]
  BY <1>w, Zenon
<1>5. /\ wait' \in [Threads -> Wait] /\ wait'[t] = w0
      /\ \A u \in Threads \ {t} : wait'[u] = wait[u]
  BY <1>1, <1>2, <1>4
<1>6. WaitsType'
  <2>1. ASSUME NEW o \in Objects PROVE waiters'[o] \in SUBSET (Threads \X Nat)
    <3>1. {<<t, i>> : i \in {k \in 1..n : evs[k] = o}} \subseteq Threads \X Nat
      OBVIOUS
    <3> QED
      BY <3>1, <1>1, Zenon
  <2>2. waiters' \in [Objects -> SUBSET (Threads \X Nat)]
    BY <2>1, Zenon
  <2>3. \A u \in Threads : WaitOk(wait[u])'
    BY <1>1, <1>3, <1>5 DEF WaitOk
  <2> QED
    BY <2>2, <2>3, <1>5, Zenon DEF WaitsType
<1>7. ASSUME NEW o \in Objects, NEW w \in waiters'[o]
      PROVE  \/ /\ w \in waiters[o] /\ w[1] \in Threads \ {t}
                /\ o \in Alive /\ wait[w[1]].at # "no"
                /\ w[2] \in DOMAIN wait[w[1]].ev /\ wait[w[1]].ev[w[2]] = o
             \/ w[1] = t /\ w[2] \in 1..n /\ evs[w[2]] = o
  <2>1. CASE w \in waiters[o]
    <3>1. w[1] \in Threads
      BY <2>1, <1>1
    <3>2. /\ o \in Alive /\ wait[w[1]].at # "no"
          /\ w[2] \in DOMAIN wait[w[1]].ev /\ wait[w[1]].ev[w[2]] = o
      BY <2>1, ZenonT(60) DEF WaitsInv, WaitersExact
    <3> QED
      BY <2>1, <3>1, <3>2, Zenon
  <2>2. CASE w \in {<<t, i>> : i \in {k \in 1..n : evs[k] = o}}
    BY <2>2
  <2> QED
    BY <2>1, <2>2, Zenon
<1>8. ASSUME NEW o \in Objects, NEW w \in waiters'[o]
      PROVE  /\ o \in Alive /\ wait'[w[1]].at # "no"
             /\ w[2] \in DOMAIN wait'[w[1]].ev /\ wait'[w[1]].ev[w[2]] = o
  <2>1. CASE w \in waiters[o] /\ w[1] \in Threads \ {t}
    BY <2>1, <1>5, ZenonT(60) DEF WaitsInv, WaitersExact
  <2>2. CASE w[1] = t /\ w[2] \in 1..n /\ evs[w[2]] = o
    BY <2>2, <1>2, <1>5, Zenon
  <2> QED
    BY <2>1, <2>2, <1>7, Zenon
<1>9. ASSUME NEW u \in Threads, NEW i \in DOMAIN wait'[u].ev
      PROVE  \/ wait'[u].activated[i] \/ wait'[u].ev[i] \notin Alive
             \/ <<u, i>> \in waiters'[wait'[u].ev[i]]
  <2>1. CASE u = t
    <3>1. i \in 1..n /\ wait'[u].ev[i] = evs[i] /\ evs[i] \in Objects
      BY <2>1, <1>2, <1>5, Zenon DEF Alive
    <3> QED
      BY <3>1, <2>1, Zenon
  <2>2. CASE u # t
    <3>1. wait'[u] = wait[u] /\ wait[u].ev[i] \in Objects
      BY <2>2, <1>1, <1>5, SMTT(60) DEF Wait
    <3> QED
      BY <3>1, Zenon DEF WaitsInv, WaitersExact
  <2> QED
    BY <2>1, <2>2, Zenon
<1>10. WaitersExact'
  BY <1>8, <1>9, SMTT(60) DEF WaitersExact
<1>11. NoMissedSignal'
  <2> SUFFICES ASSUME NEW o \in Alive, event'[o].signaled, NEW w \in waiters'[o]
               PROVE  wait'[w[1]].activated[w[2]]
    BY Zenon DEF NoMissedSignal
  <2>1. o \in Objects
    BY Zenon DEF Alive
  <2>2. CASE w \in waiters[o] /\ w[1] \in Threads \ {t}
    BY <2>2, <1>5, Zenon DEF WaitsInv, NoMissedSignal
  <2>3. CASE w[1] = t /\ w[2] \in 1..n /\ evs[w[2]] = o
    BY <2>3, <1>2, <1>5, Zenon
  <2> QED
    BY <2>1, <2>2, <2>3, <1>7
<1> QED
  BY <1>6, <1>10, <1>11, Zenon DEF WaitsInv

-----------------------------------------------------------------------------
(* The whole *)

EventsInv == IdsInv /\ WaitsInv

\* set_event, called for events that exist.
LEMMA StepSet ==
    ASSUME EventsInv, NEW S, SetEvents(S), UNCHANGED <<created, slotVars>>
    PROVE  EventsInv'
<1> DEFINE f == [o \in Objects |-> ~event[o].auto \/ waiters[o] = {}]
<1>1. event' = [o \in Objects |->
         IF o \in S THEN [event[o] EXCEPT !.signaled = ~event[o].auto \/ waiters[o] = {}]
         ELSE event[o]]
  BY Zenon DEF SetEvents
<1>2. f \in [Objects -> BOOLEAN]
  BY Zenon
<1>3. event' = [o \in Objects |->
         IF o \in S THEN [event[o] EXCEPT !.signaled = f[o]] ELSE event[o]]
  BY <1>1, Zenon
<1> HIDE DEF f
<1>4. /\ SameEvents
      /\ \A o \in Objects : event'[o].signaled = IF o \in S THEN f[o] ELSE event[o].signaled
  BY <1>2, <1>3, SignaledOnly, ZenonT(60) DEF EventsInv
<1>5. IdsInv' /\ Alive' = Alive
  BY <1>4, IdsKept, Zenon DEF EventsInv, SameEvents
<1>6. \A o \in Alive \ S : event'[o].signaled = event[o].signaled
  BY <1>4, Zenon DEF Alive
<1>7. WaitsInv'
  BY <1>5, <1>6, WaitsSet, Zenon DEF EventsInv
<1> QED
  BY <1>5, <1>7, Zenon DEF EventsInv

\* kfd_event_create
LEMMA StepCreate ==
    ASSUME EventsInv, NEW type \in Types, NEW auto \in BOOLEAN,
           CreateSignalEvent(type, auto) \/ CreateOtherEvent(type, auto)
    PROVE  EventsInv'
<1>1. IdsInv'
  BY IdsCreateSignal, IdsCreateOther, Zenon DEF EventsInv
<1>2. wait' = wait /\ waiters' = waiters
  BY Zenon DEF CreateSignalEvent, CreateOtherEvent
<1>3. CASE UNCHANGED <<event, created>>
  <2>1. Alive' = Alive
    BY <1>3, Zenon DEF Alive
  <2>2. WaitsInv'
    BY <1>2, <1>3, <2>1, WaitsKept, Zenon DEF EventsInv, WaitsInv, WaitsType
  <2> QED
    BY <1>1, <2>2, Zenon DEF EventsInv
<1>4. ASSUME NEW id \in Nat, NEW slot \in {<<>>} \cup ({0} \X SlotNumbers),
             NewEvent(id, type, auto, slot)
      PROVE  EventsInv'
  <2> PICK n : n = created + 1
    BY Zenon
  <2>1. /\ n \in Objects /\ created' = n /\ Alive' = Alive \cup {n}
        /\ \A o \in Alive : event'[o] = event[o]
        /\ ~event'[n].signaled
    BY <1>4, NewEventFacts, Zenon DEF EventsInv
  <2>2. WaitsInv'
    BY <1>2, <2>1, WaitsCreate, Zenon DEF EventsInv, IdsInv
  <2> QED
    BY <1>1, <2>2, Zenon DEF EventsInv
<1>5. CASE CreateSignalEvent(type, auto)
  BY <1>5, <1>4, SignalSlot, Zenon DEF EventsInv
<1>6. CASE CreateOtherEvent(type, auto)
  BY <1>6, <1>3, <1>4, OtherId, Zenon DEF EventsInv
<1> QED
  BY <1>5, <1>6, Zenon

\* kfd_event_destroy
LEMMA StepDestroy ==
    ASSUME EventsInv, NEW o \in Objects, Destroy(o)
    PROVE  EventsInv'
<1>1. IdsInv'
  BY IdsDestroy, Zenon DEF EventsInv
<1>2. /\ event' = [event EXCEPT ![o] = NoEvent] /\ waiters' = [waiters EXCEPT ![o] = {}]
      /\ wait' = wait /\ created' = created
  BY Zenon DEF Destroy
<1>3. event \in [Objects -> Event] /\ ~NoEvent.alive
  BY Zenon DEF EventsInv, IdsInv, EventsOk, NoEvent
<1>4. ~event'[o].alive /\ \A k \in Objects \ {o} : event'[k] = event[k]
  BY <1>2, <1>3, Zenon
<1>5. Alive' = Alive \ {o} /\ \A k \in Alive \ {o} : event'[k] = event[k]
  BY <1>4 DEF Alive
<1>6. WaitsInv'
  BY <1>2, <1>5, WaitsDestroy, Zenon DEF EventsInv
<1> QED
  BY <1>1, <1>6, Zenon DEF EventsInv

\* kfd_reset_event
LEMMA StepReset ==
    ASSUME EventsInv, NEW o \in Objects, ResetEvent(o)
    PROVE  EventsInv'
<1>1. /\ event' = [event EXCEPT ![o].signaled = FALSE]
      /\ wait' = wait /\ waiters' = waiters /\ UNCHANGED <<created, slotVars>>
  BY Zenon DEF ResetEvent
<1>2. event \in [Objects -> Event]
  BY Zenon DEF EventsInv, IdsInv, EventsOk
<1>3. /\ event' \in [Objects -> Event]
      /\ \A k \in Objects : /\ event'[k].alive = event[k].alive
                            /\ event'[k].id = event[k].id /\ event'[k].slot = event[k].slot
                            /\ event'[k].signaled => event[k].signaled
  <2>e. PICK e : e = [event[o] EXCEPT !.signaled = FALSE]
    BY Zenon
  <2>1. /\ e \in Event /\ e.alive = event[o].alive /\ e.id = event[o].id
        /\ e.slot = event[o].slot /\ ~e.signaled
    BY <1>2, <2>e, ZenonT(60) DEF Event
  <2>2. event' = [event EXCEPT ![o] = e]
    BY <1>1, <2>e, Zenon
  <2> QED
    BY <1>2, <2>1, <2>2, Zenon
<1>4. IdsInv' /\ Alive' = Alive
  BY <1>1, <1>3, IdsKept, Zenon DEF EventsInv
<1>5. WaitsInv'
  BY <1>1, <1>3, <1>4, WaitsKept, Zenon DEF EventsInv, WaitsInv, WaitsType, Alive
<1> QED
  BY <1>4, <1>5, Zenon DEF EventsInv

\* The loop of a waiting thread, and a signal sent to it, change nothing of the events.
LEMMA StepLoop ==
    ASSUME EventsInv, UNCHANGED <<event, created, slotVars, waiters>>,
           wait' \in [Threads -> Wait],
           \A t \in Threads : /\ wait'[t].ev = wait[t].ev
                              /\ wait'[t].activated = wait[t].activated
                              /\ (wait'[t].at = "no") = (wait[t].at = "no")
    PROVE  EventsInv'
<1>1. event' \in [Objects -> Event]
  BY Zenon DEF EventsInv, IdsInv, EventsOk
<1>2. IdsInv' /\ Alive' = Alive
  BY <1>1, IdsKept, Zenon DEF EventsInv
<1>3. WaitsInv'
  BY <1>2, WaitsKept, Zenon DEF EventsInv
<1> QED
  BY <1>2, <1>3, Zenon DEF EventsInv

\* A thread moves on in its loop.
LEMMA StepMove ==
    ASSUME EventsInv, NEW t \in Threads, UNCHANGED <<event, created, slotVars, waiters>>,
           wait[t].at # "no", NEW at \in {"test", "copy", "prepare", "sleep", "leave"},
           wait' = [wait EXCEPT ![t].at = at]
    PROVE  EventsInv'
<1>1. wait \in [Threads -> Wait]
  BY Zenon DEF EventsInv, WaitsInv, WaitsType
<1>2. wait' \in [Threads -> Wait]
  BY <1>1, ZenonT(60) DEF Wait
<1>3. ASSUME NEW u \in Threads
      PROVE  /\ wait'[u].ev = wait[u].ev
             /\ wait'[u].activated = wait[u].activated
             /\ (wait'[u].at = "no") = (wait[u].at = "no")
  <2>1. CASE u = t
    BY <2>1, <1>1, Zenon DEF Wait
  <2>2. CASE u # t
    BY <2>2, <1>1, Zenon
  <2> QED
    BY <2>1, <2>2, Zenon
<1> QED
  BY <1>2, <1>3, StepLoop, Zenon

\* kfd_wait_on_events: up to the last event that exists, a waiter takes over the signal.
LEMMA StepWait ==
    ASSUME EventsInv, NEW t \in Threads, NEW m \in Nat, NEW ids \in [1..m -> KnownIds],
           NEW all \in BOOLEAN, NEW timeout \in Timeouts, WaitOnEvents(t, ids, all, timeout)
    PROVE  EventsInv'
<1> DEFINE known == {l \in 0..Len(ids) : \A i \in 1..l : Named(ids[i]) # {}}
           n == CHOOSE k \in known : \A l \in known : l <= k
           evs == [i \in 1..n |-> CHOOSE o \in Named(ids[i]) : TRUE]
           S == {evs[i] : i \in 1..n}
           act == [i \in 1..n |-> StartActivated(ids, evs, i)]
<1>1. /\ wait[t].at = "no" /\ UNCHANGED <<created, slotVars>>
      /\ event' = [o \in Objects |->
           IF o \in S THEN [event[o] EXCEPT !.signaled = @ /\ ~event[o].auto] ELSE event[o]]
      /\ \/ /\ wait' = [wait EXCEPT ![t] = [at |-> "test", ev |-> evs, all |-> all,
                                            timeout |-> timeout, activated |-> act]]
            /\ waiters' = [o \in Objects |->
                             waiters[o] \cup {<<t, i>> : i \in {k \in 1..n : evs[k] = o}}]
         \/ UNCHANGED <<wait, waiters>>
  BY Zenon DEF WaitOnEvents
<1>2. Len(ids) = m /\ m \in Nat
  BY SeqLen, SeqOfFun
<1>3. n \in known
  <2>1. known \in SUBSET (0..m) /\ 0 \in known
    BY <1>2
  <2>2. \E k \in known : \A l \in known : l <= k
    BY <2>1, IntervalMax, Zenon
  <2> QED
    BY <2>2, Zenon
<1>4. n \in Nat /\ \A i \in 1..n : Named(ids[i]) # {}
  <2> HIDE DEF n
  <2> QED
    BY <1>2, <1>3
<1> HIDE DEF n
<1>5. ASSUME NEW i \in 1..n PROVE evs[i] \in Alive
  BY <1>4, Zenon DEF Named
<1>6. evs \in [1..n -> Alive]
  BY <1>5, Zenon
<1> HIDE DEF evs
<1> DEFINE f == [o \in Objects |-> event[o].signaled /\ ~event[o].auto]
<1>7. f \in [Objects -> BOOLEAN]
  BY Zenon
<1>8. event' = [o \in Objects |->
         IF o \in S THEN [event[o] EXCEPT !.signaled = f[o]] ELSE event[o]]
  BY <1>1, Zenon
<1>9. \A o \in Objects : f[o] = (event[o].signaled /\ ~event[o].auto)
  BY Zenon
<1> HIDE DEF f, S, act
<1>10. /\ SameEvents
       /\ \A o \in Objects : event'[o].signaled = IF o \in S THEN f[o] ELSE event[o].signaled
  <2>1. IdsInv /\ UNCHANGED <<created, slotVars>>
    BY <1>1, Zenon DEF EventsInv
  <2> QED
    BY <2>1, <1>7, <1>8, SignaledOnly, ZenonT(60)
<1>11. IdsInv' /\ Alive' = Alive
  BY <1>10, IdsKept, Zenon DEF EventsInv, SameEvents
<1>12. \A o \in Alive : event'[o].signaled => event[o].signaled
  BY <1>9, <1>10, Zenon DEF Alive
<1>13. act \in [1..n -> BOOLEAN]
  BY Zenon DEF StartActivated, act
<1>14. ASSUME NEW i \in 1..n, event'[evs[i]].signaled PROVE act[i]
  <2>1. evs[i] \in S /\ evs[i] \in Objects
    BY <1>5, Zenon DEF Alive, S
  <2>2. event[evs[i]].signaled /\ ~event[evs[i]].auto
    BY <2>1, <1>9, <1>10, <1>14, Zenon
  <2> QED
    BY <2>2, Zenon DEF StartActivated, act
<1>15. WaitsInv'
  <2>1. CASE UNCHANGED <<wait, waiters>>
    BY <2>1, <1>1, <1>11, <1>12, WaitsKept, Zenon DEF EventsInv, WaitsInv, WaitsType
  <2>2. CASE /\ wait' = [wait EXCEPT ![t] = [at |-> "test", ev |-> evs, all |-> all,
                                             timeout |-> timeout, activated |-> act]]
             /\ waiters' = [o \in Objects |->
                              waiters[o] \cup {<<t, i>> : i \in {k \in 1..n : evs[k] = o}}]
    <3>1. /\ WaitsInv /\ EventsOk /\ wait[t].at = "no" /\ created' = created /\ n \in Nat
          /\ \A i \in 1..n : event'[evs[i]].signaled => act[i]
      BY <1>1, <1>4, <1>14, Zenon DEF EventsInv, IdsInv
    <3> QED
      BY <2>2, <3>1, <1>6, <1>11, <1>12, <1>13, WaitsBegin, ZenonT(60)
  <2> QED
    BY <2>1, <2>2, <1>1, Zenon
<1> QED
  BY <1>11, <1>15, Zenon DEF EventsInv

\* The steps of a thread in kfd_wait_on_events after its waiters are set up.
LEMMA StepThread ==
    ASSUME EventsInv, NEW t \in Threads, Waiting(t) \/ SendSignal(t)
    PROVE  EventsInv'
<1>0. wait[t] \in Wait
  BY Zenon DEF EventsInv, WaitsInv, WaitsType
<1>1. CASE Leave(t)
  <2>1. UNCHANGED <<event, created, slotVars>>
    BY <1>1, Zenon DEF Leave
  <2>2. event' \in [Objects -> Event]
    BY <2>1, Zenon DEF EventsInv, IdsInv, EventsOk
  <2>3. IdsInv'
    BY <2>1, <2>2, IdsKept, Zenon DEF EventsInv
  <2> QED
    BY <1>1, <2>3, WaitsLeave, Zenon DEF EventsInv
<1>2. CASE Test(t)
  <2>1. PICK at : /\ wait' = [wait EXCEPT ![t].at = at]
                  /\ at = CASE t \in signals -> "leave"
                            [] t \notin signals /\ Condition(t) -> "copy"
                            [] t \notin signals /\ ~Condition(t)
                                 /\ wait[t].timeout = "zero" -> "leave"
                            [] OTHER -> "prepare"
    BY <1>2, Zenon DEF Test
  <2>2. at \in {"leave", "copy", "prepare"}
    BY <2>1, Zenon
  <2>3. wait[t].at # "no" /\ UNCHANGED <<event, created, slotVars, waiters>>
    BY <1>2, Zenon DEF Test
  <2> QED
    BY <2>1, <2>2, <2>3, StepMove, Zenon
<1>3. CASE CopyData(t)
  <2>1. /\ wait[t].at # "no" /\ UNCHANGED <<event, created, slotVars, waiters>>
        /\ wait' = [wait EXCEPT ![t].at = "leave"]
    BY <1>3, Zenon DEF CopyData
  <2> QED
    BY <2>1, StepMove, Zenon
<1>4. CASE Sleep(t)
  <2>1. PICK at \in {"test", "sleep"} : wait' = [wait EXCEPT ![t].at = at]
    BY <1>4, Zenon DEF Sleep
  <2>2. wait[t].at # "no" /\ UNCHANGED <<event, created, slotVars, waiters>>
    BY <1>4, Zenon DEF Sleep
  <2> QED
    BY <2>1, <2>2, StepMove, Zenon
<1>5. CASE TimerExpires(t)
  <2>w. PICK w : w = [wait EXCEPT ![t].at = "test"]
    BY Zenon
  <2>1. /\ wait[t].at = "sleep" /\ UNCHANGED <<event, created, slotVars, waiters>>
        /\ wait' = [w EXCEPT ![t].timeout = "zero"]
    BY <1>5, <2>w, Zenon DEF TimerExpires, Expired
  <2>2. wait \in [Threads -> Wait]
    BY Zenon DEF EventsInv, WaitsInv, WaitsType
  <2>3. /\ w \in [Threads -> Wait] /\ \A u \in Threads \ {t} : w[u] = wait[u]
        /\ w[t].ev = wait[t].ev /\ w[t].activated = wait[t].activated /\ w[t].at = "test"
    BY <2>w, <2>2, Zenon DEF Wait
  <2>4. /\ wait' \in [Threads -> Wait] /\ \A u \in Threads \ {t} : wait'[u] = w[u]
        /\ wait'[t].ev = w[t].ev /\ wait'[t].activated = w[t].activated
        /\ wait'[t].at = w[t].at
    BY <2>1, <2>3, ZenonT(60) DEF Wait
  <2>5. \A u \in Threads : /\ wait'[u].ev = wait[u].ev
                           /\ wait'[u].activated = wait[u].activated
                           /\ (wait'[u].at = "no") = (wait[u].at = "no")
    BY <2>1, <2>3, <2>4, Zenon
  <2> QED
    BY <2>1, <2>4, <2>5, StepLoop, Zenon
<1>6. CASE SendSignal(t)
  <2>1. /\ wait[t].at # "no" /\ UNCHANGED <<event, created, slotVars, waiters>>
        /\ wait' = [wait EXCEPT ![t].at = Wake(wait[t])]
    BY <1>6, Zenon DEF SendSignal
  <2>2. Wake(wait[t]) \in {"test", "copy", "prepare", "sleep", "leave"}
    BY <2>1, <1>0, Zenon DEF Wake, Wait
  <2> QED
    BY <2>1, <2>2, StepMove, Zenon
<1> QED
  BY <1>1, <1>2, <1>3, <1>4, <1>5, <1>6, Zenon DEF Waiting

\* The handlers of the GPU's interrupts and exceptions, and its writes.
LEMMA StepGpu ==
    ASSUME EventsInv,
           \/ \E o \in Objects : SetEvent(o) \/ GpuWrite(o)
           \/ \E m \in irqs : SignalEventInterrupt(m)
           \/ ExceptionEvent
    PROVE  EventsInv'
<1>1. CASE \E o \in Objects : GpuWrite(o)
  <2>1. UNCHANGED <<event, created, slotVars, waiters, wait>>
    BY <1>1, Zenon DEF GpuWrite
  <2> QED
    <3>1. wait' \in [Threads -> Wait]
      BY <2>1, Zenon DEF EventsInv, WaitsInv, WaitsType
    <3> QED
      BY <2>1, <3>1, StepLoop, Zenon
<1>2. ASSUME NEW o \in Objects, SetEvent(o) PROVE EventsInv'
  BY <1>2, StepSet, Zenon DEF SetEvent
<1>3. ASSUME NEW m \in irqs, SignalEventInterrupt(m) PROVE EventsInv'
  BY <1>3, StepSet, Zenon DEF SignalEventInterrupt
<1>4. CASE ExceptionEvent
  BY <1>4, StepSet, Zenon DEF ExceptionEvent
<1> QED
  BY <1>1, <1>2, <1>3, <1>4, Zenon

\* Every step of the module.
LEMMA EventsStep == EventsInv /\ [Next]_vars => EventsInv'
<1> SUFFICES ASSUME EventsInv, [Next]_vars PROVE EventsInv'
  BY Zenon
<1>1. CASE UNCHANGED vars
  <2>1. UNCHANGED <<event, created, slotVars, waiters, wait>>
    BY <1>1, Zenon DEF vars
  <2> QED
    <3>1. wait' \in [Threads -> Wait]
      BY <2>1, Zenon DEF EventsInv, WaitsInv, WaitsType
    <3> QED
      BY <2>1, <3>1, StepLoop, Zenon
<1>2. ASSUME NEW t \in Threads, NEW n \in 1..MaxWaits, NEW ids \in [1..n -> KnownIds],
             NEW all \in {TRUE, n = 1}, NEW timeout \in Timeouts,
             WaitOnEvents(t, ids, all, timeout)
      PROVE  EventsInv'
  <2>1. n \in Nat
    OBVIOUS
  <2>2. all \in BOOLEAN
    BY Zenon
  <2> QED
    BY <1>2, <2>1, <2>2, StepWait, Zenon
<1> QED
  BY <1>1, <1>2, StepCreate, StepDestroy, StepReset, StepThread, StepGpu, ZenonT(60) DEF Next

\* The ids of a process's events are unique for every limit on its signal events, every range
\* of other ids and any sequence of kfd_event_create and kfd_event_destroy.
THEOREM IdsUniqueHolds == Spec => []IdsUnique
<1>1. EventsInv => IdsUnique
  BY Zenon DEF EventsInv, IdsInv
<1>2. Init => EventsInv
  BY IdsInit, WaitsInit, Zenon DEF EventsInv
<1> QED
  BY <1>1, <1>2, EventsStep, PTL DEF Spec

\* For any number of threads and events, the lists of waiters lead to live waits and every
\* wait is reachable from the list of its event, whatever kfd_event_destroy, set_event and
\* free_waiters do in between.
THEOREM WaitersExactHolds == Spec => []WaitersExact
<1>1. EventsInv => WaitersExact
  BY Zenon DEF EventsInv, WaitsInv
<1>2. Init => EventsInv
  BY IdsInit, WaitsInit DEF EventsInv
<1> QED
  BY <1>1, <1>2, EventsStep, PTL DEF Spec

\* ... and no waiter on the list of a signaled event has missed the signal.
THEOREM NoMissedSignalHolds == Spec => []NoMissedSignal
<1>1. EventsInv => NoMissedSignal
  BY Zenon DEF EventsInv, WaitsInv
<1>2. Init => EventsInv
  BY IdsInit, WaitsInit DEF EventsInv
<1> QED
  BY <1>1, <1>2, EventsStep, PTL DEF Spec

=============================================================================
