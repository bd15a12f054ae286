----------------------------- MODULE KernelQueue -----------------------------
(***************************************************************************)
(* The ring of packets between amdkfd and the command processor (CP) of    *)
(* the GPU (kfd_kernel_queue.c).  A packet lies in one piece: when it does *)
(* not fit before the end of the ring, the rest of the ring is filled with *)
(* NOPs and the packet starts at 0.  One writer, which holds a lock; the   *)
(* CP reads concurrently and moves the read pointer.                       *)
(***************************************************************************)
EXTENDS Integers, Sequences, FiniteSets

CONSTANTS
    RingSize,      \* queue_size_dwords
    PacketSize     \* [packet types -> size in dwords]

ASSUME RingConstants ==
    /\ RingSize \in Nat \ {0}
    /\ \A t \in DOMAIN PacketSize : PacketSize[t] \in 1..(RingSize - 1)

VARIABLES
    hiq,           \* [rptr, wptr, pq]: the pointers and the dwords of the ring
    sent,          \* the packets submitted and not read yet, for the properties
    overrun        \* a packet has been written over dwords that were not read yet

Nop  == [type |-> "nop"]
Body == [type |-> "body"]     \* a dword of a packet that is not its first
Read == [type |-> "read"]     \* a dword the CP has read: what it holds says nothing any more

KqInit ==
    /\ hiq = [rptr |-> 0, wptr |-> 0, pq |-> [i \in 0..(RingSize - 1) |-> Read]]
    /\ sent = <<>> /\ overrun = FALSE

\* the free dwords as acquire_packet_buffer counts them, the rest before the end included
Available == (hiq.rptr - 1 - hiq.wptr + RingSize) % RingSize

HasRoom(size) == size < RingSize /\ size < Available

\* mutant: the rest of the ring is skipped and not filled
NoPadding(size) == {}

\* the dwords before the end that get filled with NOPs
Padding(size) == IF hiq.wptr + size >= RingSize THEN hiq.wptr..(RingSize - 1) ELSE {}

\* the NOPs and a packet need more than the free dwords: the rest of the ring counts as
\* room, and then the packet does not use it
Overruns(size) == Cardinality(Padding(size)) + size > Available

\* acquire_packet_buffer, the caller writes the packet, submit_packet
Submit(p) ==
    LET size == PacketSize[p.type]
        at == IF hiq.wptr + size >= RingSize THEN 0 ELSE hiq.wptr
    IN
    /\ hiq' = [hiq EXCEPT !.wptr = at + size,
                          !.pq = [i \in DOMAIN @ |->
                                    IF i \in Padding(size) THEN Nop
                                    ELSE IF i = at THEN p
                                    ELSE IF i \in at..(at + size - 1) THEN Body ELSE @[i]]]
    /\ sent' = Append(sent, p)
    /\ overrun' = (overrun \/ Overruns(size))

\* a call that returns -ENOMEM when the ring has no room
TrySubmit(p) == IF HasRoom(PacketSize[p.type]) THEN Submit(p) ELSE UNCHANGED <<hiq, sent, overrun>>

-----------------------------------------------------------------------------
(* The CP *)

SizeOf(p) == IF p.type \in DOMAIN PacketSize THEN PacketSize[p.type] ELSE 1

Unread == hiq.rptr # hiq.wptr
Current == hiq.pq[hiq.rptr]

\* the CP is past the packet at its read pointer
Consume ==
    /\ hiq' = [hiq EXCEPT !.rptr = (@ + SizeOf(Current)) % RingSize,
                          !.pq = [i \in DOMAIN @ |->
                                    IF i \in hiq.rptr..(hiq.rptr + SizeOf(Current) - 1)
                                    THEN Read ELSE @[i]]]
    /\ sent' = IF Current = Nop THEN sent ELSE Tail(sent)
    /\ UNCHANGED overrun

-----------------------------------------------------------------------------

\* between the pointers lie the packets that have not been read, whole, in their order and
\* followed by nothing but padding
RingIntact ==
    /\ ~Unread <=> sent = <<>>
    /\ Unread /\ Current # Nop => sent # <<>> /\ Current = Head(sent)
=============================================================================
