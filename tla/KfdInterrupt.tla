----------------------------- MODULE KfdInterrupt -----------------------------
(***************************************************************************)
(* The ring of kfd_interrupt.c between the interrupt handler, which copies *)
(* the interrupts of interest into it, and a work item that takes them out *)
(* and calls their handlers.  The two share no lock: each owns one of the  *)
(* two pointers.  The pointers are offsets in bytes, in unsigned words.    *)
(***************************************************************************)
EXTENDS Integers, Sequences

CONSTANTS
    EntrySize,   \* ih_ring_entry_size
    NumEntries,  \* KFD_INTERRUPT_RING_SIZE
    WordSize,    \* 2^32, the range of an unsigned int
    MaxEntries,  \* bound on the interrupts
    MayExit      \* kfd_interrupt_exit is called

\* the ring's size divides the range of a word (16 * 1024 and 2^32 in the driver); the
\* difference of two pointers, which wraps, depends on it
ASSUME RingAssumption ==
    /\ EntrySize \in Nat \ {0} /\ NumEntries \in Nat \ {0, 1} /\ MaxEntries \in Nat
    /\ WordSize \in Nat \ {0} /\ WordSize % (NumEntries * EntrySize) = 0
    /\ MayExit \in BOOLEAN

RingSize == NumEntries * EntrySize
Slots    == 0..(NumEntries - 1)
Garbage  == -1      \* a slot the handler is writing

VARIABLES
    ring, rptr, wptr,
    active,      \* kfd->interrupts_active
    freed,       \* the ring has been freed
    isr,         \* the interrupt handler, which holds interrupt_lock: where, and its
                 \* copy of wptr
    queued,      \* interrupt_work is on the work queue
    work,        \* the work item: where, and the entry it has copied
    exiting,     \* where kfd_interrupt_exit is
    last,        \* the number of the newest interrupt
    handled,     \* the number of the interrupt handled last
    dropped      \* the number of the interrupt dropped last

kfdVars == <<ring, rptr, wptr, active, freed, isr, queued, work, exiting, last, handled,
             dropped>>

NoIsr  == [at |-> "no", wptr |-> 0]
NoWork == [at |-> "no", entry |-> 0]

KfdInit ==
    /\ ring = [s \in Slots |-> 0] /\ rptr = 0 /\ wptr = 0
    /\ active = TRUE /\ freed = FALSE
    /\ isr = NoIsr /\ queued = FALSE /\ work = NoWork
    /\ exiting = "no"
    /\ last = 0 /\ handled = 0 /\ dropped = 0

Slot(p)  == p \div EntrySize

Forth(p) == (p + EntrySize) % RingSize

\* one slot stays free, to tell a full ring from an empty one
Full(r, w) == ((r - w) % WordSize) % RingSize = EntrySize

-----------------------------------------------------------------------------
(* kgd2kfd_interrupt, enqueue_ih_ring_entry *)

\* a handler that meets interrupts_active false leaves no trace
Interrupt ==
    /\ isr.at = "no" /\ active
    /\ last < MaxEntries
    /\ last' = last + 1
    /\ \/ /\ Full(rptr, wptr)
          /\ dropped' = last + 1
          /\ UNCHANGED isr
       \/ /\ ~Full(rptr, wptr)
          /\ isr' = [at |-> "copy", wptr |-> wptr]
          /\ UNCHANGED dropped
    /\ UNCHANGED <<ring, rptr, wptr, active, freed, queued, work, exiting, handled>>

\* memcpy of the entry, which takes time
CopyIn ==
    \/ /\ isr.at = "copy"
       /\ ring' = [ring EXCEPT ![Slot(isr.wptr)] = Garbage]
       /\ isr' = [isr EXCEPT !.at = "copying"]
       /\ UNCHANGED <<rptr, wptr, active, freed, queued, work, exiting, last, handled,
                      dropped>>
    \/ /\ isr.at = "copying"
       /\ ring' = [ring EXCEPT ![Slot(isr.wptr)] = last]
       /\ isr' = [isr EXCEPT !.at = "publish"]
       /\ UNCHANGED <<rptr, wptr, active, freed, queued, work, exiting, last, handled,
                      dropped>>

\* atomic_set of wptr, after the barrier
Publish ==
    /\ isr.at = "publish"
    /\ wptr' = Forth(isr.wptr)
    /\ isr' = [isr EXCEPT !.at = "schedule"]
    /\ UNCHANGED <<ring, rptr, active, freed, queued, work, exiting, last, handled, dropped>>

\* mutant: a work item that runs is not queued again
QueueIfIdle == queued' = (queued \/ work.at = "no")

\* schedule_work queues the item also when it runs
Queue == queued' = TRUE

Schedule ==
    /\ isr.at = "schedule"
    /\ Queue
    /\ isr' = NoIsr
    /\ UNCHANGED <<ring, rptr, wptr, active, freed, work, exiting, last, handled, dropped>>

-----------------------------------------------------------------------------
(* interrupt_wq, dequeue_ih_ring_entry *)

WorkStart ==
    /\ queued /\ work.at = "no"
    /\ queued' = FALSE
    /\ work' = [work EXCEPT !.at = "check"]
    /\ UNCHANGED <<ring, rptr, wptr, active, freed, isr, exiting, last, handled, dropped>>

Check ==
    /\ work.at = "check"
    /\ work' = [work EXCEPT !.at = IF rptr = wptr THEN "return" ELSE "copy"]
    /\ UNCHANGED <<ring, rptr, wptr, active, freed, isr, queued, exiting, last, handled,
                   dropped>>

WorkReturn ==
    /\ work.at = "return"
    /\ work' = NoWork
    /\ UNCHANGED <<ring, rptr, wptr, active, freed, isr, queued, exiting, last, handled,
                   dropped>>

CopyOut ==
    /\ work.at = "copy"
    /\ work' = [at |-> "advance", entry |-> ring[Slot(rptr)]]
    /\ UNCHANGED <<ring, rptr, wptr, active, freed, isr, queued, exiting, last, handled,
                   dropped>>

\* atomic_set of rptr, after the barrier; the handler of the entry is called
Advance ==
    /\ work.at = "advance"
    /\ rptr' = Forth(rptr)
    /\ handled' = work.entry
    /\ work' = [at |-> "check", entry |-> 0]
    /\ UNCHANGED <<ring, wptr, active, freed, isr, queued, exiting, last, dropped>>

-----------------------------------------------------------------------------
(* kfd_interrupt_exit *)

\* mutant: interrupts_active is cleared without the lock
NoLock == TRUE

\* interrupt_lock is free
LockFree == isr.at = "no"

ExitStop ==
    /\ MayExit /\ exiting = "no" /\ LockFree
    /\ active' = FALSE
    /\ exiting' = "flush"
    /\ UNCHANGED <<ring, rptr, wptr, freed, isr, queued, work, last, handled, dropped>>

\* flush_scheduled_work returns when the work is neither queued nor running
ExitFree ==
    /\ exiting = "flush" /\ ~queued /\ work.at = "no"
    /\ freed' = TRUE
    /\ exiting' = "done"
    /\ UNCHANGED <<ring, rptr, wptr, active, isr, queued, work, last, handled, dropped>>

-----------------------------------------------------------------------------
Isr  == CopyIn \/ Publish \/ Schedule
Work == WorkStart \/ Check \/ WorkReturn \/ CopyOut \/ Advance

Exit == ExitStop \/ ExitFree

-----------------------------------------------------------------------------
(* Properties *)

\* After kfd_interrupt_exit has freed the ring, neither the interrupt handler nor the work
\* item is in it, now or later.
NoUseAfterFree ==
    freed => isr.at = "no" /\ work.at = "no" /\ ~queued /\ ~active

\* The entries between the two pointers, oldest first.
Pending ==
    LET n == ((wptr - rptr) % WordSize) \div EntrySize % NumEntries
    IN  [k \in 1..n |-> ring[(Slot(rptr) + k - 1) % NumEntries]]

\* an interrupt that is being copied is not accepted yet
Q == INSTANCE InterruptQueue WITH
        Capacity <- NumEntries - 1,
        queue <- Pending,
        last <- IF isr.at \in {"copy", "copying", "publish"} THEN last - 1 ELSE last,
        open <- active

\* The ring implements the queue: interrupts are dropped only when it is full, handled
\* once each, whole and in their order, and every accepted one is handled, also when the
\* work item runs while the next interrupt arrives.
QueueSpec == Q!Spec

=============================================================================
