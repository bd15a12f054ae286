---------------------------- MODULE InterruptQueue ----------------------------
(***************************************************************************)
(* What kfd_interrupt.c promises the handlers of interrupts: a bounded     *)
(* queue.  An interrupt is accepted, or dropped when the queue is full;    *)
(* accepted ones are handled once each, in their order; once the queue is  *)
(* closed nothing is accepted, and what was accepted is still handled.     *)
(***************************************************************************)
EXTENDS Integers, Sequences

CONSTANTS Capacity, MaxEntries

VARIABLES queue, last, handled, dropped, open

vars == <<queue, last, handled, dropped, open>>

Init ==
    /\ queue = <<>> /\ last = 0 /\ handled = 0 /\ dropped = 0
    /\ open = TRUE

\* interrupts carry the numbers 1, 2, ... in their order
Accept ==
    /\ open /\ Len(queue) < Capacity /\ last < MaxEntries
    /\ last' = last + 1
    /\ queue' = Append(queue, last + 1)
    /\ UNCHANGED <<handled, dropped, open>>

Drop ==
    /\ open /\ Len(queue) = Capacity /\ last < MaxEntries
    /\ last' = last + 1 /\ dropped' = last + 1
    /\ UNCHANGED <<queue, handled, open>>

Handle ==
    /\ queue # <<>>
    /\ handled' = Head(queue) /\ queue' = Tail(queue)
    /\ UNCHANGED <<last, dropped, open>>

Close == open /\ open' = FALSE /\ UNCHANGED <<queue, last, handled, dropped>>

Next == Accept \/ Drop \/ Handle \/ Close

Spec == Init /\ [][Next]_vars /\ WF_vars(Handle)

=============================================================================
