------------------------------- MODULE IhRing --------------------------------
(***************************************************************************)
(* The ring of interrupt vectors the GPU writes and amdgpu_ih_process      *)
(* reads.  Vectors are numbered in the order in which the GPU writes them; *)
(* pointers count vectors, not bytes.  The GPU never stops: when it meets  *)
(* the read pointer it was last told of, it sets the overflow bit and goes *)
(* on over the oldest vectors.  One handler runs at a time.                *)
(***************************************************************************)
EXTENDS Integers

CONSTANTS
    RingVectors,  \* the vectors the ring holds
    MaxVectors    \* bound on the vectors the GPU writes

ASSUME IhAssumption == RingVectors \in Nat \ {0, 1} /\ MaxVectors \in Nat

VARIABLES
    written,   \* the number of vectors the GPU has written; the write pointer
    overflow,  \* RB_OVERFLOW
    told,      \* IH_RB_RPTR, the read pointer the GPU knows of
    msi,       \* an interrupt is pending
    ih,        \* irq.ih.rptr, the handler's copy of the write pointer, and its place
    seen,      \* the vector dispatched last
    lapped     \* an overflow has happened

ihVars == <<written, overflow, told, msi, ih, seen, lapped>>

Ptr(n) == n % RingVectors

\* the vector in a slot of the ring: the newest that belongs there
Vector(p) == CHOOSE v \in (written - RingVectors + 1)..written : Ptr(v - 1) = p

IhInit ==
    /\ written = 0 /\ overflow = FALSE /\ told = 0 /\ msi = FALSE
    /\ ih = [rptr |-> 0, wptr |-> 0, at |-> "no"]
    /\ seen = 0 /\ lapped = FALSE

\* the GPU writes a vector and sends the message
Raise ==
    /\ written < MaxVectors
    /\ written' = written + 1
    /\ overflow' = (overflow \/ Ptr(written + 1) = told)
    /\ lapped' = (lapped \/ overflow')
    /\ msi' = TRUE
    /\ UNCHANGED <<told, ih, seen>>

\* mutant: the overflow bit is cleared and the read pointer stays
StayAtRptr == ih.rptr

\* the read pointer after amdgpu_ih_get_wptr: after an overflow, the vector after the one
\* that may be written next
RptrAfterGet == IF overflow THEN Ptr(written + 1) ELSE ih.rptr

amdgpu_ih_get_wptr(next) ==
    /\ ih' = [rptr |-> RptrAfterGet, wptr |-> Ptr(written), at |-> next]
    /\ overflow' = FALSE

\* mutant: the GPU is told that the vectors are read before they are
EnterAndTell ==
    /\ msi /\ ih.at = "no"
    /\ msi' = FALSE
    /\ amdgpu_ih_get_wptr("loop")
    /\ told' = Ptr(written)
    /\ UNCHANGED <<written, seen, lapped>>

Enter ==
    /\ msi /\ ih.at = "no"
    /\ msi' = FALSE
    /\ amdgpu_ih_get_wptr("loop")
    /\ UNCHANGED <<written, told, seen, lapped>>

\* the loop meets a vector: amdkfd sees it first
Forward ==
    /\ ih.at = "loop" /\ ih.rptr # ih.wptr
    /\ ih' = [ih EXCEPT !.at = "dispatch"]
    /\ UNCHANGED <<written, overflow, told, msi, seen, lapped>>

\* amdgpu_ih_decode_iv reads the vector and moves the pointer, amdgpu_irq_dispatch calls
\* its source
Dispatch ==
    /\ ih.at = "dispatch"
    /\ seen' = Vector(ih.rptr)
    /\ ih' = [ih EXCEPT !.rptr = Ptr(@ + 1), !.at = "loop"]
    /\ UNCHANGED <<written, overflow, told, msi, lapped>>

\* amdgpu_ih_set_rptr, and the lock is released
Tell ==
    /\ ih.at = "loop" /\ ih.rptr = ih.wptr
    /\ told' = ih.rptr
    /\ ih' = [ih EXCEPT !.at = "again"]
    /\ UNCHANGED <<written, overflow, msi, seen, lapped>>

\* vectors may have come meanwhile
Again ==
    /\ ih.at = "again"
    /\ amdgpu_ih_get_wptr(IF Ptr(written) # RptrAfterGet THEN "loop" ELSE "no")
    /\ UNCHANGED <<written, told, msi, seen, lapped>>

-----------------------------------------------------------------------------
(* Properties *)

\* As long as the ring has not overflowed, the handler dispatches every vector once and in
\* order.
InOrder == [][seen' # seen => seen' = seen + 1 \/ lapped]_ihVars

\* When the GPU stops, the last vector gets dispatched, also after an overflow: the handler
\* catches up.
CatchesUp == <>[](seen = written /\ ih.at = "no")
=============================================================================
