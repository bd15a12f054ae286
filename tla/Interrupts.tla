----------------------------- MODULE Interrupts ------------------------------
(***************************************************************************)
(* The way of an interrupt through the driver: its source, when enabled    *)
(* (IrqSources), the GPU's ring (IhRing), whose handler shows every vector *)
(* to amdkfd before it dispatches it, and amdkfd's own ring and work item  *)
(* (KfdInterrupt).  The handler of the GPU's ring is the one that runs the *)
(* enqueueing of amdkfd's.                                                 *)
(***************************************************************************)
EXTENDS IrqSources, IhRing, KfdInterrupt

CONSTANT Wanted  \* the vectors amdkfd is interested in

vars == <<irqVars, ihVars, kfdVars>>

Init == IrqInit /\ IhInit /\ KfdInit

Send == Raise /\ hw_enabled /\ UNCHANGED <<irqVars, kfdVars>>

\* kgd2kfd_interrupt: the vector is of no interest, or amdkfd is closed, or it is enqueued
ForwardToKfd ==
    /\ Forward
    /\ IF Vector(ih.rptr) \in Wanted /\ active THEN Interrupt ELSE UNCHANGED kfdVars

\* ... and the handler goes on when it returns
DispatchNext == Dispatch /\ isr.at = "no" /\ UNCHANGED kfdVars

Handler ==
    /\ \/ (Enter \/ Tell \/ Again) /\ UNCHANGED kfdVars
       \/ ForwardToKfd
       \/ DispatchNext
       \/ Isr /\ UNCHANGED ihVars
    /\ UNCHANGED irqVars

KfdWork == Work /\ UNCHANGED <<irqVars, ihVars>>
KfdExit == Exit /\ UNCHANGED <<irqVars, ihVars>>
Sources == IrqNext /\ UNCHANGED <<ihVars, kfdVars>>

Next == Send \/ Handler \/ KfdWork \/ KfdExit \/ Sources

Spec == Init /\ [][Next]_vars /\ WF_vars(Handler) /\ WF_vars(KfdWork)

=============================================================================
