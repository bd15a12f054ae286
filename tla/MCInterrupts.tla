---------------------------- MODULE MCInterrupts -----------------------------
(* The two interrupt rings on a small instance: the GPU's ring overflows, and
   amdkfd's wraps and fills. *)
EXTENDS Interrupts
=============================================================================
