------------------------------- MODULE MCVmIds -------------------------------
(* The VM ids on a small instance: two VMs whose jobs on two rings compete for
   two ids, while their page tables change and the GPU is reset. *)
EXTENDS VmIds

CONSTANTS v, w

\* v uses both rings, w one of them
MCEntities == {<<v, 1>>, <<v, 2>>, <<w, 1>>}
=============================================================================
