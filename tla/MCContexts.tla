----------------------------- MODULE MCContexts ------------------------------
(* The contexts on a small instance: threads that submit to and wait on two
   contexts with two fence slots each, so that slots are used again. *)
EXTENDS Contexts
=============================================================================
