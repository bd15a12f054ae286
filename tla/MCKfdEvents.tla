----------------------------- MODULE MCKfdEvents -----------------------------
(* KfdEvents for TLC; the values of its constants are in the Events*.cfg files. *)
EXTENDS KfdEvents

CONSTANTS t1, t2
=============================================================================
