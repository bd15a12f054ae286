----------------------------- MODULE MCKfdQueues -----------------------------
(***************************************************************************)
(* The queues of two processes, one of which may be debugged.              *)
(***************************************************************************)
EXTENDS KfdQueues

CONSTANTS p1, p2

AskedQueues == [p \in {p1, p2} |-> {IF p = p1 THEN <<"sdma", TRUE>> ELSE <<"compute", FALSE>>}]

PacketSizes == [unmap |-> 1, unmap_sdma |-> 2, query |-> 1, runlist |-> 1]
=============================================================================
