----------------------------- MODULE MCSaManager -----------------------------
(* SaManager for TLC; the values of its constants are in the Sa*.cfg files. *)
EXTENDS SaManager, TLC

\* the threads that allocate are alike
ThreadSymmetry == Permutations(Threads)
=============================================================================
