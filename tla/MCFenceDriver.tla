---------------------------- MODULE MCFenceDriver ----------------------------
(***************************************************************************)
(* FenceDriver for TLC.                                                    *)
(***************************************************************************)
EXTENDS FenceDriver

=============================================================================
