------------------------------ MODULE MCGpuReset ------------------------------
(* GpuReset for TLC; the values of its constants are in Reset.cfg. *)
EXTENDS GpuReset

\* no property says anything about what follows an overlap of two resets or the reset of a
\* job that had signaled: TLC reaches those states and does not go on from them
Sound == ~overlap /\ ~unfinished
=============================================================================
