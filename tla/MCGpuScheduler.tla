--------------------------- MODULE MCGpuScheduler ---------------------------
(***************************************************************************)
(* Instances of GpuScheduler for TLC.                                      *)
(***************************************************************************)
EXTENDS GpuScheduler

CONSTANTS k, n, j1, j2, j3, x

\* a kernel entity with one job and a normal one with the others
EntityOfDef == [j \in Jobs |-> IF j = j1 /\ k \in Entities THEN k ELSE n]
PrioDef == [e \in Entities |-> IF e = k THEN 0 ELSE 1]

\* the kernel job waits for the first normal job; the second normal job depends on
\* the first one and on a foreign fence
DepsDef == [j \in Jobs |-> Fences \cap
              CASE j = j1 -> {<<"finished", j2>>}
                [] j = j2 -> {}
                [] j = j3 -> {<<"scheduled", j2>>, <<"ext", x>>}]
=============================================================================
