--------------------------- MODULE MCCpuStateTick ---------------------------
(***************************************************************************)
(* Instances of CpuStateTick for TLC.                                      *)
(***************************************************************************)
EXTENDS CpuStateTick

\* Two packages with an unused number in between: CPU 1 alone has the second.
SparsePackages == [c \in Online |-> IF c = 1 THEN 2 ELSE 0]
=============================================================================
