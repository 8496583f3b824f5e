-------------------------- MODULE MCCpuAccounting --------------------------
(***************************************************************************)
(* Instances of CpuAccounting for TLC: the threads in Workers belong to    *)
(* one process, the others to another.                                     *)
(***************************************************************************)
EXTENDS CpuAccounting, TLC

CONSTANTS Workers, many, single

Processes == [t \in Thread |-> IF t \in Workers THEN many ELSE single]

\* CPUs are interchangeable, and so are the threads of a process.
Symmetry == Permutations(Cpu) \cup Permutations(Workers)
=============================================================================
