-------------------------- MODULE MCProcessTracker --------------------------
(***************************************************************************)
(* An instance of ProcessTracker and TopConsumers for TLC.                 *)
(***************************************************************************)
EXTENDS TopConsumers

\* Pids and executables are interchangeable.
Symmetric == Permutations(Pid) \cup Permutations(Comm)
=============================================================================
