--------------------------- MODULE MCAttribution ---------------------------
(***************************************************************************)
(* Instances of Attribution for TLC.                                       *)
(***************************************************************************)
EXTENDS Attribution

\* Pids are interchangeable.
Symmetric == Permutations(Pid)
=============================================================================
