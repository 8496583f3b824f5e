---------------------------- MODULE MCCorePower ----------------------------
(***************************************************************************)
(* Instances of CorePower for TLC.                                         *)
(***************************************************************************)
EXTENDS CorePower

\* The last core runs at twice the speed of the reference clock.
Speeds == [c \in Core |-> IF c = nb_cores - 1 THEN 2 ELSE 1]
=============================================================================
