--------------------------- MODULE MCQemuExporter ---------------------------
(***************************************************************************)
(* Instances of QemuGuest for TLC.                                         *)
(***************************************************************************)
EXTENDS QemuGuest, TLC

CONSTANTS a, b, c, unnamed

\* One machine with a name, and two whose command line has no guest=.
Guests == (a :> a) @@ (b :> unnamed) @@ (c :> unnamed)

\* Machines without a name are interchangeable.
Unnamed == Permutations({b, c})
=============================================================================
