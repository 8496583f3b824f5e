---------------------------- MODULE EnergyMeter -----------------------------
(***************************************************************************)
(* What a virtual machine relies on when it takes the file of the qemu     *)
(* exporter for the energy counter of a socket: a number that is either    *)
(* there or hidden, is hidden before it changes, and when it shows again   *)
(* is not smaller than it was, or zero if the number was lost.             *)
(* QemuExporter implements it, through failed reads and writes, kills and  *)
(* restarts; QemuGuest is its reader.                                      *)
(***************************************************************************)
EXTENDS Naturals

CONSTANT Name   \* names of the meters

VARIABLES
  number,   \* what each meter shows, or has shown last
  hidden,   \* meters that show no number
  lost      \* meters whose number has been lost

Init ==
  /\ number = [n \in Name |-> 0]
  /\ hidden = Name
  /\ lost = {}

Hide(n) ==
  /\ hidden' = hidden \cup {n}
  /\ lost' \in {lost, lost \cup {n}}
  /\ number' = number

Show(n) ==
  /\ n \in hidden
  /\ hidden' = hidden \ {n}
  /\ number'[n] >= number[n] \/ (n \in lost /\ number'[n] = 0)
  /\ number' = [number EXCEPT ![n] = number'[n]]
  /\ lost' = lost

Next == \E n \in Name : Hide(n) \/ Show(n)

Spec == Init /\ [][Next]_<<number, hidden, lost>>
=============================================================================
