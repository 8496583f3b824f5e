---------------------------- MODULE QemuExporter ----------------------------
(***************************************************************************)
(* The qemu exporter (exporters/qemu.rs): every five seconds it adds the   *)
(* share of each virtual machine to a file energy_uj that the guest reads  *)
(* as if it were a powercap counter, and every two minutes it cleans the   *)
(* process tracker.                                                        *)
(*                                                                         *)
(* A file is rewritten by truncating it and writing the new number.  The   *)
(* exporter may be killed at any point and started again; files stay.  The *)
(* power is added as it is measured, microwatts as microjoules, whatever   *)
(* the host has really drawn.                                              *)
(***************************************************************************)
EXTENDS Integers, FiniteSets, FiniteSetsExt

CONSTANTS
  Vm,            \* qemu processes
  Name,          \* names of files: the guests', "" for processes without guest=
  guest,         \* get_vm_name_from_cmdline: the name of each process
  Shares,        \* CPU usage a machine may have, per cent of the host
  Powers,        \* power that may be measured for the host, microwatts
  cleaner_step,  \* seconds between two cleanings: 120
  MaxRefreshes,  \* bound on the refreshes, for model checking
  MaxRestarts    \* bound on the restarts, for model checking

step == 5   \* seconds between two iterations

ASSUME QemuExporterAssumption ==
  /\ IsFiniteSet(Vm) /\ IsFiniteSet(Name)
  /\ guest \in [Vm -> Name]
  /\ Shares \subseteq 0 .. 100
  /\ Powers \subseteq Nat
  /\ cleaner_step \in Nat \ {0} /\ cleaner_step % step = 0
  /\ MaxRefreshes \in Nat
  /\ MaxRestarts \in Nat

Off    == -1   \* share of a machine that does not run
None   == -1   \* no power between the last two readings
Absent == -1   \* the file does not exist
Torn   == -2   \* the file is truncated

Nothing == [number |-> Absent]   \* no file is being written

\* No machine is being handled: what an iteration has computed is forgotten.
NoShare == [v \in Vm |-> Off]

VARIABLES
  pc,         \* "refresh", "add", "write", "sleep", or "down"
  timer,      \* seconds to the next cleaning
  power,      \* get_records_diff_power_microwatts in this iteration
  share,      \* CPU usage of each machine in this iteration
  records,    \* records in each machine's vector, up to three
  todo,       \* machines still to be handled in this iteration
  writing,    \* machine and number being written, if any
  files,      \* content of each file
  restarts,
  refreshes,
  measured,   \* sum of the powers measured for the host
  readable,   \* last number each file held
  lost,       \* files that were there and could not be read
  interrupted,  \* a write has failed or was cut short by a kill
  panicked    \* the content of a file could not be parsed

vars == <<pc, timer, power, share, records, todo, writing, files, restarts, refreshes,
          measured, readable, lost, interrupted, panicked>>

ghosts == <<readable, lost, interrupted, panicked>>

\* The cleaning timer is a positive multiple of the step, so that subtracting the step
\* from it never panics; numbers are never negative.
TypeOK ==
  /\ pc \in {"refresh", "add", "write", "sleep", "down"}
  /\ timer \in step .. cleaner_step /\ timer % step = 0
  /\ power \in Powers \cup {None}
  /\ share \in [Vm -> Shares \cup {Off}]
  /\ records \in [Vm -> 0 .. 3]
  /\ todo \subseteq {v \in Vm : share[v] # Off /\ records[v] > 2}
  /\ \A n \in Name : files[n] \in Nat \cup {Absent, Torn}
  /\ lost \subseteq Name /\ interrupted \in BOOLEAN /\ panicked \in BOOLEAN
  /\ pc = "write" => files[guest[writing.vm]] = Torn /\ writing.number \in Nat

Init ==
  /\ pc = "refresh"
  /\ timer = cleaner_step
  /\ power = None
  /\ share = NoShare
  /\ records = [v \in Vm |-> 0]
  /\ todo = {}
  /\ writing = Nothing
  /\ files = [n \in Name |-> Absent]
  /\ restarts = 0
  /\ refreshes = 0
  /\ measured = 0
  /\ readable = [n \in Name |-> 0]
  /\ lost = {}
  /\ interrupted = FALSE
  /\ panicked = FALSE

\* CPU usages the machines can have together.
LegalShares ==
  {s \in [Vm -> Shares \cup {Off}] :
     MapThenSumSet(LAMBDA v : IF s[v] = Off THEN 0 ELSE s[v], Vm) <= 100}

\* iterate goes on with the machines of todo', or returns and forgets what it has computed.
Loop(p, s) ==
  IF todo' = {}
  THEN pc' = "sleep" /\ power' = None /\ share' = NoShare
  ELSE pc' = "add" /\ power' = p /\ share' = s

\* Topology::refresh, and p the power it gives, which is any: none can be computed from one
\* reading or across a wrap of the counter.
Refresh(p, s) ==
  /\ pc = "refresh"
  /\ refreshes < MaxRefreshes
  /\ refreshes' = refreshes + 1
  /\ measured' = measured + (IF p = None THEN 0 ELSE p)
  /\ records' = [v \in Vm |-> IF s[v] = Off THEN 0 ELSE Min({records[v] + 1, 3})]
  /\ todo' = IF p = None THEN {} ELSE {v \in Vm : s[v] # Off /\ records'[v] > 2}
  /\ Loop(p, s)
  /\ UNCHANGED <<timer, writing, files, restarts, ghosts>>

\* Faulty variant: the per cent are not divided out.
uj_to_add_percent(v) == share[v] * power

uj_to_add(v) == (share[v] * power) \div 100

Handled(v) ==
  /\ todo' = todo \ {v}
  /\ Loop(power, share)

\* No usage is known, or the file cannot be opened: the machine is left for the next
\* iteration.
SkipVm(v) ==
  /\ pc = "add"
  /\ v \in todo
  /\ Handled(v)
  /\ UNCHANGED <<timer, records, writing, files, restarts, refreshes, measured,
                 ghosts>>

\* What add_or_create writes: a file that could not be read gets a zero, whatever it held.
Content(n, uj, read) == IF read THEN files[n] + uj ELSE 0

\* add_or_create reads the file, if it can, and truncates it.
Truncate(v, read) ==
  LET n == guest[v]
  IN  /\ pc = "add"
      /\ v \in todo
      /\ read => files[n] \notin {Absent, Torn}
      /\ writing' = [vm |-> v, number |-> Content(n, uj_to_add(v), read)]
      /\ files' = [files EXCEPT ![n] = Torn]
      /\ lost' = IF read \/ files[n] = Absent THEN lost ELSE lost \cup {n}
      /\ pc' = "write"
      /\ UNCHANGED <<timer, power, share, records, todo, restarts, refreshes, measured, readable,
                     interrupted, panicked>>

\* Faulty variant: a write that fails is not noticed.
Write_lost ==
  /\ pc = "write"
  /\ Handled(writing.vm)
  /\ writing' = Nothing
  /\ UNCHANGED <<timer, records, files, restarts, refreshes, measured,
                 ghosts>>

Write ==
  LET n == guest[writing.vm]
  IN  /\ pc = "write"
      /\ files' = [files EXCEPT ![n] = writing.number]
      /\ readable' = [readable EXCEPT ![n] = writing.number]
      /\ Handled(writing.vm)
      /\ writing' = Nothing
      /\ UNCHANGED <<timer, records, restarts, refreshes, measured, lost,
                     interrupted, panicked>>

\* Truncated and not written, for lack of space: an error is logged.
WriteFails ==
  /\ pc = "write"
  /\ interrupted' = TRUE
  /\ Handled(writing.vm)
  /\ writing' = Nothing
  /\ UNCHANGED <<timer, records, files, restarts, refreshes, measured,
                 readable, lost, panicked>>

\* The process is gone, and with it everything but the files.
Die ==
  /\ pc' = "down"
  /\ timer' = cleaner_step
  /\ power' = None
  /\ share' = NoShare
  /\ records' = [v \in Vm |-> 0]
  /\ todo' = {}
  /\ writing' = Nothing
  /\ UNCHANGED <<files, restarts, refreshes, measured>>

\* The directory of a file that does not exist yet cannot be created.
CreateDirPanics(v) ==
  /\ pc = "add"
  /\ v \in todo
  /\ files[guest[v]] = Absent
  /\ Die
  /\ UNCHANGED ghosts

\* Parsing the content of a truncated file panics.
ParsePanics(v) ==
  /\ pc = "add"
  /\ v \in todo
  /\ files[guest[v]] = Torn
  /\ Die
  /\ panicked' = TRUE
  /\ UNCHANGED <<readable, lost, interrupted>>

\* Faulty variant: the timer is compared before the step is subtracted.
Sleep_late ==
  /\ pc = "sleep"
  /\ timer' = IF timer > 0 THEN timer - step ELSE cleaner_step
  /\ pc' = "refresh"
  /\ UNCHANGED <<power, share, records, todo, writing, files, restarts, refreshes, measured, ghosts>>

\* Sleeps, and cleans the tracker when the timer has run out.  Cleaning empties the
\* vectors of machines that are gone, whose records no iteration uses.
Sleep ==
  /\ pc = "sleep"
  /\ timer' = IF timer - step > 0 THEN timer - step ELSE cleaner_step
  /\ pc' = "refresh"
  /\ UNCHANGED <<power, share, records, todo, writing, files, restarts, refreshes, measured, ghosts>>

Kill ==
  /\ pc # "down"
  /\ Die
  /\ interrupted' = (interrupted \/ pc = "write")
  /\ UNCHANGED <<readable, lost, panicked>>

\* Faulty variant: the exporter starts with a clean directory.
Restart_clean ==
  /\ pc = "down"
  /\ restarts < MaxRestarts
  /\ restarts' = restarts + 1
  /\ pc' = "refresh"
  /\ files' = [n \in Name |-> Absent]
  /\ UNCHANGED <<timer, power, share, records, todo, writing, refreshes, measured, ghosts>>

Restart ==
  /\ pc = "down"
  /\ restarts < MaxRestarts
  /\ restarts' = restarts + 1
  /\ pc' = "refresh"
  /\ UNCHANGED <<timer, power, share, records, todo, writing, files, refreshes, measured, ghosts>>

Next ==
  \/ \E p \in Powers \cup {None}, s \in LegalShares : Refresh(p, s)
  \/ \E v \in Vm, read \in BOOLEAN : Truncate(v, read)
  \/ \E v \in Vm : SkipVm(v) \/ CreateDirPanics(v) \/ ParsePanics(v)
  \/ Write \/ WriteFails
  \/ Sleep
  \/ Kill
  \/ Restart

Spec == Init /\ [][Next]_vars

-----------------------------------------------------------------------------
(***************************************************************************)
(* Properties.                                                             *)
(***************************************************************************)

\* The file holds a number.
Shown(n) == files[n] \notin {Absent, Torn}

\* What a guest that takes the files for counters sees: numbers, and files without one.
Number == [n \in Name |-> IF Shown(n) THEN files[n] ELSE readable[n]]
Hidden == {n \in Name : ~Shown(n)}

Meters == INSTANCE EnergyMeter WITH number <- Number, hidden <- Hidden

\* A guest that takes a file for an energy counter sees either a number or none, and the
\* numbers it sees never fall, through failed writes, kills and restarts, and when
\* several machines share the file, except that a file that once could not be read may
\* start over at zero: the exporter implements EnergyMeter (qemu.rs 114-131).
MetersSpec == Meters!Spec

\* What is in the files together never exceeds the sum of the powers measured for the
\* host, whatever machines come and go, however many processes share a file and whatever
\* fails: no share of an iteration is added twice (qemu.rs 55-99).
NoOverCount == MapThenSumSet(LAMBDA n : readable[n], Name) <= measured

\* The exporter fails to parse a file only after a write that failed or was cut short:
\* otherwise a number is complete before the next machine is handled, also when two
\* machines share a file (qemu.rs 114-131).
PanicsOnlyIfInterrupted == panicked => interrupted
=============================================================================
