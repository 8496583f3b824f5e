------------------------- MODULE QemuExporterProofs -------------------------
(***************************************************************************)
(* Proofs about QemuExporter.  That the exporter implements EnergyMeter    *)
(* needs an invariant that spans an iteration: a file that holds a number  *)
(* holds the last one written to it, the number about to be written is not *)
(* smaller than that unless the file could not be read, and a file that    *)
(* does not exist has never held one.                                      *)
(* That only an interrupted write leaves a file that cannot be parsed      *)
(* needs, as long as none was interrupted, that the only truncated file is *)
(* the one being written.                                                  *)
(* That the files hold no more than was measured for the host needs what   *)
(* the machines still to be handled will be charged, and that a guest      *)
(* derives no more than it is charged needs what its newest record says.   *)
(***************************************************************************)
EXTENDS QemuGuest, FiniteSums

\* What a file and the number last written to it have in common.
Held ==
  /\ files \in [Name -> Nat \cup {Absent, Torn}]
  /\ readable \in [Name -> Nat]
  /\ \A n \in Name : files[n] \in Nat => files[n] = readable[n]
  /\ \A n \in Name : files[n] = Absent => readable[n] = 0

\* What is known between the steps of an iteration.
Iteration ==
  /\ pc \notin {"add", "write"} => todo = {}
  /\ todo # {} => power \in Nat
  /\ pc = "write" => /\ writing.vm \in Vm
                     /\ writing.number \in Nat
                     /\ \/ writing.number >= readable[guest[writing.vm]]
                        \/ guest[writing.vm] \in lost /\ writing.number = 0

\* The only truncated file is the one being written.
OneTorn ==
  ~interrupted => \A n \in Name : files[n] = Torn => pc = "write" /\ n = guest[writing.vm]

QemuInv == TypeOK /\ Held /\ Iteration /\ OneTorn /\ PanicsOnlyIfInterrupted

\* The markers are not numbers and differ.
LEMMA Markers == Absent \notin Nat /\ Torn \notin Nat /\ Absent # Torn
BY DEF Absent, Torn

\* A vector has at most three records.
LEMMA RecordsBounded ==
  ASSUME NEW r \in 0 .. 3 PROVE Min({r + 1, 3}) \in 0 .. 3
<1> DEFINE S == {r + 1, 3}
<1>1. PICK x \in S : \A y \in S : x <= y
  OBVIOUS
<1>2. Min(S) \in S
  BY <1>1 DEF Min
<1>3. ASSUME Min(S) = r + 1 PROVE Min(S) \in 0 .. 3
  <2>1. Min(S) <= 3
    BY <1>1 DEF Min
  <2> QED BY <1>3, <2>1
<1> QED BY <1>2, <1>3

\* What is added to a file is a natural number.
LEMMA AddedNat ==
  ASSUME QemuInv, NEW v \in todo PROVE v \in Vm /\ uj_to_add(v) \in Nat
<1>1. v \in Vm /\ share[v] \in Shares \cup {Off} /\ share[v] # Off /\ power \in Nat
  BY DEF QemuInv, TypeOK, Iteration
<1>2. share[v] \in Nat
  <2>1. share[v] \in Shares
    BY <1>1
  <2>2. Shares \subseteq 0 .. 100
    BY QemuExporterAssumption
  <2>3. \A x \in 0 .. 100 : x \in Nat
    OBVIOUS
  <2> QED BY <2>1, <2>2, <2>3, Zenon
<1>3. share[v] * power \in Nat
  BY <1>1, <1>2
<1>4. \A x \in Nat : x \div 100 \in Nat
  OBVIOUS
<1> QED BY <1>1, <1>3, <1>4 DEF uj_to_add

\* The cleaning timer starts at a multiple of the step and is lowered by it.
LEMMA TimerFacts ==
  /\ cleaner_step \in step .. cleaner_step /\ cleaner_step % step = 0
  /\ \A t \in step .. cleaner_step :
       t % step = 0 /\ t - step > 0 => t - step \in step .. cleaner_step /\ (t - step) % step = 0
<1>1. cleaner_step \in Nat /\ cleaner_step # 0 /\ cleaner_step % step = 0
  BY QemuExporterAssumption
<1>2. cleaner_step \in step .. cleaner_step
  BY <1>1 DEF step
<1>3. \A t \in step .. cleaner_step :
        t % step = 0 /\ t - step > 0 => t - step \in step .. cleaner_step /\ (t - step) % step = 0
  BY <1>1 DEF step
<1> QED BY <1>1, <1>2, <1>3

\* What TypeOK says of the timer.
TimerOK == timer \in step .. cleaner_step /\ timer % step = 0

\* What TypeOK says of the machines.
MachinesOK ==
  /\ power \in Powers \cup {None}
  /\ share \in [Vm -> Shares \cup {Off}]
  /\ records \in [Vm -> 0 .. 3]
  /\ todo \subseteq {v \in Vm : share[v] # Off /\ records[v] > 2}

\* What TypeOK says of the files.
FilesOK ==
  /\ pc \in {"refresh", "add", "write", "sleep", "down"}
  /\ \A n \in Name : files[n] \in Nat \cup {Absent, Torn}
  /\ lost \subseteq Name /\ interrupted \in BOOLEAN /\ panicked \in BOOLEAN
  /\ pc = "write" => files[guest[writing.vm]] = Torn /\ writing.number \in Nat

\* TypeOK is about the timer, the machines and the files.
LEMMA TypeParts == TypeOK <=> TimerOK /\ MachinesOK /\ FilesOK
BY DEF TypeOK, TimerOK, MachinesOK, FilesOK

\* The initial state, and the state of an exporter that has just gone, of the machines.
LEMMA NothingToDo ==
  ASSUME power = None, share = NoShare, records = [v \in Vm |-> 0], todo = {}
  PROVE  MachinesOK
BY DEF MachinesOK, NoShare

\* The invariant holds initially.
LEMMA QemuStart == Init => QemuInv
<1> SUFFICES ASSUME Init PROVE QemuInv
  OBVIOUS
<1>1. TimerOK
  BY TimerFacts DEF Init, TimerOK
<1>2. MachinesOK
  BY NothingToDo DEF Init
<1>3. FilesOK
  BY DEF Init, FilesOK
<1>4. Held
  BY Markers DEF Init, Held
<1>5. Iteration /\ OneTorn /\ PanicsOnlyIfInterrupted
  BY Markers DEF Init, Iteration, OneTorn, PanicsOnlyIfInterrupted
<1> QED BY <1>1, <1>2, <1>3, <1>4, <1>5, TypeParts DEF QemuInv

-----------------------------------------------------------------------------
(***************************************************************************)
(* The steps.                                                              *)
(***************************************************************************)

\* The parts of the invariant after a step.
LEMMA PartsNext ==
  ASSUME TimerOK', MachinesOK', FilesOK', Held', Iteration', OneTorn',
         PanicsOnlyIfInterrupted'
  PROVE  QemuInv'
BY DEF QemuInv, TypeOK, TimerOK, MachinesOK, FilesOK

\* Steps that leave the files alone and, if they end a write, count it as interrupted.
LEMMA FilesKept ==
  ASSUME QemuInv, UNCHANGED <<files, readable, lost>>,
         pc' \in {"refresh", "add", "sleep", "down"},
         interrupted' \in BOOLEAN, panicked' \in BOOLEAN,
         interrupted \/ pc = "write" => interrupted',
         panicked' => interrupted'
  PROVE  FilesOK' /\ Held' /\ OneTorn' /\ PanicsOnlyIfInterrupted'
<1>1. FilesOK'
  BY TypeParts DEF QemuInv, FilesOK
<1>2. Held'
  BY DEF QemuInv, Held
<1>3. OneTorn' /\ PanicsOnlyIfInterrupted'
  BY DEF QemuInv, OneTorn, PanicsOnlyIfInterrupted
<1> QED BY <1>1, <1>2, <1>3

\* A machine that was handled is taken out of the list.
LEMMA HandledKeeps ==
  ASSUME QemuInv, records' = records, NEW v, Handled(v)
  PROVE  /\ MachinesOK'
         /\ pc' \in {"sleep", "add"}
         /\ pc' = "sleep" => todo' = {}
         /\ todo' # {} => power' \in Nat
<1>1. MachinesOK /\ (todo # {} => power \in Nat)
  BY TypeParts DEF QemuInv, Iteration
<1>2. todo' = todo \ {v} /\ Loop(power, share)
  BY DEF Handled
<1>3. CASE todo' = {}
  BY <1>1, <1>2, <1>3 DEF MachinesOK, Loop, NoShare
<1>4. CASE todo' # {}
  BY <1>1, <1>2, <1>4 DEF MachinesOK, Loop
<1> QED BY <1>3, <1>4

\* The refresh finds the machines and their usages.
LEMMA RefreshKeeps ==
  ASSUME QemuInv, NEW p \in Powers \cup {None}, NEW s \in LegalShares, Refresh(p, s)
  PROVE  QemuInv'
<1>1. TimerOK'
  BY TypeParts DEF QemuInv, Refresh, TimerOK
<1>2. MachinesOK'
  <2>1. share' \in [Vm -> Shares \cup {Off}] /\ power' \in Powers \cup {None}
    BY DEF Refresh, Loop, LegalShares, NoShare
  <2>2. records' \in [Vm -> 0 .. 3]
    <3>1. \A v \in Vm : records[v] \in 0 .. 3
      BY DEF QemuInv, TypeOK
    <3>2. \A v \in Vm : (IF s[v] = Off THEN 0 ELSE Min({records[v] + 1, 3})) \in 0 .. 3
      BY <3>1, RecordsBounded
    <3> QED BY <3>2 DEF Refresh
  <2>3. todo' \subseteq {v \in Vm : share'[v] # Off /\ records'[v] > 2}
    BY DEF Refresh, Loop
  <2> QED BY <2>1, <2>2, <2>3 DEF MachinesOK
<1>3. pc = "refresh" /\ pc' \in {"sleep", "add"} /\ UNCHANGED <<files, ghosts>>
  BY DEF Refresh, Loop
<1>4. FilesOK' /\ Held' /\ OneTorn' /\ PanicsOnlyIfInterrupted'
  BY <1>3, FilesKept DEF QemuInv, TypeOK, PanicsOnlyIfInterrupted, ghosts
<1>5. Iteration'
  <2>1. todo' # {} => power' \in Powers
    BY DEF Refresh, Loop
  <2> QED BY <1>3, <2>1, QemuExporterAssumption DEF Refresh, Loop, Iteration
<1> QED BY <1>1, <1>2, <1>4, <1>5, PartsNext

\* A machine that is skipped changes no file.
LEMMA SkipVmKeeps == ASSUME QemuInv, NEW v \in Vm, SkipVm(v) PROVE QemuInv'
<1>1. TimerOK'
  BY TypeParts DEF QemuInv, SkipVm, TimerOK
<1>2. /\ MachinesOK' /\ pc' \in {"sleep", "add"}
      /\ pc' = "sleep" => todo' = {}
      /\ todo' # {} => power' \in Nat
  BY HandledKeeps DEF SkipVm
<1>3. FilesOK' /\ Held' /\ OneTorn' /\ PanicsOnlyIfInterrupted'
  BY <1>2, FilesKept DEF SkipVm, ghosts, QemuInv, TypeOK, PanicsOnlyIfInterrupted
<1>4. Iteration'
  BY <1>2 DEF Iteration
<1> QED BY <1>1, <1>2, <1>3, <1>4, PartsNext

\* A write that fails leaves a truncated file and is counted as interrupted.
LEMMA WriteFailsKeeps == ASSUME QemuInv, WriteFails PROVE QemuInv'
<1>1. TimerOK'
  BY TypeParts DEF QemuInv, WriteFails, TimerOK
<1>2. /\ MachinesOK' /\ pc' \in {"sleep", "add"}
      /\ pc' = "sleep" => todo' = {}
      /\ todo' # {} => power' \in Nat
  BY HandledKeeps DEF WriteFails
<1>3. FilesOK' /\ Held' /\ OneTorn' /\ PanicsOnlyIfInterrupted'
  BY <1>2, FilesKept DEF WriteFails, QemuInv, TypeOK
<1>4. Iteration'
  BY <1>2 DEF Iteration
<1> QED BY <1>1, <1>2, <1>3, <1>4, PartsNext

\* What is left when the process is gone.
LEMMA DieKeeps ==
  ASSUME QemuInv, Die, readable' = readable, lost' = lost,
         interrupted' \in BOOLEAN, panicked' \in BOOLEAN,
         interrupted \/ pc = "write" => interrupted',
         panicked' => interrupted'
  PROVE  QemuInv'
<1>1. TimerOK'
  BY TimerFacts DEF Die, TimerOK
<1>2. MachinesOK'
  BY DEF Die, MachinesOK, NoShare
<1>3. FilesOK' /\ Held' /\ OneTorn' /\ PanicsOnlyIfInterrupted'
  BY FilesKept DEF Die
<1>4. Iteration'
  BY DEF Die, Iteration
<1> QED BY <1>1, <1>2, <1>3, <1>4, PartsNext

\* Truncating a file hides its number, which the write will not lower if it could be read.
LEMMA TruncateKeeps ==
  ASSUME QemuInv, NEW v \in Vm, NEW read \in BOOLEAN, Truncate(v, read) PROVE QemuInv'
<1> DEFINE n == guest[v]
           k == Content(n, uj_to_add(v), read)
<1>1. /\ v \in todo /\ n \in Name /\ pc' = "write" /\ pc = "add"
      /\ read => files[n] \notin {Absent, Torn}
      /\ writing' = [vm |-> v, number |-> k]
      /\ files' = [files EXCEPT ![n] = Torn]
      /\ lost' = IF read \/ files[n] = Absent THEN lost ELSE lost \cup {n}
      /\ UNCHANGED <<timer, power, share, records, todo, readable, interrupted, panicked>>
  BY QemuExporterAssumption DEF Truncate
<1>2. files[n] \in Nat \cup {Absent, Torn} /\ uj_to_add(v) \in Nat /\ readable[n] \in Nat
  BY <1>1, AddedNat DEF QemuInv, Held
<1>3. k \in Nat /\ (k >= readable[n] \/ (n \in lost' /\ k = 0))
  <2>1. CASE read
    BY <1>1, <1>2, <2>1, Markers DEF Content, QemuInv, Held
  <2>2. CASE ~read
    BY <1>1, <1>2, <2>2, Markers DEF Content, QemuInv, Held
  <2> QED BY <2>1, <2>2
<1> HIDE DEF k
<1>4. /\ writing'.vm = v /\ writing'.number \in Nat /\ lost' \subseteq Name
      /\ writing'.number >= readable[n] \/ (n \in lost' /\ writing'.number = 0)
  <2>1. lost \subseteq Name
    BY DEF QemuInv, TypeOK
  <2> QED BY <1>1, <1>3, <2>1
<1>5. Held'
  BY <1>1, Markers DEF QemuInv, Held
<1>6. TimerOK' /\ MachinesOK'
  BY <1>1, TypeParts DEF QemuInv, TimerOK, MachinesOK
<1>7. files'[n] = Torn
  BY <1>1 DEF QemuInv, Held
<1>8. FilesOK'
  BY <1>1, <1>4, <1>5, <1>7, TypeParts DEF QemuInv, FilesOK, Held
<1>9. Iteration'
  BY <1>1, <1>4 DEF QemuInv, Iteration
<1>10. OneTorn' /\ PanicsOnlyIfInterrupted'
  BY <1>1, <1>4 DEF QemuInv, OneTorn, PanicsOnlyIfInterrupted, Held
<1> QED BY <1>5, <1>6, <1>8, <1>9, <1>10, PartsNext

\* A write shows the number.
LEMMA WriteKeeps == ASSUME QemuInv, Write PROVE QemuInv'
<1> DEFINE n == guest[writing.vm]
<1>1. /\ pc = "write" /\ writing.vm \in Vm /\ writing.number \in Nat /\ n \in Name
      /\ files' = [files EXCEPT ![n] = writing.number]
      /\ readable' = [readable EXCEPT ![n] = writing.number]
      /\ Handled(writing.vm)
      /\ UNCHANGED <<timer, records, lost, interrupted, panicked>>
  BY QemuExporterAssumption DEF Write, QemuInv, Iteration
<1>2. TimerOK'
  BY <1>1, TypeParts DEF QemuInv, TimerOK
<1>3. /\ MachinesOK' /\ pc' \in {"sleep", "add"}
      /\ pc' = "sleep" => todo' = {}
      /\ todo' # {} => power' \in Nat
  BY <1>1, HandledKeeps
<1>4. Held'
  BY <1>1, Markers DEF QemuInv, Held
<1>5. FilesOK'
  BY <1>1, <1>3, <1>4, TypeParts DEF QemuInv, FilesOK, Held
<1>6. Iteration'
  BY <1>3 DEF Iteration
<1>7. OneTorn' /\ PanicsOnlyIfInterrupted'
  BY <1>1, Markers DEF QemuInv, OneTorn, PanicsOnlyIfInterrupted, Held
<1> QED BY <1>2, <1>3, <1>4, <1>5, <1>6, <1>7, PartsNext

\* Sleeping lowers the timer.
LEMMA SleepKeeps == ASSUME QemuInv, Sleep PROVE QemuInv'
<1>1. TimerOK'
  BY TimerFacts, TypeParts DEF QemuInv, Sleep, TimerOK
<1>2. todo = {} /\ todo' = {}
  BY DEF QemuInv, Iteration, Sleep
<1>3. MachinesOK'
  BY <1>2, TypeParts DEF QemuInv, Sleep, MachinesOK, NoShare
<1>4. FilesOK' /\ Held' /\ OneTorn' /\ PanicsOnlyIfInterrupted'
  BY FilesKept DEF Sleep, ghosts, QemuInv, TypeOK, PanicsOnlyIfInterrupted
<1>5. Iteration'
  BY <1>2 DEF Sleep, Iteration
<1> QED BY <1>1, <1>3, <1>4, <1>5, PartsNext

\* Every step keeps the invariant.
LEMMA QemuStep == QemuInv /\ [Next]_vars => QemuInv'
<1> SUFFICES ASSUME QemuInv, [Next]_vars PROVE QemuInv'
  OBVIOUS
<1> USE DEF QemuInv, TypeOK, PanicsOnlyIfInterrupted
<1>1. ASSUME NEW p \in Powers \cup {None}, NEW s \in LegalShares, Refresh(p, s)
      PROVE  QemuInv'
  BY <1>1, RefreshKeeps
<1>2. ASSUME NEW v \in Vm, SkipVm(v) PROVE QemuInv'
  BY <1>2, SkipVmKeeps
<1>3. ASSUME NEW v \in Vm, NEW read \in BOOLEAN, Truncate(v, read) PROVE QemuInv'
  BY <1>3, TruncateKeeps
<1>4. ASSUME NEW v \in Vm, CreateDirPanics(v) PROVE QemuInv'
  BY <1>4, DieKeeps DEF CreateDirPanics, ghosts
<1>5. ASSUME NEW v \in Vm, ParsePanics(v) PROVE QemuInv'
  <2>1. guest[v] \in Name
    BY QemuExporterAssumption
  <2>2. interrupted
    BY <1>5, <2>1 DEF ParsePanics, OneTorn
  <2> QED BY <1>5, <2>2, DieKeeps DEF ParsePanics
<1>6. CASE Write
  BY <1>6, WriteKeeps
<1>7. CASE WriteFails
  BY <1>7, WriteFailsKeeps
<1>8. CASE Sleep
  BY <1>8, SleepKeeps
<1>9. CASE Kill
  BY <1>9, DieKeeps DEF Kill
<1>10. CASE Restart
  <2>1. TimerOK' /\ MachinesOK' /\ Iteration'
    BY <1>10 DEF Restart, TimerOK, MachinesOK, Iteration
  <2>2. FilesOK' /\ Held' /\ OneTorn' /\ PanicsOnlyIfInterrupted'
    BY <1>10, FilesKept DEF Restart, ghosts
  <2> QED BY <2>1, <2>2, PartsNext
<1>11. CASE UNCHANGED vars
  BY <1>11 DEF vars, Held, Iteration, OneTorn
<1> QED
  BY <1>1, <1>2, <1>3, <1>4, <1>5, <1>6, <1>7, <1>8, <1>9, <1>10, <1>11 DEF Next

-----------------------------------------------------------------------------
(***************************************************************************)
(* The theorems.                                                           *)
(***************************************************************************)

\* For any machines, names, usages and powers, the timer never falls below a step and no
\* number written is negative (qemu.rs 20-38, 114-131).
THEOREM QemuTypeAlways == Spec => []TypeOK
<1>1. QemuInv => TypeOK
  BY DEF QemuInv
<1> QED BY <1>1, QemuStart, QemuStep, PTL DEF Spec

\* For any machines, names, usages and powers, only an interrupted or failed write leaves
\* a file that the exporter cannot parse (qemu.rs 114-131).
THEOREM PanicsOnlyIfInterruptedAlways == Spec => []PanicsOnlyIfInterrupted
<1>1. QemuInv => PanicsOnlyIfInterrupted
  BY DEF QemuInv
<1> QED BY <1>1, QemuStart, QemuStep, PTL DEF Spec

\* Under the invariant the last number of a file is also the one it shows.
LEMMA NumberIsReadable ==
  /\ QemuInv => Number = readable
  /\ QemuInv' => Number' = readable'
<1>1. QemuInv => Number = readable
  BY DEF QemuInv, Held, Number, Shown
<1>2. QemuInv' => Number' = readable'
  BY DEF QemuInv, Held, Number, Shown
<1> QED BY <1>1, <1>2

\* A step that leaves the files alone changes no meter.
LEMMA MetersStutter ==
  ASSUME QemuInv, UNCHANGED <<files, readable, lost>>
  PROVE  UNCHANGED <<Number, Hidden, lost>>
BY DEF Number, Hidden, Shown

\* Truncating a file hides a meter, or keeps it hidden; its number may be lost.
LEMMA TruncateHides ==
  ASSUME QemuInv, QemuInv', NEW v \in Vm, NEW read \in BOOLEAN, Truncate(v, read)
  PROVE  Meters!Next
<1> DEFINE n == guest[v]
<1>1. /\ n \in Name /\ files' = [files EXCEPT ![n] = Torn] /\ readable' = readable
      /\ lost' \in {lost, lost \cup {n}}
  BY QemuExporterAssumption DEF Truncate
<1>2. Number' = Number
  BY <1>1, NumberIsReadable
<1>3. \A m \in Name : files'[m] = IF m = n THEN Torn ELSE files[m]
  BY <1>1 DEF QemuInv, Held
<1>4. Hidden' = Hidden \cup {n}
  BY <1>1, <1>3 DEF Hidden, Shown
<1> QED BY <1>1, <1>2, <1>4 DEF Meters!Next, Meters!Hide

\* A write shows a meter, with a number not smaller than before, or zero if it was lost.
LEMMA WriteShows ==
  ASSUME QemuInv, QemuInv', Write PROVE Meters!Next
<1> DEFINE n == guest[writing.vm]
           k == writing.number
<1>1. /\ n \in Name /\ files[n] = Torn /\ k \in Nat /\ lost' = lost
      /\ k >= readable[n] \/ (n \in lost /\ k = 0)
      /\ files' = [files EXCEPT ![n] = k]
      /\ readable' = [readable EXCEPT ![n] = k]
  BY QemuExporterAssumption DEF Write, QemuInv, TypeOK, Iteration
<1>2. \A m \in Name : files'[m] = IF m = n THEN k ELSE files[m]
  BY <1>1 DEF QemuInv, Held
<1>3. k \notin {Absent, Torn}
  BY <1>1, Markers
<1>4. n \in Hidden /\ Hidden' = Hidden \ {n}
  BY <1>1, <1>2, <1>3 DEF Hidden, Shown
<1>5. Number = readable /\ Number' = readable'
  BY NumberIsReadable
<1>6. readable'[n] = k
  BY <1>1 DEF QemuInv, Held
<1>7. Meters!Show(n)
  BY <1>1, <1>4, <1>5, <1>6 DEF Meters!Show
<1> QED BY <1>1, <1>7 DEF Meters!Next

\* Every step of the exporter is a step of the meters or changes none.
LEMMA MetersStep ==
  QemuInv /\ QemuInv' /\ [Next]_vars => [Meters!Next]_<<Number, Hidden, lost>>
<1> SUFFICES ASSUME QemuInv, QemuInv', [Next]_vars PROVE [Meters!Next]_<<Number, Hidden, lost>>
  OBVIOUS
<1>1. ASSUME NEW v \in Vm, NEW read \in BOOLEAN, Truncate(v, read)
      PROVE  [Meters!Next]_<<Number, Hidden, lost>>
  BY <1>1, TruncateHides
<1>2. CASE Write
  BY <1>2, WriteShows
<1>3. CASE UNCHANGED <<files, readable, lost>>
  BY <1>3, MetersStutter
<1> QED BY <1>1, <1>2, <1>3
        DEF Next, Refresh, SkipVm, CreateDirPanics, ParsePanics, WriteFails, Sleep, Kill,
            Restart, Die, ghosts, vars

\* For any machines, names, usages and powers, the files behave like energy meters to the
\* guests that read them: the exporter implements EnergyMeter, through failed reads and
\* writes, kills and restarts (qemu.rs 114-131).
THEOREM ImplementsMeters == Spec => MetersSpec
<1>1. Init => Meters!Init
  <2> SUFFICES ASSUME Init PROVE Meters!Init
    OBVIOUS
  <2>1. Number = readable
    BY QemuStart, NumberIsReadable
  <2>2. Hidden = Name
    BY DEF Init, Hidden, Shown
  <2> QED BY <2>1, <2>2 DEF Init, Meters!Init
<1>2. QemuInv /\ QemuInv' /\ [Next]_vars => [Meters!Next]_<<Number, Hidden, lost>>
  BY MetersStep
<1> QED BY <1>1, <1>2, QemuStart, QemuStep, PTL DEF Spec, MetersSpec, Meters!Spec

-----------------------------------------------------------------------------
(***************************************************************************)
(* No energy is counted twice.                                             *)
(***************************************************************************)

\* What each machine is charged in this iteration.
Added == [v \in Vm |-> uj_to_add(v)]

\* The files and what is still to be added to them stay within what was measured, and
\* the number being written adds no more than the machine's share.
Budget ==
  /\ measured \in Nat
  /\ Sum(readable, Name) + Sum(Added, todo) <= measured
  /\ pc = "write" => /\ writing.vm \in todo
                     /\ writing.number <= readable[guest[writing.vm]] + uj_to_add(writing.vm)

\* The sums of the budget are of natural numbers over finite sets.
BudgetTerms ==
  /\ Sum(readable, Name) \in Nat
  /\ IsFiniteSet(todo) /\ todo \subseteq Vm /\ Sum(Added, todo) \in Nat
  /\ \A v \in todo : Added[v] = uj_to_add(v) /\ Added[v] \in Nat
  /\ \A n \in Name : readable[n] \in Nat

\* The invariant gives the sums their type, before and after a step.
LEMMA BudgetTyped == (QemuInv => BudgetTerms) /\ (QemuInv' => BudgetTerms')
<1>1. QemuInv => BudgetTerms
  <2> SUFFICES ASSUME QemuInv PROVE BudgetTerms
    OBVIOUS
  <2>1. IsFiniteSet(Name) /\ IsFiniteSet(Vm)
    BY QemuExporterAssumption
  <2>2. todo \subseteq Vm
    BY DEF QemuInv, TypeOK
  <2>3. IsFiniteSet(todo)
    BY <2>1, <2>2, FS_Subset
  <2>4. \A v \in todo : Added[v] = uj_to_add(v) /\ Added[v] \in Nat
    BY AddedNat DEF Added
  <2>5. \A n \in Name : readable[n] \in Nat
    BY DEF QemuInv, Held
  <2>6. Sum(Added, todo) \in Nat
    BY <2>3, <2>4, SumSubset
  <2>7. Sum(readable, Name) \in Nat
    BY <2>1, <2>5, SumSubset
  <2> QED BY <2>2, <2>3, <2>4, <2>5, <2>6, <2>7 DEF BudgetTerms
<1>2. QemuInv' => BudgetTerms'
  BY <1>1, PTL
<1> QED BY <1>1, <1>2

\* The usages of the machines, as a function.
Usage(s) == [v \in Vm |-> IF s[v] = Off THEN 0 ELSE s[v]]

\* LegalShares bounds the sum of the usages.
LEMMA LegalUsage ==
  ASSUME NEW s \in LegalShares
  PROVE  /\ \A v \in Vm : Usage(s)[v] \in Nat
         /\ Sum(Usage(s), Vm) <= 100
<1> DEFINE P(g) == g = [t \in SUBSET Vm |-> IF t = {} THEN 0
                          ELSE (IF s[CHOOSE x \in t : TRUE] = Off THEN 0
                                ELSE s[CHOOSE x \in t : TRUE])
                               + g[t \ {CHOOSE x \in t : TRUE}]]
           c == CHOOSE g : P(g)
           u == Usage(s)
<1>1. IsFiniteSet(Vm)
  BY QemuExporterAssumption
<1>2. c[Vm] <= 100
  BY DEF LegalShares, MapThenSumSet, MapThenFoldSet
<1>3. \A g : P(g) <=> SumsOn(g, u, SUBSET Vm)
  <2> SUFFICES ASSUME NEW g PROVE P(g) <=> SumsOn(g, u, SUBSET Vm)
    OBVIOUS
  <2>1. \A t \in SUBSET Vm : t # {} =>
          u[Some(t)] = IF s[CHOOSE x \in t : TRUE] = Off THEN 0 ELSE s[CHOOSE x \in t : TRUE]
    BY SomeOf DEF Usage, Some
  <2>2. [t \in SUBSET Vm |-> IF t = {} THEN 0 ELSE u[Some(t)] + g[t \ {Some(t)}]]
        = [t \in SUBSET Vm |-> IF t = {} THEN 0
             ELSE (IF s[CHOOSE x \in t : TRUE] = Off THEN 0 ELSE s[CHOOSE x \in t : TRUE])
                  + g[t \ {CHOOSE x \in t : TRUE}]]
    <3> HIDE DEF u
    <3> QED BY <2>1 DEF Some
  <2> QED BY <2>2 DEF SumsOn
<1>4. PICK g : SumsOn(g, u, SUBSET Vm) /\ Sum(u, Vm) = g[Vm]
  BY <1>1, SumIsSolution
<1>5. P(c)
  <2>1. P(g)
    BY <1>3, <1>4
  <2> HIDE DEF P
  <2> QED BY <2>1
<1>6. SumsOn(c, u, SUBSET Vm)
  <2> HIDE DEF P, c, u
  <2> QED BY <1>3, <1>5
<1>7. c[Vm] = g[Vm]
  <2> HIDE DEF c, u
  <2> QED BY <1>1, <1>4, <1>6, SumsAgree
<1>8. \A v \in Vm : u[v] \in Nat
  <2>1. \A v \in Vm : s[v] \in Shares \cup {Off}
    BY DEF LegalShares
  <2>2. \A x \in Shares : x \in Nat
    <3>1. \A x \in 0 .. 100 : x \in Nat
      OBVIOUS
    <3> QED BY <3>1, QemuExporterAssumption, Zenon
  <2> QED BY <2>1, <2>2 DEF Usage
<1> QED BY <1>2, <1>4, <1>7, <1>8

\* A refresh charges the machines no more than the power measured for the host.
LEMMA RefreshBudget ==
  ASSUME QemuInv, QemuInv', Budget, NEW p \in Powers \cup {None},
         NEW s \in LegalShares, Refresh(p, s)
  PROVE  Budget'
<1> DEFINE u == Usage(s)
           T == todo'
           A == Added'
           d == IF p = None THEN 0 ELSE p
<1>1. readable' = readable /\ measured' = measured + d /\ pc' # "write"
  BY DEF Refresh, Loop, ghosts
<1>2. todo = {} /\ Sum(Added, todo) = 0
  BY SumEmpty DEF QemuInv, Iteration, Refresh
<1>3. d \in Nat /\ measured \in Nat /\ measured' \in Nat /\ measured' = measured + d
  BY <1>1, QemuExporterAssumption DEF Budget
<1> HIDE DEF d
<1>4. Sum(readable, Name) \in Nat /\ Sum(readable, Name) <= measured
  BY <1>2, <1>3, BudgetTyped DEF Budget, BudgetTerms
<1>5. /\ IsFiniteSet(T) /\ T \subseteq Vm /\ Sum(A, T) \in Nat
      /\ \A v \in T : v \in Vm /\ A[v] = uj_to_add(v)' /\ A[v] \in Nat
  BY BudgetTyped DEF BudgetTerms
<1>6. CASE T = {}
  BY <1>1, <1>3, <1>4, <1>6, SumEmpty DEF Budget
<1>7. CASE T # {}
  <2>1. p \in Nat /\ d = p
    BY <1>7, QemuExporterAssumption DEF Refresh, None, d
  <2>2. \A v \in T : u[v] \in Nat /\ u[v] = s[v]
    BY <1>5, LegalUsage DEF Usage, Refresh
  <2>3. \A v \in T : A[v] = (s[v] * p) \div 100
    <3>1. power' = p /\ share' = s
      BY <1>7 DEF Refresh, Loop
    <3> QED BY <1>5, <3>1 DEF uj_to_add
  <2>4. \A v \in T : A[v] \in Int /\ u[v] \in Int /\ 100 * A[v] <= p * u[v]
    <3>1. \A k \in Nat : 100 * (k \div 100) <= k
      OBVIOUS
    <3>2. ASSUME NEW v \in T PROVE 100 * A[v] <= p * u[v]
      <4>1. u[v] * p \in Nat /\ u[v] * p = p * u[v]
        BY <2>1, <2>2
      <4>2. A[v] = (u[v] * p) \div 100
        BY <2>2, <2>3
      <4> HIDE DEF A, u, T
      <4> QED BY <3>1, <4>1, <4>2
    <3> QED BY <1>5, <2>2, <3>2
  <2>5. 100 * Sum(A, T) <= p * Sum(u, T)
    <3>1. 100 \in Int /\ p \in Int
      BY <2>1
    <3> HIDE DEF A, T, u
    <3> QED BY <1>5, <2>4, <3>1, SumScaled
  <2>6. Sum(u, T) \in Nat /\ Sum(u, T) <= 100
    <3>1. IsFiniteSet(Vm) /\ T \in SUBSET Vm
      BY <1>5, QemuExporterAssumption
    <3>2. (\A v \in Vm : u[v] \in Nat) /\ Sum(u, Vm) <= 100
      BY LegalUsage
    <3>3. Sum(u, Vm) \in Nat /\ Sum(u, T) \in Nat /\ Sum(u, T) <= Sum(u, Vm)
      <4> HIDE DEF u, T
      <4> QED BY <3>1, <3>2, SumSubset
    <3> HIDE DEF u, T
    <3> QED BY <3>2, <3>3
  <2>7. p * Sum(u, T) <= p * 100
    <3>1. \A i, j, k \in Nat : j <= k => i * j <= i * k
      OBVIOUS
    <3> HIDE DEF u, T
    <3> QED BY <2>1, <2>6, <3>1
  <2>8. Sum(A, T) <= p
    <3>1. p * Sum(u, T) \in Int
      BY <2>1, <2>6
    <3> HIDE DEF u, T, A
    <3> QED BY <1>5, <2>1, <2>5, <2>7, <3>1
  <2>9. Sum(readable, Name) + Sum(A, T) <= measured'
    <3> HIDE DEF T, A
    <3> QED BY <1>3, <1>4, <1>5, <2>1, <2>8
  <2> QED BY <1>1, <1>3, <2>9 DEF Budget
<1> QED BY <1>6, <1>7

\* Steps that write nothing leave less to be added.
LEMMA ShrinkBudget ==
  ASSUME QemuInv, QemuInv', Budget, UNCHANGED <<readable, measured>>, todo' \subseteq todo,
         todo' # {} => UNCHANGED <<power, share>>, pc' # "write"
  PROVE  Budget'
<1>1. BudgetTerms /\ BudgetTerms'
  BY BudgetTyped
<1>2. Sum(Added', todo') <= Sum(Added, todo)
  <2>1. CASE todo' = {}
    BY <1>1, <2>1, SumEmpty DEF BudgetTerms
  <2>2. CASE todo' # {}
    <3>1. Added' = Added
      BY <2>2 DEF Added, uj_to_add
    <3> QED BY <1>1, <3>1, SumSubset DEF BudgetTerms
  <2> QED BY <2>1, <2>2
<1>3. Sum(readable, Name) + Sum(Added', todo') <= measured
  BY <1>1, <1>2 DEF Budget, BudgetTerms
<1> QED BY <1>3 DEF Budget

\* The number to be written is the file's and the share of the machine.
LEMMA TruncateBudget ==
  ASSUME QemuInv, QemuInv', Budget, NEW v \in Vm, NEW read \in BOOLEAN, Truncate(v, read)
  PROVE  Budget'
<1> DEFINE n == guest[v]
<1>1. /\ v \in todo /\ n \in Name /\ (read => files[n] \notin {Absent, Torn})
      /\ writing' = [vm |-> v, number |-> Content(n, uj_to_add(v), read)]
      /\ UNCHANGED <<power, share, todo, measured, readable>>
  BY QemuExporterAssumption DEF Truncate
<1>2. Added' = Added /\ \A w : uj_to_add(w)' = uj_to_add(w)
  BY <1>1 DEF Added, uj_to_add
<1>3. uj_to_add(v) \in Nat /\ (read => files[n] \in Nat) /\ readable[n] \in Nat
  <2>1. files[n] \in Nat \cup {Absent, Torn} /\ readable[n] \in Nat
    BY <1>1 DEF QemuInv, Held
  <2> QED BY <1>1, <2>1, AddedNat
<1>4. Content(n, uj_to_add(v), read) <= readable[n] + uj_to_add(v)
  BY <1>1, <1>3, Markers DEF Content, QemuInv, Held
<1>5. writing'.vm = v /\ writing'.number <= readable[n] + uj_to_add(v)
  BY <1>1, <1>4
<1>6. writing'.vm \in todo'
  BY <1>1, <1>5
<1>7. readable'[guest[writing'.vm]] = readable[n] /\ uj_to_add(writing.vm)' = uj_to_add(v)
  BY <1>1, <1>5 DEF uj_to_add
<1> QED BY <1>1, <1>2, <1>5, <1>6, <1>7 DEF Budget

\* A write moves the share of a machine from what is owed to its file.
LEMMA WriteBudget == ASSUME QemuInv, QemuInv', Budget, Write PROVE Budget'
<1> DEFINE v == writing.vm
           n == guest[v]
           k == writing.number
<1>1. /\ v \in todo /\ v \in Vm /\ n \in Name /\ k \in Nat
      /\ k <= readable[n] + uj_to_add(v)
      /\ readable' = [readable EXCEPT ![n] = k]
      /\ todo' = todo \ {v} /\ pc' # "write"
      /\ measured' = measured
      /\ todo' # {} => UNCHANGED <<power, share>>
  BY QemuExporterAssumption DEF Write, Handled, Loop, Budget, QemuInv, Iteration
<1>2. BudgetTerms /\ BudgetTerms'
  BY BudgetTyped
<1>3. Sum(Added', todo') = Sum(Added, todo \ {v})
  <2>1. CASE todo' = {}
    BY <1>1, <2>1, SumEmpty
  <2>2. CASE todo' # {}
    <3>1. Added' = Added
      BY <1>1, <2>2 DEF Added, uj_to_add
    <3> QED BY <1>1, <3>1
  <2> QED BY <2>1, <2>2
<1>4. Sum(Added, todo) = uj_to_add(v) + Sum(Added, todo \ {v})
  <2>1. \A x \in todo : Added[x] \in Int
    BY <1>2 DEF BudgetTerms
  <2> QED BY <1>1, <1>2, <2>1, SumRemove DEF BudgetTerms
<1>5. Sum(readable', Name) = Sum(readable, Name) + k - readable[n]
  <2>1. IsFiniteSet(Name)
    BY QemuExporterAssumption
  <2>2. \A m \in Name : readable'[m] = IF m = n THEN k ELSE readable[m]
    BY <1>1 DEF QemuInv, Held
  <2>3. \A m \in Name : readable[m] \in Int /\ readable'[m] \in Int
    BY <1>2 DEF BudgetTerms
  <2>4. \A m \in Name : m # n => readable'[m] = readable[m]
    BY <2>2
  <2>5. readable'[n] = k
    BY <1>1, <2>2
  <2>6. n \in Name
    BY <1>1
  <2>7. Sum(readable', Name) = Sum(readable, Name) + readable'[n] - readable[n]
    <3> HIDE DEF n, k
    <3> QED BY <2>1, <2>3, <2>4, <2>6, SumUpdate, Zenon
  <2> QED BY <2>5, <2>7
<1>6. uj_to_add(v) \in Nat /\ Sum(Added, todo \ {v}) \in Nat
      /\ Sum(readable, Name) \in Nat /\ readable[n] \in Nat
      /\ Sum(readable, Name) + Sum(Added, todo) <= measured /\ measured \in Nat
  BY <1>1, <1>2, <1>3 DEF Budget, BudgetTerms
<1>7. Sum(readable', Name) + Sum(Added', todo') <= measured'
  <2>1. Sum(Added', todo') = Sum(Added, todo \ {v}) /\ measured' = measured
    BY <1>1, <1>3
  <2> HIDE DEF v, n, k
  <2> QED BY <1>1, <1>4, <1>5, <1>6, <2>1
<1> QED BY <1>1, <1>7 DEF Budget

\* Every step keeps the budget.
LEMMA BudgetStep == QemuInv /\ QemuInv' /\ Budget /\ [Next]_vars => Budget'
<1> SUFFICES ASSUME QemuInv, QemuInv', Budget, [Next]_vars PROVE Budget'
  OBVIOUS
<1>1. ASSUME NEW p \in Powers \cup {None}, NEW s \in LegalShares, Refresh(p, s)
      PROVE  Budget'
  BY <1>1, RefreshBudget
<1>2. ASSUME NEW v \in Vm, SkipVm(v) PROVE Budget'
  BY <1>2, ShrinkBudget DEF SkipVm, Handled, Loop, ghosts
<1>3. ASSUME NEW v \in Vm, NEW read \in BOOLEAN, Truncate(v, read) PROVE Budget'
  BY <1>3, TruncateBudget
<1>4. ASSUME Die, readable' = readable PROVE Budget'
  BY <1>4, ShrinkBudget DEF Die
<1>5. CASE Write
  BY <1>5, WriteBudget
<1>6. CASE WriteFails
  BY <1>6, ShrinkBudget DEF WriteFails, Handled, Loop
<1>7. CASE Sleep
  <2>1. todo = {}
    BY <1>7 DEF Sleep, QemuInv, Iteration
  <2> QED BY <1>7, <2>1, ShrinkBudget DEF Sleep, ghosts
<1>8. CASE Restart
  BY <1>8, ShrinkBudget DEF Restart, ghosts
<1>9. CASE UNCHANGED vars
  <2>1. Added' = Added /\ \A v : uj_to_add(v)' = uj_to_add(v)
    BY <1>9 DEF vars, Added, uj_to_add
  <2> QED BY <1>9, <2>1 DEF vars, Budget
<1> QED BY <1>1, <1>2, <1>3, <1>4, <1>5, <1>6, <1>7, <1>8, <1>9
        DEF Next, CreateDirPanics, ParsePanics, Kill, ghosts

\* The budget holds initially.
LEMMA BudgetStart == Init => Budget
<1> SUFFICES ASSUME Init PROVE Budget
  OBVIOUS
<1>1. Sum(Added, todo) = 0
  BY SumEmpty DEF Init
<1>2. Sum(readable, Name) <= 0
  <2>1. IsFiniteSet(Name) /\ 1 \in Int /\ 0 \in Int
    BY QemuExporterAssumption
  <2>2. \A n \in Name : readable[n] = 0
    BY DEF Init
  <2>3. \A n \in Name : readable[n] \in Int /\ 1 * readable[n] <= 0 * readable[n]
    BY <2>2
  <2>4. 1 * Sum(readable, Name) <= 0 * Sum(readable, Name)
    BY <2>1, <2>3, SumScaled, Zenon
  <2>5. Sum(readable, Name) \in Int
    BY <2>1, <2>3, SumInt
  <2> QED BY <2>4, <2>5
<1>3. Sum(readable, Name) \in Nat
  BY QemuStart, BudgetTyped DEF BudgetTerms
<1> QED BY <1>1, <1>2, <1>3 DEF Init, Budget

\* For any machines, names, usages and powers, the numbers of all files together never
\* exceed the sum of the powers measured for the host, through failed reads and writes,
\* kills and restarts and whatever machines share a file (qemu.rs 55-99, 114-131).
THEOREM NoOverCountAlways == Spec => []NoOverCount
<1>1. QemuInv /\ Budget => NoOverCount
  <2> SUFFICES ASSUME QemuInv, Budget PROVE NoOverCount
    OBVIOUS
  <2>1. Sum(readable, Name) \in Nat /\ Sum(Added, todo) \in Nat
    BY BudgetTyped DEF BudgetTerms
  <2>2. Sum(readable, Name) <= measured
    BY <2>1 DEF Budget
  <2> QED BY <2>2 DEF NoOverCount, Sum
<1> QED BY <1>1, QemuStart, QemuStep, BudgetStart, BudgetStep, PTL DEF Spec

-----------------------------------------------------------------------------
(***************************************************************************)
(* The guest.                                                              *)
(***************************************************************************)

\* What the guest has derived for its socket, and its newest record, are within the
\* last number of the file.
SocketKnown ==
  /\ counted.socket \in Nat /\ counted.socket <= readable[reader]
  /\ socket_record \in Nat \cup {NoRecord, Torn}
  /\ socket_record \in Nat =>
       counted.socket <= socket_record /\ socket_record <= readable[reader]

\* The newest total of the guest's host.
HostTotal == IF host_record = NoRecord THEN 0 ELSE host_record

\* What the guest has derived for its host is within its newest total and one counter
\* for each reading that found no number.
HostKnown ==
  /\ counted.host \in Nat /\ misread \in Nat
  /\ host_record \in Nat \cup {NoRecord}
  /\ HostTotal <= readable[reader]
  /\ counted.host <= HostTotal + misread * readable[reader]

\* The file could be read each time it was there.
Whole == reader \notin lost

GuestInv ==
  /\ QemuInv
  /\ counted = [socket |-> counted.socket, host |-> counted.host]
  /\ Whole => SocketKnown /\ HostKnown

\* The exporter never lowers the number that a file it could read last held.
LEMMA ReadableGrows ==
  ASSUME QemuInv, [Next]_vars, NEW n \in Name, n \notin lost
  PROVE  readable'[n] \in Nat /\ readable[n] \in Nat /\ readable'[n] >= readable[n]
<1>1. readable[n] \in Nat /\ readable \in [Name -> Nat]
  BY DEF QemuInv, Held
<1>2. CASE Write
  <2> DEFINE m == guest[writing.vm]
             k == writing.number
  <2>1. /\ m \in Name /\ k \in Nat /\ (k >= readable[m] \/ m # n)
        /\ readable' = [readable EXCEPT ![m] = k]
    BY <1>2, QemuExporterAssumption DEF Write, QemuInv, Iteration
  <2> QED BY <1>1, <2>1
<1>3. CASE readable' = readable
  BY <1>1, <1>3
<1> QED BY <1>2, <1>3
        DEF Next, Refresh, SkipVm, Truncate, CreateDirPanics, ParsePanics, WriteFails, Sleep,
            Kill, Restart, Die, ghosts, vars

\* A file that could not be read stays marked.
LEMMA LostStays ==
  ASSUME QemuInv, [Next]_vars PROVE Whole' => Whole
BY DEF Whole, Next, Refresh, SkipVm, Truncate, CreateDirPanics, ParsePanics, Write, WriteFails,
       Sleep, Kill, Restart, Die, ghosts, vars

\* A larger counter gives more room.
LEMMA MoreRoom ==
  ASSUME NEW t \in Nat, NEW m \in Nat, NEW r \in Nat, NEW s \in Nat, r <= s
  PROVE  m * r \in Nat /\ m * s \in Nat /\ m * r <= m * s /\ (m + 1) * r = m * r + r
OBVIOUS

\* Steps of the exporter only raise the number.
LEMMA ExporterKeepsGuest ==
  ASSUME GuestInv, [Next]_vars, UNCHANGED guestVars PROVE GuestInv'
<1>1. QemuInv'
  BY QemuStep DEF GuestInv
<1> SUFFICES ASSUME Whole' PROVE SocketKnown' /\ HostKnown'
  BY <1>1 DEF GuestInv, guestVars
<1> USE LostStays DEF GuestInv
<1>2. readable'[reader] \in Nat /\ readable[reader] \in Nat
      /\ readable'[reader] >= readable[reader]
  BY ReadableGrows, QemuGuestAssumption DEF Whole
<1>3. SocketKnown'
  BY <1>2 DEF GuestInv, SocketKnown, guestVars
<1>4. HostKnown'
  <2>1. HostTotal' = HostTotal /\ HostTotal \in Nat
    BY DEF HostTotal, guestVars, GuestInv, HostKnown
  <2>2. misread * readable[reader] \in Nat /\ misread * readable'[reader] \in Nat
        /\ misread * readable[reader] <= misread * readable'[reader]
    BY <1>2, MoreRoom DEF GuestInv, HostKnown
  <2>3. HostTotal <= readable'[reader]
    BY <1>2, <2>1 DEF GuestInv, HostKnown
  <2>4. counted.host <= HostTotal + misread * readable'[reader]
    BY <2>1, <2>2 DEF GuestInv, HostKnown
  <2> QED BY <2>1, <2>3, <2>4 DEF GuestInv, HostKnown, guestVars
<1> QED BY <1>3, <1>4

\* The text of the file is a number exactly if it is the number last written.
LEMMA FileIsReadable ==
  ASSUME QemuInv
  PROVE  /\ readable[reader] \in Nat
         /\ files[reader] \in Nat \cup {Absent, Torn}
         /\ IsNumber(files[reader]) <=> files[reader] \in Nat
         /\ files[reader] \in Nat => files[reader] = readable[reader]
<1>1. /\ readable[reader] \in Nat
      /\ files[reader] \in Nat \cup {Absent, Torn}
      /\ files[reader] \in Nat => files[reader] = readable[reader]
  BY QemuGuestAssumption DEF QemuInv, Held
<1> QED BY <1>1 DEF IsNumber, NoRecord, Absent, Torn

\* Reading for the socket.
LEMMA GuestReadSocketKeeps ==
  ASSUME GuestInv, GuestReadSocket, UNCHANGED vars PROVE GuestInv'
<1> DEFINE r == readable[reader]
           f == files[reader]
<1>1. QemuInv' /\ readable' = readable /\ Whole' = Whole
  BY QemuStep DEF GuestInv, Whole, vars
<1>0. counted' = [socket |-> counted'.socket, host |-> counted'.host]
  BY DEF GuestInv, GuestReadSocket
<1> SUFFICES ASSUME Whole PROVE SocketKnown' /\ HostKnown'
  BY <1>0, <1>1 DEF GuestInv
<1>2. /\ r \in Nat /\ f \in Nat \cup {Absent, Torn}
      /\ IsNumber(f) <=> f \in Nat
      /\ f \in Nat => f = r
  BY FileIsReadable DEF GuestInv
<1>3. HostKnown'
  <2>1. counted'.host = counted.host /\ UNCHANGED <<host_record, misread>>
    BY DEF GuestReadSocket, GuestInv
  <2> QED BY <1>1, <2>1 DEF GuestInv, HostKnown, HostTotal
<1>4. CASE f = Absent
  BY <1>1, <1>3, <1>4 DEF GuestInv, SocketKnown, GuestReadSocket
<1>5. CASE f # Absent
  <2>1. /\ socket_record' = f
        /\ counted' = [counted EXCEPT !.socket = @ + SocketEnergy(socket_record, f)]
    BY <1>5 DEF GuestReadSocket
  <2>2. /\ counted.socket \in Nat /\ counted.socket <= r
        /\ socket_record \in Nat => counted.socket <= socket_record /\ socket_record <= r
        /\ socket_record \in Nat \cup {NoRecord, Torn}
    BY DEF GuestInv, SocketKnown
  <2>3. counted'.socket = counted.socket + SocketEnergy(socket_record, f)
        /\ counted' = [socket |-> counted'.socket, host |-> counted'.host]
    BY <2>1 DEF GuestInv
  <2>4. counted'.socket \in Nat /\ counted'.socket <= r
    <3>1. CASE ~IsNumber(socket_record) \/ ~IsNumber(f)
      BY <2>2, <2>3, <3>1 DEF SocketEnergy
    <3>2. CASE IsNumber(socket_record) /\ IsNumber(f)
      <4>1. socket_record \in Nat /\ f = r /\ f \in Nat
        BY <1>2, <2>2, <3>2 DEF IsNumber
      <4>2. SocketEnergy(socket_record, f) = f - socket_record
        BY <2>2, <3>2, <4>1 DEF SocketEnergy
      <4> QED BY <2>2, <2>3, <4>1, <4>2
    <3> QED BY <3>1, <3>2
  <2>5. SocketKnown'
    BY <1>1, <1>2, <1>5, <2>1, <2>4 DEF SocketKnown
  <2> QED BY <1>1, <1>3, <2>3, <2>5 DEF GuestInv
<1> QED BY <1>4, <1>5

\* Reading for the host.
LEMMA GuestReadHostKeeps ==
  ASSUME GuestInv, GuestReadHost, UNCHANGED vars PROVE GuestInv'
<1> DEFINE r == readable[reader]
           f == files[reader]
           t == IF IsNumber(f) THEN f ELSE 0
<1>1. QemuInv' /\ readable' = readable /\ Whole' = Whole
  BY QemuStep DEF GuestInv, Whole, vars
<1>0. counted' = [socket |-> counted'.socket, host |-> counted'.host]
  BY DEF GuestInv, GuestReadHost
<1> SUFFICES ASSUME Whole PROVE SocketKnown' /\ HostKnown'
  BY <1>0, <1>1 DEF GuestInv
<1>2. /\ r \in Nat /\ f \in Nat \cup {Absent, Torn}
      /\ IsNumber(f) <=> f \in Nat
      /\ f \in Nat => f = r
  BY FileIsReadable DEF GuestInv
<1>3. /\ host_record' = t
      /\ counted' = [counted EXCEPT !.host = @ + HostEnergy(host_record, t)]
      /\ misread' = IF IsNumber(f) THEN misread ELSE misread + 1
      /\ socket_record' = socket_record
  BY DEF GuestReadHost
<1>4. counted'.host = counted.host + HostEnergy(host_record, t)
      /\ counted'.socket = counted.socket
      /\ counted' = [socket |-> counted'.socket, host |-> counted'.host]
  BY <1>3 DEF GuestInv
<1>5. SocketKnown'
  BY <1>1, <1>3, <1>4 DEF GuestInv, SocketKnown
<1>6. /\ counted.host \in Nat /\ misread \in Nat /\ HostTotal \in Nat /\ HostTotal <= r
      /\ counted.host <= HostTotal + misread * r
      /\ host_record \in Nat \cup {NoRecord}
      /\ host_record # NoRecord => HostTotal = host_record
      /\ misread * r \in Nat /\ (misread + 1) * r = misread * r + r
  BY <1>2, MoreRoom DEF GuestInv, HostKnown, HostTotal
<1>7. t \in Nat /\ HostTotal' = t /\ t <= r
  BY <1>2, <1>3 DEF HostTotal, NoRecord
<1>8. counted'.host \in Nat /\ counted'.host <= t + misread' * r /\ misread' \in Nat
  <2>1. CASE IsNumber(f)
    <3>1. t = r /\ misread' = misread
      BY <1>2, <1>3, <2>1
    <3>2. HostEnergy(host_record, t) \in Nat /\ HostEnergy(host_record, t) <= t - HostTotal
      <4>1. CASE host_record = NoRecord
        <5>1. HostEnergy(host_record, t) = 0
          BY <4>1 DEF HostEnergy
        <5> HIDE DEF t, f, r
        <5> QED BY <1>6, <1>7, <3>1, <5>1
      <4>2. CASE host_record # NoRecord
        <5>1. host_record \in Nat /\ host_record = HostTotal /\ host_record <= t
          BY <1>6, <3>1, <4>2
        <5>2. HostEnergy(host_record, t) = t - host_record
          BY <1>7, <4>2, <5>1 DEF HostEnergy
        <5> HIDE DEF t, f, r
        <5> QED BY <1>7, <5>1, <5>2
      <4> QED BY <4>1, <4>2
    <3> HIDE DEF t, f, r
    <3> QED BY <1>4, <1>6, <1>7, <3>1, <3>2
  <2>2. CASE ~IsNumber(f)
    <3>1. t = 0 /\ misread' = misread + 1
      BY <1>3, <2>2
    <3>2. HostEnergy(host_record, t) = 0
      BY <1>6, <3>1 DEF HostEnergy
    <3> HIDE DEF t, f, r
    <3> QED BY <1>2, <1>4, <1>6, <3>1, <3>2
  <2> QED BY <2>1, <2>2
<1>9. HostKnown'
  BY <1>1, <1>3, <1>7, <1>8 DEF HostKnown
<1> QED BY <1>1, <1>4, <1>5, <1>9 DEF GuestInv

\* As long as the exporter can read the file, for any machines and any interleaving of the
\* guest's readings with truncations, writes, kills and restarts of the exporter, the
\* guest derives no more for its socket than it is charged, and for its host at most one
\* counter more for each reading that found no number (qemu.rs 114-131,
\* mod.rs 1900-1944, 780-828, powercap_rapl.rs 112-123).
THEOREM GuestNotOverchargedAlways == GuestSpec => []GuestNotOvercharged
<1>1. GuestInit => GuestInv
  <2> SUFFICES ASSUME GuestInit PROVE GuestInv
    OBVIOUS
  <2>1. QemuInv
    BY QemuStart DEF GuestInit
  <2>2. readable[reader] = 0
    BY QemuGuestAssumption DEF GuestInit, Init
  <2> QED BY <2>1, <2>2 DEF GuestInit, GuestInv, SocketKnown, HostKnown, HostTotal, NoRecord
<1>2. GuestInv /\ [GuestNext]_<<vars, guestVars>> => GuestInv'
  <2> SUFFICES ASSUME GuestInv, [GuestNext]_<<vars, guestVars>> PROVE GuestInv'
    OBVIOUS
  <2>1. CASE [Next]_vars /\ UNCHANGED guestVars
    BY <2>1, ExporterKeepsGuest
  <2>2. CASE GuestReadSocket /\ UNCHANGED vars
    BY <2>2, GuestReadSocketKeeps
  <2>3. CASE GuestReadHost /\ UNCHANGED vars
    BY <2>3, GuestReadHostKeeps
  <2> QED BY <2>1, <2>2, <2>3 DEF GuestNext
<1>3. GuestInv => GuestNotOvercharged
  <2> SUFFICES ASSUME GuestInv, Whole
               PROVE  /\ counted.socket <= readable[reader]
                      /\ counted.host <= readable[reader] * (1 + misread)
    BY DEF GuestNotOvercharged, Whole
  <2>1. readable[reader] \in Nat
    BY FileIsReadable DEF GuestInv
  <2>2. /\ counted.host \in Nat /\ misread \in Nat /\ HostTotal \in Nat
        /\ HostTotal <= readable[reader]
        /\ counted.host <= HostTotal + misread * readable[reader]
    BY DEF GuestInv, HostKnown, HostTotal
  <2>3. misread * readable[reader] \in Nat
        /\ readable[reader] * (1 + misread) = misread * readable[reader] + readable[reader]
    BY <2>1, <2>2
  <2>4. counted.host <= readable[reader] * (1 + misread)
    BY <2>1, <2>2, <2>3
  <2> QED BY <2>4 DEF GuestInv, SocketKnown
<1> QED BY <1>1, <1>2, <1>3, PTL DEF GuestSpec

=============================================================================
