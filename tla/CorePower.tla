----------------------------- MODULE CorePower ------------------------------
(***************************************************************************)
(* How the power of a socket is split among its cores (CPUCore and         *)
(* CPUSocket in sensors/mod.rs).  A refresh first takes the line of every  *)
(* core from /proc/stat and panics if one is missing.  Then the cores are  *)
(* read one after the other: three registers through /dev/cpu/<id>/msr,    *)
(* each opened anew, /proc/stat and two perf counters, while the cores     *)
(* work and CPUs are put offline and online.  What cannot be read now is a *)
(* 0.                                                                      *)
(*                                                                         *)
(* A core's coefficient is (1 + ipc) * aperf * aperf / mperf, from the     *)
(* differences of its two newest records (RecordBuffer shows that the code *)
(* keeps at least these), and its power its part in the sum of the         *)
(* coefficients of its socket.                                             *)
(***************************************************************************)
EXTENDS Integers, Sequences, FiniteSets, FiniteSetsExt

CONSTANTS
  nb_cores,      \* cores of the socket
  Speed,         \* cycles of each core, relative to the reference clock
  MaxWork,       \* bound on the work of all cores, for model checking
  MaxRefreshes,  \* bound on the refreshes, for model checking
  MaxPlugs,      \* bound on CPUs going offline or online, for model checking
  MaxDrifts      \* bound on imprecise perf counters, for model checking

Core == 0 .. nb_cores - 1

ASSUME CorePowerAssumption ==
  /\ nb_cores \in Nat \ {0}
  /\ Speed \in [Core -> Nat \ {0}]
  /\ MaxWork \in Nat /\ MaxRefreshes \in Nat /\ MaxPlugs \in Nat /\ MaxDrifts \in Nat

Overestimate == 4   \* error of a count that is scaled up

VARIABLES
  work,           \* busy time of each core, as /proc/stat has it
  online,         \* CPUs that are online
  plugs, drifts,  \* how often CPUs were plugged and perf counters imprecise
  pc,             \* "wait", what is read next, or "panicked"
  core,           \* the core that is being read
  refreshes,      \* refreshes so far; the time stamp counter counts them
  partial,        \* the record that is being put together
  record_buffer   \* the two newest records of each core

core_vars == <<work, online, plugs, drifts, pc, core, refreshes, partial, record_buffer>>

environment == <<work, online, plugs, drifts>>

Blank == [mperf |-> 0, aperf |-> 0, tsc |-> 0, core_busy |-> 0, node_busy |-> 0,
          inst |-> 0, cyc |-> 0, online |-> {}, cameUp |-> FALSE, drifted |-> FALSE]

\* The cores have worked before the first refresh, one more than the other.
CoreInit ==
  /\ work = [c \in Core |-> c]
  /\ online = Core
  /\ plugs = 0 /\ drifts = 0
  /\ pc = "wait"
  /\ core = 0
  /\ refreshes = 0
  /\ partial = Blank
  /\ record_buffer = [c \in Core |-> <<>>]

-----------------------------------------------------------------------------
(***************************************************************************)
(* The machine.                                                            *)
(***************************************************************************)

\* What the first line of /proc/stat counts: all CPUs, also the ones offline now.
NodeBusy == MapThenSumSet(LAMBDA c : work[c], Core)

Work(c) ==
  /\ c \in online
  /\ NodeBusy < MaxWork
  /\ work' = [work EXCEPT ![c] = @ + 1]
  /\ UNCHANGED <<online, plugs, drifts, pc, core, refreshes, partial, record_buffer>>

Plug ==
  /\ plugs < MaxPlugs
  /\ plugs' = plugs + 1

Offline(c) ==
  /\ c \in online
  /\ online # {c}
  /\ Plug
  /\ online' = online \ {c}
  /\ UNCHANGED <<work, drifts, pc, core, refreshes, partial, record_buffer>>

Online(c) ==
  /\ c \notin online
  /\ Plug
  /\ online' = online \cup {c}
  /\ partial' = [partial EXCEPT !.cameUp = @ \/ (pc \in {"aperf", "tsc"} /\ core = c)]
  /\ UNCHANGED <<work, drifts, pc, core, refreshes, record_buffer>>

\* Reading a register interrupts the core, which therefore counts at least a cycle
\* between two readings.
Mperf(c) == work[c] + refreshes
Aperf(c) == Speed[c] * work[c] + refreshes

\* Two instructions a cycle.
Instructions(c) == 2 * work[c]

-----------------------------------------------------------------------------
(***************************************************************************)
(* Topology::refresh, and CPUCore::read_record in its steps.               *)
(***************************************************************************)

\* The cores are in the order add_cpu_cores has pushed them in: the last one first.
First == nb_cores - 1

refresh ==
  /\ pc = "wait"
  /\ refreshes < MaxRefreshes
  /\ core' = First
  /\ pc' = "stats"
  /\ UNCHANGED <<environment, refreshes, partial, record_buffer>>

\* ks.cpu_time: /proc/stat has a line for each CPU that is online, and the line of a core
\* is found by its position.
Line(c) == {d \in online : Cardinality({e \in online : e < d}) = c}

\* Each core reads /proc/stat for itself and removes its line from what it has read: with
\* a CPU offline there is none for the last core, and remove panics.
refresh_stats ==
  /\ pc = "stats"
  /\ \/ Line(core) = {} /\ pc' = "panicked" /\ UNCHANGED core
     \/ Line(core) # {} /\ core > 0 /\ core' = core - 1 /\ UNCHANGED pc
     \/ Line(core) # {} /\ core = 0 /\ pc' = "cores" /\ UNCHANGED core
  /\ UNCHANGED <<environment, refreshes, partial, record_buffer>>

refresh_core_idle_records ==
  /\ pc = "cores"
  /\ refreshes' = refreshes + 1
  /\ core' = First
  /\ partial' = Blank
  /\ pc' = "mperf"
  /\ UNCHANGED <<environment, record_buffer>>

\* The device of a CPU that is offline cannot be opened.
read_msr(value) == IF core \in online THEN value ELSE 0

ReadMperf ==
  /\ pc = "mperf"
  /\ partial' = [partial EXCEPT !.mperf = read_msr(Mperf(core))]
  /\ pc' = "aperf"
  /\ UNCHANGED <<environment, core, refreshes, record_buffer>>

ReadAperf ==
  /\ pc = "aperf"
  /\ partial' = [partial EXCEPT !.aperf = read_msr(Aperf(core))]
  /\ pc' = "tsc"
  /\ UNCHANGED <<environment, core, refreshes, record_buffer>>

ReadTsc ==
  /\ pc = "tsc"
  /\ partial' = [partial EXCEPT !.tsc = read_msr(refreshes)]
  /\ pc' = "stat"
  /\ UNCHANGED <<environment, core, refreshes, record_buffer>>

\* The two newest records.
Pushed(records, r) == IF records = <<>> THEN <<r>> ELSE <<records[Len(records)], r>>

\* What a perf counter may show: it may be multiplexed, so that its count is scaled up for
\* the time it was not counting and may be overestimated; or it cannot be read.
Shown(count) == {count, count + Overestimate, 0}

\* /proc/stat and the perf counters are read and the record is stored; get, unlike remove,
\* makes 0 of a missing line.
ReadStat(inst, cyc) ==
  LET line   == Line(core)
      record == [partial EXCEPT
                   !.core_busy = IF line = {} THEN 0 ELSE work[CHOOSE d \in line : TRUE],
                   !.node_busy = IF line = {} THEN 0 ELSE NodeBusy,
                   !.inst      = inst,
                   !.cyc       = cyc,
                   !.online    = online,
                   !.drifted   = inst # Instructions(core) \/ cyc # work[core]]
  IN  /\ pc = "stat"
      /\ record.drifted => drifts < MaxDrifts
      /\ drifts' = IF record.drifted THEN drifts + 1 ELSE drifts
      /\ record_buffer' = [record_buffer EXCEPT ![core] = Pushed(@, record)]
      /\ partial' = Blank
      /\ IF core = 0
         THEN pc' = "wait" /\ UNCHANGED core
         ELSE pc' = "mperf" /\ core' = core - 1
      /\ UNCHANGED <<work, online, plugs, refreshes>>

CoreNext ==
  \/ \E c \in Core : Work(c) \/ Offline(c) \/ Online(c)
  \/ refresh \/ refresh_stats \/ refresh_core_idle_records
  \/ ReadMperf \/ ReadAperf \/ ReadTsc
  \/ \E inst \in Shown(Instructions(core)), cyc \in Shown(work[core]) : ReadStat(inst, cyc)

CoreSpec == CoreInit /\ [][CoreNext]_core_vars

-----------------------------------------------------------------------------
(***************************************************************************)
(* The split.                                                              *)
(***************************************************************************)

saturating_sub(a, b) == IF a >= b THEN a - b ELSE 0

Previous(c) == record_buffer[c][1]
Newest(c)   == record_buffer[c][2]

\* get_core_metrics_delta; the perf counters are subtracted as floating-point numbers.
Delta(c) ==
  [mperf     |-> saturating_sub(Newest(c).mperf, Previous(c).mperf),
   aperf     |-> saturating_sub(Newest(c).aperf, Previous(c).aperf),
   tsc       |-> saturating_sub(Newest(c).tsc, Previous(c).tsc),
   core_busy |-> saturating_sub(Newest(c).core_busy, Previous(c).core_busy),
   node_busy |-> saturating_sub(Newest(c).node_busy, Previous(c).node_busy),
   inst      |-> Newest(c).inst - Previous(c).inst,
   cyc       |-> Newest(c).cyc - Previous(c).cyc]

Zero == [num |-> 0, den |-> 1]

Coefficient(d) ==
  IF d.cyc > 0 THEN [num |-> (d.cyc + d.inst) * d.aperf * d.aperf, den |-> d.cyc * d.mperf]
  ELSE [num |-> d.aperf * d.aperf, den |-> d.mperf]

\* Faulty variant: a core whose counters stood still is not left out.
get_core_coefs_all(c) == IF Len(record_buffer[c]) < 2 THEN Zero ELSE Coefficient(Delta(c))

\* The coefficient of core c as a fraction; with 0 below it is infinite or NaN.
get_core_coefs(c) ==
  IF Len(record_buffer[c]) < 2 THEN Zero
  ELSE IF Delta(c).tsc > 0 THEN Coefficient(Delta(c)) ELSE Zero

\* Faulty variant: the busy time of the core is not the one since the previous reading.
cpu_time_percentage_total(c) ==
  IF Len(record_buffer[c]) < 2 \/ Delta(c).node_busy = 0 THEN 0
  ELSE (100 * Newest(c).core_busy) \div Delta(c).node_busy

\* The part of core c in the busy time of all cores, per cent.
cpu_time_percentage(c) ==
  IF Len(record_buffer[c]) < 2 \/ Delta(c).node_busy = 0 THEN 0
  ELSE (100 * Delta(c).core_busy) \div Delta(c).node_busy

\* The coefficients, multiplied by their denominators: the power of core c is
\* Weight(c) / CpuWeight of the power of the socket.
Weight(c) ==
  get_core_coefs(c).num
    * MapThenFoldSet(LAMBDA a, b : a * b, 1, LAMBDA d : get_core_coefs(d).den,
                     LAMBDA S : CHOOSE d \in S : TRUE, Core \ {c})

CpuWeight == MapThenSumSet(Weight, Core)

\* What get_process_core_proportions falls back on without eBPF data, and what
\* get_all_per_process makes of it, for a process with all of the CPU time: its part in
\* the power of each core is the core's part in the busy time.
FallbackWeight == MapThenSumSet(LAMBDA c : Weight(c) * cpu_time_percentage(c), Core)

-----------------------------------------------------------------------------
(***************************************************************************)
(* Properties.                                                             *)
(***************************************************************************)

\* The cores have been read, twice at least.
Split == pc = "wait" /\ refreshes >= 2

\* After a refresh that has not panicked, a core that could not be read has not spoilt the
\* power of the others.  CPUs go offline after refresh_stats and come back, and the newest
\* record of a core may have zeros: the coefficients that the power is divided by are
\* numbers all the same, unless a CPU has come back between the readings of its registers
\* for the newest record; and none is negative, unless an imprecise count of instructions or
\* cycles is part of the two newest records (mod.rs 466-491, 2103-2116, 2233-2280).
SplitSound ==
  Split =>
    /\ (\A c \in Core : ~Newest(c).cameUp) => \A c \in Core : get_core_coefs(c).den > 0
    /\ (\A c \in Core : ~Previous(c).drifted /\ ~Newest(c).drifted)
         => \A c \in Core : get_core_coefs(c).num >= 0

\* Without eBPF data a process gets no more than the power of the socket, although cores
\* are read one after the other and their lines of /proc/stat found by position, if
\* the CPUs that are online are the same ones at the two newest readings of each core,
\* and the counts of instructions and cycles are precise (mod.rs 1139-1155, 2114-2134, 2256-2264).
FallbackBounded ==
  Split /\ (\A c \in Core : /\ Previous(c).online = Newest(c).online
                            /\ ~Previous(c).drifted /\ ~Newest(c).drifted)
    => FallbackWeight <= 100 * CpuWeight
=============================================================================
