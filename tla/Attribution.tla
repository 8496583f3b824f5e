---------------------------- MODULE Attribution ----------------------------
(***************************************************************************)
(* How busy time is attributed to processes: Topology::refresh reads the   *)
(* eBPF counters of the processes one by one and those of the CPUs after   *)
(* them, while all of them go on counting, and the share of a process in a *)
(* CPU is the quotient of the differences of two such readings             *)
(* (sensors/mod.rs, sensors/utils.rs).                                     *)
(*                                                                         *)
(* Of the accounting programs what their readers see is kept, as           *)
(* CpuAccounting has it: what they add to an entry of PID_TIMES they add   *)
(* to CPU_TIME too, and process_exit_cleanup removes the entry, before the *)
(* process has run for the last time and while it is still in the process  *)
(* table.  Of the buffers the two newest records are kept (ProcessTracker  *)
(* and RecordBuffer show that the code keeps at least these).              *)
(***************************************************************************)
EXTENDS Integers, Sequences, SequencesExt, FiniteSets, FiniteSetsExt

CONSTANTS
  Pid,        \* process ids
  nb_cores,   \* number of CPUs
  Modulus,    \* integers are computed modulo this: 2^64
  MaxWork,    \* bound on the work of all CPUs, for model checking
  MaxRefreshes, \* bound on the refreshes, for model checking
  MaxChanges  \* bound on starts, exits and changes of executables, for model checking

ASSUME AttributionAssumption ==
  /\ IsFiniteSet(Pid)
  /\ nb_cores \in Nat \ {0}
  /\ MaxWork \in Nat /\ MaxRefreshes \in Nat /\ MaxChanges \in Nat
  /\ Modulus \in Nat /\ Modulus > MaxWork

Cpu   == 0 .. nb_cores - 1
None  == [c \in {} |-> 0]   \* no entry in PID_TIMES

VARIABLES
  CPU_TIME,         \* busy time of each CPU
  PID_TIMES,        \* busy time per CPU of the processes that have an entry
  running,          \* pids in the process table
  exiting,          \* those past their exit tracepoint, zombies included
  changes,          \* starts, exits and changes of executables so far
  changed,          \* pids whose executable is not that of their last record or snapshot
  pc,               \* "wait", "procs" or "cpus": where Topology::refresh is
  refreshes,        \* refreshes started so far
  sysinfo,          \* pids of the last snapshot
  other,            \* pids of it whose executable is not that of their last record
  toRead,           \* pids of it that are still to be read
  read,             \* CPU times read so far
  records,          \* the two newest core_busy_times of each pid, newest first
  cpu_time_buffer,  \* the two newest records of CPU_TIME, newest last
  ran,              \* history: busy time of each pid since its newest record
  window,           \* history: what ran was when that record was taken
  before,           \* history: pids of the snapshot before the last one
  late, latePrev,   \* history: work done during this and the previous refresh
                    \* before CPU_TIME was read
  removed,          \* history: pids whose entry was removed since their newest record,
  restarted         \* history: and between their two newest records

ebpf    == <<CPU_TIME, PID_TIMES>>
reader  == <<pc, refreshes, sysinfo, other, toRead, read, records, cpu_time_buffer>>
history == <<ran, window, before, late, latePrev, removed, restarted>>
vars    == <<CPU_TIME, PID_TIMES, running, exiting, changes, changed, pc, refreshes, sysinfo, other,
             toRead, read, records, cpu_time_buffer, ran, window, before, late, latePrev, removed,
             restarted>>

Zero == [c \in Cpu |-> 0]

\* The programs have been counting since they were attached: some of the processes have
\* run already, and other processes that are gone.
Init ==
  /\ running \in SUBSET Pid /\ exiting = {}
  /\ CPU_TIME = [Zero EXCEPT ![0] = Cardinality(Pid)]
  /\ \E known \in SUBSET running : PID_TIMES = [p \in known |-> [Zero EXCEPT ![0] = 1]]
  /\ changes = 0
  /\ changed = {}
  /\ pc = "wait"
  /\ refreshes = 0
  /\ sysinfo = {} /\ other = {} /\ toRead = {} /\ read = <<>>
  /\ records = [p \in Pid |-> <<>>]
  /\ cpu_time_buffer = <<>>
  /\ ran = [p \in Pid |-> Zero] /\ window = [p \in Pid |-> Zero]
  /\ before = {}
  /\ late = Zero /\ latePrev = Zero
  /\ removed = {} /\ restarted = {}

-----------------------------------------------------------------------------
(***************************************************************************)
(* The processes and the accounting programs.                              *)
(***************************************************************************)

Busy(c) ==
  /\ MapThenSumSet(LAMBDA d : CPU_TIME[d], Cpu) < MaxWork
  /\ CPU_TIME' = [CPU_TIME EXCEPT ![c] = @ + 1]
  /\ late' = IF pc # "wait" /\ Len(read) <= c THEN [late EXCEPT ![c] = @ + 1] ELSE late

\* Process p runs on CPU c, and the programs account for it.
Run(p, c) ==
  /\ p \in running
  /\ Busy(c)
  /\ PID_TIMES' =
       LET old == IF p \in DOMAIN PID_TIMES THEN PID_TIMES[p] ELSE Zero
       IN  [q \in DOMAIN PID_TIMES \cup {p} |->
              IF q = p THEN [old EXCEPT ![c] = @ + 1] ELSE PID_TIMES[q]]
  /\ ran' = [ran EXCEPT ![p][c] = @ + 1]
  /\ UNCHANGED <<running, exiting, changes, changed, reader, window, before, latePrev, removed,
                 restarted>>

\* PID_TIMES has no room for the entry of the process: only CPU_TIME counts.
RunUnrecorded(c) ==
  /\ Busy(c)
  /\ UNCHANGED <<PID_TIMES, running, exiting, changes, changed, reader, ran, window, before,
                 latePrev, removed, restarted>>

Change ==
  /\ changes < MaxChanges
  /\ changes' = changes + 1

\* The exit tracepoint of process p: process_exit_cleanup removes its entry.
Exit(p) ==
  /\ p \in running \ exiting
  /\ Change
  /\ exiting' = exiting \cup {p}
  /\ PID_TIMES' = [q \in DOMAIN PID_TIMES \ {p} |-> PID_TIMES[q]]
  /\ removed' = removed \cup {p}
  /\ UNCHANGED <<CPU_TIME, running, changed, reader, ran, window, before, late, latePrev,
                 restarted>>

\* Process p leaves the process table.
Reap(p) ==
  /\ p \in exiting
  /\ running' = running \ {p}
  /\ exiting' = exiting \ {p}
  /\ UNCHANGED <<ebpf, changes, changed, reader, history>>

Executable(p, differs) ==
  /\ Change
  /\ changed' = IF differs THEN changed \cup {p} ELSE changed \ {p}

\* A process starts; its executable differs from the last one known for the pid or not.
Fork(p, differs) ==
  /\ p \notin running
  /\ running' = running \cup {p}
  /\ Executable(p, differs)
  /\ UNCHANGED <<ebpf, exiting, reader, history>>

\* Process p runs another executable and keeps its pid and its entry.
Exec(p, differs) ==
  /\ p \in running \ exiting
  /\ Executable(p, differs)
  /\ UNCHANGED <<ebpf, running, exiting, reader, history>>

-----------------------------------------------------------------------------
(***************************************************************************)
(* Topology::refresh.                                                      *)
(***************************************************************************)

\* The exporter has emptied the vectors of the processes that were gone, or it has not;
\* sysinfo takes its snapshot.
RefreshStart(cleans) ==
  /\ pc = "wait"
  /\ refreshes < MaxRefreshes
  /\ refreshes' = refreshes + 1
  /\ sysinfo' = running
  /\ other' = changed \cap running
  /\ toRead' = running
  /\ records' = [p \in Pid |-> IF cleans /\ p \notin sysinfo THEN <<>> ELSE records[p]]
  /\ pc' = IF running = {} THEN "cpus" ELSE "procs"
  /\ late' = Zero
  /\ latePrev' = late
  /\ before' = sysinfo
  /\ changed' = changed \ running
  /\ UNCHANGED <<ebpf, running, exiting, changes, read, cpu_time_buffer, ran, window, removed, restarted>>

get_process_core_times(p) == IF p \in DOMAIN PID_TIMES THEN PID_TIMES[p] ELSE None

\* Faulty variant: of the records the oldest is kept.
Older_oldest(p) == IF p \in other \/ records[p] = <<>> THEN <<>> ELSE <<Last(records[p])>>

\* The records a new one of p is added to: none if the executable is another one.
Older(p) == IF p \in other \/ records[p] = <<>> THEN <<>> ELSE <<records[p][1]>>

\* IProcess::new reads the entry of a process of the snapshot, which may have ended since,
\* and add_process_record adds it to its records.
ReadProcess(p) ==
  /\ pc = "procs"
  /\ p \in toRead
  /\ records' = [records EXCEPT ![p] = <<get_process_core_times(p)>> \o Older(p)]
  /\ toRead' = toRead \ {p}
  /\ pc' = IF toRead' = {} THEN "cpus" ELSE "procs"
  /\ ran' = [ran EXCEPT ![p] = Zero]
  /\ window' = [window EXCEPT ![p] = ran[p]]
  /\ removed' = removed \ {p}
  /\ restarted' = IF p \in removed THEN restarted \cup {p} ELSE restarted \ {p}
  /\ UNCHANGED <<ebpf, running, exiting, changes, changed, refreshes, sysinfo, other, read,
                 cpu_time_buffer, before, late, latePrev>>

\* refresh_cpu_time_record reads the slots of CPU_TIME one by one and stores them.
refresh_cpu_time_record ==
  LET values == Append(read, CPU_TIME[Len(read)])
      record == [c \in Cpu |-> values[c + 1]]
      buffer == Append(cpu_time_buffer, record)
  IN  /\ pc = "cpus"
      /\ IF Len(values) < nb_cores
         THEN /\ read' = values
              /\ UNCHANGED <<pc, cpu_time_buffer>>
         ELSE /\ read' = <<>>
              /\ cpu_time_buffer' = SubSeq(buffer, Max({1, Len(buffer) - 1}), Len(buffer))
              /\ pc' = "wait"
      /\ UNCHANGED <<ebpf, running, exiting, changes, changed, refreshes, sysinfo, other, toRead, records,
                     history>>

Next ==
  \/ \E p \in Pid :
       \/ \E c \in Cpu : Run(p, c)
       \/ Exit(p)
       \/ Reap(p)
       \/ \E differs \in BOOLEAN : Fork(p, differs) \/ Exec(p, differs)
       \/ ReadProcess(p)
  \/ \E c \in Cpu : RunUnrecorded(c)
  \/ \E cleans \in BOOLEAN : RefreshStart(cleans)
  \/ refresh_cpu_time_record

Spec == Init /\ [][Next]_vars

-----------------------------------------------------------------------------
(***************************************************************************)
(* The attribution, between two refreshes.                                 *)
(***************************************************************************)

\* What get_cpu_time_diff finds for CPU c.
get_cpu_time_diff(c) ==
  LET last == cpu_time_buffer[2][c]
      prev == cpu_time_buffer[1][c]
  IN  IF last >= prev THEN last - prev ELSE (Modulus - 1) - prev + last

\* Nothing is attributed without two readings of each, or if no CPU was busy; the caller
\* then falls back on the percentages of the operating system.
HasShare(p) ==
  /\ Len(cpu_time_buffer) = 2
  /\ \E c \in Cpu : get_cpu_time_diff(c) # 0
  /\ Len(records[p]) = 2 /\ None \notin Range(records[p])

\* The subtraction is unchecked in a release build.
get_per_core_cpu_time_delta(p, c) == (records[p][1][c] - records[p][2][c]) % Modulus

\* Faulty variant: the time a process has run anywhere counts on every CPU.
Part_anywhere(p, c) ==
  Min({MapThenSumSet(LAMBDA d : get_per_core_cpu_time_delta(p, d), Cpu), get_cpu_time_diff(c)})

\* The part of the busy time of CPU c that process p gets: its share of the power of c
\* is Part(p, c) / get_cpu_time_diff(c), or 0 if the CPU was not busy.
Part(p, c) == Min({get_per_core_cpu_time_delta(p, c), get_cpu_time_diff(c)})

-----------------------------------------------------------------------------
(***************************************************************************)
(* Properties.                                                             *)
(***************************************************************************)

Attributed == {p \in sysinfo \ restarted : HasShare(p)}

\* A process is charged for the time it has run between its two newest records, on
\* every CPU, through missing entries, exec, exits during the refresh and cleanings,
\* unless its entry was removed in between (utils.rs 404-428).
ChargedForRunTime ==
  pc = "wait" => \A p \in Attributed, c \in Cpu :
                   get_per_core_cpu_time_delta(p, c) = window[p][c]

\* The processes of two successive snapshots together get no more of a CPU than there is,
\* but for the work done while the previous refresh had not read CPU_TIME yet: the
\* readings of a refresh are not simultaneous, and the error does not add up (mod.rs
\* 1123-1137).  A pid that was not in the previous snapshot may have an older record, of
\* before its reuse, and is charged for what was run since then.
SharesBounded ==
  pc = "wait" /\ Len(cpu_time_buffer) = 2 => \A c \in Cpu :
    MapThenSumSet(LAMBDA p : Part(p, c), Attributed \cap before)
      <= get_cpu_time_diff(c) + latePrev[c]
=============================================================================
