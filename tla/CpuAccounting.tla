--------------------------- MODULE CpuAccounting ---------------------------
(***************************************************************************)
(* The per-process and per-CPU busy-time accounting of the eBPF object     *)
(* (scaphandre-ebpf/src/main.rs): the programs context_switch_tracker,     *)
(* sample_tick and process_exit_cleanup over the maps PID_TIMES, PID_LAST  *)
(* and CPU_TIME.                                                           *)
(*                                                                         *)
(* The kernel around the programs (the scheduler, do_exit, the clock and   *)
(* the BPF per-CPU hash map) is the environment.  Programs run to          *)
(* completion on their CPU (tracepoints and perf handlers do not nest),    *)
(* and a step is one program run; programs of different CPUs interleave.   *)
(***************************************************************************)
EXTENDS Integers, FiniteSets, EbpfMaps

CONSTANTS
  Cpu,       \* online logical CPUs, all below MAX_CPU
  Thread,    \* kernel tasks other than the idle tasks
  Tgid,      \* process ids (task_struct.tgid), 0 excluded
  TgidOf,    \* [Thread -> Tgid]
  Swapper,   \* the idle task of every CPU: tgid 0 and pid 0
  MaxKeys,   \* MAX_KEYS, the capacity of PID_TIMES and of PID_LAST
  LoadTime,  \* bpf_ktime_get_ns() when the object is loaded (time since boot)
  MaxNow,    \* bound on the clock, for model checking
  MaxTime    \* bound on the time accumulated when a program runs, likewise

ASSUME CpuAccountingAssumption ==
  /\ IsFiniteSet(Tgid)
  /\ TgidOf \in [Thread -> Tgid]
  /\ Swapper \notin Thread \cup Tgid
  /\ MaxKeys \in Nat
  /\ LoadTime \in Nat \ {0}
  /\ MaxNow \in Nat
  /\ MaxTime \in Nat

Key == Tgid \cup {Swapper}

VARIABLES
  PID_LAST,   \* tgid -> per-CPU time of the last switch-in or sample
  PID_TIMES,  \* tgid -> per-CPU accumulated run time
  now,        \* bpf_ktime_get_ns()
  curr,       \* the task running on each CPU
  phase,      \* where each task is in its life
  fresh,      \* history: some program has run on this CPU since the load
  busy,       \* history: non-idle time of each CPU since the load
  owed,       \* history: the part of busy the programs are to account for
  overlapped, \* history: two threads of one process have run at the same time
  dropped     \* history: PID_LAST was full when a task was to be stamped

maps == <<PID_LAST, PID_TIMES, CPU_TIME>>
kernel == <<curr, phase>>
history == <<fresh, busy, owed, overlapped, dropped>>
vars == <<PID_LAST, PID_TIMES, CPU_TIME, now, curr, phase, fresh, busy, owed,
          overlapped, dropped>>

(***************************************************************************)
(* Life of a task.  do_exit first decrements signal->live, which decides   *)
(* group_dead, later fires sched_process_exit, and runs on (exit_mm,       *)
(* exit_files, ...) until its last schedule().                             *)
(***************************************************************************)
Phase == {"alive", "dying", "dyingLast", "traced", "dead"}

\* Before its sched_process_exit tracepoint.
NotTraced == {"alive", "dying", "dyingLast"}

Siblings(t) == {u \in Thread \ {t} : TgidOf[u] = TgidOf[t]}

KeyOf(t) == IF t = Swapper THEN Swapper ELSE TgidOf[t]

\* CPUs c and d run tasks of one process.
Share(c, d, run) == c # d /\ run[c] # Swapper /\ KeyOf(run[c]) = KeyOf(run[d])

\* Two CPUs run tasks of one process.
Overlap(run) == \E c, d \in Cpu : Share(c, d, run)

\* A map: the keys present, and the slots (all zero for an absent key).
PerCpuHashMap == [keys : SUBSET Key, slot : [Key -> [Cpu -> Nat]]]

\* Every variable keeps its type; in particular no accumulated time is negative.
TypeOK ==
  /\ PID_LAST \in PerCpuHashMap
  /\ PID_TIMES \in PerCpuHashMap
  /\ CPU_TIME \in [Cpu -> Nat]
  /\ now \in Nat
  /\ curr \in [Cpu -> Thread \cup {Swapper}]
  /\ phase \in [Thread -> Phase]
  /\ fresh \in [Cpu -> BOOLEAN]
  /\ busy \in [Cpu -> Nat]
  /\ owed \in [Cpu -> Nat]
  /\ overlapped \in BOOLEAN
  /\ dropped \in BOOLEAN

(***************************************************************************)
(* BPF_MAP_TYPE_PERCPU_HASH as a program sees it: a key is present for all *)
(* CPUs or for none, an access reaches the slot of the CPU it runs on, a   *)
(* new key starts with zero in the other slots, a removal takes the key    *)
(* away from every CPU, and an insertion into a full map fails.            *)
(***************************************************************************)
EmptyMap == [keys |-> {}, slot |-> [k \in Key |-> [c \in Cpu |-> 0]]]

Insert(m, k, c, v) ==
  IF k \in m.keys
  THEN [keys |-> m.keys, slot |-> [m.slot EXCEPT ![k][c] = v]]
  ELSE IF Cardinality(m.keys) < MaxKeys
  THEN [keys |-> m.keys \cup {k},
        slot |-> [m.slot EXCEPT ![k] = [d \in Cpu |-> IF d = c THEN v ELSE 0]]]
  ELSE m

Remove(m, k) == [keys |-> m.keys \ {k},
                 slot |-> [m.slot EXCEPT ![k] = [d \in Cpu |-> 0]]]

-----------------------------------------------------------------------------
(***************************************************************************)
(* The programs.                                                           *)
(***************************************************************************)

\* Faulty variant: the operands of the difference are swapped.
DeltaReversed(k, c) == PID_LAST.slot[k][c] - now

\* Time since the last stamp of key k on CPU c.
Delta(k, c) == now - PID_LAST.slot[k][c]

\* "*p_time += delta" on the slot if the key is present, an insert otherwise.
AddTime(m, k, c, d) ==
  IF k \in m.keys THEN Insert(m, k, c, m.slot[k][c] + d) ELSE Insert(m, k, c, d)

\* Faulty variant: only the process is charged.
AccountProcessOnly(k, c) ==
  /\ PID_TIMES' = AddTime(PID_TIMES, k, c, Delta(k, c))
  /\ CPU_TIME' = CPU_TIME

\* A program charges the time since the stamp to the process and to the CPU.
Account(k, c) ==
  /\ PID_TIMES' = AddTime(PID_TIMES, k, c, Delta(k, c))
  /\ CPU_TIME' = [CPU_TIME EXCEPT ![c] = @ + Delta(k, c)]

\* Faulty variant: the idle task is accounted like any other.
try_sched_switch_idle(c, prev, next) ==
  LET k    == KeyOf(prev)
      seen == k \in PID_LAST.keys
  IN  /\ IF seen THEN Account(k, c) ELSE UNCHANGED <<PID_TIMES, CPU_TIME>>
      /\ PID_LAST' = Insert(IF seen THEN Remove(PID_LAST, k) ELSE PID_LAST,
                            KeyOf(next), c, now)

\* Faulty variant: a stamp of the next tick is written.
try_sched_switch_ahead(c, prev, next) ==
  LET k    == KeyOf(prev)
      seen == prev # Swapper /\ k \in PID_LAST.keys
  IN  /\ IF seen THEN Account(k, c) ELSE UNCHANGED <<PID_TIMES, CPU_TIME>>
      /\ PID_LAST' = Insert(IF seen THEN Remove(PID_LAST, k) ELSE PID_LAST,
                            KeyOf(next), c, now + 1)

\* Faulty variant: the incoming task is stamped only after a known task.
try_sched_switch_nostamp(c, prev, next) ==
  LET k    == KeyOf(prev)
      seen == prev # Swapper /\ k \in PID_LAST.keys
  IN  /\ IF seen THEN Account(k, c) ELSE UNCHANGED <<PID_TIMES, CPU_TIME>>
      /\ PID_LAST' = IF seen THEN Insert(Remove(PID_LAST, k), KeyOf(next), c, now)
                     ELSE PID_LAST

\* sched_switch on CPU c from task prev to task next.
try_sched_switch(c, prev, next) ==
  LET k    == KeyOf(prev)
      seen == prev # Swapper /\ k \in PID_LAST.keys
  IN  /\ IF seen THEN Account(k, c) ELSE UNCHANGED <<PID_TIMES, CPU_TIME>>
      /\ PID_LAST' = Insert(IF seen THEN Remove(PID_LAST, k) ELSE PID_LAST,
                            KeyOf(next), c, now)

\* The 5 ms sample of the task running on CPU c.
sample_tick(c) ==
  LET k == KeyOf(curr[c])
  IN  IF curr[c] = Swapper THEN UNCHANGED maps
      ELSE /\ PID_LAST' = Insert(PID_LAST, k, c, now)
           /\ IF k \in PID_LAST.keys THEN Account(k, c)
              ELSE UNCHANGED <<PID_TIMES, CPU_TIME>>

\* sched_process_exit of a thread of process k on CPU c.
try_process_exit(c, k, group_dead) ==
  LET seen  == k \in PID_LAST.keys
      times == IF seen THEN AddTime(PID_TIMES, k, c, Delta(k, c)) ELSE PID_TIMES
  IN  /\ PID_TIMES' = IF group_dead THEN Remove(times, k) ELSE times
      /\ PID_LAST' = Remove(PID_LAST, k)
      /\ CPU_TIME' = IF seen THEN [CPU_TIME EXCEPT ![c] = @ + Delta(k, c)]
                     ELSE CPU_TIME

-----------------------------------------------------------------------------
(***************************************************************************)
(* The specification: the kernel takes a step and the attached program     *)
(* runs.                                                                   *)
(***************************************************************************)

Init ==
  /\ PID_LAST = EmptyMap
  /\ PID_TIMES = EmptyMap
  /\ CPU_TIME = [c \in Cpu |-> 0]
  /\ now = LoadTime
  /\ curr \in [Cpu -> Thread \cup {Swapper}]
  /\ \A c, d \in Cpu : curr[c] = curr[d] => c = d \/ curr[c] = Swapper
  /\ phase = [t \in Thread |-> "alive"]
  /\ fresh = [c \in Cpu |-> FALSE]
  /\ busy = [c \in Cpu |-> 0]
  /\ owed = [c \in Cpu |-> 0]
  /\ overlapped = Overlap(curr)
  /\ dropped = FALSE

Elapse ==
  /\ now < MaxNow
  /\ now' = now + 1
  /\ busy' = [c \in Cpu |-> IF curr[c] = Swapper THEN busy[c] ELSE busy[c] + 1]
  /\ owed' = [c \in Cpu |-> IF curr[c] # Swapper /\ fresh[c] /\ phase[curr[c]] \in NotTraced
                            THEN owed[c] + 1 ELSE owed[c]]
  /\ UNCHANGED <<maps, kernel, fresh, overlapped, dropped>>

\* The stamp of key k found no room.
Refused(k) == k \notin PID_LAST'.keys /\ ~(Cardinality(PID_LAST'.keys) < MaxKeys)

\* CPU c switches to task n; a task past its exit may be switched out for good.
context_switch_tracker(c, n, last) ==
  /\ CPU_TIME[c] <= MaxTime
  /\ n # curr[c]
  /\ n # Swapper => phase[n] # "dead" /\ \A d \in Cpu : curr[d] # n
  /\ last => curr[c] # Swapper /\ phase[curr[c]] = "traced"
  /\ try_sched_switch(c, curr[c], n)
  /\ curr' = [curr EXCEPT ![c] = n]
  /\ phase' = IF last THEN [phase EXCEPT ![curr[c]] = "dead"] ELSE phase
  /\ fresh' = [fresh EXCEPT ![c] = TRUE]
  /\ overlapped' = (overlapped \/ Overlap(curr'))
  /\ dropped' = (dropped \/ Refused(KeyOf(n)))
  /\ UNCHANGED <<now, busy, owed>>

SampleTick(c) ==
  /\ CPU_TIME[c] <= MaxTime
  /\ sample_tick(c)
  /\ fresh' = [fresh EXCEPT ![c] = TRUE]
  /\ dropped' = (dropped \/ (curr[c] # Swapper /\ Refused(KeyOf(curr[c]))))
  /\ UNCHANGED <<now, kernel, busy, owed, overlapped>>

\* do_exit decrements signal->live; group_dead holds for the last thread.
DoExit(c) ==
  /\ curr[c] # Swapper
  /\ phase[curr[c]] = "alive"
  /\ phase' = [phase EXCEPT ![curr[c]] =
                 IF \E u \in Siblings(curr[c]) : phase[u] = "alive"
                 THEN "dying" ELSE "dyingLast"]
  /\ UNCHANGED <<maps, now, curr, history>>

process_exit_cleanup(c) ==
  /\ CPU_TIME[c] <= MaxTime
  /\ curr[c] # Swapper
  /\ phase[curr[c]] \in {"dying", "dyingLast"}
  /\ try_process_exit(c, KeyOf(curr[c]), phase[curr[c]] = "dyingLast")
  /\ phase' = [phase EXCEPT ![curr[c]] = "traced"]
  /\ UNCHANGED <<now, curr, history>>

\* A new thread of a live process, or a new process that reuses the id.
Fork(t) ==
  /\ phase[t] = "dead"
  /\ \/ \A u \in Siblings(t) : phase[u] = "dead"
     \/ \E u \in Siblings(t) : phase[u] = "alive"
  /\ phase' = [phase EXCEPT ![t] = "alive"]
  /\ UNCHANGED <<maps, now, curr, history>>

Next ==
  \/ Elapse
  \/ \E c \in Cpu, n \in Thread \cup {Swapper}, last \in BOOLEAN :
       context_switch_tracker(c, n, last)
  \/ \E c \in Cpu : SampleTick(c)
  \/ \E c \in Cpu : DoExit(c)
  \/ \E c \in Cpu : process_exit_cleanup(c)
  \/ \E t \in Thread : Fork(t)

Spec == Init /\ [][Next]_vars

-----------------------------------------------------------------------------
(***************************************************************************)
(* Properties.                                                             *)
(***************************************************************************)

\* Time of the current stint of CPU c that no program has accounted yet.
Pending(c) ==
  IF curr[c] # Swapper /\ KeyOf(curr[c]) \in PID_LAST.keys
  THEN Delta(KeyOf(curr[c]), c) ELSE 0

\* The time accumulated for a process on a CPU never exceeds the time accumulated
\* for that CPU since the load, whatever threads of the process run at the same
\* time, with stamps zeroed or removed under them, and whatever insertions into a
\* full map fail: each program charges the two with the same delta, and one that
\* cannot charge the process charges the CPU alone (main.rs 72-83, 103-113,
\* 205-216).  It relates the two maps at one moment; the readers divide
\* differences of readings taken at different moments (sensors/mod.rs 1133).
ShareAtMostOne ==
  \A k \in PID_TIMES.keys, c \in Cpu : PID_TIMES.slot[k][c] <= CPU_TIME[c]

\* CPU_TIME never counts idle time nor counts a stretch of time twice: with the
\* stint in progress it is at most the time the CPU was really busy ("so
\* CPU_TIME only reflects non-idle runtime", main.rs 70), for as long as no two
\* threads of one process have run at the same time, full map or not.
BusyTimeSound == ~overlapped => \A c \in Cpu : CPU_TIME[c] + Pending(c) <= busy[c]

\* What the map is documented to hold: "per-logical-CPU accumulator of non-idle
\* busy time" (docs/overview.md 198, sensors/mod.rs 91), whatever threads run.
CpuTimeIsBusyTime == \A c \in Cpu : CPU_TIME[c] <= busy[c]

\* No run time is lost, for as long as no two threads of one process have run at
\* the same time and no stamp was refused by a full map: from the first event on a
\* CPU on, all the time its tasks run before their exit tracepoint is in CPU_TIME
\* or in the stint in progress, across switches, samples, migrations, exits and
\* reuse of process ids (main.rs 58-119, 194-225).
BusyTimeComplete ==
  ~overlapped /\ ~dropped => \A c \in Cpu : owed[c] <= CPU_TIME[c] + Pending(c)

\* What the readers of CPU_TIME (cpu_state_tick, refresh_cpu_time_record) rely on,
\* whatever threads run where: counters that start at zero, of which a step moves
\* at most one and never backward, so that a difference of two readings is the
\* growth in between (main.rs 81-83, 110-112, 212-214).
Counters == INSTANCE BusyCounters WITH Cpu <- Cpu, CPU_TIME <- CPU_TIME

CountersSpec == Counters!Spec
=============================================================================
