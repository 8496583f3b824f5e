----------------------------- MODULE EbpfProofs -----------------------------
(***************************************************************************)
(* Proofs about the eBPF programs: CpuAccounting, for every set of CPUs,   *)
(* threads and processes, every map capacity and every clock bound, and    *)
(* CpuStateTick, for every number of CPUs and sockets and every ring.      *)
(*                                                                         *)
(* cpu_state_tick overlooks no work outside its windows because a CPU      *)
(* whose work is unseen differs from the snapshot, and because no instance *)
(* that is to come to the CPU is past it (OverlookInv).                    *)
(***************************************************************************)
EXTENDS CpuAccounting, CpuStateTick, FiniteSetTheorems, TLAPS

-----------------------------------------------------------------------------
(***************************************************************************)
(* What the map operations do to a map.                                    *)
(***************************************************************************)

\* The map r is m after an insertion of v under k by CPU c: the keys present
\* stay, the slot of c is v, and the other slots of k are kept or zeroed.
Inserted(m, k, c, v, r) ==
  /\ r \in PerCpuHashMap
  /\ m.keys \subseteq r.keys
  /\ r.keys \subseteq m.keys \cup {k}
  /\ \A j \in Key : j # k => r.slot[j] = m.slot[j]
  /\ k \in r.keys => r.slot[k][c] = v
  /\ \A e \in Cpu : r.slot[k][e] \in {m.slot[k][e], 0, v}
  /\ \A e \in Cpu : e # c => r.slot[k][e] \in {m.slot[k][e], 0}
  /\ k \in r.keys /\ k \notin m.keys => \A e \in Cpu : e # c => r.slot[k][e] = 0
  /\ Cardinality(m.keys) < MaxKeys => k \in r.keys

\* The map r is m without the key k.
Removed(m, k, r) ==
  /\ r \in PerCpuHashMap
  /\ r.keys = m.keys \ {k}
  /\ \A j \in Key : j # k => r.slot[j] = m.slot[j]
  /\ \A e \in Cpu : r.slot[k][e] = 0

\* Insert does what its name says (main.rs 77, 87, 108, 115, 210).
LEMMA InsertFacts ==
  ASSUME NEW m \in PerCpuHashMap, NEW k \in Key, NEW c \in Cpu, NEW v \in Nat
  PROVE  Inserted(m, k, c, v, Insert(m, k, c, v))
<1> USE DEF PerCpuHashMap, Inserted
<1>1. CASE k \in m.keys
  BY <1>1 DEF Insert
<1>2. CASE k \notin m.keys /\ Cardinality(m.keys) < MaxKeys
  BY <1>2 DEF Insert
<1>3. CASE k \notin m.keys /\ ~(Cardinality(m.keys) < MaxKeys)
  BY <1>3 DEF Insert
<1> QED BY <1>1, <1>2, <1>3

\* Remove does what its name says (main.rs 79, 215, 220, 221).
LEMMA RemoveFacts ==
  ASSUME NEW m \in PerCpuHashMap, NEW k \in Key
  PROVE  Removed(m, k, Remove(m, k))
BY DEF Remove, Removed, PerCpuHashMap

\* Adding time to a key is an insertion of the sum, or of the time itself.
LEMMA AddTimeFacts ==
  ASSUME NEW m \in PerCpuHashMap, NEW k \in Key, NEW c \in Cpu, NEW d \in Nat
  PROVE  \E v \in Nat : /\ Inserted(m, k, c, v, AddTime(m, k, c, d))
                        /\ v <= m.slot[k][c] + d
                        /\ k \notin m.keys => v = d
<1>0. m.slot[k][c] \in Nat
  BY DEF PerCpuHashMap
<1>1. CASE k \in m.keys
  <2>1. AddTime(m, k, c, d) = Insert(m, k, c, m.slot[k][c] + d)
    BY <1>1 DEF AddTime
  <2>2. Inserted(m, k, c, m.slot[k][c] + d, AddTime(m, k, c, d))
    BY <1>0, <2>1, InsertFacts
  <2> QED BY <1>0, <1>1, <2>2
<1>2. CASE k \notin m.keys
  <2>1. AddTime(m, k, c, d) = Insert(m, k, c, d)
    BY <1>2 DEF AddTime
  <2>2. Inserted(m, k, c, d, AddTime(m, k, c, d))
    BY <2>1, InsertFacts
  <2> QED BY <1>0, <1>2, <2>2
<1> QED BY <1>1, <1>2

\* Tasks have keys.
LEMMA KeyOfType == \A t \in Thread \cup {Swapper} : KeyOf(t) \in Key
BY CpuAccountingAssumption DEF KeyOf, Key

-----------------------------------------------------------------------------
(***************************************************************************)
(* What holds for all threads, whatever CPUs they share: the accumulated   *)
(* time of a process on a CPU is part of the busy time of that CPU.        *)
(***************************************************************************)

\* Stamps are in the past, so that deltas are natural numbers.
StampsPast == \A k \in Key, c \in Cpu : PID_LAST.slot[k][c] <= now

ShareInv == TypeOK /\ StampsPast /\ ShareAtMostOne

\* What a program run leaves of ShareInv.
MapsOK ==
  /\ PID_LAST \in PerCpuHashMap
  /\ PID_TIMES \in PerCpuHashMap
  /\ CPU_TIME \in [Cpu -> Nat]
  /\ StampsPast
  /\ ShareAtMostOne

\* A delta is a natural number.
LEMMA DeltaNat ==
  ASSUME ShareInv, NEW k \in Key, NEW c \in Cpu
  PROVE  Delta(k, c) \in Nat
BY DEF ShareInv, TypeOK, StampsPast, Delta, PerCpuHashMap

\* Charging a process and its CPU alike keeps the share at most one.
LEMMA ChargeFacts ==
  ASSUME ShareInv, NEW k \in Key, NEW c \in Cpu,
         NEW t, t = AddTime(PID_TIMES, k, c, Delta(k, c)),
         NEW C, C = [CPU_TIME EXCEPT ![c] = @ + Delta(k, c)]
  PROVE  /\ t \in PerCpuHashMap
         /\ C \in [Cpu -> Nat]
         /\ \A j \in t.keys, e \in Cpu : t.slot[j][e] <= C[e]
<1> DEFINE d == Delta(k, c)
<1>0. d \in Nat
  BY DeltaNat
<1> HIDE DEF d
<1>1. /\ t = AddTime(PID_TIMES, k, c, d)
      /\ C = [CPU_TIME EXCEPT ![c] = @ + d]
  BY DEF d
<1>2. /\ PID_TIMES \in PerCpuHashMap
      /\ CPU_TIME \in [Cpu -> Nat]
      /\ \A j \in PID_TIMES.keys, e \in Cpu : PID_TIMES.slot[j][e] <= CPU_TIME[e]
  BY DEF ShareInv, TypeOK, ShareAtMostOne
<1>3. PICK v \in Nat : /\ Inserted(PID_TIMES, k, c, v, t)
                       /\ v <= PID_TIMES.slot[k][c] + d
                       /\ k \notin PID_TIMES.keys => v = d
  BY <1>0, <1>1, <1>2, AddTimeFacts
<1>4. /\ C \in [Cpu -> Nat]
      /\ C[c] = CPU_TIME[c] + d
      /\ \A e \in Cpu : e # c => C[e] = CPU_TIME[e]
  BY <1>0, <1>1, <1>2
<1>5. ASSUME NEW j \in t.keys, NEW e \in Cpu
      PROVE  t.slot[j][e] <= C[e]
  <2>0. /\ j \in Key
        /\ PID_TIMES.slot[j][e] \in Nat
        /\ PID_TIMES.slot[k][c] \in Nat
        /\ CPU_TIME[e] \in Nat
    BY <1>2, <1>3 DEF PerCpuHashMap, Inserted
  <2>1. CASE j # k
    <3>1. j \in PID_TIMES.keys /\ t.slot[j] = PID_TIMES.slot[j]
      BY <1>3, <2>0, <2>1 DEF Inserted
    <3> QED BY <1>0, <1>2, <1>4, <2>0, <3>1
  <2>2. CASE j = k /\ e # c
    <3>1. t.slot[k][e] \in {PID_TIMES.slot[k][e], 0}
      BY <1>3, <2>2 DEF Inserted
    <3>2. k \notin PID_TIMES.keys => t.slot[k][e] = 0
      BY <1>3, <2>2 DEF Inserted
    <3>3. k \in PID_TIMES.keys => PID_TIMES.slot[k][e] <= CPU_TIME[e]
      BY <1>2
    <3> QED BY <1>4, <2>0, <2>2, <3>1, <3>2, <3>3
  <2>3. CASE j = k /\ e = c
    <3>1. t.slot[j][e] = v
      BY <1>3, <2>3 DEF Inserted
    <3>2. CASE k \in PID_TIMES.keys
      BY <1>0, <1>2, <1>3, <1>4, <2>0, <2>3, <3>1, <3>2
    <3>3. CASE k \notin PID_TIMES.keys
      BY <1>0, <1>3, <1>4, <2>0, <2>3, <3>1, <3>3
    <3> QED BY <3>2, <3>3
  <2> QED BY <2>1, <2>2, <2>3
<1>6. t \in PerCpuHashMap
  BY <1>3 DEF Inserted
<1> QED BY <1>4, <1>5, <1>6

\* A stamp of the present, or a removal, keeps the stamps in the past.
LEMMA StampKeepsPast ==
  ASSUME ShareInv, now' = now, NEW k \in Key, NEW c \in Cpu,
         NEW m \in PerCpuHashMap, PID_LAST' = Insert(m, k, c, now),
         \A j \in Key, e \in Cpu : m.slot[j][e] <= now
  PROVE  PID_LAST' \in PerCpuHashMap /\ StampsPast'
<1>1. now \in Nat
  BY DEF ShareInv, TypeOK
<1>2. Inserted(m, k, c, now, PID_LAST')
  BY <1>1, InsertFacts
<1> QED BY <1>1, <1>2 DEF StampsPast, Inserted

\* sched_switch keeps the maps consistent.
LEMMA SwitchKeepsMaps ==
  ASSUME ShareInv, now' = now, NEW c \in Cpu,
         NEW prev \in Thread \cup {Swapper}, NEW next \in Thread \cup {Swapper},
         try_sched_switch(c, prev, next)
  PROVE  MapsOK'
<1> DEFINE k == KeyOf(prev)
           seen == prev # Swapper /\ k \in PID_LAST.keys
           m == IF seen THEN Remove(PID_LAST, k) ELSE PID_LAST
<1>1. k \in Key /\ KeyOf(next) \in Key
  BY KeyOfType
<1>2. /\ IF seen THEN Account(k, c) ELSE UNCHANGED <<PID_TIMES, CPU_TIME>>
      /\ PID_LAST' = Insert(m, KeyOf(next), c, now)
  BY DEF try_sched_switch
<1>3. /\ PID_LAST \in PerCpuHashMap
      /\ now \in Nat
      /\ \A j \in Key, e \in Cpu : PID_LAST.slot[j][e] <= now
  BY DEF ShareInv, TypeOK, StampsPast
<1> HIDE DEF k
<1>4. m \in PerCpuHashMap /\ \A j \in Key, e \in Cpu : m.slot[j][e] <= now
  <2>1. Removed(PID_LAST, k, Remove(PID_LAST, k))
    BY <1>1, <1>3, RemoveFacts
  <2> QED BY <1>3, <2>1 DEF Removed
<1> HIDE DEF m
<1>5. PID_LAST' \in PerCpuHashMap /\ StampsPast'
  BY <1>1, <1>2, <1>4, StampKeepsPast
<1>6. PID_TIMES' \in PerCpuHashMap /\ CPU_TIME' \in [Cpu -> Nat] /\ ShareAtMostOne'
  <2>1. CASE seen
    BY <1>1, <1>2, <2>1, ChargeFacts DEF Account, ShareAtMostOne
  <2>2. CASE ~seen
    BY <1>2, <2>2 DEF ShareInv, TypeOK, ShareAtMostOne
  <2> QED BY <2>1, <2>2
<1> QED BY <1>5, <1>6 DEF MapsOK

\* sample_tick keeps the maps consistent.
LEMMA SampleKeepsMaps ==
  ASSUME ShareInv, now' = now, NEW c \in Cpu, sample_tick(c)
  PROVE  MapsOK'
<1> DEFINE k == KeyOf(curr[c])
<1>1. k \in Key
  BY KeyOfType DEF ShareInv, TypeOK
<1>2. /\ PID_LAST \in PerCpuHashMap
      /\ \A j \in Key, e \in Cpu : PID_LAST.slot[j][e] <= now
  BY DEF ShareInv, TypeOK, StampsPast
<1>3. CASE UNCHANGED maps
  BY <1>3 DEF maps, MapsOK, ShareInv, TypeOK, ShareAtMostOne, StampsPast
<1>4. CASE curr[c] # Swapper
  <2>1. /\ PID_LAST' = Insert(PID_LAST, k, c, now)
        /\ IF k \in PID_LAST.keys THEN Account(k, c) ELSE UNCHANGED <<PID_TIMES, CPU_TIME>>
    BY <1>4 DEF sample_tick
  <2> HIDE DEF k
  <2>2. PID_LAST' \in PerCpuHashMap /\ StampsPast'
    BY <1>1, <1>2, <2>1, StampKeepsPast
  <2>3. PID_TIMES' \in PerCpuHashMap /\ CPU_TIME' \in [Cpu -> Nat] /\ ShareAtMostOne'
    <3>1. CASE k \in PID_LAST.keys
      BY <1>1, <2>1, <3>1, ChargeFacts DEF Account, ShareAtMostOne
    <3>2. CASE k \notin PID_LAST.keys
      BY <2>1, <3>2 DEF ShareInv, TypeOK, ShareAtMostOne
    <3> QED BY <3>1, <3>2
  <2> QED BY <2>2, <2>3 DEF MapsOK
<1> QED BY <1>3, <1>4 DEF sample_tick

\* sched_process_exit keeps the maps consistent.
LEMMA ExitKeepsMaps ==
  ASSUME ShareInv, now' = now, NEW c \in Cpu, NEW k \in Key, NEW g \in BOOLEAN,
         try_process_exit(c, k, g)
  PROVE  MapsOK'
<1> DEFINE t == IF k \in PID_LAST.keys
                THEN AddTime(PID_TIMES, k, c, Delta(k, c)) ELSE PID_TIMES
<1>1. /\ PID_TIMES' = IF g THEN Remove(t, k) ELSE t
      /\ PID_LAST' = Remove(PID_LAST, k)
      /\ CPU_TIME' = IF k \in PID_LAST.keys THEN [CPU_TIME EXCEPT ![c] = @ + Delta(k, c)]
                     ELSE CPU_TIME
  BY DEF try_process_exit
<1>2. /\ t \in PerCpuHashMap
      /\ CPU_TIME' \in [Cpu -> Nat]
      /\ \A j \in t.keys, e \in Cpu : t.slot[j][e] <= CPU_TIME'[e]
  <2>1. CASE k \in PID_LAST.keys
    BY <1>1, <2>1, ChargeFacts
  <2>2. CASE k \notin PID_LAST.keys
    BY <1>1, <2>2 DEF ShareInv, TypeOK, ShareAtMostOne
  <2> QED BY <2>1, <2>2
<1> HIDE DEF t
<1>3. PID_TIMES' \in PerCpuHashMap /\ ShareAtMostOne'
  <2>1. CASE g
    <3>1. Removed(t, k, PID_TIMES')
      BY <1>1, <1>2, <2>1, RemoveFacts
    <3>2. ASSUME NEW j \in PID_TIMES'.keys, NEW e \in Cpu
          PROVE  PID_TIMES'.slot[j][e] <= CPU_TIME'[e]
      <4>1. j \in t.keys /\ j # k /\ j \in Key
        BY <1>2, <3>1 DEF Removed, PerCpuHashMap
      <4> QED BY <1>2, <3>1, <4>1 DEF Removed
    <3> QED BY <3>1, <3>2 DEF ShareAtMostOne, Removed
  <2>2. CASE ~g
    BY <1>1, <1>2, <2>2 DEF ShareAtMostOne
  <2> QED BY <2>1, <2>2
<1>4. PID_LAST' \in PerCpuHashMap /\ StampsPast'
  <2>1. Removed(PID_LAST, k, PID_LAST')
    BY <1>1, RemoveFacts DEF ShareInv, TypeOK
  <2> QED BY <2>1 DEF Removed, ShareInv, TypeOK, StampsPast
<1> QED BY <1>2, <1>3, <1>4 DEF MapsOK

\* ShareInv is inductive, whatever threads the processes have.
LEMMA ShareStep == ShareInv /\ [Next]_vars => ShareInv'
<1> SUFFICES ASSUME ShareInv, [Next]_vars PROVE ShareInv'
  OBVIOUS
<1>1. CASE Elapse
  <2>1. TypeOK'
    BY <1>1 DEF Elapse, ShareInv, TypeOK, maps, kernel
  <2>2. StampsPast' /\ ShareAtMostOne'
    BY <1>1 DEF Elapse, ShareInv, TypeOK, PerCpuHashMap, StampsPast, ShareAtMostOne, maps
  <2> QED BY <2>1, <2>2 DEF ShareInv
<1>2. ASSUME NEW c \in Cpu, NEW n \in Thread \cup {Swapper}, NEW last \in BOOLEAN,
             context_switch_tracker(c, n, last)
      PROVE  ShareInv'
  <2>1. curr[c] \in Thread \cup {Swapper} /\ now' = now
    BY <1>2 DEF context_switch_tracker, ShareInv, TypeOK
  <2>2. MapsOK'
    BY <1>2, <2>1, SwitchKeepsMaps DEF context_switch_tracker
  <2>3. phase' \in [Thread -> Phase]
    BY <1>2 DEF context_switch_tracker, ShareInv, TypeOK, Phase
  <2> QED BY <1>2, <2>2, <2>3 DEF context_switch_tracker, ShareInv, TypeOK, MapsOK
<1>3. ASSUME NEW c \in Cpu, SampleTick(c) PROVE ShareInv'
  <2>1. MapsOK'
    BY <1>3, SampleKeepsMaps DEF SampleTick
  <2> QED BY <1>3, <2>1 DEF SampleTick, kernel, ShareInv, TypeOK, MapsOK
<1>4. ASSUME NEW c \in Cpu, DoExit(c) PROVE ShareInv'
  <2>1. TypeOK'
    BY <1>4 DEF DoExit, maps, history, ShareInv, TypeOK, Phase
  <2> QED BY <1>4, <2>1 DEF DoExit, maps, ShareInv, StampsPast, ShareAtMostOne
<1>5. ASSUME NEW c \in Cpu, process_exit_cleanup(c) PROVE ShareInv'
  <2>1. KeyOf(curr[c]) \in Key
    BY KeyOfType DEF ShareInv, TypeOK
  <2>2. MapsOK'
    BY <1>5, <2>1, ExitKeepsMaps DEF process_exit_cleanup
  <2> QED BY <1>5, <2>2 DEF process_exit_cleanup, history, ShareInv, TypeOK, MapsOK, Phase
<1>6. ASSUME NEW t \in Thread, Fork(t) PROVE ShareInv'
  <2>1. TypeOK'
    BY <1>6 DEF Fork, maps, history, ShareInv, TypeOK, Phase
  <2> QED BY <1>6, <2>1 DEF Fork, maps, ShareInv, StampsPast, ShareAtMostOne
<1>7. CASE UNCHANGED vars
  BY <1>7 DEF vars, ShareInv, TypeOK, StampsPast, ShareAtMostOne
<1> QED BY <1>1, <1>2, <1>3, <1>4, <1>5, <1>6, <1>7 DEF Next

\* The maps start empty.
LEMMA ShareStart == Init => ShareInv
<1>1. EmptyMap \in PerCpuHashMap
  BY DEF EmptyMap, PerCpuHashMap
<1>2. Init => overlapped \in BOOLEAN /\ dropped \in BOOLEAN
  BY DEF Init, Overlap
<1> QED
  BY <1>1, <1>2, CpuAccountingAssumption
  DEF Init, ShareInv, TypeOK, EmptyMap, StampsPast, ShareAtMostOne, Phase

\* The maps keep their types whatever tasks the kernel schedules where.
THEOREM TypeAlways == Spec => []TypeOK
<1>1. ShareInv => TypeOK
  BY DEF ShareInv
<1> QED BY <1>1, ShareStart, ShareStep, PTL DEF Spec

\* For any CPUs, threads and map capacity, the time charged to a process on a
\* CPU never exceeds the busy time of that CPU (main.rs 58-119, 194-225).
THEOREM ShareAlways == Spec => []ShareAtMostOne
<1>1. ShareInv => ShareAtMostOne
  BY DEF ShareInv
<1> QED BY <1>1, ShareStart, ShareStep, PTL DEF Spec

-----------------------------------------------------------------------------
(***************************************************************************)
(* What holds as long as no two threads of one process run at once.  A     *)
(* program run moves time from the stint in progress into CPU_TIME and     *)
(* changes the sum of the two on no CPU; only the clock does.              *)
(***************************************************************************)

\* A task runs on at most one CPU, and a dead task on none.
OnePlace ==
  /\ \A c, d \in Cpu : curr[c] = curr[d] => c = d \/ curr[c] = Swapper
  /\ \A c \in Cpu : curr[c] # Swapper => phase[curr[c]] # "dead"

\* Threads of one process that run at the same time have been noted.
OverlapNoted == Overlap(curr) => overlapped

\* A task that runs before its exit tracepoint is stamped.
Tracked ==
  ~overlapped /\ ~dropped => \A c \in Cpu : fresh[c] /\ curr[c] # Swapper /\ phase[curr[c]] \in NotTraced
                   => KeyOf(curr[c]) \in PID_LAST.keys

SingleInv == ShareInv /\ OnePlace /\ OverlapNoted /\ BusyTimeSound

\* No CPU gains or loses busy time.
Conserved == \A c \in Cpu : CPU_TIME'[c] + Pending(c)' = CPU_TIME[c] + Pending(c)

\* The time of a stint is a natural number.
LEMMA PendingNat == ASSUME ShareInv, NEW c \in Cpu PROVE Pending(c) \in Nat
<1>1. curr[c] # Swapper => KeyOf(curr[c]) \in Key
  BY KeyOfType DEF ShareInv, TypeOK
<1>2. curr[c] # Swapper => Delta(KeyOf(curr[c]), c) \in Nat
  BY <1>1, DeltaNat
<1> QED BY <1>2 DEF Pending

\* CPUs run tasks of different processes.
LEMMA Apart ==
  ASSUME OverlapNoted, ~overlapped, NEW c \in Cpu, NEW d \in Cpu, d # c, curr[d] # Swapper
  PROVE  KeyOf(curr[d]) # KeyOf(curr[c])
BY DEF OverlapNoted, Overlap, Share

\* So does the task a CPU switches to.
LEMMA ApartNext ==
  ASSUME NEW c \in Cpu, NEW d \in Cpu, d # c, NEW n \in Thread \cup {Swapper},
         NEW last \in BOOLEAN, context_switch_tracker(c, n, last), ~overlapped',
         TypeOK, curr[d] # Swapper
  PROVE  KeyOf(curr[d]) # KeyOf(n)
<1>1. ~Overlap(curr') /\ curr' = [curr EXCEPT ![c] = n]
  BY DEF context_switch_tracker
<1>2. curr'[c] = n /\ curr'[d] = curr[d]
  BY <1>1 DEF TypeOK
<1> QED BY <1>1, <1>2 DEF Overlap, Share

\* What has overlapped or was dropped stays noted.
LEMMA NotedForGood ==
  ASSUME [Next]_vars PROVE (overlapped => overlapped') /\ (dropped => dropped')
<1>1. ASSUME NEW c \in Cpu, NEW n \in Thread \cup {Swapper}, NEW last \in BOOLEAN,
             context_switch_tracker(c, n, last)
      PROVE  (overlapped => overlapped') /\ (dropped => dropped')
  BY <1>1 DEF context_switch_tracker
<1>2. ASSUME NEW c \in Cpu, SampleTick(c)
      PROVE  (overlapped => overlapped') /\ (dropped => dropped')
  BY <1>2 DEF SampleTick
<1>3. CASE UNCHANGED <<overlapped, dropped>>
  BY <1>3
<1> QED BY <1>1, <1>2, <1>3
        DEF Next, vars, Elapse, DoExit, process_exit_cleanup, Fork, history

\* A CPU whose task's key a program run leaves alone keeps its stint.
LEMMA StintKept ==
  ASSUME NEW d \in Cpu, now' = now, curr'[d] = curr[d],
         curr[d] # Swapper =>
           LET k == KeyOf(curr[d])
           IN  /\ k \in PID_LAST'.keys <=> k \in PID_LAST.keys
               /\ PID_LAST'.slot[k] = PID_LAST.slot[k]
  PROVE  Pending(d)' = Pending(d)
BY DEF Pending, Delta, KeyOf

\* sched_switch conserves the busy time of every CPU.
LEMMA SwitchConserves ==
  ASSUME SingleInv, ~overlapped, ~overlapped', NEW c \in Cpu, NEW n \in Thread \cup {Swapper},
         NEW last \in BOOLEAN, context_switch_tracker(c, n, last)
  PROVE  Conserved
<1> DEFINE k == KeyOf(curr[c])
           seen == curr[c] # Swapper /\ k \in PID_LAST.keys
           m == IF seen THEN Remove(PID_LAST, k) ELSE PID_LAST
           q == KeyOf(n)
<1>1. /\ PID_LAST \in PerCpuHashMap
      /\ CPU_TIME \in [Cpu -> Nat]
      /\ now \in Nat
      /\ curr \in [Cpu -> Thread \cup {Swapper}]
  BY DEF SingleInv, ShareInv, TypeOK
<1>2. k \in Key /\ q \in Key
  BY <1>1, KeyOfType
<1>3. /\ IF seen THEN Account(k, c) ELSE UNCHANGED <<PID_TIMES, CPU_TIME>>
      /\ PID_LAST' = Insert(m, q, c, now)
      /\ curr' = [curr EXCEPT ![c] = n]
      /\ now' = now
  BY DEF context_switch_tracker, try_sched_switch
<1>4. /\ m \in PerCpuHashMap
      /\ \A j \in Key : j # k => /\ m.slot[j] = PID_LAST.slot[j]
                                 /\ j \in m.keys <=> j \in PID_LAST.keys
      /\ ~seen => m = PID_LAST
  <2>1. Removed(PID_LAST, k, Remove(PID_LAST, k))
    BY <1>1, <1>2, RemoveFacts
  <2> QED BY <1>1, <2>1 DEF Removed
<1>5. Inserted(m, q, c, now, PID_LAST')
  BY <1>1, <1>2, <1>3, <1>4, InsertFacts
<1>6. CPU_TIME'[c] + Pending(c)' = CPU_TIME[c] + Pending(c)
  <2>1. CPU_TIME'[c] = CPU_TIME[c] + Pending(c)
    <3>1. CASE seen
      BY <1>1, <1>3, <3>1 DEF Account, Pending
    <3>2. CASE ~seen
      BY <1>1, <1>3, <3>2 DEF Pending
    <3> QED BY <3>1, <3>2
  <2>2. Pending(c)' = 0
    <3>1. curr'[c] = n
      BY <1>1, <1>3
    <3>2. q \in PID_LAST'.keys => PID_LAST'.slot[q][c] = now
      BY <1>5 DEF Inserted
    <3> QED BY <1>1, <1>3, <3>1, <3>2 DEF Pending, Delta, KeyOf
  <2>3. CPU_TIME'[c] \in Int
    BY <1>1, <2>1, PendingNat DEF SingleInv
  <2> QED BY <2>1, <2>2, <2>3
<1>7. ASSUME NEW d \in Cpu, d # c
      PROVE  CPU_TIME'[d] + Pending(d)' = CPU_TIME[d] + Pending(d)
  <2>1. CPU_TIME'[d] = CPU_TIME[d]
    BY <1>1, <1>3, <1>7 DEF Account
  <2>2. curr'[d] = curr[d] /\ curr[d] \in Thread \cup {Swapper}
    BY <1>1, <1>3, <1>7
  <2>3. CASE curr[d] = Swapper
    BY <1>3, <2>1, <2>2, <2>3, StintKept
  <2>4. CASE curr[d] # Swapper
    <3> DEFINE j == KeyOf(curr[d])
    <3>1. j # k
      BY <1>7, <2>4, Apart DEF SingleInv
    <3>2. j # q
      BY <1>7, <2>4, ApartNext DEF SingleInv, ShareInv
    <3>3. j \in Key
      BY <1>1, KeyOfType
    <3> HIDE DEF j, k, q, m
    <3>4. PID_LAST'.slot[j] = PID_LAST.slot[j] /\ (j \in PID_LAST'.keys <=> j \in PID_LAST.keys)
      BY <1>4, <1>5, <3>1, <3>2, <3>3 DEF Inserted
    <3> QED BY <1>3, <2>1, <2>2, <3>4, StintKept DEF j
  <2> QED BY <2>3, <2>4
<1> QED BY <1>6, <1>7 DEF Conserved

\* sample_tick conserves the busy time of every CPU.
LEMMA SampleConserves ==
  ASSUME SingleInv, ~overlapped, NEW c \in Cpu, SampleTick(c)
  PROVE  Conserved
<1> DEFINE k == KeyOf(curr[c])
<1>1. /\ PID_LAST \in PerCpuHashMap
      /\ CPU_TIME \in [Cpu -> Nat]
      /\ now \in Nat
      /\ curr \in [Cpu -> Thread \cup {Swapper}]
      /\ now' = now /\ curr' = curr
  BY DEF SingleInv, ShareInv, TypeOK, SampleTick, kernel
<1>2. k \in Key
  BY <1>1, KeyOfType
<1>3. CASE UNCHANGED maps
  BY <1>1, <1>3 DEF maps, Conserved, Pending, Delta, KeyOf
<1>4. CASE curr[c] # Swapper
  <2>1. /\ PID_LAST' = Insert(PID_LAST, k, c, now)
        /\ IF k \in PID_LAST.keys THEN Account(k, c) ELSE UNCHANGED <<PID_TIMES, CPU_TIME>>
    BY <1>4 DEF SampleTick, sample_tick
  <2>2. Inserted(PID_LAST, k, c, now, PID_LAST')
    BY <1>1, <1>2, <2>1, InsertFacts
  <2>3. CPU_TIME'[c] + Pending(c)' = CPU_TIME[c] + Pending(c)
    <3>1. CPU_TIME'[c] = CPU_TIME[c] + Pending(c)
      <4>1. CASE k \in PID_LAST.keys
        BY <1>1, <1>4, <2>1, <4>1 DEF Account, Pending
      <4>2. CASE k \notin PID_LAST.keys
        BY <1>1, <2>1, <4>2 DEF Pending
      <4> QED BY <4>1, <4>2
    <3>2. Pending(c)' = 0
      <4>1. k \in PID_LAST'.keys => PID_LAST'.slot[k][c] = now
        BY <2>2 DEF Inserted
      <4> QED BY <1>1, <4>1 DEF Pending, Delta, KeyOf
    <3>3. CPU_TIME'[c] \in Int
      BY <1>1, <3>1, PendingNat DEF SingleInv
    <3> QED BY <3>1, <3>2, <3>3
  <2>4. ASSUME NEW d \in Cpu, d # c
        PROVE  CPU_TIME'[d] + Pending(d)' = CPU_TIME[d] + Pending(d)
    <3>1. CPU_TIME'[d] = CPU_TIME[d]
      BY <1>1, <2>1, <2>4 DEF Account
    <3>2. CASE curr[d] = Swapper
      BY <1>1, <3>1, <3>2, StintKept
    <3>3. CASE curr[d] # Swapper
      <4> DEFINE j == KeyOf(curr[d])
      <4>1. j # k
        BY <2>4, <3>3, Apart DEF SingleInv
      <4>2. j # k /\ j \in Key
        BY <1>1, <4>1, KeyOfType
      <4> HIDE DEF j, k
      <4>3. PID_LAST'.slot[j] = PID_LAST.slot[j] /\ (j \in PID_LAST'.keys <=> j \in PID_LAST.keys)
        BY <2>2, <4>2 DEF Inserted
      <4> QED BY <1>1, <3>1, <4>3, StintKept DEF j
    <3> QED BY <3>2, <3>3
  <2> QED BY <2>3, <2>4 DEF Conserved
<1> QED BY <1>3, <1>4 DEF SampleTick, sample_tick

\* process_exit_cleanup conserves the busy time of every CPU.
LEMMA ExitConserves ==
  ASSUME SingleInv, ~overlapped, NEW c \in Cpu, process_exit_cleanup(c)
  PROVE  Conserved
<1> DEFINE k == KeyOf(curr[c])
<1>1. /\ PID_LAST \in PerCpuHashMap
      /\ CPU_TIME \in [Cpu -> Nat]
      /\ now \in Nat
      /\ curr \in [Cpu -> Thread \cup {Swapper}]
      /\ now' = now /\ curr' = curr /\ curr[c] # Swapper
  BY DEF SingleInv, ShareInv, TypeOK, process_exit_cleanup
<1>2. k \in Key
  BY <1>1, KeyOfType
<1>3. /\ PID_LAST' = Remove(PID_LAST, k)
      /\ CPU_TIME' = IF k \in PID_LAST.keys THEN [CPU_TIME EXCEPT ![c] = @ + Delta(k, c)]
                     ELSE CPU_TIME
  BY DEF process_exit_cleanup, try_process_exit
<1>4. Removed(PID_LAST, k, PID_LAST')
  BY <1>1, <1>2, <1>3, RemoveFacts
<1>5. CPU_TIME'[c] + Pending(c)' = CPU_TIME[c] + Pending(c)
  <2>1. CPU_TIME'[c] = CPU_TIME[c] + Pending(c)
    BY <1>1, <1>3 DEF Pending
  <2>2. Pending(c)' = 0
    BY <1>1, <1>4 DEF Pending, KeyOf, Removed
  <2>3. CPU_TIME'[c] \in Int
    BY <1>1, <2>1, PendingNat DEF SingleInv
  <2> QED BY <2>1, <2>2, <2>3
<1>6. ASSUME NEW d \in Cpu, d # c
      PROVE  CPU_TIME'[d] + Pending(d)' = CPU_TIME[d] + Pending(d)
  <2>1. CPU_TIME'[d] = CPU_TIME[d]
    BY <1>1, <1>3, <1>6
  <2>2. CASE curr[d] = Swapper
    BY <1>1, <2>1, <2>2, StintKept
  <2>3. CASE curr[d] # Swapper
    <3> DEFINE j == KeyOf(curr[d])
    <3>1. j # k
      BY <1>6, <2>3, Apart DEF SingleInv
    <3>2. j # k /\ j \in Key
      BY <1>1, <3>1, KeyOfType
    <3> HIDE DEF j, k
    <3>3. PID_LAST'.slot[j] = PID_LAST.slot[j] /\ (j \in PID_LAST'.keys <=> j \in PID_LAST.keys)
      BY <1>4, <3>2 DEF Removed
    <3> QED BY <1>1, <2>1, <3>3, StintKept DEF j
  <2> QED BY <2>2, <2>3
<1> QED BY <1>5, <1>6 DEF Conserved

\* Every step but the clock conserves busy time and leaves the history alone.
LEMMA OnlyTheClock ==
  ASSUME SingleInv, [Next]_vars, ~overlapped, ~overlapped'
  PROVE  Elapse \/ (Conserved /\ UNCHANGED <<busy, owed>>)
<1>1. ASSUME NEW c \in Cpu, NEW n \in Thread \cup {Swapper}, NEW last \in BOOLEAN,
             context_switch_tracker(c, n, last)
      PROVE  Conserved /\ UNCHANGED <<busy, owed>>
  BY <1>1, SwitchConserves DEF context_switch_tracker
<1>2. ASSUME NEW c \in Cpu, SampleTick(c) PROVE Conserved /\ UNCHANGED <<busy, owed>>
  BY <1>2, SampleConserves DEF SampleTick
<1>3. ASSUME NEW c \in Cpu, process_exit_cleanup(c)
      PROVE  Conserved /\ UNCHANGED <<busy, owed>>
  BY <1>3, ExitConserves DEF process_exit_cleanup, history
<1>4. ASSUME UNCHANGED <<PID_LAST, PID_TIMES, CPU_TIME, now, curr>> PROVE Conserved
  BY <1>4 DEF Conserved, Pending, Delta, KeyOf
<1>5. ASSUME NEW c \in Cpu, DoExit(c) PROVE Conserved /\ UNCHANGED <<busy, owed>>
  BY <1>4, <1>5 DEF DoExit, maps, history
<1>6. ASSUME NEW t \in Thread, Fork(t) PROVE Conserved /\ UNCHANGED <<busy, owed>>
  BY <1>4, <1>6 DEF Fork, maps, history
<1>7. CASE UNCHANGED vars
  BY <1>4, <1>7 DEF vars
<1> QED BY <1>1, <1>2, <1>3, <1>5, <1>6, <1>7 DEF Next

\* Placement of tasks: the scheduler runs a task in one place, a dead one never.
LEMMA OnePlaceStep == ShareInv /\ OnePlace /\ [Next]_vars => OnePlace'
<1> SUFFICES ASSUME ShareInv, OnePlace, [Next]_vars PROVE OnePlace'
  OBVIOUS
<1> USE DEF OnePlace, ShareInv, TypeOK
<1>1. ASSUME NEW c \in Cpu, NEW n \in Thread \cup {Swapper}, NEW last \in BOOLEAN,
             context_switch_tracker(c, n, last)
      PROVE  OnePlace'
  BY <1>1, CpuAccountingAssumption DEF context_switch_tracker
<1>2. CASE Elapse
  BY <1>2 DEF Elapse, kernel
<1>3. ASSUME NEW c \in Cpu, SampleTick(c) PROVE OnePlace'
  BY <1>3 DEF SampleTick, kernel
<1>4. ASSUME NEW c \in Cpu, DoExit(c) PROVE OnePlace'
  BY <1>4, CpuAccountingAssumption DEF DoExit
<1>5. ASSUME NEW c \in Cpu, process_exit_cleanup(c) PROVE OnePlace'
  BY <1>5, CpuAccountingAssumption DEF process_exit_cleanup
<1>6. ASSUME NEW t \in Thread, Fork(t) PROVE OnePlace'
  BY <1>6, CpuAccountingAssumption DEF Fork
<1>7. CASE UNCHANGED vars
  BY <1>7 DEF vars
<1> QED BY <1>1, <1>2, <1>3, <1>4, <1>5, <1>6, <1>7 DEF Next

\* Overlapping threads are noted when they are switched in.
LEMMA OverlapNotedStep == OverlapNoted /\ [Next]_vars => OverlapNoted'
<1> SUFFICES ASSUME OverlapNoted, [Next]_vars PROVE OverlapNoted'
  OBVIOUS
<1>1. ASSUME NEW c \in Cpu, NEW n \in Thread \cup {Swapper}, NEW last \in BOOLEAN,
             context_switch_tracker(c, n, last)
      PROVE  OverlapNoted'
  <2>1. Overlap(curr') => overlapped'
    BY <1>1 DEF context_switch_tracker
  <2> QED BY <2>1 DEF OverlapNoted, Overlap, Share, KeyOf
<1>2. ASSUME UNCHANGED <<curr, overlapped>> PROVE OverlapNoted'
  BY <1>2 DEF OverlapNoted, Overlap, Share, KeyOf
<1> QED BY <1>1, <1>2
        DEF Next, vars, Elapse, SampleTick, DoExit, process_exit_cleanup, Fork, kernel, history

\* What the clock does to a stint.
LEMMA ClockStint ==
  ASSUME ShareInv, Elapse, NEW c \in Cpu
  PROVE  Pending(c)' = IF curr[c] # Swapper /\ KeyOf(curr[c]) \in PID_LAST.keys
                       THEN Pending(c) + 1 ELSE 0
<1>1. curr[c] # Swapper => PID_LAST.slot[KeyOf(curr[c])][c] \in Nat
  BY KeyOfType DEF ShareInv, TypeOK, PerCpuHashMap
<1> QED BY <1>1 DEF ShareInv, TypeOK, Elapse, maps, kernel, Pending, Delta, KeyOf

\* SingleInv is inductive.
LEMMA SoundStep == SingleInv /\ [Next]_vars => SingleInv'
<1> SUFFICES ASSUME SingleInv, [Next]_vars PROVE SingleInv'
  OBVIOUS
<1>1. ShareInv' /\ OnePlace' /\ OverlapNoted'
  BY ShareStep, OnePlaceStep, OverlapNotedStep DEF SingleInv
<1>2. ASSUME NEW c \in Cpu, ~overlapped' PROVE CPU_TIME'[c] + Pending(c)' <= busy'[c]
  <2>0. ~overlapped
    BY <1>2, NotedForGood
  <2>1. /\ CPU_TIME[c] + Pending(c) <= busy[c]
        /\ CPU_TIME[c] \in Nat /\ busy[c] \in Nat /\ Pending(c) \in Nat
    BY <2>0, PendingNat DEF SingleInv, ShareInv, TypeOK, BusyTimeSound
  <2>2. CASE Elapse
    <3>1. CPU_TIME' = CPU_TIME /\ busy'[c] = IF curr[c] = Swapper THEN busy[c] ELSE busy[c] + 1
      BY <2>2 DEF Elapse, maps
    <3>2. Pending(c)' = IF curr[c] # Swapper /\ KeyOf(curr[c]) \in PID_LAST.keys
                        THEN Pending(c) + 1 ELSE 0
      BY <2>2, ClockStint DEF SingleInv
    <3> QED BY <2>1, <3>1, <3>2
  <2>3. CASE Conserved /\ UNCHANGED <<busy, owed>>
    BY <2>1, <2>3 DEF Conserved
  <2> QED BY <1>2, <2>0, <2>2, <2>3, OnlyTheClock
<1> QED BY <1>1, <1>2 DEF SingleInv, BusyTimeSound

\* For any CPUs, processes, threads and map capacity, as long as no two threads of
\* one process have run at the same time, CPU_TIME with the stint in progress never
\* exceeds the real busy time of the CPU: idle time is never counted and no time
\* is counted twice, across switches, samples, migrations, exits, failed
\* insertions and reuse of ids (main.rs 58-119, 194-225).
THEOREM BusyTimeSoundAlways == Spec => []BusyTimeSound
<1>1. Init => SingleInv
  <2>1. Init => ShareInv
    BY ShareStart
  <2>2. Init => OnePlace /\ OverlapNoted /\ BusyTimeSound
    BY CpuAccountingAssumption
    DEF Init, OnePlace, OverlapNoted, BusyTimeSound, Pending, EmptyMap
  <2> QED BY <2>1, <2>2 DEF SingleInv
<1>2. SingleInv /\ [Next]_vars => SingleInv'
  BY SoundStep
<1>3. SingleInv => BusyTimeSound
  BY DEF SingleInv
<1> QED BY <1>1, <1>2, <1>3, PTL DEF Spec

-----------------------------------------------------------------------------
(***************************************************************************)
(* No time is lost either, as long as the maps do not fill up.             *)
(***************************************************************************)

CompleteInv == SingleInv /\ Tracked /\ BusyTimeComplete

\* An insertion that is not refused succeeds.
LEMMA InsertSucceeds ==
  ASSUME NEW m \in PerCpuHashMap, NEW k \in Key, NEW c \in Cpu, NEW v \in Nat,
         PID_LAST' = Insert(m, k, c, v), ~Refused(k)
  PROVE  k \in PID_LAST'.keys
<1>1. Inserted(m, k, c, v, PID_LAST')
  BY InsertFacts
<1>2. k \notin PID_LAST'.keys => PID_LAST'.keys = m.keys
  BY <1>1 DEF Inserted, PerCpuHashMap
<1> QED BY <1>1, <1>2 DEF Inserted, Refused

\* A running task stays stamped until its exit tracepoint.
LEMMA TrackedStep == SingleInv /\ Tracked /\ [Next]_vars => Tracked'
<1> SUFFICES ASSUME SingleInv, Tracked, [Next]_vars, ~overlapped', ~dropped' PROVE Tracked'
  BY DEF Tracked
<1>x. ~overlapped /\ ~dropped /\ OverlapNoted
  BY NotedForGood DEF SingleInv
<1>0. /\ PID_LAST \in PerCpuHashMap
      /\ now \in Nat
      /\ curr \in [Cpu -> Thread \cup {Swapper}]
      /\ phase \in [Thread -> Phase]
      /\ fresh \in [Cpu -> BOOLEAN]
      /\ OnePlace
  BY DEF SingleInv, ShareInv, TypeOK
<1>1. ASSUME NEW c \in Cpu, NEW n \in Thread \cup {Swapper}, NEW last \in BOOLEAN,
             context_switch_tracker(c, n, last)
      PROVE  Tracked'
  <2> DEFINE k == KeyOf(curr[c])
             seen == curr[c] # Swapper /\ k \in PID_LAST.keys
             m == IF seen THEN Remove(PID_LAST, k) ELSE PID_LAST
  <2>1. k \in Key /\ KeyOf(n) \in Key
    BY <1>0, KeyOfType
  <2>2. m \in PerCpuHashMap /\ PID_LAST.keys \ {k} \subseteq m.keys
    <3>1. Removed(PID_LAST, k, Remove(PID_LAST, k))
      BY <1>0, <2>1, RemoveFacts
    <3> QED BY <1>0, <3>1 DEF Removed
  <2>3. PID_LAST' = Insert(m, KeyOf(n), c, now)
    BY <1>1 DEF context_switch_tracker, try_sched_switch
  <2> HIDE DEF m
  <2>4. KeyOf(n) \in PID_LAST'.keys /\ PID_LAST.keys \ {k} \subseteq PID_LAST'.keys
    <3>1. Inserted(m, KeyOf(n), c, now, PID_LAST')
      BY <1>0, <2>1, <2>2, <2>3, InsertFacts
    <3>2. KeyOf(n) \in PID_LAST'.keys
      BY <1>0, <1>1, <2>1, <2>2, <2>3, InsertSucceeds DEF context_switch_tracker
    <3> QED BY <2>2, <3>1, <3>2 DEF Inserted
  <2>5. SUFFICES ASSUME NEW d \in Cpu, fresh'[d], curr'[d] # Swapper,
                        phase'[curr'[d]] \in NotTraced
                 PROVE  KeyOf(curr'[d]) \in PID_LAST'.keys
    BY DEF Tracked, KeyOf
  <2>6. CASE d = c
    <3>1. curr'[d] = n
      BY <1>0, <1>1, <2>6 DEF context_switch_tracker
    <3> QED BY <2>4, <3>1
  <2>7. CASE d # c
    <3>1. curr'[d] = curr[d] /\ fresh'[d] = fresh[d]
      BY <1>0, <1>1, <2>7 DEF context_switch_tracker
    <3>2. curr[d] \in Thread /\ curr[d] # curr[c]
      BY <1>0, <2>5, <2>7, <3>1 DEF OnePlace
    <3>3. phase'[curr[d]] = phase[curr[d]]
      BY <1>0, <1>1, <3>2 DEF context_switch_tracker
    <3>4. KeyOf(curr[d]) \in PID_LAST.keys
      BY <1>x, <2>5, <3>1, <3>3 DEF Tracked
    <3>5. KeyOf(curr[d]) # k
      BY <1>x, <2>5, <2>7, <3>1, Apart
    <3> QED BY <2>4, <3>1, <3>4, <3>5
  <2> QED BY <2>6, <2>7
<1>2. CASE Elapse
  BY <1>2, <1>x DEF Elapse, maps, kernel, Tracked, KeyOf
<1>3. ASSUME NEW c \in Cpu, SampleTick(c) PROVE Tracked'
  <2>1. curr' = curr /\ phase' = phase /\ fresh' = [fresh EXCEPT ![c] = TRUE]
    BY <1>3 DEF SampleTick, kernel
  <2>2. CASE curr[c] = Swapper
    <3>1. PID_LAST' = PID_LAST
      BY <1>3, <2>2 DEF SampleTick, sample_tick, maps
    <3> QED BY <1>0, <1>x, <2>1, <2>2, <3>1 DEF Tracked, KeyOf
  <2>3. CASE curr[c] # Swapper
    <3> DEFINE k == KeyOf(curr[c])
    <3>1. k \in Key
      BY <1>0, KeyOfType
    <3>2. PID_LAST' = Insert(PID_LAST, k, c, now)
      BY <1>3, <2>3 DEF SampleTick, sample_tick
    <3>3. k \in PID_LAST'.keys
      BY <1>0, <1>3, <2>3, <3>1, <3>2, InsertSucceeds DEF SampleTick
    <3>4. PID_LAST.keys \subseteq PID_LAST'.keys
      <4>1. Inserted(PID_LAST, k, c, now, PID_LAST')
        BY <1>0, <3>1, <3>2, InsertFacts
      <4> QED BY <4>1 DEF Inserted
    <3> QED BY <1>0, <1>x, <2>1, <3>3, <3>4 DEF Tracked, KeyOf
  <2> QED BY <2>2, <2>3
<1>4. ASSUME NEW c \in Cpu, DoExit(c) PROVE Tracked'
  <2>1. /\ PID_LAST' = PID_LAST /\ curr' = curr /\ fresh' = fresh
        /\ \A t \in Thread : phase'[t] = phase[t] \/ phase[t] \in NotTraced
    BY <1>0, <1>4, CpuAccountingAssumption DEF DoExit, maps, history, NotTraced
  <2> QED BY <1>0, <1>x, <2>1, CpuAccountingAssumption DEF Tracked, KeyOf
<1>5. ASSUME NEW c \in Cpu, process_exit_cleanup(c) PROVE Tracked'
  <2> DEFINE k == KeyOf(curr[c])
  <2>1. /\ PID_LAST' = Remove(PID_LAST, k) /\ curr' = curr /\ fresh' = fresh
        /\ phase' = [phase EXCEPT ![curr[c]] = "traced"]
        /\ curr[c] \in Thread
    BY <1>0, <1>5 DEF process_exit_cleanup, try_process_exit, history
  <2>2. PID_LAST'.keys = PID_LAST.keys \ {k}
    <3>1. Removed(PID_LAST, k, PID_LAST')
      BY <1>0, <2>1, KeyOfType, RemoveFacts
    <3> QED BY <3>1 DEF Removed
  <2>3. SUFFICES ASSUME NEW d \in Cpu, fresh[d], curr[d] # Swapper,
                        phase'[curr[d]] \in NotTraced
                 PROVE  KeyOf(curr[d]) \in PID_LAST'.keys
    BY <2>1 DEF Tracked, KeyOf
  <2>4. curr[d] # curr[c] /\ curr[d] \in Thread /\ d # c
    BY <1>0, <2>1, <2>3 DEF NotTraced
  <2>5. phase'[curr[d]] = phase[curr[d]]
    BY <1>0, <2>1, <2>4
  <2>6. KeyOf(curr[d]) \in PID_LAST.keys
    BY <1>x, <2>3, <2>5 DEF Tracked
  <2>7. KeyOf(curr[d]) # k
    BY <1>x, <2>3, <2>4, Apart
  <2> QED BY <2>2, <2>6, <2>7
<1>6. ASSUME NEW t \in Thread, Fork(t) PROVE Tracked'
  <2>1. /\ PID_LAST' = PID_LAST /\ curr' = curr /\ fresh' = fresh
        /\ phase' = [phase EXCEPT ![t] = "alive"] /\ phase[t] = "dead"
    BY <1>6 DEF Fork, maps, history
  <2>2. \A c \in Cpu : curr[c] # t
    BY <1>0, <2>1, CpuAccountingAssumption DEF OnePlace
  <2> QED BY <1>0, <1>x, <2>1, <2>2, CpuAccountingAssumption DEF Tracked, KeyOf
<1>7. CASE UNCHANGED vars
  BY <1>7 DEF vars, Tracked, KeyOf
<1> QED BY <1>1, <1>2, <1>3, <1>4, <1>5, <1>6, <1>7 DEF Next

\* For any CPUs, processes and threads, as long as no two threads of one process
\* have run at the same time and no stamp was refused by a full map, all the time
\* tasks run between the first event on their CPU and their exit tracepoint is in
\* CPU_TIME or in the stint in progress (main.rs 58-119, 194-225).
THEOREM BusyTimeCompleteAlways == Spec => []BusyTimeComplete
<1>1. Init => CompleteInv
  <2>1. Init => ShareInv
    BY ShareStart
  <2>2. Init => OnePlace /\ OverlapNoted /\ BusyTimeSound /\ Tracked /\ BusyTimeComplete
    BY CpuAccountingAssumption
    DEF Init, OnePlace, OverlapNoted, BusyTimeSound, BusyTimeComplete, Tracked, Pending, EmptyMap
  <2> QED BY <2>1, <2>2 DEF SingleInv, CompleteInv
<1>2. CompleteInv /\ [Next]_vars => CompleteInv'
  <2> SUFFICES ASSUME CompleteInv, [Next]_vars PROVE CompleteInv'
    OBVIOUS
  <2>1. SingleInv' /\ Tracked'
    BY SoundStep, TrackedStep DEF CompleteInv
  <2>2. ASSUME NEW c \in Cpu, ~overlapped', ~dropped'
        PROVE  owed'[c] <= CPU_TIME'[c] + Pending(c)'
    <3>0. ~overlapped /\ ~dropped
      BY <2>2, NotedForGood
    <3>1. /\ owed[c] <= CPU_TIME[c] + Pending(c)
          /\ CPU_TIME[c] \in Nat /\ owed[c] \in Nat /\ Pending(c) \in Nat
      BY <3>0, PendingNat DEF CompleteInv, SingleInv, ShareInv, TypeOK, BusyTimeComplete
    <3>2. CASE Elapse
      <4>1. /\ CPU_TIME' = CPU_TIME
            /\ owed'[c] = IF curr[c] # Swapper /\ fresh[c] /\ phase[curr[c]] \in NotTraced
                          THEN owed[c] + 1 ELSE owed[c]
        BY <3>2 DEF Elapse, maps
      <4>2. Pending(c)' = IF curr[c] # Swapper /\ KeyOf(curr[c]) \in PID_LAST.keys
                          THEN Pending(c) + 1 ELSE 0
        BY <3>2, ClockStint DEF CompleteInv, SingleInv
      <4>3. CASE curr[c] # Swapper /\ KeyOf(curr[c]) \in PID_LAST.keys
        BY <3>1, <4>1, <4>2, <4>3
      <4>4. CASE ~(curr[c] # Swapper /\ KeyOf(curr[c]) \in PID_LAST.keys)
        <5>1. Pending(c) = 0
          BY <4>4 DEF Pending
        <5>2. owed'[c] = owed[c]
          BY <3>0, <4>1, <4>4 DEF CompleteInv, Tracked
        <5> QED BY <3>1, <4>1, <4>2, <4>4, <5>1, <5>2
      <4> QED BY <4>3, <4>4
    <3>3. CASE Conserved /\ UNCHANGED <<busy, owed>>
      BY <3>1, <3>3 DEF Conserved
    <3> QED BY <2>2, <3>0, <3>2, <3>3, OnlyTheClock DEF CompleteInv
  <2> QED BY <2>1, <2>2 DEF CompleteInv, BusyTimeComplete
<1>3. CompleteInv => BusyTimeComplete
  BY DEF CompleteInv
<1> QED BY <1>1, <1>2, <1>3, PTL DEF Spec

-----------------------------------------------------------------------------
(***************************************************************************)
(* The accounting implements the counters its readers rely on.             *)
(***************************************************************************)

\* Adding a delta moves one counter forward.
LEMMA AddDeltaGrows ==
  ASSUME ShareInv, NEW k \in Key, NEW c \in Cpu,
         CPU_TIME' = [CPU_TIME EXCEPT ![c] = @ + Delta(k, c)]
  PROVE  Counters!Next
<1> DEFINE d == Delta(k, c)
<1>1. d \in Nat
  BY DeltaNat
<1>2. CPU_TIME \in [Cpu -> Nat]
  BY DEF ShareInv, TypeOK
<1>3. CPU_TIME' = [CPU_TIME EXCEPT ![c] = @ + d]
  OBVIOUS
<1> HIDE DEF d
<1>4. CPU_TIME'[c] >= CPU_TIME[c]
  BY <1>1, <1>2, <1>3
<1>5. CPU_TIME' = [CPU_TIME EXCEPT ![c] = CPU_TIME'[c]]
  BY <1>2, <1>3
<1> QED BY <1>4, <1>5 DEF Counters!Next, Counters!Grow

\* Every step of the accounting moves at most one counter, forward.
LEMMA CountersStep ==
  ASSUME ShareInv, [Next]_vars PROVE [Counters!Next]_CPU_TIME
<1>1. ASSUME NEW c \in Cpu, NEW n \in Thread \cup {Swapper}, NEW last \in BOOLEAN,
             context_switch_tracker(c, n, last)
      PROVE  [Counters!Next]_CPU_TIME
  <2>1. KeyOf(curr[c]) \in Key
    BY KeyOfType DEF ShareInv, TypeOK
  <2>2. \/ UNCHANGED CPU_TIME
        \/ CPU_TIME' = [CPU_TIME EXCEPT ![c] = @ + Delta(KeyOf(curr[c]), c)]
    BY <1>1 DEF context_switch_tracker, try_sched_switch, Account
  <2> QED BY <2>1, <2>2, AddDeltaGrows
<1>2. ASSUME NEW c \in Cpu, SampleTick(c) PROVE [Counters!Next]_CPU_TIME
  <2>1. KeyOf(curr[c]) \in Key
    BY KeyOfType DEF ShareInv, TypeOK
  <2>2. \/ UNCHANGED CPU_TIME
        \/ CPU_TIME' = [CPU_TIME EXCEPT ![c] = @ + Delta(KeyOf(curr[c]), c)]
    BY <1>2 DEF SampleTick, sample_tick, Account, maps
  <2> QED BY <2>1, <2>2, AddDeltaGrows
<1>3. ASSUME NEW c \in Cpu, process_exit_cleanup(c) PROVE [Counters!Next]_CPU_TIME
  <2>1. KeyOf(curr[c]) \in Key
    BY KeyOfType DEF ShareInv, TypeOK
  <2>2. \/ UNCHANGED CPU_TIME
        \/ CPU_TIME' = [CPU_TIME EXCEPT ![c] = @ + Delta(KeyOf(curr[c]), c)]
    BY <1>3 DEF process_exit_cleanup, try_process_exit
  <2> QED BY <2>1, <2>2, AddDeltaGrows
<1>4. CASE Elapse
  BY <1>4 DEF Elapse, maps
<1>5. ASSUME NEW c \in Cpu, DoExit(c) PROVE [Counters!Next]_CPU_TIME
  BY <1>5 DEF DoExit, maps
<1>6. ASSUME NEW t \in Thread, Fork(t) PROVE [Counters!Next]_CPU_TIME
  BY <1>6 DEF Fork, maps
<1>7. CASE UNCHANGED vars
  BY <1>7 DEF vars
<1> QED BY <1>1, <1>2, <1>3, <1>4, <1>5, <1>6, <1>7 DEF Next

\* For any CPUs, threads and map capacity, CPU_TIME is an array of counters that
\* start at zero and only grow, one at a time (main.rs 38, 81-83, 110-112, 212-214).
THEOREM ImplementsCounters == Spec => CountersSpec
<1>1. Init => Counters!Init
  BY DEF Init, Counters!Init
<1>2. ShareInv /\ [Next]_vars => [Counters!Next]_CPU_TIME
  BY CountersStep
<1> QED BY <1>1, <1>2, ShareStart, ShareStep, PTL DEF Spec, CountersSpec, Counters!Spec

-----------------------------------------------------------------------------
(***************************************************************************)
(* Types and bounds of cpu_state_tick.                                     *)
(***************************************************************************)

\* The loops of an instance stay within their arrays, and no more CPUs are counted than
\* were looked at.
LoopBounds(t) ==
  /\ pc[t] = "off" => at[t] = 0 /\ \A s \in Socket : active[t][s] = Unset
  /\ pc[t] = "snap" => \A s \in Socket : active[t][s] = Unset
  /\ pc[t] = "scan" =>
       /\ at[t] \in 0 .. MaxCpu
       /\ \A s \in Socket : active[t][s] = Unset \/ active[t][s] <= at[t]
  /\ pc[t] = "emit" => at[t] \in 1 .. MaxSocket + 1
  /\ pc[t] = "snap" => at[t] \in 0 .. MaxCpu

\* Types and bounds.
TickInv == TickTypeOK /\ \A t \in Present : LoopBounds(t)

\* The initial states.
LEMMA TickInitInv == TickInit => TickInv
<1> SUFFICES ASSUME TickInit PROVE TickInv
  OBVIOUS
<1> USE CpuStateTickAssumption DEF TickInit
<1>1. /\ CPU_TIME \in [CpuIdx -> 0 .. MaxWork] /\ CPU_SNAPSHOT \in [CpuIdx -> 0 .. MaxWork]
      /\ CPU_TO_SOCKET \in [CpuIdx -> 0 .. MaxSocket]
  OBVIOUS
<1>2. ring \in Seq(CpuStateEvent) /\ Len(ring) <= RingSize
  OBVIOUS
<1>3. active \in [Present -> [Socket -> 0 .. Unset]]
  BY DEF Unset
<1>4. at \in [Present -> 0 .. MaxCpu + MaxSocket]
  OBVIOUS
<1>5. TickTypeOK
  BY <1>1, <1>2, <1>3, <1>4 DEF TickTypeOK
<1> QED BY <1>5 DEF TickInv, LoopBounds

\* A CPU works.
LEMMA WorkInv == ASSUME TickInv, NEW c \in Online, Work(c) PROVE TickInv'
<1> USE CpuStateTickAssumption DEF TickInv, TickTypeOK, Work
<1>1. c \in CpuIdx
  BY DEF CpuIdx
<1>2. CPU_TIME' \in [CpuIdx -> 0 .. MaxWork]
  BY <1>1
<1>3. unseen' \subseteq CpuIdx
  BY <1>1
<1>4. TickTypeOK'
  BY <1>2, <1>3
<1>5. ASSUME NEW t \in Present PROVE LoopBounds(t)'
  BY DEF LoopBounds
<1> QED BY <1>4, <1>5

\* Userspace sets an entry of the socket map.
LEMMA PopulateInv == ASSUME TickInv, populate_cpu_to_socket_map PROVE TickInv'
<1> USE CpuStateTickAssumption DEF TickInv, TickTypeOK, tick_history
<1>1. PICK c \in todo : /\ CPU_TO_SOCKET' = [CPU_TO_SOCKET EXCEPT ![c] = PackageOf[c] + 1]
                        /\ todo' = todo \ {c}
  BY DEF populate_cpu_to_socket_map
<1>2. UNCHANGED <<CPU_TIME, CPU_SNAPSHOT, ring, records, pc, at, active, entered, unseen, overlooked>>
  BY DEF populate_cpu_to_socket_map
<1>3. PackageOf[c] + 1 \in 0 .. MaxSocket
  BY <1>1
<1>4. TickTypeOK'
  BY <1>1, <1>2, <1>3
<1>5. ASSUME NEW t \in Present PROVE LoopBounds(t)'
  BY <1>2 DEF LoopBounds
<1> QED BY <1>4, <1>5

\* A tick starts with nothing counted.
LEMMA StartInv == ASSUME TickInv, NEW t \in Present, TickStart(t) PROVE TickInv'
<1> USE CpuStateTickAssumption DEF TickInv, TickTypeOK, TickStart, shared
<1>1. entered' \in [Present -> SUBSET CpuIdx]
  OBVIOUS
<1>2. TickTypeOK'
  BY <1>1
<1>3. ASSUME NEW u \in Present PROVE LoopBounds(u)'
  <2>1. CASE u = t
    BY <2>1 DEF LoopBounds
  <2>2. CASE u # t
    BY <2>2 DEF LoopBounds
  <2> QED BY <2>1, <2>2
<1> QED BY <1>2, <1>3

\* How many CPUs of socket s instance t has counted.
Counted(t, s) == IF active[t][s] = Unset THEN 0 ELSE active[t][s]

\* A step of the first loop ends it or counts a CPU for its socket.
LEMMA ScanShape ==
  ASSUME TickInv, NEW t \in Present, ScanCpu(t)
  PROVE  /\ pc[t] = "scan" /\ at[t] \in 0 .. MaxCpu
         /\ UNCHANGED <<CPU_TIME, CPU_SNAPSHOT, CPU_TO_SOCKET, ring, records, todo, entered, overlooked>>
         /\ \/ /\ at[t] = MaxCpu \/ CPU_TO_SOCKET[at[t]] = 0
               /\ pc' = [pc EXCEPT ![t] = "emit"]
               /\ at' = [at EXCEPT ![t] = 1]
               /\ active' = active /\ unseen' = unseen
            \/ /\ at[t] \in CpuIdx /\ CPU_TO_SOCKET[at[t]] \in Socket
               /\ active' = [active EXCEPT ![t][CPU_TO_SOCKET[at[t]]] =
                               IF CPU_TIME[at[t]] # CPU_SNAPSHOT[at[t]]
                               THEN Counted(t, CPU_TO_SOCKET[at[t]]) + 1
                               ELSE Counted(t, CPU_TO_SOCKET[at[t]])]
               /\ unseen' = IF CPU_TIME[at[t]] # CPU_SNAPSHOT[at[t]]
                            THEN unseen \ {at[t]} ELSE unseen
               /\ at' = [at EXCEPT ![t] = at[t] + 1]
               /\ pc' = pc
<1> USE CpuStateTickAssumption
<1>1. pc[t] = "scan" /\ at[t] \in 0 .. MaxCpu
  BY DEF TickInv, LoopBounds, ScanCpu
<1>2. UNCHANGED <<CPU_TIME, CPU_SNAPSHOT, CPU_TO_SOCKET, ring, records, todo, entered, overlooked>>
  BY DEF ScanCpu, shared
<1>3. CASE at[t] = MaxCpu \/ CPU_TO_SOCKET[at[t]] = 0
  BY <1>1, <1>2, <1>3 DEF ScanCpu
<1>4. CASE ~(at[t] = MaxCpu \/ CPU_TO_SOCKET[at[t]] = 0)
  <2>1. at[t] \in CpuIdx
    BY <1>1, <1>4 DEF CpuIdx
  <2>2. CPU_TO_SOCKET[at[t]] \in Socket
    BY <1>4, <2>1 DEF TickInv, TickTypeOK, Socket
  <2> DEFINE s == CPU_TO_SOCKET[at[t]]
             n == Counted(t, s)
             moved == CPU_TIME[at[t]] # CPU_SNAPSHOT[at[t]]
  <2>3. /\ active' = [active EXCEPT ![t][s] = IF moved THEN n + 1 ELSE n]
        /\ unseen' = IF active'[t][s] = n + 1 THEN unseen \ {at[t]} ELSE unseen
        /\ at' = [at EXCEPT ![t] = at[t] + 1]
        /\ pc' = pc
    BY <1>4 DEF ScanCpu, Counted
  <2>4. n \in Nat /\ active \in [Present -> [Socket -> 0 .. Unset]] /\ s \in Socket
    BY <2>2 DEF TickInv, TickTypeOK, Counted, Unset
  <2>5. active'[t][s] = IF moved THEN n + 1 ELSE n
    <3> HIDE DEF s, n, moved
    <3> QED BY <2>3, <2>4
  <2>6. active'[t][s] = n + 1 <=> moved
    <3> HIDE DEF s, n, moved
    <3> QED BY <2>4, <2>5
  <2>7. unseen' = IF moved THEN unseen \ {at[t]} ELSE unseen
    BY <2>3, <2>6
  <2> QED BY <1>1, <1>2, <2>1, <2>2, <2>3, <2>7
<1> QED BY <1>3, <1>4

\* The first loop counts each CPU once.
LEMMA ScanInv == ASSUME TickInv, NEW t \in Present, ScanCpu(t) PROVE TickInv'
<1>0. /\ pc[t] = "scan" /\ at[t] \in 0 .. MaxCpu
      /\ UNCHANGED <<CPU_TIME, CPU_SNAPSHOT, CPU_TO_SOCKET, ring, records, todo, entered, overlooked>>
  BY ScanShape
<1>x. unseen' \subseteq unseen
  BY ScanShape
<1> USE CpuStateTickAssumption DEF TickInv, TickTypeOK
<1>1. CASE /\ pc' = [pc EXCEPT ![t] = "emit"]
           /\ at' = [at EXCEPT ![t] = 1]
           /\ active' = active
  <2>1. TickTypeOK'
    BY <1>0, <1>x, <1>1
  <2>2. ASSUME NEW u \in Present PROVE LoopBounds(u)'
    <3>1. CASE u = t
      BY <1>1, <3>1 DEF LoopBounds
    <3>2. CASE u # t
      BY <1>1, <3>2 DEF LoopBounds
    <3> QED BY <3>1, <3>2
  <2> QED BY <2>1, <2>2
<1>2. ASSUME NEW s \in Socket, NEW n \in {Counted(t, s), Counted(t, s) + 1},
             at[t] \in CpuIdx, active' = [active EXCEPT ![t][s] = n],
             at' = [at EXCEPT ![t] = at[t] + 1], pc' = pc
      PROVE  TickInv'
  <2>1. pc[t] = "scan" /\ at[t] \in Nat /\ at[t] < MaxCpu
    BY <1>0, <1>2 DEF CpuIdx
  <2>2. Counted(t, s) \in Nat /\ Counted(t, s) <= at[t]
    BY <2>1 DEF LoopBounds, Counted
  <2>3. n \in Nat /\ n <= at[t] + 1 /\ n \in 0 .. Unset
    BY <1>2, <2>1, <2>2 DEF Unset
  <2>4. active' \in [Present -> [Socket -> 0 .. Unset]]
    <3>1. active[t] \in [Socket -> 0 .. Unset]
      OBVIOUS
    <3>2. [active[t] EXCEPT ![s] = n] \in [Socket -> 0 .. Unset]
      BY <3>1, <2>3
    <3> QED BY <1>2, <3>2
  <2>5. at' \in [Present -> 0 .. MaxCpu + MaxSocket]
    BY <1>2, <2>1
  <2>6. TickTypeOK'
    BY <1>0, <1>x, <1>2, <2>4, <2>5
  <2>7. ASSUME NEW u \in Present PROVE LoopBounds(u)'
    <3>1. CASE u = t
      <4>1. at'[t] = at[t] + 1 /\ at'[t] \in 0 .. MaxCpu
        BY <1>2, <2>1
      <4>2. ASSUME NEW r \in Socket PROVE active'[t][r] = Unset \/ active'[t][r] <= at'[t]
        <5>1. CASE r = s
          BY <5>1, <1>2, <2>3, <4>1
        <5>2. CASE r # s
          <6>1. active'[t][r] = active[t][r] /\ active[t][r] \in Nat
            BY <5>2, <1>2
          <6>2. active[t][r] = Unset \/ active[t][r] <= at[t]
            BY <2>1 DEF LoopBounds
          <6> QED BY <6>1, <6>2, <4>1, <2>1
        <5> QED BY <5>1, <5>2
      <4> QED BY <3>1, <4>1, <4>2, <1>2, <2>1 DEF LoopBounds
    <3>2. CASE u # t
      BY <1>2, <3>2 DEF LoopBounds
    <3> QED BY <3>1, <3>2
  <2> QED BY <2>6, <2>7
<1> QED BY <1>1, <1>2, ScanShape

\* The second loop does not write more into the ring than it has room for.
LEMMA EmitInv == ASSUME TickInv, NEW t \in Present, EmitSocket(t) PROVE TickInv'
<1> USE CpuStateTickAssumption DEF TickInv, TickTypeOK
<1>1. /\ UNCHANGED <<CPU_TIME, CPU_SNAPSHOT, CPU_TO_SOCKET, records, todo, entered, unseen,
                     overlooked>>
      /\ pc[t] = "emit" /\ at[t] \in 1 .. MaxSocket + 1
  BY DEF EmitSocket, tick_history, LoopBounds
<1>2. CASE /\ pc' = [pc EXCEPT ![t] = "snap"]
           /\ at' = [at EXCEPT ![t] = 0]
           /\ active' = [active EXCEPT ![t] = [q \in Socket |-> Unset]]
           /\ UNCHANGED ring
  <2>0. active' \in [Present -> [Socket -> 0 .. Unset]]
    BY <1>2 DEF Unset
  <2>1. TickTypeOK'
    BY <1>1, <1>2, <2>0
  <2>2. ASSUME NEW u \in Present PROVE LoopBounds(u)'
    <3>1. CASE u = t
      BY <1>2, <3>1 DEF LoopBounds
    <3>2. CASE u # t
      BY <1>1, <1>2, <3>2 DEF LoopBounds
    <3> QED BY <3>1, <3>2
  <2> QED BY <2>1, <2>2
<1>3. CASE /\ at[t] <= MaxSocket
           /\ Submit(Events(at[t], active[t][at[t]]))
           /\ at' = [at EXCEPT ![t] = at[t] + 1]
           /\ UNCHANGED <<pc, active>>
  <2>1. at[t] \in Socket
    BY <1>1, <1>3 DEF Socket
  <2>2. Events(at[t], active[t][at[t]]) \in Seq(CpuStateEvent)
    <3>1. \A e \in EventType : [socket_id |-> at[t], event_type |-> e] \in CpuStateEvent
      BY <2>1 DEF CpuStateEvent
    <3>2. "IdleEvent" \in EventType /\ "ActivationEvent" \in EventType
      BY DEF EventType
    <3>3. \A e \in CpuStateEvent : <<e>> \in Seq(CpuStateEvent)
      OBVIOUS
    <3> QED BY <3>1, <3>2, <3>3 DEF Events
  <2>3. ring' \in Seq(CpuStateEvent) /\ Len(ring') <= RingSize
    <3> DEFINE es == Events(at[t], active[t][at[t]])
    <3> HIDE DEF es
    <3>1. ring \o es \in Seq(CpuStateEvent) /\ Len(ring \o es) = Len(ring) + Len(es)
      BY <2>2 DEF es
    <3> QED BY <1>3, <3>1 DEF Submit, es
  <2>4. at' \in [Present -> 0 .. MaxCpu + MaxSocket]
    BY <1>1, <1>3
  <2>5. TickTypeOK'
    BY <1>1, <1>3, <2>3, <2>4
  <2>6. ASSUME NEW u \in Present PROVE LoopBounds(u)'
    <3>1. CASE u = t
      BY <1>1, <1>3, <3>1 DEF LoopBounds
    <3>2. CASE u # t
      BY <1>1, <1>3, <3>2 DEF LoopBounds
    <3> QED BY <3>1, <3>2
  <2> QED BY <2>5, <2>6
<1>4. at[t] > MaxSocket \/ at[t] <= MaxSocket
  BY <1>1
<1> QED BY <1>1, <1>2, <1>3, <1>4 DEF EmitSocket

\* The third loop.
LEMMA SnapInv == ASSUME TickInv, NEW t \in Present, SnapCpu(t) PROVE TickInv'
<1> USE CpuStateTickAssumption DEF TickInv, TickTypeOK
<1>1. /\ UNCHANGED <<CPU_TIME, CPU_TO_SOCKET, ring, records, todo, active>>
      /\ pc[t] = "snap" /\ at[t] \in 0 .. MaxCpu
  BY DEF SnapCpu, LoopBounds
<1>2. CASE /\ pc' = [pc EXCEPT ![t] = "off"]
           /\ at' = [at EXCEPT ![t] = 0]
           /\ entered' = [entered EXCEPT ![t] = {}]
           /\ UNCHANGED <<CPU_SNAPSHOT, unseen, overlooked>>
  <2>1. TickTypeOK'
    BY <1>1, <1>2
  <2>2. ASSUME NEW u \in Present PROVE LoopBounds(u)'
    BY <1>1, <1>2 DEF LoopBounds
  <2> QED BY <2>1, <2>2
<1>3. CASE /\ at[t] # MaxCpu
           /\ CPU_SNAPSHOT' = [CPU_SNAPSHOT EXCEPT ![at[t]] = CPU_TIME[at[t]]]
           /\ at' = [at EXCEPT ![t] = at[t] + 1]
           /\ overlooked' = overlooked \cup ({at[t]} \cap unseen \cap entered[t])
           /\ unseen' = unseen \ {at[t]}
           /\ UNCHANGED <<pc, entered>>
  <2>1. at[t] \in CpuIdx
    BY <1>1, <1>3 DEF CpuIdx
  <2>2. CPU_SNAPSHOT' \in [CpuIdx -> 0 .. MaxWork]
    BY <1>3, <2>1
  <2>3. at' \in [Present -> 0 .. MaxCpu + MaxSocket]
    BY <1>1, <1>3
  <2>4. TickTypeOK'
    BY <1>1, <1>3, <2>2, <2>3
  <2>5. ASSUME NEW u \in Present PROVE LoopBounds(u)'
    <3>1. CASE u = t
      BY <1>1, <1>3, <3>1 DEF LoopBounds
    <3>2. CASE u # t
      BY <1>1, <1>3, <3>2 DEF LoopBounds
    <3> QED BY <3>1, <3>2
  <2> QED BY <2>4, <2>5
<1> QED BY <1>2, <1>3 DEF SnapCpu

\* The exporter drains the ring.
LEMMA DrainInv == ASSUME TickInv, refresh_activation_idle_records PROVE TickInv'
<1> USE CpuStateTickAssumption
    DEF TickInv, TickTypeOK, refresh_activation_idle_records, tick_history
<1>1. \A i \in DOMAIN ring : ring[i].event_type \in EventType
  <2>1. \A i \in DOMAIN ring : ring[i] \in CpuStateEvent
    OBVIOUS
  <2> QED BY <2>1 DEF CpuStateEvent
<1>2. records' \in [Present -> SUBSET EventType]
  BY <1>1
<1>3. ring' \in Seq(CpuStateEvent) /\ Len(ring') <= RingSize
  OBVIOUS
<1>4. TickTypeOK'
  BY <1>2, <1>3
<1>5. ASSUME NEW u \in Present PROVE LoopBounds(u)'
  BY DEF LoopBounds
<1> QED BY <1>4, <1>5

\* All steps.
LEMMA TickStep == TickInv /\ [TickNext]_tick_vars => TickInv'
<1> SUFFICES ASSUME TickInv, [TickNext]_tick_vars PROVE TickInv'
  OBVIOUS
<1>1. CASE UNCHANGED tick_vars
  BY <1>1 DEF tick_vars, TickInv, TickTypeOK, LoopBounds
<1> QED BY <1>1, WorkInv, PopulateInv, StartInv, ScanInv, EmitInv, SnapInv, DrainInv DEF TickNext

\* The counts of a tick stay below u32::MAX's stand-in, the loops within their arrays and the
\* ring within its capacity, for any CPUs, sockets and instances (main.rs 121-184).
THEOREM TickTypeAlways == TickSpec => []TickTypeOK
<1>1. TickInv => TickTypeOK
  BY DEF TickInv
<1> QED BY <1>1, TickInitInv, TickStep, PTL DEF TickSpec

-----------------------------------------------------------------------------
(***************************************************************************)
(* No work is overlooked.                                                  *)
(***************************************************************************)

\* The CPUs a scan that begins now comes to are those with all entries set up to
\* theirs, and entries stay set.
EntriesStay == \A t \in Present : \A c \in entered[t] : \A d \in 0 .. c : CPU_TO_SOCKET[d] # 0

\* A CPU whose work no scan has counted differs from the snapshot, and no instance
\* that comes to it is past it.
Uncounted ==
  \A c \in unseen : /\ CPU_SNAPSHOT[c] < CPU_TIME[c]
                    /\ \A t \in Present : c \in entered[t] => ~Between(t, c)

\* The inductive invariant.
OverlookInv ==
  /\ TickInv
  /\ \A c \in CpuIdx : CPU_SNAPSHOT[c] <= CPU_TIME[c]
  /\ EntriesStay
  /\ Uncounted
  /\ NoWorkOverlooked

\* What the proof uses of the types.
LEMMA OverlookTypes ==
  ASSUME OverlookInv
  PROVE  /\ CPU_TIME \in [CpuIdx -> 0 .. MaxWork] /\ CPU_SNAPSHOT \in [CpuIdx -> 0 .. MaxWork]
         /\ CPU_TO_SOCKET \in [CpuIdx -> 0 .. MaxSocket]
         /\ unseen \subseteq CpuIdx /\ Online \subseteq CpuIdx /\ CpuIdx \subseteq Int
         /\ todo \subseteq Online
         /\ entered \in [Present -> SUBSET CpuIdx]
         /\ pc \in [Present -> {"off", "scan", "emit", "snap"}]
         /\ at \in [Present -> 0 .. MaxCpu + MaxSocket]
         /\ \A t \in Present : at[t] \in Int
<1>1. CpuIdx \subseteq Int /\ Online \subseteq CpuIdx
  BY CpuStateTickAssumption DEF CpuIdx
<1>2. TickTypeOK
  BY DEF OverlookInv, TickInv
<1>3. \A t \in Present : at[t] \in Int
  <2>1. 0 .. MaxCpu + MaxSocket \subseteq Int
    BY CpuStateTickAssumption
  <2> QED BY <1>2, <2>1 DEF TickTypeOK
<1> QED BY <1>1, <1>2, <1>3 DEF TickTypeOK

\* No CPU has worked in the initial states.
LEMMA OverlookInit == TickInit => OverlookInv
<1> SUFFICES ASSUME TickInit PROVE OverlookInv
  OBVIOUS
<1>1. TickInv
  BY TickInitInv
<1> QED BY <1>1 DEF TickInit, OverlookInv, EntriesStay, Uncounted, NoWorkOverlooked

\* Work outside the windows of all instances makes the CPU differ from the snapshot.
LEMMA WorkOverlook == ASSUME OverlookInv, NEW c \in Online, Work(c), TickInv' PROVE OverlookInv'
<1>1. /\ UNCHANGED <<CPU_SNAPSHOT, CPU_TO_SOCKET, pc, at, entered, overlooked>>
      /\ CPU_TIME' = [CPU_TIME EXCEPT ![c] = @ + 1]
      /\ unseen' = IF \E t \in Present : Between(t, c) THEN unseen ELSE unseen \cup {c}
  BY DEF Work
<1>2. \A d \in CpuIdx : /\ CPU_TIME[d] <= CPU_TIME'[d] /\ CPU_SNAPSHOT[d] <= CPU_TIME[d]
                        /\ CPU_TIME[d] \in Int /\ CPU_SNAPSHOT[d] \in Int /\ CPU_TIME'[d] \in Int
  BY <1>1, OverlookTypes DEF OverlookInv
<1>3. c \in CpuIdx /\ CPU_TIME[c] < CPU_TIME'[c]
  BY <1>1, OverlookTypes
<1>4. \A d \in CpuIdx : CPU_SNAPSHOT'[d] <= CPU_TIME'[d]
  BY <1>1, <1>2
<1>5. ASSUME NEW d \in unseen'
      PROVE  /\ CPU_SNAPSHOT'[d] < CPU_TIME'[d]
             /\ \A t \in Present : d \in entered'[t] => ~Between(t, d)'
  <2>1. CASE d \in unseen
    <3>1. d \in CpuIdx /\ CPU_SNAPSHOT[d] < CPU_TIME[d]
      BY <2>1, OverlookTypes DEF OverlookInv, Uncounted
    <3>2. CPU_SNAPSHOT'[d] < CPU_TIME'[d]
      BY <1>1, <1>2, <3>1
    <3> QED BY <1>1, <2>1, <3>2 DEF OverlookInv, Uncounted, Between
  <2>2. CASE d = c /\ ~\E t \in Present : Between(t, c)
    <3>1. CPU_SNAPSHOT'[c] < CPU_TIME'[c]
      BY <1>1, <1>2, <1>3
    <3> QED BY <1>1, <2>2, <3>1 DEF Between
  <2> QED BY <1>1, <2>1, <2>2
<1>6. EntriesStay' /\ NoWorkOverlooked'
  BY <1>1 DEF OverlookInv, EntriesStay, NoWorkOverlooked
<1> QED BY <1>4, <1>5, <1>6 DEF OverlookInv, Uncounted

\* Userspace sets entries and clears none.
LEMMA PopulateOverlook ==
  ASSUME OverlookInv, populate_cpu_to_socket_map, TickInv' PROVE OverlookInv'
<1>1. PICK c \in todo : CPU_TO_SOCKET' = [CPU_TO_SOCKET EXCEPT ![c] = PackageOf[c] + 1]
  BY DEF populate_cpu_to_socket_map
<1>2. UNCHANGED <<CPU_TIME, CPU_SNAPSHOT, pc, at, entered, unseen, overlooked>>
  BY DEF populate_cpu_to_socket_map, tick_history
<1>3. c \in Online /\ PackageOf[c] + 1 # 0
  <2>1. c \in Online
    BY OverlookTypes
  <2>2. PackageOf[c] \in 0 .. MaxSocket - 1
    BY <2>1, CpuStateTickAssumption
  <2> QED BY <2>1, <2>2, CpuStateTickAssumption
<1>4. \A d \in CpuIdx : CPU_TO_SOCKET[d] # 0 => CPU_TO_SOCKET'[d] # 0
  BY <1>1, <1>3, OverlookTypes
<1>5. ASSUME NEW t \in Present, NEW e \in entered[t], NEW d \in 0 .. e
      PROVE  CPU_TO_SOCKET'[d] # 0
  <2>1. d \in CpuIdx
    BY <1>5, OverlookTypes, CpuStateTickAssumption DEF CpuIdx
  <2>2. CPU_TO_SOCKET[d] # 0
    BY <1>5 DEF OverlookInv, EntriesStay
  <2> QED BY <1>4, <2>1, <2>2
<1>6. EntriesStay'
  BY <1>2, <1>5 DEF EntriesStay
<1> QED BY <1>2, <1>6 DEF OverlookInv, Uncounted, Between, NoWorkOverlooked

\* An instance that starts is not past any CPU.
LEMMA StartOverlook ==
  ASSUME OverlookInv, NEW t \in Present, TickStart(t), TickInv' PROVE OverlookInv'
<1>1. /\ UNCHANGED <<CPU_TIME, CPU_SNAPSHOT, CPU_TO_SOCKET, at, unseen, overlooked>>
      /\ pc' = [pc EXCEPT ![t] = "scan"]
      /\ entered' = [entered EXCEPT ![t] =
                        {c \in CpuIdx : \A d \in 0 .. c : CPU_TO_SOCKET[d] # 0}]
  BY DEF TickStart, shared
<1>2. at[t] = 0
  BY DEF TickStart, OverlookInv, TickInv, LoopBounds
<1>3. EntriesStay'
  BY <1>1, OverlookTypes DEF OverlookInv, EntriesStay
<1>4. ASSUME NEW c \in unseen, NEW u \in Present, c \in entered'[u] PROVE ~Between(u, c)'
  <2>0. c \in CpuIdx /\ ~(c < 0)
    BY OverlookTypes, CpuStateTickAssumption DEF CpuIdx
  <2>1. CASE u = t
    <3>1. pc'[u] = "scan" /\ at'[u] = 0
      BY <1>1, <1>2, <2>1, OverlookTypes
    <3> QED BY <2>0, <3>1 DEF Between
  <2>2. CASE u # t
    BY <1>1, <1>4, <2>2, OverlookTypes DEF OverlookInv, Uncounted, Between
  <2> QED BY <2>1, <2>2
<1> QED BY <1>1, <1>3, <1>4 DEF OverlookInv, Uncounted, NoWorkOverlooked

\* The first loop counts the CPU it comes to, and does not end before the last CPU
\* that it was to come to.
LEMMA ScanOverlook ==
  ASSUME OverlookInv, NEW t \in Present, ScanCpu(t), TickInv' PROVE OverlookInv'
<1> DEFINE i == at[t]
<1>1. TickInv
  BY DEF OverlookInv
<1>2. /\ pc[t] = "scan" /\ i \in 0 .. MaxCpu
      /\ UNCHANGED <<CPU_TIME, CPU_SNAPSHOT, CPU_TO_SOCKET, entered, overlooked>>
  BY <1>1, ScanShape
<1>3. EntriesStay' /\ NoWorkOverlooked'
  BY <1>2 DEF OverlookInv, EntriesStay, NoWorkOverlooked
<1>4. CASE /\ i = MaxCpu \/ CPU_TO_SOCKET[i] = 0
           /\ pc' = [pc EXCEPT ![t] = "emit"]
           /\ at' = [at EXCEPT ![t] = 1]
           /\ unseen' = unseen
  <2>1. ASSUME NEW c \in unseen, NEW u \in Present, c \in entered[u] PROVE ~Between(u, c)'
    <3>0. ~Between(u, c) /\ c \in CpuIdx
      BY <2>1, OverlookTypes DEF OverlookInv, Uncounted
    <3>1. CASE u = t
      <4>1. ~(c < i)
        BY <1>2, <3>0, <3>1 DEF Between
      <4>2. i \in 0 .. c /\ i # MaxCpu
        BY <1>2, <3>0, <4>1, CpuStateTickAssumption DEF CpuIdx
      <4>3. CPU_TO_SOCKET[i] # 0
        BY <2>1, <3>1, <4>2 DEF OverlookInv, EntriesStay
      <4> QED BY <1>4, <4>2, <4>3
    <3>2. CASE u # t
      BY <1>4, <3>0, <3>2, OverlookTypes DEF Between
    <3> QED BY <3>1, <3>2
  <2> QED BY <1>2, <1>3, <1>4, <2>1 DEF OverlookInv, Uncounted
<1>5. CASE /\ i \in CpuIdx
           /\ unseen' = IF CPU_TIME[i] # CPU_SNAPSHOT[i] THEN unseen \ {i} ELSE unseen
           /\ at' = [at EXCEPT ![t] = i + 1]
           /\ pc' = pc
  <2>0. unseen' \subseteq unseen /\ i \notin unseen'
    <3>1. i \in unseen => CPU_TIME[i] # CPU_SNAPSHOT[i]
      <4>1. CPU_TIME[i] \in Int /\ CPU_SNAPSHOT[i] \in Int
        BY <1>5, OverlookTypes
      <4>2. i \in unseen => CPU_SNAPSHOT[i] < CPU_TIME[i]
        BY DEF OverlookInv, Uncounted
      <4> QED BY <4>1, <4>2
    <3> QED BY <1>5, <3>1
  <2>1. ASSUME NEW c \in unseen', NEW u \in Present, c \in entered[u] PROVE ~Between(u, c)'
    <3>0. ~Between(u, c) /\ c \in Int /\ c # i
      BY <2>0, <2>1, OverlookTypes DEF OverlookInv, Uncounted
    <3>1. CASE u = t
      <4>1. ~(c < i) /\ i \in Int
        BY <1>2, <3>0, <3>1, OverlookTypes DEF Between
      <4>2. at'[u] = i + 1 /\ pc'[u] = "scan"
        BY <1>2, <1>5, <3>1, OverlookTypes
      <4>3. ~(c < i + 1)
        <5> HIDE DEF i
        <5> QED BY <3>0, <4>1
      <4> QED BY <4>2, <4>3 DEF Between
    <3>2. CASE u # t
      BY <1>5, <3>0, <3>2, OverlookTypes DEF Between
    <3> QED BY <3>1, <3>2
  <2> QED BY <1>2, <1>3, <2>0, <2>1 DEF OverlookInv, Uncounted
<1> QED BY <1>1, <1>4, <1>5, ScanShape

\* The second loop leaves an instance past all CPUs.
LEMMA EmitOverlook ==
  ASSUME OverlookInv, NEW t \in Present, EmitSocket(t), TickInv' PROVE OverlookInv'
<1>1. /\ UNCHANGED <<CPU_TIME, CPU_SNAPSHOT, CPU_TO_SOCKET, entered, unseen, overlooked>>
      /\ pc[t] = "emit"
      /\ \A u \in Present : u # t => pc'[u] = pc[u] /\ at'[u] = at[u]
  BY OverlookTypes DEF EmitSocket, tick_history
<1>2. ASSUME NEW c \in unseen, NEW u \in Present, c \in entered[u] PROVE ~Between(u, c)'
  <2>0. ~Between(u, c)
    BY <1>2 DEF OverlookInv, Uncounted
  <2>1. u # t
    BY <1>1, <2>0 DEF Between
  <2> QED BY <1>1, <2>0, <2>1 DEF Between
<1> QED BY <1>1, <1>2 DEF OverlookInv, EntriesStay, Uncounted, NoWorkOverlooked

\* The third loop takes away only what was counted.
LEMMA SnapOverlook ==
  ASSUME OverlookInv, NEW t \in Present, SnapCpu(t), TickInv' PROVE OverlookInv'
<1> DEFINE i == at[t]
<1>1. UNCHANGED <<CPU_TIME, CPU_TO_SOCKET>> /\ pc[t] = "snap" /\ i \in 0 .. MaxCpu
  BY DEF SnapCpu, OverlookInv, TickInv, LoopBounds
<1>2. CASE /\ pc' = [pc EXCEPT ![t] = "off"]
           /\ at' = [at EXCEPT ![t] = 0]
           /\ entered' = [entered EXCEPT ![t] = {}]
           /\ UNCHANGED <<CPU_SNAPSHOT, unseen, overlooked>>
  <2>1. ASSUME NEW c \in unseen, NEW u \in Present, c \in entered'[u] PROVE ~Between(u, c)'
    <3>1. u # t
      BY <1>2, <2>1, OverlookTypes
    <3> QED BY <1>2, <2>1, <3>1, OverlookTypes DEF OverlookInv, Uncounted, Between
  <2>2. EntriesStay'
    BY <1>1, <1>2, OverlookTypes DEF OverlookInv, EntriesStay
  <2> QED BY <1>1, <1>2, <2>1, <2>2 DEF OverlookInv, Uncounted, NoWorkOverlooked
<1>3. CASE /\ i # MaxCpu
           /\ CPU_SNAPSHOT' = [CPU_SNAPSHOT EXCEPT ![i] = CPU_TIME[i]]
           /\ at' = [at EXCEPT ![t] = i + 1]
           /\ overlooked' = overlooked \cup ({i} \cap unseen \cap entered[t])
           /\ unseen' = unseen \ {i}
           /\ UNCHANGED <<pc, entered>>
  <2>1. i \in CpuIdx /\ i \in Int
    BY <1>1, <1>3, CpuStateTickAssumption DEF CpuIdx
  <2>2. ~(i \in unseen /\ i \in entered[t])
    <3>1. Between(t, i)
      BY <1>1, <2>1 DEF Between
    <3> QED BY <3>1 DEF OverlookInv, Uncounted
  <2>3. NoWorkOverlooked'
    BY <1>3, <2>2 DEF OverlookInv, NoWorkOverlooked
  <2>4. \A d \in CpuIdx : CPU_SNAPSHOT'[d] <= CPU_TIME'[d]
    BY <1>1, <1>3, <2>1, OverlookTypes DEF OverlookInv
  <2>5. ASSUME NEW c \in unseen' PROVE CPU_SNAPSHOT'[c] < CPU_TIME'[c]
    <3>1. c \in unseen /\ c # i /\ c \in CpuIdx
      BY <1>3, OverlookTypes
    <3>2. CPU_SNAPSHOT'[c] = CPU_SNAPSHOT[c]
      BY <1>3, <2>1, <3>1, OverlookTypes
    <3> QED BY <1>1, <3>1, <3>2 DEF OverlookInv, Uncounted
  <2>6. ASSUME NEW c \in unseen', NEW u \in Present, c \in entered[u] PROVE ~Between(u, c)'
    <3>0. ~Between(u, c) /\ c \in Int
      BY <1>3, <2>6, OverlookTypes DEF OverlookInv, Uncounted
    <3>1. CASE u = t
      <4>1. ~(i <= c)
        BY <1>1, <3>0, <3>1 DEF Between
      <4>2. at'[u] = i + 1 /\ pc'[u] = "snap"
        BY <1>1, <1>3, <3>1, OverlookTypes
      <4>3. ~(i + 1 <= c)
        <5> HIDE DEF i
        <5> QED BY <2>1, <3>0, <4>1
      <4> QED BY <4>2, <4>3 DEF Between
    <3>2. CASE u # t
      BY <1>3, <3>0, <3>2, OverlookTypes DEF Between
    <3> QED BY <3>1, <3>2
  <2>7. EntriesStay'
    BY <1>1, <1>3 DEF OverlookInv, EntriesStay
  <2> QED BY <1>3, <2>3, <2>4, <2>5, <2>6, <2>7 DEF OverlookInv, Uncounted
<1> QED BY <1>2, <1>3 DEF SnapCpu

\* All steps.
LEMMA OverlookStep == OverlookInv /\ [TickNext]_tick_vars => OverlookInv'
<1> SUFFICES ASSUME OverlookInv, [TickNext]_tick_vars PROVE OverlookInv'
  OBVIOUS
<1>1. TickInv'
  BY TickStep DEF OverlookInv
<1>2. ASSUME UNCHANGED <<CPU_TIME, CPU_SNAPSHOT, CPU_TO_SOCKET, pc, at, entered, unseen, overlooked>>
      PROVE  OverlookInv'
  BY <1>1, <1>2 DEF OverlookInv, EntriesStay, Uncounted, Between, NoWorkOverlooked
<1>3. CASE UNCHANGED tick_vars
  BY <1>2, <1>3 DEF tick_vars
<1>4. CASE refresh_activation_idle_records
  BY <1>2, <1>4 DEF refresh_activation_idle_records, tick_history
<1> QED BY <1>1, <1>3, <1>4, WorkOverlook, PopulateOverlook, StartOverlook, ScanOverlook,
           EmitOverlook, SnapOverlook DEF TickNext

\* For any CPUs, holes in their numbers, packages and instances, and any order of
\* work, ticks and the filling of the socket map: a snapshot takes away no work that
\* was done outside the windows of all instances on a CPU the tick comes to, unless
\* some tick has counted it (main.rs 125-145, 177-181).
THEOREM NoWorkOverlookedAlways == TickSpec => []NoWorkOverlooked
<1>1. OverlookInv => NoWorkOverlooked
  BY DEF OverlookInv
<1> QED BY <1>1, OverlookInit, OverlookStep, PTL DEF TickSpec
=============================================================================
