---------------------------- MODULE CpuStateTick ----------------------------
(***************************************************************************)
(* Detection of idle and single-core windows: cpu_state_tick               *)
(* (scaphandre-ebpf/src/main.rs), the ring buffer it writes, the socket    *)
(* map userspace fills in (populate_cpu_to_socket_map) and the drain of    *)
(* the ring at the start of Topology::refresh.                             *)
(*                                                                         *)
(* One instance of the program runs per socket, on the first CPU of the    *)
(* socket; all CPUs go on working, and the other instances go on ticking,  *)
(* between any two accesses of an instance to the shared arrays.           *)
(***************************************************************************)
EXTENDS Naturals, Sequences, FiniteSets, EbpfMaps

CONSTANTS
  MaxCpu,     \* MAX_CPU: CPU indices are 0 .. MaxCpu - 1
  MaxSocket,  \* MAX_SOCKET: sockets are 1 .. MaxSocket in CPU_TO_SOCKET
  Online,     \* the online CPUs
  PackageOf,  \* [Online -> physical_package_id]
  RingSize,   \* number of events CPU_STATE_EVENTS has room for
  MaxWork     \* bound on CPU_TIME, for model checking

ASSUME CpuStateTickAssumption ==
  /\ MaxCpu \in Nat \ {0}
  /\ MaxSocket \in Nat \ {0}
  /\ Online \subseteq 0 .. MaxCpu - 1
  /\ PackageOf \in [Online -> 0 .. MaxSocket - 1]
  /\ RingSize \in Nat
  /\ MaxWork \in Nat

CpuIdx == 0 .. MaxCpu - 1
Socket == 1 .. MaxSocket
Unset  == MaxCpu + 1            \* u32::MAX in socket_active_cpus

\* Sockets with an online CPU: the topology's sockets, and the tick instances.
Present == {PackageOf[c] + 1 : c \in Online}

EventType == {"IdleEvent", "ActivationEvent"}
CpuStateEvent == [socket_id : Socket, event_type : EventType]

VARIABLES
  CPU_SNAPSHOT,   \* its values at the last tick
  CPU_TO_SOCKET,  \* package id + 1, 0 when not (yet) set
  ring,           \* CPU_STATE_EVENTS
  records,        \* the events each socket gets at a Topology::refresh
  todo,           \* online CPUs populate_cpu_to_socket_map has still to set
  pc, at,         \* where each tick instance is
  active,         \* its socket_active_cpus
  entered,        \* history: CPUs below the first unset entry when the tick began
  unseen,         \* history: CPUs whose latest work no scan has counted, done while
                  \* no instance was between its look at the CPU and its snapshot
  overlooked      \* history: CPUs whose unseen work a snapshot has taken away

shared == <<CPU_TIME, CPU_SNAPSHOT, CPU_TO_SOCKET, ring, records, todo>>
tick_history == <<entered, unseen, overlooked>>
tick_vars == <<CPU_TIME, CPU_SNAPSHOT, CPU_TO_SOCKET, ring, records, todo, pc, at, active,
               entered, unseen, overlooked>>

\* Every variable keeps its type; the ring never holds more than its capacity.
TickTypeOK ==
  /\ CPU_TIME \in [CpuIdx -> 0 .. MaxWork]
  /\ CPU_SNAPSHOT \in [CpuIdx -> 0 .. MaxWork]
  /\ CPU_TO_SOCKET \in [CpuIdx -> 0 .. MaxSocket]
  /\ ring \in Seq(CpuStateEvent) /\ Len(ring) <= RingSize
  /\ records \in [Present -> SUBSET EventType]
  /\ todo \subseteq Online
  /\ pc \in [Present -> {"off", "scan", "emit", "snap"}]
  /\ at \in [Present -> 0 .. MaxCpu + MaxSocket]
  /\ active \in [Present -> [Socket -> 0 .. Unset]]
  /\ entered \in [Present -> SUBSET CpuIdx]
  /\ unseen \subseteq CpuIdx
  /\ overlooked \subseteq CpuIdx

TickInit ==
  /\ CPU_TIME = [c \in CpuIdx |-> 0]
  /\ CPU_SNAPSHOT = [c \in CpuIdx |-> 0]
  /\ CPU_TO_SOCKET = [c \in CpuIdx |-> 0]
  /\ ring = <<>>
  /\ records = [s \in Present |-> {}]
  /\ todo = Online
  /\ pc = [s \in Present |-> "off"]
  /\ at = [s \in Present |-> 0]
  /\ active = [s \in Present |-> [q \in Socket |-> Unset]]
  /\ entered = [s \in Present |-> {}]
  /\ unseen = {}
  /\ overlooked = {}

-----------------------------------------------------------------------------
\* Instance t has looked at CPU c, or passed it by, and is yet to take its snapshot.
Between(t, c) ==
  \/ pc[t] = "scan" /\ c < at[t]
  \/ pc[t] = "emit"
  \/ pc[t] = "snap" /\ at[t] <= c

\* An online CPU spends time on a task, and the accounting programs note it.
Work(c) ==
  /\ CPU_TIME[c] < MaxWork
  /\ CPU_TIME' = [CPU_TIME EXCEPT ![c] = @ + 1]
  /\ unseen' = IF \E t \in Present : Between(t, c) THEN unseen ELSE unseen \cup {c}
  /\ UNCHANGED <<CPU_SNAPSHOT, CPU_TO_SOCKET, ring, records, todo, pc, at, active, entered,
                 overlooked>>

\* Userspace sets the entries in the order of the CPUs, with the ticks running.
populate_cpu_to_socket_map ==
  \E c \in todo :
    /\ \A d \in todo : c <= d
    /\ CPU_TO_SOCKET' = [CPU_TO_SOCKET EXCEPT ![c] = PackageOf[c] + 1]
    /\ todo' = todo \ {c}
    /\ UNCHANGED <<CPU_TIME, CPU_SNAPSHOT, ring, records, pc, at, active, tick_history>>

\* Instance t fires, with fresh locals.
TickStart(t) ==
  /\ pc[t] = "off"
  /\ pc' = [pc EXCEPT ![t] = "scan"]
  /\ entered' = [entered EXCEPT ![t] =
                    {c \in CpuIdx : \A d \in 0 .. c : CPU_TO_SOCKET[d] # 0}]
  /\ UNCHANGED <<shared, at, active, unseen, overlooked>>

\* Faulty variant: the last CPU is not looked at.
ScanCpu_short(t) ==
  LET c == at[t]
      s == CPU_TO_SOCKET[c]
      n == IF active[t][s] = Unset THEN 0 ELSE active[t][s]
  IN  /\ pc[t] = "scan"
      /\ IF c + 1 = MaxCpu \/ (c + 1 < MaxCpu /\ CPU_TO_SOCKET[c + 1] = 0) \/ s = 0
         THEN /\ pc' = [pc EXCEPT ![t] = "emit"]
              /\ at' = [at EXCEPT ![t] = 1]
              /\ UNCHANGED <<active, unseen>>
         ELSE /\ active' = [active EXCEPT ![t][s] =
                              IF CPU_TIME[c] # CPU_SNAPSHOT[c] THEN n + 1 ELSE n]
              /\ at' = [at EXCEPT ![t] = c + 1]
              /\ unseen' = IF active'[t][s] = n + 1 THEN unseen \ {c} ELSE unseen
              /\ UNCHANGED pc
      /\ UNCHANGED <<shared, entered, overlooked>>

\* First loop: count the CPUs of each socket whose time moved since the
\* snapshot, up to the first CPU that has no socket.
ScanCpu(t) ==
  LET c == at[t]
      s == CPU_TO_SOCKET[c]
      n == IF active[t][s] = Unset THEN 0 ELSE active[t][s]
  IN  /\ pc[t] = "scan"
      /\ IF c = MaxCpu \/ s = 0
         THEN /\ pc' = [pc EXCEPT ![t] = "emit"]
              /\ at' = [at EXCEPT ![t] = 1]
              /\ UNCHANGED <<active, unseen>>
         ELSE /\ active' = [active EXCEPT ![t][s] =
                              IF CPU_TIME[c] # CPU_SNAPSHOT[c] THEN n + 1 ELSE n]
              /\ at' = [at EXCEPT ![t] = c + 1]
              /\ unseen' = IF active'[t][s] = n + 1 THEN unseen \ {c} ELSE unseen
              /\ UNCHANGED pc
      /\ UNCHANGED <<shared, entered, overlooked>>

\* The event a socket with n active CPUs gives rise to, if any.
Events(s, n) ==
  IF n = 0 THEN <<[socket_id |-> s, event_type |-> "IdleEvent"]>>
  ELSE IF n = 1 THEN <<[socket_id |-> s, event_type |-> "ActivationEvent"]>>
  ELSE <<>>

\* Faulty variant: no check that the reservation succeeded.
Submit_unchecked(es) == ring' = ring \o es

\* A reservation fails, and the event is lost, when the ring is full.
Submit(es) == ring' = IF Len(ring) + Len(es) <= RingSize THEN ring \o es ELSE ring

\* Second loop: one event per socket, up to the first socket without CPU.  The
\* counts are not used afterwards.
EmitSocket(t) ==
  LET s == at[t]
  IN  /\ pc[t] = "emit"
      /\ IF s > MaxSocket \/ active[t][s] = Unset
         THEN /\ pc' = [pc EXCEPT ![t] = "snap"]
              /\ at' = [at EXCEPT ![t] = 0]
              /\ active' = [active EXCEPT ![t] = [q \in Socket |-> Unset]]
              /\ UNCHANGED ring
         ELSE /\ Submit(Events(s, active[t][s]))
              /\ at' = [at EXCEPT ![t] = s + 1]
              /\ UNCHANGED <<pc, active>>
      /\ UNCHANGED <<CPU_TIME, CPU_SNAPSHOT, CPU_TO_SOCKET, records, todo, tick_history>>

\* Third loop: CPU_TIME is read again and stored in the snapshot.
SnapCpu(t) ==
  LET c == at[t]
  IN  /\ pc[t] = "snap"
      /\ IF c = MaxCpu
         THEN /\ pc' = [pc EXCEPT ![t] = "off"]
              /\ at' = [at EXCEPT ![t] = 0]
              /\ entered' = [entered EXCEPT ![t] = {}]
              /\ UNCHANGED <<CPU_SNAPSHOT, unseen, overlooked>>
         ELSE /\ CPU_SNAPSHOT' = [CPU_SNAPSHOT EXCEPT ![c] = CPU_TIME[c]]
              /\ at' = [at EXCEPT ![t] = c + 1]
              /\ overlooked' = overlooked \cup ({c} \cap unseen \cap entered[t])
              /\ unseen' = unseen \ {c}
              /\ UNCHANGED <<pc, entered>>
      /\ UNCHANGED <<CPU_TIME, CPU_TO_SOCKET, ring, records, todo, active>>

\* Faulty variant: the events are read and left in the ring.
refresh_activation_idle_records_keep ==
  /\ records' = [s \in Present |->
       {ring[i].event_type : i \in {j \in DOMAIN ring : ring[j].socket_id = s}}]
  /\ UNCHANGED <<CPU_TIME, CPU_SNAPSHOT, CPU_TO_SOCKET, ring, todo, pc, at, active, tick_history>>

\* Topology::refresh drains the ring and hands each socket its events.
refresh_activation_idle_records ==
  /\ records' = [s \in Present |->
       {ring[i].event_type : i \in {j \in DOMAIN ring : ring[j].socket_id = s}}]
  /\ ring' = <<>>
  /\ UNCHANGED <<CPU_TIME, CPU_SNAPSHOT, CPU_TO_SOCKET, todo, pc, at, active, tick_history>>

Step(t) == TickStart(t) \/ ScanCpu(t) \/ EmitSocket(t) \/ SnapCpu(t)

TickNext ==
  \/ \E c \in Online : Work(c)
  \/ populate_cpu_to_socket_map
  \/ \E t \in Present : TickStart(t)
  \/ \E t \in Present : ScanCpu(t)
  \/ \E t \in Present : EmitSocket(t)
  \/ \E t \in Present : SnapCpu(t)
  \/ refresh_activation_idle_records

TickSpec == TickInit /\ [][TickNext]_tick_vars

\* The perf timers keep firing, started programs finish, and the exporter's
\* loop keeps refreshing; nothing forces a CPU to work, and reading
\* physical_package_id may fail, which ends the filling of the socket map.
TickFairSpec ==
  /\ TickSpec
  /\ \A t \in Present : WF_tick_vars(Step(t))
  /\ WF_tick_vars(refresh_activation_idle_records)

-----------------------------------------------------------------------------
(***************************************************************************)
(* Properties.                                                             *)
(***************************************************************************)

\* The work of a CPU is in the counts of some tick before a snapshot takes it away,
\* whatever instances tick at the same time and however far the socket map is filled
\* in, with two exceptions, which the code has: the work done while some instance is
\* between its look at the CPU and its snapshot of it, and the CPUs at or behind the
\* first entry that was not set when the tick began, the hole an offline CPU leaves
\* included (main.rs 125-145, 177-181).
NoWorkOverlooked == overlooked = {}

\* The sockets a complete map lets the two loops come to: they and those before
\* them have a CPU in front of the first hole.
Reported ==
  LET ahead == {c \in Online : 0 .. c \subseteq Online}
  IN  {s \in Present : \A q \in 1 .. s : \E c \in ahead : PackageOf[c] + 1 = q}

\* Once the socket map is complete, a system whose CPUs have stopped working has
\* its idleness reported to every socket the loops come to, again and again, even
\* if the ring was full before (main.rs 147-175, sensors/mod.rs 414-426).
IdleReported ==
  <>[][FALSE]_CPU_TIME /\ <>[](todo = {})
    => \A s \in Reported : []<>("IdleEvent" \in records[s])
=============================================================================
