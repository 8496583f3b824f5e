-------------------------- MODULE AttributionProofs --------------------------
(***************************************************************************)
(* What Attribution charges the processes for, proved for any number of    *)
(* processes, CPUs and refreshes.                                          *)
(*                                                                         *)
(* ChargedForRunTime follows from what an entry of PID_TIMES has grown by  *)
(* since its newest record.  SharesBounded compares sums over processes    *)
(* with differences of CPU_TIME: it follows from two such comparisons,     *)
(* Balanced, that are kept at every step of a refresh.                     *)
(***************************************************************************)
EXTENDS Attribution, FiniteSums

\* Busy times per CPU.
Times == [Cpu -> Nat]

\* What the variables range over, and where in a refresh there is something to read.
AttributionType ==
  /\ CPU_TIME \in Times
  /\ DOMAIN PID_TIMES \subseteq Pid /\ \A p \in DOMAIN PID_TIMES : PID_TIMES[p] \in Times
  /\ running \subseteq Pid
  /\ pc \in {"wait", "procs", "cpus"}
  /\ sysinfo \subseteq Pid /\ before \subseteq Pid
  /\ toRead \subseteq sysinfo /\ (pc # "procs" => toRead = {})
  /\ read \in Seq(Nat) /\ Len(read) < nb_cores /\ (pc # "cpus" => read = <<>>)
  /\ records \in [Pid -> Seq(Times \cup {None})]
  /\ cpu_time_buffer \in Seq(Times) /\ Len(cpu_time_buffer) <= 2
  /\ ran \in [Pid -> Times] /\ window \in [Pid -> Times]
  /\ late \in Times /\ latePrev \in Times

\* No process has run longer than its CPU, nor longer than all of the work.
RanBounded ==
  \A p \in Pid, c \in Cpu :
    /\ ran[p][c] <= CPU_TIME[c] /\ ran[p][c] <= MaxWork
    /\ window[p][c] <= MaxWork

\* What an entry has grown by since the newest record was read from it.
EntrySince ==
  \A p \in Pid \ removed :
    records[p] # <<>> /\ records[p][1] # None =>
      /\ p \in DOMAIN PID_TIMES
      /\ \A c \in Cpu : PID_TIMES[p][c] = records[p][1][c] + ran[p][c]

\* What it had grown by then since the record before.
RecordSince ==
  \A p \in Pid \ restarted :
    Len(records[p]) = 2 /\ None \notin Range(records[p]) =>
      \A c \in Cpu : records[p][1][c] = records[p][2][c] + window[p][c]

\* The newest reading of CPU_TIME[c], which is its value as long as the refresh has not
\* come to it, and the one before.
Reading(c) ==
  IF pc = "wait" THEN cpu_time_buffer[Len(cpu_time_buffer)][c]
  ELSE IF c < Len(read) THEN read[c + 1] ELSE CPU_TIME[c]
Earlier(c) == cpu_time_buffer[IF pc = "wait" THEN Len(cpu_time_buffer) - 1 ELSE Len(cpu_time_buffer)][c]

HasReading == pc = "wait" => cpu_time_buffer # <<>>
HasEarlier == IF pc = "wait" THEN Len(cpu_time_buffer) = 2 ELSE cpu_time_buffer # <<>>

\* What the processes have run since their newest record, and what they had run then
\* or, if they are still to be read, have run by now, since the one before.
RanOn(c)   == [p \in Pid |-> ran[p][c]]
SinceOn(c) == [p \in Pid |-> IF p \in toRead THEN ran[p][c] ELSE window[p][c]]

\* Readings do not decrease.  The processes that have been read cannot have run more since
\* than their CPU was busy since it was read, and late before; the same of the processes
\* of two successive snapshots, between the two readings.
Balanced(c) ==
  /\ HasReading =>
       /\ Reading(c) <= CPU_TIME[c]
       /\ Sum(RanOn(c), sysinfo \ toRead) <= CPU_TIME[c] - Reading(c) + late[c]
  /\ HasEarlier =>
       /\ Earlier(c) <= Reading(c)
       /\ Sum(SinceOn(c), before \cap sysinfo) <= Reading(c) - Earlier(c) + latePrev[c]

ChargedInv == AttributionType /\ RanBounded /\ EntrySince /\ RecordSince

SharesInv == AttributionType /\ \A c \in Cpu : Balanced(c)

-----------------------------------------------------------------------------
(***************************************************************************)
(* Types.                                                                  *)
(***************************************************************************)

\* The CPUs are numbered from 0 up to nb_cores, and are finitely many, as the pids are.
LEMMA CpuFacts ==
  /\ Cpu \subseteq Nat /\ 0 \in Cpu /\ \A c \in Cpu : c < nb_cores
  /\ nb_cores \in Nat /\ IsFiniteSet(Cpu) /\ IsFiniteSet(Pid)
  /\ Zero \in Times /\ None \notin Times
<1>1. Cpu \subseteq Nat /\ 0 \in Cpu /\ (\A c \in Cpu : c < nb_cores) /\ nb_cores \in Nat
  BY AttributionAssumption DEF Cpu
<1>2. IsFiniteSet(Cpu)
  <2>1. 0 \in Int /\ nb_cores - 1 \in Int
    BY <1>1
  <2> QED BY <2>1, FS_Interval DEF Cpu
<1>3. Zero \in Times
  BY DEF Zero, Times
<1>4. None \notin Times
  BY <1>1 DEF None, Times
<1> QED BY <1>1, <1>2, <1>3, <1>4, AttributionAssumption

\* The larger and the smaller of two numbers.
LEMMA MaxOfTwo ==
  ASSUME NEW a \in Int, NEW b \in Int PROVE Max({a, b}) = IF a >= b THEN a ELSE b
BY DEF Max

\* The lesser of two numbers.
LEMMA MinOfTwo ==
  ASSUME NEW a \in Int, NEW b \in Int PROVE Min({a, b}) = IF a <= b THEN a ELSE b
BY DEF Min

\* b holds r and, before it, the last of the records of a.
TwoNewestOf(b, a, r) ==
  /\ b \in Seq(Times) /\ Len(b) = IF a = <<>> THEN 1 ELSE 2
  /\ b[Len(b)] = r
  /\ a # <<>> => b[1] = a[Len(a)]

\* The trimming after a new record leaves it and the one before.
LEMMA TwoNewest ==
  ASSUME NEW a \in Seq(Times), Len(a) <= 2, NEW r \in Times
  PROVE  LET ar == Append(a, r)
         IN  TwoNewestOf(SubSeq(ar, Max({1, Len(ar) - 1}), Len(ar)), a, r)
<1> DEFINE ar == Append(a, r)
           m  == Max({1, Len(ar) - 1})
           b  == SubSeq(ar, m, Len(ar))
<1>1. Len(a) \in Nat /\ (a = <<>> <=> Len(a) = 0)
  OBVIOUS
<1>2. /\ ar \in Seq(Times) /\ Len(ar) = Len(a) + 1 /\ ar[Len(ar)] = r
      /\ \A i \in 1 .. Len(a) : ar[i] = a[i]
  OBVIOUS
<1>3. m = IF Len(a) >= 1 THEN Len(a) ELSE 1
  <2> HIDE DEF ar
  <2>1. 1 \in Int /\ Len(ar) - 1 \in Int
    BY <1>1, <1>2
  <2>2. m = IF 1 >= Len(ar) - 1 THEN 1 ELSE Len(ar) - 1
    BY <2>1, MaxOfTwo, Zenon
  <2> HIDE DEF m
  <2> QED BY <1>1, <1>2, <2>2
<1> HIDE DEF ar, m
<1>4. m \in 1 .. Len(ar)
  BY <1>1, <1>2, <1>3
<1>5. /\ b \in Seq(Times) /\ Len(b) = Len(ar) - m + 1
      /\ \A i \in 1 .. Len(ar) - m + 1 : b[i] = ar[m + i - 1]
  BY <1>2, <1>4
<1> HIDE DEF b
<1>6. Len(b) = IF a = <<>> THEN 1 ELSE 2
  <2> DEFINE la == Len(a)
             lr == Len(ar)
             lb == Len(b)
  <2>1. lb = lr - m + 1 /\ lr = la + 1 /\ la \in Nat /\ m = IF la >= 1 THEN la ELSE 1
    BY <1>1, <1>2, <1>3, <1>5
  <2>2. lb = IF la = 0 THEN 1 ELSE 2
    <3> HIDE DEF la, lr, lb
    <3> QED BY <2>1
  <2> QED BY <1>1, <2>2
<1>7. b[Len(b)] = r
  <2>1. Len(b) \in 1 .. Len(ar) - m + 1 /\ m + Len(b) - 1 = Len(ar)
    BY <1>1, <1>2, <1>3, <1>4, <1>5
  <2>2. b[Len(b)] = ar[m + Len(b) - 1]
    BY <1>5, <2>1, Zenon
  <2> QED BY <1>2, <2>1, <2>2
<1>8. a # <<>> => b[1] = a[Len(a)]
  <2> SUFFICES ASSUME a # <<>> PROVE b[1] = a[Len(a)]
    OBVIOUS
  <2>1. 1 \in 1 .. Len(ar) - m + 1 /\ m + 1 - 1 = Len(a) /\ Len(a) \in 1 .. Len(a)
    BY <1>1, <1>2, <1>3
  <2>2. b[1] = ar[m + 1 - 1]
    BY <1>5, <2>1, Zenon
  <2> QED BY <1>2, <2>1, <2>2
<1> QED BY <1>5, <1>6, <1>7, <1>8 DEF TwoNewestOf, b, m, ar

\* What refresh_cpu_time_record does.
LEMMA ReadingShape ==
  ASSUME AttributionType, refresh_cpu_time_record
  PROVE  LET n      == Len(read)
             values == Append(read, CPU_TIME[n])
             record == [c \in Cpu |-> values[c + 1]]
         IN  /\ pc = "cpus" /\ n \in Cpu
             /\ values \in Seq(Nat) /\ Len(values) = n + 1
             /\ \/ /\ n + 1 < nb_cores /\ read' = values
                   /\ pc' = "cpus" /\ cpu_time_buffer' = cpu_time_buffer
                \/ /\ n + 1 = nb_cores /\ read' = <<>> /\ pc' = "wait"
                   /\ record \in Times
                   /\ TwoNewestOf(cpu_time_buffer', cpu_time_buffer, record)
<1> DEFINE n      == Len(read)
           values == Append(read, CPU_TIME[n])
           record == [c \in Cpu |-> values[c + 1]]
           buffer == Append(cpu_time_buffer, record)
<1>1. n \in Nat /\ n < nb_cores /\ n \in Cpu /\ nb_cores \in Nat /\ read \in Seq(Nat)
  BY AttributionAssumption DEF AttributionType, Cpu
<1>2. CPU_TIME[n] \in Nat
  BY <1>1 DEF AttributionType, Times
<1>3. values \in Seq(Nat) /\ Len(values) = n + 1
  BY <1>1, <1>2
<1>4. pc = "cpus"
  BY DEF refresh_cpu_time_record
<1>5. CASE n + 1 < nb_cores
  <2>1. read' = values /\ pc' = pc /\ cpu_time_buffer' = cpu_time_buffer
    BY <1>3, <1>5 DEF refresh_cpu_time_record
  <2> QED BY <1>1, <1>3, <1>4, <1>5, <2>1
<1>6. CASE ~(n + 1 < nb_cores)
  <2>1. /\ read' = <<>> /\ pc' = "wait"
        /\ cpu_time_buffer' = SubSeq(buffer, Max({1, Len(buffer) - 1}), Len(buffer))
    BY <1>3, <1>6 DEF refresh_cpu_time_record
  <2>2. n + 1 = nb_cores
    BY <1>1, <1>6
  <2>3. record \in Times
    <3>1. \A c \in Cpu : c + 1 \in 1 .. Len(values)
      BY <1>1, <1>3, <2>2 DEF Cpu
    <3>2. \A c \in Cpu : values[c + 1] \in Nat
      BY <1>3, <3>1
    <3> QED BY <3>2 DEF Times
  <2>4. TwoNewestOf(cpu_time_buffer', cpu_time_buffer, record)
    <3> HIDE DEF record
    <3>1. cpu_time_buffer \in Seq(Times) /\ Len(cpu_time_buffer) <= 2
      BY DEF AttributionType
    <3> QED BY <2>1, <2>3, <3>1, TwoNewest, Zenon DEF TwoNewestOf
  <2> QED BY <1>1, <1>3, <1>4, <2>1, <2>2, <2>3, <2>4
<1> QED BY <1>5, <1>6

\* What the accounting programs do, without the bound.
LEMMA BusyShape ==
  ASSUME NEW c \in Cpu, Busy(c)
  PROVE  /\ CPU_TIME' = [CPU_TIME EXCEPT ![c] = @ + 1]
         /\ late' = IF pc # "wait" /\ Len(read) <= c THEN [late EXCEPT ![c] = @ + 1] ELSE late
BY Zenon DEF Busy

\* The variables keep their types.
LEMMA TypeStep == AttributionType /\ [Next]_vars => AttributionType'
<1> SUFFICES ASSUME AttributionType, [Next]_vars PROVE AttributionType'
  OBVIOUS
<1> USE CpuFacts
<1>1. ASSUME NEW c \in Cpu, Busy(c) PROVE CPU_TIME' \in Times /\ late' \in Times
  <2>1. CPU_TIME \in [Cpu -> Nat] /\ late \in [Cpu -> Nat]
    BY DEF AttributionType, Times
  <2>2. \A f \in [Cpu -> Nat] : [f EXCEPT ![c] = @ + 1] \in [Cpu -> Nat]
    OBVIOUS
  <2> QED BY <1>1, <2>1, <2>2, BusyShape, ZenonT(30) DEF Times
<1>2. ASSUME NEW p \in Pid, NEW c \in Cpu, Run(p, c) PROVE AttributionType'
  <2>1. CPU_TIME' \in Times /\ late' \in Times
    BY <1>1, <1>2 DEF Run
  <2>2. DOMAIN PID_TIMES' \subseteq Pid /\ \A q \in DOMAIN PID_TIMES' : PID_TIMES'[q] \in Times
    <3> DEFINE old == IF p \in DOMAIN PID_TIMES THEN PID_TIMES[p] ELSE Zero
    <3>1. PID_TIMES' = [q \in DOMAIN PID_TIMES \cup {p} |->
                          IF q = p THEN [old EXCEPT ![c] = @ + 1] ELSE PID_TIMES[q]]
      BY <1>2, Zenon DEF Run
    <3>2. old \in [Cpu -> Nat]
      BY DEF AttributionType, Times
    <3>3. [old EXCEPT ![c] = @ + 1] \in Times
      <4> HIDE DEF old
      <4> QED BY <3>2 DEF Times
    <3> HIDE DEF old
    <3> QED BY <3>1, <3>3 DEF AttributionType
  <2>3. ran' \in [Pid -> Times]
    <3>1. ran' = [ran EXCEPT ![p][c] = @ + 1]
      BY <1>2, Zenon DEF Run
    <3>2. ran \in [Pid -> [Cpu -> Nat]]
      BY DEF AttributionType, Times
    <3> QED BY <3>1, <3>2 DEF Times
  <2> QED BY <1>2, <2>1, <2>2, <2>3 DEF Run, AttributionType, reader
<1>3. ASSUME NEW c \in Cpu, RunUnrecorded(c) PROVE AttributionType'
  BY <1>1, <1>3 DEF RunUnrecorded, AttributionType, reader
<1>4. ASSUME NEW p \in Pid, Exit(p) PROVE AttributionType'
  BY <1>4 DEF Exit, AttributionType, reader
<1>5. ASSUME NEW p \in Pid, Reap(p) PROVE AttributionType'
  BY <1>5 DEF Reap, AttributionType, reader, ebpf, history
<1>6. ASSUME NEW p \in Pid, NEW differs, Fork(p, differs) \/ Exec(p, differs)
      PROVE  AttributionType'
  BY <1>6 DEF Fork, Exec, AttributionType, reader, ebpf, history
<1>7. ASSUME NEW cleans, RefreshStart(cleans) PROVE AttributionType'
  <2>1. records' \in [Pid -> Seq(Times \cup {None})]
    BY <1>7 DEF RefreshStart, AttributionType
  <2> QED BY <1>7, <2>1 DEF RefreshStart, AttributionType, ebpf
<1>8. ASSUME NEW p \in Pid, ReadProcess(p) PROVE AttributionType'
  <2>1. get_process_core_times(p) \in Times \cup {None}
    BY DEF get_process_core_times, AttributionType
  <2>2. Older(p) \in Seq(Times \cup {None})
    <3>1. records[p] \in Seq(Times \cup {None})
      BY DEF AttributionType
    <3>2. records[p] # <<>> => records[p][1] \in Times \cup {None}
      BY <3>1
    <3>3. <<>> \in Seq(Times \cup {None})
      OBVIOUS
    <3>4. \A r \in Times \cup {None} : <<r>> \in Seq(Times \cup {None})
      OBVIOUS
    <3> QED BY <3>2, <3>3, <3>4, Zenon DEF Older
  <2>3. records' \in [Pid -> Seq(Times \cup {None})]
    BY <1>8, <2>1, <2>2 DEF ReadProcess, AttributionType
  <2>4. ran' \in [Pid -> Times] /\ window' \in [Pid -> Times]
    BY <1>8 DEF ReadProcess, AttributionType
  <2> QED BY <1>8, <2>3, <2>4 DEF ReadProcess, AttributionType, ebpf
<1>9. CASE refresh_cpu_time_record
  <2>1. /\ pc' \in {"wait", "cpus"} /\ (pc' = "wait" => read' = <<>>)
        /\ read' \in Seq(Nat) /\ Len(read') < nb_cores
    <3> DEFINE values == Append(read, CPU_TIME[Len(read)])
    <3>1. /\ values \in Seq(Nat) /\ Len(values) = Len(read) + 1
          /\ \/ Len(read) + 1 < nb_cores /\ read' = values /\ pc' = "cpus"
             \/ read' = <<>> /\ pc' = "wait"
      BY <1>9, ReadingShape, Zenon
    <3> HIDE DEF values
    <3>2. nb_cores > 0 /\ <<>> \in Seq(Nat) /\ Len(<<>>) = 0
      BY AttributionAssumption
    <3> QED BY <3>1, <3>2
  <2>2. cpu_time_buffer' \in Seq(Times) /\ Len(cpu_time_buffer') <= 2
    <3>1. CASE cpu_time_buffer' = cpu_time_buffer
      BY <3>1 DEF AttributionType
    <3>2. ASSUME NEW record, TwoNewestOf(cpu_time_buffer', cpu_time_buffer, record)
          PROVE  cpu_time_buffer' \in Seq(Times) /\ Len(cpu_time_buffer') <= 2
      BY <3>2 DEF TwoNewestOf
    <3> QED BY <1>9, <3>1, <3>2, ReadingShape, Zenon
  <2> QED BY <1>9, <2>1, <2>2 DEF refresh_cpu_time_record, AttributionType, ebpf, history
<1>10. CASE UNCHANGED vars
  BY <1>10 DEF vars, AttributionType
<1> QED BY <1>2, <1>3, <1>4, <1>5, <1>6, <1>7, <1>8, <1>9, <1>10 DEF Next

-----------------------------------------------------------------------------
(***************************************************************************)
(* What a step of work changes.                                            *)
(***************************************************************************)

\* What one unit of work on a CPU changes, point by point.
LEMMA BusyPoints ==
  ASSUME AttributionType, NEW c \in Cpu, Busy(c)
  PROVE  /\ \A d \in Cpu : CPU_TIME'[d] = IF d = c THEN CPU_TIME[d] + 1 ELSE CPU_TIME[d]
         /\ \A d \in Cpu : late'[d] = IF d = c /\ pc # "wait" /\ Len(read) <= c
                                      THEN late[d] + 1 ELSE late[d]
<1>1. CPU_TIME \in [Cpu -> Nat] /\ late \in [Cpu -> Nat]
  BY DEF AttributionType, Times
<1>2. CPU_TIME' = [CPU_TIME EXCEPT ![c] = @ + 1]
  BY BusyShape
<1>3. CASE pc # "wait" /\ Len(read) <= c
  <2>1. late' = [late EXCEPT ![c] = @ + 1]
    BY <1>3, BusyShape
  <2> QED BY <1>1, <1>2, <1>3, <2>1
<1>4. CASE ~(pc # "wait" /\ Len(read) <= c)
  <2>1. late' = late
    BY <1>4, BusyShape
  <2> QED BY <1>1, <1>2, <1>4, <2>1
<1> QED BY <1>3, <1>4

\* The bound on the work of all CPUs is one on the work of each.
LEMMA BusyBound ==
  ASSUME AttributionType, NEW c \in Cpu, Busy(c) PROVE CPU_TIME[c] < MaxWork
<1>1. Sum(CPU_TIME, Cpu) < MaxWork
  BY Zenon DEF Busy, Sum
<1>2. IsFiniteSet(Cpu) /\ \A d \in Cpu : CPU_TIME[d] \in Nat
  BY CpuFacts DEF AttributionType, Times
<1>3. \A d \in Cpu : CPU_TIME[d] \in Int
  BY <1>2
<1>4. Sum(CPU_TIME, Cpu) = CPU_TIME[c] + Sum(CPU_TIME, Cpu \ {c})
  BY <1>2, <1>3, SumRemove, ZenonT(30)
<1>5. Cpu \ {c} \in SUBSET Cpu
  OBVIOUS
<1>6. Sum(CPU_TIME, Cpu \ {c}) \in Nat
  BY <1>2, <1>5, SumSubset, Zenon
<1> QED BY <1>1, <1>2, <1>4, <1>6, AttributionAssumption

\* What one unit of run time of a process changes, point by point.
LEMMA RunPoints ==
  ASSUME AttributionType, NEW p \in Pid, NEW c \in Cpu, Run(p, c)
  PROVE  /\ \A q \in Pid, d \in Cpu :
              ran'[q][d] = IF q = p /\ d = c THEN ran[q][d] + 1 ELSE ran[q][d]
         /\ DOMAIN PID_TIMES \subseteq DOMAIN PID_TIMES'
         /\ \A q \in DOMAIN PID_TIMES, d \in Cpu :
              PID_TIMES'[q][d] = IF q = p /\ d = c THEN PID_TIMES[q][d] + 1 ELSE PID_TIMES[q][d]
<1> DEFINE old == IF p \in DOMAIN PID_TIMES THEN PID_TIMES[p] ELSE Zero
           new == [old EXCEPT ![c] = @ + 1]
<1>1. /\ PID_TIMES' = [q \in DOMAIN PID_TIMES \cup {p} |-> IF q = p THEN new ELSE PID_TIMES[q]]
      /\ ran' = [ran EXCEPT ![p][c] = @ + 1]
  BY Zenon DEF Run
<1>2. ran \in [Pid -> [Cpu -> Nat]] /\ \A q \in DOMAIN PID_TIMES : PID_TIMES[q] \in [Cpu -> Nat]
  BY DEF AttributionType, Times
<1>3. \A q \in Pid, d \in Cpu :
        ran'[q][d] = IF q = p /\ d = c THEN ran[q][d] + 1 ELSE ran[q][d]
  <2> HIDE DEF new
  <2> QED BY <1>1, <1>2
<1>4. p \in DOMAIN PID_TIMES =>
        \A d \in Cpu : new[d] = IF d = c THEN PID_TIMES[p][d] + 1 ELSE PID_TIMES[p][d]
  BY <1>2
<1> HIDE DEF new
<1>5. \A q \in DOMAIN PID_TIMES, d \in Cpu :
        PID_TIMES'[q][d] = IF q = p /\ d = c THEN PID_TIMES[q][d] + 1 ELSE PID_TIMES[q][d]
  <2> TAKE q \in DOMAIN PID_TIMES, d \in Cpu
  <2>1. CASE q = p
    BY <1>1, <1>4, <2>1
  <2>2. CASE q # p
    BY <1>1, <2>2
  <2> QED BY <2>1, <2>2
<1> QED BY <1>1, <1>3, <1>5

-----------------------------------------------------------------------------
(***************************************************************************)
(* A process is charged for what it has run.                               *)
(***************************************************************************)

\* What reading process p does to its records.
LEMMA ReadPoints ==
  ASSUME AttributionType, NEW p \in Pid, ReadProcess(p)
  PROVE  /\ records'[p] \in Seq(Times \cup {None})
         /\ records'[p] # <<>> /\ records'[p][1] = get_process_core_times(p)
         /\ Len(records'[p]) = 2 => records[p] # <<>> /\ records'[p][2] = records[p][1]
         /\ \A q \in Pid : q # p => records'[q] = records[q]
<1>1. records' = [records EXCEPT ![p] = <<get_process_core_times(p)>> \o Older(p)]
  BY DEF ReadProcess
<1>2. records \in [Pid -> Seq(Times \cup {None})]
  BY DEF AttributionType
<1>3. get_process_core_times(p) \in Times \cup {None}
  BY DEF get_process_core_times, AttributionType
<1> DEFINE t == get_process_core_times(p)
           S == Times \cup {None}
<1>4. CASE Older(p) = <<>>
  <2>1. records'[p] = <<t>> \o <<>>
    BY <1>1, <1>2, <1>4
  <2> HIDE DEF t, S
  <2>2. t \in S
    BY <1>3 DEF t, S
  <2>3. <<t>> \o <<>> \in Seq(S) /\ Len(<<t>> \o <<>>) = 1 /\ (<<t>> \o <<>>)[1] = t
    BY <2>2
  <2>4. records'[p] \in Seq(S) /\ Len(records'[p]) = 1 /\ records'[p][1] = t
    BY <2>1, <2>3
  <2>5. records'[p] # <<>>
    BY <2>4
  <2>6. \A q \in Pid : q # p => records'[q] = records[q]
    BY <1>1, <1>2
  <2> QED BY <2>4, <2>5, <2>6 DEF t, S
<1>5. CASE Older(p) # <<>>
  <2>1. records[p] # <<>> /\ Older(p) = <<records[p][1]>>
    BY <1>5 DEF Older
  <2> DEFINE r == records[p][1]
  <2>2. r \in S
    BY <1>2, <2>1
  <2>3. records'[p] = <<t>> \o <<r>>
    BY <1>1, <1>2, <2>1
  <2> HIDE DEF t, S, r
  <2>4. t \in S
    BY <1>3 DEF t, S
  <2>5. /\ <<t>> \o <<r>> \in Seq(S) /\ Len(<<t>> \o <<r>>) = 2
        /\ (<<t>> \o <<r>>)[1] = t /\ (<<t>> \o <<r>>)[2] = r
    BY <2>2, <2>4
  <2> QED BY <1>1, <1>2, <2>1, <2>3, <2>5 DEF t, S, r
<1> QED BY <1>4, <1>5

\* Reading a process starts a new window.
LEMMA ReadCharged ==
  ASSUME ChargedInv, NEW p \in Pid, ReadProcess(p) PROVE RanBounded' /\ EntrySince' /\ RecordSince'
<1>1. AttributionType /\ RanBounded /\ EntrySince /\ RecordSince
  BY DEF ChargedInv
<1>2. /\ CPU_TIME' = CPU_TIME /\ PID_TIMES' = PID_TIMES
      /\ ran' = [ran EXCEPT ![p] = Zero] /\ window' = [window EXCEPT ![p] = ran[p]]
      /\ removed' = removed \ {p}
      /\ restarted' = IF p \in removed THEN restarted \cup {p} ELSE restarted \ {p}
  BY DEF ReadProcess, ebpf
<1>3. /\ ran'[p] = Zero /\ window'[p] = ran[p]
      /\ \A q \in Pid : q # p => ran'[q] = ran[q] /\ window'[q] = window[q]
  BY <1>1, <1>2 DEF AttributionType
<1>4. /\ records'[p] \in Seq(Times \cup {None})
      /\ records'[p] # <<>> /\ records'[p][1] = get_process_core_times(p)
      /\ Len(records'[p]) = 2 => records[p] # <<>> /\ records'[p][2] = records[p][1]
      /\ \A q \in Pid : q # p => records'[q] = records[q]
  BY <1>1, ReadPoints
<1>5. \A c \in Cpu : Zero[c] = 0 /\ CPU_TIME[c] \in Nat /\ ran[p][c] \in Nat
  BY <1>1 DEF Zero, AttributionType, Times
<1>6. RanBounded'
  <2> SUFFICES ASSUME NEW q \in Pid, NEW c \in Cpu
               PROVE  ran'[q][c] <= CPU_TIME'[c] /\ ran'[q][c] <= MaxWork /\ window'[q][c] <= MaxWork
    BY DEF RanBounded
  <2>1. CASE q = p
    BY <1>1, <1>2, <1>3, <1>5, <2>1, AttributionAssumption DEF RanBounded
  <2>2. CASE q # p
    BY <1>1, <1>2, <1>3, <2>2 DEF RanBounded
  <2> QED BY <2>1, <2>2
<1>7. EntrySince'
  <2> SUFFICES ASSUME NEW q \in Pid \ removed', records'[q] # <<>>, records'[q][1] # None
               PROVE  /\ q \in DOMAIN PID_TIMES'
                      /\ \A c \in Cpu : PID_TIMES'[q][c] = records'[q][1][c] + ran'[q][c]
    BY DEF EntrySince
  <2>1. CASE q = p
    <3>1. p \in DOMAIN PID_TIMES /\ records'[p][1] = PID_TIMES[p]
      BY <1>4, <2>1 DEF get_process_core_times
    <3>2. \A c \in Cpu : PID_TIMES[p][c] \in Nat
      BY <1>1, <3>1 DEF AttributionType, Times
    <3> QED BY <1>2, <1>3, <1>5, <2>1, <3>1, <3>2
  <2>2. CASE q # p
    BY <1>1, <1>2, <1>3, <1>4, <2>2 DEF EntrySince
  <2> QED BY <2>1, <2>2
<1>8. RecordSince'
  <2> SUFFICES ASSUME NEW q \in Pid \ restarted', Len(records'[q]) = 2, None \notin Range(records'[q])
               PROVE  \A c \in Cpu : records'[q][1][c] = records'[q][2][c] + window'[q][c]
    BY DEF RecordSince
  <2>1. CASE q = p
    <3>1. p \notin removed
      BY <1>2, <2>1
    <3>2. records'[p][1] # None /\ records'[p][2] # None
      <4>1. DOMAIN records'[p] = {1, 2}
        BY <1>4, <2>1
      <4> QED BY <2>1, <4>1 DEF Range
    <3>3. p \in DOMAIN PID_TIMES /\ records'[p][1] = PID_TIMES[p]
      BY <1>4, <3>2 DEF get_process_core_times
    <3>4. \A c \in Cpu : PID_TIMES[p][c] = records[p][1][c] + ran[p][c]
      BY <1>1, <1>4, <2>1, <3>1, <3>2 DEF EntrySince
    <3> QED BY <1>3, <1>4, <2>1, <3>3, <3>4
  <2>2. CASE q # p
    BY <1>1, <1>2, <1>3, <1>4, <2>2 DEF RecordSince
  <2> QED BY <2>1, <2>2
<1> QED BY <1>6, <1>7, <1>8

\* Work is added to the entry and to the history alike.
LEMMA RunCharged ==
  ASSUME ChargedInv, NEW p \in Pid, NEW c \in Cpu, Run(p, c)
  PROVE  RanBounded' /\ EntrySince' /\ RecordSince'
<1>1. AttributionType /\ RanBounded /\ EntrySince /\ RecordSince /\ Busy(c)
  BY DEF ChargedInv, Run
<1>2. /\ records' = records /\ window' = window /\ removed' = removed /\ restarted' = restarted
  BY Zenon DEF Run, reader
<1>3. /\ \A q \in Pid, d \in Cpu :
           ran'[q][d] = IF q = p /\ d = c THEN ran[q][d] + 1 ELSE ran[q][d]
      /\ DOMAIN PID_TIMES \subseteq DOMAIN PID_TIMES'
      /\ \A q \in DOMAIN PID_TIMES, d \in Cpu :
           PID_TIMES'[q][d] = IF q = p /\ d = c THEN PID_TIMES[q][d] + 1 ELSE PID_TIMES[q][d]
  BY <1>1, RunPoints
<1>4. CPU_TIME[c] < MaxWork /\ MaxWork \in Nat
  BY <1>1, BusyBound, AttributionAssumption
<1>5. \A d \in Cpu : CPU_TIME'[d] = IF d = c THEN CPU_TIME[d] + 1 ELSE CPU_TIME[d]
  BY <1>1, BusyPoints
<1>6. \A q \in Pid, d \in Cpu : ran[q][d] \in Nat /\ CPU_TIME[d] \in Nat
  BY <1>1 DEF AttributionType, Times
<1>7. RanBounded'
  <2> SUFFICES ASSUME NEW q \in Pid, NEW d \in Cpu
               PROVE  ran'[q][d] <= CPU_TIME'[d] /\ ran'[q][d] <= MaxWork /\ window'[q][d] <= MaxWork
    BY DEF RanBounded
  <2>1. ran[q][d] <= CPU_TIME[d] /\ ran[q][d] <= MaxWork /\ window[q][d] <= MaxWork
    BY <1>1 DEF RanBounded
  <2> QED BY <1>2, <1>3, <1>4, <1>5, <1>6, <2>1
<1>8. EntrySince'
  <2> SUFFICES ASSUME NEW q \in Pid \ removed, records[q] # <<>>, records[q][1] # None
               PROVE  /\ q \in DOMAIN PID_TIMES'
                      /\ \A d \in Cpu : PID_TIMES'[q][d] = records[q][1][d] + ran'[q][d]
    BY <1>2 DEF EntrySince
  <2>1. q \in DOMAIN PID_TIMES /\ \A d \in Cpu : PID_TIMES[q][d] = records[q][1][d] + ran[q][d]
    BY <1>1 DEF EntrySince
  <2>2. records[q][1] \in Times
    <3>1. records[q] \in Seq(Times \cup {None})
      BY <1>1 DEF AttributionType
    <3>2. records[q][1] \in Times \cup {None}
      BY <3>1
    <3> QED BY <3>2
  <2>3. \A d \in Cpu : records[q][1][d] \in Nat
    BY <2>2 DEF Times
  <2> QED BY <1>3, <1>6, <2>1, <2>3, SMTT(30)
<1>9. RecordSince'
  BY <1>1, <1>2 DEF RecordSince
<1> QED BY <1>7, <1>8, <1>9

\* Every step keeps the charges.
LEMMA ChargedStep == ChargedInv /\ [Next]_vars => ChargedInv'
<1> SUFFICES ASSUME ChargedInv, [Next]_vars PROVE ChargedInv'
  OBVIOUS
<1>1. AttributionType /\ AttributionType' /\ RanBounded /\ EntrySince /\ RecordSince
  BY TypeStep DEF ChargedInv
<1>2. ASSUME NEW p \in Pid, NEW c \in Cpu, Run(p, c) PROVE ChargedInv'
  BY <1>1, <1>2, RunCharged DEF ChargedInv
<1>3. ASSUME NEW p \in Pid, ReadProcess(p) PROVE ChargedInv'
  BY <1>1, <1>3, ReadCharged DEF ChargedInv
<1>4. ASSUME NEW c \in Cpu, RunUnrecorded(c) PROVE ChargedInv'
  <2>1. Busy(c) /\ UNCHANGED <<PID_TIMES, records, ran, window, removed, restarted>>
    BY <1>4, Zenon DEF RunUnrecorded, reader
  <2>2. \A d \in Cpu : CPU_TIME'[d] = IF d = c THEN CPU_TIME[d] + 1 ELSE CPU_TIME[d]
    BY <1>1, <2>1, BusyPoints
  <2>3. \A q \in Pid, d \in Cpu : ran[q][d] \in Nat /\ CPU_TIME[d] \in Nat
    BY <1>1 DEF AttributionType, Times
  <2>4. RanBounded'
    BY <1>1, <2>1, <2>2, <2>3 DEF RanBounded
  <2> QED BY <1>1, <2>1, <2>4 DEF ChargedInv, EntrySince, RecordSince
<1>5. ASSUME NEW p \in Pid, Exit(p) PROVE ChargedInv'
  <2>1. /\ UNCHANGED <<CPU_TIME, records, ran, window, restarted>>
        /\ removed' = removed \cup {p}
        /\ PID_TIMES' = [q \in DOMAIN PID_TIMES \ {p} |-> PID_TIMES[q]]
    BY <1>5 DEF Exit, reader
  <2>2. EntrySince'
    BY <1>1, <2>1 DEF EntrySince
  <2> QED BY <1>1, <2>1, <2>2 DEF ChargedInv, RanBounded, RecordSince
<1>6. ASSUME NEW p \in Pid, NEW differs, Reap(p) \/ Fork(p, differs) \/ Exec(p, differs)
      PROVE  ChargedInv'
  BY <1>1, <1>6 DEF ChargedInv, RanBounded, EntrySince, RecordSince, Reap, Fork, Exec, ebpf,
                    reader, history
<1>7. ASSUME NEW cleans, RefreshStart(cleans) PROVE ChargedInv'
  <2>1. /\ UNCHANGED <<CPU_TIME, PID_TIMES, ran, window, removed, restarted>>
        /\ records' = [p \in Pid |-> IF cleans /\ p \notin sysinfo THEN <<>> ELSE records[p]]
    BY <1>7 DEF RefreshStart, ebpf
  <2>2. \A p \in Pid : records'[p] = <<>> \/ records'[p] = records[p]
    BY <2>1
  <2>3. EntrySince'
    BY <1>1, <2>1, <2>2 DEF EntrySince
  <2>4. RecordSince'
    BY <1>1, <2>1, <2>2 DEF RecordSince
  <2> QED BY <1>1, <2>1, <2>3, <2>4 DEF ChargedInv, RanBounded
<1>8. CASE refresh_cpu_time_record \/ UNCHANGED vars
  BY <1>1, <1>8 DEF ChargedInv, RanBounded, EntrySince, RecordSince, refresh_cpu_time_record, ebpf,
                    history, vars
<1> QED BY <1>2, <1>3, <1>4, <1>5, <1>6, <1>7, <1>8 DEF Next

\* At the start nothing has been recorded.
LEMMA ChargedStart == Init => ChargedInv
<1> SUFFICES ASSUME Init PROVE ChargedInv
  OBVIOUS
<1> USE CpuFacts
<1>1. Cardinality(Pid) \in Nat
  BY FS_CardinalityType
<1>2. \A n \in Nat : [Zero EXCEPT ![0] = n] \in Times
  BY DEF Times
<1>3. CPU_TIME \in Times
  BY <1>1, <1>2 DEF Init
<1>4. DOMAIN PID_TIMES \subseteq Pid /\ \A p \in DOMAIN PID_TIMES : PID_TIMES[p] \in Times
  BY <1>2 DEF Init
<1>5. AttributionType
  <2>1. /\ <<>> \in Seq(Nat) /\ <<>> \in Seq(Times) /\ <<>> \in Seq(Times \cup {None})
        /\ Len(<<>>) = 0 /\ 0 < nb_cores /\ 0 <= 2
    BY AttributionAssumption
  <2>2. /\ records \in [Pid -> Seq(Times \cup {None})]
        /\ ran \in [Pid -> Times] /\ window \in [Pid -> Times]
    BY <2>1, Zenon DEF Init
  <2>3. /\ read \in Seq(Nat) /\ Len(read) < nb_cores
        /\ cpu_time_buffer \in Seq(Times) /\ Len(cpu_time_buffer) <= 2
    BY <2>1, Zenon DEF Init
  <2> QED BY <1>3, <1>4, <2>2, <2>3 DEF Init, AttributionType
<1>6. RanBounded
  BY <1>3, AttributionAssumption DEF Init, RanBounded, Zero, Times
<1>7. EntrySince /\ RecordSince
  BY DEF Init, EntrySince, RecordSince
<1> QED BY <1>5, <1>6, <1>7 DEF ChargedInv

\* The wrapping subtraction gives the time that a process has run.
LEMMA ChargedExactly ==
  ASSUME ChargedInv, NEW p \in Attributed, NEW c \in Cpu
  PROVE  get_per_core_cpu_time_delta(p, c) = window[p][c] /\ window[p][c] \in Nat
<1>1. AttributionType /\ RanBounded /\ RecordSince
  BY DEF ChargedInv
<1>2. p \in Pid \ restarted /\ Len(records[p]) = 2 /\ None \notin Range(records[p])
  BY <1>1 DEF Attributed, HasShare, AttributionType
<1>3. records[p][1][c] = records[p][2][c] + window[p][c]
  BY <1>1, <1>2 DEF RecordSince
<1>4. records[p][2] \in Times
  <2>1. records[p] \in Seq(Times \cup {None}) /\ DOMAIN records[p] = {1, 2}
    BY <1>1, <1>2 DEF AttributionType
  <2>2. records[p][2] \in Times \cup {None} /\ records[p][2] # None
    BY <1>2, <2>1 DEF Range
  <2> QED BY <2>2
<1>5. records[p][2][c] \in Nat /\ window[p][c] \in Nat /\ window[p][c] <= MaxWork
  BY <1>1, <1>2, <1>4 DEF AttributionType, RanBounded, Times
<1>6. records[p][1][c] - records[p][2][c] = window[p][c]
  BY <1>3, <1>5
<1>7. \A a \in Nat, m \in Nat : a < m => a % m = a
  OBVIOUS
<1>8. window[p][c] % Modulus = window[p][c]
  BY <1>5, <1>7, AttributionAssumption
<1> QED BY <1>5, <1>6, <1>8 DEF get_per_core_cpu_time_delta

\* For any number of processes, CPUs and refreshes, and whatever is forked, run, exits or
\* is reaped during them: the time that a process with two records is charged for is what
\* it has run between them (utils.rs 404-428).
THEOREM ChargedForRunTimeAlways == Spec => []ChargedForRunTime
<1>1. ChargedInv => ChargedForRunTime
  BY ChargedExactly DEF ChargedForRunTime
<1> QED BY <1>1, ChargedStart, ChargedStep, PTL DEF Spec

-----------------------------------------------------------------------------
(***************************************************************************)
(* The processes together.                                                 *)
(***************************************************************************)

\* What is compared are natural numbers.
Comparable(c) ==
  /\ \A p \in Pid : RanOn(c)[p] \in Nat /\ SinceOn(c)[p] \in Nat
  /\ \A S \in SUBSET Pid :
       IsFiniteSet(S) /\ Sum(RanOn(c), S) \in Nat /\ Sum(SinceOn(c), S) \in Nat
  /\ CPU_TIME[c] \in Nat /\ late[c] \in Nat /\ latePrev[c] \in Nat
  /\ HasReading => Reading(c) \in Nat
  /\ HasEarlier => Earlier(c) \in Nat /\ HasReading

\* In any state of the right type the sums of SharesInv are of numbers.
LEMMA ComparableNow == AttributionType => \A c \in Cpu : Comparable(c)
<1> SUFFICES ASSUME AttributionType, NEW c \in Cpu PROVE Comparable(c)
  OBVIOUS
<1>1. \A p \in Pid : ran[p] \in [Cpu -> Nat] /\ window[p] \in [Cpu -> Nat]
  BY DEF AttributionType, Times
<1>2. \A p \in Pid : RanOn(c)[p] \in Nat /\ SinceOn(c)[p] \in Nat
  BY <1>1 DEF RanOn, SinceOn
<1>3. ASSUME NEW S \in SUBSET Pid
      PROVE  IsFiniteSet(S) /\ Sum(RanOn(c), S) \in Nat /\ Sum(SinceOn(c), S) \in Nat
  <2>1. IsFiniteSet(Pid)
    BY CpuFacts
  <2>2. IsFiniteSet(S)
    BY <2>1, FS_Subset
  <2>3. Sum(RanOn(c), S) \in Nat
    BY <1>2, <2>1, SumSubset, Zenon
  <2>4. Sum(SinceOn(c), S) \in Nat
    BY <1>2, <2>1, SumSubset, Zenon
  <2> QED BY <2>2, <2>3, <2>4
<1>4. CPU_TIME[c] \in Nat /\ late[c] \in Nat /\ latePrev[c] \in Nat
  BY DEF AttributionType, Times
<1>5. cpu_time_buffer \in Seq(Times) /\ Len(cpu_time_buffer) \in Nat /\ read \in Seq(Nat)
  BY DEF AttributionType
<1>6. \A i \in 1 .. Len(cpu_time_buffer) : cpu_time_buffer[i][c] \in Nat
  <2>1. \A i \in 1 .. Len(cpu_time_buffer) : cpu_time_buffer[i] \in Times
    BY <1>5
  <2> QED BY <2>1 DEF Times
<1>7. cpu_time_buffer # <<>> <=> Len(cpu_time_buffer) > 0
  BY <1>5
<1>8. HasReading => Reading(c) \in Nat
  <2>1. CASE pc = "wait"
    BY <1>5, <1>6, <1>7, <2>1 DEF HasReading, Reading
  <2>2. CASE pc # "wait"
    <3>1. c < Len(read) => read[c + 1] \in Nat
      <4>1. c \in Nat
        BY CpuFacts
      <4> QED BY <1>5, <4>1
    <3> QED BY <1>4, <2>2, <3>1 DEF Reading
  <2> QED BY <2>1, <2>2
<1>9. HasEarlier => Earlier(c) \in Nat /\ HasReading
  <2>1. CASE pc = "wait"
    <3> SUFFICES ASSUME Len(cpu_time_buffer) = 2 PROVE Earlier(c) \in Nat /\ HasReading
      BY <2>1 DEF HasEarlier
    <3>1. Len(cpu_time_buffer) - 1 \in 1 .. Len(cpu_time_buffer) /\ cpu_time_buffer # <<>>
      BY <1>7
    <3>2. Earlier(c) = cpu_time_buffer[Len(cpu_time_buffer) - 1][c]
      BY <2>1 DEF Earlier
    <3> QED BY <1>6, <3>1, <3>2 DEF HasReading
  <2>2. CASE pc # "wait"
    BY <1>5, <1>6, <1>7, <2>2 DEF HasReading, HasEarlier, Earlier
  <2> QED BY <2>1, <2>2
<1> QED BY <1>2, <1>3, <1>4, <1>8, <1>9 DEF Comparable

\* The same in the next state.
LEMMA ComparableNext == AttributionType' => \A c \in Cpu : Comparable(c)'
<1>1. AttributionType' => (\A c \in Cpu : Comparable(c))'
  BY ComparableNow, PTL
<1> QED BY <1>1

\* A sum of which one term grows by one.
LEMMA OneMore ==
  ASSUME NEW f, NEW g, NEW S \in SUBSET Pid, NEW p,
         \A q \in Pid : f[q] \in Nat /\ g[q] \in Nat /\ g[q] <= IF q = p THEN f[q] + 1 ELSE f[q]
  PROVE  Sum(g, S) <= Sum(f, S) + 1
<1> DEFINE h == [q \in Pid |-> IF q = p THEN f[q] + 1 ELSE f[q]]
<1>1. /\ IsFiniteSet(S) /\ \A q \in S : f[q] \in Int /\ g[q] \in Int /\ h[q] \in Int /\ g[q] <= h[q]
      /\ \A q \in S : h[q] = IF q = p THEN f[q] + 1 ELSE f[q]
  <2>1. IsFiniteSet(S)
    BY CpuFacts, FS_Subset
  <2> QED BY <2>1
<1> HIDE DEF h
<1>2. Sum(g, S) \in Int /\ Sum(f, S) \in Int /\ Sum(h, S) \in Int
  BY <1>1, SumInt
<1>3. Sum(g, S) <= Sum(h, S)
  BY <1>1, SumMonotone
<1>4. CASE p \in S
  <2>1. \A q \in S : q # p => h[q] = f[q]
    BY <1>1
  <2>2. Sum(h, S) = Sum(f, S) + h[p] - f[p]
    BY <1>1, <1>4, <2>1, SumUpdate
  <2> QED BY <1>1, <1>2, <1>3, <1>4, <2>2
<1>5. CASE p \notin S
  <2>1. Sum(f, S) = Sum(h, S)
    BY <1>1, <1>5, SumEqual
  <2> QED BY <1>2, <1>3, <2>1
<1> QED BY <1>4, <1>5

\* Work makes the sums grow by no more than the CPU's time.
LEMMA WorkBalanced ==
  ASSUME SharesInv, AttributionType', NEW c \in Cpu, Busy(c),
         UNCHANGED <<pc, sysinfo, toRead, read, cpu_time_buffer, window, before, latePrev>>,
         NEW p, \A q \in Pid, d \in Cpu :
                  ran'[q][d] <= IF q = p /\ d = c THEN ran[q][d] + 1 ELSE ran[q][d]
  PROVE  \A d \in Cpu : Balanced(d)'
<1> TAKE d \in Cpu
<1>1. AttributionType /\ Balanced(d) /\ Comparable(d) /\ Comparable(d)'
  BY ComparableNow, ComparableNext DEF SharesInv
<1> DEFINE A  == sysinfo \ toRead
           B  == before \cap sysinfo
           a  == Sum(RanOn(d), A)
           a1 == Sum(RanOn(d)', A)
           b  == Sum(SinceOn(d), B)
           b1 == Sum(SinceOn(d)', B)
<1>2. A \in SUBSET Pid /\ B \in SUBSET Pid
  BY <1>1 DEF AttributionType
<1>3. \A q \in Pid : /\ RanOn(d)[q] \in Nat /\ RanOn(d)'[q] \in Nat
                     /\ SinceOn(d)[q] \in Nat /\ SinceOn(d)'[q] \in Nat
  BY <1>1 DEF Comparable
<1>4. \A q \in Pid : RanOn(d)'[q] <= IF q = p /\ d = c THEN RanOn(d)[q] + 1 ELSE RanOn(d)[q]
  BY DEF RanOn
<1>5. \A q \in Pid : SinceOn(d)'[q] <= IF q = p /\ d = c THEN SinceOn(d)[q] + 1 ELSE SinceOn(d)[q]
  <2> TAKE q \in Pid
  <2>1. CASE q \in toRead
    BY <2>1 DEF SinceOn
  <2>2. CASE q \notin toRead
    <3>1. SinceOn(d)'[q] = SinceOn(d)[q] /\ SinceOn(d)[q] \in Nat
      BY <1>3, <2>2 DEF SinceOn
    <3> QED BY <3>1
  <2> QED BY <2>1, <2>2
<1>6. a \in Nat /\ a1 \in Nat /\ b \in Nat /\ b1 \in Nat
  <2>1. \A S \in SUBSET Pid : Sum(RanOn(d), S) \in Nat /\ Sum(SinceOn(d), S) \in Nat
    BY <1>1 DEF Comparable
  <2>2. \A S \in SUBSET Pid : Sum(RanOn(d)', S) \in Nat /\ Sum(SinceOn(d)', S) \in Nat
    BY <1>1 DEF Comparable
  <2> QED BY <1>2, <2>1, <2>2
<1>7. a1 <= (IF d = c THEN a + 1 ELSE a) /\ b1 <= (IF d = c THEN b + 1 ELSE b)
  <2>1. CASE d = c
    <3>1. a1 <= a + 1
      BY <1>2, <1>3, <1>4, <2>1, OneMore
    <3>2. b1 <= b + 1
      BY <1>2, <1>3, <1>5, <2>1, OneMore
    <3> QED BY <2>1, <3>1, <3>2
  <2>2. CASE d # c
    <3>1. IsFiniteSet(A) /\ IsFiniteSet(B)
      BY <1>2, CpuFacts, FS_Subset
    <3>2. a1 <= a
      <4>1. \A q \in A : RanOn(d)'[q] \in Int /\ RanOn(d)[q] \in Int /\ RanOn(d)'[q] <= RanOn(d)[q]
        BY <1>2, <1>3, <1>4, <2>2
      <4> QED BY <3>1, <4>1, SumMonotone
    <3>3. b1 <= b
      <4>1. \A q \in B : /\ SinceOn(d)'[q] \in Int /\ SinceOn(d)[q] \in Int
                         /\ SinceOn(d)'[q] <= SinceOn(d)[q]
        BY <1>2, <1>3, <1>5, <2>2
      <4> QED BY <3>1, <4>1, SumMonotone
    <3> QED BY <2>2, <3>2, <3>3
  <2> QED BY <2>1, <2>2
<1>8. toRead = {} => b1 = b
  BY DEF SinceOn
<1>9. /\ Earlier(d)' = Earlier(d) /\ (HasReading' <=> HasReading) /\ (HasEarlier' <=> HasEarlier)
      /\ a1 = Sum(RanOn(d), sysinfo \ toRead)' /\ b1 = Sum(SinceOn(d), before \cap sysinfo)'
      /\ latePrev'[d] = latePrev[d]
  BY DEF Earlier, HasReading, HasEarlier
<1>10. /\ CPU_TIME'[d] = IF d = c THEN CPU_TIME[d] + 1 ELSE CPU_TIME[d]
       /\ late'[d] = IF d = c /\ pc # "wait" /\ Len(read) <= c THEN late[d] + 1 ELSE late[d]
  BY <1>1, BusyPoints
<1>11. /\ CPU_TIME[d] \in Nat /\ late[d] \in Nat /\ latePrev[d] \in Nat
       /\ HasReading => Reading(d) \in Nat
       /\ HasEarlier => Earlier(d) \in Nat /\ HasReading
  BY <1>1 DEF Comparable
<1>12. /\ HasReading => Reading(d) <= CPU_TIME[d] /\ a <= CPU_TIME[d] - Reading(d) + late[d]
       /\ HasEarlier => Earlier(d) <= Reading(d) /\ b <= Reading(d) - Earlier(d) + latePrev[d]
  BY <1>1 DEF Balanced
<1> SUFFICES /\ HasReading => /\ Reading(d)' <= CPU_TIME'[d]
                              /\ a1 <= CPU_TIME'[d] - Reading(d)' + late'[d]
             /\ HasEarlier => /\ Earlier(d) <= Reading(d)'
                              /\ b1 <= Reading(d)' - Earlier(d) + latePrev[d]
  BY <1>9 DEF Balanced
<1> HIDE DEF a, a1, b, b1
<1>13. CASE d # c
  <2>1. Reading(d)' = Reading(d)
    BY <1>10, <1>13 DEF Reading
  <2> QED BY <1>6, <1>7, <1>10, <1>11, <1>12, <1>13, <2>1
<1>14. CASE d = c /\ pc # "wait" /\ Len(read) <= c
  <2>1. Reading(d) = CPU_TIME[d] /\ Reading(d)' = CPU_TIME'[d]
    <3>1. c \in Nat /\ Len(read) \in Nat
      BY <1>1, CpuFacts DEF AttributionType
    <3>2. ~(c < Len(read))
      BY <1>14, <3>1
    <3> QED BY <1>14, <3>2 DEF Reading
  <2>2. HasReading
    BY <1>14 DEF HasReading
  <2>3. /\ CPU_TIME'[d] = CPU_TIME[d] + 1 /\ late'[d] = late[d] + 1
        /\ a1 <= a + 1 /\ b1 <= b + 1
    BY <1>7, <1>10, <1>14
  <2>4. Reading(d)' = CPU_TIME[d] + 1 /\ Reading(d) = CPU_TIME[d]
    BY <2>1, <2>3
  <2>5. Reading(d)' <= CPU_TIME'[d] /\ a1 <= CPU_TIME'[d] - Reading(d)' + late'[d]
    BY <1>6, <1>11, <1>12, <2>2, <2>3, <2>4
  <2>6. HasEarlier => Earlier(d) <= Reading(d)' /\ b1 <= Reading(d)' - Earlier(d) + latePrev[d]
    BY <1>6, <1>11, <1>12, <2>3, <2>4
  <2> QED BY <2>5, <2>6
<1>15. CASE d = c /\ ~(pc # "wait" /\ Len(read) <= c)
  <2>1. c \in Nat /\ Len(read) \in Nat
    BY <1>1, CpuFacts DEF AttributionType
  <2>2. Reading(d)' = Reading(d)
    BY <1>15, <2>1 DEF Reading
  <2>3. toRead = {}
    <3>1. pc # "procs"
      <4>1. pc = "procs" => read = <<>> /\ Len(<<>>) = 0
        BY <1>1 DEF AttributionType
      <4> QED BY <1>15, <2>1, <4>1
    <3> QED BY <1>1, <3>1 DEF AttributionType
  <2> QED BY <1>6, <1>7, <1>8, <1>10, <1>11, <1>12, <1>15, <2>2, <2>3
<1> QED BY <1>13, <1>14, <1>15

\* A new refresh begins where the last one has ended.
LEMMA StartBalanced ==
  ASSUME SharesInv, AttributionType', NEW cleans, RefreshStart(cleans)
  PROVE  \A c \in Cpu : Balanced(c)'
<1> TAKE c \in Cpu
<1>1. AttributionType /\ Balanced(c) /\ Comparable(c) /\ Comparable(c)'
  BY ComparableNow, ComparableNext DEF SharesInv
<1>2. /\ pc = "wait" /\ pc' # "wait" /\ sysinfo' = running /\ toRead' = running
      /\ before' = sysinfo /\ late' = Zero /\ latePrev' = late
      /\ UNCHANGED <<CPU_TIME, read, cpu_time_buffer, ran, window>>
  BY DEF RefreshStart, ebpf
<1>3. toRead = {} /\ read = <<>> /\ sysinfo \in SUBSET Pid /\ running \in SUBSET Pid
  BY <1>1, <1>2 DEF AttributionType
<1>4. Reading(c)' = CPU_TIME[c]
  <2>1. c \in Nat /\ Len(<<>>) = 0
    BY CpuFacts
  <2>2. ~(c < Len(read))
    BY <1>3, <2>1
  <2> QED BY <1>2, <2>2 DEF Reading
<1>5. CPU_TIME[c] \in Nat /\ Zero[c] = 0 /\ late[c] \in Nat
  BY <1>1 DEF Comparable, Zero
<1>6. Sum(RanOn(c), sysinfo \ toRead)' = 0
  <2>1. sysinfo' \ toRead' = {}
    BY <1>2
  <2> QED BY <2>1, SumEmpty
<1>7. ASSUME HasEarlier'
      PROVE  /\ Earlier(c)' = Reading(c) /\ HasReading
             /\ Sum(SinceOn(c), before \cap sysinfo)' <= Sum(RanOn(c), sysinfo \ toRead)
  <2>1. cpu_time_buffer # <<>>
    BY <1>2, <1>7 DEF HasEarlier
  <2>2. Earlier(c)' = Reading(c) /\ HasReading
    BY <1>2, <2>1 DEF Earlier, Reading, HasReading
  <2> DEFINE S == sysinfo \cap running
             f == RanOn(c)
             g == SinceOn(c)'
  <2>3. S \in SUBSET sysinfo /\ IsFiniteSet(sysinfo) /\ IsFiniteSet(S)
        /\ \A p \in sysinfo : f[p] \in Nat
    <3>1. IsFiniteSet(sysinfo) /\ IsFiniteSet(S)
      BY <1>3, CpuFacts, FS_Subset
    <3> QED BY <1>1, <1>3, <3>1 DEF Comparable
  <2>4. \A p \in S : g[p] \in Int /\ g[p] = f[p]
    <3>1. \A p \in S : p \in Pid /\ p \in toRead'
      BY <1>2, <1>3
    <3>2. \A p \in S : g[p] = f[p]
      BY <1>2, <3>1 DEF SinceOn, RanOn
    <3> QED BY <2>3, <3>2
  <2> HIDE DEF S, f, g
  <2>5. Sum(g, S) = Sum(f, S)
    BY <2>3, <2>4, SumEqual
  <2>6. Sum(f, S) <= Sum(f, sysinfo)
    BY <2>3, SumSubset
  <2>7. Sum(SinceOn(c), before \cap sysinfo)' = Sum(g, S) /\ sysinfo \ toRead = sysinfo
    BY <1>2, <1>3 DEF S, g
  <2> QED BY <2>2, <2>5, <2>6, <2>7 DEF f
<1>8. /\ Reading(c)' <= CPU_TIME'[c]
      /\ Sum(RanOn(c), sysinfo \ toRead)' <= CPU_TIME'[c] - Reading(c)' + late'[c]
  BY <1>2, <1>4, <1>5, <1>6
<1>9. ASSUME HasEarlier'
      PROVE  /\ Earlier(c)' <= Reading(c)'
             /\ Sum(SinceOn(c), before \cap sysinfo)'
                  <= Reading(c)' - Earlier(c)' + latePrev'[c]
  <2> DEFINE a == Sum(RanOn(c), sysinfo \ toRead)
             b == Sum(SinceOn(c), before \cap sysinfo)'
  <2>1. Reading(c) <= CPU_TIME[c] /\ a <= CPU_TIME[c] - Reading(c) + late[c] /\ Reading(c) \in Nat
    BY <1>1, <1>7, <1>9 DEF Balanced, Comparable
  <2>2. a \in Nat /\ b \in Nat
    <3>1. sysinfo \ toRead \in SUBSET Pid /\ before' \cap sysinfo' \in SUBSET Pid
      BY <1>2, <1>3
    <3> QED BY <1>1, <3>1 DEF Comparable
  <2>3. b <= a /\ Earlier(c)' = Reading(c)
    BY <1>7, <1>9
  <2>4. latePrev'[c] = late[c]
    BY <1>2
  <2> HIDE DEF a, b
  <2>5. b <= CPU_TIME[c] - Reading(c) + late[c]
    BY <1>5, <2>1, <2>2, <2>3
  <2> QED BY <1>4, <2>1, <2>3, <2>4, <2>5 DEF b
<1> QED BY <1>8, <1>9 DEF Balanced

\* What a process has run moves from one sum to the other.
LEMMA ReadBalanced ==
  ASSUME SharesInv, AttributionType', NEW p \in Pid, ReadProcess(p)
  PROVE  \A c \in Cpu : Balanced(c)'
<1> TAKE c \in Cpu
<1>1. AttributionType /\ Balanced(c) /\ Comparable(c) /\ Comparable(c)'
  BY ComparableNow, ComparableNext DEF SharesInv
<1>2. /\ pc = "procs" /\ p \in toRead /\ pc' # "wait" /\ toRead' = toRead \ {p}
      /\ ran' = [ran EXCEPT ![p] = Zero] /\ window' = [window EXCEPT ![p] = ran[p]]
      /\ UNCHANGED <<CPU_TIME, sysinfo, read, cpu_time_buffer, before, late, latePrev>>
  BY DEF ReadProcess, ebpf
<1>3. /\ ran'[p] = Zero /\ window'[p] = ran[p] /\ Zero[c] = 0
      /\ \A q \in Pid : q # p => ran'[q] = ran[q] /\ window'[q] = window[q]
  BY <1>1, <1>2 DEF AttributionType, Zero
<1>4. SinceOn(c)' = SinceOn(c)
  <2>1. \A q \in Pid : (IF q \in toRead' THEN ran'[q][c] ELSE window'[q][c])
                         = (IF q \in toRead THEN ran[q][c] ELSE window[q][c])
    <3> TAKE q \in Pid
    <3>1. CASE q = p
      BY <1>2, <1>3, <3>1
    <3>2. CASE q # p
      BY <1>2, <1>3, <3>2
    <3> QED BY <3>1, <3>2
  <2> QED BY <2>1 DEF SinceOn
<1>5. Sum(RanOn(c), sysinfo \ toRead)' <= Sum(RanOn(c), sysinfo \ toRead)
  <2> DEFINE S == sysinfo \ toRead
             T == sysinfo' \ toRead'
             f == RanOn(c)
             g == RanOn(c)'
  <2>1. S \in SUBSET Pid /\ T \in SUBSET Pid /\ p \in T /\ T \ {p} = S
    BY <1>1, <1>2 DEF AttributionType
  <2>2. IsFiniteSet(S) /\ IsFiniteSet(T)
    BY <2>1, CpuFacts, FS_Subset
  <2>3. g[p] = 0 /\ \A q \in Pid : g[q] \in Int /\ f[q] \in Int /\ (q # p => g[q] = f[q])
    <3>1. \A q \in Pid : f[q] = ran[q][c] /\ g[q] = ran'[q][c]
      BY DEF RanOn
    <3>2. \A q \in Pid : g[q] \in Int /\ f[q] \in Int
      BY <1>1 DEF Comparable
    <3> HIDE DEF f, g
    <3> QED BY <1>3, <3>1, <3>2
  <2> HIDE DEF S, T, f, g
  <2>4. \A q \in T : g[q] \in Int
    BY <2>1, <2>3
  <2>5. Sum(g, T) = g[p] + Sum(g, S)
    BY <2>1, <2>2, <2>4, SumRemove
  <2>6. Sum(g, S) = Sum(f, S) /\ Sum(g, S) \in Int
    <3>1. \A q \in S : q \in Pid /\ q # p
      BY <2>1
    <3>2. \A q \in S : g[q] \in Int /\ g[q] = f[q]
      BY <2>3, <3>1
    <3> QED BY <2>2, <3>2, SumEqual, SumInt
  <2>7. Sum(g, T) <= Sum(f, S)
    BY <2>3, <2>5, <2>6
  <2> QED BY <2>7 DEF S, T, f, g
<1>6. /\ Reading(c)' = Reading(c) /\ Earlier(c)' = Earlier(c)
      /\ HasReading /\ (HasEarlier' <=> HasEarlier)
  BY <1>2 DEF Reading, Earlier, HasReading, HasEarlier
<1> DEFINE a  == Sum(RanOn(c), sysinfo \ toRead)
           a1 == Sum(RanOn(c), sysinfo \ toRead)'
           n  == CPU_TIME[c] - Reading(c) + late[c]
<1>7. a <= n /\ a1 <= a /\ a \in Nat /\ a1 \in Nat /\ n \in Int
  <2>1. sysinfo \ toRead \in SUBSET Pid /\ sysinfo' \ toRead' \in SUBSET Pid
    BY <1>1, <1>2 DEF AttributionType
  <2>2. n \in Int
    BY <1>1, <1>6 DEF Comparable
  <2> QED BY <1>1, <1>5, <1>6, <2>1, <2>2 DEF Balanced, Comparable
<1>8. a1 <= n
  <2> HIDE DEF a, a1, n
  <2> QED BY <1>7
<1>9. Reading(c) <= CPU_TIME[c]
  BY <1>1, <1>6 DEF Balanced
<1>10. Sum(SinceOn(c), before \cap sysinfo)' = Sum(SinceOn(c), before \cap sysinfo)
  BY <1>2, <1>4
<1> QED BY <1>1, <1>2, <1>6, <1>8, <1>9, <1>10 DEF Balanced

\* A reading is what the CPU's time is when the refresh comes to it.
LEMMA CpuReadBalanced ==
  ASSUME SharesInv, AttributionType', refresh_cpu_time_record
  PROVE  \A c \in Cpu : Balanced(c)'
<1> TAKE c \in Cpu
<1> DEFINE n      == Len(read)
           values == Append(read, CPU_TIME[n])
           record == [d \in Cpu |-> values[d + 1]]
<1>1. AttributionType /\ Balanced(c)
  BY DEF SharesInv
<1>2. UNCHANGED <<CPU_TIME, sysinfo, toRead, ran, window, before, late, latePrev>>
  BY DEF refresh_cpu_time_record, ebpf, history
<1>3. /\ pc = "cpus" /\ n \in Cpu
      /\ values \in Seq(Nat) /\ Len(values) = n + 1
      /\ \/ /\ n + 1 < nb_cores /\ read' = values
            /\ pc' = "cpus" /\ cpu_time_buffer' = cpu_time_buffer
         \/ /\ n + 1 = nb_cores /\ read' = <<>> /\ pc' = "wait"
            /\ record \in Times
            /\ TwoNewestOf(cpu_time_buffer', cpu_time_buffer, record)
  BY <1>1, ReadingShape, Zenon
<1>4. c \in Nat /\ n \in Nat /\ c < nb_cores /\ nb_cores \in Nat /\ read \in Seq(Nat)
  BY <1>1, CpuFacts DEF AttributionType
<1>5. c <= n => values[c + 1] = Reading(c)
  <2>1. CASE c < n
    <3>1. values[c + 1] = read[c + 1]
      BY <1>4, <2>1
    <3> QED BY <1>3, <2>1, <3>1 DEF Reading
  <2>2. CASE c = n
    <3>1. values[c + 1] = CPU_TIME[c] /\ ~(c < n)
      BY <1>4, <2>2
    <3> QED BY <1>3, <3>1 DEF Reading
  <2> QED BY <1>4, <2>1, <2>2
<1> HIDE DEF values
<1>6. /\ Reading(c)' = Reading(c) /\ HasReading
      /\ (HasEarlier' <=> HasEarlier) /\ (HasEarlier => Earlier(c)' = Earlier(c))
  <2>1. CASE read' = values /\ pc' = "cpus" /\ cpu_time_buffer' = cpu_time_buffer
    <3>1. Reading(c)' = Reading(c)
      <4>1. CASE c <= n
        <5>1. c < Len(read')
          BY <1>3, <1>4, <2>1, <4>1
        <5> QED BY <1>5, <2>1, <4>1, <5>1 DEF Reading
      <4>2. CASE ~(c <= n)
        <5>1. ~(c < Len(read')) /\ ~(c < n)
          BY <1>3, <1>4, <2>1, <4>2
        <5> QED BY <1>2, <1>3, <2>1, <5>1 DEF Reading
      <4> QED BY <4>1, <4>2
    <3> QED BY <1>3, <2>1, <3>1 DEF HasReading, HasEarlier, Earlier
  <2>2. CASE n + 1 = nb_cores /\ pc' = "wait" /\ TwoNewestOf(cpu_time_buffer', cpu_time_buffer, record)
    <3> DEFINE b == cpu_time_buffer'
    <3>1. /\ Len(b) = IF cpu_time_buffer = <<>> THEN 1 ELSE 2
          /\ b[Len(b)] = record
          /\ cpu_time_buffer # <<>> => b[1] = cpu_time_buffer[Len(cpu_time_buffer)]
      BY <2>2 DEF TwoNewestOf
    <3>2. Reading(c)' = Reading(c)
      <4>1. Reading(c)' = record[c]
        BY <2>2, <3>1 DEF Reading
      <4>2. c <= n
        BY <1>4, <2>2
      <4> QED BY <1>5, <4>1, <4>2
    <3>3. HasReading /\ (HasEarlier' <=> HasEarlier)
      BY <1>3, <2>2, <3>1 DEF HasReading, HasEarlier
    <3>4. HasEarlier => Earlier(c)' = Earlier(c)
      <4> SUFFICES ASSUME HasEarlier PROVE Earlier(c)' = Earlier(c)
        OBVIOUS
      <4>1. cpu_time_buffer # <<>>
        BY <1>3 DEF HasEarlier
      <4>2. Len(b) - 1 = 1
        BY <3>1, <4>1
      <4>3. Earlier(c)' = b[1][c]
        BY <2>2, <4>2 DEF Earlier
      <4> QED BY <1>3, <3>1, <4>1, <4>3 DEF Earlier
    <3> QED BY <3>2, <3>3, <3>4
  <2> QED BY <1>3, <2>1, <2>2
<1>7. /\ Sum(RanOn(c), sysinfo \ toRead)' = Sum(RanOn(c), sysinfo \ toRead)
      /\ Sum(SinceOn(c), before \cap sysinfo)' = Sum(SinceOn(c), before \cap sysinfo)
  BY <1>2 DEF RanOn, SinceOn
<1> QED BY <1>1, <1>2, <1>6, <1>7 DEF Balanced

\* Every step keeps the balance.
LEMMA SharesStep == SharesInv /\ [Next]_vars => SharesInv'
<1> SUFFICES ASSUME SharesInv, [Next]_vars PROVE SharesInv'
  OBVIOUS
<1>1. AttributionType /\ AttributionType' /\ \A c \in Cpu : Balanced(c)
  BY TypeStep DEF SharesInv
<1>2. \A q \in Pid, d \in Cpu : ran[q][d] \in Nat
  BY <1>1 DEF AttributionType, Times
<1>3. ASSUME NEW p \in Pid, NEW c \in Cpu, Run(p, c) PROVE SharesInv'
  <2>1. /\ Busy(c)
        /\ UNCHANGED <<pc, sysinfo, toRead, read, cpu_time_buffer, window, before, latePrev>>
    BY <1>3, Zenon DEF Run, reader
  <2>2. \A q \in Pid, d \in Cpu :
          ran'[q][d] <= IF q = p /\ d = c THEN ran[q][d] + 1 ELSE ran[q][d]
    <3>1. \A q \in Pid, d \in Cpu :
            ran'[q][d] = IF q = p /\ d = c THEN ran[q][d] + 1 ELSE ran[q][d]
      BY <1>1, <1>3, RunPoints
    <3> QED BY <1>2, <3>1
  <2>3. \A d \in Cpu : Balanced(d)'
    BY <1>1, <2>1, <2>2, WorkBalanced
  <2> QED BY <1>1, <2>3 DEF SharesInv
<1>4. ASSUME NEW c \in Cpu, RunUnrecorded(c) PROVE SharesInv'
  <2>1. /\ Busy(c)
        /\ UNCHANGED <<pc, sysinfo, toRead, read, cpu_time_buffer, ran, window, before, latePrev>>
    BY <1>4, Zenon DEF RunUnrecorded, reader
  <2>2. \A q \in Pid, d \in Cpu :
          ran'[q][d] <= IF q = c /\ d = c THEN ran[q][d] + 1 ELSE ran[q][d]
    BY <1>2, <2>1
  <2>3. \A d \in Cpu : Balanced(d)'
    BY <1>1, <2>1, <2>2, WorkBalanced
  <2> QED BY <1>1, <2>3 DEF SharesInv
<1>5. ASSUME NEW cleans, RefreshStart(cleans) PROVE SharesInv'
  BY <1>1, <1>5, StartBalanced DEF SharesInv
<1>6. ASSUME NEW p \in Pid, ReadProcess(p) PROVE SharesInv'
  BY <1>1, <1>6, ReadBalanced DEF SharesInv
<1>7. CASE refresh_cpu_time_record
  BY <1>1, <1>7, CpuReadBalanced DEF SharesInv
<1>8. CASE UNCHANGED <<CPU_TIME, reader, ran, window, before, late, latePrev>>
  BY <1>1, <1>8 DEF SharesInv, Balanced, HasReading, HasEarlier, Reading, Earlier, RanOn, SinceOn,
                    reader
<1>9. ASSUME NEW p \in Pid, NEW differs,
             Exit(p) \/ Reap(p) \/ Fork(p, differs) \/ Exec(p, differs) \/ UNCHANGED vars
      PROVE  SharesInv'
  <2>1. UNCHANGED <<CPU_TIME, reader, ran, window, before, late, latePrev>>
    BY <1>9 DEF Exit, Reap, Fork, Exec, ebpf, history, reader, vars
  <2> QED BY <1>8, <2>1
<1>10. CASE UNCHANGED vars
  BY <1>8, <1>10 DEF vars, reader
<1> QED BY <1>3, <1>4, <1>5, <1>6, <1>7, <1>9, <1>10 DEF Next

\* At the start nothing has run and nothing was read.
LEMMA SharesStart == Init => SharesInv
<1> SUFFICES ASSUME Init PROVE SharesInv
  OBVIOUS
<1>1. AttributionType
  BY ChargedStart DEF ChargedInv
<1>2. ~HasReading /\ ~HasEarlier
  BY DEF Init, HasReading, HasEarlier
<1> QED BY <1>1, <1>2 DEF SharesInv, Balanced

\* The sum of the parts is one of the values of a function.
LEMMA PartSum ==
  ASSUME NEW c, NEW S, IsFiniteSet(S)
  PROVE  MapThenSumSet(LAMBDA p : Part(p, c), S) = Sum([p \in S |-> Part(p, c)], S)
<1> DEFINE P(g) == g = [t \in SUBSET S |-> IF t = {} THEN 0
                          ELSE Part(CHOOSE x \in t : TRUE, c) + g[t \ {CHOOSE x \in t : TRUE}]]
           k == CHOOSE g : P(g)
           f == [p \in S |-> Part(p, c)]
<1>1. MapThenSumSet(LAMBDA p : Part(p, c), S) = k[S]
  BY DEF MapThenSumSet, MapThenFoldSet
<1>2. \A g : P(g) <=> SumsOn(g, f, SUBSET S)
  <2> SUFFICES ASSUME NEW g PROVE P(g) <=> SumsOn(g, f, SUBSET S)
    OBVIOUS
  <2>1. \A t \in SUBSET S : t # {} => f[Some(t)] = Part(CHOOSE x \in t : TRUE, c)
    BY SomeOf DEF Some
  <2>2. [t \in SUBSET S |-> IF t = {} THEN 0 ELSE f[Some(t)] + g[t \ {Some(t)}]]
        = [t \in SUBSET S |-> IF t = {} THEN 0
             ELSE Part(CHOOSE x \in t : TRUE, c) + g[t \ {CHOOSE x \in t : TRUE}]]
    <3> HIDE DEF f
    <3> QED BY <2>1 DEF Some
  <2> QED BY <2>2 DEF SumsOn
<1>3. PICK g : SumsOn(g, f, SUBSET S) /\ Sum(f, S) = g[S]
  BY SumIsSolution
<1>4. P(k)
  <2>1. P(g)
    BY <1>2, <1>3
  <2> HIDE DEF P
  <2> QED BY <2>1
<1>5. SumsOn(k, f, SUBSET S)
  <2> HIDE DEF P, k, f
  <2> QED BY <1>2, <1>4
<1>6. k[S] = g[S]
  <2> HIDE DEF k, f
  <2> QED BY <1>3, <1>5, SumsAgree
<1> QED BY <1>1, <1>3, <1>6, Zenon

\* The parts are at most what the processes have run.
LEMMA PartsBounded ==
  ASSUME ChargedInv, SharesInv, pc = "wait", Len(cpu_time_buffer) = 2, NEW c \in Cpu
  PROVE  MapThenSumSet(LAMBDA p : Part(p, c), Attributed \cap before)
           <= get_cpu_time_diff(c) + latePrev[c]
<1>1. AttributionType /\ Balanced(c) /\ Comparable(c) /\ HasEarlier
  BY ComparableNow DEF SharesInv, HasEarlier
<1> DEFINE prev == Earlier(c)
           last == Reading(c)
           S    == Attributed \cap before
           T    == before \cap sysinfo
           f    == [p \in S |-> Part(p, c)]
           g    == SinceOn(c)
<1>2. /\ prev \in Nat /\ last \in Nat /\ prev <= last /\ latePrev[c] \in Nat
      /\ Sum(g, T) <= last - prev + latePrev[c]
  BY <1>1 DEF Balanced, Comparable
<1>3. get_cpu_time_diff(c) = last - prev
  <2>1. last = cpu_time_buffer[2][c] /\ prev = cpu_time_buffer[1][c]
    BY <1>1 DEF Reading, Earlier
  <2>2. last >= prev
    <3> HIDE DEF last, prev
    <3> QED BY <1>2
  <2> QED BY <2>1, <2>2 DEF get_cpu_time_diff
<1>4. S \in SUBSET T /\ T \in SUBSET Pid /\ IsFiniteSet(S) /\ IsFiniteSet(T)
  <2>1. S \in SUBSET T /\ T \in SUBSET Pid /\ S \in SUBSET Pid
    BY <1>1 DEF Attributed, AttributionType
  <2> QED BY <2>1, CpuFacts, FS_Subset
<1>5. \A p \in T : g[p] = window[p][c] /\ g[p] \in Nat
  <2>1. toRead = {} /\ \A p \in T : p \in Pid
    BY <1>1, <1>4 DEF AttributionType
  <2> QED BY <1>1, <2>1 DEF SinceOn, Comparable
<1>6. \A p \in S : f[p] \in Int /\ g[p] \in Int /\ f[p] <= g[p]
  <2> TAKE p \in S
  <2>1. get_per_core_cpu_time_delta(p, c) = window[p][c] /\ window[p][c] \in Nat
    BY ChargedExactly
  <2>2. get_cpu_time_diff(c) \in Int
    BY <1>2, <1>3
  <2>3. f[p] = Min({window[p][c], get_cpu_time_diff(c)})
    BY <2>1 DEF Part
  <2>4. f[p] = IF window[p][c] <= get_cpu_time_diff(c) THEN window[p][c] ELSE get_cpu_time_diff(c)
    BY <2>1, <2>2, <2>3, MinOfTwo
  <2>5. g[p] = window[p][c]
    BY <1>4, <1>5
  <2> HIDE DEF f, g
  <2> QED BY <2>1, <2>2, <2>4, <2>5
<1>7. MapThenSumSet(LAMBDA p : Part(p, c), S) = Sum(f, S)
  BY <1>4, PartSum
<1> HIDE DEF f, g, S, T
<1>8. Sum(f, S) <= Sum(g, S)
  BY <1>4, <1>6, SumMonotone
<1>9. Sum(g, S) <= Sum(g, T) /\ Sum(g, T) \in Nat /\ Sum(g, S) \in Nat
  BY <1>4, <1>5, SumSubset
<1>10. Sum(f, S) \in Int
  BY <1>4, <1>6, SumInt
<1> HIDE DEF last, prev
<1>11. Sum(f, S) <= get_cpu_time_diff(c) + latePrev[c]
  BY <1>2, <1>3, <1>8, <1>9, <1>10
<1> QED BY <1>7, <1>11 DEF S

\* For any number of processes, CPUs and refreshes: what the processes of two successive
\* snapshots get of a CPU exceeds its busy time by no more than the work that was done
\* during the first of the two refreshes, before it read the CPU (mod.rs 1123-1137).
THEOREM SharesBoundedAlways == Spec => []SharesBounded
<1>1. ChargedInv /\ SharesInv => SharesBounded
  <2> SUFFICES ASSUME ChargedInv, SharesInv, pc = "wait", Len(cpu_time_buffer) = 2, NEW c \in Cpu
               PROVE  MapThenSumSet(LAMBDA p : Part(p, c), Attributed \cap before)
                        <= get_cpu_time_diff(c) + latePrev[c]
    BY DEF SharesBounded
  <2> QED BY PartsBounded
<1> QED BY <1>1, ChargedStart, ChargedStep, SharesStart, SharesStep, PTL DEF Spec
=============================================================================
