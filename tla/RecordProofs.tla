---------------------------- MODULE RecordProofs ----------------------------
(***************************************************************************)
(* Proofs about the records of the sensors: their buffers (RecordBuffer),  *)
(* for every value of the size options, and what the power of the cores is *)
(* computed from (CorePower), for any number of cores.                     *)
(*                                                                         *)
(* Buffers: trimming n records leaves a number of them that its arithmetic *)
(* bounds from above (SizeBounded) and from below (at least two,           *)
(* ExcessFacts); and what is left is a suffix of the readings taken        *)
(* (Contiguous), so that the two last records are the two newest readings. *)
(*                                                                         *)
(* Cores: a register that was read is ahead of the records of its core     *)
(* (SplitInv), so that a core whose time stamp counter advanced is not     *)
(* divided by zero; and since a record was taken, the CPU whose line it    *)
(* has did not work more than all CPUs together (BusyInv).                 *)
(***************************************************************************)
EXTENDS RecordBuffer, CorePower, FiniteSums

\* A buffer holds the newest readings, in order.
Contiguous ==
  /\ Len(buffer) <= readings
  /\ \A i \in 1 .. Len(buffer) : buffer[i] = readings - Len(buffer) + i

\* The limit leaves room for two records.
RoomForTwo == Limit + kind.from * kind.size > kind.size

\* Two readings are kept if there were two.
TwoLeft == RoomForTwo /\ readings >= 2 => Len(buffer) >= 2

\* The first reading is kept.
OneLeft == readings >= 1 => Len(buffer) >= 1

\* Beyond the limit after trimming (SizeBounded adds the record inserted later).
Trimmed(n) == kind.size * n <= Limit + (kind.from + 1) * kind.size

BufferInv == TypeOK /\ Contiguous /\ TwoLeft /\ OneLeft /\ SizeBounded

\* What the proofs need to know of the parameters of a buffer.
GoodKind(k) ==
  /\ k.size \in {48, 64, 128}
  /\ k.from \in {0, 1}
  /\ k.cleans \in {"before", "after", "always"}
  /\ k.cast = "u16" => k.sized = "fixed" /\ k.size = 48
  /\ k.from = 0 => k.sized = "fixed" /\ k.size = 64

\* The parameters of the eight buffers.
LEMMA KindFacts == \A k \in Kind : GoodKind(k)
<1> USE DEF GoodKind, Buffer
<1>1. GoodKind(SocketRecords)
  BY DEF SocketRecords
<1>2. GoodKind(ActivationIdleRecords)
  BY DEF ActivationIdleRecords
<1>3. GoodKind(SocketStats)
  BY DEF SocketStats
<1>4. GoodKind(DomainRecords)
  BY DEF DomainRecords
<1>5. GoodKind(CoreRecords)
  BY DEF CoreRecords
<1>6. GoodKind(TopologyRecords)
  BY DEF TopologyRecords
<1>7. GoodKind(TopologyStats)
  BY DEF TopologyStats
<1>8. GoodKind(CpuTimeRecords)
  BY DEF CpuTimeRecords
<1> HIDE DEF GoodKind, Buffer
<1>9. SUFFICES ASSUME NEW k \in Kind PROVE GoodKind(k)
  OBVIOUS
<1>10. \/ k = SocketRecords \/ k = ActivationIdleRecords \/ k = SocketStats
       \/ k = DomainRecords \/ k = CoreRecords \/ k = TopologyRecords
       \/ k = TopologyStats \/ k = CpuTimeRecords
  BY Zenon DEF Kind
<1> QED BY <1>1, <1>2, <1>3, <1>4, <1>5, <1>6, <1>7, <1>8, <1>10, Zenon

\* An interval from 0 on.
LEMMA IntervalNat == \A m \in Int : \A k \in 0 .. m : k \in Nat
OBVIOUS

\* A u16 is a number.
LEMMA U16Nat == \A k \in U16 : k \in Nat
<1>1. 65535 \in Int
  BY SMT
<1> QED BY <1>1, IntervalNat, SMT DEF U16

\* The limit is a u16, and 1000 for the buffers whose size is not an option.
LEMMA LimitFacts ==
  ASSUME TypeOK
  PROVE  /\ Limit \in Nat
         /\ kind.sized = "fixed" => Limit = 1000
<1>1. \A k \in U16 : k \in Nat
  BY U16Nat
<1>2. buffer_max_kbytes \in Nat
  BY <1>1, RecordBufferAssumption DEF TypeOK, KbytesOf
<1>3. kind.sized = "fixed" => buffer_max_kbytes = 1
  BY DEF TypeOK, KbytesOf
<1> QED BY <1>2, <1>3 DEF Limit

\* The current size does not wrap when it is compared as a u16.
Fits(n) == kind.cast = "u16" => kind.size * n < 65536

\* Trimming n records removes enough of them, and leaves at least one record (two,
\* if there is room) of one (two).
TrimsWell(n) ==
  /\ Excess(n) \in 0 .. n
  /\ Trimmed(n - Excess(n))
  /\ n >= 1 => n - Excess(n) >= 1
  /\ n >= 2 /\ RoomForTwo => n - Excess(n) >= 2

\* The arithmetic of the deletions is right for all sizes of records and limits.
LEMMA ExcessFacts == ASSUME TypeOK, NEW n \in Nat, Fits(n) PROVE TrimsWell(n)
<1> DEFINE s == kind.size
           f == kind.from
           L == Limit
           e == Excess(n)
<1>1. s \in {48, 64, 128} /\ f \in {0, 1} /\ L \in Nat
  BY KindFacts, LimitFacts DEF TypeOK, GoodKind
<1>2. e = IF s * n > L /\ s * n - L > s THEN (s * n - L) \div s - f ELSE 0
  <2>1. CASE kind.cast = "u16"
    <3>1. (s * n) % 65536 = s * n
      BY <1>1, <2>1 DEF Fits
    <3> QED BY <2>1, <3>1 DEF Excess
  <2>2. CASE kind.cast # "u16"
    BY <2>2 DEF Excess
  <2> QED BY <2>1, <2>2
<1>3. f = 0 => kind.sized = "fixed" /\ s = 64
  BY KindFacts DEF TypeOK, GoodKind
<1>4. f = 0 => s = 64 /\ L = 1000
  BY <1>3, LimitFacts
<1>5. SUFFICES /\ e \in 0 .. n
               /\ s * (n - e) <= L + (f + 1) * s
               /\ n >= 1 => n - e >= 1
               /\ n >= 2 /\ L + f * s > s => n - e >= 2
  BY DEF TrimsWell, Trimmed, RoomForTwo
<1> HIDE DEF s, f, L, e
<1>6. CASE s = 48
  BY <1>1, <1>2, <1>4, <1>6
<1>7. CASE s = 64
  BY <1>1, <1>2, <1>4, <1>7
<1>8. CASE s = 128
  BY <1>1, <1>2, <1>4, <1>8
<1> QED BY <1>1, <1>6, <1>7, <1>8

\* Trimming leaves a suffix.
LEMMA CleanFacts ==
  ASSUME NEW S, NEW b \in Seq(S), Excess(Len(b)) \in 0 .. Len(b)
  PROVE  /\ clean_old_records(b) \in Seq(S)
         /\ Len(clean_old_records(b)) = Len(b) - Excess(Len(b))
         /\ \A i \in 1 .. Len(b) - Excess(Len(b)) :
              clean_old_records(b)[i] = b[i + Excess(Len(b))]
<1> DEFINE e == Excess(Len(b))
<1>1. e \in Nat /\ e <= Len(b) /\ Len(b) \in Nat
  OBVIOUS
<1>2. clean_old_records(b) = SubSeq(b, e + 1, Len(b))
  BY DEF clean_old_records
<1> HIDE DEF e
<1>3. /\ SubSeq(b, e + 1, Len(b)) \in Seq(S)
      /\ Len(SubSeq(b, e + 1, Len(b))) = Len(b) - e
      /\ \A i \in 1 .. Len(b) - e : SubSeq(b, e + 1, Len(b))[i] = b[i + e]
  BY <1>1
<1> QED BY <1>2, <1>3 DEF e

-----------------------------------------------------------------------------
(***************************************************************************)
(* The invariant is inductive.                                             *)
(***************************************************************************)

\* The parts of BufferInv that trimming establishes for a buffer b after r
\* readings.
Good(b, r) ==
  /\ b \in Seq(1 .. r)
  /\ Len(b) <= r
  /\ \A i \in 1 .. Len(b) : b[i] = r - Len(b) + i
  /\ RoomForTwo /\ r >= 2 => Len(b) >= 2
  /\ r >= 1 => Len(b) >= 1

\* Sizes compared as u16 do not wrap, as the limit of those buffers is 1000.
LEMMA NoWrap ==
  ASSUME BufferInv PROVE Fits(Len(buffer) + 1) /\ Fits(Len(buffer))
<1> DEFINE n == Len(buffer)
<1>0. GoodKind(kind)
  BY KindFacts DEF BufferInv, TypeOK
<1>1. n \in Nat
  BY DEF BufferInv, TypeOK
<1>2. SUFFICES ASSUME kind.cast = "u16"
               PROVE  kind.size * (n + 1) < 65536 /\ kind.size * n < 65536
  BY DEF Fits
<1>3. kind.size = 48 /\ kind.from \in {0, 1} /\ Limit = 1000
  BY <1>0, <1>2, LimitFacts DEF GoodKind, BufferInv
<1>4. 48 * n <= 1000 + 3 * 48
  BY <1>1, <1>3 DEF BufferInv, SizeBounded, Slack
<1> QED BY <1>1, <1>3, <1>4

\* Trimming a good buffer leaves a good buffer.
LEMMA CleanGood ==
  ASSUME TypeOK, NEW r \in Nat, NEW b, Good(b, r), Fits(Len(b))
  PROVE  Good(clean_old_records(b), r) /\ Trimmed(Len(clean_old_records(b)))
<1> DEFINE n == Len(b)
           e == Excess(n)
           c == clean_old_records(b)
<1>1. b \in Seq(1 .. r) /\ n \in Nat
  BY DEF Good
<1>2. /\ e \in 0 .. n
      /\ Trimmed(n - e)
      /\ n >= 1 => n - e >= 1
      /\ n >= 2 /\ RoomForTwo => n - e >= 2
  <2>1. TrimsWell(n)
    BY <1>1, ExcessFacts
  <2> QED BY <2>1 DEF TrimsWell
<1>3. /\ c \in Seq(1 .. r)
      /\ Len(c) = n - e
      /\ \A i \in 1 .. n - e : c[i] = b[i + e]
  BY <1>1, <1>2, CleanFacts
<1>4. /\ n <= r
      /\ \A i \in 1 .. n : b[i] = r - n + i
      /\ RoomForTwo /\ r >= 2 => n >= 2
      /\ r >= 1 => n >= 1
  BY DEF Good
<1> HIDE DEF n, e, c
<1>5. \A i \in 1 .. Len(c) : c[i] = r - Len(c) + i
  BY <1>1, <1>2, <1>3, <1>4
<1>6. Good(c, r)
  BY <1>1, <1>2, <1>3, <1>4, <1>5 DEF Good
<1> QED BY <1>2, <1>3, <1>6 DEF c

\* Inserting a reading into a good buffer leaves a good buffer.
LEMMA AppendGood ==
  ASSUME NEW r \in Nat, NEW b, Good(b, r)
  PROVE  Good(Append(b, r + 1), r + 1) /\ Len(Append(b, r + 1)) = Len(b) + 1
<1>1. /\ b \in Seq(1 .. r + 1)
      /\ Len(b) \in Nat
      /\ Len(Append(b, r + 1)) = Len(b) + 1
  BY DEF Good
<1>2. Append(b, r + 1) \in Seq(1 .. r + 1)
  BY <1>1
<1>3. \A i \in 1 .. Len(b) + 1 : Append(b, r + 1)[i] = IF i = Len(b) + 1 THEN r + 1 ELSE b[i]
  BY <1>1
<1>4. /\ Len(b) <= r
      /\ \A i \in 1 .. Len(b) : b[i] = r - Len(b) + i
      /\ RoomForTwo /\ r >= 2 => Len(b) >= 2
      /\ r >= 1 => Len(b) >= 1
  BY DEF Good
<1>5. \A i \in 1 .. Len(b) + 1 : Append(b, r + 1)[i] = (r + 1) - (Len(b) + 1) + i
  BY <1>1, <1>3, <1>4
<1>6. RoomForTwo /\ r + 1 >= 2 => Len(b) + 1 >= 2
  BY <1>1, <1>4
<1> QED BY <1>1, <1>2, <1>4, <1>5, <1>6 DEF Good

\* BufferInv in terms of Good.
LEMMA InvIsGood ==
  BufferInv <=> TypeOK /\ Good(buffer, readings) /\ SizeBounded
BY DEF BufferInv, Good, TypeOK, Contiguous, TwoLeft, OneLeft

\* A refresh keeps the invariant.
LEMMA BufferStep == BufferInv /\ [Next]_vars => BufferInv'
<1> SUFFICES ASSUME BufferInv, [Next]_vars PROVE BufferInv'
  OBVIOUS
<1>1. /\ TypeOK /\ Good(buffer, readings) /\ SizeBounded
      /\ readings \in Nat /\ Len(buffer) \in Nat
  BY InvIsGood DEF TypeOK
<1>2. GoodKind(kind) /\ Limit \in Nat
  BY <1>1, KindFacts, LimitFacts DEF TypeOK
<1>3. UNCHANGED <<kind, buffer_max_kbytes>>
  BY DEF Next, refresh_record, refresh_record_error, vars
<1>4. ASSUME NEW b, NEW r \in Nat, buffer' = b, readings' = r, Good(b, r),
             kind.size * Len(b) <= Limit + Slack * kind.size
      PROVE  BufferInv'
  <2>1. TypeOK'
    BY <1>1, <1>3, <1>4 DEF TypeOK, Good
  <2>2. Good(buffer, readings)'
    BY <1>3, <1>4 DEF Good, RoomForTwo, Limit
  <2>3. SizeBounded'
    BY <1>3, <1>4 DEF SizeBounded, Slack, Limit
  <2>4. BufferInv' <=> TypeOK' /\ Good(buffer, readings)' /\ SizeBounded'
    BY InvIsGood, PTL
  <2> QED BY <2>1, <2>2, <2>3, <2>4
<1>5. /\ \A n \in Nat : Trimmed(n) => kind.size * n <= Limit + Slack * kind.size
      /\ kind.cleans = "before" =>
           \A n \in Nat : Trimmed(n) => kind.size * (n + 1) <= Limit + Slack * kind.size
  BY <1>2 DEF Trimmed, Slack, GoodKind
<1>6. CASE refresh_record /\ kind.cleans = "before"
  <2> DEFINE c == clean_old_records(buffer)
  <2>1. Fits(Len(buffer))
    BY NoWrap
  <2>2. Good(c, readings) /\ Trimmed(Len(c))
    BY <1>1, <2>1, CleanGood
  <2>3. buffer' = Append(c, readings + 1) /\ readings' = readings + 1
    BY <1>6 DEF refresh_record
  <2> HIDE DEF c
  <2>4. Good(Append(c, readings + 1), readings + 1) /\ Len(Append(c, readings + 1)) = Len(c) + 1
    BY <1>1, <2>2, AppendGood
  <2>5. Len(c) \in Nat
    BY <2>2 DEF Good
  <2>6. kind.size * (Len(c) + 1) <= Limit + Slack * kind.size
    BY <1>5, <1>6, <2>2, <2>5, Zenon
  <2>7. readings + 1 \in Nat
    BY <1>1
  <2> QED BY <1>4, <2>3, <2>4, <2>6, <2>7, Zenon
<1>7. CASE refresh_record /\ kind.cleans # "before"
  <2> DEFINE a == Append(buffer, readings + 1)
             c == clean_old_records(a)
  <2>1. Good(a, readings + 1) /\ Len(a) = Len(buffer) + 1
    BY <1>1, AppendGood
  <2>2. Fits(Len(a))
    BY <2>1, NoWrap
  <2>3. buffer' = c /\ readings' = readings + 1
    BY <1>7 DEF refresh_record
  <2> HIDE DEF a
  <2>4. Good(c, readings + 1) /\ Trimmed(Len(c))
    BY <1>1, <2>1, <2>2, CleanGood
  <2>5. Len(c) \in Nat
    BY <2>4 DEF Good
  <2> HIDE DEF c
  <2>6. kind.size * Len(c) <= Limit + Slack * kind.size
    BY <1>5, <2>4, <2>5
  <2>7. readings + 1 \in Nat
    BY <1>1
  <2> QED BY <1>4, <2>3, <2>4, <2>6, <2>7, Zenon
<1>8. CASE refresh_record_error /\ kind.cleans = "always"
  <2> DEFINE c == clean_old_records(buffer)
  <2>1. Fits(Len(buffer))
    BY NoWrap
  <2>2. Good(c, readings) /\ Trimmed(Len(c))
    BY <1>1, <2>1, CleanGood
  <2>3. buffer' = c /\ readings' = readings
    BY <1>8 DEF refresh_record_error
  <2>4. Len(c) \in Nat
    BY <2>2 DEF Good
  <2> HIDE DEF c
  <2> QED BY <1>1, <1>4, <1>5, <2>2, <2>3, <2>4
<1>9. CASE UNCHANGED <<buffer, readings>>
  BY <1>1, <1>4, <1>9 DEF SizeBounded
<1> QED BY <1>6, <1>7, <1>8, <1>9 DEF Next, refresh_record_error, vars

\* An empty buffer satisfies the invariant.
LEMMA BufferStart == Init => BufferInv
<1> SUFFICES ASSUME Init PROVE BufferInv
  OBVIOUS
<1>1. TypeOK
  BY DEF Init, TypeOK
<1>2. Limit \in Nat /\ GoodKind(kind)
  BY <1>1, LimitFacts, KindFacts DEF TypeOK
<1>3. Len(buffer) = 0 /\ readings = 0
  BY DEF Init
<1>4. SizeBounded
  BY <1>2, <1>3 DEF SizeBounded, Slack, GoodKind
<1> QED BY <1>1, <1>3, <1>4 DEF BufferInv, Contiguous, TwoLeft, OneLeft

\* For every value of the size options, a buffer holds readings that were taken.
THEOREM BufferTypeAlways == Spec => []TypeOK
<1>1. BufferInv => TypeOK
  BY DEF BufferInv
<1> QED BY <1>1, BufferStart, BufferStep, PTL DEF Spec

\* For every value of the size options and any number of refreshes, the memory of
\* a buffer is at most three records above the limit (clean_old_records and its
\* seven siblings in mod.rs).
THEOREM SizeBoundedAlways == Spec => []SizeBounded
<1>1. BufferInv => SizeBounded
  BY DEF BufferInv
<1> QED BY <1>1, BufferStart, BufferStep, PTL DEF Spec

\* For every limit that leaves room for two records, power is computed from the two
\* newest readings from the second one on (mod.rs 1901-1906, 2386-2391).
THEOREM TwoNewestAlways == Spec => []TwoNewestKept
<1>1. BufferInv => TwoNewestKept
  BY DEF BufferInv, TypeOK, Contiguous, TwoLeft, RoomForTwo, TwoNewestKept
<1> QED BY <1>1, BufferStart, BufferStep, PTL DEF Spec

-----------------------------------------------------------------------------
(***************************************************************************)
(* The split of the power among the cores.                                 *)
(***************************************************************************)

\* A record that is being put together, and one that is stored.
Partial == [mperf : Nat, aperf : Nat, tsc : Nat, core_busy : {0}, node_busy : {0}, inst : {0},
            cyc : {0}, online : {{}}, cameUp : BOOLEAN, drifted : {FALSE}]

CoreRecord == [mperf : Nat, aperf : Nat, tsc : Nat, core_busy : Nat, node_busy : Nat, inst : Nat,
               cyc : Nat, online : SUBSET Core, cameUp : BOOLEAN, drifted : BOOLEAN]

\* The steps of a refresh at which no core is being read.
Outside == {"wait", "stats", "cores", "panicked"}

\* The types of the variables that the split depends on.
CoreType ==
  /\ work \in [Core -> Nat]
  /\ online \in SUBSET Core
  /\ refreshes \in Nat /\ (pc \notin Outside => refreshes > 0)
  /\ core \in Core
  /\ pc \in Outside \cup {"mperf", "aperf", "tsc", "stat"}
  /\ partial \in Partial
  /\ record_buffer \in [Core -> Seq(CoreRecord)]
  /\ \A c \in Core : Len(record_buffer[c]) <= 2

\* Core c has been read in this refresh.
Done(c) == pc \in Outside \/ c > core

\* A record of core c is not ahead of the core.
Behind(c, r) ==
  /\ ~r.drifted => r.cyc <= work[c] /\ r.inst = 2 * r.cyc
  /\ r.mperf <= work[c] + refreshes
  /\ ~Done(c) => r.mperf < work[c] + refreshes

\* No record is ahead of its core.
Stored == \A c \in Core : \A i \in 1 .. Len(record_buffer[c]) : Behind(c, record_buffer[c][i])

\* The registers of a core that is online throughout are ahead of its records.
Reading ==
  pc \in {"aperf", "tsc", "stat"} =>
    /\ partial.mperf <= work[core] + refreshes
    /\ partial.mperf # 0 =>
         \A i \in 1 .. Len(record_buffer[core]) : record_buffer[core][i].mperf < partial.mperf
    /\ \/ partial.mperf # 0
       \/ partial.cameUp
       \/ pc \in {"aperf", "tsc"} /\ core \notin online
       \/ pc = "stat" /\ partial.tsc = 0

\* The two records of a core.
Pair(c) ==
  Len(record_buffer[c]) = 2 =>
    /\ ~Previous(c).drifted /\ ~Newest(c).drifted => Previous(c).cyc <= Newest(c).cyc
    /\ Newest(c).cameUp \/ Newest(c).tsc <= Previous(c).tsc \/ Previous(c).mperf < Newest(c).mperf

\* The inductive invariant of SplitSound.
SplitInv == CoreType /\ Stored /\ Reading /\ \A c \in Core : Pair(c)

\* The cores are numbers from 0 on, and there is one at least.
LEMMA CoreFacts == IsFiniteSet(Core) /\ Core \subseteq Nat /\ 0 \in Core /\ nb_cores - 1 \in Core
BY CorePowerAssumption, FS_Interval DEF Core

\* No counter has been read of the record of the next core.
LEMMA BlankPartial == Blank \in Partial
BY DEF Blank, Partial

\* The first line of /proc/stat is the sum of the work of all cores.
LEMMA NodeBusySum == NodeBusy = Sum(work, Core)
BY Zenon DEF NodeBusy, Sum

\* The same after a step.
LEMMA NodeBusyNext == (NodeBusy = Sum(work, Core))'
BY NodeBusySum, PTL

\* The busy time of all cores is a number.
LEMMA NodeBusyNat == ASSUME work \in [Core -> Nat] PROVE NodeBusy \in Nat
<1>1. \A c \in Core : work[c] \in Nat
  OBVIOUS
<1>2. Core \in SUBSET Core
  OBVIOUS
<1>3. Sum(work, Core) \in Nat
  BY <1>1, <1>2, CoreFacts, SumSubset, Zenon
<1> QED BY <1>3, NodeBusySum

\* There are no records yet.
LEMMA SplitInit == CoreInit => SplitInv
<1> SUFFICES ASSUME CoreInit PROVE SplitInv
  OBVIOUS
<1>1. work \in [Core -> Nat]
  BY CoreFacts DEF CoreInit
<1>2. record_buffer \in [Core -> Seq(CoreRecord)] /\ \A c \in Core : Len(record_buffer[c]) = 0
  BY DEF CoreInit
<1>3. CoreType
  BY <1>1, <1>2, CoreFacts, BlankPartial DEF CoreInit, CoreType
<1>4. Stored
  BY <1>2 DEF Stored
<1>5. \A c \in Core : Pair(c)
  <2> SUFFICES ASSUME NEW c \in Core, Len(record_buffer[c]) = 2 PROVE FALSE
    BY DEF Pair
  <2> QED BY <1>2
<1> QED BY <1>3, <1>4, <1>5 DEF SplitInv, Reading, CoreInit

\* The counters of a core are numbers.
LEMMA RecordFields ==
  ASSUME CoreType, NEW c \in Core, NEW i \in 1 .. Len(record_buffer[c])
  PROVE  /\ record_buffer[c][i] \in CoreRecord
         /\ record_buffer[c][i].mperf \in Nat /\ record_buffer[c][i].cyc \in Nat
         /\ record_buffer[c][i].tsc \in Nat /\ record_buffer[c][i].aperf \in Nat
         /\ record_buffer[c][i].inst \in Nat
         /\ record_buffer[c][i].core_busy \in Nat /\ record_buffer[c][i].node_busy \in Nat
<1>1. record_buffer[c] \in Seq(CoreRecord)
  BY DEF CoreType
<1>2. record_buffer[c][i] \in CoreRecord
  BY <1>1
<1> QED BY <1>2 DEF CoreRecord

\* Work leaves the records further behind.
LEMMA WorkSplit == ASSUME SplitInv, NEW c \in Core, Work(c) PROVE SplitInv'
<1>1. /\ work' = [work EXCEPT ![c] = @ + 1]
      /\ UNCHANGED <<online, plugs, drifts, pc, core, refreshes, partial, record_buffer>>
  BY DEF Work
<1>2. CoreType /\ work \in [Core -> Nat] /\ refreshes \in Nat /\ core \in Core /\ partial.mperf \in Nat
  BY DEF SplitInv, CoreType, Partial
<1>3. CoreType'
  BY <1>1, <1>2 DEF CoreType
<1>4. \A d \in Core : work[d] \in Nat /\ work'[d] \in Nat /\ work[d] <= work'[d]
  BY <1>1, <1>2
<1>5. Stored'
  <2> SUFFICES ASSUME NEW d \in Core, NEW i \in 1 .. Len(record_buffer[d])
               PROVE  Behind(d, record_buffer[d][i])'
    BY <1>1 DEF Stored
  <2>1. Behind(d, record_buffer[d][i])
    BY DEF SplitInv, Stored
  <2> DEFINE r == record_buffer[d][i]
  <2>2. r.mperf \in Nat /\ r.cyc \in Nat
    BY <1>2, RecordFields
  <2>3. (~r.drifted => r.cyc <= work'[d]) /\ r.mperf <= work'[d] + refreshes
    <3> HIDE DEF r
    <3> QED BY <2>1, <2>2, <1>2, <1>4, SMTT(30) DEF Behind, r
  <2>4. ~Done(d) => r.mperf < work'[d] + refreshes
    <3> HIDE DEF r
    <3> QED BY <2>1, <2>2, <1>2, <1>4 DEF Behind, r
  <2> QED BY <1>1, <2>1, <2>3, <2>4 DEF Behind, Done
<1>6. Reading'
  BY <1>1, <1>2, <1>4 DEF SplitInv, Reading
<1>7. \A d \in Core : Pair(d)'
  BY <1>1 DEF SplitInv, Pair, Newest, Previous
<1> QED BY <1>3, <1>5, <1>6, <1>7 DEF SplitInv

\* Steps that leave the work and the stored records alone, and read no further core.
LEMMA StoredKept ==
  ASSUME SplitInv, UNCHANGED <<work, refreshes, record_buffer>>,
         pc \in Outside <=> pc' \in Outside, pc \in Outside \/ UNCHANGED core
  PROVE  Stored' /\ \A d \in Core : Pair(d)'
<1>1. Stored'
  <2>1. \A c : Done(c)' <=> Done(c)
    BY Zenon DEF Done
  <2> QED BY <2>1, Zenon DEF SplitInv, Stored, Behind
<1>2. \A d \in Core : Pair(d)'
  BY DEF SplitInv, Pair, Newest, Previous
<1> QED BY <1>1, <1>2

\* A CPU that comes online while its registers are being read is noted in its record.
LEMMA PlugSplit == ASSUME SplitInv, NEW c \in Core, Offline(c) \/ Online(c) PROVE SplitInv'
<1>1. UNCHANGED <<work, pc, core, refreshes, record_buffer>>
  BY DEF Offline, Online
<1>2. CoreType /\ online \in SUBSET Core /\ partial \in Partial /\ core \in Core
  BY DEF SplitInv, CoreType
<1>3. Stored' /\ \A d \in Core : Pair(d)'
  BY <1>1, StoredKept
<1>4. CASE Offline(c)
  <2>1. online' = online \ {c} /\ partial' = partial
    BY <1>4 DEF Offline
  <2>2. CoreType'
    BY <1>1, <1>2, <2>1 DEF CoreType
  <2>3. Reading'
    BY <1>1, <2>1 DEF SplitInv, Reading
  <2> QED BY <1>3, <2>2, <2>3 DEF SplitInv
<1>5. CASE Online(c)
  <2>1. /\ online' = online \cup {c}
        /\ partial' = [partial EXCEPT !.cameUp = @ \/ (pc \in {"aperf", "tsc"} /\ core = c)]
    BY <1>5 DEF Online
  <2>2. /\ partial' \in Partial /\ partial'.mperf = partial.mperf /\ partial'.tsc = partial.tsc
        /\ partial.cameUp => partial'.cameUp
        /\ pc \in {"aperf", "tsc"} /\ core = c => partial'.cameUp
    BY <1>2, <2>1 DEF Partial
  <2>3. CoreType'
    BY <1>1, <1>2, <2>1, <2>2 DEF CoreType
  <2>4. Reading'
    BY <1>1, <2>1, <2>2 DEF SplitInv, Reading
  <2> QED BY <1>3, <2>3, <2>4 DEF SplitInv
<1> QED BY <1>4, <1>5

\* While the lines of /proc/stat are looked up, no record changes.
LEMMA StatsSplit == ASSUME SplitInv, refresh \/ refresh_stats PROVE SplitInv'
<1>1. /\ UNCHANGED <<work, online, refreshes, partial, record_buffer>>
      /\ pc \in Outside /\ pc' \in Outside
  BY DEF refresh, refresh_stats, environment, Outside
<1>2. core' \in Core
  <2>1. CASE refresh
    BY <2>1, CoreFacts DEF refresh, First
  <2>2. CASE refresh_stats
    <3>1. core \in Core /\ (core' = core \/ (core > 0 /\ core' = core - 1))
      BY <2>2 DEF refresh_stats, SplitInv, CoreType
    <3> QED BY <3>1, CorePowerAssumption DEF Core
  <2> QED BY <2>1, <2>2
<1>3. Stored' /\ \A d \in Core : Pair(d)'
  BY <1>1, StoredKept
<1>4. CoreType'
  BY <1>1, <1>2 DEF SplitInv, CoreType
<1>5. Reading'
  BY <1>1 DEF Reading, Outside
<1> QED BY <1>3, <1>4, <1>5 DEF SplitInv

\* A refresh moves the counters on past every record.
LEMMA RefreshSplit == ASSUME SplitInv, refresh_core_idle_records PROVE SplitInv'
<1>1. /\ pc = "cores" /\ refreshes' = refreshes + 1 /\ core' = nb_cores - 1 /\ partial' = Blank
      /\ pc' = "mperf" /\ UNCHANGED <<work, online, record_buffer>>
  BY DEF refresh_core_idle_records, First, environment
<1>2. CoreType /\ refreshes \in Nat /\ work \in [Core -> Nat]
  BY DEF SplitInv, CoreType
<1>3. CoreType'
  BY <1>1, <1>2, CoreFacts, BlankPartial DEF CoreType
<1>4. Stored'
  <2> SUFFICES ASSUME NEW d \in Core, NEW i \in 1 .. Len(record_buffer[d])
               PROVE  Behind(d, record_buffer[d][i])'
    BY <1>1 DEF Stored
  <2> DEFINE r == record_buffer[d][i]
  <2>1. Behind(d, r) /\ r.mperf \in Nat /\ work[d] \in Nat
    BY <1>2, RecordFields DEF SplitInv, Stored
  <2>2. r.mperf <= work[d] + refreshes' /\ r.mperf < work[d] + refreshes'
    <3>1. r.mperf <= work[d] + refreshes
      BY <2>1 DEF Behind
    <3> HIDE DEF r
    <3> QED BY <1>1, <1>2, <2>1, <3>1
  <2> QED BY <1>1, <2>1, <2>2 DEF Behind
<1>5. \A d \in Core : Pair(d)'
  BY <1>1 DEF SplitInv, Pair, Newest, Previous
<1>6. Reading'
  BY <1>1 DEF Reading
<1> QED BY <1>3, <1>4, <1>5, <1>6 DEF SplitInv

\* A register that is read is ahead of the records, or 0 because the CPU is offline.
LEMMA ReadMperfSplit == ASSUME SplitInv, ReadMperf PROVE SplitInv'
<1>1. /\ pc = "mperf" /\ pc' = "aperf" /\ UNCHANGED <<work, online, core, refreshes, record_buffer>>
      /\ partial' = [partial EXCEPT !.mperf = read_msr(Mperf(core))]
  BY DEF ReadMperf, environment
<1>2. /\ CoreType /\ partial \in Partial /\ core \in Core /\ refreshes \in Nat /\ refreshes > 0
      /\ work[core] \in Nat
  BY <1>1 DEF SplitInv, CoreType, Outside
<1>3. Stored' /\ \A d \in Core : Pair(d)'
  BY <1>1, StoredKept DEF Outside
<1> DEFINE v == read_msr(Mperf(core))
<1>4. v \in Nat /\ v <= work[core] + refreshes /\ (v = 0 => core \notin online)
      /\ (v # 0 => v = work[core] + refreshes)
  BY <1>2 DEF read_msr, Mperf
<1> HIDE DEF v
<1>5. partial' \in Partial /\ partial'.mperf = v
  BY <1>1, <1>2, <1>4 DEF Partial, v
<1>6. CoreType'
  BY <1>1, <1>2, <1>5 DEF CoreType
<1>7. ASSUME v # 0, NEW i \in 1 .. Len(record_buffer[core])
      PROVE  record_buffer[core][i].mperf < v
  <2>1. Behind(core, record_buffer[core][i])
    BY <1>2 DEF SplitInv, Stored
  <2>2. ~Done(core)
    BY <1>1, <1>2, CoreFacts DEF Done, Outside
  <2> QED BY <1>4, <1>7, <2>1, <2>2 DEF Behind
<1>8. Reading'
  BY <1>1, <1>4, <1>5, <1>7 DEF Reading
<1> QED BY <1>3, <1>6, <1>8 DEF SplitInv

\* If the CPU is still offline its time stamp counter is 0 as well.
LEMMA ReadOtherSplit == ASSUME SplitInv, ReadAperf \/ ReadTsc PROVE SplitInv'
<1>1. /\ UNCHANGED <<work, online, core, refreshes, record_buffer>>
      /\ pc \notin Outside /\ pc' \notin Outside
  BY DEF ReadAperf, ReadTsc, environment, Outside
<1>2. /\ CoreType /\ partial \in Partial /\ core \in Core /\ refreshes \in Nat
      /\ work[core] \in Nat
  BY <1>1 DEF SplitInv, CoreType
<1>3. Stored' /\ \A d \in Core : Pair(d)'
  BY <1>1, StoredKept
<1>4. CASE ReadAperf
  <2>1. pc = "aperf" /\ pc' = "tsc" /\ partial' = [partial EXCEPT !.aperf = read_msr(Aperf(core))]
    BY <1>4 DEF ReadAperf
  <2>2. read_msr(Aperf(core)) \in Nat
    BY <1>2, CorePowerAssumption DEF read_msr, Aperf
  <2>3. partial' \in Partial /\ partial'.mperf = partial.mperf /\ partial'.cameUp = partial.cameUp
    BY <1>2, <2>1, <2>2 DEF Partial
  <2>4. CoreType'
    BY <1>1, <1>2, <2>1, <2>3 DEF CoreType
  <2>5. Reading'
    BY <1>1, <2>1, <2>3 DEF SplitInv, Reading
  <2> QED BY <1>3, <2>4, <2>5 DEF SplitInv
<1>5. CASE ReadTsc
  <2>1. pc = "tsc" /\ pc' = "stat" /\ partial' = [partial EXCEPT !.tsc = read_msr(refreshes)]
    BY <1>5 DEF ReadTsc
  <2>2. read_msr(refreshes) \in Nat /\ (core \notin online => read_msr(refreshes) = 0)
    BY <1>2 DEF read_msr
  <2>3. /\ partial' \in Partial /\ partial'.mperf = partial.mperf
        /\ partial'.cameUp = partial.cameUp /\ partial'.tsc = read_msr(refreshes)
    BY <1>2, <2>1, <2>2 DEF Partial
  <2>4. CoreType'
    BY <1>1, <1>2, <2>1, <2>3 DEF CoreType
  <2>5. Reading'
    BY <1>1, <2>1, <2>2, <2>3 DEF SplitInv, Reading
  <2> QED BY <1>3, <2>4, <2>5 DEF SplitInv
<1> QED BY <1>4, <1>5

\* The record that ReadStat stores.
NewRecord(inst, cyc) ==
  [partial EXCEPT
     !.core_busy = IF Line(core) = {} THEN 0 ELSE work[CHOOSE d \in Line(core) : TRUE],
     !.node_busy = IF Line(core) = {} THEN 0 ELSE NodeBusy,
     !.inst      = inst,
     !.cyc       = cyc,
     !.online    = online,
     !.drifted   = inst # Instructions(core) \/ cyc # work[core]]

\* The counts that ReadStat may read.
Counts == Shown(Instructions(core))
Cycles == Shown(work[core])

\* The fields of the record.
LEMMA NewRecordFields ==
  ASSUME CoreType, NEW inst \in Counts, NEW cyc \in Cycles
  PROVE  LET r == NewRecord(inst, cyc)
         IN  /\ r \in CoreRecord
             /\ r.mperf = partial.mperf /\ r.aperf = partial.aperf /\ r.tsc = partial.tsc
             /\ r.cameUp = partial.cameUp
             /\ r.online = online
             /\ (~r.drifted => r.cyc = work[core] /\ r.inst = 2 * r.cyc)
             /\ r.core_busy = IF Line(core) = {} THEN 0 ELSE work[CHOOSE d \in Line(core) : TRUE]
             /\ r.node_busy = IF Line(core) = {} THEN 0 ELSE NodeBusy
<1>1. /\ work \in [Core -> Nat] /\ online \in SUBSET Core /\ core \in Core /\ work[core] \in Nat
      /\ partial \in Partial
  BY DEF CoreType
<1>2. Instructions(core) \in Nat /\ inst \in Nat /\ cyc \in Nat
  BY <1>1 DEF Counts, Cycles, Shown, Instructions, Overestimate
<1> DEFINE b == IF Line(core) = {} THEN 0 ELSE work[CHOOSE d \in Line(core) : TRUE]
           n == IF Line(core) = {} THEN 0 ELSE NodeBusy
           f == inst # Instructions(core) \/ cyc # work[core]
<1>3. b \in Nat
  <2>1. Line(core) \subseteq Core
    BY <1>1 DEF Line
  <2> QED BY <1>1, <2>1
<1>4. n \in Nat
  BY <1>1, NodeBusyNat
<1>5. f \in BOOLEAN /\ (~f => cyc = work[core] /\ inst = 2 * cyc)
  BY DEF Instructions
<1>6. NewRecord(inst, cyc) = [partial EXCEPT !.core_busy = b, !.node_busy = n, !.inst = inst,
                                        !.cyc = cyc, !.online = online, !.drifted = f]
  BY DEF NewRecord
<1> HIDE DEF b, n, f
<1>7. LET r == NewRecord(inst, cyc)
      IN  /\ r \in CoreRecord
          /\ r.mperf = partial.mperf /\ r.aperf = partial.aperf /\ r.tsc = partial.tsc
          /\ r.cameUp = partial.cameUp
          /\ r.cyc = cyc /\ r.inst = inst /\ r.online = online
          /\ r.drifted = f /\ r.core_busy = b /\ r.node_busy = n
  BY <1>1, <1>2, <1>3, <1>4, <1>5, <1>6 DEF Partial, CoreRecord
<1> QED BY <1>5, <1>7 DEF b, n

\* What ReadStat does to the records: the newest one is kept, and the new one follows it.
LEMMA ReadStatStep ==
  ASSUME CoreType, NEW inst \in Counts, NEW cyc \in Cycles, ReadStat(inst, cyc)
  PROVE  /\ record_buffer' \in [Core -> Seq(CoreRecord)]
         /\ \A c \in Core : c # core => record_buffer'[c] = record_buffer[c]
         /\ \/ Len(record_buffer[core]) = 0 /\ record_buffer'[core] = <<NewRecord(inst, cyc)>>
            \/ /\ Len(record_buffer[core]) \in 1 .. 2
               /\ record_buffer'[core] =
                    <<record_buffer[core][Len(record_buffer[core])], NewRecord(inst, cyc)>>
<1> DEFINE r == NewRecord(inst, cyc)
           b == record_buffer[core]
<1>1. record_buffer' = [record_buffer EXCEPT ![core] = Pushed(@, r)]
  BY Zenon DEF ReadStat, NewRecord
<1>2. /\ record_buffer \in [Core -> Seq(CoreRecord)] /\ core \in Core /\ b \in Seq(CoreRecord)
      /\ Len(b) <= 2
  BY DEF CoreType
<1>3. r \in CoreRecord
  BY NewRecordFields
<1> HIDE DEF r, b
<1>4. /\ \/ Len(b) = 0 /\ Pushed(b, r) = <<r>>
         \/ Len(b) \in 1 .. 2 /\ Pushed(b, r) = <<b[Len(b)], r>>
      /\ Pushed(b, r) \in Seq(CoreRecord)
  BY <1>2, <1>3 DEF Pushed
<1>5. record_buffer' = [record_buffer EXCEPT ![core] = Pushed(b, r)]
  BY <1>1 DEF b
<1>6. /\ record_buffer' \in [Core -> Seq(CoreRecord)]
      /\ \A c \in Core : c # core => record_buffer'[c] = record_buffer[c]
      /\ record_buffer'[core] = Pushed(b, r)
  BY <1>2, <1>4, <1>5
<1> QED BY <1>4, <1>6 DEF b, r

\* Arithmetic of the lengths of a buffer.
LEMMA UpToTwo == (\A n \in {1, 2} : n <= 2) /\ \A n \in Nat : n <= 2 => n < 2 \/ n = 2
OBVIOUS

\* The length of a sequence is a number.
LEMMA LenNat == \A S : \A s \in Seq(S) : Len(s) \in Nat
OBVIOUS

\* One and two records.
LEMMA Tuples ==
  \A x, y : /\ Len(<<x>>) = 1 /\ Len(<<x, y>>) = 2
            /\ <<x, y>>[1] = x /\ <<x, y>>[2] = y
OBVIOUS

\* The record that is stored is ahead of the one before it.
LEMMA ReadStatSplit ==
  ASSUME SplitInv, NEW inst \in Counts, NEW cyc \in Cycles, ReadStat(inst, cyc) PROVE SplitInv'
<1>0. pc = "stat" /\ partial' = Blank /\ UNCHANGED <<work, online, refreshes>>
      /\ (IF core = 0 THEN pc' = "wait" /\ UNCHANGED core
                      ELSE pc' = "mperf" /\ core' = core - 1)
  BY Zenon DEF ReadStat
<1> DEFINE r == NewRecord(inst, cyc)
           b == record_buffer[core]
<1>1. /\ CoreType /\ core \in Core /\ refreshes \in Nat /\ refreshes > 0
      /\ work[core] \in Nat /\ partial.mperf \in Nat /\ Core \subseteq Nat
  BY <1>0, CoreFacts DEF SplitInv, CoreType, Partial
<1>2. /\ record_buffer' \in [Core -> Seq(CoreRecord)]
      /\ \A c \in Core : c # core => record_buffer'[c] = record_buffer[c]
      /\ \/ Len(b) = 0 /\ record_buffer'[core] = <<r>>
         \/ Len(b) \in 1 .. 2 /\ record_buffer'[core] = <<b[Len(b)], r>>
  BY <1>1, ReadStatStep
<1>3. /\ r.mperf = partial.mperf /\ r.tsc = partial.tsc /\ r.cameUp = partial.cameUp
      /\ (~r.drifted => r.cyc = work[core] /\ r.inst = 2 * r.cyc)
  BY <1>1, NewRecordFields
<1>4. core' \in Core
  BY <1>0, <1>1, CorePowerAssumption DEF Core
<1>5. \A c \in Core : Done(c)' <=> (c = core \/ Done(c))
  BY <1>0, <1>1 DEF Done, Outside
<1>6. \A c \in Core : Len(record_buffer'[c]) <= 2
  <2>1. Len(record_buffer'[core]) \in {1, 2}
    <3> HIDE DEF r, b
    <3> QED BY <1>2, Tuples, Zenon
  <2>2. \A c \in Core : Len(record_buffer[c]) <= 2
    BY DEF SplitInv, CoreType
  <2>3. Len(record_buffer'[core]) <= 2
    BY <2>1, UpToTwo, Zenon
  <2> HIDE DEF r, b
  <2> QED BY <1>2, <2>2, <2>3, Zenon
<1>7. CoreType'
  BY <1>0, <1>1, <1>2, <1>4, <1>6, BlankPartial DEF CoreType, Outside
<1> DEFINE Kept(c, q) == /\ ~q.drifted => q.cyc <= work[c] /\ q.inst = 2 * q.cyc
                         /\ q.mperf <= work[c] + refreshes
                         /\ c = core \/ Done(c) \/ q.mperf < work[c] + refreshes
<1>8. Kept(core, r)
  <2>1. partial.mperf <= work[core] + refreshes
    BY <1>0 DEF SplitInv, Reading
  <2> HIDE DEF r
  <2> QED BY <1>1, <1>3, <2>1
<1>9. \A c \in Core : \A i \in 1 .. Len(record_buffer[c]) : Kept(c, record_buffer[c][i])
  BY DEF SplitInv, Stored, Behind
<1>10. \A c \in Core : \A i \in 1 .. Len(record_buffer'[c]) : Kept(c, record_buffer'[c][i])
  <2>1. \A i \in 1 .. Len(record_buffer'[core]) : Kept(core, record_buffer'[core][i])
    <3>1. Len(b) \in 1 .. 2 => Kept(core, b[Len(b)])
      <4>1. Len(b) \in 1 .. 2 => Len(b) \in 1 .. Len(b)
        <5> HIDE DEF b
        <5> QED OBVIOUS
      <4> HIDE DEF Kept
      <4> QED BY <1>1, <1>9, <4>1, Zenon
    <3> HIDE DEF Kept, r, b
    <3>2. CASE Len(b) = 0 /\ record_buffer'[core] = <<r>>
      BY <1>8, <3>2
    <3>3. CASE Len(b) \in 1 .. 2 /\ record_buffer'[core] = <<b[Len(b)], r>>
      BY <1>8, <3>1, <3>3
    <3> QED BY <1>2, <3>2, <3>3
  <2> HIDE DEF Kept, r, b
  <2> QED BY <1>2, <1>9, <2>1
<1>11. Stored'
  <2> SUFFICES ASSUME NEW c \in Core, NEW i \in 1 .. Len(record_buffer'[c])
               PROVE  Behind(c, record_buffer[c][i])'
    BY DEF Stored
  <2>1. Kept(c, record_buffer'[c][i])
    <3> HIDE DEF Kept
    <3> QED BY <1>10
  <2> QED BY <1>0, <1>5, <2>1 DEF Behind
<1>12. ASSUME NEW c \in Core PROVE Pair(c)'
  <2>1. CASE c # core
    BY <1>2, <2>1 DEF SplitInv, Pair, Previous, Newest
  <2>2. CASE c = core
    <3> SUFFICES ASSUME Len(record_buffer'[c]) = 2
                 PROVE  /\ ~record_buffer'[c][1].drifted /\ ~record_buffer'[c][2].drifted
                             => record_buffer'[c][1].cyc <= record_buffer'[c][2].cyc
                        /\ \/ record_buffer'[c][2].cameUp
                           \/ record_buffer'[c][2].tsc <= record_buffer'[c][1].tsc
                           \/ record_buffer'[c][1].mperf < record_buffer'[c][2].mperf
      BY DEF Pair, Previous, Newest
    <3> DEFINE q == b[Len(b)]
    <3>1. Len(b) \in 1 .. 2 /\ record_buffer'[c] = <<q, r>>
      <4>1. CASE Len(b) = 0 /\ record_buffer'[core] = <<r>>
        <5>1. Len(record_buffer'[c]) = 1
          <6> HIDE DEF r
          <6> QED BY <2>2, <4>1, Tuples, Zenon
        <5> QED BY <5>1
      <4> QED BY <1>2, <2>2, <4>1, Zenon
    <3>2. record_buffer'[c][1] = q /\ record_buffer'[c][2] = r
      <4>1. <<q, r>>[1] = q /\ <<q, r>>[2] = r
        <5> HIDE DEF q, r
        <5> QED BY Tuples, Zenon
      <4> HIDE DEF q, r
      <4> QED BY <3>1, <4>1, Zenon
    <3>3. Len(b) \in 1 .. Len(record_buffer[core])
      BY <3>1
    <3>4. q.tsc \in Nat
      BY <1>1, <3>3, RecordFields
    <3>5. Kept(core, q)
      <4> HIDE DEF Kept
      <4> QED BY <1>1, <1>9, <3>3
    <3>6. ~q.drifted /\ ~r.drifted => q.cyc <= r.cyc
      BY <1>3, <3>5
    <3>7. \/ partial.mperf # 0 /\ q.mperf < partial.mperf
          \/ partial.cameUp
          \/ partial.tsc = 0
      <4>1. partial.mperf # 0 => q.mperf < partial.mperf
        BY <1>0, <3>3 DEF SplitInv, Reading
      <4> QED BY <1>0, <4>1 DEF SplitInv, Reading
    <3> HIDE DEF q, r
    <3> QED BY <1>3, <3>2, <3>4, <3>6, <3>7
  <2> QED BY <2>1, <2>2
<1>13. Reading'
  BY <1>0 DEF Reading
<1> QED BY <1>7, <1>11, <1>12, <1>13 DEF SplitInv

\* Every step keeps the invariant.
LEMMA SplitStep == SplitInv /\ [CoreNext]_core_vars => SplitInv'
<1> SUFFICES ASSUME SplitInv, [CoreNext]_core_vars PROVE SplitInv'
  OBVIOUS
<1>1. ASSUME NEW c \in Core, Work(c) PROVE SplitInv'
  BY <1>1, WorkSplit
<1>2. ASSUME NEW c \in Core, Offline(c) \/ Online(c) PROVE SplitInv'
  BY <1>2, PlugSplit
<1>0. CASE refresh \/ refresh_stats
  BY <1>0, StatsSplit
<1>3. CASE refresh_core_idle_records
  BY <1>3, RefreshSplit
<1>4. CASE ReadMperf
  BY <1>4, ReadMperfSplit
<1>5. CASE ReadAperf \/ ReadTsc
  BY <1>5, ReadOtherSplit
<1>6. ASSUME NEW inst \in Counts, NEW cyc \in Cycles, ReadStat(inst, cyc) PROVE SplitInv'
  BY <1>6, ReadStatSplit
<1>7. CASE UNCHANGED core_vars
  <2>1. UNCHANGED <<work, online, pc, core, refreshes, partial, record_buffer>>
    BY <1>7 DEF core_vars
  <2>2. Stored' /\ \A d \in Core : Pair(d)'
    BY <2>1, StoredKept
  <2> QED BY <2>1, <2>2 DEF SplitInv, CoreType, Reading
<1> QED BY <1>0, <1>1, <1>2, <1>3, <1>4, <1>5, <1>6, <1>7 DEF CoreNext, Counts, Cycles

\* The differences of the two newest records.
LEMMA DeltaFacts ==
  ASSUME SplitInv, NEW c \in Core, Len(record_buffer[c]) = 2
  PROVE  LET d == Delta(c)
         IN  /\ d.mperf \in Nat /\ d.aperf \in Nat /\ d.tsc \in Nat /\ d.cyc \in Int /\ d.inst \in Int
             /\ ~Newest(c).cameUp /\ d.tsc > 0 => d.mperf > 0
             /\ ~Previous(c).drifted /\ ~Newest(c).drifted => d.inst \in Nat
<1> DEFINE p == Previous(c)
           n == Newest(c)
<1>1. /\ p.mperf \in Nat /\ p.aperf \in Nat /\ p.tsc \in Nat /\ p.cyc \in Nat /\ p.inst \in Nat
      /\ n.mperf \in Nat /\ n.aperf \in Nat /\ n.tsc \in Nat /\ n.cyc \in Nat /\ n.inst \in Nat
  BY RecordFields DEF SplitInv, Previous, Newest
<1>2. Pair(c) /\ Behind(c, p) /\ Behind(c, n)
  BY DEF SplitInv, Stored, Previous, Newest
<1>3. (~p.drifted /\ ~n.drifted => p.cyc <= n.cyc) /\ (n.cameUp \/ n.tsc <= p.tsc \/ p.mperf < n.mperf)
  BY <1>2 DEF Pair
<1>4. (~p.drifted => p.inst = 2 * p.cyc) /\ (~n.drifted => n.inst = 2 * n.cyc)
  BY <1>2 DEF Behind
<1>5. /\ Delta(c).mperf = saturating_sub(n.mperf, p.mperf)
      /\ Delta(c).aperf = saturating_sub(n.aperf, p.aperf)
      /\ Delta(c).tsc = saturating_sub(n.tsc, p.tsc)
      /\ Delta(c).cyc = n.cyc - p.cyc
      /\ Delta(c).inst = n.inst - p.inst
  BY DEF Delta
<1> HIDE DEF p, n
<1>6. /\ Delta(c).mperf \in Nat /\ Delta(c).aperf \in Nat /\ Delta(c).tsc \in Nat
      /\ Delta(c).cyc \in Int /\ Delta(c).inst \in Int
  BY <1>1, <1>3, <1>5 DEF saturating_sub
<1>7. ~n.cameUp /\ Delta(c).tsc > 0 => Delta(c).mperf > 0
  BY <1>1, <1>3, <1>5 DEF saturating_sub
<1>8. ~p.drifted /\ ~n.drifted => Delta(c).inst \in Nat
  BY <1>1, <1>3, <1>4, <1>5
<1> QED BY <1>6, <1>7, <1>8 DEF p, n

\* The coefficient of a core.
LEMMA CoefFacts ==
  ASSUME SplitInv, NEW c \in Core
  PROVE  LET k == get_core_coefs(c)
         IN  /\ k.den \in Nat /\ k.num \in Int
             /\ Len(record_buffer[c]) < 2 \/ ~Newest(c).cameUp => k.den > 0
             /\ Len(record_buffer[c]) < 2 \/ (~Previous(c).drifted /\ ~Newest(c).drifted)
                  => k.num \in Nat
<1> DEFINE d == Delta(c)
           k == get_core_coefs(c)
<1>1. Len(record_buffer[c]) < 2 \/ Len(record_buffer[c]) = 2
  <2>1. record_buffer[c] \in Seq(CoreRecord) /\ Len(record_buffer[c]) <= 2
    BY DEF SplitInv, CoreType
  <2>2. Len(record_buffer[c]) \in Nat
    BY <2>1, LenNat, Zenon
  <2> QED BY <2>1, <2>2, UpToTwo, Zenon
<1>2. CASE Len(record_buffer[c]) < 2
  <2>1. k = Zero
    BY <1>2 DEF get_core_coefs
  <2> QED BY <2>1 DEF Zero
<1>3. CASE Len(record_buffer[c]) = 2 /\ ~(d.tsc > 0)
  <2>1. k = Zero
    BY <1>3 DEF get_core_coefs
  <2> QED BY <2>1 DEF Zero
<1>4. CASE Len(record_buffer[c]) = 2 /\ d.tsc > 0
  <2>1. k = Coefficient(d)
    BY <1>4 DEF get_core_coefs
  <2>2. /\ d.mperf \in Nat /\ d.aperf \in Nat /\ d.tsc \in Nat /\ d.cyc \in Int /\ d.inst \in Int
        /\ ~Newest(c).cameUp => d.mperf > 0
        /\ ~Previous(c).drifted /\ ~Newest(c).drifted => d.inst \in Nat
    BY <1>4, DeltaFacts
  <2> HIDE DEF d, k
  <2>3. CASE d.cyc > 0
    <3>1. k.num = (d.cyc + d.inst) * d.aperf * d.aperf /\ k.den = d.cyc * d.mperf
      BY <2>1, <2>3 DEF Coefficient
    <3>2. d.cyc \in Nat /\ d.cyc + d.inst \in Int /\ (d.inst \in Nat => d.cyc + d.inst \in Nat)
      BY <2>2, <2>3
    <3>3. /\ (d.cyc + d.inst) * d.aperf \in Int
          /\ d.inst \in Nat => (d.cyc + d.inst) * d.aperf \in Nat
      BY <2>2, <3>2, Products, Zenon
    <3>4. k.num \in Int /\ (d.inst \in Nat => k.num \in Nat)
      BY <2>2, <3>1, <3>3, Products, Zenon
    <3>5. k.den \in Nat /\ (d.mperf > 0 => k.den > 0)
      BY <2>2, <2>3, <3>1, <3>2, Products, Zenon
    <3> QED BY <1>4, <2>2, <3>4, <3>5 DEF k
  <2>4. CASE ~(d.cyc > 0)
    <3>1. k.num = d.aperf * d.aperf /\ k.den = d.mperf
      BY <2>1, <2>4 DEF Coefficient
    <3>2. k.num \in Nat
      BY <2>2, <3>1, Products, Zenon
    <3> QED BY <1>4, <2>2, <3>1, <3>2 DEF k
  <2> QED BY <2>3, <2>4
<1> QED BY <1>1, <1>2, <1>3, <1>4, Zenon

\* For any number of cores and any sequence of CPUs going offline and online: after a refresh
\* that has not panicked, a core that could not be read has not spoilt the power of the others,
\* under the conditions of SplitSound (mod.rs 466-491, 2103-2116, 2233-2280).
THEOREM SplitSoundAlways == CoreSpec => []SplitSound
<1>1. SplitInv => SplitSound
  <2> SUFFICES ASSUME SplitInv
               PROVE  /\ (\A c \in Core : ~Newest(c).cameUp) => \A c \in Core : get_core_coefs(c).den > 0
                      /\ (\A c \in Core : ~Previous(c).drifted /\ ~Newest(c).drifted)
                           => \A c \in Core : get_core_coefs(c).num >= 0
    BY DEF SplitSound
  <2>1. ASSUME NEW c \in Core, ~Newest(c).cameUp PROVE get_core_coefs(c).den > 0
    BY <2>1, CoefFacts
  <2>2. ASSUME NEW c \in Core, ~Previous(c).drifted, ~Newest(c).drifted
        PROVE  get_core_coefs(c).num >= 0
    <3>1. get_core_coefs(c).num \in Nat
      BY <2>2, CoefFacts
    <3> QED BY <3>1
  <2> QED BY <2>1, <2>2
<1> QED BY <1>1, SplitInit, SplitStep, PTL DEF CoreSpec

-----------------------------------------------------------------------------
(***************************************************************************)
(* The fallback.                                                           *)
(***************************************************************************)

\* The line of /proc/stat that core c takes for its own when the CPUs o are online.
LineOf(o, c) == {d \in o : Cardinality({e \in o : e < d}) = c}
LineCpu(o, c) == CHOOSE d \in LineOf(o, c) : TRUE

\* Since a record was taken, a CPU has not worked more than all of them.
CountedOn(r, d) ==
  r.core_busy <= work[d] /\ r.node_busy <= NodeBusy /\ work[d] - r.core_busy <= NodeBusy - r.node_busy

\* The same of the CPU whose line the record has; without a line both times are 0.
Counted(c, r) ==
  IF LineOf(r.online, c) = {} THEN r.core_busy = 0 /\ r.node_busy = 0
  ELSE CountedOn(r, LineCpu(r.online, c))

\* Between two readings with the same CPUs online a core is busy no longer than all of them.
BusyPair(p, n) ==
  p.online = n.online =>
    p.node_busy <= n.node_busy /\ n.core_busy - p.core_busy <= n.node_busy - p.node_busy

\* The inductive invariant of FallbackBounded, on top of SplitInv.
BusyInv ==
  \A c \in Core :
    /\ \A i \in 1 .. Len(record_buffer[c]) : Counted(c, record_buffer[c][i])
    /\ Len(record_buffer[c]) = 2 => BusyPair(record_buffer[c][1], record_buffer[c][2])

\* The line is the one of a core.
LEMMA LineCpuFacts ==
  ASSUME NEW o \in SUBSET Core, NEW c, LineOf(o, c) # {} PROVE LineCpu(o, c) \in Core
BY DEF LineCpu, LineOf

\* There are no records yet.
LEMMA BusyStart == CoreInit => BusyInv
<1> SUFFICES ASSUME CoreInit PROVE BusyInv
  OBVIOUS
<1>1. \A c \in Core : Len(record_buffer[c]) = 0
  BY DEF CoreInit
<1>2. \A c \in Core : Len(record_buffer[c]) # 2 /\ ~\E i \in 1 .. Len(record_buffer[c]) : TRUE
  BY <1>1
<1> HIDE DEF CoreInit
<1> QED BY <1>2, Zenon DEF BusyInv

\* A step that leaves the work and the records alone.
LEMMA BusyKept ==
  ASSUME BusyInv, UNCHANGED <<work, record_buffer>> PROVE BusyInv'
<1>1. NodeBusy' = NodeBusy
  BY NodeBusySum, NodeBusyNext
<1> QED BY <1>1, Zenon DEF BusyInv, Counted, CountedOn

\* A core that works adds as much to the busy time of all of them.
LEMMA WorkBusy ==
  ASSUME CoreType, BusyInv, NEW e \in Core, Work(e) PROVE BusyInv'
<1>1. work' = [work EXCEPT ![e] = @ + 1] /\ record_buffer' = record_buffer /\ work \in [Core -> Nat]
  BY DEF Work, CoreType
<1>2. /\ \A d \in Core : work[d] \in Int /\ work'[d] \in Int
      /\ \A d \in Core : d # e => work'[d] = work[d]
      /\ work'[e] = work[e] + 1
  BY <1>1
<1>3. Sum(work', Core) = Sum(work, Core) + work'[e] - work[e]
  BY <1>2, CoreFacts, SumUpdate, Zenon
<1>4. NodeBusy' = Sum(work', Core)
  BY NodeBusyNext
<1>5. NodeBusy \in Nat
  BY <1>1, NodeBusyNat
<1>6. NodeBusy' = NodeBusy + 1
  <2>1. work[e] \in Int /\ work'[e] = work[e] + 1
    BY <1>2
  <2> QED BY <1>3, <1>4, <1>5, <2>1, NodeBusySum
<1>7. ASSUME NEW c \in Core, NEW i \in 1 .. Len(record_buffer[c])
      PROVE  Counted(c, record_buffer[c][i])'
  <2> DEFINE r == record_buffer[c][i]
             d == LineCpu(r.online, c)
  <2>1. /\ r.core_busy \in Nat /\ r.node_busy \in Nat /\ r \in CoreRecord
    BY RecordFields
  <2>2. r.online \in SUBSET Core
    BY <2>1 DEF CoreRecord
  <2>3. Counted(c, r) /\ record_buffer'[c][i] = r
    BY <1>1 DEF BusyInv
  <2>4. CASE LineOf(r.online, c) = {}
    BY <2>3, <2>4 DEF Counted
  <2>5. CASE LineOf(r.online, c) # {}
    <3>1. d \in Core /\ CountedOn(r, d)
      BY <2>2, <2>3, <2>5, LineCpuFacts DEF Counted
    <3>2. work[d] \in Nat /\ (work'[d] = work[d] \/ work'[d] = work[d] + 1)
      <4> HIDE DEF d
      <4> QED BY <1>1, <3>1
    <3>3. /\ r.core_busy <= work'[d] /\ r.node_busy <= NodeBusy'
          /\ work'[d] - r.core_busy <= NodeBusy' - r.node_busy
      <4> HIDE DEF r, d
      <4> QED BY <1>5, <1>6, <2>1, <3>1, <3>2 DEF CountedOn
    <3> QED BY <2>3, <2>5, <3>3 DEF Counted, CountedOn
  <2> QED BY <2>4, <2>5
<1> QED BY <1>1, <1>7, Zenon DEF BusyInv

\* The new record has the busy times as they are, and the one before it is behind.
LEMMA ReadStatBusy ==
  ASSUME CoreType, BusyInv, NEW inst \in Counts, NEW cyc \in Cycles, ReadStat(inst, cyc) PROVE BusyInv'
<1> DEFINE r == NewRecord(inst, cyc)
           b == record_buffer[core]
           d == LineCpu(online, core)
<1>1. UNCHANGED <<work, online>> /\ core \in Core /\ online \in SUBSET Core
      /\ work \in [Core -> Nat] /\ NodeBusy \in Nat
  BY Zenon, NodeBusyNat DEF ReadStat, CoreType
<1>2. NodeBusy' = NodeBusy
  BY <1>1, NodeBusySum, NodeBusyNext
<1>3. /\ \A c \in Core : c # core => record_buffer'[c] = record_buffer[c]
      /\ \/ Len(b) = 0 /\ record_buffer'[core] = <<r>>
         \/ Len(b) \in 1 .. 2 /\ record_buffer'[core] = <<b[Len(b)], r>>
  BY ReadStatStep
<1>4. /\ r.online = online
      /\ r.core_busy = IF LineOf(online, core) = {} THEN 0 ELSE work[d]
      /\ r.node_busy = IF LineOf(online, core) = {} THEN 0 ELSE NodeBusy
  BY NewRecordFields DEF Line, LineOf, LineCpu
<1>5. Counted(core, r)
  <2>1. LineOf(online, core) # {} => work[d] \in Nat
    BY <1>1, LineCpuFacts
  <2> HIDE DEF r, d
  <2>2. CASE LineOf(online, core) = {}
    BY <1>4, <2>2 DEF Counted
  <2>3. CASE LineOf(online, core) # {}
    BY <1>1, <1>4, <2>1, <2>3 DEF Counted, CountedOn, d
  <2> QED BY <2>2, <2>3
<1>6. ASSUME NEW c \in Core, c # core
      PROVE  /\ \A i \in 1 .. Len(record_buffer'[c]) : Counted(c, record_buffer[c][i])'
             /\ Len(record_buffer'[c]) = 2 => BusyPair(record_buffer[c][1], record_buffer[c][2])'
  <2>1. record_buffer'[c] = record_buffer[c]
    BY <1>3, <1>6
  <2> QED BY <1>1, <1>2, <1>6, <2>1, Zenon DEF BusyInv, Counted, CountedOn, BusyPair
<1>7. ASSUME Len(b) \in 1 .. 2, NEW q, q = b[Len(b)]
      PROVE  Counted(core, q) /\ BusyPair(q, r)
  <2>1. Len(b) \in 1 .. Len(record_buffer[core])
    BY <1>7
  <2>2. Counted(core, q)
    BY <1>1, <1>7, <2>1 DEF BusyInv
  <2>3. q.core_busy \in Nat /\ q.node_busy \in Nat
    BY <1>1, <1>7, <2>1, RecordFields
  <2>4. ASSUME q.online = r.online
        PROVE  q.node_busy <= r.node_busy /\ r.core_busy - q.core_busy <= r.node_busy - q.node_busy
    <3>1. CASE LineOf(online, core) = {}
      <4> HIDE DEF r, d
      <4> QED BY <1>4, <2>2, <2>4, <3>1 DEF Counted
    <3>2. CASE LineOf(online, core) # {}
      <4>1. CountedOn(q, d)
        <5> HIDE DEF r
        <5> QED BY <1>4, <2>2, <2>4, <3>2 DEF Counted
      <4> HIDE DEF r, d
      <4> QED BY <1>4, <3>2, <4>1 DEF CountedOn
    <3> QED BY <3>1, <3>2
  <2> HIDE DEF r
  <2> QED BY <2>2, <2>4 DEF BusyPair
<1>8. ASSUME NEW c \in Core, c = core
      PROVE  /\ \A i \in 1 .. Len(record_buffer'[c]) : Counted(c, record_buffer[c][i])'
             /\ Len(record_buffer'[c]) = 2 => BusyPair(record_buffer[c][1], record_buffer[c][2])'
  <2>1. \A i \in 1 .. Len(record_buffer'[c]) : Counted(core, record_buffer'[c][i])
    <3> HIDE DEF r
    <3>1. CASE Len(b) = 0 /\ record_buffer'[core] = <<r>>
      BY <1>5, <1>8, <3>1
    <3>2. CASE Len(b) \in 1 .. 2 /\ record_buffer'[core] = <<b[Len(b)], r>>
      <4> DEFINE q == b[Len(b)]
      <4>1. Counted(core, q)
        BY <1>7, <3>2
      <4>2. record_buffer'[core] = <<q, r>>
        BY <3>2
      <4> HIDE DEF q
      <4> QED BY <1>5, <1>8, <4>1, <4>2
    <3> QED BY <1>3, <3>1, <3>2
  <2>2. Len(record_buffer'[c]) = 2 => BusyPair(record_buffer'[c][1], record_buffer'[c][2])
    <3> HIDE DEF r
    <3>1. CASE Len(b) = 0 /\ record_buffer'[core] = <<r>>
      <4>1. Len(record_buffer'[c]) = 1
        BY <1>8, <3>1, Tuples, Zenon
      <4> QED BY <4>1
    <3>2. CASE Len(b) \in 1 .. 2 /\ record_buffer'[core] = <<b[Len(b)], r>>
      <4> DEFINE q == b[Len(b)]
      <4>1. BusyPair(q, r)
        BY <1>7, <3>2
      <4>2. record_buffer'[c] = <<q, r>>
        BY <1>8, <3>2
      <4> HIDE DEF q
      <4>3. record_buffer'[c][1] = q /\ record_buffer'[c][2] = r
        <5>1. <<q, r>>[1] = q /\ <<q, r>>[2] = r
          BY Tuples, Zenon
        <5> QED BY <4>2, <5>1, Zenon
      <4> QED BY <4>1, <4>3, Zenon
    <3> QED BY <1>3, <3>1, <3>2
  <2> QED BY <1>1, <1>2, <1>8, <2>1, <2>2, Zenon DEF Counted, CountedOn, BusyPair
<1> QED BY <1>6, <1>8, Zenon DEF BusyInv

\* Every step keeps the invariant.
LEMMA BusyStep == SplitInv /\ BusyInv /\ [CoreNext]_core_vars => BusyInv'
<1> SUFFICES ASSUME SplitInv, BusyInv, [CoreNext]_core_vars PROVE BusyInv'
  OBVIOUS
<1>0. CoreType
  BY DEF SplitInv
<1>1. ASSUME NEW c \in Core, Work(c) PROVE BusyInv'
  BY <1>0, <1>1, WorkBusy
<1>2. ASSUME NEW inst \in Counts, NEW cyc \in Cycles, ReadStat(inst, cyc) PROVE BusyInv'
  BY <1>0, <1>2, ReadStatBusy
<1>3. ASSUME NEW c \in Core, Offline(c) \/ Online(c) PROVE BusyInv'
  BY <1>3, BusyKept DEF Offline, Online
<1>4. CASE refresh \/ refresh_stats \/ refresh_core_idle_records \/ ReadMperf \/ ReadAperf \/ ReadTsc
  BY <1>4, BusyKept DEF refresh, refresh_stats, refresh_core_idle_records, ReadMperf, ReadAperf,
                        ReadTsc, environment
<1>5. CASE UNCHANGED core_vars
  BY <1>5, BusyKept DEF core_vars
<1> QED BY <1>1, <1>2, <1>3, <1>4, <1>5 DEF CoreNext, Counts, Cycles

\* A part of at most the whole is at most 100 per cent.
LEMMA Percent ==
  ASSUME NEW a \in Nat, NEW b \in Nat, b > 0, a <= b
  PROVE  (100 * a) \div b \in Nat /\ (100 * a) \div b <= 100
OBVIOUS

\* The part of a core in the busy time of all of them.
LEMMA PercentBounded ==
  ASSUME SplitInv, BusyInv, NEW c \in Core,
         Len(record_buffer[c]) = 2 => Previous(c).online = Newest(c).online
  PROVE  cpu_time_percentage(c) \in Nat /\ cpu_time_percentage(c) <= 100
<1> DEFINE a == Delta(c).core_busy
           b == Delta(c).node_busy
           p == Previous(c)
           n == Newest(c)
<1>1. CASE Len(record_buffer[c]) < 2 \/ b = 0
  BY <1>1 DEF cpu_time_percentage
<1>2. CASE ~(Len(record_buffer[c]) < 2) /\ b # 0
  <2>1. Len(record_buffer[c]) = 2
    <3>1. record_buffer[c] \in Seq(CoreRecord) /\ Len(record_buffer[c]) <= 2
      BY DEF SplitInv, CoreType
    <3>2. Len(record_buffer[c]) \in Nat
      BY <3>1, LenNat, Zenon
    <3> QED BY <1>2, <3>1, <3>2, UpToTwo, Zenon
  <2>2. /\ p.core_busy \in Nat /\ p.node_busy \in Nat
        /\ n.core_busy \in Nat /\ n.node_busy \in Nat
    BY <2>1, RecordFields DEF SplitInv, Previous, Newest
  <2>3. /\ p.node_busy <= n.node_busy
        /\ n.core_busy - p.core_busy <= n.node_busy - p.node_busy
    BY <2>1 DEF BusyInv, BusyPair, Previous, Newest
  <2>4. a = saturating_sub(n.core_busy, p.core_busy) /\ b = saturating_sub(n.node_busy, p.node_busy)
    BY DEF Delta
  <2> HIDE DEF p, n, a, b
  <2>5. a \in Nat /\ b \in Nat /\ a <= b
    BY <2>2, <2>3, <2>4 DEF saturating_sub
  <2>6. cpu_time_percentage(c) = (100 * a) \div b
    BY <1>2, Zenon DEF cpu_time_percentage, a, b
  <2> QED BY <1>2, <2>5, <2>6, Percent
<1> QED BY <1>1, <1>2, Zenon

\* The weight of a core whose coefficient is not negative is not negative.
LEMMA WeightNat ==
  ASSUME SplitInv, NEW c \in Core, get_core_coefs(c).num \in Nat PROVE Weight(c) \in Nat
<1> DEFINE S == Core \ {c}
           f == [d \in S |-> get_core_coefs(d).den]
           P(g) == g = [t \in SUBSET S |-> IF t = {} THEN 1
                          ELSE get_core_coefs(CHOOSE d \in t : TRUE).den * g[t \ {CHOOSE d \in t : TRUE}]]
           k == CHOOSE g : P(g)
<1>1. Weight(c) = get_core_coefs(c).num * k[S]
  BY Zenon DEF Weight, MapThenFoldSet
<1>2. IsFiniteSet(S) /\ \A d \in S : f[d] \in Nat
  BY CoreFacts, CoefFacts, FS_RemoveElement
<1>3. \A g : P(g) <=> ProductsOn(g, f, SUBSET S)
  <2> SUFFICES ASSUME NEW g PROVE P(g) <=> ProductsOn(g, f, SUBSET S)
    OBVIOUS
  <2>1. \A t \in SUBSET S : t # {} => f[Some(t)] = get_core_coefs(CHOOSE d \in t : TRUE).den
    BY SomeOf DEF Some
  <2>2. [t \in SUBSET S |-> IF t = {} THEN 1 ELSE f[Some(t)] * g[t \ {Some(t)}]]
        = [t \in SUBSET S |-> IF t = {} THEN 1
             ELSE get_core_coefs(CHOOSE d \in t : TRUE).den * g[t \ {CHOOSE d \in t : TRUE}]]
    <3> HIDE DEF f, S
    <3> QED BY <2>1 DEF Some
  <2> QED BY <2>2 DEF ProductsOn
<1>4. PICK h : ProductsOn(h, f, SUBSET S)
  <2> HIDE DEF f, S
  <2> QED BY <1>2, ProductsExist
<1>5. P(k)
  <2>1. P(h)
    BY <1>3, <1>4
  <2> HIDE DEF P
  <2> QED BY <2>1
<1>6. k[S] \in Nat
  <2> HIDE DEF P, k, f, S
  <2> QED BY <1>2, <1>3, <1>5, ProductsNat
<1> HIDE DEF k, S
<1> QED BY <1>1, <1>6, Products

\* The sums of the weights.
LEMMA CpuWeightSum == CpuWeight = Sum([c \in Core |-> Weight(c)], Core)
<1> DEFINE P(g) == g = [t \in SUBSET Core |-> IF t = {} THEN 0
                          ELSE Weight(CHOOSE x \in t : TRUE) + g[t \ {CHOOSE x \in t : TRUE}]]
           k == CHOOSE g : P(g)
           f == [c \in Core |-> Weight(c)]
<1>1. CpuWeight = k[Core]
  BY Zenon DEF CpuWeight, MapThenSumSet, MapThenFoldSet
<1>2. \A g : P(g) <=> SumsOn(g, f, SUBSET Core)
  <2> SUFFICES ASSUME NEW g PROVE P(g) <=> SumsOn(g, f, SUBSET Core)
    OBVIOUS
  <2>1. \A t \in SUBSET Core : t # {} => f[Some(t)] = Weight(CHOOSE x \in t : TRUE)
    BY SomeOf DEF Some
  <2>2. [t \in SUBSET Core |-> IF t = {} THEN 0 ELSE f[Some(t)] + g[t \ {Some(t)}]]
        = [t \in SUBSET Core |-> IF t = {} THEN 0
             ELSE Weight(CHOOSE x \in t : TRUE) + g[t \ {CHOOSE x \in t : TRUE}]]
    <3> HIDE DEF f
    <3> QED BY <2>1 DEF Some
  <2> QED BY <2>2 DEF SumsOn
<1>3. PICK g : SumsOn(g, f, SUBSET Core) /\ Sum(f, Core) = g[Core]
  BY CoreFacts, SumIsSolution
<1>4. P(k)
  <2>1. P(g)
    BY <1>2, <1>3
  <2> HIDE DEF P
  <2> QED BY <2>1
<1>5. k[Core] = g[Core]
  <2>1. SumsOn(k, f, SUBSET Core)
    <3> HIDE DEF P, k, f
    <3> QED BY <1>2, <1>4
  <2>2. Core \in SUBSET Core
    OBVIOUS
  <2>3. IsFiniteSet(Core)
    BY CoreFacts
  <2> HIDE DEF P, k, f
  <2> QED BY <1>3, <2>1, <2>2, <2>3, SumsAgree
<1> QED BY <1>1, <1>3, <1>5, Zenon

\* The sum of the parts that a process gets.
LEMMA FallbackWeightSum ==
  FallbackWeight = Sum([c \in Core |-> Weight(c) * cpu_time_percentage(c)], Core)
<1> DEFINE W(c) == Weight(c) * cpu_time_percentage(c)
           P(g) == g = [t \in SUBSET Core |-> IF t = {} THEN 0
                          ELSE W(CHOOSE x \in t : TRUE) + g[t \ {CHOOSE x \in t : TRUE}]]
           k == CHOOSE g : P(g)
           f == [c \in Core |-> W(c)]
<1>1. FallbackWeight = k[Core]
  BY Zenon DEF FallbackWeight, MapThenSumSet, MapThenFoldSet
<1> HIDE DEF W
<1>2. \A g : P(g) <=> SumsOn(g, f, SUBSET Core)
  <2> SUFFICES ASSUME NEW g PROVE P(g) <=> SumsOn(g, f, SUBSET Core)
    OBVIOUS
  <2>1. \A t \in SUBSET Core : t # {} => f[Some(t)] = W(CHOOSE x \in t : TRUE)
    BY SomeOf DEF Some
  <2>2. [t \in SUBSET Core |-> IF t = {} THEN 0 ELSE f[Some(t)] + g[t \ {Some(t)}]]
        = [t \in SUBSET Core |-> IF t = {} THEN 0
             ELSE W(CHOOSE x \in t : TRUE) + g[t \ {CHOOSE x \in t : TRUE}]]
    <3> HIDE DEF f
    <3> QED BY <2>1 DEF Some
  <2> QED BY <2>2 DEF SumsOn
<1>3. PICK g : SumsOn(g, f, SUBSET Core) /\ Sum(f, Core) = g[Core]
  BY CoreFacts, SumIsSolution
<1>4. P(k)
  <2>1. P(g)
    BY <1>2, <1>3
  <2> HIDE DEF P
  <2> QED BY <2>1
<1>5. k[Core] = g[Core]
  <2>1. SumsOn(k, f, SUBSET Core)
    <3> HIDE DEF P, k, f
    <3> QED BY <1>2, <1>4
  <2>2. Core \in SUBSET Core
    OBVIOUS
  <2>3. IsFiniteSet(Core)
    BY CoreFacts
  <2> HIDE DEF P, k, f
  <2> QED BY <1>3, <2>1, <2>2, <2>3, SumsAgree
<1>6. FallbackWeight = Sum(f, Core)
  BY <1>1, <1>3, <1>5, Zenon
<1> QED BY <1>6 DEF W

\* For any number of cores: without eBPF data a process gets no more than the power of the
\* socket, if the same CPUs are online at the two newest readings of each core and the counts
\* of instructions and cycles are precise (mod.rs 1139-1155, 2114-2134, 2256-2264).
THEOREM FallbackBoundedAlways == CoreSpec => []FallbackBounded
<1>1. SplitInv /\ BusyInv => FallbackBounded
  <2> SUFFICES ASSUME SplitInv, BusyInv,
                      \A c \in Core : /\ Previous(c).online = Newest(c).online
                                      /\ ~Previous(c).drifted /\ ~Newest(c).drifted
               PROVE  FallbackWeight <= 100 * CpuWeight
    BY DEF FallbackBounded
  <2> DEFINE w == [c \in Core |-> Weight(c)]
             v == [c \in Core |-> Weight(c) * cpu_time_percentage(c)]
  <2>1. ASSUME NEW c \in Core
        PROVE  v[c] \in Int /\ w[c] \in Int /\ 1 * v[c] <= 100 * w[c]
    <3>1. Weight(c) \in Nat
      BY CoefFacts, WeightNat
    <3>2. cpu_time_percentage(c) \in Nat /\ cpu_time_percentage(c) <= 100
      BY PercentBounded
    <3>3. \A a, b \in Nat : b <= 100 => a * b \in Int /\ a \in Int /\ 1 * (a * b) <= 100 * a
      OBVIOUS
    <3>4. /\ Weight(c) * cpu_time_percentage(c) \in Int /\ Weight(c) \in Int
          /\ 1 * (Weight(c) * cpu_time_percentage(c)) <= 100 * Weight(c)
      BY <3>1, <3>2, <3>3, Zenon
    <3>5. v[c] = Weight(c) * cpu_time_percentage(c) /\ w[c] = Weight(c)
      OBVIOUS
    <3> QED BY <3>4, <3>5, Zenon
  <2>2. CpuWeight = Sum(w, Core) /\ FallbackWeight = Sum(v, Core)
    BY CpuWeightSum, FallbackWeightSum
  <2> HIDE DEF v, w
  <2>3. 1 * Sum(v, Core) <= 100 * Sum(w, Core)
    <3>1. 1 \in Int /\ 100 \in Int
      OBVIOUS
    <3> QED BY <2>1, <3>1, CoreFacts, SumScaled, Zenon
  <2>4. Sum(v, Core) \in Int /\ Sum(w, Core) \in Int
    BY <2>1, CoreFacts, SumInt
  <2> QED BY <2>2, <2>3, <2>4
<1> QED BY <1>1, SplitInit, SplitStep, BusyStart, BusyStep, PTL DEF CoreSpec
=============================================================================
