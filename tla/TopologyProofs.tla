--------------------------- MODULE TopologyProofs ---------------------------
(***************************************************************************)
(* Proofs about the two parts of Topology that are kept by the sensor:     *)
(* the processes (ProcessTracker) and the lists made of them               *)
(* (TopConsumers), for any pids, executables and number of records per     *)
(* process, and the sockets and the energy of the host (HostTopology), for *)
(* any powercap directories and any order of listing.                      *)
(*                                                                         *)
(* UniquePid is not inductive alone: sorting a vector can bring any of its *)
(* records to the front, so the records of a vector must all have its pid  *)
(* (OneHistory).  HeadIsCurrent needs that no record is from the future    *)
(* and what has been added so far; VectorsBounded needs that the dropping  *)
(* loop steps over at most one empty vector for each one it removes.       *)
(* TopConsumersSound needs what each iteration over the vectors has left   *)
(* in the list (Good, Sieved).                                             *)
(*                                                                         *)
(* PackagesFound needs what the folders that have been looked at so far    *)
(* have left in the topology (Listing); HostEnergySound needs how far each *)
(* record is from the truth (Balances), and that the sums over the         *)
(* sockets take each counter once (ReadWhole).                             *)
(***************************************************************************)
EXTENDS TopConsumers, HostTopology, FiniteSums, SequenceTheorems, FiniteSetTheorems, TLAPS

TrackerInv == TypeOK /\ UniquePid /\ OneHistory

\* What cleaning leaves of a vector is short enough, not empty, and made of its records.
LEMMA TrimFacts ==
  ASSUME NEW v \in Seq(Record), v # <<>>, NEW w \in clean_old_process_records(v)
  PROVE  /\ w \in Seq(Record)
         /\ w # <<>>
         /\ Len(w) <= max_records_per_process
         /\ \A j \in DOMAIN w : \E k \in DOMAIN v : w[j] = v[k]
<1>1. CASE Len(v) <= max_records_per_process
  BY <1>1 DEF clean_old_process_records
<1>2. CASE ~(Len(v) <= max_records_per_process)
  <2>1. PICK f \in SortOrders(v) : w = [i \in 1 .. max_records_per_process |-> v[f[i]]]
    BY <1>2 DEF clean_old_process_records
  <2>2. f \in [1 .. Len(v) -> 1 .. Len(v)]
    BY <2>1 DEF SortOrders
  <2>3. \A i \in 1 .. max_records_per_process : f[i] \in 1 .. Len(v)
    BY <1>2, <2>2, ProcessTrackerAssumption
  <2>4. /\ w \in Seq(Record)
        /\ Len(w) = max_records_per_process
        /\ DOMAIN w = 1 .. max_records_per_process
    BY <2>1, <2>3, ProcessTrackerAssumption
  <2>5. \A j \in DOMAIN w : \E k \in DOMAIN v : w[j] = v[k]
    BY <2>1, <2>3, <2>4
  <2>6. w # <<>>
    BY <2>4, ProcessTrackerAssumption
  <2> QED BY <2>4, <2>5, <2>6, ProcessTrackerAssumption
<1> QED BY <1>1, <1>2

\* Removing an element moves the later ones down by one.
LEMMA RemoveFacts ==
  ASSUME NEW S, NEW s \in Seq(S), NEW n \in 1 .. Len(s)
  PROVE  /\ RemoveAt(s, n) \in Seq(S)
         /\ Len(RemoveAt(s, n)) = Len(s) - 1
         /\ \A i \in 1 .. Len(s) - 1 :
               RemoveAt(s, n)[i] = IF i < n THEN s[i] ELSE s[i + 1]
<1> DEFINE a == SubSeq(s, 1, n - 1)
           b == SubSeq(s, n + 1, Len(s))
<1>1. \A i \in 1 .. Len(s) : s[i] \in S
  OBVIOUS
<1>2. /\ a \in Seq(S)
      /\ Len(a) = n - 1
      /\ \A i \in 1 .. n - 1 : a[i] = s[i]
  BY <1>1, SubSeqProperties
<1>3. /\ b \in Seq(S)
      /\ Len(b) = Len(s) - n
      /\ \A i \in 1 .. Len(s) - n : b[i] = s[n + i]
  BY <1>1, SubSeqProperties
<1> HIDE DEF a, b
<1>4. /\ a \o b \in Seq(S)
      /\ Len(a \o b) = Len(s) - 1
      /\ \A i \in 1 .. Len(s) - 1 :
            (a \o b)[i] = IF i <= n - 1 THEN a[i] ELSE b[i - (n - 1)]
  BY <1>2, <1>3, ConcatProperties
<1>5. \A i \in 1 .. Len(s) - 1 : (a \o b)[i] = IF i < n THEN s[i] ELSE s[i + 1]
  BY <1>2, <1>3, <1>4
<1> QED BY <1>4, <1>5 DEF RemoveAt, a, b

\* An empty vector, and a vector of one record, are histories.
LEMMA ShortHistory ==
  IsHistory(<<>>) /\ \A r : IsHistory(<<r>>)
  BY ProcessTrackerAssumption DEF IsHistory

\* If every vector is empty or one that was there, at indices that keep different
\* vectors apart, then pids stay unique and histories stay histories.
LEMMA Selected ==
  ASSUME TrackerInv, NEW q \in Seq(Seq(Record)), NEW g \in [DOMAIN q -> DOMAIN procs],
         \A i, j \in DOMAIN q : g[i] = g[j] => i = j,
         \A i \in DOMAIN q : q[i] = <<>> \/ q[i] = procs[g[i]],
         procs' = q
  PROVE  UniquePid' /\ OneHistory'
<1>1. UniquePid'
  BY DEF TrackerInv, TypeOK, UniquePid, VectorsOf
<1>2. OneHistory'
  BY ShortHistory DEF TrackerInv, OneHistory
<1> QED BY <1>1, <1>2

\* The invariant depends on nothing but the types and procs.
LEMMA SameProcs ==
  ASSUME TrackerInv, TypeOK', procs' = procs
  PROVE  TrackerInv'
  BY DEF TrackerInv, UniquePid, OneHistory, VectorsOf

\* At the start there are no vectors.
LEMMA InitInv == Init => TrackerInv
<1> SUFFICES ASSUME Init PROVE TrackerInv
  OBVIOUS
<1>1. DOMAIN sysinfo = Pid
  BY DEF Init, Tables
<1>2. TypeOK
  <2>1. sysinfo \in Tables(DOMAIN sysinfo)
    BY <1>1 DEF Init
  <2>2. procs \in Seq(Seq(Record))
    BY DEF Init
  <2>3. setBack \in BOOLEAN
    BY DEF Init
  <2> QED BY <1>1, <2>1, <2>2, <2>3 DEF Init, TypeOK
<1>3. UniquePid /\ OneHistory
  BY DEF Init, UniquePid, OneHistory, VectorsOf
<1> QED BY <1>2, <1>3 DEF TrackerInv

\* The record that is added for pid p.
RecordOf(p) == [pid |-> p, comm |-> sysinfo[p].comm, timestamp |-> clock]

\* Sorting a vector whose first record is the newest leaves that record first: the sort
\* is stable.
LEMMA NewestStaysFirst ==
  ASSUME NEW v \in Seq(Record), v # <<>>, NEW w \in clean_old_process_records(v),
         \A j \in DOMAIN v : v[j].timestamp <= v[1].timestamp
  PROVE  w[1] = v[1]
<1>1. CASE Len(v) <= max_records_per_process
  BY <1>1 DEF clean_old_process_records
<1>2. CASE ~(Len(v) <= max_records_per_process)
  <2>1. PICK f \in SortOrders(v) : w = [i \in 1 .. max_records_per_process |-> v[f[i]]]
    BY <1>2 DEF clean_old_process_records
  <2> DEFINE n == Len(v)
  <2>2. n \in Nat /\ n > 0 /\ DOMAIN v = 1 .. n
    OBVIOUS
  <2>3. \A j \in 1 .. n : v[j].timestamp \in Nat
    <3>1. \A j \in 1 .. n : v[j] \in Record
      BY <2>2
    <3> QED BY <3>1 DEF Record
  <2>4. /\ f \in [1 .. n -> 1 .. n]
        /\ \A k, l \in 1 .. n : k < l =>
             \/ v[f[k]].timestamp > v[f[l]].timestamp
             \/ v[f[k]].timestamp = v[f[l]].timestamp /\ f[k] < f[l]
    BY <2>1, <2>2 DEF SortOrders
  <2>5. \A k \in 1 .. n : f[k] \in 1 .. n /\ f[k] \in Nat
    BY <2>4
  <2>6. \A k, l \in 1 .. n : k # l => f[k] # f[l]
    <3> SUFFICES ASSUME NEW k \in 1 .. n, NEW l \in 1 .. n, k < l PROVE f[k] # f[l]
      BY <2>2
    <3> HIDE DEF n
    <3> QED BY <2>3, <2>4, <2>5
  <2>7. \E k \in 1 .. n : f[k] = 1
    <3> SUFFICES ASSUME \A k \in 1 .. n : f[k] # 1 PROVE FALSE
      OBVIOUS
    <3> HIDE DEF n
    <3>1. f \in [1 .. n -> 2 .. n]
      <4>1. \A k \in 1 .. n : f[k] \in 2 .. n
        BY <2>2, <2>5
      <4> QED BY <2>4, <4>1
    <3>2. /\ IsFiniteSet(1 .. n) /\ Cardinality(1 .. n) = n
          /\ IsFiniteSet(2 .. n) /\ Cardinality(2 .. n) = n - 1
      <4>1. 1 \in Int /\ 2 \in Int /\ n \in Int
        BY <2>2
      <4> QED BY <2>2, <4>1, FS_Interval
    <3>3. \E x, y \in 1 .. n : x # y /\ f[x] = f[y]
      <4>1. Cardinality(2 .. n) < Cardinality(1 .. n)
        BY <2>2, <3>2
      <4> QED BY <3>1, <3>2, <4>1, FS_PigeonHole
    <3> QED BY <2>6, <3>3
  <2>8. PICK k \in 1 .. n : f[k] = 1
    BY <2>7
  <2>9. k = 1
    <3> SUFFICES ASSUME k # 1 PROVE FALSE
      OBVIOUS
    <3> HIDE DEF n
    <3>1. 1 \in 1 .. n /\ 1 < k
      BY <2>2
    <3>2. v[f[1]].timestamp <= v[1].timestamp
      BY <2>2, <2>5, <3>1
    <3> QED BY <2>3, <2>4, <2>5, <2>8, <3>1, <3>2
  <2>10. 1 \in 1 .. max_records_per_process
    BY ProcessTrackerAssumption
  <2> QED BY <2>1, <2>8, <2>9, <2>10
<1> QED BY <1>1, <1>2

\* The vector i of pid p becomes w: records of that pid and executable only, with the new
\* one first if no record of i is newer.
PutInFront(p, i, w) ==
  /\ procs' = [procs EXCEPT ![i] = w]
  /\ w # <<>> /\ Len(w) <= max_records_per_process
  /\ \A j \in DOMAIN w : /\ w[j].pid = p /\ w[j].comm = RecordOf(p).comm
                         /\ \/ w[j] = RecordOf(p)
                            \/ \E l \in DOMAIN procs[i] : w[j] = procs[i][l]
  /\ (\A l \in DOMAIN procs[i] : procs[i][l].timestamp <= clock) => w[1] = RecordOf(p)

\* A record is put into a new vector, or in front of the records of the only vector of
\* its pid.
LEMMA AddShape ==
  ASSUME TrackerInv, NEW p \in Pid, add_process_record(p)
  PROVE  /\ RecordOf(p) \in Record
         /\ \/ VectorsOf(p) = {} /\ procs' = Append(procs, <<RecordOf(p)>>)
            \/ \E i \in VectorsOf(p), w \in Seq(Record) : PutInFront(p, i, w)
<1> DEFINE record == RecordOf(p)
<1>1. record \in Record
  BY DEF TrackerInv, TypeOK, add_process_record, Tables, Process, Record, RecordOf
<1>2. record.pid = p /\ record.timestamp = clock
  BY DEF RecordOf
<1>3. CASE VectorsOf(p) = {}
  BY <1>1, <1>3 DEF add_process_record, RecordOf
<1>4. CASE VectorsOf(p) # {}
  <2> DEFINE i == CHOOSE i \in VectorsOf(p) : \A j \in VectorsOf(p) : i <= j
             v == <<record>> \o History(procs[i], record.comm)
  <2>1. PICK k \in VectorsOf(p) : VectorsOf(p) = {k}
    BY <1>4 DEF TrackerInv, UniquePid
  <2>2. k \in Nat
    BY DEF VectorsOf, TrackerInv, TypeOK
  <2>3. i = k
    BY <2>1, <2>2
  <2>4. PICK w \in clean_old_process_records(v) : procs' = [procs EXCEPT ![i] = w]
    BY <1>4 DEF add_process_record, RecordOf
  <2>5. /\ i \in DOMAIN procs
        /\ procs[i] \in Seq(Record)
        /\ procs[i] # <<>>
        /\ procs[i][1].pid = p
    BY <2>1, <2>3 DEF VectorsOf, TrackerInv, TypeOK
  <2>6. /\ v \in Seq(Record)
        /\ v # <<>>
        /\ v[1] = record
        /\ \A j \in DOMAIN v : v[j].pid = p /\ v[j].comm = record.comm
        /\ \A j \in DOMAIN v : v[j] = record \/ \E l \in DOMAIN procs[i] : v[j] = procs[i][l]
    <3>1. CASE record.comm = procs[i][1].comm
      <4>1. \A j \in DOMAIN procs[i] : procs[i][j].pid = p /\ procs[i][j].comm = record.comm
        BY <2>5, <3>1 DEF TrackerInv, OneHistory, IsHistory
      <4> DEFINE o == <<record>>
                 u == procs[i]
      <4>2. o \in Seq(Record) /\ Len(o) = 1 /\ o[1] = record
        BY <1>1
      <4>3. u \in Seq(Record) /\ v = o \o u
        BY <2>5, <3>1 DEF History
      <4> HIDE DEF o, u, v, record
      <4>4. /\ o \o u \in Seq(Record)
            /\ Len(o \o u) = Len(o) + Len(u)
            /\ \A j \in 1 .. Len(o) + Len(u) :
                  (o \o u)[j] = IF j <= Len(o) THEN o[j] ELSE u[j - Len(o)]
        BY <4>2, <4>3, ConcatProperties
      <4>5. v \in Seq(Record) /\ v # <<>> /\ v[1] = record
        BY <4>2, <4>3, <4>4
      <4>6. \A j \in DOMAIN v : v[j] = record \/ \E l \in DOMAIN u : v[j] = u[l]
        BY <4>2, <4>3, <4>4
      <4> QED BY <1>2, <4>1, <4>5, <4>6 DEF u
    <3>2. CASE record.comm # procs[i][1].comm
      <4>1. v = <<record>>
        BY <1>1, <3>2 DEF History
      <4> HIDE DEF record, v
      <4> QED BY <1>1, <1>2, <4>1
    <3> QED BY <3>1, <3>2
  <2> HIDE DEF v
  <2>7. /\ w \in Seq(Record)
        /\ w # <<>>
        /\ Len(w) <= max_records_per_process
        /\ \A j \in DOMAIN w : \E l \in DOMAIN v : w[j] = v[l]
    BY <2>4, <2>6, TrimFacts
  <2>8. ASSUME \A l \in DOMAIN procs[i] : procs[i][l].timestamp <= clock
        PROVE  w[1] = record
    <3>1. clock \in Nat
      BY DEF TrackerInv, TypeOK
    <3>2. \A j \in DOMAIN v : v[j].timestamp <= v[1].timestamp
      <4> HIDE DEF i, record
      <4> QED BY <1>2, <2>6, <2>8, <3>1
    <3> QED BY <2>4, <2>6, <3>2, NewestStaysFirst
  <2>9. i \in VectorsOf(p)
    BY <2>3
  <2> HIDE DEF i, record
  <2>10. \A j \in DOMAIN w : /\ w[j].pid = p /\ w[j].comm = record.comm
                             /\ w[j] = record \/ \E l \in DOMAIN procs[i] : w[j] = procs[i][l]
    BY <2>6, <2>7
  <2>11. PutInFront(p, i, w)
    BY <2>4, <2>7, <2>8, <2>10 DEF record, PutInFront
  <2> QED BY <1>1, <2>7, <2>9, <2>11 DEF record
<1> QED BY <1>3, <1>4

\* Adding a record keeps a pid in one vector.
LEMMA AddInv ==
  ASSUME TrackerInv, NEW p \in Pid, add_process_record(p)
  PROVE  TrackerInv'
<1> DEFINE record == RecordOf(p)
<1>1. record \in Record
  BY AddShape
<1>2. procs' \in Seq(Seq(Record)) => TypeOK'
  BY DEF TrackerInv, TypeOK, add_process_record
<1> HIDE DEF record
<1>3. CASE VectorsOf(p) = {} /\ procs' = Append(procs, <<record>>)
  <2>1. TypeOK'
    BY <1>1, <1>2, <1>3 DEF TrackerInv, TypeOK
  <2>2. \A i \in DOMAIN procs : procs'[i] = procs[i]
    BY <1>3 DEF TrackerInv, TypeOK
  <2>3. /\ DOMAIN procs' = DOMAIN procs \cup {Len(procs) + 1}
        /\ procs'[Len(procs) + 1] = <<record>>
    BY <1>3 DEF TrackerInv, TypeOK
  <2>4. record.pid = p
    BY DEF record, RecordOf
  <2>5. UniquePid'
    BY <1>3, <2>2, <2>3, <2>4 DEF TrackerInv, UniquePid, VectorsOf
  <2>6. OneHistory'
    BY <2>2, <2>3, ShortHistory DEF TrackerInv, OneHistory
  <2> QED BY <2>1, <2>5, <2>6 DEF TrackerInv
<1>4. ASSUME NEW i \in VectorsOf(p), NEW w \in Seq(Record), PutInFront(p, i, w)
      PROVE  TrackerInv'
  <2>0. /\ procs' = [procs EXCEPT ![i] = w]
        /\ w # <<>> /\ Len(w) <= max_records_per_process
        /\ \A j \in DOMAIN w : w[j].pid = p /\ w[j].comm = record.comm
    BY <1>4 DEF PutInFront, record
  <2>1. i \in DOMAIN procs /\ procs[i] # <<>> /\ procs[i][1].pid = p
    BY DEF VectorsOf
  <2>2. 1 \in DOMAIN w
    BY <2>0
  <2>3. /\ procs' \in Seq(Seq(Record))
        /\ DOMAIN procs' = DOMAIN procs
        /\ procs'[i] = w
        /\ \A j \in DOMAIN procs : j # i => procs'[j] = procs[j]
    BY <2>0, <2>1 DEF TrackerInv, TypeOK
  <2>4. \A q \in Pid : VectorsOf(q)' \subseteq VectorsOf(q)
    BY <2>0, <2>1, <2>2, <2>3 DEF VectorsOf
  <2>5. UniquePid'
    BY <2>4 DEF TrackerInv, UniquePid
  <2>6. OneHistory'
    <3>1. IsHistory(w)
      BY <2>0, <2>2 DEF IsHistory
    <3> QED BY <2>3, <3>1 DEF TrackerInv, OneHistory
  <2> QED BY <1>2, <2>3, <2>5, <2>6 DEF TrackerInv
<1> QED BY <1>3, <1>4, AddShape DEF record

\* Every step preserves the invariant.
LEMMA StepInv == TrackerInv /\ [Next]_vars => TrackerInv'
<1> SUFFICES ASSUME TrackerInv, [Next]_vars PROVE TrackerInv'
  OBVIOUS
<1>1. CASE Tick
  <2>1. TypeOK'
    BY <1>1 DEF TrackerInv, TypeOK, Tick
  <2> QED BY <1>1, <2>1, SameProcs DEF Tick
<1>2. CASE SetClockBack
  <2>1. TypeOK'
    BY <1>2 DEF TrackerInv, TypeOK, SetClockBack
  <2> QED BY <1>2, <2>1, SameProcs DEF SetClockBack
<1>3. CASE clean_terminated_process_records_vectors
  <2> DEFINE q == [i \in DOMAIN procs |-> Emptied(procs[i])]
             g == [i \in DOMAIN procs |-> i]
  <2>1. \A i \in DOMAIN procs : Emptied(procs[i]) = <<>> \/ Emptied(procs[i]) = procs[i]
    BY DEF Emptied
  <2>2. q \in Seq(Seq(Record)) /\ DOMAIN q = DOMAIN procs
    <3>1. \A i \in DOMAIN procs : Emptied(procs[i]) \in Seq(Record)
      <4>1. <<>> \in Seq(Record) /\ \A i \in DOMAIN procs : procs[i] \in Seq(Record)
        BY DEF TrackerInv, TypeOK
      <4> QED BY <2>1, <4>1
    <3>2. DOMAIN procs = 1 .. Len(procs) /\ Len(procs) \in Nat
      BY DEF TrackerInv, TypeOK
    <3> QED BY <3>1, <3>2
  <2>3. TypeOK'
    BY <1>3, <2>2 DEF TrackerInv, TypeOK, clean_terminated_process_records_vectors
  <2>4. \A i \in DOMAIN q : q[i] = <<>> \/ q[i] = procs[g[i]]
    BY <2>1
  <2>5. procs' = q
    BY <1>3 DEF clean_terminated_process_records_vectors
  <2>6. g \in [DOMAIN q -> DOMAIN procs] /\ \A i, j \in DOMAIN q : g[i] = g[j] => i = j
    BY <2>2
  <2>7. UniquePid' /\ OneHistory'
    <3> HIDE DEF q, g
    <3> QED BY <2>2, <2>4, <2>5, <2>6, Selected
  <2> QED BY <2>3, <2>7 DEF TrackerInv
<1>4. CASE SkipCleaning
  <2>1. TypeOK'
    BY <1>4 DEF TrackerInv, TypeOK, SkipCleaning
  <2> QED BY <1>4, <2>1, SameProcs DEF SkipCleaning
<1>5. CASE drop_empty_process_records_vectors
  <2> DEFINE n == cursor.next
  <2>1. procs' \in Seq(Seq(Record)) => TypeOK'
    BY <1>5 DEF TrackerInv, TypeOK, drop_empty_process_records_vectors
  <2>2. CASE procs' = procs
    BY <2>1, <2>2, SameProcs DEF TrackerInv, TypeOK
  <2>3. CASE procs' # procs
    <3>1. n \in 1 .. Len(procs) /\ procs' = RemoveAt(procs, n)
      BY <1>5, <2>3 DEF TrackerInv, TypeOK, drop_empty_process_records_vectors
    <3> DEFINE g == [i \in 1 .. Len(procs) - 1 |-> IF i < n THEN i ELSE i + 1]
    <3> HIDE DEF n
    <3>2. /\ procs' \in Seq(Seq(Record))
          /\ DOMAIN procs' = 1 .. Len(procs) - 1
          /\ \A i \in DOMAIN procs' : procs'[i] = procs[g[i]]
      <4>1. procs \in Seq(Seq(Record)) /\ Len(procs) \in Nat
        BY DEF TrackerInv, TypeOK
      <4>2. /\ procs' \in Seq(Seq(Record))
            /\ Len(procs') = Len(procs) - 1
            /\ \A i \in 1 .. Len(procs) - 1 :
                  procs'[i] = IF i < n THEN procs[i] ELSE procs[i + 1]
        BY <3>1, <4>1, RemoveFacts
      <4>3. DOMAIN procs' = 1 .. Len(procs) - 1
        BY <4>2
      <4>4. \A i \in 1 .. Len(procs) - 1 : g[i] = IF i < n THEN i ELSE i + 1
        OBVIOUS
      <4> HIDE DEF g
      <4>5. \A i \in 1 .. Len(procs) - 1 : procs'[i] = procs[g[i]]
        BY <4>2, <4>4, Zenon
      <4> QED BY <4>2, <4>3, <4>5
    <3>3. g \in [DOMAIN procs' -> DOMAIN procs]
      <4>1. DOMAIN procs = 1 .. Len(procs) /\ Len(procs) \in Nat
        BY DEF TrackerInv, TypeOK
      <4>2. \A i \in 1 .. Len(procs) - 1 : (IF i < n THEN i ELSE i + 1) \in 1 .. Len(procs)
        BY <3>1, <4>1
      <4> QED BY <3>2, <4>1, <4>2
    <3>4. \A i, j \in DOMAIN procs' : g[i] = g[j] => i = j
      <4>1. n \in Int
        BY <3>1
      <4>2. \A i, j \in Int : (IF i < n THEN i ELSE i + 1) = (IF j < n THEN j ELSE j + 1) => i = j
        BY <4>1
      <4>3. \A i \in DOMAIN procs' : i \in Int /\ g[i] = IF i < n THEN i ELSE i + 1
        BY <3>2
      <4> HIDE DEF g
      <4> QED BY <4>2, <4>3
    <3>5. UniquePid' /\ OneHistory'
      <4> HIDE DEF g
      <4> QED BY <3>2, <3>3, <3>4, Selected
    <3> QED BY <2>1, <3>2, <3>5 DEF TrackerInv
  <2> QED BY <2>2, <2>3
<1>6. CASE DropDone
  <2>1. TypeOK'
    BY <1>6 DEF TrackerInv, TypeOK, DropDone
  <2> QED BY <1>6, <2>1, SameProcs DEF DropDone
<1>7. CASE refresh_procs
  <2>1. PICK P \in SUBSET Pid : sysinfo' \in Tables(P)
    BY <1>7 DEF refresh_procs, Snapshots
  <2>2. DOMAIN sysinfo' = P
    BY <2>1 DEF Tables
  <2>3. TypeOK'
    BY <1>7, <2>1, <2>2 DEF TrackerInv, TypeOK, refresh_procs
  <2> QED BY <1>7, <2>3, SameProcs DEF refresh_procs
<1>8. ASSUME NEW p \in Pid, add_process_record(p) PROVE TrackerInv'
  BY <1>8, AddInv
<1>9. CASE UNCHANGED vars
  <2>1. TypeOK'
    BY <1>9 DEF TrackerInv, TypeOK, vars
  <2> QED BY <1>9, <2>1, SameProcs DEF vars
<1> QED
  BY <1>1, <1>2, <1>3, <1>4, <1>5, <1>6, <1>7, <1>8, <1>9 DEF Next

\* The invariant holds in every state.
THEOREM TrackerInvAlways == Spec => []TrackerInv
<1> QED BY InitInv, StepInv, PTL DEF Spec

\* The tracker keeps its types, whatever the processes do.
THEOREM TrackerTypeAlways == Spec => []TypeOK
<1>1. TrackerInv => TypeOK
  BY DEF TrackerInv
<1> QED BY <1>1, TrackerInvAlways, PTL

\* get_process_name never finds two vectors of one pid, whatever processes start, end
\* and reuse pids, in whatever order they are added and whenever vectors are cleaned.
THEOREM UniquePidAlways == Spec => []UniquePid
<1>1. TrackerInv => UniquePid
  BY DEF TrackerInv
<1> QED BY <1>1, TrackerInvAlways, PTL

\* A vector never mixes pids or executables and is never longer than
\* max_records_per_process, even when the wall clock is set back.
THEOREM OneHistoryAlways == Spec => []OneHistory
<1>1. TrackerInv => OneHistory
  BY DEF TrackerInv
<1> QED BY <1>1, TrackerInvAlways, PTL

-----------------------------------------------------------------------------
(***************************************************************************)
(* The first record of a vector.                                           *)
(***************************************************************************)

\* No record is newer than the clock, and the pids of the snapshot that are not pending
\* have their new record first.
Fresh ==
  /\ taken <= clock
  /\ \A i \in DOMAIN procs : \A j \in DOMAIN procs[i] : procs[i][j].timestamp <= clock
  /\ \A i \in DOMAIN procs :
       procs[i] # <<>> /\ procs[i][1].pid \in DOMAIN sysinfo \ pending
         => procs[i][1].timestamp >= taken

FreshInv == TrackerInv /\ (phase # "add" => pending = {}) /\ (~setBack => Fresh)

\* If every vector is empty or one that was there, records stay as fresh as they were.
LEMMA FreshSelected ==
  ASSUME Fresh, NEW g \in [DOMAIN procs' -> DOMAIN procs],
         \A i \in DOMAIN procs' : procs'[i] = <<>> \/ procs'[i] = procs[g[i]],
         UNCHANGED <<clock, taken, sysinfo, pending>>
  PROVE  Fresh'
BY DEF Fresh

\* Adding a record puts it first.
LEMMA FreshAdd ==
  ASSUME TrackerInv, Fresh, NEW p \in Pid, add_process_record(p) PROVE Fresh'
<1> DEFINE record == RecordOf(p)
<1>1. /\ UNCHANGED <<clock, taken, sysinfo>> /\ pending' = pending \ {p}
      /\ clock \in Nat /\ taken \in Nat /\ taken <= clock
  BY DEF add_process_record, TrackerInv, TypeOK, Fresh
<1>2. record.timestamp = clock /\ record.pid = p
  BY DEF RecordOf
<1>3. CASE VectorsOf(p) = {} /\ procs' = Append(procs, <<record>>)
  <2> HIDE DEF record
  <2>1. \A i \in DOMAIN procs : procs'[i] = procs[i]
    BY <1>3 DEF TrackerInv, TypeOK
  <2>2. /\ DOMAIN procs' = DOMAIN procs \cup {Len(procs) + 1}
        /\ procs'[Len(procs) + 1] = <<record>>
    BY <1>3 DEF TrackerInv, TypeOK
  <2>3. \A i \in DOMAIN procs : procs[i] # <<>> => procs[i][1].pid # p
    BY <1>3 DEF VectorsOf
  <2>4. \A i \in DOMAIN procs' : \A j \in DOMAIN procs'[i] : procs'[i][j].timestamp <= clock
    BY <1>1, <1>2, <2>1, <2>2 DEF Fresh
  <2>5. \A i \in DOMAIN procs' :
          procs'[i] # <<>> /\ procs'[i][1].pid \in DOMAIN sysinfo \ pending'
            => procs'[i][1].timestamp >= taken
    BY <1>1, <1>2, <2>1, <2>2, <2>3 DEF Fresh
  <2> QED BY <1>1, <2>4, <2>5 DEF Fresh
<1>4. ASSUME NEW i \in VectorsOf(p), NEW w \in Seq(Record), PutInFront(p, i, w)
      PROVE  Fresh'
  <2>1. i \in DOMAIN procs
    BY DEF VectorsOf
  <2>2. \A l \in DOMAIN procs[i] : procs[i][l].timestamp <= clock
    BY <2>1 DEF Fresh
  <2>3. /\ procs' = [procs EXCEPT ![i] = w]
        /\ w[1] = record /\ w # <<>>
        /\ \A j \in DOMAIN w : w[j] = record \/ \E l \in DOMAIN procs[i] : w[j] = procs[i][l]
    BY <1>4, <2>2 DEF PutInFront
  <2> HIDE DEF record
  <2>4. /\ DOMAIN procs' = DOMAIN procs
        /\ procs'[i] = w
        /\ \A j \in DOMAIN procs : j # i => procs'[j] = procs[j]
    BY <2>1, <2>3 DEF TrackerInv, TypeOK
  <2>5. \A j \in DOMAIN w : w[j].timestamp <= clock
    BY <1>1, <1>2, <2>2, <2>3
  <2>6. \A j \in DOMAIN procs : j # i /\ procs[j] # <<>> => procs[j][1].pid # p
    BY DEF TrackerInv, UniquePid, VectorsOf
  <2>7. \A j \in DOMAIN procs' : \A k \in DOMAIN procs'[j] : procs'[j][k].timestamp <= clock
    BY <2>4, <2>5 DEF Fresh
  <2>8. \A j \in DOMAIN procs' :
          procs'[j] # <<>> /\ procs'[j][1].pid \in DOMAIN sysinfo \ pending'
            => procs'[j][1].timestamp >= taken
    BY <1>1, <1>2, <2>3, <2>4, <2>6 DEF Fresh
  <2> QED BY <1>1, <2>7, <2>8 DEF Fresh
<1> QED BY <1>3, <1>4, AddShape

\* What dropping does to the vectors: none, or the empty one at the cursor is removed.
LEMMA DropShape ==
  ASSUME TrackerInv, drop_empty_process_records_vectors
  PROVE  \/ procs' = procs
         \/ /\ cursor.next \in 1 .. Len(procs)
            /\ procs[cursor.next] = <<>>
            /\ procs' \in Seq(Seq(Record))
            /\ Len(procs') = Len(procs) - 1
            /\ \A i \in 1 .. Len(procs) - 1 :
                  procs'[i] = procs[IF i < cursor.next THEN i ELSE i + 1]
<1> DEFINE n == cursor.next
<1>1. CASE procs' = procs
  BY <1>1
<1>2. CASE procs' # procs
  <2>1. /\ procs \in Seq(Seq(Record)) /\ n \in 1 .. Len(procs) /\ procs[n] = <<>>
        /\ procs' = RemoveAt(procs, n)
    BY <1>2 DEF TrackerInv, TypeOK, drop_empty_process_records_vectors
  <2> HIDE DEF n
  <2>2. /\ procs' \in Seq(Seq(Record))
        /\ Len(procs') = Len(procs) - 1
        /\ \A i \in 1 .. Len(procs) - 1 :
              procs'[i] = IF i < n THEN procs[i] ELSE procs[i + 1]
    BY <2>1, RemoveFacts
  <2>3. \A i \in 1 .. Len(procs) - 1 : procs'[i] = procs[IF i < n THEN i ELSE i + 1]
    BY <2>2
  <2> QED BY <2>1, <2>2, <2>3 DEF n
<1> QED BY <1>1, <1>2

\* Every step keeps the records fresh.
LEMMA FreshStep == FreshInv /\ [Next]_vars => FreshInv'
<1> SUFFICES ASSUME FreshInv, [Next]_vars PROVE FreshInv'
  OBVIOUS
<1>1. TrackerInv /\ TrackerInv'
  BY StepInv DEF FreshInv
<1>2. CASE Tick
  <2>1. clock \in Nat /\ taken \in Nat /\ clock' = clock + 1
        /\ UNCHANGED <<procs, taken, sysinfo, pending>>
    BY <1>1, <1>2 DEF Tick, TrackerInv, TypeOK
  <2>2. \A i \in DOMAIN procs : \A j \in DOMAIN procs[i] : procs[i][j].timestamp \in Nat
    <3>1. \A i \in DOMAIN procs : procs[i] \in Seq(Record)
      BY <1>1 DEF TrackerInv, TypeOK
    <3>2. \A i \in DOMAIN procs : \A j \in DOMAIN procs[i] : procs[i][j] \in Record
      BY <3>1
    <3> QED BY <3>2 DEF Record
  <2>3. Fresh => Fresh'
    BY <2>1, <2>2 DEF Fresh
  <2> QED BY <1>1, <1>2, <2>3 DEF FreshInv, Tick
<1>3. CASE SetClockBack
  BY <1>1, <1>3 DEF FreshInv, SetClockBack
<1>4. CASE clean_terminated_process_records_vectors
  <2> DEFINE g == [i \in DOMAIN procs |-> i]
  <2>1. /\ procs' = [i \in DOMAIN procs |-> Emptied(procs[i])]
        /\ UNCHANGED <<clock, taken, sysinfo, pending, setBack>> /\ phase = "clean"
    BY <1>4 DEF clean_terminated_process_records_vectors
  <2>2. \A i \in DOMAIN procs' : procs'[i] = <<>> \/ procs'[i] = procs[g[i]]
    BY <2>1 DEF Emptied
  <2>3. g \in [DOMAIN procs' -> DOMAIN procs]
    BY <2>1
  <2>4. Fresh => Fresh'
    <3> HIDE DEF g
    <3> QED BY <2>1, <2>2, <2>3, FreshSelected
  <2> QED BY <1>1, <2>1, <2>4 DEF FreshInv
<1>5. CASE drop_empty_process_records_vectors
  <2>1. /\ UNCHANGED <<clock, taken, sysinfo, pending, setBack, phase>> /\ phase = "drop"
    BY <1>5 DEF drop_empty_process_records_vectors
  <2>2. CASE procs' = procs
    BY <1>1, <2>1, <2>2 DEF FreshInv, Fresh
  <2>3. CASE procs' # procs
    <3> DEFINE n == cursor.next
               g == [i \in DOMAIN procs' |-> IF i < n THEN i ELSE i + 1]
    <3>1. /\ n \in 1 .. Len(procs) /\ DOMAIN procs = 1 .. Len(procs) /\ Len(procs) \in Nat
          /\ DOMAIN procs' = 1 .. Len(procs) - 1
          /\ \A i \in 1 .. Len(procs) - 1 : procs'[i] = procs[IF i < n THEN i ELSE i + 1]
      BY <1>1, <1>5, <2>3, DropShape, SMTT(30) DEF TrackerInv, TypeOK
    <3>2. g \in [DOMAIN procs' -> DOMAIN procs]
      <4>1. \A i \in 1 .. Len(procs) - 1 : (IF i < n THEN i ELSE i + 1) \in 1 .. Len(procs)
        BY <3>1
      <4> QED BY <3>1, <4>1
    <3>3. \A i \in DOMAIN procs' : procs'[i] = procs[g[i]]
      BY <3>1
    <3>4. Fresh => Fresh'
      <4> HIDE DEF g
      <4> QED BY <2>1, <3>2, <3>3, FreshSelected
    <3> QED BY <1>1, <2>1, <3>4 DEF FreshInv
  <2> QED BY <2>2, <2>3
<1>6. CASE SkipCleaning \/ DropDone
  BY <1>1, <1>6 DEF FreshInv, Fresh, SkipCleaning, DropDone
<1>7. CASE refresh_procs
  <2>1. /\ UNCHANGED <<clock, procs, setBack>> /\ taken' = clock
        /\ pending' = DOMAIN sysinfo' /\ (phase' # "add" => pending' = {})
    BY <1>7 DEF refresh_procs
  <2>2. Fresh => Fresh'
    BY <1>1, <2>1 DEF Fresh, TrackerInv, TypeOK
  <2> QED BY <1>1, <2>1, <2>2 DEF FreshInv
<1>8. ASSUME NEW p \in Pid, add_process_record(p) PROVE FreshInv'
  <2>1. (phase' # "add" => pending' = {}) /\ setBack' = setBack
    BY <1>8 DEF add_process_record
  <2>2. Fresh => Fresh'
    BY <1>1, <1>8, FreshAdd
  <2> QED BY <1>1, <2>1, <2>2 DEF FreshInv
<1>9. CASE UNCHANGED vars
  BY <1>1, <1>9 DEF FreshInv, Fresh, vars
<1> QED
  BY <1>2, <1>3, <1>4, <1>5, <1>6, <1>7, <1>8, <1>9 DEF Next

\* For any pids, executables, schedules and number of records per process: as long as the
\* wall clock is not set back, the record the exporters report of a process is the one of
\* the last snapshot, even when the vector was sorted and popped (utils.rs 394-437).
THEOREM HeadIsCurrentAlways == Spec => []HeadIsCurrent
<1>1. Init => FreshInv
  <2> SUFFICES ASSUME Init PROVE FreshInv
    OBVIOUS
  <2>1. Fresh
    BY DEF Init, Fresh
  <2> QED BY <2>1, InitInv DEF FreshInv, Init
<1>2. FreshInv => HeadIsCurrent
  BY DEF FreshInv, Fresh, HeadIsCurrent
<1> QED BY <1>1, <1>2, FreshStep, PTL DEF Spec

-----------------------------------------------------------------------------
(***************************************************************************)
(* The number of vectors.                                                  *)
(***************************************************************************)

\* The empty vectors below an index, all the empty ones, and the others.
EmptyBelow(k) == {i \in DOMAIN procs : i < k /\ procs[i] = <<>>}
EmptyOnes == {i \in DOMAIN procs : procs[i] = <<>>}
InUse     == {i \in DOMAIN procs : procs[i] # <<>>}

\* Outside the dropping loop fewer vectors are empty than there are pids.  In the loop, at
\* most one empty vector was stepped over for each one removed since its start.
Few ==
  /\ phase # "drop" => Cardinality(EmptyOnes) < Cardinality(Pid)
  /\ phase = "drop" =>
       /\ Len(procs) <= cursor.end + 1
       /\ cursor.end + 1 < 2 * Cardinality(Pid)
       /\ Cardinality(EmptyBelow(cursor.next)) <= cursor.end + 1 - Len(procs)

FewInv == TrackerInv /\ Few

\* How many numbers there are up to n.
LEMMA UpTo == ASSUME NEW n \in Nat PROVE IsFiniteSet(1 .. n) /\ Cardinality(1 .. n) = n
<1>1. 1 \in Int /\ n \in Int
  OBVIOUS
<1>2. IsFiniteSet(1 .. n) /\ Cardinality(1 .. n) = IF 1 > n THEN 0 ELSE n - 1 + 1
  BY <1>1, FS_Interval, Zenon
<1> DEFINE c == Cardinality(1 .. n)
<1>3. c = IF 1 > n THEN 0 ELSE n - 1 + 1
  BY <1>2
<1>4. c = n
  <2> HIDE DEF c
  <2> QED BY <1>3
<1> QED BY <1>2, <1>4

\* The elements of two disjoint sets.
LEMMA Together ==
  ASSUME NEW S, NEW T, IsFiniteSet(S), IsFiniteSet(T), S \cap T = {}
  PROVE  Cardinality(S \cup T) = Cardinality(S) + Cardinality(T)
<1>1. Cardinality(S \cup T) = Cardinality(S) + Cardinality(T) - Cardinality(S \cap T)
  BY FS_Union, Zenon
<1>2. Cardinality(S) \in Nat /\ Cardinality(T) \in Nat /\ Cardinality({}) = 0
  BY FS_CardinalityType, FS_EmptySet
<1> DEFINE a == Cardinality(S)
           b == Cardinality(T)
           c == Cardinality(S \cup T)
<1>3. a \in Nat /\ b \in Nat /\ c = a + b - 0
  BY <1>1, <1>2, Zenon
<1>4. c = a + b
  <2> HIDE DEF a, b, c
  <2> QED BY <1>3
<1> QED BY <1>4

\* The sets of indices are finite.
LEMMA IndexSets ==
  ASSUME TrackerInv
  PROVE  /\ DOMAIN procs = 1 .. Len(procs) /\ Len(procs) \in Nat
         /\ IsFiniteSet(EmptyOnes) /\ Cardinality(EmptyOnes) \in Nat
         /\ Cardinality(EmptyOnes) <= Len(procs)
         /\ \A k : IsFiniteSet(EmptyBelow(k)) /\ Cardinality(EmptyBelow(k)) \in Nat
         /\ Cardinality(Pid) \in Nat /\ Cardinality(Pid) > 1
<1>1. DOMAIN procs = 1 .. Len(procs) /\ Len(procs) \in Nat
  BY DEF TrackerInv, TypeOK
<1>2. IsFiniteSet(1 .. Len(procs)) /\ Cardinality(1 .. Len(procs)) = Len(procs)
  BY <1>1, UpTo, Zenon
<1>3. EmptyOnes \in SUBSET (1 .. Len(procs)) /\ \A k : EmptyBelow(k) \in SUBSET (1 .. Len(procs))
  BY <1>1 DEF EmptyOnes, EmptyBelow
<1>4. IsFiniteSet(EmptyOnes) /\ Cardinality(EmptyOnes) <= Len(procs)
  BY <1>2, <1>3, FS_Subset
<1>5. \A k : IsFiniteSet(EmptyBelow(k))
  BY <1>2, <1>3, FS_Subset
<1> QED BY <1>1, <1>4, <1>5, FS_CardinalityType, ProcessTrackerAssumption

\* Each vector in use has its own pid, so that the empty ones decide.
LEMMA VectorCount ==
  ASSUME TrackerInv PROVE Len(procs) <= Cardinality(EmptyOnes) + Cardinality(Pid)
<1>1. /\ DOMAIN procs = 1 .. Len(procs) /\ Len(procs) \in Nat
      /\ IsFiniteSet(EmptyOnes) /\ Cardinality(EmptyOnes) \in Nat
      /\ Cardinality(Pid) \in Nat
  BY IndexSets
<1>2. IsFiniteSet(InUse) /\ Cardinality(InUse) <= Cardinality(Pid)
  <2> DEFINE f == [i \in InUse |-> procs[i][1].pid]
  <2>1. \A i \in InUse : procs[i][1].pid \in Pid
    <3>1. \A i \in InUse : procs[i] \in Seq(Record) /\ procs[i] # <<>>
      BY DEF InUse, TrackerInv, TypeOK
    <3>2. \A i \in InUse : procs[i][1] \in Record
      BY <3>1
    <3> QED BY <3>2 DEF Record
  <2>2. \A i, j \in InUse : f[i] = f[j] => i = j
    BY <2>1 DEF TrackerInv, UniquePid, VectorsOf, InUse
  <2>3. f \in Injection(InUse, Pid)
    BY <2>1, <2>2 DEF Injection, IsInjective
  <2> HIDE DEF f
  <2> QED BY <2>3, FS_Injection, ProcessTrackerAssumption
<1>3. Cardinality(InUse) \in Nat
  BY <1>2, FS_CardinalityType
<1>4. 1 .. Len(procs) = EmptyOnes \cup InUse /\ EmptyOnes \cap InUse = {}
  BY <1>1 DEF EmptyOnes, InUse
<1>5. Cardinality(EmptyOnes \cup InUse) = Cardinality(EmptyOnes) + Cardinality(InUse)
  BY <1>1, <1>2, <1>4, Together, Zenon
<1>6. Cardinality(1 .. Len(procs)) = Len(procs)
  BY <1>1, UpTo, Zenon
<1> DEFINE a == Cardinality(EmptyOnes)
           b == Cardinality(InUse)
           c == Cardinality(Pid)
           l == Len(procs)
<1>7. l = a + b /\ a \in Nat /\ b \in Nat /\ c \in Nat /\ b <= c
  BY <1>1, <1>2, <1>3, <1>4, <1>5, <1>6, Zenon
<1>8. l <= a + c
  <2> HIDE DEF a, b, c, l
  <2> QED BY <1>7
<1> QED BY <1>8

\* Few bounds the number of vectors.
LEMMA FewBounds == FewInv => VectorsBounded
<1> SUFFICES ASSUME FewInv PROVE VectorsBounded
  OBVIOUS
<1>1. /\ Len(procs) \in Nat /\ Cardinality(EmptyOnes) \in Nat /\ Cardinality(Pid) \in Nat
      /\ Len(procs) <= Cardinality(EmptyOnes) + Cardinality(Pid)
  BY IndexSets, VectorCount DEF FewInv
<1>2. CASE phase # "drop"
  BY <1>1, <1>2 DEF FewInv, Few, VectorsBounded
<1>3. CASE phase = "drop"
  BY <1>1, <1>3 DEF FewInv, Few, VectorsBounded, TrackerInv, TypeOK
<1> QED BY <1>2, <1>3

\* Adding a record leaves the empty vectors alone.
LEMMA AddKeepsEmpty ==
  ASSUME TrackerInv, NEW p \in Pid, add_process_record(p) PROVE EmptyOnes' = EmptyOnes
<1> DEFINE record == RecordOf(p)
<1>1. CASE VectorsOf(p) = {} /\ procs' = Append(procs, <<record>>)
  <2> HIDE DEF record
  <2>1. /\ DOMAIN procs' = DOMAIN procs \cup {Len(procs) + 1}
        /\ procs'[Len(procs) + 1] = <<record>>
        /\ \A i \in DOMAIN procs : procs'[i] = procs[i]
    BY <1>1 DEF TrackerInv, TypeOK
  <2> QED BY <2>1 DEF EmptyOnes
<1>2. ASSUME NEW i \in VectorsOf(p), NEW w \in Seq(Record), PutInFront(p, i, w)
      PROVE  EmptyOnes' = EmptyOnes
  <2>1. i \in DOMAIN procs /\ procs[i] # <<>> /\ w # <<>> /\ procs' = [procs EXCEPT ![i] = w]
    BY <1>2 DEF VectorsOf, PutInFront
  <2>2. /\ DOMAIN procs' = DOMAIN procs
        /\ procs'[i] = w
        /\ \A j \in DOMAIN procs : j # i => procs'[j] = procs[j]
    BY <2>1 DEF TrackerInv, TypeOK
  <2> QED BY <2>1, <2>2 DEF EmptyOnes
<1> QED BY <1>1, <1>2, AddShape

\* The loop of a cleaning starts with the vectors there are.
LEMMA CleanFew ==
  ASSUME FewInv, clean_terminated_process_records_vectors PROVE Few'
<1>1. /\ procs' = [i \in DOMAIN procs |-> Emptied(procs[i])]
      /\ cursor' = [next |-> 1, end |-> IF procs = <<>> THEN 0 ELSE Len(procs) - 1]
      /\ phase' = "drop"
  BY DEF clean_terminated_process_records_vectors
<1>2. DOMAIN procs = 1 .. Len(procs) /\ Len(procs) \in Nat /\ Cardinality(Pid) > 1
      /\ Cardinality(Pid) \in Nat
  BY IndexSets DEF FewInv
<1>3. Len(procs') = Len(procs) /\ DOMAIN procs' = 1 .. Len(procs)
  BY <1>1, <1>2
<1>4. cursor'.next = 1 /\ cursor'.end = IF procs = <<>> THEN 0 ELSE Len(procs) - 1
  BY <1>1
<1>5. EmptyBelow(cursor.next)' = {}
  BY <1>3, <1>4 DEF EmptyBelow
<1>6. Len(procs) < 2 * Cardinality(Pid)
  BY FewBounds DEF VectorsBounded
<1>7. cursor'.end + 1 < 2 * Cardinality(Pid) /\ Len(procs) <= cursor'.end + 1
      /\ cursor'.end \in Nat
  BY <1>2, <1>4, <1>6 DEF FewInv, TrackerInv, TypeOK
<1>8. Cardinality(EmptyBelow(cursor.next)') = 0
  BY <1>5, FS_EmptySet
<1>9. 0 <= cursor'.end + 1 - Len(procs')
  BY <1>2, <1>3, <1>7
<1> QED BY <1>1, <1>3, <1>7, <1>8, <1>9 DEF Few

\* An iteration of the loop steps over an empty vector only when it removes another.
LEMMA DropFew ==
  ASSUME FewInv, drop_empty_process_records_vectors PROVE Few'
<1> DEFINE n == cursor.next
           C == Cardinality(EmptyBelow(n))
<1>1. /\ phase = "drop" /\ phase' = "drop" /\ n <= cursor.end
      /\ cursor'.next = n + 1 /\ cursor'.end = cursor.end
      /\ n \in Nat /\ n > 0 /\ cursor.end \in Nat
  BY DEF drop_empty_process_records_vectors, FewInv, TrackerInv, TypeOK
<1>2. /\ DOMAIN procs = 1 .. Len(procs) /\ Len(procs) \in Nat
      /\ IsFiniteSet(EmptyBelow(n)) /\ C \in Nat /\ Cardinality(Pid) \in Nat
  BY IndexSets DEF FewInv
<1>3. /\ Len(procs) <= cursor.end + 1 /\ cursor.end + 1 < 2 * Cardinality(Pid)
      /\ C <= cursor.end + 1 - Len(procs)
  BY <1>1 DEF FewInv, Few
<1>4. CASE procs' = procs
  <2>1. ~(n <= Len(procs) /\ procs[n] = <<>>)
    <3> SUFFICES ASSUME n <= Len(procs), procs[n] = <<>> PROVE FALSE
      OBVIOUS
    <3>1. procs' = RemoveAt(procs, n) /\ n \in 1 .. Len(procs) /\ procs \in Seq(Seq(Record))
      BY <1>1, <1>2 DEF drop_empty_process_records_vectors, FewInv, TrackerInv, TypeOK
    <3>2. Len(procs') = Len(procs) - 1
      BY <3>1, RemoveFacts
    <3> QED BY <1>2, <1>4, <3>2
  <2>2. EmptyBelow(cursor.next)' = EmptyBelow(n)
    BY <1>1, <1>2, <1>4, <2>1 DEF EmptyBelow
  <2> QED BY <1>1, <1>3, <1>4, <2>2 DEF Few
<1>5. CASE procs' # procs
  <2>1. /\ n \in 1 .. Len(procs)
        /\ Len(procs') = Len(procs) - 1 /\ DOMAIN procs' = 1 .. Len(procs) - 1
        /\ \A i \in 1 .. Len(procs) - 1 : procs'[i] = procs[IF i < n THEN i ELSE i + 1]
    <3>1. /\ n \in 1 .. Len(procs) /\ procs' \in Seq(Seq(Record)) /\ Len(procs') = Len(procs) - 1
          /\ \A i \in 1 .. Len(procs) - 1 : procs'[i] = procs[IF i < n THEN i ELSE i + 1]
      BY <1>5, DropShape, Zenon DEF FewInv
    <3>2. DOMAIN procs' = 1 .. Len(procs')
      BY <3>1
    <3> QED BY <3>1, <3>2
  <2>2. EmptyBelow(cursor.next)' \subseteq EmptyBelow(n) \cup {n}
    <3> SUFFICES ASSUME NEW i \in 1 .. Len(procs) - 1, i < n + 1, procs'[i] = <<>>, i # n
                 PROVE  i \in EmptyBelow(n)
      BY <1>1, <2>1 DEF EmptyBelow
    <3>1. i < n /\ i \in 1 .. Len(procs)
      BY <1>2, <2>1
    <3>2. procs[i] = <<>>
      BY <2>1, <3>1
    <3> QED BY <1>2, <3>1, <3>2 DEF EmptyBelow
  <2>3. /\ IsFiniteSet(EmptyBelow(n) \cup {n})
        /\ Cardinality(EmptyBelow(n) \cup {n}) <= C + 1
        /\ Cardinality(EmptyBelow(n) \cup {n}) \in Nat
    <3> DEFINE S == EmptyBelow(n)
               T == S \cup {n}
    <3>1. /\ IsFiniteSet(S) /\ IsFiniteSet(T)
          /\ Cardinality(T) = IF n \in S THEN Cardinality(S) ELSE Cardinality(S) + 1
      <4> HIDE DEF S, n
      <4>1. IsFiniteSet(S)
        BY <1>2 DEF S
      <4> QED BY <4>1, FS_AddElement
    <3>2. Cardinality(S) \in Nat
      BY <3>1, FS_CardinalityType
    <3> HIDE DEF S, n
    <3> QED BY <3>1, <3>2 DEF S
  <2>4. Cardinality(EmptyBelow(cursor.next)') \in Nat
        /\ Cardinality(EmptyBelow(cursor.next)') <= C + 1
    <3> DEFINE A == EmptyBelow(cursor.next)'
               B == EmptyBelow(n) \cup {n}
    <3>1. IsFiniteSet(A) /\ Cardinality(A) <= Cardinality(B)
      <4> HIDE DEF A, B
      <4> QED BY <2>2, <2>3, FS_Subset DEF A, B
    <3>2. Cardinality(A) \in Nat
      BY <3>1, FS_CardinalityType
    <3> HIDE DEF A, C
    <3> QED BY <1>2, <2>3, <3>1, <3>2 DEF A
  <2>5. /\ Len(procs') <= cursor'.end + 1
        /\ Cardinality(EmptyBelow(cursor.next)') <= cursor'.end + 1 - Len(procs')
    <3> HIDE DEF C, n
    <3> QED BY <1>1, <1>2, <1>3, <2>1, <2>4, SMTT(30)
  <2> QED BY <1>1, <1>3, <2>5 DEF Few
<1> QED BY <1>4, <1>5

\* At the end of the loop, at most half of the vectors it started with are left empty.
LEMMA DoneFew ==
  ASSUME FewInv, DropDone PROVE Few'
<1> DEFINE n == cursor.next
           E == Cardinality(EmptyOnes)
<1>1. /\ phase = "drop" /\ phase' # "drop" /\ n > cursor.end /\ procs' = procs
      /\ n \in Nat /\ cursor.end \in Nat
  BY DEF DropDone, FewInv, TrackerInv, TypeOK
<1>2. /\ DOMAIN procs = 1 .. Len(procs) /\ Len(procs) \in Nat
      /\ E \in Nat /\ E <= Len(procs) /\ IsFiniteSet(EmptyOnes)
      /\ IsFiniteSet(EmptyBelow(n)) /\ Cardinality(EmptyBelow(n)) \in Nat
      /\ Cardinality(Pid) \in Nat /\ Cardinality(Pid) > 1
  BY IndexSets DEF FewInv
<1>3. /\ Len(procs) <= cursor.end + 1 /\ cursor.end + 1 < 2 * Cardinality(Pid)
      /\ Cardinality(EmptyBelow(n)) <= cursor.end + 1 - Len(procs)
  BY <1>1 DEF FewInv, Few
<1>4. E < Cardinality(Pid)
  <2>1. CASE Len(procs) <= cursor.end
    <3>1. EmptyOnes = EmptyBelow(n)
      BY <1>1, <1>2, <2>1 DEF EmptyOnes, EmptyBelow
    <3> QED BY <1>1, <1>2, <1>3, <3>1
  <2>2. CASE ~(Len(procs) <= cursor.end)
    <3>1. Len(procs) = cursor.end + 1 /\ Cardinality(EmptyBelow(n)) = 0
      BY <1>1, <1>2, <1>3, <2>2
    <3>2. EmptyBelow(n) = {}
      BY <1>2, <3>1, FS_EmptySet
    <3>3. EmptyOnes \subseteq {Len(procs)}
      BY <1>1, <1>2, <3>1, <3>2 DEF EmptyOnes, EmptyBelow
    <3>4. E <= 1
      <4>1. IsFiniteSet({Len(procs)}) /\ Cardinality({Len(procs)}) = 1
        BY FS_Singleton
      <4>2. EmptyOnes \in SUBSET {Len(procs)}
        BY <3>3
      <4>3. Cardinality(EmptyOnes) <= Cardinality({Len(procs)})
        BY <4>1, <4>2, FS_Subset, Zenon
      <4> QED BY <4>1, <4>3, Zenon
    <3> QED BY <1>2, <3>4
  <2> QED BY <2>1, <2>2
<1> QED BY <1>1, <1>4 DEF Few, EmptyOnes

\* Every step keeps few vectors empty.
LEMMA FewStep == FewInv /\ [Next]_vars => FewInv'
<1> SUFFICES ASSUME FewInv, [Next]_vars PROVE FewInv'
  OBVIOUS
<1>1. TrackerInv /\ TrackerInv'
  BY StepInv DEF FewInv
<1>2. CASE UNCHANGED <<procs, cursor, phase>>
  BY <1>1, <1>2 DEF FewInv, Few, EmptyOnes, EmptyBelow
<1>3. CASE clean_terminated_process_records_vectors
  BY <1>1, <1>3, CleanFew DEF FewInv
<1>4. CASE drop_empty_process_records_vectors
  BY <1>1, <1>4, DropFew DEF FewInv
<1>5. CASE DropDone
  BY <1>1, <1>5, DoneFew DEF FewInv
<1>6. CASE SkipCleaning \/ refresh_procs
  BY <1>1, <1>6 DEF FewInv, Few, EmptyOnes, SkipCleaning, refresh_procs
<1>7. ASSUME NEW p \in Pid, add_process_record(p) PROVE FewInv'
  <2>1. phase = "add" /\ phase' # "drop"
    BY <1>7 DEF add_process_record
  <2>2. EmptyOnes' = EmptyOnes
    BY <1>1, <1>7, AddKeepsEmpty
  <2> QED BY <1>1, <2>1, <2>2 DEF FewInv, Few
<1> QED
  BY <1>2, <1>3, <1>4, <1>5, <1>6, <1>7 DEF Next, Tick, SetClockBack, vars

\* For any set of at least two pids, whatever processes start, stop, end and reuse pids:
\* although the dropping loop steps over vectors, there are always fewer vectors than
\* twice the number of pids (utils.rs 366-392, 835-883).
THEOREM VectorsBoundedAlways == Spec => []VectorsBounded
<1>1. Init => FewInv
  <2> SUFFICES ASSUME Init PROVE FewInv
    OBVIOUS
  <2>1. EmptyOnes = {}
    BY DEF Init, EmptyOnes
  <2>2. Cardinality(EmptyOnes) = 0
    BY <2>1, FS_EmptySet
  <2>3. TrackerInv /\ phase # "drop"
    BY InitInv DEF Init
  <2>4. 0 < Cardinality(Pid)
    BY <2>3, IndexSets
  <2> QED BY <2>2, <2>3, <2>4 DEF FewInv, Few
<1> QED BY <1>1, FewStep, FewBounds, PTL DEF Spec

-----------------------------------------------------------------------------
(***************************************************************************)
(* TopConsumers: the lists of processes.                                   *)
(***************************************************************************)

\* The n steps F stay in the set V, which b is in.
Stays(n, V, b, F) == n \in Nat /\ b \in V /\ \A i \in 1 .. n : \A x \in V : F[i][x] \in V

\* The values g are those of the n steps F from b.
Iterates(g, n, V, b, F) ==
  g \in [0 .. n -> V] /\ g[0] = b /\ \A i \in 1 .. n : g[i] = F[i][g[i - 1]]

\* Values that are computed from each to the next, starting with b, exist.
LEMMA IterationExists ==
  ASSUME NEW n, NEW V, NEW b, NEW F, Stays(n, V, b, F)
  PROVE  \E g : Iterates(g, n, V, b, F)
<1>0. n \in Nat /\ b \in V /\ \A i \in 1 .. n : \A x \in V : F[i][x] \in V
  BY DEF Stays
<1> DEFINE Up(g, m) == g \in [0 .. m -> V] /\ g[0] = b /\ \A i \in 1 .. m : g[i] = F[i][g[i - 1]]
           N == {m \in Nat : m <= n => \E g : Up(g, m)}
<1>1. 0 \in N
  <2>1. Up([i \in 0 .. 0 |-> b], 0)
    BY <1>0
  <2> HIDE DEF Up
  <2> QED BY <2>1
<1>2. \A m \in Nat : m \in N => m + 1 \in N
  <2> SUFFICES ASSUME NEW m \in Nat, m \in N, m + 1 <= n PROVE \E g : Up(g, m + 1)
    BY <1>0
  <2>1. PICK g : Up(g, m)
    <3> HIDE DEF Up
    <3> QED BY <1>0
  <2> DEFINE h == [i \in 0 .. m + 1 |-> IF i = m + 1 THEN F[m + 1][g[m]] ELSE g[i]]
  <2>2. g[m] \in V /\ m + 1 \in 1 .. n
    BY <1>0, <2>1
  <2>3. F[m + 1][g[m]] \in V
    BY <1>0, <2>2
  <2>4. h \in [0 .. m + 1 -> V] /\ h[0] = b
    BY <2>1, <2>3
  <2>5. \A i \in 1 .. m + 1 : h[i] = F[i][h[i - 1]]
    <3> SUFFICES ASSUME NEW i \in 1 .. m + 1 PROVE h[i] = F[i][h[i - 1]]
      OBVIOUS
    <3>1. CASE i = m + 1
      BY <3>1
    <3>2. CASE i # m + 1
      <4>1. i \in 1 .. m /\ i - 1 \in 0 .. m
        BY <3>2
      <4>2. h[i] = g[i] /\ h[i - 1] = g[i - 1]
        BY <4>1
      <4> QED BY <2>1, <4>1, <4>2
    <3> QED BY <3>1, <3>2
  <2>6. Up(h, m + 1)
    BY <2>4, <2>5
  <2> HIDE DEF Up, h
  <2> QED BY <2>6
<1>3. n \in N
  <2> HIDE DEF N
  <2> QED BY <1>0, <1>1, <1>2, NumberInduction
<1>4. \E g : Up(g, n)
  <2> HIDE DEF Up
  <2> QED BY <1>0, <1>3
<1> QED BY <1>4 DEF Iterates

\* A set of numbers up to n has a greatest one.
LEMMA MaxFacts ==
  ASSUME NEW n \in Nat, NEW D \in SUBSET (0 .. n), D # {}
  PROVE  Max(D) \in D /\ \A y \in D : y <= Max(D)
<1> DEFINE N == {m \in Nat : \A E \in SUBSET (0 .. m) : E # {} => \E x \in E : \A y \in E : x >= y}
<1>1. 0 \in N
  <2>1. ASSUME NEW E \in SUBSET (0 .. 0), E # {} PROVE \E x \in E : \A y \in E : x >= y
    <3>1. \A y \in E : y = 0
      OBVIOUS
    <3>2. PICK x \in E : x = 0
      BY <2>1, <3>1
    <3>3. \A y \in E : x >= y
      BY <3>1, <3>2
    <3> QED BY <3>2, <3>3
  <2> QED BY <2>1
<1>2. \A m \in Nat : m \in N => m + 1 \in N
  <2> SUFFICES ASSUME NEW m \in Nat, m \in N, NEW E \in SUBSET (0 .. m + 1), E # {}
               PROVE  \E x \in E : \A y \in E : x >= y
    OBVIOUS
  <2>1. CASE m + 1 \in E
    <3>1. \A y \in E : m + 1 >= y
      OBVIOUS
    <3> QED BY <2>1, <3>1
  <2>2. CASE m + 1 \notin E
    <3>1. E \in SUBSET (0 .. m)
      BY <2>2
    <3> QED BY <3>1
  <2> QED BY <2>1, <2>2
<1>3. n \in N
  <2> HIDE DEF N
  <2> QED BY <1>1, <1>2, NumberInduction
<1>4. \E x \in D : \A y \in D : x >= y
  BY <1>3
<1>5. Max(D) \in D /\ \A y \in D : Max(D) >= y
  BY <1>4, Zenon DEF Max
<1> QED BY <1>5

\* Element i of s with e behind the first k.
Place(s, e, k, i) == IF i <= k THEN s[i] ELSE IF i = k + 1 THEN e ELSE s[i - 1]

\* What is at which place after an insertion.
LEMMA InsertAtFacts ==
  ASSUME NEW S, NEW s \in Seq(S), NEW e \in S, NEW k \in 0 .. Len(s)
  PROVE  /\ InsertAt(s, 1 + k, e) \in Seq(S)
         /\ Len(InsertAt(s, 1 + k, e)) = Len(s) + 1
         /\ \A i \in 1 .. Len(s) + 1 : InsertAt(s, 1 + k, e)[i] = Place(s, e, k, i)
<1> DEFINE a == SubSeq(s, 1, (1 + k) - 1)
           b == SubSeq(s, 1 + k, Len(s))
           c == a \o <<e>>
<1>1. Len(s) \in Nat /\ (1 + k) - 1 = k /\ \A i \in 1 .. Len(s) : s[i] \in S
  OBVIOUS
<1>2. a \in Seq(S) /\ Len(a) = k /\ \A i \in 1 .. k : a[i] = s[i]
  BY <1>1, SubSeqProperties
<1>3. b \in Seq(S) /\ Len(b) = Len(s) - k /\ \A i \in 1 .. Len(s) - k : b[i] = s[k + i]
  BY <1>1, SubSeqProperties
<1>4. <<e>> \in Seq(S) /\ Len(<<e>>) = 1 /\ <<e>>[1] = e
  OBVIOUS
<1>5. InsertAt(s, 1 + k, e) = c \o b
  BY DEF InsertAt
<1> HIDE DEF a, b
<1>6. /\ c \in Seq(S) /\ Len(c) = k + 1
      /\ \A i \in 1 .. k + 1 : c[i] = IF i <= k THEN a[i] ELSE <<e>>[i - k]
  BY <1>1, <1>2, <1>4, ConcatProperties
<1> HIDE DEF c
<1> DEFINE t == c \o b
<1>7. /\ t \in Seq(S) /\ Len(t) = Len(s) + 1
      /\ \A i \in 1 .. Len(s) + 1 : t[i] = IF i <= k + 1 THEN c[i] ELSE b[i - (k + 1)]
  BY <1>1, <1>3, <1>6, ConcatProperties
<1> HIDE DEF t
<1>8. ASSUME NEW i \in 1 .. Len(s) + 1
      PROVE  t[i] = IF i <= k THEN s[i] ELSE IF i = k + 1 THEN e ELSE s[i - 1]
  <2>1. CASE i <= k
    BY <1>1, <1>2, <1>6, <1>7, <2>1
  <2>2. CASE i = k + 1
    <3>0. i \in 1 .. k + 1 /\ ~(i <= k) /\ i - k = 1
      BY <1>1, <2>2
    <3>1. c[i] = <<e>>[1]
      <4>1. c[i] = IF i <= k THEN a[i] ELSE <<e>>[i - k]
        BY <1>6, <3>0, Zenon
      <4> QED BY <3>0, <4>1, Zenon
    <3> QED BY <1>1, <1>4, <1>7, <2>2, <3>1
  <2>3. CASE i > k + 1
    <3> DEFINE j == i - (k + 1)
    <3>1. j \in 1 .. Len(s) - k /\ k + j = i - 1 /\ ~(i <= k) /\ ~(i <= k + 1) /\ i # k + 1
      BY <1>1, <2>3
    <3>2. t[i] = b[j]
      BY <1>7, <3>1
    <3> HIDE DEF j
    <3>3. b[j] = s[i - 1]
      BY <1>3, <3>1
    <3> QED BY <3>1, <3>2, <3>3
  <2> QED BY <1>1, <2>1, <2>2, <2>3
<1>9. InsertAt(s, 1 + k, e) = t
  BY <1>5 DEF t
<1> QED BY <1>7, <1>8, <1>9 DEF Place

\* The usages of a list fall.
Falling(s, d) == \A i, j \in DOMAIN s : i < j => d[s[i]] >= d[s[j]]

\* Where a process is inserted.
LEMMA InsertedPlace ==
  ASSUME NEW s \in Seq(Pid), NEW p \in Pid, NEW d \in [Pid -> Nat]
  PROVE  /\ Inserted(s, p, d) \in Seq(Pid) /\ Len(Inserted(s, p, d)) = Len(s) + 1
         /\ \E k \in 0 .. Len(s) :
              /\ k > 0 => d[s[k]] >= d[p]
              /\ \A i \in 1 .. Len(s) : d[s[i]] >= d[p] => i <= k
              /\ \A i \in 1 .. Len(s) + 1 : Inserted(s, p, d)[i] = Place(s, p, k, i)
<1> DEFINE D == {0} \cup {i \in DOMAIN s : d[s[i]] >= d[p]}
           k == Max(D)
<1>1. Len(s) \in Nat /\ DOMAIN s = 1 .. Len(s)
  OBVIOUS
<1>2. D \in SUBSET (0 .. Len(s)) /\ D # {}
  BY <1>1
<1>3. k \in D /\ \A y \in D : y <= k
  <2> HIDE DEF D
  <2> QED BY <1>1, <1>2, MaxFacts
<1>4. Inserted(s, p, d) = InsertAt(s, 1 + k, p)
  BY DEF Inserted
<1>5. k \in 0 .. Len(s)
  <2> HIDE DEF D, k
  <2> QED BY <1>2, <1>3
<1>6. k > 0 => d[s[k]] >= d[p]
  <2> HIDE DEF k
  <2> QED BY <1>3
<1>7. \A i \in 1 .. Len(s) : d[s[i]] >= d[p] => i <= k
  <2> HIDE DEF k
  <2> QED BY <1>1, <1>3
<1> HIDE DEF k, D
<1>8. /\ InsertAt(s, 1 + k, p) \in Seq(Pid) /\ Len(InsertAt(s, 1 + k, p)) = Len(s) + 1
      /\ \A i \in 1 .. Len(s) + 1 : InsertAt(s, 1 + k, p)[i] = Place(s, p, k, i)
  BY <1>5, InsertAtFacts, Zenon
<1> QED BY <1>4, <1>5, <1>6, <1>7, <1>8, Zenon

\* An insertion adds one process, once, and keeps the order.
LEMMA InsertedFacts ==
  ASSUME NEW s \in Seq(Pid), NEW p \in Pid, NEW d \in [Pid -> Nat], NEW t, t = Inserted(s, p, d)
  PROVE  /\ t \in Seq(Pid) /\ Len(t) = Len(s) + 1
         /\ ToSet(t) = ToSet(s) \cup {p}
         /\ IsInjective(s) /\ p \notin ToSet(s) => IsInjective(t)
         /\ Falling(s, d) => Falling(t, d)
<1>1. t \in Seq(Pid) /\ Len(t) = Len(s) + 1
  BY InsertedPlace, Zenon
<1>2. PICK k \in 0 .. Len(s) :
              /\ k > 0 => d[s[k]] >= d[p]
              /\ \A i \in 1 .. Len(s) : d[s[i]] >= d[p] => i <= k
              /\ \A i \in 1 .. Len(s) + 1 : t[i] = Place(s, p, k, i)
  BY InsertedPlace, Zenon
<1>3. /\ Len(s) \in Nat /\ DOMAIN s = 1 .. Len(s) /\ DOMAIN t = 1 .. Len(s) + 1
      /\ \A i \in 1 .. Len(s) : s[i] \in Pid
  BY <1>1
<1>4. \A i \in 1 .. Len(s) + 1 :
        /\ i <= k => i \in 1 .. Len(s) /\ t[i] = s[i]
        /\ i = k + 1 => t[i] = p
        /\ i > k + 1 => i - 1 \in 1 .. Len(s) /\ t[i] = s[i - 1]
  BY <1>2, <1>3 DEF Place
<1>5. \A i \in 1 .. Len(s) + 1 : i <= k \/ i = k + 1 \/ i > k + 1
  BY <1>3
<1>6. ToSet(t) = ToSet(s) \cup {p}
  <2>1. ASSUME NEW i \in DOMAIN t PROVE t[i] \in ToSet(s) \cup {p}
    BY <1>3, <1>4, <1>5 DEF ToSet
  <2>2. p \in ToSet(t)
    <3>1. k + 1 \in DOMAIN t /\ t[k + 1] = p
      BY <1>3, <1>4
    <3> QED BY <3>1 DEF ToSet
  <2>3. ASSUME NEW j \in DOMAIN s PROVE s[j] \in ToSet(t)
    <3>1. CASE j <= k
      <4>1. j \in DOMAIN t /\ t[j] = s[j]
        BY <1>3, <1>4, <3>1
      <4> QED BY <4>1 DEF ToSet
    <3>2. CASE j > k
      <4>1. j + 1 \in DOMAIN t /\ j + 1 > k + 1 /\ (j + 1) - 1 = j
        BY <1>3, <3>2
      <4>2. t[j + 1] = s[j]
        BY <1>3, <1>4, <4>1
      <4> QED BY <4>1, <4>2 DEF ToSet
    <3> QED BY <1>3, <3>1, <3>2
  <2> QED BY <2>1, <2>2, <2>3 DEF ToSet
<1>7. ASSUME IsInjective(s), p \notin ToSet(s) PROVE IsInjective(t)
  <2> SUFFICES ASSUME NEW i \in DOMAIN t, NEW j \in DOMAIN t, t[i] = t[j] PROVE i = j
    BY DEF IsInjective
  <2>1. \A m \in 1 .. Len(s) : s[m] # p
    BY <1>3, <1>7 DEF ToSet
  <2>2. \A m, n \in 1 .. Len(s) : s[m] = s[n] => m = n
    BY <1>3, <1>7 DEF IsInjective
  <2>3. CASE i = k + 1 \/ j = k + 1
    BY <1>3, <1>4, <1>5, <2>1, <2>3
  <2>4. CASE i <= k /\ j <= k
    BY <1>3, <1>4, <2>2, <2>4
  <2>5. CASE i > k + 1 /\ j > k + 1
    <3>0. i - 1 \in 1 .. Len(s) /\ j - 1 \in 1 .. Len(s) /\ t[i] = s[i - 1] /\ t[j] = s[j - 1]
      BY <1>3, <1>4, <2>5
    <3>1. i - 1 = j - 1
      BY <2>2, <3>0, Zenon
    <3> QED BY <1>3, <3>1
  <2>6. CASE i <= k /\ j > k + 1
    <3>1. i = j - 1
      BY <1>3, <1>4, <2>2, <2>6
    <3> QED BY <1>3, <2>6, <3>1
  <2>7. CASE i > k + 1 /\ j <= k
    <3>1. i - 1 = j
      BY <1>3, <1>4, <2>2, <2>7
    <3> QED BY <1>3, <2>7, <3>1
  <2> QED BY <1>3, <1>5, <2>3, <2>4, <2>5, <2>6, <2>7
<1>8. ASSUME Falling(s, d) PROVE Falling(t, d)
  <2> DEFINE e == [i \in 1 .. Len(s) |-> d[s[i]]]
  <2>1. \A i \in 1 .. Len(s) : e[i] \in Nat /\ e[i] = d[s[i]]
    BY <1>3
  <2>2. \A i, j \in 1 .. Len(s) : i < j => e[i] >= e[j]
    BY <1>3, <1>8 DEF Falling
  <2> HIDE DEF e
  <2>3. \A i \in 1 .. Len(s) : (i <= k => e[i] >= d[p]) /\ (i > k => e[i] < d[p])
    <3>1. d[p] \in Nat
      OBVIOUS
    <3>2. k > 0 => k \in 1 .. Len(s) /\ e[k] >= d[p]
      BY <1>2, <1>3, <2>1
    <3>3. ASSUME NEW i \in 1 .. Len(s), i <= k PROVE e[i] >= d[p]
      <4>1. e[i] >= e[k]
        BY <1>3, <2>1, <2>2, <3>2, <3>3
      <4> QED BY <1>3, <2>1, <3>1, <3>2, <3>3, <4>1
    <3>4. ASSUME NEW i \in 1 .. Len(s), i > k PROVE e[i] < d[p]
      BY <1>2, <1>3, <2>1, <3>1, <3>4
    <3> QED BY <3>3, <3>4
  <2>4. \A i \in 1 .. Len(s) + 1 :
          /\ i <= k => d[t[i]] = e[i]
          /\ i = k + 1 => d[t[i]] = d[p]
          /\ i > k + 1 => d[t[i]] = e[i - 1]
    <3> SUFFICES ASSUME NEW i \in 1 .. Len(s) + 1
                 PROVE  /\ i <= k => d[t[i]] = e[i]
                        /\ i = k + 1 => d[t[i]] = d[p]
                        /\ i > k + 1 => d[t[i]] = e[i - 1]
      BY Zenon
    <3>1. (i <= k => i \in 1 .. Len(s)) /\ (i > k + 1 => i - 1 \in 1 .. Len(s))
      BY <1>3
    <3> QED BY <1>4, <2>1, <3>1, Zenon
  <2> SUFFICES ASSUME NEW i \in 1 .. Len(s) + 1, NEW j \in 1 .. Len(s) + 1, i < j
               PROVE  d[t[i]] >= d[t[j]]
    BY <1>3 DEF Falling
  <2>5. d[p] \in Nat
    OBVIOUS
  <2>6. CASE j <= k
    <3>1. i \in 1 .. Len(s) /\ j \in 1 .. Len(s) /\ d[t[i]] = e[i] /\ d[t[j]] = e[j]
      BY <1>3, <2>4, <2>6
    <3> QED BY <2>2, <3>1
  <2>7. CASE j = k + 1
    <3>1. i \in 1 .. Len(s) /\ i <= k
      BY <1>3, <2>7
    <3>2. d[t[i]] = e[i] /\ d[t[j]] = d[p] /\ e[i] >= d[p]
      BY <2>3, <2>4, <2>7, <3>1, Zenon
    <3> QED BY <3>2
  <2>8. CASE j > k + 1
    <3>1. j - 1 \in 1 .. Len(s) /\ j - 1 > k /\ d[t[j]] = e[j - 1]
      BY <1>3, <2>4, <2>8
    <3>2. CASE i <= k
      <4>1. i \in 1 .. Len(s) /\ i < j - 1 /\ d[t[i]] = e[i]
        BY <1>3, <2>4, <3>1, <3>2
      <4> QED BY <2>2, <3>1, <4>1
    <3>3. CASE i = k + 1
      <4>1. e[j - 1] < d[p] /\ d[t[i]] = d[p] /\ e[j - 1] \in Nat
        BY <2>1, <2>3, <2>4, <3>1, <3>3
      <4> QED BY <2>5, <3>1, <4>1
    <3>4. CASE i > k + 1
      <4>1. i - 1 \in 1 .. Len(s) /\ i - 1 < j - 1 /\ d[t[i]] = e[i - 1]
        BY <1>3, <2>4, <3>4
      <4> QED BY <2>2, <3>1, <4>1
    <3> QED BY <1>5, <3>2, <3>3, <3>4
  <2> QED BY <1>5, <2>6, <2>7, <2>8
<1> QED BY <1>1, <1>6, <1>7, <1>8

\* What is known of the list s when the processes H have been considered, with the usages d
\* that the list is sorted by and the usages C that the listed ones are compared by.
Good(s, H, d, C) ==
  /\ s \in Seq(Pid) /\ IsFiniteSet(H)
  /\ ToSet(s) \subseteq H /\ IsInjective(s) /\ Falling(s, d)
  /\ Cardinality(H) <= top => ToSet(s) = H /\ Len(s) = Cardinality(H)
  /\ Cardinality(H) > top => Len(s) = top
  /\ \A q \in H \ ToSet(s), x \in ToSet(s) : d[q] <= C[x]

\* The listed processes whose usage is higher.
Higher(s, d, C, p) == {i \in DOMAIN s : C[s[i]] > d[p]}

\* The list r is the first m of list t.
Begins(r, t, m) ==
  /\ r \in Seq(Pid) /\ Len(r) = m /\ DOMAIN r = 1 .. m
  /\ \A i \in 1 .. m : i \in DOMAIN t /\ r[i] = t[i]

\* The beginning of a list.
LEMMA PrefixFacts ==
  ASSUME NEW t \in Seq(Pid), NEW m \in 0 .. Len(t) PROVE Begins(SubSeq(t, 1, m), t, m)
<1> DEFINE r == SubSeq(t, 1, m)
<1>1. Len(t) \in Nat /\ DOMAIN t = 1 .. Len(t) /\ \A i \in 1 .. Len(t) : t[i] \in Pid
  OBVIOUS
<1>2. r \in Seq(Pid) /\ Len(r) = m /\ \A i \in 1 .. m : r[i] = t[i]
  BY <1>1, SubSeqProperties
<1> HIDE DEF r
<1>3. DOMAIN r = 1 .. m
  BY <1>2
<1>4. Begins(r, t, m)
  BY <1>1, <1>2, <1>3 DEF Begins
<1> QED BY <1>4 DEF r

\* List r has processes of t, each once and in the order of t.
Kept(r, t, d) == ToSet(r) \subseteq ToSet(t) /\ IsInjective(r) /\ Falling(r, d)

\* It keeps what is known of the list.
LEMMA PrefixKeeps ==
  ASSUME NEW t, NEW r, NEW m, Begins(r, t, m), NEW d, IsInjective(t), Falling(t, d)
  PROVE  Kept(r, t, d)
<1>0. DOMAIN r \subseteq DOMAIN t /\ \A i \in DOMAIN r : r[i] = t[i]
  BY DEF Begins
<1>1. ToSet(r) \subseteq ToSet(t)
  BY <1>0 DEF ToSet
<1>2. IsInjective(r)
  BY <1>0 DEF IsInjective
<1>3. ASSUME NEW i \in DOMAIN r, NEW j \in DOMAIN r, i < j PROVE d[r[i]] >= d[r[j]]
  <2>1. d[t[i]] >= d[t[j]]
    BY <1>0, <1>3, Zenon DEF Falling
  <2> QED BY <1>0, <2>1, Zenon
<1>4. Falling(r, d)
  BY <1>3, Zenon DEF Falling
<1> QED BY <1>1, <1>2, <1>4, Zenon DEF Kept

\* Fewer than all, or all, of the listed processes have a higher usage.
LEMMA HigherFacts ==
  ASSUME NEW s \in Seq(Pid), NEW d, NEW C, NEW p
  PROVE  /\ Cardinality(Higher(s, d, C, p)) \in Nat
         /\ Cardinality(Higher(s, d, C, p)) <= Len(s)
         /\ Cardinality(Higher(s, d, C, p)) = Len(s) <=> Higher(s, d, C, p) = DOMAIN s
<1>1. Len(s) \in Nat /\ DOMAIN s = 1 .. Len(s)
  OBVIOUS
<1>2. IsFiniteSet(DOMAIN s) /\ Cardinality(DOMAIN s) = Len(s)
  BY <1>1, UpTo
<1>3. Higher(s, d, C, p) \subseteq DOMAIN s
  BY DEF Higher
<1>4. IsFiniteSet(Higher(s, d, C, p)) /\ Cardinality(Higher(s, d, C, p)) <= Cardinality(DOMAIN s)
  BY <1>2, <1>3, FS_Subset
<1>5. Cardinality(Higher(s, d, C, p)) = Cardinality(DOMAIN s) => Higher(s, d, C, p) = DOMAIN s
  BY <1>2, <1>3, FS_Subset
<1> QED BY <1>2, <1>4, <1>5, FS_CardinalityType

\* One process more is considered.
LEMMA ListStep ==
  ASSUME NEW d \in [Pid -> Nat], NEW C \in [Pid -> Nat], \A x \in Pid : d[x] <= C[x],
         NEW H \in SUBSET Pid, NEW p \in Pid, p \notin H, NEW s, Good(s, H, d, C), NEW r,
         LET t == Inserted(s, p, d)
         IN  r = IF Cardinality(Higher(s, d, C, p)) < top
                 THEN SubSeq(t, 1, IF Len(t) > top THEN Len(t) - 1 ELSE Len(t)) ELSE s
  PROVE  Good(r, H \cup {p}, d, C)
<1> DEFINE t == Inserted(s, p, d)
           n == Len(s)
           c == Cardinality(H)
           G == H \cup {p}
           h == Cardinality(Higher(s, d, C, p))
           m == IF Len(t) > top THEN Len(t) - 1 ELSE Len(t)
<1>1. /\ s \in Seq(Pid) /\ n \in Nat /\ DOMAIN s = 1 .. n /\ top \in Nat
      /\ IsFiniteSet(H) /\ c \in Nat
  BY TopConsumersAssumption, FS_CardinalityType DEF Good
<1>2. IsFiniteSet(G) /\ Cardinality(G) = c + 1
  BY <1>1, FS_AddElement
<1>3. n <= top /\ (n < top => n = c /\ ToSet(s) = H) /\ (n = top => c >= top)
  <2>1. (c <= top => ToSet(s) = H /\ n = c) /\ (c > top => n = top)
    BY Zenon DEF Good
  <2> HIDE DEF c, n
  <2> QED BY <1>1, <2>1
<1>4. h \in Nat /\ h <= n /\ (h = n <=> Higher(s, d, C, p) = DOMAIN s)
  BY <1>1, HigherFacts
<1>5. /\ ToSet(s) \subseteq H /\ IsInjective(s) /\ Falling(s, d)
      /\ \A q \in H \ ToSet(s), x \in ToSet(s) : d[q] <= C[x]
  BY DEF Good
<1>6. /\ t \in Seq(Pid) /\ Len(t) = n + 1 /\ ToSet(t) = ToSet(s) \cup {p}
      /\ IsInjective(t) /\ Falling(t, d)
  <2>1. p \notin ToSet(s)
    BY <1>5
  <2> QED BY <1>1, <1>5, <2>1, InsertedFacts
<1>7. /\ r = IF h < top THEN SubSeq(t, 1, m) ELSE s
      /\ m = IF n + 1 > top THEN n ELSE n + 1
  <2>1. r = IF h < top THEN SubSeq(t, 1, m) ELSE s
    BY Zenon
  <2>2. m = IF n + 1 > top THEN n ELSE n + 1
    <3> DEFINE l == Len(t)
    <3>1. l = n + 1 /\ m = IF l > top THEN l - 1 ELSE l
      BY <1>6
    <3> HIDE DEF l, m, n
    <3> QED BY <1>1, <3>1
  <2> QED BY <2>1, <2>2
<1>8. \A x \in ToSet(s) \cup {p} : x \in Pid
  BY <1>5
<1> HIDE DEF t, n, c, G, h, m
<1>9. CASE ~(h < top)
  <2>1. r = s /\ n = top /\ h = n
    BY <1>1, <1>3, <1>4, <1>7, <1>9
  <2>2. \A x \in ToSet(s) : C[x] > d[p]
    BY <1>4, <2>1 DEF Higher, ToSet
  <2>3. \A q \in G \ ToSet(s), x \in ToSet(s) : d[q] <= C[x]
    <3>1. \A x \in ToSet(s) : d[p] \in Nat /\ C[x] \in Nat
      BY <1>8
    <3> QED BY <1>5, <2>2, <3>1 DEF G
  <2>4. Cardinality(G) > top /\ ToSet(s) \subseteq G
    BY <1>1, <1>2, <1>3, <1>5, <2>1 DEF G
  <2>5. ~(Cardinality(G) <= top) /\ Len(s) = top
    BY <1>1, <1>2, <2>1, <2>4 DEF n
  <2> QED BY <1>1, <1>2, <1>5, <2>1, <2>3, <2>4, <2>5 DEF Good, G
<1>10. CASE h < top /\ n < top
  <2>1. r = SubSeq(t, 1, m) /\ m = n + 1 /\ m \in 0 .. Len(t) /\ n = c
    <3>1. r = SubSeq(t, 1, m)
      BY <1>7, <1>10, Zenon
    <3>2. m = n + 1 /\ m \in 0 .. n + 1 /\ n = c
      BY <1>1, <1>3, <1>7, <1>10
    <3>3. Len(t) = n + 1
      BY <1>6
    <3> QED BY <3>1, <3>2, <3>3, Zenon
  <2>0. Begins(r, t, n + 1)
    <3>1. Begins(SubSeq(t, 1, m), t, m)
      BY <1>6, <2>1, PrefixFacts, Zenon
    <3> QED BY <2>1, <3>1, Zenon
  <2>2. /\ r \in Seq(Pid) /\ Len(r) = n + 1 /\ DOMAIN r = 1 .. n + 1
        /\ \A i \in 1 .. n + 1 : i \in DOMAIN t /\ r[i] = t[i]
    BY <2>0, Zenon DEF Begins
  <2>3. DOMAIN t = 1 .. n + 1
    BY <1>6
  <2>4. ToSet(r) = ToSet(t) /\ IsInjective(r) /\ Falling(r, d)
    <3>0. IsInjective(t) /\ Falling(t, d)
      BY <1>6, Zenon
    <3>1. Kept(r, t, d)
      BY <2>0, <3>0, PrefixKeeps, Zenon
    <3>2. ToSet(t) \subseteq ToSet(r)
      BY <2>2, <2>3 DEF ToSet
    <3> QED BY <3>1, <3>2 DEF Kept
  <2>5. ToSet(r) = G
    BY <1>3, <1>6, <1>10, <2>4 DEF G
  <2>6. Cardinality(G) = n + 1 /\ ~(Cardinality(G) > top)
    BY <1>1, <1>2, <1>10, <2>1
  <2> QED BY <1>2, <2>2, <2>4, <2>5, <2>6 DEF Good, G
<1>11. CASE h < top /\ n = top
  <2>1. r = SubSeq(t, 1, m) /\ m = n /\ m \in 0 .. Len(t) /\ c >= top
    <3>1. r = SubSeq(t, 1, m)
      BY <1>7, <1>11, Zenon
    <3>2. m = n /\ m \in 0 .. n + 1 /\ c >= top
      BY <1>1, <1>3, <1>7, <1>11
    <3>3. Len(t) = n + 1
      BY <1>6
    <3> QED BY <3>1, <3>2, <3>3, Zenon
  <2>0. Begins(r, t, n)
    <3>1. Begins(SubSeq(t, 1, m), t, m)
      BY <1>6, <2>1, PrefixFacts, Zenon
    <3> QED BY <2>1, <3>1, Zenon
  <2>2. /\ r \in Seq(Pid) /\ Len(r) = n /\ DOMAIN r = 1 .. n
        /\ \A i \in 1 .. n : i \in DOMAIN t /\ r[i] = t[i]
    BY <2>0, Zenon DEF Begins
  <2>3. DOMAIN t = 1 .. n + 1
    BY <1>6
  <2>4. ToSet(r) \subseteq ToSet(t) /\ IsInjective(r) /\ Falling(r, d)
    <3>0. IsInjective(t) /\ Falling(t, d)
      BY <1>6, Zenon
    <3>1. Kept(r, t, d)
      BY <2>0, <3>0, PrefixKeeps, Zenon
    <3> QED BY <3>1, Zenon DEF Kept
  <2>5. ToSet(r) \subseteq G
    BY <1>5, <1>6, <2>4 DEF G
  <2>6. Cardinality(G) > top /\ ~(Cardinality(G) <= top) /\ Len(r) = top
    BY <1>1, <1>2, <1>11, <2>1, <2>2
  <2>7. ASSUME NEW q \in G \ ToSet(r), NEW x \in ToSet(r) PROVE d[q] <= C[x]
    <3>1. x \in ToSet(s) \cup {p} /\ d[x] <= C[x] /\ d[x] \in Nat /\ C[x] \in Nat /\ d[q] \in Nat
      BY <1>6, <1>8, <2>4 DEF G
    <3>2. CASE q \in ToSet(t)
      <4>1. PICK j \in 1 .. n + 1 : q = t[j]
        BY <2>3, <3>2 DEF ToSet
      <4>2. j = n + 1
        <5>1. ASSUME j \in 1 .. n PROVE FALSE
          BY <2>2, <4>1, <5>1 DEF ToSet
        <5> QED BY <1>1, <4>1, <5>1
      <4>3. PICK i \in 1 .. n : x = t[i]
        BY <2>2 DEF ToSet
      <4>4. d[t[i]] >= d[t[j]]
        <5>1. i < j /\ i \in DOMAIN t /\ j \in DOMAIN t
          BY <1>1, <2>3, <4>2, <4>3
        <5> QED BY <1>6, <5>1, Zenon DEF Falling
      <4> QED BY <3>1, <4>1, <4>3, <4>4
    <3>3. CASE q \notin ToSet(t)
      <4>1. q \in H \ ToSet(s) /\ q # p
        BY <1>6, <3>3 DEF G
      <4>2. CASE x \in ToSet(s)
        BY <1>5, <4>1, <4>2
      <4>3. CASE x = p
        <5>1. PICK i \in DOMAIN s : ~(C[s[i]] > d[p])
          BY <1>1, <1>4, <1>11 DEF Higher
        <5>2. s[i] \in ToSet(s) /\ C[s[i]] \in Nat /\ d[p] \in Nat
          BY <1>8, <5>1 DEF ToSet
        <5>3. d[q] <= C[s[i]]
          BY <1>5, <4>1, <5>2
        <5> QED BY <3>1, <4>3, <5>1, <5>2, <5>3
      <4> QED BY <3>1, <4>2, <4>3
    <3> QED BY <3>2, <3>3
  <2> QED BY <1>2, <2>2, <2>4, <2>5, <2>6, <2>7 DEF Good, G
<1> QED BY <1>1, <1>3, <1>9, <1>10, <1>11

\* The usages that the lists are sorted by, and those that listed processes are compared by.
Diffs(u, load) == [x \in Pid |-> get_cpu_usage_percentage(u, load, x)]
Costs(u) == [x \in Pid |-> cpu_usage(u, x)]

\* The pid of a vector, and those of the first n vectors that get_top_consumers looks at.
Head1(i) == procs[i][1].pid
Eligible(i) == Len(procs[i]) > 1 /\ Head1(i) \in DOMAIN sysinfo
Heads(n) == {Head1(i) : i \in {j \in 1 .. n : Eligible(j)}}

\* The load only lowers usages.
LEMMA UsageFacts ==
  ASSUME NEW u \in [Pid -> Usages], NEW load \in Loads
  PROVE  /\ Diffs(u, load) \in [Pid -> Nat] /\ Costs(u) \in [Pid -> Nat]
         /\ \A x \in Pid : Diffs(u, load)[x] <= Costs(u)[x]
<1> SUFFICES ASSUME NEW x \in Pid
             PROVE  /\ get_cpu_usage_percentage(u, load, x) \in Nat /\ cpu_usage(u, x) \in Nat
                    /\ get_cpu_usage_percentage(u, load, x) <= cpu_usage(u, x)
  BY DEF Diffs, Costs
<1> DEFINE a == u[x]
           c == 100 * nb_cores
<1>1. a \in Nat /\ load \in Nat /\ load <= 100 /\ nb_cores \in Nat /\ nb_cores > 0
  <2>1. /\ a \in Usages /\ Usages \subseteq 0 .. c
        /\ Loads \subseteq 0 .. 100 /\ nb_cores \in Nat \ {0}
    BY TopConsumersAssumption, Zenon
  <2> HIDE DEF a, c
  <2> QED BY <2>1
<1>2. c \in Nat /\ c >= 100
  BY <1>1
<1>3. get_cpu_usage_percentage(u, load, x) \in {load * a, 0} /\ cpu_usage(u, x) = c * a
  BY DEF get_cpu_usage_percentage, cpu_usage
<1> HIDE DEF a, c
<1>4. PICK k \in Nat : c = load + k
  <2>1. c = load + (c - load) /\ c - load \in Nat
    BY <1>1, <1>2
  <2> QED BY <2>1
<1>5. c * a = load * a + k * a /\ k * a \in Nat /\ load * a \in Nat
  BY <1>1, <1>4
<1> QED BY <1>3, <1>5

\* The vectors and their pids.
LEMMA VectorFacts ==
  ASSUME TrackerInv
  PROVE  /\ Len(procs) \in Nat /\ DOMAIN procs = 1 .. Len(procs)
         /\ \A i \in 1 .. Len(procs) :
              Len(procs[i]) \in Nat /\ (Len(procs[i]) > 1 => Head1(i) \in Pid)
         /\ \A i, j \in 1 .. Len(procs) :
              Len(procs[i]) > 1 /\ Len(procs[j]) > 1 /\ Head1(i) = Head1(j) => i = j
<1>1. procs \in Seq(Seq(Record)) /\ UniquePid
  BY DEF TrackerInv, TypeOK
<1>2. Len(procs) \in Nat /\ DOMAIN procs = 1 .. Len(procs)
  BY <1>1
<1>3. ASSUME NEW i \in 1 .. Len(procs)
      PROVE  /\ Len(procs[i]) \in Nat
             /\ Len(procs[i]) > 1 => Head1(i) \in Pid /\ i \in VectorsOf(Head1(i))
  <2> DEFINE v == procs[i]
  <2>1. v \in Seq(Record)
    BY <1>1, <1>2
  <2>2. Len(v) \in Nat /\ (Len(v) > 1 => v # <<>> /\ v[1] \in Record)
    <3> HIDE DEF v
    <3> QED BY <2>1
  <2>3. Len(v) > 1 => v[1].pid \in Pid
    BY <2>2 DEF Record
  <2> QED BY <1>2, <2>2, <2>3 DEF VectorsOf, Head1
<1>4. ASSUME NEW i \in 1 .. Len(procs), NEW j \in 1 .. Len(procs),
             Len(procs[i]) > 1, Len(procs[j]) > 1, Head1(i) = Head1(j)
      PROVE  i = j
  <2>1. Head1(i) \in Pid /\ i \in VectorsOf(Head1(i)) /\ j \in VectorsOf(Head1(i))
    BY <1>3, <1>4, Zenon
  <2> QED BY <1>1, <2>1, Zenon DEF UniquePid
<1> QED BY <1>2, <1>3, <1>4

\* One vector more.
LEMMA HeadsStep ==
  ASSUME TrackerInv, NEW n \in 1 .. Len(procs)
  PROVE  /\ Eligible(n) => /\ Heads(n) = Heads(n - 1) \cup {Head1(n)}
                           /\ Head1(n) \in Pid /\ Head1(n) \notin Heads(n - 1)
         /\ ~Eligible(n) => Heads(n) = Heads(n - 1)
         /\ Heads(n - 1) \in SUBSET Pid /\ Heads(n - 1) \subseteq DOMAIN sysinfo
<1>1. Len(procs) \in Nat
  BY VectorFacts
<1>2. \A j : j \in 1 .. n <=> j \in 1 .. n - 1 \/ j = n
  BY <1>1
<1>3. \A j \in 1 .. n - 1 : j \in 1 .. Len(procs) /\ j # n
  BY <1>1
<1>4. Eligible(n) => Heads(n) = Heads(n - 1) \cup {Head1(n)}
  BY <1>2 DEF Heads
<1>5. ~Eligible(n) => Heads(n) = Heads(n - 1)
  BY <1>2 DEF Heads
<1>6. Heads(n - 1) \in SUBSET Pid /\ Heads(n - 1) \subseteq DOMAIN sysinfo
  BY <1>3, VectorFacts DEF Heads, Eligible
<1>7. Eligible(n) => Head1(n) \in Pid /\ Head1(n) \notin Heads(n - 1)
  BY <1>3, VectorFacts DEF Heads, Eligible
<1> QED BY <1>4, <1>5, <1>6, <1>7

\* Considered, in the terms of the lemmas.
LEMMA ConsideredIs ==
  ASSUME NEW s, NEW n, NEW u, NEW load, NEW d, d = Diffs(u, load), NEW C, C = Costs(u),
         s \in Seq(Pid), ToSet(s) \subseteq DOMAIN sysinfo
  PROVE  /\ ~Eligible(n) => Considered(s, procs[n], u, load) = s
         /\ Eligible(n) => Considered(s, procs[n], u, load)
              = LET t == Inserted(s, Head1(n), d)
                IN  IF Cardinality(Higher(s, d, C, Head1(n))) < top
                    THEN SubSeq(t, 1, IF Len(t) > top THEN Len(t) - 1 ELSE Len(t)) ELSE s
<1> DEFINE p == Head1(n)
           t == Inserted(s, p, d)
           higher == {i \in DOMAIN s : s[i] \in DOMAIN sysinfo /\ cpu_usage(u, s[i]) > d[p]}
           m == IF Len(t) > top THEN Len(t) - 1 ELSE Len(t)
<1>1. Considered(s, procs[n], u, load)
        = IF Len(procs[n]) > 1 /\ Cardinality(higher) < top /\ p \in DOMAIN sysinfo
          THEN SubSeq(t, 1, m) ELSE s
  BY Zenon DEF Considered, Diffs, Head1
<1>2. higher = Higher(s, d, C, p)
  <2>1. \A i \in DOMAIN s : s[i] \in DOMAIN sysinfo /\ C[s[i]] = cpu_usage(u, s[i])
    BY DEF ToSet, Costs
  <2> HIDE DEF p
  <2> QED BY <2>1 DEF Higher
<1> HIDE DEF higher, m, t
<1>3. ~Eligible(n) => Considered(s, procs[n], u, load) = s
  BY <1>1, Zenon DEF Eligible
<1>4. Eligible(n) => Considered(s, procs[n], u, load)
         = IF Cardinality(Higher(s, d, C, p)) < top THEN SubSeq(t, 1, m) ELSE s
  BY <1>1, <1>2, Zenon DEF Eligible
<1> QED BY <1>3, <1>4, Zenon DEF t, m

\* What is known of the list is kept by one iteration.
LEMMA ConsideredGood ==
  ASSUME TrackerInv, NEW u \in [Pid -> Usages], NEW load \in Loads, NEW n \in 1 .. Len(procs),
         NEW s, Good(s, Heads(n - 1), Diffs(u, load), Costs(u))
  PROVE  Good(Considered(s, procs[n], u, load), Heads(n), Diffs(u, load), Costs(u))
<1> DEFINE d == Diffs(u, load)
           C == Costs(u)
           r == Considered(s, procs[n], u, load)
           p == Head1(n)
           H == Heads(n - 1)
<1>1. d \in [Pid -> Nat] /\ C \in [Pid -> Nat] /\ \A x \in Pid : d[x] <= C[x]
  BY UsageFacts
<1>2. s \in Seq(Pid) /\ ToSet(s) \subseteq DOMAIN sysinfo
  BY HeadsStep DEF Good
<1>3. CASE ~Eligible(n)
  <2>1. r = s
    BY <1>2, <1>3, ConsideredIs, Zenon
  <2> QED BY <1>3, <2>1, HeadsStep
<1>4. CASE Eligible(n)
  <2>1. r = LET t == Inserted(s, p, d)
            IN  IF Cardinality(Higher(s, d, C, p)) < top
                THEN SubSeq(t, 1, IF Len(t) > top THEN Len(t) - 1 ELSE Len(t)) ELSE s
    BY <1>2, <1>4, ConsideredIs, Zenon
  <2>2. H \in SUBSET Pid /\ p \in Pid /\ p \notin H /\ Heads(n) = H \cup {p} /\ Good(s, H, d, C)
    BY <1>4, HeadsStep
  <2> HIDE DEF r, p, d, C, H
  <2>3. Good(r, H \cup {p}, d, C)
    BY <1>1, <2>1, <2>2, ListStep, Zenon
  <2> QED BY <2>2, <2>3, Zenon DEF r, d, C
<1> QED BY <1>3, <1>4

\* One iteration of the loop of get_top_consumers leaves a list of pids.
LEMMA ConsideredType ==
  ASSUME TrackerInv, NEW u \in [Pid -> Usages], NEW load \in Loads,
         NEW n \in 1 .. Len(procs), NEW s \in Seq(Pid)
  PROVE  Considered(s, procs[n], u, load) \in Seq(Pid)
<1> DEFINE d == Diffs(u, load)
           p == Head1(n)
           t == Inserted(s, p, d)
           m == IF Len(t) > top THEN Len(t) - 1 ELSE Len(t)
<1>1. Considered(s, procs[n], u, load) # s
        => Len(procs[n]) > 1 /\ Considered(s, procs[n], u, load) = SubSeq(t, 1, m)
  BY Zenon DEF Considered, Diffs, Head1
<1>2. d \in [Pid -> Nat]
  BY UsageFacts
<1>3. ASSUME Len(procs[n]) > 1 PROVE SubSeq(t, 1, m) \in Seq(Pid)
  <2>1. p \in Pid
    BY <1>3, VectorFacts
  <2>2. t \in Seq(Pid) /\ Len(t) = Len(s) + 1
    <3> HIDE DEF d, p
    <3> QED BY <1>2, <2>1, InsertedFacts, Zenon
  <2> HIDE DEF t
  <2>3. m \in 0 .. Len(t)
    BY <2>2, TopConsumersAssumption
  <2> HIDE DEF m
  <2> QED BY <2>2, <2>3, PrefixFacts, Zenon DEF Begins
<1> QED BY <1>1, <1>3, Zenon

\* The lists that get_top_consumers makes, one per vector.
LEMMA ConsumersExist ==
  ASSUME TrackerInv, NEW u \in [Pid -> Usages], NEW load \in Loads
  PROVE  \E g : /\ get_top_consumers(u, load) = g[Len(procs)]
                /\ g[0] = <<>>
                /\ \A i \in 1 .. Len(procs) : g[i] = Considered(g[i - 1], procs[i], u, load)
<1> DEFINE n == Len(procs)
           Eq(g) == g = [i \in 0 .. n |-> IF i = 0 THEN <<>>
                                          ELSE Considered(g[i - 1], procs[i], u, load)]
           k == CHOOSE g : Eq(g)
           F == [i \in 1 .. n |-> [x \in Seq(Pid) |-> Considered(x, procs[i], u, load)]]
<1>1. n \in Nat /\ <<>> \in Seq(Pid)
  BY VectorFacts
<1>2. \A i \in 1 .. n : \A x \in Seq(Pid) :
         F[i][x] = Considered(x, procs[i], u, load) /\ F[i][x] \in Seq(Pid)
  <2>1. \A i \in 1 .. n : F[i] = [x \in Seq(Pid) |-> Considered(x, procs[i], u, load)]
    BY Zenon
  <2> HIDE DEF F
  <2> SUFFICES ASSUME NEW i \in 1 .. n, NEW x \in Seq(Pid)
               PROVE  F[i][x] = Considered(x, procs[i], u, load) /\ F[i][x] \in Seq(Pid)
    BY Zenon
  <2>2. F[i][x] = Considered(x, procs[i], u, load)
    BY <2>1
  <2>3. Considered(x, procs[i], u, load) \in Seq(Pid)
    BY ConsideredType, Zenon
  <2> QED BY <2>2, <2>3
<1>3. \E g \in [0 .. n -> Seq(Pid)] : g[0] = <<>> /\ \A i \in 1 .. n : g[i] = F[i][g[i - 1]]
  <2> DEFINE V == Seq(Pid)
             b == <<>>
  <2>1. Stays(n, V, b, F)
    BY <1>1, <1>2, Zenon DEF Stays
  <2>2. \E g : Iterates(g, n, V, b, F)
    <3> HIDE DEF F, n, V, b
    <3> QED BY <2>1, IterationExists, Zenon
  <2> QED BY <2>2, Zenon DEF Iterates
<1>4. PICK g \in [0 .. n -> Seq(Pid)] : g[0] = <<>> /\ \A i \in 1 .. n : g[i] = F[i][g[i - 1]]
  BY <1>3
<1> HIDE DEF F, n
<1>5. \A i \in 1 .. n : i - 1 \in 0 .. n /\ i # 0 /\ i \in 0 .. n
  BY <1>1
<1>6. \A i \in 0 .. n : i = 0 \/ i \in 1 .. n
  BY <1>1
<1>7. \A i \in 0 .. n : g[i] = IF i = 0 THEN <<>> ELSE Considered(g[i - 1], procs[i], u, load)
  <2>1. \A i \in 1 .. n : g[i - 1] \in Seq(Pid)
    BY <1>5
  <2>2. \A i \in 1 .. n : g[i] = Considered(g[i - 1], procs[i], u, load)
    BY <1>2, <1>4, <2>1, Zenon
  <2> QED BY <1>4, <1>6, <2>2, Zenon
<1>8. Eq(g)
  BY <1>7, Zenon
<1>9. Eq(k)
  BY <1>8, Zenon
<1>10. get_top_consumers(u, load) = k[n]
  BY Zenon DEF get_top_consumers, n
<1> HIDE DEF k
<1>11. k[0] = <<>> /\ \A i \in 1 .. n : k[i] = Considered(k[i - 1], procs[i], u, load)
  <2>1. 0 \in 0 .. n
    BY <1>1
  <2> QED BY <1>5, <1>9, <2>1
<1> QED BY <1>10, <1>11, Zenon DEF n

\* What is known of the list at the end.
LEMMA TopGood ==
  ASSUME TrackerInv, NEW u \in [Pid -> Usages], NEW load \in Loads
  PROVE  Good(get_top_consumers(u, load), Heads(Len(procs)), Diffs(u, load), Costs(u))
<1> DEFINE n == Len(procs)
           G(s, i) == Good(s, Heads(i), Diffs(u, load), Costs(u))
<1>1. PICK g : /\ get_top_consumers(u, load) = g[n]
               /\ g[0] = <<>>
               /\ \A i \in 1 .. n : g[i] = Considered(g[i - 1], procs[i], u, load)
  BY ConsumersExist, Zenon
<1> DEFINE N == {m \in Nat : m <= n => G(g[m], m)}
<1>2. n \in Nat
  BY VectorFacts
<1>3. 0 \in N
  <2>1. Heads(0) = {}
    BY DEF Heads
  <2>2. /\ <<>> \in Seq(Pid) /\ ToSet(<<>>) = {} /\ Len(<<>>) = 0
        /\ IsInjective(<<>>) /\ Falling(<<>>, Diffs(u, load))
    BY DEF ToSet, IsInjective, Falling
  <2>3. IsFiniteSet({}) /\ Cardinality({}) = 0 /\ top \in Nat
    BY FS_EmptySet, TopConsumersAssumption
  <2>4. Good(<<>>, {}, Diffs(u, load), Costs(u))
    BY <2>2, <2>3 DEF Good
  <2> HIDE DEF n
  <2> QED BY <1>1, <2>1, <2>4
<1>4. \A m \in Nat : m \in N => m + 1 \in N
  <2> SUFFICES ASSUME NEW m \in Nat, m \in N, m + 1 <= n PROVE G(g[m + 1], m + 1)
    OBVIOUS
  <2> DEFINE i == m + 1
  <2>1. i \in 1 .. n /\ i - 1 = m /\ m <= n
    BY <1>2
  <2>2. G(g[m], m)
    BY <2>1
  <2> HIDE DEF i
  <2>3. G(Considered(g[m], procs[i], u, load), i)
    BY <2>1, <2>2, ConsideredGood
  <2>4. g[i] = Considered(g[m], procs[i], u, load)
    BY <1>1, <2>1
  <2> QED BY <2>3, <2>4 DEF i
<1>5. n \in N
  <2> HIDE DEF N, n
  <2> QED BY <1>2, <1>3, <1>4, NumberInduction
<1> QED BY <1>1, <1>2, <1>5

\* The candidates are the pids that were considered.
LEMMA CandidatesAre ==
  ASSUME TrackerInv PROVE Candidates = Heads(Len(procs))
<1>1. DOMAIN procs = 1 .. Len(procs)
  BY VectorFacts
<1>2. \A i : Len(procs[i]) > 1 => procs[i] # <<>>
  OBVIOUS
<1>3. ASSUME NEW p \in Candidates PROVE p \in Heads(Len(procs))
  BY <1>1 DEF Candidates, VectorsOf, Heads, Eligible, Head1
<1>4. ASSUME NEW p \in Heads(Len(procs)) PROVE p \in Candidates
  BY <1>1, <1>2 DEF Candidates, VectorsOf, Heads, Eligible, Head1
<1> QED BY <1>3, <1>4

\* Vector n has two records and its pid matches.
Passes(filter, n) == Len(procs[n]) > 1 /\ Matches(filter, Head1(n))

\* The pids of those of the first n vectors.
Passed(filter, n) == {Head1(i) : i \in {j \in 1 .. n : Passes(filter, j)}}

\* The processes that match are the pids that were passed.
LEMMA MatchingAre ==
  ASSUME TrackerInv, NEW filter PROVE Matching(filter) = Passed(filter, Len(procs))
<1>1. DOMAIN procs = 1 .. Len(procs)
  BY VectorFacts
<1>2. \A i : Len(procs[i]) > 1 => procs[i] # <<>>
  OBVIOUS
<1>3. ASSUME NEW p \in Matching(filter) PROVE p \in Passed(filter, Len(procs))
  BY <1>1 DEF Matching, VectorsOf, Passed, Passes, Head1
<1>4. ASSUME NEW p \in Passed(filter, Len(procs)) PROVE p \in Matching(filter)
  <2>1. PICK i \in 1 .. Len(procs) : Passes(filter, i) /\ p = Head1(i)
    BY DEF Passed
  <2>2. Head1(i) \in Pid
    BY <2>1, VectorFacts DEF Passes
  <2> QED BY <1>1, <1>2, <2>1, <2>2 DEF Matching, VectorsOf, Passes, Head1
<1> QED BY <1>3, <1>4

\* List r is s, with the pid of vector n put in its place when it passes.
Joined(r, s, filter, n, d) ==
  r = IF Passes(filter, n) THEN Inserted(s, Head1(n), d) ELSE s

\* One iteration of the loop of get_filtered_processes.
LEMMA FilteredIs ==
  ASSUME TrackerInv, NEW u \in [Pid -> Usages], NEW load \in Loads, NEW filter,
         NEW n \in 1 .. Len(procs), NEW s \in Seq(Pid)
  PROVE  Joined(Filtered(s, procs[n], u, load, filter), s, filter, n, Diffs(u, load))
<1> DEFINE r == Filtered(s, procs[n], u, load, filter)
           v == procs[n]
           q == v[Len(v)].pid
<1>1. r = IF Len(v) > 1 /\ Matches(filter, q) THEN Inserted(s, q, Diffs(u, load)) ELSE s
  BY Zenon DEF Filtered, Diffs
<1>2. Len(v) > 1 => v[Len(v)].pid = Head1(n)
  <2>1. procs \in Seq(Seq(Record)) /\ IsHistory(v)
    BY DEF TrackerInv, TypeOK, OneHistory
  <2>2. v \in Seq(Record)
    BY <2>1
  <2>3. Len(v) > 1 => Len(v) \in DOMAIN v
    <3> HIDE DEF v
    <3> QED BY <2>2
  <2> HIDE DEF v
  <2>4. Len(v) > 1 => v[Len(v)].pid = v[1].pid
    BY <2>1, <2>3, Zenon DEF IsHistory
  <2> QED BY <2>4, Zenon DEF v, Head1
<1>3. Len(v) > 1 => q = Head1(n)
  BY <1>2, Zenon
<1> HIDE DEF q, r
<1>4. CASE Len(v) > 1
  BY <1>1, <1>3, <1>4, Zenon DEF Joined, Passes, r
<1>5. CASE ~(Len(v) > 1)
  BY <1>1, <1>5, Zenon DEF Joined, Passes, r
<1> QED BY <1>4, <1>5, Zenon

\* A filtered list: the pids that were passed, each once, in the order of their usages.
Sieved(s, filter, n, d) ==
  s \in Seq(Pid) /\ IsInjective(s) /\ Falling(s, d) /\ ToSet(s) = Passed(filter, n)

\* A filtered list is a list of pids, and each iteration keeps it sieved.
LEMMA FilteredSieved ==
  ASSUME TrackerInv, NEW u \in [Pid -> Usages], NEW load \in Loads, NEW filter,
         NEW n \in 1 .. Len(procs), NEW s \in Seq(Pid),
         NEW r, r = Filtered(s, procs[n], u, load, filter)
  PROVE  /\ r \in Seq(Pid)
         /\ Sieved(s, filter, n - 1, Diffs(u, load)) => Sieved(r, filter, n, Diffs(u, load))
<1> DEFINE d == Diffs(u, load)
           p == Head1(n)
<1>1. d \in [Pid -> Nat]
  BY UsageFacts
<1>2. Len(procs) \in Nat /\ \A j \in 1 .. n - 1 : j \in 1 .. n /\ j \in 1 .. Len(procs) /\ j # n
  BY VectorFacts
<1>3. n \in 1 .. n /\ \A j \in 1 .. n : j = n \/ j \in 1 .. n - 1
  BY <1>2
<1>4. CASE ~Passes(filter, n) /\ r = s
  <2>1. Passed(filter, n) = Passed(filter, n - 1)
    BY <1>2, <1>3, <1>4 DEF Passed
  <2> QED BY <1>4, <2>1 DEF Sieved
<1>5. CASE Passes(filter, n) /\ r = Inserted(s, p, d)
  <2>1. p \in Pid
    BY <1>5, VectorFacts DEF Passes
  <2>2. p \notin Passed(filter, n - 1)
    BY <1>2, <1>5, VectorFacts DEF Passed, Passes
  <2>3. Passed(filter, n) = Passed(filter, n - 1) \cup {p}
    BY <1>2, <1>3, <1>5 DEF Passed
  <2> HIDE DEF p, d
  <2>4. /\ r \in Seq(Pid) /\ ToSet(r) = ToSet(s) \cup {p}
        /\ (IsInjective(s) /\ p \notin ToSet(s) => IsInjective(r))
        /\ (Falling(s, d) => Falling(r, d))
    BY <1>1, <1>5, <2>1, InsertedFacts, Zenon
  <2> QED BY <2>2, <2>3, <2>4 DEF Sieved, d
<1>6. Joined(Filtered(s, procs[n], u, load, filter), s, filter, n, Diffs(u, load))
  BY FilteredIs, Zenon
<1> QED BY <1>4, <1>5, <1>6, Zenon DEF Joined

\* The lists that get_filtered_processes makes, one per vector.
LEMMA FilteredExist ==
  ASSUME TrackerInv, NEW u \in [Pid -> Usages], NEW load \in Loads, NEW filter
  PROVE  \E g : /\ get_filtered_processes(u, load, filter) = g[Len(procs)]
                /\ g[0] = <<>>
                /\ \A i \in 1 .. Len(procs) : g[i] = Filtered(g[i - 1], procs[i], u, load, filter)
<1> DEFINE n == Len(procs)
           Eq(g) == g = [i \in 0 .. n |-> IF i = 0 THEN <<>>
                                          ELSE Filtered(g[i - 1], procs[i], u, load, filter)]
           k == CHOOSE g : Eq(g)
           F == [i \in 1 .. n |-> [x \in Seq(Pid) |-> Filtered(x, procs[i], u, load, filter)]]
<1>1. n \in Nat /\ <<>> \in Seq(Pid)
  BY VectorFacts
<1>2. \A i \in 1 .. n : \A x \in Seq(Pid) :
         F[i][x] = Filtered(x, procs[i], u, load, filter) /\ F[i][x] \in Seq(Pid)
  <2>1. \A i \in 1 .. n : F[i] = [x \in Seq(Pid) |-> Filtered(x, procs[i], u, load, filter)]
    BY Zenon
  <2> HIDE DEF F
  <2> SUFFICES ASSUME NEW i \in 1 .. n, NEW x \in Seq(Pid)
               PROVE  F[i][x] = Filtered(x, procs[i], u, load, filter) /\ F[i][x] \in Seq(Pid)
    BY Zenon
  <2>2. F[i][x] = Filtered(x, procs[i], u, load, filter)
    BY <2>1
  <2>3. Filtered(x, procs[i], u, load, filter) \in Seq(Pid)
    BY FilteredSieved, Zenon
  <2> QED BY <2>2, <2>3
<1>3. \E g \in [0 .. n -> Seq(Pid)] : g[0] = <<>> /\ \A i \in 1 .. n : g[i] = F[i][g[i - 1]]
  <2> DEFINE V == Seq(Pid)
             b == <<>>
  <2>1. Stays(n, V, b, F)
    BY <1>1, <1>2, Zenon DEF Stays
  <2>2. \E g : Iterates(g, n, V, b, F)
    <3> HIDE DEF F, n, V, b
    <3> QED BY <2>1, IterationExists, Zenon
  <2> QED BY <2>2, Zenon DEF Iterates
<1>4. PICK g \in [0 .. n -> Seq(Pid)] : g[0] = <<>> /\ \A i \in 1 .. n : g[i] = F[i][g[i - 1]]
  BY <1>3
<1> HIDE DEF F, n
<1>5. \A i \in 1 .. n : i - 1 \in 0 .. n /\ i # 0 /\ i \in 0 .. n
  BY <1>1
<1>6. \A i \in 0 .. n : i = 0 \/ i \in 1 .. n
  BY <1>1
<1>7. \A i \in 0 .. n : g[i] = IF i = 0 THEN <<>> ELSE Filtered(g[i - 1], procs[i], u, load, filter)
  <2>1. \A i \in 1 .. n : g[i - 1] \in Seq(Pid)
    BY <1>5
  <2>2. \A i \in 1 .. n : g[i] = Filtered(g[i - 1], procs[i], u, load, filter)
    BY <1>2, <1>4, <2>1, Zenon
  <2> QED BY <1>4, <1>6, <2>2, Zenon
<1>8. Eq(g)
  BY <1>7, Zenon
<1>9. Eq(k)
  BY <1>8, Zenon
<1>10. get_filtered_processes(u, load, filter) = k[n]
  BY Zenon DEF get_filtered_processes, n
<1> HIDE DEF k
<1>11. k[0] = <<>> /\ \A i \in 1 .. n : k[i] = Filtered(k[i - 1], procs[i], u, load, filter)
  <2>1. 0 \in 0 .. n
    BY <1>1
  <2> QED BY <1>5, <1>9, <2>1
<1> QED BY <1>10, <1>11, Zenon DEF n

\* A filtered list has the processes that match, each once, and is sorted.
LEMMA FilteredGood ==
  ASSUME TrackerInv, NEW u \in [Pid -> Usages], NEW load \in Loads, NEW filter
  PROVE  Sieved(get_filtered_processes(u, load, filter), filter, Len(procs), Diffs(u, load))
<1> DEFINE n == Len(procs)
           S(s, i) == Sieved(s, filter, i, Diffs(u, load))
<1>1. PICK g : /\ get_filtered_processes(u, load, filter) = g[n]
               /\ g[0] = <<>>
               /\ \A i \in 1 .. n : g[i] = Filtered(g[i - 1], procs[i], u, load, filter)
  BY FilteredExist, Zenon
<1> DEFINE N == {m \in Nat : m <= n => S(g[m], m)}
<1>2. n \in Nat
  BY VectorFacts
<1>3. 0 \in N
  <2>1. S(<<>>, 0)
    BY DEF Sieved, ToSet, IsInjective, Falling, Passed
  <2> HIDE DEF n
  <2> QED BY <1>1, <2>1
<1>4. \A m \in Nat : m \in N => m + 1 \in N
  <2> SUFFICES ASSUME NEW m \in Nat, m \in N, m + 1 <= n PROVE S(g[m + 1], m + 1)
    OBVIOUS
  <2> DEFINE i == m + 1
  <2>1. i \in 1 .. n /\ i - 1 = m /\ m <= n
    BY <1>2
  <2>2. S(g[m], i - 1) /\ g[m] \in Seq(Pid)
    BY <2>1 DEF Sieved
  <2> HIDE DEF i
  <2>3. g[i] = Filtered(g[m], procs[i], u, load, filter)
    BY <1>1, <2>1
  <2>4. S(g[i], i)
    BY <2>1, <2>2, <2>3, FilteredSieved, Zenon
  <2> QED BY <2>4 DEF i
<1>5. n \in N
  <2> HIDE DEF N, n
  <2> QED BY <1>2, <1>3, <1>4, NumberInduction
<1> QED BY <1>1, <1>2, <1>5

\* A list in the order of the usages is sorted.
LEMMA FallingSorted ==
  ASSUME NEW u, NEW load, NEW s \in Seq(Pid), Falling(s, Diffs(u, load))
  PROVE  Sorted(s, u, load)
<1>1. \A i \in DOMAIN s : Diffs(u, load)[s[i]] = get_cpu_usage_percentage(u, load, s[i])
  BY DEF Diffs
<1> QED BY <1>1 DEF Falling, Sorted

\* The listed processes are sound wherever the vectors are.
LEMMA TopSound ==
  TrackerInv => TopConsumersSound
<1> SUFFICES ASSUME TrackerInv, NEW u \in [Pid -> Usages], NEW load \in Loads
             PROVE  LET list == get_top_consumers(u, load)
                    IN  /\ ToSet(list) \subseteq Candidates
                        /\ IsInjective(list) /\ Sorted(list, u, load)
                        /\ Len(list) = IF Cardinality(Candidates) <= top
                                       THEN Cardinality(Candidates) ELSE top
                        /\ \A p \in Candidates \ ToSet(list), x \in ToSet(list) :
                              get_cpu_usage_percentage(u, load, p) <= cpu_usage(u, x)
                        /\ \A filter \in SUBSET (Pid \cup {NoProcess}) :
                              LET filtered == get_filtered_processes(u, load, filter)
                              IN  /\ ToSet(filtered) = Matching(filter)
                                  /\ IsInjective(filtered) /\ Sorted(filtered, u, load)
  BY Zenon DEF TopConsumersSound
<1> DEFINE list == get_top_consumers(u, load)
           d == Diffs(u, load)
           C == Costs(u)
<1>1. Good(list, Candidates, d, C)
  BY TopGood, CandidatesAre
<1>2. \A filter \in SUBSET (Pid \cup {NoProcess}) :
         LET filtered == get_filtered_processes(u, load, filter)
         IN  /\ ToSet(filtered) = Matching(filter)
             /\ IsInjective(filtered) /\ Sorted(filtered, u, load)
  <2> SUFFICES ASSUME NEW filter
               PROVE  LET filtered == get_filtered_processes(u, load, filter)
                      IN  /\ ToSet(filtered) = Matching(filter)
                          /\ IsInjective(filtered) /\ Sorted(filtered, u, load)
    BY Zenon
  <2> QED BY FilteredGood, FallingSorted, MatchingAre, Zenon DEF Sieved
<1>3. Candidates \subseteq Pid
  BY DEF Candidates, TrackerInv, TypeOK
<1>4. \A x \in Pid : d[x] = get_cpu_usage_percentage(u, load, x) /\ C[x] = cpu_usage(u, x)
  BY DEF Diffs, Costs
<1> HIDE DEF list, d, C
<1>5. ToSet(list) \subseteq Candidates /\ IsInjective(list) /\ Sorted(list, u, load)
  BY <1>1, FallingSorted, Zenon DEF Good, d
<1>6. Len(list) = IF Cardinality(Candidates) <= top THEN Cardinality(Candidates) ELSE top
  <2>1. Cardinality(Candidates) \in Nat /\ top \in Nat
    BY <1>1, FS_CardinalityType, TopConsumersAssumption DEF Good
  <2> QED BY <1>1, <2>1 DEF Good
<1>7. \A p \in Candidates \ ToSet(list), x \in ToSet(list) :
         get_cpu_usage_percentage(u, load, p) <= cpu_usage(u, x)
  <2> SUFFICES ASSUME NEW p \in Candidates \ ToSet(list), NEW x \in ToSet(list)
               PROVE  get_cpu_usage_percentage(u, load, p) <= cpu_usage(u, x)
    BY Zenon
  <2>1. p \in Pid /\ x \in Pid
    BY <1>3, <1>5
  <2>2. d[p] <= C[x]
    BY <1>1 DEF Good
  <2> QED BY <1>4, <2>1, <2>2
<1> QED BY <1>2, <1>5, <1>6, <1>7, Zenon DEF list

\* For any numbers of processes, CPUs and listed processes, any usages and any load:
\* the top consumers are processes of the snapshot, as many as there are up to top, and
\* one left out does not use more, scaled by the load, than any listed one; a filtered
\* list holds exactly the processes that match now; both have each process once, the
\* highest consumer first (utils.rs 766-830).
THEOREM TopConsumersSoundAlways == Spec => []TopConsumersSound
BY TrackerInvAlways, TopSound, PTL

-----------------------------------------------------------------------------
(***************************************************************************)
(* HostTopology: what generate_topology finds.                             *)
(***************************************************************************)

\* No two sockets have the same id, and no two domains of a socket have.
UniqueIds(ss) == \A i, j \in DOMAIN ss : ss[i].id = ss[j].id => i = j
UniqueDomains(ss) == \A i \in DOMAIN ss : \A d, e \in ss[i].domains : d.id = e.id => d = e

\* A list of sockets in which each one and each of its domains has an id of its own.
Sound(ss) == ss \in Seq(Socket) /\ UniqueIds(ss) /\ UniqueDomains(ss)

\* One of the sockets has the id.
Among(ss, id) == \E i \in DOMAIN ss : ss[i].id = id

\* The domains of a socket are those that the folders V name.
Stems(s, V) ==
  \A d \in s.domains : \E f \in Domains(V) : f.socket = s.id /\ f.domain = d.id /\ f.name = d.name
\* The socket has the domain of folder f; it has those of all the folders V with a name.
Has(s, f) == \E d \in s.domains : d.id = f.domain /\ d.name = f.name
Holds(s, V) == \A f \in Domains(V) : f.socket = s.id /\ f.name # Unreadable => Has(s, f)

\* The folders V have been looked at for domains.
Looked(V, ss) ==
  /\ \A f \in Domains(V) : Among(ss, f.socket) /\ f.name \in Resources \cup {Unreadable}
  /\ \A i \in DOMAIN ss : Stems(ss[i], V) /\ Holds(ss[i], V)

\* The packages among the folders V have been found.
AllAmong(ss, V) == \A p \in Packages(V) : Among(ss, p.socket)

\* What is known of the directory at each listing, whatever the order so far.
Listing ==
  /\ pc = "folders" => /\ Looked(base_path \ todo, sockets)
                       /\ re_domain_matched <=> Domains(base_path \ todo) # {}
  /\ pc = "fallback" => /\ Domains(base_path) = {}
                        /\ Looked(base_path, sockets) /\ AllAmong(sockets, base_path \ todo)
  /\ pc \in {"psys", "cores", "measure"} =>
                        Looked(base_path, sockets) /\ AllAmong(sockets, base_path)
  /\ pc \in {"folders", "fallback"} => psys = {}
  /\ pc = "psys" => psys = Psys(base_path \ todo)
  /\ pc \in {"cores", "measure"} => psys = Psys(base_path)
  /\ pc = "measure" => /\ sockets # <<>>
                       /\ \A i \in DOMAIN sockets : sockets[i].cores = {c \in Core : Home(c) = i}

\* The list of sockets.
LEMMA SocketDomain == ASSUME NEW ss \in Seq(Socket)
  PROVE /\ Len(ss) \in Nat /\ DOMAIN ss = 1 .. Len(ss)
        /\ \A i \in DOMAIN ss : ss[i] \in Socket
OBVIOUS

\* The fields of a socket.
LEMMA SocketFields == ASSUME NEW s \in Socket
  PROVE /\ s.id \in Nat /\ s.domains \subseteq [id : Nat, name : Resources, mmio : BOOLEAN]
        /\ s.cores \subseteq Core /\ s.mmio \in BOOLEAN
BY DEF Socket

\* A list of sockets that is changed in place stays one.
LEMMA SocketSeq ==
  ASSUME NEW ss \in Seq(Socket), NEW g, DOMAIN g = DOMAIN ss,
         g = [i \in DOMAIN g |-> g[i]], \A i \in DOMAIN g : g[i] \in Socket
  PROVE  g \in Seq(Socket)
<1>1. Len(ss) \in Nat /\ DOMAIN g = 1 .. Len(ss)
  BY SocketDomain
<1>2. g \in [1 .. Len(ss) -> Socket]
  BY <1>1
<1> QED BY <1>1, <1>2

\* A socket is added once.
LEMMA AddSocket ==
  ASSUME NEW ss, Sound(ss), NEW id \in Nat
  PROVE  LET t == safe_add_socket(ss, id)
         IN  /\ Sound(t) /\ Among(t, id)
             /\ DOMAIN ss \subseteq DOMAIN t /\ \A i \in DOMAIN ss : t[i] = ss[i]
             /\ \A i \in DOMAIN t : i \notin DOMAIN ss =>
                  t[i].id = id /\ t[i].domains = {} /\ ~Among(ss, id)
<1> DEFINE t == safe_add_socket(ss, id)
           new == [id |-> id, domains |-> {}, cores |-> {}, mmio |-> FALSE]
<1>1. CASE Among(ss, id)
  <2>1. t = ss
    BY <1>1, Zenon DEF safe_add_socket, Among
  <2> HIDE DEF t
  <2> QED BY <1>1, <2>1 DEF t
<1>2. CASE ~Among(ss, id)
  <2>1. t = Append(ss, new)
    BY <1>2, Zenon DEF safe_add_socket, Among
  <2>2. ss \in Seq(Socket) /\ Len(ss) \in Nat /\ DOMAIN ss = 1 .. Len(ss)
    BY SocketDomain DEF Sound
  <2>3. new \in Socket /\ new.id = id /\ new.domains = {}
    BY DEF Socket
  <2> HIDE DEF new
  <2>4. /\ t \in Seq(Socket) /\ DOMAIN t = 1 .. Len(ss) + 1
        /\ \A i \in 1 .. Len(ss) : t[i] = ss[i]
        /\ t[Len(ss) + 1] = new
    BY <2>1, <2>2, <2>3
  <2> HIDE DEF t
  <2>5. \A i \in DOMAIN t : i \in DOMAIN ss \/ i = Len(ss) + 1
    BY <2>2, <2>4
  <2>6. Len(ss) + 1 \in DOMAIN t /\ DOMAIN ss \subseteq DOMAIN t
    BY <2>2, <2>4
  <2>7. UniqueIds(t)
    BY <1>2, <2>2, <2>3, <2>4, <2>5 DEF Sound, UniqueIds, Among
  <2>8. UniqueDomains(t)
    BY <2>2, <2>3, <2>4, <2>5 DEF Sound, UniqueDomains
  <2>9. Among(t, id)
    BY <2>3, <2>4, <2>6 DEF Among
  <2> QED BY <1>2, <2>2, <2>3, <2>4, <2>5, <2>6, <2>7, <2>8, <2>9 DEF Sound, t
<1> QED BY <1>1, <1>2

\* A change of the sockets that keeps their ids and their domains' ids apart.
LEMMA ChangeSockets ==
  ASSUME NEW ss, Sound(ss), NEW t, DOMAIN t = DOMAIN ss, t = [i \in DOMAIN t |-> t[i]],
         \A i \in DOMAIN ss : t[i] \in Socket /\ t[i].id = ss[i].id,
         UniqueDomains(t)
  PROVE  Sound(t) /\ \A id : Among(t, id) <=> Among(ss, id)
<1>1. t \in Seq(Socket)
  BY SocketSeq DEF Sound
<1> QED BY <1>1 DEF Sound, UniqueIds, Among

\* The sockets ss with the domain d added to the one with the given id.
Added(t, ss, id, d) ==
  /\ Sound(t) /\ DOMAIN t = DOMAIN ss
  /\ \A i \in DOMAIN ss :
       /\ t[i].id = ss[i].id
       /\ t[i].domains = IF ss[i].id = id THEN ss[i].domains \cup {d} ELSE ss[i].domains

\* A domain is added to the socket with the id, if its own id is new there.
LEMMA AddDomain ==
  ASSUME NEW ss, Sound(ss), NEW id \in Nat, NEW d \in [id : Nat, name : Resources, mmio : BOOLEAN],
         \A i \in DOMAIN ss : ss[i].id = id => \A e \in ss[i].domains : e.id # d.id
  PROVE  Added(safe_add_domain_to_socket(ss, id, d), ss, id, d)
<1> DEFINE t == safe_add_domain_to_socket(ss, id, d)
<1>1. t = [i \in DOMAIN ss |-> IF ss[i].id = id THEN safe_add_domain(ss[i], d) ELSE ss[i]]
  BY Zenon DEF safe_add_domain_to_socket, ForSocket
<1>2. DOMAIN t = DOMAIN ss /\ t = [i \in DOMAIN t |-> t[i]]
  BY <1>1
<1>3. \A i \in DOMAIN ss : ss[i] \in Socket
  BY SocketDomain DEF Sound
<1>4. ASSUME NEW i \in DOMAIN ss
      PROVE  /\ t[i] \in Socket /\ t[i].id = ss[i].id
             /\ t[i].domains = IF ss[i].id = id THEN ss[i].domains \cup {d} ELSE ss[i].domains
  <2>1. CASE ss[i].id # id
    BY <1>1, <1>3, <2>1
  <2>2. CASE ss[i].id = id
    <3>1. ~\E e \in ss[i].domains : e.id = d.id
      BY <2>2
    <3>2. t[i] = [ss[i] EXCEPT !.domains = @ \cup {d}]
      BY <1>1, <2>2, <3>1 DEF safe_add_domain
    <3> HIDE DEF t
    <3> QED BY <1>3, <2>2, <3>2 DEF Socket
  <2> QED BY <2>1, <2>2
<1> HIDE DEF t
<1>5. UniqueDomains(t)
  <2> SUFFICES ASSUME NEW i \in DOMAIN ss, NEW a \in t[i].domains, NEW b \in t[i].domains, a.id = b.id
               PROVE  a = b
    BY <1>2 DEF UniqueDomains
  <2>1. CASE ss[i].id # id
    BY <1>4, <2>1 DEF Sound, UniqueDomains
  <2>2. CASE ss[i].id = id
    <3>1. a \in ss[i].domains \/ a = d
      BY <1>4, <2>2
    <3>2. b \in ss[i].domains \/ b = d
      BY <1>4, <2>2
    <3> QED BY <2>2, <3>1, <3>2 DEF Sound, UniqueDomains
  <2> QED BY <2>1, <2>2
<1>6. Sound(t)
  BY <1>2, <1>4, <1>5, ChangeSockets
<1> QED BY <1>2, <1>4, <1>6 DEF t, Added

\* The domains of s and of t have the same ids and names.
SameDomains(s, t) ==
  /\ \A d \in s.domains : \E e \in t.domains : e.id = d.id /\ e.name = d.name
  /\ \A e \in t.domains : \E d \in s.domains : e.id = d.id /\ e.name = d.name

\* A change that leaves ids, and ids and names of domains, alone.
LEMMA LookedSame ==
  ASSUME NEW V, NEW ss, NEW t, DOMAIN t = DOMAIN ss, Looked(V, ss),
         \A i \in DOMAIN ss : t[i].id = ss[i].id /\ SameDomains(ss[i], t[i])
  PROVE  Looked(V, t)
<1>1. \A f \in Domains(V) : Among(t, f.socket) /\ f.name \in Resources \cup {Unreadable}
  BY DEF Looked, Among
<1>2. ASSUME NEW i \in DOMAIN t PROVE Stems(t[i], V) /\ Holds(t[i], V)
  BY DEF Looked, Stems, Holds, Has, SameDomains
<1> QED BY <1>1, <1>2 DEF Looked

\* A socket without domains is added: nothing that has been looked at names one of it.
LEMMA LookedSocket ==
  ASSUME NEW V, NEW ss, Sound(ss), Looked(V, ss), NEW id \in Nat
  PROVE  Looked(V, safe_add_socket(ss, id))
<1> DEFINE t == safe_add_socket(ss, id)
<1>1. /\ DOMAIN ss \subseteq DOMAIN t /\ \A i \in DOMAIN ss : t[i] = ss[i]
      /\ \A i \in DOMAIN t : i \notin DOMAIN ss => t[i].id = id /\ t[i].domains = {} /\ ~Among(ss, id)
  BY AddSocket
<1> HIDE DEF t
<1>2. \A f \in Domains(V) : Among(t, f.socket) /\ f.name \in Resources \cup {Unreadable}
  BY <1>1 DEF Looked, Among
<1>3. ASSUME NEW i \in DOMAIN t PROVE Stems(t[i], V) /\ Holds(t[i], V)
  <2>1. CASE i \in DOMAIN ss
    BY <1>1, <2>1 DEF Looked
  <2>2. CASE i \notin DOMAIN ss
    BY <1>1, <2>2 DEF Looked, Stems, Holds
  <2> QED BY <2>1, <2>2
<1>4. Looked(V, t)
  BY <1>2, <1>3 DEF Looked
<1> QED BY <1>4 DEF t

\* The domains among one folder more.
LEMMA DomainsPlus ==
  ASSUME NEW V, NEW f
  PROVE  /\ f.kind = "domain" => Domains(V \cup {f}) = Domains(V) \cup {f}
         /\ f.kind # "domain" => Domains(V \cup {f}) = Domains(V)
BY DEF Domains

\* A folder that is none of a domain.
LEMMA LookedOther ==
  ASSUME NEW V, NEW ss, NEW f, Looked(V, ss), f.kind # "domain" PROVE Looked(V \cup {f}, ss)
BY DomainsPlus DEF Looked, Stems, Holds

\* The folder of a domain without a name.
LEMMA LookedUnnamed ==
  ASSUME NEW V, NEW ss, NEW f, Looked(V, ss), f.kind = "domain", f.name = Unreadable,
         Among(ss, f.socket)
  PROVE  Looked(V \cup {f}, ss)
<1>1. Domains(V \cup {f}) = Domains(V) \cup {f}
  BY DomainsPlus
<1>2. \A g \in Domains(V \cup {f}) : Among(ss, g.socket) /\ g.name \in Resources \cup {Unreadable}
  BY <1>1 DEF Looked
<1>3. ASSUME NEW i \in DOMAIN ss PROVE Stems(ss[i], V \cup {f})
  <2>1. Stems(ss[i], V)
    BY DEF Looked
  <2> QED BY <1>1, <2>1 DEF Stems
<1>4. ASSUME NEW i \in DOMAIN ss PROVE Holds(ss[i], V \cup {f})
  BY <1>1 DEF Looked, Holds
<1> QED BY <1>2, <1>3, <1>4 DEF Looked

\* The folder of a domain with a name.
LEMMA LookedNamed ==
  ASSUME NEW V, NEW ss, Sound(ss), NEW f, Looked(V, ss), f.kind = "domain", f.name \in Resources,
         f.socket \in Nat, f.domain \in Nat, Among(ss, f.socket),
         \A g \in Domains(V) : g.socket = f.socket => g.domain # f.domain
  PROVE  LET d == [id |-> f.domain, name |-> f.name, mmio |-> FALSE]
             t == safe_add_domain_to_socket(ss, f.socket, d)
         IN  Sound(t) /\ Looked(V \cup {f}, t)
<1> DEFINE d == [id |-> f.domain, name |-> f.name, mmio |-> FALSE]
           t == safe_add_domain_to_socket(ss, f.socket, d)
<1>1. d \in [id : Nat, name : Resources, mmio : BOOLEAN] /\ d.id = f.domain /\ d.name = f.name
  OBVIOUS
<1>2. \A i \in DOMAIN ss : ss[i].id = f.socket => \A e \in ss[i].domains : e.id # d.id
  BY DEF Looked, Stems
<1> HIDE DEF d
<1>3. /\ Sound(t) /\ DOMAIN t = DOMAIN ss
      /\ \A i \in DOMAIN ss :
           /\ t[i].id = ss[i].id
           /\ t[i].domains = IF ss[i].id = f.socket THEN ss[i].domains \cup {d} ELSE ss[i].domains
  <2>1. Added(t, ss, f.socket, d)
    BY <1>1, <1>2, AddDomain, Zenon
  <2> HIDE DEF t
  <2> QED BY <2>1 DEF Added
<1> HIDE DEF t
<1>4. Domains(V \cup {f}) = Domains(V) \cup {f}
  BY DomainsPlus
<1>5. \A g \in Domains(V) \cup {f} : Among(t, g.socket) /\ g.name \in Resources \cup {Unreadable}
  BY <1>3 DEF Looked, Among
<1>6. ASSUME NEW i \in DOMAIN t PROVE Stems(t[i], V \cup {f}) /\ Holds(t[i], V \cup {f})
  <2>1. Stems(ss[i], V) /\ Holds(ss[i], V)
    BY <1>3 DEF Looked
  <2>2. CASE ss[i].id # f.socket
    <3>1. t[i].id = ss[i].id /\ t[i].domains = ss[i].domains
      BY <1>3, <2>2
    <3>2. Stems(t[i], V \cup {f})
      BY <1>4, <2>1, <3>1 DEF Stems
    <3>3. Holds(t[i], V \cup {f})
      BY <1>4, <2>1, <2>2, <3>1 DEF Holds, Has
    <3> QED BY <3>2, <3>3
  <2>3. CASE ss[i].id = f.socket
    <3>1. t[i].id = f.socket /\ t[i].domains = ss[i].domains \cup {d}
      BY <1>3, <2>3
    <3>2. Stems(t[i], V \cup {f})
      BY <1>1, <1>4, <2>1, <2>3, <3>1 DEF Stems
    <3>3. Holds(t[i], V \cup {f})
      BY <1>1, <1>4, <2>1, <2>3, <3>1 DEF Holds, Has
    <3> QED BY <3>2, <3>3
  <2> QED BY <2>2, <2>3
<1>7. Looked(V \cup {f}, t)
  BY <1>4, <1>5, <1>6 DEF Looked
<1> QED BY <1>3, <1>7 DEF t, d

-----------------------------------------------------------------------------
\* The types of what generate_topology builds, and of what it has to list.
BuildType ==
  /\ base_path \in Directories
  /\ pc \in {"folders", "fallback", "psys", "cores", "measure", "panicked"}
  /\ todo \subseteq base_path
  /\ re_domain_matched \in BOOLEAN
  /\ Sound(sockets)
  /\ psys \subseteq base_path /\ Cardinality(psys) <= 1

\* The inductive invariant of generate_topology.
BuildInv == BuildType /\ Listing

\* A set with at most one element.
LEMMA OnlyOne ==
  ASSUME NEW S, IsFiniteSet(S), Cardinality(S) <= 1, NEW x \in S PROVE S = {x}
<1>1. IsFiniteSet({x}) /\ Cardinality({x}) = 1 /\ {x} \subseteq S
  BY FS_Singleton
<1>2. Cardinality(S) \in Nat /\ Cardinality({x}) <= Cardinality(S)
  BY <1>1, FS_CardinalityType, FS_Subset
<1>3. Cardinality({x}) = Cardinality(S)
  BY <1>1, <1>2
<1> QED BY <1>1, <1>3, FS_Subset

\* The fields of a folder, and what tells it from the others.
LEMMA FolderFields ==
  ASSUME NEW d \in Directories, NEW f \in d
  PROVE  /\ f.kind \in Kinds /\ f.socket \in Nat /\ f.domain \in Nat /\ f.name \in STRING
         /\ \A g \in d : g.kind = f.kind /\ g.socket = f.socket /\ g.domain = f.domain => g = f
BY HostTopologyAssumption DEF Folder

\* A folder that is visited joins those that have been looked at.
LEMMA VisitFacts ==
  ASSUME BuildType, NEW f, NEW listing, Visit(f, listing)
  PROVE  /\ f \in base_path /\ f \notin base_path \ todo /\ base_path' = base_path
         /\ base_path \ todo' = (base_path \ todo) \cup {f} /\ todo' \subseteq base_path
         /\ UNCHANGED <<energy, record_buffer>> /\ pc = listing
BY DEF Visit, BuildType

\* DomainFolder preserves the invariant.
LEMMA DomainBuild ==
  ASSUME BuildInv, NEW f \in base_path, DomainFolder(f) PROVE BuildInv'
<1> DEFINE V == base_path \ todo
           ss == safe_add_socket(sockets, f.socket)
           d == [id |-> f.domain, name |-> f.name, mmio |-> FALSE]
           t == safe_add_domain_to_socket(ss, f.socket, d)
<1>0. /\ Visit(f, "folders") /\ f.kind = "domain" /\ f.name \in Resources \cup {Unreadable}
      /\ re_domain_matched' = TRUE /\ pc' = pc /\ psys' = psys
      /\ sockets' = IF f.name = Unreadable THEN ss ELSE t
  BY Zenon DEF DomainFolder
<1>1. BuildType /\ Sound(sockets) /\ base_path \in Directories
  BY DEF BuildInv, BuildType
<1>2. /\ f \in base_path /\ f \notin V /\ base_path' = base_path
      /\ base_path \ todo' = V \cup {f} /\ todo' \subseteq base_path /\ pc = "folders"
  BY <1>0, <1>1, VisitFacts
<1>3. Looked(V, sockets) /\ psys = {}
  BY <1>2 DEF BuildInv, Listing
<1>4. /\ f.socket \in Nat /\ f.domain \in Nat
      /\ \A g \in V : g.kind = "domain" /\ g.socket = f.socket => g.domain # f.domain
  BY <1>0, <1>1, <1>2, FolderFields
<1> HIDE DEF V
<1>5. Sound(ss) /\ Among(ss, f.socket)
  BY <1>1, <1>4, AddSocket
<1>6. Looked(V, ss)
  BY <1>1, <1>3, <1>4, LookedSocket
<1> HIDE DEF ss
<1>7. Sound(sockets') /\ Looked(V \cup {f}, sockets')
  <2>1. CASE f.name = Unreadable
    <3>1. Looked(V \cup {f}, ss)
      BY <1>0, <1>5, <1>6, <2>1, LookedUnnamed
    <3> QED BY <1>0, <1>5, <2>1, <3>1
  <2>2. CASE f.name # Unreadable
    <3>1. f.name \in Resources
      BY <1>0, <2>2
    <3>2. \A g \in Domains(V) : g.socket = f.socket => g.domain # f.domain
      BY <1>4 DEF Domains
    <3>3. Sound(t) /\ Looked(V \cup {f}, t)
      BY <1>0, <1>4, <1>5, <1>6, <3>1, <3>2, LookedNamed
    <3> HIDE DEF t
    <3> QED BY <1>0, <2>2, <3>3
  <2> QED BY <2>1, <2>2
<1>8. BuildType'
  BY <1>0, <1>1, <1>2, <1>7 DEF BuildType
<1>9. Domains(V \cup {f}) # {}
  BY <1>0, DomainsPlus
<1>10. Looked(base_path \ todo, sockets)' /\ (Domains(base_path \ todo) # {})'
  BY <1>2, <1>7, <1>9
<1>11. Listing'
  BY <1>0, <1>2, <1>3, <1>10 DEF Listing
<1> QED BY <1>8, <1>11 DEF BuildInv

\* A step of the first listing that visits no domain and keeps what is known of them.
LEMMA OtherBuild ==
  ASSUME BuildInv, NEW f \in base_path, Visit(f, "folders"), f.kind # "domain",
         UNCHANGED <<pc, re_domain_matched, psys>>, Sound(sockets'), DOMAIN sockets' = DOMAIN sockets,
         \A i \in DOMAIN sockets : sockets'[i].id = sockets[i].id /\ SameDomains(sockets[i], sockets'[i])
  PROVE  BuildInv'
<1> DEFINE V == base_path \ todo
<1>1. BuildType
  BY DEF BuildInv
<1>2. /\ base_path' = base_path /\ base_path \ todo' = V \cup {f}
      /\ todo' \subseteq base_path /\ pc = "folders"
  BY <1>1, VisitFacts
<1>3. Looked(V, sockets) /\ psys = {} /\ (re_domain_matched <=> Domains(V) # {})
  BY <1>2 DEF BuildInv, Listing
<1> HIDE DEF V
<1>4. Looked(V, sockets')
  BY <1>3, LookedSame
<1>5. Looked(V \cup {f}, sockets') /\ Domains(V \cup {f}) = Domains(V)
  BY <1>4, LookedOther, DomainsPlus
<1>6. BuildType'
  BY <1>1, <1>2 DEF BuildType
<1>7. Looked(base_path \ todo, sockets)' /\ (re_domain_matched <=> Domains(base_path \ todo) # {})'
  BY <1>2, <1>3, <1>5
<1>8. Listing'
  BY <1>2, <1>3, <1>7 DEF Listing
<1> QED BY <1>6, <1>8 DEF BuildInv

\* MmioFolder preserves the invariant.
LEMMA MmioBuild ==
  ASSUME BuildInv, NEW f \in base_path, MmioFolder(f) PROVE BuildInv'
<1> DEFINE t == [i \in DOMAIN sockets |->
                   IF sockets[i].id = f.socket THEN [sockets[i] EXCEPT !.mmio = TRUE] ELSE sockets[i]]
<1>1. /\ Visit(f, "folders") /\ f.kind = "mmio" /\ sockets' = t
      /\ UNCHANGED <<pc, re_domain_matched, psys>>
  BY Zenon DEF MmioFolder, ForSocket
<1>2. Sound(sockets) /\ \A i \in DOMAIN sockets : sockets[i] \in Socket
  BY SocketDomain DEF BuildInv, BuildType, Sound
<1>3. ASSUME NEW i \in DOMAIN sockets
      PROVE  /\ t[i] \in Socket /\ t[i].id = sockets[i].id /\ t[i].domains = sockets[i].domains
  <2>1. sockets[i] \in Socket
    BY <1>2
  <2> QED BY <2>1 DEF Socket
<1>4. DOMAIN t = DOMAIN sockets /\ t = [i \in DOMAIN t |-> t[i]]
  OBVIOUS
<1> HIDE DEF t
<1>5. UniqueDomains(t)
  BY <1>2, <1>3, <1>4 DEF Sound, UniqueDomains
<1>6. Sound(t)
  BY <1>2, <1>3, <1>4, <1>5, ChangeSockets
<1>7. \A i \in DOMAIN sockets : SameDomains(sockets[i], t[i])
  BY <1>3 DEF SameDomains
<1> QED BY <1>1, <1>3, <1>4, <1>6, <1>7, OtherBuild

\* MmioDomainFolder preserves the invariant.
LEMMA MmioDomainBuild ==
  ASSUME BuildInv, NEW f \in base_path, MmioDomainFolder(f) PROVE BuildInv'
<1> DEFINE A(s) == {[d EXCEPT !.mmio = @ \/ d.name = f.name] : d \in s.domains}
           t == [i \in DOMAIN sockets |->
                   IF sockets[i].id = f.socket THEN [sockets[i] EXCEPT !.domains = A(sockets[i])]
                   ELSE sockets[i]]
<1>1. /\ Visit(f, "folders") /\ f.kind = "mmio_domain" /\ sockets' = t
      /\ UNCHANGED <<pc, re_domain_matched, psys>>
  BY Zenon DEF MmioDomainFolder, ForSocket
<1>2. Sound(sockets) /\ \A i \in DOMAIN sockets : sockets[i] \in Socket
  BY SocketDomain DEF BuildInv, BuildType, Sound
<1>3. ASSUME NEW s \in Socket
      PROVE  /\ A(s) \subseteq [id : Nat, name : Resources, mmio : BOOLEAN]
             /\ \A e \in A(s) : \E d \in s.domains : e.id = d.id /\ e.name = d.name
             /\ \A d \in s.domains : \E e \in A(s) : e.id = d.id /\ e.name = d.name
             /\ \A a, b \in A(s) : a.id = b.id =>
                  \/ a = b
                  \/ \E c, d \in s.domains : c.id = d.id /\ c # d
  <2> DEFINE M(d) == [d EXCEPT !.mmio = @ \/ d.name = f.name]
  <2>1. ASSUME NEW d \in s.domains
        PROVE  M(d) \in [id : Nat, name : Resources, mmio : BOOLEAN] /\ M(d).id = d.id /\ M(d).name = d.name
    <3>1. d \in [id : Nat, name : Resources, mmio : BOOLEAN]
      BY SocketFields
    <3> QED BY <3>1
  <2>2. A(s) = {M(d) : d \in s.domains}
    OBVIOUS
  <2> HIDE DEF M, A
  <2> QED BY <2>1, <2>2
<1>4. ASSUME NEW i \in DOMAIN sockets
      PROVE  /\ t[i] \in Socket /\ t[i].id = sockets[i].id
             /\ t[i].domains = sockets[i].domains \/ t[i].domains = A(sockets[i])
  <2>1. /\ sockets[i] \in Socket
        /\ A(sockets[i]) \subseteq [id : Nat, name : Resources, mmio : BOOLEAN]
    BY <1>2, <1>3
  <2> HIDE DEF A
  <2> QED BY <2>1 DEF Socket
<1>5. DOMAIN t = DOMAIN sockets /\ t = [i \in DOMAIN t |-> t[i]]
  OBVIOUS
<1> HIDE DEF t, A
<1>6. UniqueDomains(t)
  <2> SUFFICES ASSUME NEW i \in DOMAIN sockets, NEW a \in t[i].domains, NEW b \in t[i].domains, a.id = b.id
               PROVE  a = b
    BY <1>5 DEF UniqueDomains
  <2>1. \A c, d \in sockets[i].domains : c.id = d.id => c = d
    BY <1>2 DEF Sound, UniqueDomains
  <2>2. CASE t[i].domains = sockets[i].domains
    BY <2>1, <2>2
  <2>3. CASE t[i].domains = A(sockets[i])
    BY <1>2, <1>3, <2>1, <2>3
  <2> QED BY <1>4, <2>2, <2>3
<1>7. Sound(t)
  BY <1>2, <1>4, <1>5, <1>6, ChangeSockets
<1>8. \A i \in DOMAIN sockets : SameDomains(sockets[i], t[i])
  <2> SUFFICES ASSUME NEW i \in DOMAIN sockets PROVE SameDomains(sockets[i], t[i])
    OBVIOUS
  <2>1. CASE t[i].domains = sockets[i].domains
    BY <2>1 DEF SameDomains
  <2>2. CASE t[i].domains = A(sockets[i])
    BY <1>2, <1>3, <2>2 DEF SameDomains
  <2> QED BY <1>4, <2>1, <2>2
<1> QED BY <1>1, <1>4, <1>5, <1>7, <1>8, OtherBuild

\* SocketFolder preserves the invariant.
LEMMA SocketBuild ==
  ASSUME BuildInv, NEW f \in base_path, SocketFolder(f) PROVE BuildInv'
<1>1. /\ Visit(f, "folders") /\ f.kind = "socket" /\ sockets' = sockets
      /\ UNCHANGED <<pc, re_domain_matched, psys>>
  BY DEF SocketFolder
<1>2. Sound(sockets)
  BY DEF BuildInv, BuildType
<1>3. \A i \in DOMAIN sockets : SameDomains(sockets[i], sockets'[i])
  BY <1>1 DEF SameDomains
<1> QED BY <1>1, <1>2, <1>3, OtherBuild

\* FolderPanics preserves the invariant.
LEMMA PanicBuild ==
  ASSUME BuildInv, NEW f \in base_path, FolderPanics(f) PROVE BuildInv'
<1>1. Visit(f, "folders") /\ pc' = "panicked" /\ UNCHANGED <<re_domain_matched, sockets, psys>>
  BY DEF FolderPanics
<1>2. BuildType /\ base_path' = base_path /\ todo' \subseteq base_path
  BY <1>1, VisitFacts DEF BuildInv
<1> QED BY <1>1, <1>2 DEF BuildInv, BuildType, Listing

\* FallbackFolder preserves the invariant.
LEMMA FallbackBuild ==
  ASSUME BuildInv, NEW f \in base_path, FallbackFolder(f) PROVE BuildInv'
<1> DEFINE V == base_path \ todo
           ss == safe_add_socket(sockets, f.socket)
           used == f.kind = "socket" /\ f.name # Unreadable /\ read_to_string(f) # <<"psys">>
<1>0. /\ Visit(f, "fallback") /\ UNCHANGED <<pc, re_domain_matched, psys>>
      /\ sockets' = IF used THEN ss ELSE sockets
  BY DEF FallbackFolder
<1>1. BuildType /\ Sound(sockets) /\ base_path \in Directories
  BY DEF BuildInv, BuildType
<1>2. /\ base_path' = base_path /\ f \in base_path
      /\ base_path \ todo' = V \cup {f} /\ todo' \subseteq base_path /\ pc = "fallback"
  BY <1>0, <1>1, VisitFacts
<1>3. /\ Domains(base_path) = {} /\ Looked(base_path, sockets) /\ AllAmong(sockets, V) /\ psys = {}
  BY <1>2 DEF BuildInv, Listing
<1>4. f.socket \in Nat
  BY <1>1, FolderFields
<1>5. f \in Packages(base_path) => f.name # Unreadable
  BY <1>1, <1>3, HostTopologyAssumption
<1>6. f \in Packages(base_path) => used
  <2>1. read_to_string(f) # <<"psys">>
    <3>1. Len(read_to_string(f)) = 2
      BY DEF read_to_string
    <3>2. Len(<<"psys">>) = 1
      OBVIOUS
    <3> QED BY <3>1, <3>2
  <2> QED BY <1>5, <2>1 DEF Packages
<1> HIDE DEF used, V
<1>7. /\ Sound(ss) /\ Among(ss, f.socket) /\ DOMAIN sockets \subseteq DOMAIN ss
      /\ \A i \in DOMAIN sockets : ss[i] = sockets[i]
  BY <1>1, <1>4, AddSocket
<1>8. Looked(base_path, ss)
  BY <1>1, <1>3, <1>4, LookedSocket
<1> HIDE DEF ss
<1>9. Sound(sockets') /\ Looked(base_path, sockets')
  BY <1>0, <1>1, <1>3, <1>7, <1>8
<1>10. AllAmong(sockets', V \cup {f})
  <2> SUFFICES ASSUME NEW p \in Packages(V \cup {f}) PROVE Among(sockets', p.socket)
    BY DEF AllAmong
  <2>1. CASE p \in V
    <3>1. Among(sockets, p.socket)
      BY <1>3, <2>1 DEF AllAmong, Packages
    <3> QED BY <1>0, <1>7, <3>1 DEF Among
  <2>2. CASE p \notin V
    <3>1. p = f /\ f \in Packages(base_path)
      BY <1>2, <2>2 DEF Packages
    <3> QED BY <1>0, <1>6, <1>7, <3>1
  <2> QED BY <2>1, <2>2
<1>11. BuildType'
  BY <1>0, <1>1, <1>2, <1>9 DEF BuildType
<1>12. Listing'
  BY <1>0, <1>2, <1>3, <1>9, <1>10 DEF Listing
<1> QED BY <1>11, <1>12 DEF BuildInv

\* What is called psys in the third listing is psys.
LEMMA PsysNamed ==
  ASSUME BuildInv, pc = "psys", NEW f \in base_path, f.name = "psys" PROVE f.kind = "socket"
<1>1. f.kind \in {"socket", "domain"}
  BY HostTopologyAssumption DEF BuildInv, BuildType
<1>2. ASSUME f.kind = "domain" PROVE FALSE
  <2>1. f \in Domains(base_path)
    BY <1>2 DEF Domains
  <2>2. f.name \in Resources \cup {Unreadable}
    BY <2>1 DEF BuildInv, Listing, Looked
  <2> QED BY <2>2 DEF Resources, Unreadable
<1> QED BY <1>1, <1>2

\* PsysFolder preserves the invariant.
LEMMA PsysBuild ==
  ASSUME BuildInv, NEW f \in base_path, PsysFolder(f) PROVE BuildInv'
<1> DEFINE V == base_path \ todo
<1>0. /\ Visit(f, "psys") /\ UNCHANGED <<pc, re_domain_matched, sockets>>
      /\ psys' = IF f.name # Unreadable /\ f.name = "psys" THEN {f} ELSE psys
  BY DEF PsysFolder, trim, read_to_string
<1>1. BuildType /\ base_path \in Directories
  BY DEF BuildInv, BuildType
<1>2. /\ base_path' = base_path /\ f \in base_path /\ f \notin V
      /\ base_path \ todo' = V \cup {f} /\ todo' \subseteq base_path /\ pc = "psys"
  BY <1>0, <1>1, VisitFacts
<1>3. psys = Psys(V) /\ Looked(base_path, sockets) /\ AllAmong(sockets, base_path)
  BY <1>2 DEF BuildInv, Listing
<1>4. V \subseteq base_path
  OBVIOUS
<1> HIDE DEF V
<1>5. psys' = Psys(V \cup {f}) /\ psys' \subseteq base_path /\ Cardinality(psys') <= 1
  <2>1. CASE f.name = "psys"
    <3>1. f.kind = "socket" /\ f \in Psys(base_path)
      BY <1>2, <2>1, PsysNamed DEF Psys
    <3>2. IsFiniteSet(Psys(base_path)) /\ Cardinality(Psys(base_path)) <= 1
      <4>1. IsFiniteSet(base_path) /\ Psys(base_path) \subseteq base_path
        BY <1>1, HostTopologyAssumption DEF Psys
      <4> QED BY <1>1, <4>1, FS_Subset, HostTopologyAssumption
    <3>3. Psys(base_path) = {f}
      BY <3>1, <3>2, OnlyOne
    <3>4. Psys(V \cup {f}) = {f}
      BY <1>4, <3>1, <3>3 DEF Psys
    <3>5. psys' = {f}
      BY <1>0, <2>1 DEF Unreadable
    <3> QED BY <1>2, <3>4, <3>5, FS_Singleton
  <2>2. CASE f.name # "psys"
    <3>1. Psys(V \cup {f}) = Psys(V)
      BY <2>2 DEF Psys
    <3> QED BY <1>0, <1>1, <1>3, <2>2, <3>1 DEF BuildType
  <2> QED BY <2>1, <2>2
<1>6. BuildType'
  BY <1>0, <1>1, <1>2, <1>5 DEF BuildType
<1>7. Listing'
  BY <1>0, <1>2, <1>3, <1>5 DEF Listing
<1> QED BY <1>6, <1>7 DEF BuildInv

\* Listed preserves the invariant.
LEMMA ListedBuild == ASSUME BuildInv, Listed PROVE BuildInv'
<1>0. /\ pc \in {"folders", "fallback", "psys"} /\ todo = {}
      /\ UNCHANGED <<base_path, re_domain_matched, sockets, psys>>
      /\ todo' = IF pc = "psys" THEN {} ELSE base_path
  BY DEF Listed
<1>1. pc' = CASE pc = "folders" /\ ~re_domain_matched -> "fallback"
               [] pc = "psys" -> "cores"
               [] OTHER -> "psys"
  BY DEF Listed
<1>2. BuildType /\ base_path \in Directories
  BY DEF BuildInv, BuildType
<1>3. base_path \ todo = base_path /\ base_path \ base_path = {} /\ todo' \subseteq base_path
  BY <1>0
<1>4. Psys({}) = {} /\ AllAmong(sockets, {})
  BY DEF Psys, AllAmong, Packages
<1>5. CASE pc = "folders" /\ ~re_domain_matched
  <2>1. pc' = "fallback" /\ todo' = base_path
    BY <1>0, <1>1, <1>5
  <2>2. Looked(base_path, sockets) /\ Domains(base_path) = {} /\ psys = {}
    BY <1>3, <1>5 DEF BuildInv, Listing
  <2>3. BuildType'
    BY <1>0, <1>2, <1>3, <2>1 DEF BuildType
  <2>4. Listing'
    BY <1>0, <1>3, <1>4, <2>1, <2>2 DEF Listing
  <2> QED BY <2>3, <2>4 DEF BuildInv
<1>6. CASE pc = "folders" /\ re_domain_matched
  <2>1. pc' = "psys" /\ todo' = base_path
    BY <1>0, <1>1, <1>6
  <2>2. Looked(base_path, sockets) /\ Domains(base_path) # {} /\ psys = {}
    BY <1>3, <1>6 DEF BuildInv, Listing
  <2>3. \A q \in Packages(base_path) : \E f \in Domains(base_path) : q.socket = f.socket
    BY <1>2, <2>2, HostTopologyAssumption
  <2>4. AllAmong(sockets, base_path)
    BY <2>2, <2>3 DEF Looked, AllAmong
  <2>5. BuildType'
    BY <1>0, <1>2, <1>3, <2>1 DEF BuildType
  <2>6. Listing'
    BY <1>0, <1>3, <1>4, <2>1, <2>2, <2>4 DEF Listing
  <2> QED BY <2>5, <2>6 DEF BuildInv
<1>7. CASE pc = "fallback"
  <2>1. pc' = "psys" /\ todo' = base_path
    BY <1>0, <1>1, <1>7
  <2>2. Looked(base_path, sockets) /\ AllAmong(sockets, base_path) /\ psys = {}
    BY <1>3, <1>7 DEF BuildInv, Listing
  <2>3. BuildType'
    BY <1>0, <1>2, <1>3, <2>1 DEF BuildType
  <2>4. Listing'
    BY <1>0, <1>3, <1>4, <2>1, <2>2 DEF Listing
  <2> QED BY <2>3, <2>4 DEF BuildInv
<1>8. CASE pc = "psys"
  <2>1. pc' = "cores"
    BY <1>0, <1>1, <1>8
  <2>2. Looked(base_path, sockets) /\ AllAmong(sockets, base_path) /\ psys = Psys(base_path)
    BY <1>3, <1>8 DEF BuildInv, Listing
  <2>3. BuildType'
    BY <1>0, <1>2, <1>3, <2>1 DEF BuildType
  <2>4. Listing'
    BY <1>0, <2>1, <2>2 DEF Listing
  <2> QED BY <2>3, <2>4 DEF BuildInv
<1> QED BY <1>0, <1>5, <1>6, <1>7, <1>8

\* Home looks at the ids only.
LEMMA HomeSame ==
  ASSUME DOMAIN sockets' = DOMAIN sockets, \A i \in DOMAIN sockets : sockets'[i].id = sockets[i].id,
         NEW c
  PROVE  Home(c)' = Home(c)
<1>1. {i \in DOMAIN sockets' : sockets'[i].id = physical_id[c]}
        = {i \in DOMAIN sockets : sockets[i].id = physical_id[c]}
  OBVIOUS
<1> QED BY <1>1, Zenon DEF Home

\* add_cpu_cores preserves the invariant.
LEMMA CoresBuild == ASSUME BuildInv, add_cpu_cores PROVE BuildInv'
<1>0. /\ pc = "cores" /\ pc' = (IF sockets = <<>> THEN "panicked" ELSE "measure")
      /\ sockets' = [i \in DOMAIN sockets |->
                        [sockets[i] EXCEPT !.cores = {c \in Core : Home(c) = i}]]
      /\ UNCHANGED <<base_path, todo, re_domain_matched, psys>>
  BY DEF add_cpu_cores
<1>1. BuildType /\ Sound(sockets) /\ \A i \in DOMAIN sockets : sockets[i] \in Socket
  BY SocketDomain DEF BuildInv, BuildType, Sound
<1>2. Looked(base_path, sockets) /\ AllAmong(sockets, base_path) /\ psys = Psys(base_path)
  BY <1>0 DEF BuildInv, Listing
<1>3. DOMAIN sockets' = DOMAIN sockets /\ sockets' = [i \in DOMAIN sockets' |-> sockets'[i]]
  BY <1>0
<1>4. ASSUME NEW i \in DOMAIN sockets
      PROVE  /\ sockets'[i] \in Socket /\ sockets'[i].id = sockets[i].id
             /\ sockets'[i].domains = sockets[i].domains
             /\ sockets'[i].cores = {c \in Core : Home(c) = i}
  <2> DEFINE C == {c \in Core : Home(c) = i}
  <2>1. sockets'[i] = [sockets[i] EXCEPT !.cores = C] /\ sockets[i] \in Socket /\ C \subseteq Core
    BY <1>0, <1>1
  <2> HIDE DEF C
  <2>2. /\ sockets'[i] \in Socket /\ sockets'[i].id = sockets[i].id
        /\ sockets'[i].domains = sockets[i].domains /\ sockets'[i].cores = C
    BY <2>1 DEF Socket
  <2> QED BY <2>2 DEF C
<1>5. UniqueDomains(sockets')
  BY <1>1, <1>3, <1>4 DEF Sound, UniqueDomains
<1>6. Sound(sockets') /\ \A id : Among(sockets', id) <=> Among(sockets, id)
  BY <1>1, <1>3, <1>4, <1>5, ChangeSockets
<1>7. Looked(base_path, sockets')
  <2>1. \A i \in DOMAIN sockets : SameDomains(sockets[i], sockets'[i])
    BY <1>4 DEF SameDomains
  <2> QED BY <1>2, <1>3, <1>4, <2>1, LookedSame
<1>8. AllAmong(sockets', base_path)
  BY <1>2, <1>6 DEF AllAmong
<1>9. \A i \in DOMAIN sockets' : sockets'[i].cores = {c \in Core : Home(c)' = i}
  <2>1. \A c : Home(c)' = Home(c)
    BY <1>3, <1>4, HomeSame
  <2> QED BY <1>3, <1>4, <2>1
<1>10. sockets # <<>> => sockets' # <<>>
  <2>1. DOMAIN sockets = 1 .. Len(sockets) /\ Len(sockets) \in Nat /\ sockets \in Seq(Socket)
    BY <1>1, SocketDomain DEF Sound
  <2>2. sockets' \in Seq(Socket) /\ DOMAIN sockets' = 1 .. Len(sockets') /\ Len(sockets') \in Nat
    BY <1>6, SocketDomain DEF Sound
  <2> QED BY <1>3, <2>1, <2>2
<1>11. BuildType'
  BY <1>0, <1>1, <1>6 DEF BuildType
<1>12. Listing'
  BY <1>0, <1>2, <1>7, <1>8, <1>9, <1>10 DEF Listing
<1> QED BY <1>11, <1>12 DEF BuildInv

\* The steps of the measurement leave what was built alone.
LEMMA BuildKept == ASSUME BuildInv, UNCHANGED <<base_path, building>> PROVE BuildInv'
<1>1. UNCHANGED <<base_path, pc, todo, re_domain_matched, sockets, psys>>
  BY DEF building
<1>2. BuildType'
  BY <1>1 DEF BuildInv, BuildType
<1>3. \A c : Home(c)' = Home(c)
  BY <1>1, HomeSame
<1>4. Listing'
  BY <1>1, <1>3 DEF BuildInv, Listing
<1> QED BY <1>2, <1>4 DEF BuildInv

\* The invariant holds before anything is listed.
LEMMA BuildStart == HostInit => BuildInv
<1> SUFFICES ASSUME HostInit PROVE BuildInv
  OBVIOUS
<1>1. /\ base_path \in Directories /\ pc = "folders" /\ todo = base_path
      /\ re_domain_matched = FALSE /\ sockets = <<>> /\ psys = {}
  BY DEF HostInit
<1>2. sockets \in Seq(Socket) /\ DOMAIN sockets = {}
  BY <1>1
<1>3. Sound(sockets)
  BY <1>2 DEF Sound, UniqueIds, UniqueDomains
<1>4. Domains(base_path \ todo) = {}
  BY <1>1 DEF Domains
<1>5. Looked(base_path \ todo, sockets)
  BY <1>2, <1>4 DEF Looked
<1>6. BuildType
  <2>1. psys \subseteq base_path /\ Cardinality(psys) <= 1
    BY <1>1, FS_EmptySet
  <2>2. todo \subseteq base_path /\ re_domain_matched \in BOOLEAN
    BY <1>1
  <2> QED BY <1>1, <1>3, <2>1, <2>2 DEF BuildType
<1>7. Listing
  BY <1>1, <1>4, <1>5 DEF Listing
<1> QED BY <1>6, <1>7 DEF BuildInv

\* Every step preserves the invariant.
LEMMA BuildStep == BuildInv /\ [HostNext]_host_vars => BuildInv'
<1> SUFFICES ASSUME BuildInv, [HostNext]_host_vars PROVE BuildInv'
  OBVIOUS
<1>1. ASSUME NEW f \in base_path, DomainFolder(f) PROVE BuildInv'
  BY <1>1, DomainBuild
<1>2. ASSUME NEW f \in base_path, MmioFolder(f) PROVE BuildInv'
  BY <1>2, MmioBuild
<1>3. ASSUME NEW f \in base_path, MmioDomainFolder(f) PROVE BuildInv'
  BY <1>3, MmioDomainBuild
<1>4. ASSUME NEW f \in base_path, SocketFolder(f) PROVE BuildInv'
  BY <1>4, SocketBuild
<1>5. ASSUME NEW f \in base_path, FolderPanics(f) PROVE BuildInv'
  BY <1>5, PanicBuild
<1>6. ASSUME NEW f \in base_path, FallbackFolder(f) PROVE BuildInv'
  BY <1>6, FallbackBuild
<1>7. ASSUME NEW f \in base_path, PsysFolder(f) PROVE BuildInv'
  BY <1>7, PsysBuild
<1>8. ASSUME NEW f \in base_path, Consume(f) PROVE BuildInv'
  BY <1>8, BuildKept DEF Consume
<1>9. CASE Listed
  BY <1>9, ListedBuild
<1>10. CASE add_cpu_cores
  BY <1>10, CoresBuild
<1>11. CASE ReadPsys \/ BeginSum \/ EndSum \/ \E p \in reading.left, ok \in BOOLEAN : ReadCounter(p, ok)
  BY <1>11, BuildKept DEF ReadPsys, BeginSum, EndSum, ReadCounter
<1>12. CASE UNCHANGED host_vars
  BY <1>12, BuildKept DEF host_vars
<1> QED BY <1>1, <1>2, <1>3, <1>4, <1>5, <1>6, <1>7, <1>8, <1>9, <1>10, <1>11, <1>12 DEF HostNext

\* A core is in one socket, the one of its package if there is one.
LEMMA HomeFacts ==
  ASSUME BuildInv, sockets # <<>>, NEW c
  PROVE  /\ Home(c) \in DOMAIN sockets
         /\ \A i \in DOMAIN sockets : sockets[i].id = physical_id[c] => Home(c) = i
<1> DEFINE found == {i \in DOMAIN sockets : sockets[i].id = physical_id[c]}
<1>1. /\ sockets \in Seq(Socket) /\ DOMAIN sockets = 1 .. Len(sockets) /\ Len(sockets) \in Nat
      /\ UniqueIds(sockets)
  BY SocketDomain DEF BuildInv, BuildType, Sound
<1>2. 1 \in DOMAIN sockets
  BY <1>1
<1>3. Home(c) = IF found = {} THEN 1 ELSE Min(found)
  BY DEF Home
<1>4. ASSUME NEW i \in found PROVE Min(found) = i
  <2>1. found = {i} /\ i \in Int
    BY <1>1 DEF UniqueIds
  <2> HIDE DEF found
  <2>2. Min({i}) = i
    BY <2>1 DEF Min
  <2> QED BY <2>1, <2>2
<1>5. CASE found = {}
  BY <1>2, <1>3, <1>5
<1>6. CASE found # {}
  <2>1. PICK i \in found : TRUE
    BY <1>6
  <2>2. Home(c) = i /\ i \in DOMAIN sockets
    BY <1>3, <1>4, <1>6, <2>1
  <2> QED BY <1>3, <1>4, <1>6, <2>2
<1> QED BY <1>5, <1>6

\* For any powercap directory and in whatever order its folders are listed: each package is
\* a socket of the topology with exactly its named domains, and with its own cores where
\* the ids are those of /proc/cpuinfo; no core is lost or in two sockets (powercap_rapl.rs
\* 190-331, mod.rs 284-308, 350-404, 1588-1592).
THEOREM PackagesFoundAlways == HostSpec => []PackagesFound
<1>1. BuildInv => PackagesFound
  <2> SUFFICES ASSUME BuildInv, pc = "measure" PROVE
        /\ \A p \in Packages(base_path) : \E i \in DOMAIN sockets :
             /\ sockets[i].id = p.socket
             /\ {[id |-> d.id, name |-> d.name] : d \in sockets[i].domains} = DomainsOf(p.socket)
             /\ {c \in Core : physical_id[c] = p.socket} \subseteq sockets[i].cores
        /\ \A c \in Core : Cardinality({i \in DOMAIN sockets : c \in sockets[i].cores}) = 1
    BY DEF PackagesFound
  <2>1. /\ Looked(base_path, sockets) /\ AllAmong(sockets, base_path) /\ sockets # <<>>
        /\ \A i \in DOMAIN sockets : sockets[i].cores = {c \in Core : Home(c) = i}
    BY DEF BuildInv, Listing
  <2>2. \A i \in DOMAIN sockets : sockets[i] \in Socket
    BY SocketDomain DEF BuildInv, BuildType, Sound
  <2>3. ASSUME NEW i \in DOMAIN sockets
        PROVE  {[id |-> d.id, name |-> d.name] : d \in sockets[i].domains} = DomainsOf(sockets[i].id)
    <3>1. Stems(sockets[i], base_path) /\ Holds(sockets[i], base_path)
      BY <2>1 DEF Looked
    <3>2. \A d \in sockets[i].domains : d.name \in Resources
      BY <2>2, SocketFields
    <3>3. ASSUME NEW d \in sockets[i].domains
          PROVE  [id |-> d.id, name |-> d.name] \in DomainsOf(sockets[i].id)
      <4>1. PICK f \in Domains(base_path) :
                   f.socket = sockets[i].id /\ f.domain = d.id /\ f.name = d.name
        BY <3>1 DEF Stems
      <4>2. f.name # Unreadable
        BY <3>2, <4>1 DEF Resources, Unreadable
      <4> QED BY <4>1, <4>2 DEF DomainsOf
    <3>4. ASSUME NEW x \in DomainsOf(sockets[i].id)
          PROVE  \E d \in sockets[i].domains : x = [id |-> d.id, name |-> d.name]
      <4>1. PICK f \in Domains(base_path) : /\ f.socket = sockets[i].id /\ f.name # Unreadable
                                             /\ x = [id |-> f.domain, name |-> f.name]
        BY DEF DomainsOf
      <4>2. Has(sockets[i], f)
        BY <3>1, <4>1 DEF Holds
      <4> QED BY <4>1, <4>2 DEF Has
    <3> QED BY <3>3, <3>4
  <2>4. ASSUME NEW p \in Packages(base_path)
        PROVE  \E i \in DOMAIN sockets :
                 /\ sockets[i].id = p.socket
                 /\ {[id |-> d.id, name |-> d.name] : d \in sockets[i].domains} = DomainsOf(p.socket)
                 /\ {c \in Core : physical_id[c] = p.socket} \subseteq sockets[i].cores
    <3>1. PICK i \in DOMAIN sockets : sockets[i].id = p.socket
      BY <2>1 DEF AllAmong, Among
    <3>2. {[id |-> d.id, name |-> d.name] : d \in sockets[i].domains} = DomainsOf(p.socket)
      BY <2>3, <3>1
    <3>3. {c \in Core : physical_id[c] = p.socket} \subseteq sockets[i].cores
      BY <2>1, <3>1, HomeFacts
    <3> QED BY <3>1, <3>2, <3>3
  <2>5. ASSUME NEW c \in Core
        PROVE  Cardinality({i \in DOMAIN sockets : c \in sockets[i].cores}) = 1
    <3>1. Home(c) \in DOMAIN sockets
      BY <2>1, HomeFacts
    <3>2. {i \in DOMAIN sockets : c \in sockets[i].cores} = {Home(c)}
      BY <2>1, <3>1
    <3> QED BY <3>2, FS_Singleton
  <2> QED BY <2>4, <2>5
<1> QED BY <1>1, BuildStart, BuildStep, PTL DEF HostSpec

-----------------------------------------------------------------------------
(***************************************************************************)
(* HostTopology: the energy of the host.                                   *)
(***************************************************************************)

\* The types of the counters, of the sum that is made up and of the records.
MeasureType ==
  /\ energy \in [Counters -> 0 .. MaxEnergy]
  /\ reading \in Reading
  /\ record_buffer \in Seq(HostRecord) /\ Len(record_buffer) <= 2

\* The sums of the model are the sums of FiniteSums.
LEMMA SumFunctionIsSum == ASSUME NEW f, NEW S PROVE SumFunctionOnSet(f, S) = Sum(f, S)
BY Zenon DEF SumFunctionOnSet, FoldFunctionOnSet, Sum, MapThenSumSet

\* What is left of a natural number by wrapping grows by one or falls.
LEMMA Quotients ==
  ASSUME NEW m \in Nat, m > 0, NEW e \in Nat
  PROVE  /\ e % m \in Nat /\ e % m <= e
         /\ (e + 1) % m <= (e % m) + 1
<1> DEFINE q == e \div m
           r == e % m
           p == (e + 1) \div m
           s == (e + 1) % m
<1>1. q \in Nat /\ r \in Nat /\ r < m /\ e = m * q + r
  OBVIOUS
<1>2. p \in Nat /\ s \in Nat /\ s < m /\ e + 1 = m * p + s
  <2>1. e + 1 \in Nat
    OBVIOUS
  <2> QED BY <2>1
<1> HIDE DEF q, r, p, s
<1>3. m * q \in Nat /\ m * p \in Nat
  BY <1>1, <1>2
<1>4. m * q <= m * p
  <2>1. CASE p < q
    <3>1. PICK k \in Nat : q = p + 1 + k
      <4>1. q = p + 1 + (q - p - 1) /\ q - p - 1 \in Nat
        BY <1>1, <1>2, <2>1
      <4> QED BY <4>1
    <3>2. m * q = m * p + m + m * k /\ m * k \in Nat /\ m * p \in Nat
      BY <1>2, <3>1
    <3> QED BY <1>1, <1>2, <3>2
  <2>2. CASE q <= p
    <3>1. PICK k \in Nat : p = q + k
      <4>1. p = q + (p - q) /\ p - q \in Nat
        BY <1>1, <1>2, <2>2
      <4> QED BY <4>1
    <3>2. m * p = m * q + m * k /\ m * k \in Nat
      BY <1>1, <3>1
    <3> QED BY <1>3, <3>2
  <2> QED BY <1>1, <1>2, <2>1, <2>2
<1>5. r \in Nat /\ r <= e /\ s <= r + 1
  <2> DEFINE a == m * q
             b == m * p
  <2>1. a \in Nat /\ b \in Nat /\ a <= b /\ e = a + r /\ e + 1 = b + s
    BY <1>1, <1>2, <1>3, <1>4
  <2> HIDE DEF a, b
  <2> QED BY <1>1, <1>2, <2>1
<1> QED BY <1>5, Zenon DEF r, s

\* What a counter holds, of what it has counted.
LEMMA Divided ==
  ASSUME NEW e \in Nat
  PROVE  /\ e % (RaplMax + 1) \in Nat /\ e % (RaplMax + 1) <= e
         /\ (e + 1) % (RaplMax + 1) <= (e % (RaplMax + 1)) + 1
<1>1. RaplMax + 1 \in Nat /\ RaplMax + 1 > 0
  BY HostTopologyAssumption
<1> QED BY <1>1, Quotients, Zenon

\* The files that are read are finitely many, and what they hold are natural numbers.
LEMMA Readings ==
  ASSUME BuildType, MeasureType
  PROVE  /\ IsFiniteSet(Counters) /\ HostMeters \subseteq Counters
         /\ \A f \in Counters : /\ energy[f] \in Nat /\ energy_uj[f] \in Nat /\ wrapped[f] \in Nat
                                /\ energy[f] = wrapped[f] + energy_uj[f]
<1>1. IsFiniteSet(base_path)
  BY HostTopologyAssumption DEF BuildType
<1>2. Counters \subseteq base_path
  BY DEF Counters
<1>3. IsFiniteSet(Counters)
  BY <1>1, <1>2, FS_Subset
<1>4. HostMeters \subseteq Counters
  BY DEF HostMeters, Counters, Psys, Packages, Domains
<1>5. ASSUME NEW f \in Counters
      PROVE  /\ energy[f] \in Nat /\ energy_uj[f] \in Nat /\ wrapped[f] \in Nat
             /\ energy[f] = wrapped[f] + energy_uj[f]
  <2> DEFINE e == energy[f]
             u == energy_uj[f]
             w == wrapped[f]
  <2>1. e \in Nat
    BY HostTopologyAssumption DEF MeasureType
  <2>2. u = e % (RaplMax + 1)
    BY DEF energy_uj
  <2>3. w = e - u
    BY DEF wrapped
  <2> HIDE DEF e, u, w
  <2>4. u \in Nat /\ u <= e
    BY <2>1, <2>2, Divided, Zenon
  <2>5. e \in Nat /\ u \in Nat /\ w \in Nat /\ e = w + u
    BY <2>1, <2>3, <2>4
  <2> QED BY <2>5, Zenon DEF e, u, w
<1> QED BY <1>3, <1>4, <1>5

\* The sums over some of the host's meters are natural numbers,
Totals(S) == Sum(energy, S) \in Nat /\ Sum(wrapped, S) \in Nat

\* in every state
LEMMA TotalsNat ==
  BuildType /\ MeasureType => \A S : S \subseteq HostMeters => Totals(S)
<1> SUFFICES ASSUME BuildType, MeasureType, NEW S, S \subseteq HostMeters PROVE Totals(S)
  OBVIOUS
<1>1. /\ IsFiniteSet(HostMeters) /\ S \in SUBSET HostMeters
      /\ \A f \in HostMeters : energy[f] \in Nat /\ wrapped[f] \in Nat
  BY Readings, FS_Subset
<1>2. Sum(energy, S) \in Nat
  BY <1>1, SumSubset
<1>3. Sum(wrapped, S) \in Nat
  BY <1>1, SumSubset
<1> QED BY <1>2, <1>3 DEF Totals

\* and after every step.
LEMMA TotalsNatNext ==
  BuildType' /\ MeasureType' => (\A S : S \subseteq HostMeters => Totals(S))'
BY TotalsNat, PTL

\* The sums over a set of meters from which one is taken, and over the others.
LEMMA Taken ==
  ASSUME BuildType, MeasureType, NEW S, S \subseteq HostMeters, NEW f \in S
  PROVE  /\ Sum(energy, S) = energy[f] + Sum(energy, S \ {f})
         /\ Sum(wrapped, S) = wrapped[f] + Sum(wrapped, S \ {f})
         /\ Sum(energy, HostMeters \ (S \ {f})) = energy[f] + Sum(energy, HostMeters \ S)
         /\ Sum(wrapped, HostMeters \ (S \ {f})) = wrapped[f] + Sum(wrapped, HostMeters \ S)
<1> DEFINE T == HostMeters \ (S \ {f})
<1>1. /\ IsFiniteSet(HostMeters)
      /\ \A g \in HostMeters : energy[g] \in Int /\ wrapped[g] \in Int
  BY Readings, FS_Subset
<1>2. IsFiniteSet(S) /\ IsFiniteSet(T) /\ T \subseteq HostMeters /\ f \in T /\ T \ {f} = HostMeters \ S
  BY <1>1, FS_Subset
<1> HIDE DEF T
<1>3. Sum(energy, S) = energy[f] + Sum(energy, S \ {f})
  BY <1>1, <1>2, SumRemove
<1>4. Sum(wrapped, S) = wrapped[f] + Sum(wrapped, S \ {f})
  BY <1>1, <1>2, SumRemove
<1>5. Sum(energy, T) = energy[f] + Sum(energy, T \ {f})
  BY <1>1, <1>2, SumRemove
<1>6. Sum(wrapped, T) = wrapped[f] + Sum(wrapped, T \ {f})
  BY <1>1, <1>2, SumRemove
<1> QED BY <1>2, <1>3, <1>4, <1>5, <1>6, Zenon DEF T

\* psys, if the topology has one, is one of the files.
LEMMA PsysRead ==
  ASSUME BuildInv, pc = "measure", psys # {}
  PROVE  /\ psys = Psys(base_path) /\ psys = {CHOOSE f \in psys : TRUE}
         /\ (CHOOSE f \in psys : TRUE) \in Counters
<1> DEFINE f == CHOOSE g \in psys : TRUE
<1>1. psys = Psys(base_path) /\ psys \subseteq base_path /\ Cardinality(psys) <= 1 /\ IsFiniteSet(base_path)
  BY HostTopologyAssumption DEF BuildInv, Listing, BuildType
<1>2. f \in psys
  OBVIOUS
<1>3. IsFiniteSet(psys)
  BY <1>1, FS_Subset
<1> HIDE DEF f
<1>4. psys = {f}
  BY <1>1, <1>2, <1>3, OnlyOne
<1>5. f \in Counters
  BY <1>1, <1>2 DEF Psys, Counters
<1> QED BY <1>1, <1>4, <1>5 DEF f

\* Without psys the counters of a socket are those of its package.
LEMMA SocketParts ==
  ASSUME BuildInv, pc = "measure", psys = {}, NEW i \in DOMAIN sockets
  PROVE  Summed(sockets[i]) = {f \in HostMeters : f.socket = sockets[i].id}
<1>1. /\ Looked(base_path, sockets) /\ Psys(base_path) = {}
      /\ sockets[i] \in Socket
  BY SocketDomain DEF BuildInv, Listing, BuildType, Sound
<1>2. HostMeters = Packages(base_path) \cup {f \in Domains(base_path) : f.name = "dram"}
  BY <1>1 DEF HostMeters
<1>3. ASSUME NEW f \in Summed(sockets[i]) PROVE f \in HostMeters /\ f.socket = sockets[i].id
  BY <1>1, <1>2 DEF Summed, Counters, Packages, Psys, Domains
<1>4. ASSUME NEW f \in HostMeters, f.socket = sockets[i].id PROVE f \in Summed(sockets[i])
  <2>1. CASE f \in Packages(base_path)
    BY <1>4, <2>1 DEF Summed, Counters, Packages
  <2>2. CASE f \in Domains(base_path) /\ f.name = "dram"
    <3>1. Has(sockets[i], f)
      BY <1>1, <1>4, <2>2 DEF Looked, Holds, Unreadable
    <3> QED BY <1>4, <2>2, <3>1 DEF Has, Summed, Counters, Domains
  <2> QED BY <1>2, <1>4, <2>1, <2>2
<1> QED BY <1>3, <1>4

\* The counters that BeginSum sets out to read.
ToRead == {p \in (DOMAIN sockets) \X Counters : p[2] \in Summed(sockets[p[1]])}

\* Each is read for the socket it belongs to, and they are all the meters of the host.
LEMMA ToReadFacts ==
  ASSUME BuildInv, pc = "measure"
  PROVE  /\ ToRead \subseteq Nat \X Counters
         /\ \A p \in ToRead : p[1] \in DOMAIN sockets /\ p[2].socket = sockets[p[1]].id
         /\ psys = {} => {p[2] : p \in ToRead} = HostMeters
<1>1. DOMAIN sockets \subseteq Nat
  <2>1. Len(sockets) \in Nat /\ DOMAIN sockets = 1 .. Len(sockets)
    BY SocketDomain DEF BuildInv, BuildType, Sound
  <2> QED BY <2>1
<1>2. \A p \in ToRead : /\ p \in (DOMAIN sockets) \X Counters
                        /\ p[1] \in DOMAIN sockets /\ p[2] \in Summed(sockets[p[1]])
  BY DEF ToRead
<1>3. \A p \in ToRead : p[2].socket = sockets[p[1]].id
  BY <1>2 DEF Summed
<1>4. ToRead \subseteq Nat \X Counters
  BY <1>1 DEF ToRead
<1>5. ASSUME psys = {} PROVE {p[2] : p \in ToRead} = HostMeters
  <2>1. ASSUME NEW p \in ToRead PROVE p[2] \in HostMeters
    BY <1>2, <1>5, <2>1, SocketParts
  <2>2. ASSUME NEW f \in HostMeters PROVE \E p \in ToRead : p[2] = f
    <3>1. Looked(base_path, sockets) /\ AllAmong(sockets, base_path) /\ Psys(base_path) = {}
      BY <1>5 DEF BuildInv, Listing
    <3>2. Among(sockets, f.socket)
      BY <2>2, <3>1 DEF HostMeters, Looked, AllAmong
    <3>3. PICK i \in DOMAIN sockets : sockets[i].id = f.socket
      BY <3>2 DEF Among
    <3>4. f \in Summed(sockets[i])
      BY <1>5, <2>2, <3>3, SocketParts
    <3>5. f \in Counters
      BY <3>4 DEF Summed
    <3>6. <<i, f>> \in ToRead
      BY <3>4, <3>5 DEF ToRead
    <3> QED BY <3>6
  <2> QED BY <2>1, <2>2
<1> QED BY <1>2, <1>3, <1>4, <1>5

-----------------------------------------------------------------------------
\* The meters that are still to be read, and what the others held when they were.
Rest  == {p[2] : p \in reading.left}
Sofar == reading.value + reading.missed

\* Every meter that was read is between what it held when the sum was begun and what it holds.
SumBounds ==
  /\ Rest \subseteq HostMeters
  /\ Sofar + reading.wrapped <= Sum(energy, HostMeters \ Rest) + Sum(wrapped, Rest)
  /\ reading.before <= Sofar + Sum(energy, Rest) + Sum(wrapped, HostMeters \ Rest)

\* The sum that is made up: each counter is left once, and no record is newer.
Summing ==
  reading.on =>
    /\ pc = "measure"
    /\ \A p \in reading.left : p[1] \in DOMAIN sockets /\ p[2].socket = sockets[p[1]].id
    /\ reading.wrapped <= Sum(wrapped, HostMeters)
    /\ \A i \in DOMAIN record_buffer : record_buffer[i].wrappedAfter <= reading.wrapped
    /\ psys = {} => SumBounds

\* A record, with what it missed, is between what the host had consumed when it was begun and
\* when it was finished, but for what was lost by wrapping.
Bounds(r) ==
  r.metered => /\ r.value + r.missed + r.wrappedBefore <= r.after
               /\ r.before <= r.value + r.missed + r.wrappedAfter

\* The records are bounded, and follow each other.
Balances ==
  /\ \A i \in DOMAIN record_buffer :
       record_buffer[i].wrappedAfter <= Sum(wrapped, HostMeters) /\ Bounds(record_buffer[i])
  /\ Len(record_buffer) = 2 => record_buffer[1].wrappedAfter <= record_buffer[2].wrappedBefore

\* The inductive invariant of the measurement, on top of that of generate_topology.
MeasureInv == MeasureType /\ Summing /\ Balances

\* The fields of a record.
LEMMA RecordFields ==
  ASSUME NEW r \in HostRecord
  PROVE  /\ r.value \in Nat /\ r.missed \in Nat /\ r.before \in Nat /\ r.after \in Nat
         /\ r.wrappedBefore \in Nat /\ r.wrappedAfter \in Nat /\ r.metered \in BOOLEAN
BY DEF HostRecord

\* The fields of the sum that is made up.
LEMMA ReadingFields ==
  ASSUME MeasureType
  PROVE  /\ reading.on \in BOOLEAN /\ reading.left \subseteq Nat \X Counters
         /\ reading.value \in Nat /\ reading.missed \in Nat /\ Sofar \in Nat
         /\ reading.before \in Nat /\ reading.wrapped \in Nat
BY DEF MeasureType, Reading, Sofar

\* The list of records.
LEMMA RecordSeq ==
  ASSUME NEW b \in Seq(HostRecord)
  PROVE  /\ Len(b) \in Nat /\ DOMAIN b = 1 .. Len(b)
         /\ \A i \in DOMAIN b : b[i] \in HostRecord
OBVIOUS

\* What the list is after a record has been added.
LEMMA PushedFacts ==
  ASSUME NEW b \in Seq(HostRecord), NEW r \in HostRecord
  PROVE  /\ Pushed(b, r) \in Seq(HostRecord)
         /\ b = <<>> => Pushed(b, r) = <<r>>
         /\ b # <<>> => Len(b) \in DOMAIN b /\ Pushed(b, r) = <<b[Len(b)], r>>
<1>1. CASE b = <<>>
  BY <1>1 DEF Pushed
<1>2. CASE b # <<>>
  <2>1. Len(b) \in DOMAIN b /\ b[Len(b)] \in HostRecord
    BY <1>2
  <2> HIDE DEF HostRecord
  <2>2. <<b[Len(b)], r>> \in Seq(HostRecord)
    BY <2>1
  <2> QED BY <1>2, <2>1, <2>2 DEF Pushed
<1> QED BY <1>1, <1>2

\* What the meters are does not depend on what they hold.
LEMMA SameMeters ==
  ASSUME UNCHANGED <<base_path, energy>>
  PROVE  Counters' = Counters /\ HostMeters' = HostMeters /\ wrapped' = wrapped
<1>1. Counters' = Counters /\ HostMeters' = HostMeters
  BY DEF Counters, HostMeters
<1>2. energy_uj' = energy_uj
  BY <1>1 DEF energy_uj
<1> QED BY <1>1, <1>2 DEF wrapped

\* The steps of generate_topology, and those of none, leave the measurement alone.
LEMMA MeasureKept ==
  ASSUME MeasureInv, UNCHANGED <<base_path, energy, reading, record_buffer>>,
         pc # "measure" \/ UNCHANGED building
  PROVE  MeasureInv'
<1>1. base_path' = base_path /\ energy' = energy /\ reading' = reading /\ record_buffer' = record_buffer
  OBVIOUS
<1>2. Counters' = Counters /\ HostMeters' = HostMeters /\ wrapped' = wrapped
  BY SameMeters
<1>3. MeasureType'
  BY <1>1, <1>2 DEF MeasureInv, MeasureType, Reading
<1>4. Balances'
  BY <1>1, <1>2 DEF MeasureInv, Balances, Bounds
<1>5. Summing'
  <2>1. CASE pc # "measure"
    BY <1>1, <2>1 DEF MeasureInv, Summing
  <2>2. CASE UNCHANGED building
    BY <1>1, <1>2, <2>2 DEF MeasureInv, Summing, SumBounds, Rest, Sofar, building
  <2> QED BY <2>1, <2>2
<1> QED BY <1>3, <1>4, <1>5 DEF MeasureInv

\* Whatever is consumed, the sums do not fall: a counter wraps, never back.
LEMMA Grows ==
  ASSUME BuildType, MeasureType, NEW f \in base_path, Consume(f), NEW S, S \subseteq HostMeters
  PROVE  Sum(energy, S) <= Sum(energy', S) /\ Sum(wrapped, S) <= Sum(wrapped', S)
<1>1. /\ base_path' = base_path /\ f \in Counters
      /\ energy' = [energy EXCEPT ![f] = energy[f] + 1]
  BY DEF Consume
<1>2. Counters' = Counters
  BY <1>1 DEF Counters
<1>3. IsFiniteSet(S) /\ S \subseteq Counters
  BY Readings, FS_Subset
<1>4. ASSUME NEW g \in S
      PROVE  /\ energy[g] \in Int /\ energy'[g] \in Int /\ energy[g] <= energy'[g]
             /\ wrapped[g] \in Int /\ wrapped'[g] \in Int /\ wrapped[g] <= wrapped'[g]
  <2> DEFINE e == energy[g]
             d == energy'[g]
             u == e % (RaplMax + 1)
             v == d % (RaplMax + 1)
  <2>1. g \in Counters /\ e \in Nat /\ DOMAIN energy = Counters
    BY <1>3, Readings DEF MeasureType
  <2>2. d = e \/ d = e + 1
    BY <1>1, <2>1
  <2>3. wrapped[g] = e - u /\ wrapped'[g] = d - v
    BY <1>2, <2>1 DEF wrapped, energy_uj
  <2>4. u \in Nat /\ v \in Nat /\ ((v = u /\ d = e) \/ (v <= u + 1 /\ d = e + 1))
    <3>1. CASE d = e
      <4>1. u \in Nat
        BY <2>1, Divided
      <4> QED BY <3>1, <4>1
    <3>2. CASE d = e + 1
      <4>1. u \in Nat /\ (e + 1) % (RaplMax + 1) <= u + 1
        BY <2>1, Divided, Zenon
      <4>2. e + 1 \in Nat
        BY <2>1
      <4>3. v \in Nat
        BY <3>2, <4>2, Divided
      <4> QED BY <3>2, <4>1, <4>3
    <3> QED BY <2>2, <3>1, <3>2
  <2> HIDE DEF e, d, u, v
  <2>5. e \in Int /\ d \in Int /\ e <= d /\ e - u \in Int /\ d - v \in Int /\ e - u <= d - v
    BY <2>1, <2>4
  <2> QED BY <2>3, <2>5 DEF e, d
<1>5. Sum(energy, S) <= Sum(energy', S)
  BY <1>3, <1>4, SumMonotone, Zenon
<1>6. Sum(wrapped, S) <= Sum(wrapped', S)
  BY <1>3, <1>4, SumMonotone, Zenon
<1> QED BY <1>5, <1>6

\* Consume preserves the invariant.
LEMMA ConsumeStep ==
  ASSUME BuildType, MeasureInv, NEW f \in base_path, Consume(f) PROVE MeasureInv'
<1>1. /\ base_path' = base_path /\ record_buffer' = record_buffer /\ reading' = reading
      /\ pc' = pc /\ sockets' = sockets /\ psys' = psys
      /\ f \in Counters /\ energy[f] < MaxEnergy
      /\ energy' = [energy EXCEPT ![f] = energy[f] + 1]
  BY DEF Consume, building
<1>2. Counters' = Counters /\ HostMeters' = HostMeters
  BY <1>1 DEF Counters, HostMeters
<1>3. energy \in [Counters -> 0 .. MaxEnergy] /\ MaxEnergy \in Nat
  BY HostTopologyAssumption DEF MeasureInv, MeasureType
<1>4. energy' \in [Counters -> 0 .. MaxEnergy]
  BY <1>1, <1>3
<1>5. MeasureType'
  BY <1>1, <1>2, <1>4 DEF MeasureInv, MeasureType, Reading
<1>6. BuildType'
  BY DEF Consume, building, BuildType
<1> DEFINE H == HostMeters
<1>7. ASSUME NEW S, S \subseteq H
      PROVE  /\ Sum(energy, S) \in Nat /\ Sum(energy', S) \in Nat /\ Sum(wrapped, S) \in Nat
             /\ Sum(wrapped', S) \in Nat
             /\ Sum(energy, S) <= Sum(energy', S) /\ Sum(wrapped, S) <= Sum(wrapped', S)
  <2>1. Totals(S)
    BY <1>7, TotalsNat DEF MeasureInv
  <2>2. (\A T : T \subseteq HostMeters => Totals(T))'
    BY <1>5, <1>6, TotalsNatNext
  <2>3. Sum(energy', S) \in Nat /\ Sum(wrapped', S) \in Nat
    BY <1>2, <1>7, <2>2 DEF Totals
  <2>4. Sum(energy, S) <= Sum(energy', S) /\ Sum(wrapped, S) <= Sum(wrapped', S)
    BY <1>7, Grows DEF MeasureInv
  <2> QED BY <2>1, <2>3, <2>4 DEF Totals
<1>8. Balances'
  <2> DEFINE w == Sum(wrapped, H)
             x == Sum(wrapped', H)
  <2>1. w \in Nat /\ x \in Nat /\ w <= x
    BY <1>7
  <2>2. \A i \in DOMAIN record_buffer : record_buffer[i].wrappedAfter \in Nat
    BY RecordSeq, RecordFields DEF MeasureInv, MeasureType
  <2>3. \A i \in DOMAIN record_buffer : record_buffer[i].wrappedAfter <= w
    BY DEF MeasureInv, Balances
  <2>4. (Sum(wrapped, HostMeters))' = x
    BY <1>2
  <2> HIDE DEF w, x
  <2>5. \A i \in DOMAIN record_buffer : record_buffer[i].wrappedAfter <= x
    BY <2>1, <2>2, <2>3
  <2> QED BY <1>1, <2>4, <2>5 DEF MeasureInv, Balances, Bounds
<1>9. Summing'
  <2> SUFFICES ASSUME reading.on PROVE Summing'
    BY <1>1 DEF Summing
  <2>1. reading.wrapped <= (Sum(wrapped, HostMeters))'
    <3>1. /\ reading.wrapped \in Nat /\ Sum(wrapped, H) \in Nat /\ Sum(wrapped', H) \in Nat
          /\ Sum(wrapped, H) <= Sum(wrapped', H) /\ reading.wrapped <= Sum(wrapped, H)
      BY <1>7, ReadingFields DEF MeasureInv, Summing
    <3> QED BY <1>2, <3>1
  <2>2. psys = {} => SumBounds'
    <3> SUFFICES ASSUME psys = {} PROVE SumBounds'
      OBVIOUS
    <3> DEFINE Q == HostMeters \ Rest
    <3>1. SumBounds
      BY DEF MeasureInv, Summing
    <3>2. Rest' = Rest /\ Sofar' = Sofar /\ Q' = Q
      BY <1>1, <1>2 DEF Rest, Sofar
    <3>3. Rest \subseteq H /\ Q \subseteq H
      BY <3>1 DEF SumBounds
    <3> DEFINE a == Sum(energy, Q)
               b == Sum(wrapped, Rest)
               c == Sum(energy, Rest)
               d == Sum(wrapped, Q)
               ap == Sum(energy', Q)
               bp == Sum(wrapped', Rest)
               cp == Sum(energy', Rest)
               dp == Sum(wrapped', Q)
    <3>4. Sofar + reading.wrapped <= a + b /\ reading.before <= Sofar + c + d
      BY <3>1 DEF SumBounds
    <3>5. a \in Nat /\ ap \in Nat /\ a <= ap /\ d \in Nat /\ dp \in Nat /\ d <= dp
      BY <1>7, <3>3
    <3>6. b \in Nat /\ bp \in Nat /\ b <= bp /\ c \in Nat /\ cp \in Nat /\ c <= cp
      BY <1>7, <3>3
    <3>7. Sofar \in Nat /\ reading.wrapped \in Nat /\ reading.before \in Nat
      BY ReadingFields DEF MeasureInv
    <3> HIDE DEF a, b, c, d, ap, bp, cp, dp
    <3>8. Sofar + reading.wrapped <= ap + bp /\ reading.before <= Sofar + cp + dp
      BY <3>4, <3>5, <3>6, <3>7
    <3> HIDE DEF Q
    <3>9. Q' = HostMeters' \ Rest'
      BY DEF Q
    <3>10. /\ (Sum(energy, HostMeters \ Rest))' = ap /\ (Sum(wrapped, Rest))' = bp
           /\ (Sum(energy, Rest))' = cp /\ (Sum(wrapped, HostMeters \ Rest))' = dp
      BY <3>2, <3>9 DEF ap, bp, cp, dp
    <3> QED BY <1>1, <1>2, <3>2, <3>3, <3>8, <3>10 DEF SumBounds
  <2> QED BY <1>1, <2>1, <2>2 DEF MeasureInv, Summing
<1> QED BY <1>5, <1>8, <1>9 DEF MeasureInv

\* A sum is begun with all the meters left.
LEMMA BeginStep == ASSUME BuildInv, MeasureInv, BeginSum PROVE MeasureInv'
<1> DEFINE H == HostMeters
           E == Sum(energy, H)
           W == Sum(wrapped, H)
<1>1. /\ pc = "measure" /\ pc' = pc /\ sockets' = sockets /\ psys' = psys
      /\ UNCHANGED <<base_path, energy, record_buffer>>
  BY DEF BeginSum, building
<1>2. E \in Nat /\ W \in Nat
  <2>1. Totals(H)
    BY TotalsNat DEF BuildInv, MeasureInv
  <2> QED BY <2>1 DEF Totals
<1>3. Consumed = E /\ Wrapped = W
  BY SumFunctionIsSum DEF Consumed, Wrapped
<1>4. /\ reading'.on = TRUE /\ reading'.left = ToRead /\ reading'.value = 0 /\ reading'.missed = 0
      /\ reading'.before = E /\ reading'.wrapped = W
  BY <1>3 DEF BeginSum, ToRead
<1>5. Counters' = Counters /\ H' = H /\ wrapped' = wrapped
  BY <1>1, SameMeters
<1>6. ToRead \subseteq Nat \X Counters
  BY <1>1, ToReadFacts
<1> HIDE DEF E, W
<1>7. reading' \in Reading'
  <2>1. reading' = [on |-> TRUE, left |-> ToRead, value |-> 0, missed |-> 0, before |-> E,
                    wrapped |-> W]
    BY <1>3 DEF BeginSum, ToRead
  <2> QED BY <1>2, <1>5, <1>6, <2>1 DEF Reading
<1>8. MeasureType'
  BY <1>1, <1>5, <1>7 DEF MeasureInv, MeasureType
<1>9. Balances'
  BY <1>1, <1>5 DEF MeasureInv, Balances, Bounds
<1>10. ASSUME psys = {} PROVE SumBounds'
  <2>1. Rest' = H /\ Sofar' = 0
    BY <1>1, <1>4, <1>10, ToReadFacts DEF Rest, Sofar
  <2>2. (HostMeters \ Rest)' = {}
    BY <1>5, <2>1
  <2>3. (Sum(energy, HostMeters \ Rest))' = 0 /\ (Sum(wrapped, HostMeters \ Rest))' = 0
    BY <2>2, SumEmpty
  <2>4. (Sum(energy, Rest))' = E /\ (Sum(wrapped, Rest))' = W
    BY <1>1, <1>5, <2>1 DEF E, W
  <2> QED BY <1>2, <1>4, <1>5, <2>1, <2>3, <2>4 DEF SumBounds
<1>11. Summing'
  <2>1. \A i \in DOMAIN record_buffer : record_buffer[i].wrappedAfter <= W
    BY DEF MeasureInv, Balances, W
  <2>2. (Sum(wrapped, HostMeters))' = W
    BY <1>5 DEF W
  <2>3. \A p \in reading'.left : p[1] \in DOMAIN sockets /\ p[2].socket = sockets[p[1]].id
    BY <1>1, <1>4, ToReadFacts
  <2>4. reading'.wrapped <= W
    BY <1>2, <1>4
  <2> QED BY <1>1, <1>4, <1>10, <2>1, <2>2, <2>3, <2>4 DEF Summing
<1> QED BY <1>8, <1>9, <1>11 DEF MeasureInv

\* A meter is read, or missed: from then on it counts with what it held.
LEMMA ReadStep ==
  ASSUME BuildInv, MeasureInv, NEW p \in reading.left, NEW ok \in BOOLEAN, ReadCounter(p, ok)
  PROVE  MeasureInv'
<1> DEFINE f == p[2]
           H == HostMeters
           u == energy_uj[f]
<1>1. /\ pc' = pc /\ sockets' = sockets /\ psys' = psys /\ reading.on
      /\ UNCHANGED <<base_path, energy, record_buffer>>
  BY DEF ReadCounter, building
<1>2. Counters' = Counters /\ H' = H /\ wrapped' = wrapped
  BY <1>1, SameMeters
<1>3. f \in Counters /\ energy[f] \in Nat /\ wrapped[f] \in Nat /\ u \in Nat /\ energy[f] = wrapped[f] + u
  BY ReadingFields, Readings DEF BuildInv, MeasureInv
<1>4. /\ reading'.on = reading.on /\ reading'.left = reading.left \ {p}
      /\ reading'.before = reading.before /\ reading'.wrapped = reading.wrapped
      /\ \/ reading'.value = reading.value + u /\ reading'.missed = reading.missed
         \/ reading'.value = reading.value /\ reading'.missed = reading.missed + u
      /\ reading' \in Reading
  <2>1. reading \in Reading
    BY DEF MeasureInv, MeasureType
  <2> HIDE DEF u
  <2>2. CASE ok
    <3>1. reading' = [reading EXCEPT !.left = @ \ {p}, !.value = @ + u]
      BY <2>2 DEF ReadCounter, u
    <3>2. /\ reading'.on = reading.on /\ reading'.left = reading.left \ {p}
          /\ reading'.before = reading.before /\ reading'.wrapped = reading.wrapped
          /\ reading'.value = reading.value + u /\ reading'.missed = reading.missed
      BY <2>1, <3>1 DEF Reading
    <3>3. reading.value + u \in Nat
      BY <1>3, ReadingFields DEF MeasureInv
    <3>4. reading' \in Reading
      BY <2>1, <3>1, <3>3 DEF Reading
    <3> QED BY <3>2, <3>4
  <2>3. CASE ~ok
    <3>1. reading' = [reading EXCEPT !.left = @ \ {p}, !.missed = @ + u]
      BY <2>3 DEF ReadCounter, u
    <3>2. /\ reading'.on = reading.on /\ reading'.left = reading.left \ {p}
          /\ reading'.before = reading.before /\ reading'.wrapped = reading.wrapped
          /\ reading'.missed = reading.missed + u /\ reading'.value = reading.value
      BY <2>1, <3>1 DEF Reading
    <3>3. reading.missed + u \in Nat
      BY <1>3, ReadingFields DEF MeasureInv
    <3>4. reading' \in Reading
      BY <2>1, <3>1, <3>3 DEF Reading
    <3> QED BY <3>2, <3>4
  <2> QED BY <2>2, <2>3
<1>5. MeasureType'
  BY <1>1, <1>2, <1>4 DEF MeasureInv, MeasureType, Reading
<1>6. Balances'
  BY <1>1, <1>2 DEF MeasureInv, Balances, Bounds
<1>7. ASSUME psys = {} PROVE SumBounds'
  <2>1. SumBounds
    BY <1>1, <1>7 DEF MeasureInv, Summing
  <2>2. f \in Rest /\ Rest \subseteq H
    BY <2>1 DEF Rest, SumBounds
  <2>3. Rest' = Rest \ {f}
    <3>1. ASSUME NEW q \in reading.left, q[2] = f PROVE q = p
      <4>1. q \in Nat \X Counters /\ p \in Nat \X Counters
        BY ReadingFields DEF MeasureInv
      <4>2. /\ q[1] \in DOMAIN sockets /\ q[2].socket = sockets[q[1]].id
            /\ p[1] \in DOMAIN sockets /\ p[2].socket = sockets[p[1]].id
        BY <1>1 DEF MeasureInv, Summing
      <4>3. UniqueIds(sockets)
        BY DEF BuildInv, BuildType, Sound
      <4>4. q[1] = p[1]
        BY <3>1, <4>2, <4>3 DEF UniqueIds
      <4> QED BY <3>1, <4>1, <4>4
    <3>2. Rest' = {q[2] : q \in reading.left \ {p}}
      BY <1>4 DEF Rest
    <3> QED BY <3>1, <3>2 DEF Rest
  <2> DEFINE Q == H \ Rest
             a == Sum(energy, Q)
             b == Sum(wrapped, Rest)
             c == Sum(energy, Rest)
             d == Sum(wrapped, Q)
             bp == Sum(wrapped, Rest \ {f})
             cp == Sum(energy, Rest \ {f})
             e == energy[f]
             w == wrapped[f]
  <2>4. /\ c = e + cp /\ b = w + bp
        /\ Sum(energy, H \ (Rest \ {f})) = e + a /\ Sum(wrapped, H \ (Rest \ {f})) = w + d
    BY <2>2, Taken, Zenon DEF BuildInv, MeasureInv
  <2>5. a \in Nat /\ b \in Nat /\ c \in Nat /\ d \in Nat /\ bp \in Nat /\ cp \in Nat
    <3>1. Totals(Q) /\ Totals(Rest) /\ Totals(Rest \ {f})
      BY <2>2, TotalsNat DEF BuildInv, MeasureInv
    <3> QED BY <3>1 DEF Totals
  <2>6. /\ (Sum(energy, HostMeters \ Rest))' = e + a /\ (Sum(wrapped, Rest))' = bp
        /\ (Sum(energy, Rest))' = cp /\ (Sum(wrapped, HostMeters \ Rest))' = w + d
    BY <1>1, <1>2, <2>3, <2>4
  <2>7. Sofar + reading.wrapped <= a + b /\ reading.before <= Sofar + c + d
    BY <2>1 DEF SumBounds
  <2>8. Sofar \in Nat /\ reading.wrapped \in Nat /\ reading.before \in Nat
    BY ReadingFields DEF MeasureInv
  <2>9. e \in Nat /\ w \in Nat /\ u \in Nat /\ e = w + u
    BY <1>3
  <2>10. Sofar' = Sofar + u
    <3>1. reading.value \in Nat /\ reading.missed \in Nat
      BY ReadingFields DEF MeasureInv
    <3> HIDE DEF u
    <3> QED BY <1>4, <2>9, <3>1 DEF Sofar
  <2> HIDE DEF a, b, c, d, bp, cp, e, w, u
  <2>11. Sofar + u + reading.wrapped <= e + a + bp
    BY <2>4, <2>5, <2>7, <2>8, <2>9
  <2>12. reading.before <= Sofar + u + cp + (w + d)
    BY <2>4, <2>5, <2>7, <2>8, <2>9
  <2>13. Rest' \subseteq HostMeters'
    BY <1>2, <2>2, <2>3
  <2> QED BY <1>4, <2>6, <2>10, <2>11, <2>12, <2>13 DEF SumBounds
<1>8. Summing'
  <2>1. (Sum(wrapped, HostMeters))' = Sum(wrapped, HostMeters)
    BY <1>2
  <2> QED BY <1>1, <1>4, <1>7, <2>1 DEF MeasureInv, Summing
<1> QED BY <1>5, <1>6, <1>8 DEF MeasureInv

\* A record that is bounded and not older than the others is added.
LEMMA Adds ==
  ASSUME BuildInv, MeasureInv, UNCHANGED <<base_path, energy>>, NEW r \in HostRecord, Bounds(r),
         record_buffer' = Pushed(record_buffer, r), r.wrappedAfter = Sum(wrapped, HostMeters),
         \A i \in DOMAIN record_buffer : record_buffer[i].wrappedAfter <= r.wrappedBefore
  PROVE  Balances' /\ record_buffer' \in Seq(HostRecord) /\ Len(record_buffer') <= 2
<1> DEFINE b == record_buffer
           W == Sum(wrapped, HostMeters)
<1>1. Counters' = Counters /\ HostMeters' = HostMeters /\ wrapped' = wrapped
  BY SameMeters
<1>2. (Sum(wrapped, HostMeters))' = W /\ r.wrappedAfter <= W
  <2>1. r.wrappedAfter \in Nat
    BY RecordFields
  <2> QED BY <1>1, <2>1
<1>3. b \in Seq(HostRecord) /\ \A i \in DOMAIN b : b[i].wrappedAfter <= W /\ Bounds(b[i])
  BY DEF MeasureInv, MeasureType, Balances
<1> HIDE DEF b, W
<1>4. CASE b = <<>>
  <2>1. b' = <<r>> /\ b' \in Seq(HostRecord)
    BY <1>3, <1>4, PushedFacts DEF b
  <2>2. Len(b') = 1 /\ DOMAIN b' = {1} /\ b'[1] = r
    BY <2>1
  <2> QED BY <1>2, <2>1, <2>2 DEF Balances, Bounds, b
<1>5. CASE b # <<>>
  <2> DEFINE l == b[Len(b)]
  <2>1. Len(b) \in DOMAIN b /\ b' = <<l, r>> /\ b' \in Seq(HostRecord)
    BY <1>3, <1>5, PushedFacts DEF b
  <2>2. l.wrappedAfter <= W /\ Bounds(l) /\ l.wrappedAfter <= r.wrappedBefore
    BY <1>3, <2>1 DEF b
  <2> HIDE DEF l
  <2>3. Len(b') = 2 /\ DOMAIN b' = {1, 2} /\ b'[1] = l /\ b'[2] = r
    BY <2>1
  <2>4. Balances'
    BY <1>2, <2>2, <2>3 DEF Balances, Bounds, b
  <2> QED BY <2>1, <2>3, <2>4 DEF b
<1> QED BY <1>4, <1>5

\* psys alone is read: nothing happens in between.
LEMMA PsysStep == ASSUME BuildInv, MeasureInv, ReadPsys PROVE MeasureInv'
<1> DEFINE f == CHOOSE g \in psys : TRUE
           E == Sum(energy, HostMeters)
           W == Sum(wrapped, HostMeters)
           u == energy_uj[f]
           r == [value |-> u, missed |-> 0, before |-> Consumed, after |-> Consumed,
                 wrappedBefore |-> Wrapped, wrappedAfter |-> Wrapped, metered |-> TRUE]
<1>1. /\ pc = "measure" /\ psys # {} /\ ~reading.on /\ record_buffer' = Pushed(record_buffer, r)
      /\ base_path' = base_path /\ energy' = energy /\ reading' = reading
  BY DEF ReadPsys
<1>2. Consumed = E /\ Wrapped = W
  BY SumFunctionIsSum DEF Consumed, Wrapped
<1>3. f \in Counters /\ HostMeters = {f}
  <2>1. psys = Psys(base_path) /\ psys = {f} /\ f \in Counters
    BY <1>1, PsysRead
  <2> HIDE DEF f
  <2> QED BY <1>1, <2>1 DEF HostMeters
<1>4. u \in Nat /\ E \in Nat /\ W \in Nat /\ E = W + u
  <2>1. energy[f] \in Nat /\ wrapped[f] \in Nat /\ u \in Nat /\ energy[f] = wrapped[f] + u
    BY <1>3, Readings DEF BuildInv, MeasureInv
  <2> HIDE DEF f
  <2>2. Sum(energy, {f}) = energy[f] + Sum(energy, {f} \ {f}) /\
        Sum(wrapped, {f}) = wrapped[f] + Sum(wrapped, {f} \ {f})
    <3>1. f \in {f} /\ {f} \subseteq HostMeters
      BY <1>3
    <3> QED BY <3>1, Taken, Zenon DEF BuildInv, MeasureInv
  <2>3. Sum(energy, {f} \ {f}) = 0 /\ Sum(wrapped, {f} \ {f}) = 0
    <3>1. {f} \ {f} = {}
      OBVIOUS
    <3> QED BY <3>1, SumEmpty
  <2>4. E = energy[f] /\ W = wrapped[f]
    BY <1>3, <2>1, <2>2, <2>3
  <2> QED BY <2>1, <2>4
<1> HIDE DEF u, E, W
<1>5. /\ r.value = u /\ r.missed = 0 /\ r.before = E /\ r.after = E
      /\ r.wrappedBefore = W /\ r.wrappedAfter = W /\ r.metered = TRUE
  BY <1>2
<1>6. r \in HostRecord
  BY <1>2, <1>4 DEF HostRecord
<1> HIDE DEF r
<1>7. Bounds(r)
  BY <1>4, <1>5 DEF Bounds
<1>8. \A i \in DOMAIN record_buffer : record_buffer[i].wrappedAfter <= r.wrappedBefore
  BY <1>5 DEF MeasureInv, Balances, W
<1>9. Balances' /\ record_buffer' \in Seq(HostRecord) /\ Len(record_buffer') <= 2
  <2>1. UNCHANGED <<base_path, energy>> /\ r.wrappedAfter = Sum(wrapped, HostMeters)
    BY <1>1, <1>5 DEF W
  <2> QED BY <1>1, <1>6, <1>7, <1>8, <2>1, Adds
<1>10. Counters' = Counters
  BY <1>1 DEF Counters
<1>11. MeasureType'
  BY <1>1, <1>9, <1>10 DEF MeasureInv, MeasureType, Reading
<1>12. Summing'
  BY <1>1 DEF Summing
<1> QED BY <1>9, <1>11, <1>12 DEF MeasureInv

\* The sum is finished: nothing is left.
LEMMA EndStep == ASSUME BuildInv, MeasureInv, EndSum PROVE MeasureInv'
<1> DEFINE E == Sum(energy, HostMeters)
           W == Sum(wrapped, HostMeters)
           r == [value |-> reading.value, missed |-> reading.missed, before |-> reading.before,
                 after |-> Consumed, wrappedBefore |-> reading.wrapped,
                 wrappedAfter |-> Wrapped, metered |-> psys = {}]
<1>1. /\ reading.on /\ reading.left = {} /\ record_buffer' = Pushed(record_buffer, r)
      /\ base_path' = base_path /\ energy' = energy /\ reading' = NoReading
  BY DEF EndSum
<1>2. Consumed = E /\ Wrapped = W
  BY SumFunctionIsSum DEF Consumed, Wrapped
<1>3. E \in Nat /\ W \in Nat
  <2>1. Totals(HostMeters)
    BY TotalsNat DEF BuildInv, MeasureInv
  <2> QED BY <2>1 DEF Totals
<1>4. /\ reading.value \in Nat /\ reading.missed \in Nat /\ reading.before \in Nat
      /\ reading.wrapped \in Nat
  BY ReadingFields DEF MeasureInv
<1> HIDE DEF E, W
<1>5. /\ r.value = reading.value /\ r.missed = reading.missed /\ r.before = reading.before
      /\ r.after = E /\ r.wrappedBefore = reading.wrapped /\ r.wrappedAfter = W
      /\ r.metered = (psys = {})
  BY <1>2
<1>6. r \in HostRecord
  BY <1>2, <1>3, <1>4 DEF HostRecord
<1> HIDE DEF r
<1>7. Bounds(r)
  <2> SUFFICES ASSUME psys = {}
               PROVE  /\ reading.value + reading.missed + reading.wrapped <= E
                      /\ reading.before <= reading.value + reading.missed + W
    BY <1>5 DEF Bounds
  <2>1. SumBounds
    BY <1>1 DEF MeasureInv, Summing
  <2>2. Rest = {} /\ HostMeters \ Rest = HostMeters
    BY <1>1 DEF Rest
  <2>3. Sum(energy, {}) = 0 /\ Sum(wrapped, {}) = 0
    BY SumEmpty
  <2>4. /\ reading.value + reading.missed + reading.wrapped <= E + 0
        /\ reading.before <= reading.value + reading.missed + 0 + W
    BY <2>1, <2>2, <2>3 DEF SumBounds, Sofar, E, W
  <2> QED BY <1>3, <1>4, <2>4
<1>8. \A i \in DOMAIN record_buffer : record_buffer[i].wrappedAfter <= r.wrappedBefore
  BY <1>1, <1>5 DEF MeasureInv, Summing
<1>9. Balances' /\ record_buffer' \in Seq(HostRecord) /\ Len(record_buffer') <= 2
  <2>1. UNCHANGED <<base_path, energy>> /\ r.wrappedAfter = Sum(wrapped, HostMeters)
    BY <1>1, <1>5 DEF W
  <2> QED BY <1>1, <1>6, <1>7, <1>8, <2>1, Adds
<1>10. Counters' = Counters
  BY <1>1 DEF Counters
<1>11. MeasureType'
  BY <1>1, <1>9, <1>10 DEF MeasureInv, MeasureType, Reading, NoReading
<1>12. Summing'
  BY <1>1 DEF Summing, NoReading
<1> QED BY <1>9, <1>11, <1>12 DEF MeasureInv

\* The invariant holds before anything is consumed.
LEMMA MeasureStart == HostInit => MeasureInv
<1> SUFFICES ASSUME HostInit PROVE MeasureInv
  OBVIOUS
<1>1. energy = [f \in Counters |-> 0] /\ record_buffer = <<>> /\ reading = NoReading
  BY DEF HostInit
<1>2. MeasureType
  BY <1>1, HostTopologyAssumption DEF MeasureType, Reading, NoReading
<1>3. Balances
  BY <1>1 DEF Balances
<1>4. Summing
  BY <1>1 DEF Summing, NoReading
<1> QED BY <1>2, <1>3, <1>4 DEF MeasureInv

\* Every step preserves the invariant.
LEMMA MeasureStep == BuildInv /\ MeasureInv /\ [HostNext]_host_vars => MeasureInv'
<1> SUFFICES ASSUME BuildInv, MeasureInv, [HostNext]_host_vars PROVE MeasureInv'
  OBVIOUS
<1>1. ASSUME NEW f \in base_path,
             \/ DomainFolder(f) \/ MmioFolder(f) \/ MmioDomainFolder(f) \/ SocketFolder(f)
             \/ FolderPanics(f) \/ FallbackFolder(f) \/ PsysFolder(f)
      PROVE  MeasureInv'
  <2>1. UNCHANGED <<base_path, energy, reading, record_buffer>> /\ pc # "measure"
    BY <1>1 DEF DomainFolder, MmioFolder, MmioDomainFolder, SocketFolder, FolderPanics,
                FallbackFolder, PsysFolder, Visit
  <2> QED BY <2>1, MeasureKept
<1>2. ASSUME NEW f \in base_path, Consume(f) PROVE MeasureInv'
  BY <1>2, ConsumeStep DEF BuildInv
<1>3. CASE Listed \/ add_cpu_cores
  <2>1. UNCHANGED <<base_path, energy, reading, record_buffer>> /\ pc # "measure"
    BY <1>3 DEF Listed, add_cpu_cores
  <2> QED BY <2>1, MeasureKept
<1>4. CASE ReadPsys \/ BeginSum \/ EndSum
  BY <1>4, PsysStep, BeginStep, EndStep
<1>5. ASSUME NEW p \in reading.left, NEW ok \in BOOLEAN, ReadCounter(p, ok) PROVE MeasureInv'
  BY <1>5, ReadStep
<1>6. CASE UNCHANGED host_vars
  BY <1>6, MeasureKept DEF host_vars
<1> QED BY <1>1, <1>2, <1>3, <1>4, <1>5, <1>6 DEF HostNext

\* For any powercap directory the topology and its records keep their types, sockets and
\* domains have ids of their own, and at most two records are kept (powercap_rapl.rs
\* 190-331, mod.rs 350-404, 780-828).
THEOREM HostTypeAlways == HostSpec => []HostTypeOK
<1>1. BuildInv /\ MeasureInv => HostTypeOK
  BY DEF BuildInv, BuildType, Sound, UniqueIds, UniqueDomains, MeasureInv, MeasureType, HostTypeOK
<1> QED BY <1>1, BuildStart, BuildStep, MeasureStart, MeasureStep, PTL DEF HostSpec

\* For any powercap directory, size of the counters, failures of reading and whatever the
\* counters count while they are read one after the other: the host is charged for what it has
\* consumed, within the time the readings take and but for what could not be read
\* (powercap_rapl.rs 101-146, mod.rs 780-828).
THEOREM HostEnergySoundAlways == HostSpec => []HostEnergySound
<1>1. MeasureInv => HostEnergySound
  <2> DEFINE p == record_buffer[1]
             l == record_buffer[2]
  <2> SUFFICES ASSUME MeasureInv, Len(record_buffer) = 2, p.metered, l.metered
               PROVE  /\ l.value - p.value <= l.after - p.before + p.missed
                      /\ p.wrappedBefore = l.wrappedAfter =>
                           l.value - p.value >= l.before - p.after - l.missed
    BY DEF HostEnergySound
  <2>1. record_buffer \in Seq(HostRecord) /\ 1 \in DOMAIN record_buffer /\ 2 \in DOMAIN record_buffer
    BY RecordSeq DEF MeasureInv, MeasureType
  <2>2. p \in HostRecord /\ l \in HostRecord
    BY <2>1, RecordSeq
  <2>3. Bounds(p) /\ Bounds(l) /\ p.wrappedAfter <= l.wrappedBefore
    BY <2>1 DEF MeasureInv, Balances
  <2> HIDE DEF p, l
  <2>4. /\ p.value + p.missed + p.wrappedBefore <= p.after
        /\ p.before <= p.value + p.missed + p.wrappedAfter
        /\ l.value + l.missed + l.wrappedBefore <= l.after
        /\ l.before <= l.value + l.missed + l.wrappedAfter
    BY <2>3 DEF Bounds
  <2>5. /\ p.value \in Nat /\ p.missed \in Nat /\ p.before \in Nat /\ p.after \in Nat
        /\ p.wrappedBefore \in Nat /\ p.wrappedAfter \in Nat
        /\ l.value \in Nat /\ l.missed \in Nat /\ l.before \in Nat /\ l.after \in Nat
        /\ l.wrappedBefore \in Nat /\ l.wrappedAfter \in Nat
    BY <2>2, RecordFields
  <2> QED BY <2>3, <2>4, <2>5
<1> QED BY <1>1, BuildStart, BuildStep, MeasureStart, MeasureStep, PTL DEF HostSpec
=============================================================================
