--------------------------- MODULE ProcessTracker ---------------------------
(***************************************************************************)
(* The histories of the running processes (sensors/utils.rs).  An exporter *)
(* cycle empties the vectors of the processes that were gone at the last   *)
(* snapshot, drops empty vectors, takes a snapshot of the process table    *)
(* and adds one record per process to the vector of its pid.               *)
(*                                                                         *)
(* Between two snapshots processes start, stop, run another executable and *)
(* end, pids are reused, and the wall clock may be set back.               *)
(***************************************************************************)
EXTENDS Naturals, Sequences, FiniteSets, SequencesExt

CONSTANTS
  Pid,                      \* process ids
  Comm,                     \* executables
  max_records_per_process,  \* 5 in Topology::new
  MaxClock                  \* bound on the wall clock, for model checking

ASSUME ProcessTrackerAssumption ==
  /\ IsFiniteSet(Pid) /\ Cardinality(Pid) > 1   \* init, and scaphandre
  /\ max_records_per_process \in Nat \ {0}
  /\ MaxClock \in Nat

VARIABLES
  clock,    \* wall clock
  setBack,  \* the wall clock has been set back
  phase,    \* what the exporter does next
  cursor,   \* next index and end of the loop that drops empty vectors
  sysinfo,  \* process table at the last snapshot
  taken,    \* wall clock at the last snapshot
  pending,  \* pids of the snapshot still to be added
  procs     \* vectors of records, newest record first

vars == <<clock, setBack, phase, cursor, sysinfo, taken, pending, procs>>

Process == [comm : Comm, status : {"Run", "Stop"}]
Record  == [pid : Pid, comm : Comm, timestamp : Nat]

\* The processes that P, a set of pids, may stand for.
Tables(P) == [P -> Process]

\* The state has its types; what is still to be added is in the snapshot.
TypeOK ==
  /\ clock \in Nat
  /\ setBack \in BOOLEAN
  /\ phase \in {"clean", "drop", "refresh", "add"}
  /\ cursor \in [next : Nat \ {0}, end : Nat]
  /\ DOMAIN sysinfo \subseteq Pid
  /\ sysinfo \in Tables(DOMAIN sysinfo)
  /\ taken \in Nat
  /\ pending \subseteq DOMAIN sysinfo
  /\ procs \in Seq(Seq(Record))

Init ==
  /\ clock = 0
  /\ setBack = FALSE
  /\ phase = "clean"
  /\ cursor = [next |-> 1, end |-> 0]
  /\ sysinfo \in Tables(Pid)
  /\ taken = 0
  /\ pending = {}
  /\ procs = <<>>

-----------------------------------------------------------------------------
(***************************************************************************)
(* The wall clock.                                                         *)
(***************************************************************************)
Tick ==
  /\ clock < MaxClock
  /\ clock' = clock + 1
  /\ UNCHANGED <<setBack, phase, cursor, sysinfo, taken, pending, procs>>

SetClockBack ==
  /\ clock > 0
  /\ clock' = clock - 1
  /\ setBack' = TRUE
  /\ UNCHANGED <<phase, cursor, sysinfo, taken, pending, procs>>

-----------------------------------------------------------------------------
(***************************************************************************)
(* Cleaning.                                                               *)
(***************************************************************************)

\* Only stopped processes and those without an entry are considered terminated.
Terminated(p) == p \notin DOMAIN sysinfo \/ sysinfo[p].status = "Stop"

Emptied(v) == IF v # <<>> /\ Terminated(v[1].pid) THEN <<>> ELSE v

\* Empties vectors, then calls drop_empty_process_records_vectors, whose loop ends
\* one short of the number of vectors at its start.
clean_terminated_process_records_vectors ==
  /\ phase = "clean"
  /\ procs' = [i \in DOMAIN procs |-> Emptied(procs[i])]
  /\ cursor' = [next |-> 1, end |-> IF procs = <<>> THEN 0 ELSE Len(procs) - 1]
  /\ phase' = "drop"
  /\ UNCHANGED <<clock, setBack, sysinfo, taken, pending>>

\* json, prometheuspush and most cycles of qemu do not clean.
SkipCleaning ==
  /\ phase = "clean"
  /\ phase' = "refresh"
  /\ UNCHANGED <<clock, setBack, cursor, sysinfo, taken, pending, procs>>

\* Faulty variant: an empty vector is stepped over.
drop_empty_process_records_vectors_keep ==
  /\ phase = "drop"
  /\ cursor.next <= cursor.end
  /\ cursor' = [cursor EXCEPT !.next = @ + 1]
  /\ UNCHANGED <<clock, setBack, phase, sysinfo, taken, pending, procs>>

\* One iteration; a removal moves the next vector to the index just examined.
drop_empty_process_records_vectors ==
  /\ phase = "drop"
  /\ cursor.next <= cursor.end
  /\ procs' = IF cursor.next <= Len(procs) /\ procs[cursor.next] = <<>>
              THEN RemoveAt(procs, cursor.next) ELSE procs
  /\ cursor' = [cursor EXCEPT !.next = @ + 1]
  /\ UNCHANGED <<clock, setBack, phase, sysinfo, taken, pending>>

DropDone ==
  /\ phase = "drop"
  /\ cursor.next > cursor.end
  /\ cursor' = [next |-> 1, end |-> 0]
  /\ phase' = "refresh"
  /\ UNCHANGED <<clock, setBack, sysinfo, taken, pending, procs>>

-----------------------------------------------------------------------------
(***************************************************************************)
(* Adding records.                                                         *)
(***************************************************************************)

\* The snapshots that can follow: any, because processes start and end and pids are
\* reused.
Snapshots == UNION {Tables(P) : P \in SUBSET Pid}

\* Takes a snapshot; its processes are then added in the order of a hash table.
refresh_procs ==
  /\ phase = "refresh"
  /\ sysinfo' \in Snapshots
  /\ taken' = clock
  /\ pending' = DOMAIN sysinfo'
  /\ phase' = IF pending' = {} THEN "clean" ELSE "add"
  /\ UNCHANGED <<clock, setBack, cursor, procs>>

\* Indices of the vectors that hold records of pid p.
VectorsOf(p) == {i \in DOMAIN procs : procs[i] # <<>> /\ procs[i][1].pid = p}

\* The orders sort_by (a stable sort, newest first) can leave the records of v in.
SortOrders(v) ==
  {f \in [DOMAIN v -> DOMAIN v] :
     \A k, l \in DOMAIN v : k < l =>
        \/ v[f[k]].timestamp > v[f[l]].timestamp
        \/ v[f[k]].timestamp = v[f[l]].timestamp /\ f[k] < f[l]}

\* A vector that is too long is sorted and popped until it is not.
clean_old_process_records(v) ==
  IF Len(v) <= max_records_per_process
  THEN {v}
  ELSE {[i \in 1 .. max_records_per_process |-> v[f[i]]] : f \in SortOrders(v)}

\* Faulty variant: a change of executable is not noticed.
History_any(v, comm) == v

\* The records a new one is put in front of: none if the executable changed.
History(v, comm) == IF comm = v[1].comm THEN v ELSE <<>>

\* Faulty variant: no vector is looked up.
add_process_record_push(p) ==
  LET record == [pid |-> p, comm |-> sysinfo[p].comm, timestamp |-> clock]
  IN  /\ phase = "add"
      /\ p \in pending
      /\ procs' = Append(procs, <<record>>)
      /\ pending' = pending \ {p}
      /\ phase' = IF pending' = {} THEN "clean" ELSE "add"
      /\ UNCHANGED <<clock, setBack, cursor, sysinfo, taken>>

\* Faulty variant: the record is put behind the others.
add_process_record_behind(p) ==
  LET record == [pid |-> p, comm |-> sysinfo[p].comm, timestamp |-> clock]
  IN  /\ phase = "add"
      /\ p \in pending
      /\ IF VectorsOf(p) = {}
         THEN procs' = Append(procs, <<record>>)
         ELSE LET i == CHOOSE i \in VectorsOf(p) : \A j \in VectorsOf(p) : i <= j
              IN  \E v \in clean_old_process_records(
                             Append(History(procs[i], record.comm), record)) :
                     procs' = [procs EXCEPT ![i] = v]
      /\ pending' = pending \ {p}
      /\ phase' = IF pending' = {} THEN "clean" ELSE "add"
      /\ UNCHANGED <<clock, setBack, cursor, sysinfo, taken>>

\* The first vector of the pid gets the record, or a new vector does.
add_process_record(p) ==
  LET record == [pid |-> p, comm |-> sysinfo[p].comm, timestamp |-> clock]
  IN  /\ phase = "add"
      /\ p \in pending
      /\ IF VectorsOf(p) = {}
         THEN procs' = Append(procs, <<record>>)
         ELSE LET i == CHOOSE i \in VectorsOf(p) : \A j \in VectorsOf(p) : i <= j
              IN  \E v \in clean_old_process_records(
                             <<record>> \o History(procs[i], record.comm)) :
                     procs' = [procs EXCEPT ![i] = v]
      /\ pending' = pending \ {p}
      /\ phase' = IF pending' = {} THEN "clean" ELSE "add"
      /\ UNCHANGED <<clock, setBack, cursor, sysinfo, taken>>

Next ==
  \/ Tick
  \/ SetClockBack
  \/ clean_terminated_process_records_vectors
  \/ SkipCleaning
  \/ drop_empty_process_records_vectors
  \/ DropDone
  \/ refresh_procs
  \/ \E p \in Pid : add_process_record(p)

Spec == Init /\ [][Next]_vars

-----------------------------------------------------------------------------
(***************************************************************************)
(* Properties.                                                             *)
(***************************************************************************)

\* A pid has at most one vector, through any sequence of exits, reuses and cleanings:
\* get_process_name (utils.rs 714-727) panics otherwise, and find_records
\* (utils.rs 458-469) would pick a stale one.
UniquePid == \A p \in Pid : \A i, j \in VectorsOf(p) : i = j

IsHistory(v) ==
  /\ Len(v) <= max_records_per_process
  /\ \A j \in DOMAIN v : v[j].pid = v[1].pid /\ v[j].comm = v[1].comm

\* A vector is a history of one pid and one executable, of at most
\* max_records_per_process records: deltas between its records (utils.rs 394-428)
\* never mix pids or executables, even when a pid is reused between two snapshots.
OneHistory == \A i \in DOMAIN procs : IsHistory(procs[i])

\* If the clock is never set back, then after a refresh the first record of each
\* process of the snapshot is the one just taken: it is the record that the
\* exporters report and that the deltas end at (utils.rs 394-428, 430-437).
HeadIsCurrent ==
  phase \in {"clean", "refresh"} /\ ~setBack =>
    \A i \in DOMAIN procs :
       procs[i] # <<>> /\ procs[i][1].pid \in DOMAIN sysinfo
         => procs[i][1].timestamp >= taken

\* The number of vectors stays bounded, although the dropping loop skips vectors: the
\* empty ones it leaves are dropped by later cleanings before they pile up, and no
\* vector is added while one of the same pid is in use (utils.rs 366-392, 835-883).  With a
\* single pid an empty vector may stand beside the one in use: the assumption has two.
VectorsBounded == Len(procs) < 2 * Cardinality(Pid)
=============================================================================
