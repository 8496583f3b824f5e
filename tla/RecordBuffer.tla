---------------------------- MODULE RecordBuffer ----------------------------
(***************************************************************************)
(* The measurement histories of the sensors (sensors/mod.rs): buffers that *)
(* a refresh appends a reading to and trims to about buffer_max_kbytes.    *)
(* Power and usage are computed from the two newest readings of a buffer.  *)
(*                                                                         *)
(* The code has eight copies of the trimming, which differ in the size of  *)
(* a record, in when they run, in how many records they delete and in the  *)
(* width of a comparison.  A buffer is kept oldest reading first here; the *)
(* stat buffers of the code are kept newest first and popped at the end.   *)
(***************************************************************************)
EXTENDS Integers, Sequences

CONSTANTS
  Kbytes,       \* values of --sensor-buffer-per-socket/domain-max-kB, u16
  MaxReadings   \* bound on the number of readings, for model checking

U16 == 0 .. 65535

ASSUME RecordBufferAssumption ==
  /\ Kbytes \subseteq U16
  /\ MaxReadings \in Nat

(***************************************************************************)
(* bytes:  size_of_val of a record                                         *)
(* from:   the deletion loop is "from .. nb_records_to_delete"             *)
(* cleans: trimmed before the insertion, after it, or at every refresh     *)
(* cast:   type the current size is compared in                            *)
(* sized:  buffer_max_kbytes is given by an option, or fixed               *)
(***************************************************************************)
Buffer(bytes, from, cleans, cast, sized) ==
  [size |-> bytes, from |-> from, cleans |-> cleans, cast |-> cast, sized |-> sized]

SocketRecords         == Buffer(48, 1, "always", "usize", "option")
ActivationIdleRecords == Buffer(64, 1, "always", "usize", "option")
SocketStats           == Buffer(128, 1, "before", "usize", "option")
DomainRecords         == Buffer(48, 1, "always", "usize", "option")
CoreRecords           == Buffer(64, 1, "always", "usize", "fixed")
TopologyRecords       == Buffer(48, 1, "always", "u16", "fixed")
TopologyStats         == Buffer(128, 1, "after", "usize", "fixed")
CpuTimeRecords        == Buffer(64, 0, "after", "usize", "fixed")

Kind == {SocketRecords, ActivationIdleRecords, SocketStats, DomainRecords, CoreRecords,
         TopologyRecords, TopologyStats, CpuTimeRecords}

\* The values buffer_max_kbytes can have.
KbytesOf(k) == IF k.sized = "option" THEN Kbytes ELSE {1}

VARIABLES
  kind,               \* which buffer this is
  buffer_max_kbytes,  \* its configured size
  buffer,             \* the numbers of the readings it holds
  readings            \* readings taken so far

vars == <<kind, buffer_max_kbytes, buffer, readings>>

\* A buffer holds numbers of readings taken, and its configuration is fixed.
TypeOK ==
  /\ kind \in Kind
  /\ buffer_max_kbytes \in KbytesOf(kind)
  /\ readings \in Nat
  /\ buffer \in Seq(1 .. readings)

\* buffer_max_kbytes * 1000 in u16 arithmetic (wrapping in a release build).
Limit == (buffer_max_kbytes * 1000) % 65536

\* Faulty variant: two records of the excess are left alone.
Excess_slack(n) ==
  LET curr_size == kind.size * n
      compared  == IF kind.cast = "u16" THEN curr_size % 65536 ELSE curr_size
      size_diff == curr_size - Limit
      nb        == size_diff \div kind.size
  IN  IF compared > Limit /\ size_diff > kind.size /\ nb > kind.from + 2
      THEN nb - kind.from - 2 ELSE 0

\* How many of n records are deleted.
Excess(n) ==
  LET curr_size == kind.size * n
      compared  == IF kind.cast = "u16" THEN curr_size % 65536 ELSE curr_size
      size_diff == curr_size - Limit
  IN  IF compared > Limit /\ size_diff > kind.size
      THEN size_diff \div kind.size - kind.from ELSE 0

\* Faulty variant: the newest records are removed.
clean_old_records_newest(b) == SubSeq(b, 1, Len(b) - Excess(Len(b)))

\* Trimming removes the oldest records.
clean_old_records(b) == SubSeq(b, Excess(Len(b)) + 1, Len(b))

\* Faulty variant: a buffer starts with a placeholder.
Init_placeholder ==
  /\ kind \in Kind
  /\ buffer_max_kbytes \in KbytesOf(kind)
  /\ buffer = <<0>>
  /\ readings = 0

Init ==
  /\ kind \in Kind
  /\ buffer_max_kbytes \in KbytesOf(kind)
  /\ buffer = <<>>
  /\ readings = 0

\* A refresh that reads a value.
refresh_record ==
  /\ readings < MaxReadings
  /\ readings' = readings + 1
  /\ buffer' = IF kind.cleans = "before"
               THEN Append(clean_old_records(buffer), readings + 1)
               ELSE clean_old_records(Append(buffer, readings + 1))
  /\ UNCHANGED <<kind, buffer_max_kbytes>>

\* A refresh whose read fails: some buffers are trimmed all the same.
refresh_record_error ==
  /\ buffer' = IF kind.cleans = "always" THEN clean_old_records(buffer) ELSE buffer
  /\ UNCHANGED <<kind, buffer_max_kbytes, readings>>

Next == refresh_record \/ refresh_record_error

Spec == Init /\ [][Next]_vars

-----------------------------------------------------------------------------
(***************************************************************************)
(* Properties.                                                             *)
(***************************************************************************)

\* Records a buffer may hold beyond the limit.
Slack == kind.from + 1 + (IF kind.cleans = "before" THEN 1 ELSE 0)

\* The memory of a buffer is bounded, whatever the option's value and the number
\* of refreshes: it exceeds the (wrapped) limit by at most three records
\* (mod.rs 140-166, 628-645, 687-712, 1477-1536, 1763-1801, 2031-2049, 2329-2344).
SizeBounded == kind.size * Len(buffer) <= Limit + Slack * kind.size

\* Power can be computed from the second reading on and from the right readings:
\* trimming leaves the two newest ones, provided the limit is not (or does not
\* wrap to) zero, or is above one record for the CPU_TIME history
\* (mod.rs 1901-1906, 2386-2391, 2231-2233, 649-653, 834-836).
TwoNewestKept ==
  readings >= 2 /\ Limit + kind.from * kind.size > kind.size
    => LET n == Len(buffer)
       IN  n >= 2 /\ buffer[n] = readings /\ buffer[n - 1] = readings - 1
=============================================================================
