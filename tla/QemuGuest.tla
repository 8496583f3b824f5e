----------------------------- MODULE QemuGuest ------------------------------
(***************************************************************************)
(* A virtual machine that runs scaphandre itself (--vm), together with the *)
(* exporter that feeds it: the machine mounts the file QemuExporter        *)
(* maintains and reads it as the energy counter of its only socket.        *)
(*                                                                         *)
(* Each refresh of the guest's topology reads the file twice, for the      *)
(* socket and then for the host, while the exporter truncates and writes   *)
(* it.  The socket stores the text it reads and parses it when a power is  *)
(* asked for; the host adds up numbers and takes an unreadable one for     *)
(* nothing.  A power is computed from the two newest records, so that the  *)
(* newest one is all that a refresh needs of the past.                     *)
(***************************************************************************)
EXTENDS QemuExporter

CONSTANTS
  reader,       \* name of the file the guest reads
  MaxReadings   \* bound on the guest's refreshes, for model checking

ASSUME QemuGuestAssumption == reader \in Name /\ MaxReadings \in Nat

NoRecord == -3   \* the buffer is empty

\* Stands for u64::MAX: the directory of a guest has no max_energy_range_uj.
rapl_max_uj == 10 ^ 6

VARIABLES
  readings,       \* refreshes the guest's topology has begun
  guest_pc,       \* what the guest reads next: "socket" or "host"
  socket_record,  \* newest record of the socket: a number, or Torn
  host_record,    \* newest record of the topology
  counted,        \* energy the guest has derived for its socket and for its host
  misread         \* readings for the host that found no number

guestVars == <<readings, guest_pc, socket_record, host_record, counted, misread>>

GuestInit ==
  /\ Init
  /\ readings = 0
  /\ guest_pc = "socket"
  /\ socket_record = NoRecord
  /\ host_record = NoRecord
  /\ counted = [socket |-> 0, host |-> 0]
  /\ misread = 0

IsNumber(r) == r \notin {NoRecord, Absent, Torn}

\* Faulty variant: text that is not a number counts as nothing consumed.
SocketEnergy_zero(previous, last) ==
  LET p == IF IsNumber(previous) THEN previous ELSE 0
      l == IF IsNumber(last) THEN last ELSE 0
  IN  IF l >= p THEN l - p ELSE rapl_max_uj - p + l

\* CPUSocket::get_records_diff_power_microwatts: nothing unless both texts are numbers,
\* and a counter that has fallen has wrapped.
SocketEnergy(previous, last) ==
  IF ~IsNumber(previous) \/ ~IsNumber(last) THEN 0
  ELSE IF last >= previous THEN last - previous ELSE rapl_max_uj - previous + last

\* Topology::get_records_diff_power_microwatts: no power if the total has fallen.
HostEnergy(previous, last) ==
  IF previous = NoRecord \/ previous > last THEN 0 ELSE last - previous

\* CPUSocket::refresh_record: a file that cannot be opened leaves no record, an empty
\* one a record that is not a number.
GuestReadSocket ==
  /\ guest_pc = "socket"
  /\ readings < MaxReadings
  /\ readings' = readings + 1
  /\ guest_pc' = "host"
  /\ IF files[reader] = Absent
     THEN UNCHANGED <<socket_record, counted>>
     ELSE /\ socket_record' = files[reader]
          /\ counted' = [counted EXCEPT !.socket = @ + SocketEnergy(socket_record, files[reader])]
  /\ UNCHANGED <<host_record, misread>>

\* Topology::refresh_record: the socket's file is read again, and adds nothing to the
\* total if it cannot be opened or parsed.
GuestReadHost ==
  LET total == IF IsNumber(files[reader]) THEN files[reader] ELSE 0
  IN  /\ guest_pc = "host"
      /\ guest_pc' = "socket"
      /\ host_record' = total
      /\ counted' = [counted EXCEPT !.host = @ + HostEnergy(host_record, total)]
      /\ misread' = IF IsNumber(files[reader]) THEN misread ELSE misread + 1
      /\ UNCHANGED <<readings, socket_record>>

GuestNext ==
  \/ Next /\ UNCHANGED guestVars
  \/ (GuestReadSocket \/ GuestReadHost) /\ UNCHANGED vars

GuestSpec == GuestInit /\ [][GuestNext]_<<vars, guestVars>>

-----------------------------------------------------------------------------
(***************************************************************************)
(* Properties.                                                             *)
(***************************************************************************)

\* As long as the exporter could read the file each time it was there, a reading of the
\* guest that falls between a truncation and the write that follows it only loses energy
\* for the guest's socket: in all, the guest never derives more for it than the host has
\* charged the machine (qemu.rs 114-131, mod.rs 1900-1944).  For the guest's host, such a
\* reading counts as a total of zero, and the next one as the whole counter: the sum is
\* off by at most one counter for each of them (powercap_rapl.rs 112-123, mod.rs 780-828).
\* (A counter that starts over at zero is taken for one that has wrapped.)
GuestNotOvercharged ==
  reader \notin lost =>
    /\ counted.socket <= readable[reader]
    /\ counted.host <= readable[reader] * (1 + misread)
=============================================================================
