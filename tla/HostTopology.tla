---------------------------- MODULE HostTopology ----------------------------
(***************************************************************************)
(* The topology that the powercap sensor builds (sensors/powercap_rapl.rs) *)
(* and the energy of the host that it is read for: read_record of Topology *)
(* and the difference of two of its records (sensors/mod.rs).              *)
(*                                                                         *)
(* The folders of the powercap directory are listed three times, in any    *)
(* order.  Afterwards the counters run, and wrap, while a refresh reads    *)
(* them one after the other, and any of them may be unreadable.  Time, and *)
(* the background that is subtracted from the host's power, are in         *)
(* SocketPower.                                                            *)
(***************************************************************************)
EXTENDS Integers, Sequences, Functions, FiniteSets, FiniteSetsExt

CONSTANTS
  Directories,  \* the contents of the powercap directory: sets of folders
  Core,         \* CPU cores
  physical_id,  \* the socket of each core, from /proc/cpuinfo
  RaplMax,      \* counters run from 0 to RaplMax
  MaxEnergy     \* bound on what a counter counts, for model checking

Resources  == {"core", "uncore", "dram"}   \* DomainResource
Unreadable == "unreadable"                 \* there is no file "name"
Kinds      == {"socket", "domain", "mmio", "mmio_domain"}   \* intel-rapl:0, :0:0, -mmio:0, -mmio:0:0

Folder == [kind : Kinds, socket : Nat, domain : Nat, name : STRING]

Packages(d) == {f \in d : f.kind = "socket" /\ f.name # "psys"}
Psys(d)     == {f \in d : f.kind = "socket" /\ f.name = "psys"}
Domains(d)  == {f \in d : f.kind = "domain"}

\* A domain belongs to a package.  Either all the packages have domains, or none has
\* and they have names; psys has none, and is not memory-mapped.
ASSUME HostTopologyAssumption ==
  /\ RaplMax \in Nat /\ MaxEnergy \in Nat
  /\ \A d \in Directories :
       /\ d \subseteq Folder /\ IsFiniteSet(d)
       /\ \A f \in Domains(d) : \E p \in Packages(d) : p.socket = f.socket
       /\ \/ \A p \in Packages(d) : \E f \in Domains(d) : p.socket = f.socket
          \/ Domains(d) = {} /\ \A p \in Packages(d) : p.name # Unreadable
       /\ Cardinality(Psys(d)) <= 1
       /\ \A f \in d : f.name = "psys" => f.kind \in {"socket", "domain"}
       /\ \A p, q \in d : p.kind = q.kind /\ p.socket = q.socket /\ p.domain = q.domain => p = q

VARIABLES
  base_path,          \* the folders of the directory
  pc,                 \* the listing that is in progress, or "measure"
  todo,               \* folders it has not come to
  re_domain_matched,
  sockets,            \* topo.sockets, with their domains and cores
  psys,               \* topo._sensor_data["psys"]: a set of at most one folder
  energy,             \* what each counter has counted, wraps included
  reading,            \* the sum that read_record is making up, if reading.on
  record_buffer       \* the two newest records of the topology

building  == <<pc, todo, re_domain_matched, sockets, psys>>
host_vars == <<base_path, building, energy, reading, record_buffer>>

Socket == [id : Nat, domains : SUBSET [id : Nat, name : Resources, mmio : BOOLEAN],
           cores : SUBSET Core, mmio : BOOLEAN]

\* The files energy_uj that the host's energy may be read from.
Counters ==
  {f \in base_path : f.kind = "socket" \/ (f.kind = "domain" /\ f.name = "dram")}

\* A record, and its history: what the counters that could not be read stood at (missed), what
\* the host had really consumed, and what its counters had lost by wrapping, when the reading
\* began and when it ended, and whether the host's meters were read, not others for psys.
HostRecord ==
  [value : Nat, missed : Nat, before : Nat, after : Nat, wrappedBefore : Nat, wrappedAfter : Nat,
   metered : BOOLEAN]

\* "left" are the counters still to be read, with the index of the socket they are read for.
Reading ==
  [on : BOOLEAN, left : SUBSET (Nat \X Counters), value : Nat, missed : Nat, before : Nat,
   wrapped : Nat]

NoReading == [on |-> FALSE, left |-> {}, value |-> 0, missed |-> 0, before |-> 0, wrapped |-> 0]

\* Every variable keeps its type; no two sockets have the same id, no two domains of a
\* socket either.
HostTypeOK ==
  /\ base_path \in Directories
  /\ pc \in {"folders", "fallback", "psys", "cores", "measure", "panicked"}
  /\ todo \subseteq base_path
  /\ re_domain_matched \in BOOLEAN
  /\ sockets \in Seq(Socket)
  /\ \A i, j \in DOMAIN sockets : sockets[i].id = sockets[j].id => i = j
  /\ \A i \in DOMAIN sockets : \A d, e \in sockets[i].domains : d.id = e.id => d = e
  /\ psys \subseteq base_path /\ Cardinality(psys) <= 1
  /\ energy \in [Counters -> 0 .. MaxEnergy]
  /\ reading \in Reading
  /\ record_buffer \in Seq(HostRecord) /\ Len(record_buffer) <= 2

HostInit ==
  /\ base_path \in Directories
  /\ pc = "folders" /\ todo = base_path
  /\ re_domain_matched = FALSE
  /\ sockets = <<>> /\ psys = {}
  /\ energy = [f \in Counters |-> 0]
  /\ reading = NoReading
  /\ record_buffer = <<>>

-----------------------------------------------------------------------------
(***************************************************************************)
(* generate_topology.                                                      *)
(***************************************************************************)

\* What is read from a file "name": the name and the end of the line.  trim takes it off.
read_to_string(f) == <<f.name, "newline">>
trim(s) == s[1]

\* Faulty variant: a socket is added for each of its domains.
safe_add_socket_each(ss, id) ==
  Append(ss, [id |-> id, domains |-> {}, cores |-> {}, mmio |-> FALSE])

safe_add_socket(ss, id) ==
  IF \E i \in DOMAIN ss : ss[i].id = id THEN ss
  ELSE Append(ss, [id |-> id, domains |-> {}, cores |-> {}, mmio |-> FALSE])

\* Faulty variant: a domain is known by its socket.
safe_add_domain_first(s, d) ==
  IF s.domains # {} THEN s ELSE [s EXCEPT !.domains = @ \cup {d}]

safe_add_domain(s, d) ==
  IF \E e \in s.domains : e.id = d.id THEN s ELSE [s EXCEPT !.domains = @ \cup {d}]

\* The sockets with the given id, changed by Op.
ForSocket(ss, id, Op(_)) == [i \in DOMAIN ss |-> IF ss[i].id = id THEN Op(ss[i]) ELSE ss[i]]

safe_add_domain_to_socket(ss, id, d) ==
  LET Add(s) == safe_add_domain(s, d) IN ForSocket(ss, id, Add)

Visit(f, listing) ==
  /\ pc = listing
  /\ f \in todo
  /\ todo' = todo \ {f}
  /\ UNCHANGED <<base_path, energy, reading, record_buffer>>

\* A domain folder brings its socket with it; the domain itself needs a name.
DomainFolder(f) ==
  /\ Visit(f, "folders")
  /\ f.kind = "domain"
  /\ f.name \in Resources \cup {Unreadable}
  /\ re_domain_matched' = TRUE
  /\ LET ss == safe_add_socket(sockets, f.socket)
         d  == [id |-> f.domain, name |-> f.name, mmio |-> FALSE]
     IN  sockets' = IF f.name = Unreadable THEN ss
                    ELSE safe_add_domain_to_socket(ss, f.socket, d)
  /\ UNCHANGED <<pc, psys>>

\* The energy of a socket as the memory-mapped interface has it, if the socket is known.
MmioFolder(f) ==
  /\ Visit(f, "folders")
  /\ f.kind = "mmio"
  /\ LET Attach(s) == [s EXCEPT !.mmio = TRUE]
     IN  sockets' = ForSocket(sockets, f.socket, Attach)
  /\ UNCHANGED <<pc, re_domain_matched, psys>>

\* The folder's name is read once per domain that is known of the socket.
NameNeeded(f) == \E i \in DOMAIN sockets : sockets[i].id = f.socket /\ sockets[i].domains # {}

MmioDomainFolder(f) ==
  /\ Visit(f, "folders")
  /\ f.kind = "mmio_domain"
  /\ NameNeeded(f) => f.name # Unreadable
  /\ LET Attach(s) == [s EXCEPT !.domains =
                         {[d EXCEPT !.mmio = @ \/ d.name = f.name] : d \in s.domains}]
     IN  sockets' = ForSocket(sockets, f.socket, Attach)
  /\ UNCHANGED <<pc, re_domain_matched, psys>>

SocketFolder(f) ==
  /\ Visit(f, "folders")
  /\ f.kind = "socket"
  /\ UNCHANGED <<pc, re_domain_matched, sockets, psys>>

\* A domain that is neither core, uncore nor dram, or an mmio domain without a name.
FolderPanics(f) ==
  /\ Visit(f, "folders")
  /\ \/ f.kind = "domain" /\ f.name \notin Resources \cup {Unreadable}
     \/ f.kind = "mmio_domain" /\ NameNeeded(f) /\ f.name = Unreadable
  /\ pc' = "panicked"
  /\ UNCHANGED <<re_domain_matched, sockets, psys>>

\* Without domain folders the socket folders are taken, psys too: its name is compared
\* with the end of the line on it.
FallbackFolder(f) ==
  /\ Visit(f, "fallback")
  /\ sockets' = IF f.kind = "socket" /\ f.name # Unreadable /\ read_to_string(f) # <<"psys">>
                THEN safe_add_socket(sockets, f.socket) ELSE sockets
  /\ UNCHANGED <<pc, re_domain_matched, psys>>

PsysFolder(f) ==
  /\ Visit(f, "psys")
  /\ psys' = IF f.name # Unreadable /\ trim(read_to_string(f)) = "psys" THEN {f} ELSE psys
  /\ UNCHANGED <<pc, re_domain_matched, sockets>>

Listed ==
  /\ pc \in {"folders", "fallback", "psys"}
  /\ todo = {}
  /\ pc' = CASE pc = "folders" /\ ~re_domain_matched -> "fallback"
             [] pc = "psys" -> "cores"
             [] OTHER -> "psys"
  /\ todo' = IF pc = "psys" THEN {} ELSE base_path
  /\ UNCHANGED <<base_path, re_domain_matched, sockets, psys, energy, reading, record_buffer>>

\* The socket of core c, or the first one if the sensor has not found it.
Home(c) ==
  LET found == {i \in DOMAIN sockets : sockets[i].id = physical_id[c]}
  IN  IF found = {} THEN 1 ELSE Min(found)

\* Without a socket there is nowhere to add a core to, and the sensor panics.
add_cpu_cores ==
  /\ pc = "cores"
  /\ pc' = IF sockets = <<>> THEN "panicked" ELSE "measure"
  /\ sockets' = [i \in DOMAIN sockets |->
                   [sockets[i] EXCEPT !.cores = {c \in Core : Home(c) = i}]]
  /\ UNCHANGED <<base_path, todo, re_domain_matched, psys, energy, reading, record_buffer>>

-----------------------------------------------------------------------------
(***************************************************************************)
(* The energy of the host.                                                 *)
(***************************************************************************)

Consume(f) ==
  /\ pc = "measure"
  /\ f \in Counters
  /\ energy[f] < MaxEnergy
  /\ energy' = [energy EXCEPT ![f] = @ + 1]
  /\ UNCHANGED <<base_path, building, reading, record_buffer>>

energy_uj == [f \in Counters |-> energy[f] % (RaplMax + 1)]

\* What each counter has lost by wrapping.
wrapped == [f \in Counters |-> energy[f] - energy_uj[f]]

\* Faulty variant: the memory is left out.
Summed_package(s) == {f \in Counters : f.socket = s.id /\ f.kind = "socket"}

\* The counters of a socket that are summed up: its own and that of its dram.
Summed(s) ==
  {f \in Counters : /\ f.socket = s.id
                    /\ \/ f.kind = "socket"
                       \/ \E d \in s.domains : d.id = f.domain /\ d.name = "dram"}

\* What the host's energy is the energy of, by the directory alone.
HostMeters ==
  IF Psys(base_path) # {} THEN Psys(base_path)
  ELSE Packages(base_path) \cup {f \in Domains(base_path) : f.name = "dram"}

Consumed == SumFunctionOnSet(energy, HostMeters)
Wrapped  == SumFunctionOnSet(wrapped, HostMeters)

\* The two newest records.
Pushed(records, r) == IF records = <<>> THEN <<r>> ELSE <<records[Len(records)], r>>

\* psys, if there is one that can be read, is the record.
ReadPsys ==
  /\ pc = "measure" /\ ~reading.on
  /\ psys # {}
  /\ LET record == [value |-> energy_uj[CHOOSE f \in psys : TRUE], missed |-> 0,
                    before |-> Consumed, after |-> Consumed,
                    wrappedBefore |-> Wrapped, wrappedAfter |-> Wrapped, metered |-> TRUE]
     IN  record_buffer' = Pushed(record_buffer, record)
  /\ UNCHANGED <<base_path, building, energy, reading>>

\* There is no psys, or it cannot be read: the counters of the sockets are summed up.
BeginSum ==
  /\ pc = "measure" /\ ~reading.on
  /\ reading' = [on     |-> TRUE,
                 left   |-> {p \in (DOMAIN sockets) \X Counters : p[2] \in Summed(sockets[p[1]])},
                 value  |-> 0, missed |-> 0, before |-> Consumed, wrapped |-> Wrapped]
  /\ UNCHANGED <<base_path, building, energy, record_buffer>>

\* q is read before p: sockets in their order, and a socket before its domains.
Before(q, p) == q[1] < p[1] \/ (q[1] = p[1] /\ q[2].kind = "socket" /\ p[2].kind = "domain")

\* The next counter is read and added, or left out if it cannot be read.
ReadCounter(p, ok) ==
  /\ reading.on
  /\ p \in reading.left /\ \A q \in reading.left : ~Before(q, p)
  /\ reading' = IF ok THEN [reading EXCEPT !.left = @ \ {p}, !.value = @ + energy_uj[p[2]]]
                ELSE [reading EXCEPT !.left = @ \ {p}, !.missed = @ + energy_uj[p[2]]]
  /\ UNCHANGED <<base_path, building, energy, record_buffer>>

\* The sum is the record, whatever is missing in it.
EndSum ==
  /\ reading.on /\ reading.left = {}
  /\ LET record == [value |-> reading.value, missed |-> reading.missed,
                    before |-> reading.before, after |-> Consumed,
                    wrappedBefore |-> reading.wrapped, wrappedAfter |-> Wrapped, metered |-> psys = {}]
     IN  record_buffer' = Pushed(record_buffer, record)
  /\ reading' = NoReading
  /\ UNCHANGED <<base_path, building, energy>>

HostNext ==
  \/ \E f \in base_path :
       \/ DomainFolder(f)
       \/ MmioFolder(f)
       \/ MmioDomainFolder(f)
       \/ SocketFolder(f)
       \/ FolderPanics(f)
       \/ FallbackFolder(f)
       \/ PsysFolder(f)
       \/ Consume(f)
  \/ Listed
  \/ add_cpu_cores
  \/ ReadPsys
  \/ BeginSum
  \/ \E p \in reading.left, ok \in BOOLEAN : ReadCounter(p, ok)
  \/ EndSum

HostSpec == HostInit /\ [][HostNext]_host_vars

-----------------------------------------------------------------------------
(***************************************************************************)
(* Properties.                                                             *)
(***************************************************************************)

DomainsOf(id) ==
  {[id |-> f.domain, name |-> f.name] :
     f \in {g \in Domains(base_path) : g.socket = id /\ g.name # Unreadable}}

\* In whatever order the folders are listed, each package is a socket of the topology,
\* with exactly the domains that have a name and, where the ids are those of
\* /proc/cpuinfo, its own cores; no core is lost or in two sockets (powercap_rapl.rs
\* 190-331, mod.rs 284-308, 350-404, 1588-1592).
PackagesFound ==
  pc = "measure" =>
    /\ \A p \in Packages(base_path) : \E i \in DOMAIN sockets :
         /\ sockets[i].id = p.socket
         /\ {[id |-> d.id, name |-> d.name] : d \in sockets[i].domains} = DomainsOf(p.socket)
         /\ {c \in Core : physical_id[c] = p.socket} \subseteq sockets[i].cores
    /\ \A c \in Core : Cardinality({i \in DOMAIN sockets : c \in sockets[i].cores}) = 1

\* What the host is charged for between two refreshes is at most what it has consumed from the
\* beginning of the one to the end of the other, and what the first could not read; and at
\* least, if no counter wraps, what it has consumed in between, less what the last could not
\* read.  So no counter is left out or summed up twice while they run on during the reading,
\* and a failure is made up for by the next record (powercap_rapl.rs 101-146, mod.rs 780-828).
HostEnergySound ==
  Len(record_buffer) = 2 =>
    LET previous == record_buffer[1]
        last     == record_buffer[2]
        diff     == last.value - previous.value
    IN  previous.metered /\ last.metered =>
          /\ diff <= last.after - previous.before + previous.missed
          /\ previous.wrappedBefore = last.wrappedAfter =>
               diff >= last.before - previous.after - last.missed
=============================================================================
