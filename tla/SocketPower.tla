---------------------------- MODULE SocketPower ----------------------------
(***************************************************************************)
(* Power of a socket and of its RAPL domains, and the background power     *)
(* that is learnt from idle and activation events and subtracted from it   *)
(* (CPUSocket and Domain in sensors/mod.rs).                               *)
(*                                                                         *)
(* A meter is a RAPL energy counter: the socket's own or that of one of    *)
(* its domains.  Of a record_buffer the two newest records are kept        *)
(* (RecordBuffer shows that the code keeps at least these).  A record      *)
(* holds the time since its predecessor instead of a time stamp, which is  *)
(* negative if the wall clock was set back in between.  Idle and           *)
(* activation power are those of the last record of activation_idle_buffer,*)
(* 0 when it is empty.                                                     *)
(***************************************************************************)
EXTENDS Integers, Sequences, FiniteSets

CONSTANTS
  Domain,    \* the RAPL domains of the socket
  Socket,    \* the socket's own meter
  Draw,      \* energy a meter can count in a unit of time
  RaplMax,   \* max_energy_range_uj: a counter runs from 0 to RaplMax
  Delivered, \* the sets of events a refresh may find in the ring
  MayFail,   \* the meters whose reading may fail
  Back,      \* how far the wall clock is set back
  MaxSince   \* bound on the time between two refreshes, for model checking

EventType == {"IdleEvent", "ActivationEvent"}

ASSUME SocketPowerAssumption ==
  /\ IsFiniteSet(Domain)
  /\ Socket \notin Domain
  /\ Draw \subseteq Nat
  /\ RaplMax \in Nat
  /\ Delivered \subseteq SUBSET EventType
  /\ MayFail \subseteq Domain \cup {Socket}
  /\ Back \in Nat
  /\ MaxSince \in Nat

Meter == Domain \cup {Socket}

VARIABLES
  counter,              \* energy_uj of each meter
  since,                \* time since the last record of each meter, by the wall clock
  spent,                \* history: energy spent since then
  record_buffer,        \* the two newest records of each meter
  idle, activation,     \* last record of activation_idle_buffer
  background_power_uw,  \* of each domain
  peak                  \* history: highest power between two records of the socket

vars == <<counter, since, spent, record_buffer, idle, activation, background_power_uw,
          peak>>

Record == [value : 0 .. RaplMax, after : Int, spent : Nat]

\* Every variable keeps its type; no power or energy is negative.
TypeOK ==
  /\ counter \in [Meter -> 0 .. RaplMax]
  /\ since \in [Meter -> Int]
  /\ spent \in [Meter -> Nat]
  /\ record_buffer \in [Meter -> Seq(Record)]
  /\ \A m \in Meter : Len(record_buffer[m]) <= 2
  /\ idle \in Nat
  /\ activation \in Nat
  /\ background_power_uw \in [Domain -> Nat]
  /\ peak \in Nat

Min2(a, b) == IF a <= b THEN a ELSE b
Max2(a, b) == IF a >= b THEN a ELSE b

\* Faulty variant: a plain subtraction.
plain_sub(a, b) == a - b

saturating_sub(a, b) == IF a >= b THEN a - b ELSE 0

Init ==
  /\ counter \in [Meter -> 0 .. RaplMax]
  /\ since = [m \in Meter |-> 0]
  /\ spent = [m \in Meter |-> 0]
  /\ record_buffer = [m \in Meter |-> <<>>]
  /\ idle = 0
  /\ activation = 0
  /\ background_power_uw = [d \in Domain |-> 0]
  /\ peak = 0

-----------------------------------------------------------------------------
(***************************************************************************)
(* Power.                                                                  *)
(***************************************************************************)

\* Faulty variant: a counter that wrapped is taken for one that stood still.
Energy_nowrap(buf) == saturating_sub(buf[2].value, buf[1].value)

\* Energy between two records; a smaller value means that the counter wrapped.
Energy(buf) ==
  LET last     == buf[2].value
      previous == buf[1].value
  IN  IF last >= previous THEN last - previous
      ELSE saturating_sub(RaplMax, previous) + last

\* Average power between two records, truncated ("microwatts as u64", which makes a
\* negative number 0).
Power(buf) ==
  IF Len(buf) < 2 \/ buf[2].after < 0 THEN 0 ELSE Energy(buf) \div buf[2].after

\* Faulty variant: idle and activation power are added up.
get_background_power_sum(i, a) == i + a

\* The background power of the socket for an idle power i and activation power a.
get_background_power_microwatts(i, a) == Max2(i, a)

\* What is left of the socket's power; 0 also stands for a missing value, which
\* all callers but read_activation_idle_record turn into 0.
SocketPower(i, a) ==
  saturating_sub(Power(record_buffer[Socket]), get_background_power_microwatts(i, a))

DomainPower(d) == saturating_sub(Power(record_buffer[d]), background_power_uw[d])

-----------------------------------------------------------------------------
(***************************************************************************)
(* The actions.                                                            *)
(***************************************************************************)

\* A unit of time passes and the meters count.
Consume ==
  \E e \in [Meter -> Draw] :
    /\ \E m \in Meter : since[m] < MaxSince
    /\ \A d \in Domain : e[d] <= e[Socket]
    /\ counter' = [m \in Meter |-> (counter[m] + e[m]) % (RaplMax + 1)]
    /\ since' = [m \in Meter |-> since[m] + 1]
    /\ spent' = [m \in Meter |-> spent[m] + e[m]]
    /\ UNCHANGED <<record_buffer, idle, activation, background_power_uw, peak>>

\* The wall clock is set back.  The bound: not once a meter has spent its range.
SetClockBack ==
  /\ \A m \in Meter : since[m] >= 0 /\ spent[m] <= RaplMax
  /\ since' = [m \in Meter |-> since[m] - Back]
  /\ UNCHANGED <<counter, spent, record_buffer, idle, activation, background_power_uw, peak>>

\* The new value of an idle or activation power when the power is current.
Learn(known, seen, current) ==
  IF ~seen THEN known ELSE IF known # 0 THEN Min2(current, known) ELSE current

\* read_activation_idle_record: nothing is recorded without events or records.
read_activation_idle_record(events) ==
  LET current == SocketPower(idle, activation)
  IN  IF events = {} \/ Len(record_buffer[Socket]) < 2
      THEN UNCHANGED <<idle, activation>>
      ELSE /\ idle' = Learn(idle, "IdleEvent" \in events, current)
           /\ activation' = Learn(activation, "ActivationEvent" \in events, current)

\* The background power just learnt is shared among the domains.
distribute_background_to_domains ==
  LET background == get_background_power_microwatts(idle', activation')
      total      == SocketPower(idle', activation')
  IN  IF background = 0 THEN UNCHANGED background_power_uw
      ELSE background_power_uw' =
             [d \in Domain |-> IF total > 0 THEN (background * DomainPower(d)) \div total
                               ELSE background \div Cardinality(Domain)]

\* The buffer of meter m after a record was pushed.
Push(m) ==
  LET buf == Append(record_buffer[m],
                    [value |-> counter[m], after |-> since[m], spent |-> spent[m]])
  IN  SubSeq(buf, Max2(1, Len(buf) - 1), Len(buf))

\* refresh_record of the meters; the ones in failed cannot be read.
refresh_record(failed) ==
  LET read == Meter \ failed
  IN  /\ record_buffer' = [m \in Meter |-> IF m \in read THEN Push(m) ELSE record_buffer[m]]
      /\ since' = [m \in Meter |-> IF m \in read THEN 0 ELSE since[m]]
      /\ spent' = [m \in Meter |-> IF m \in read THEN 0 ELSE spent[m]]
      /\ peak' = Max2(peak, Power(record_buffer'[Socket]))
      /\ UNCHANGED counter

\* The part of Topology::refresh that is about one socket.  No two time stamps are the
\* same to the nanosecond.
refresh(events, failed) ==
  /\ \A m \in Meter : since[m] # 0
  /\ read_activation_idle_record(events)
  /\ distribute_background_to_domains
  /\ refresh_record(failed)

\* A reading may fail, but not when MaxSince is reached.
Refresh ==
  \E events \in Delivered, failed \in SUBSET {m \in MayFail : since[m] < MaxSince} :
    refresh(events, failed)

Next == Consume \/ SetClockBack \/ Refresh

Spec == Init /\ [][Next]_vars

-----------------------------------------------------------------------------
(***************************************************************************)
(* Properties.                                                             *)
(***************************************************************************)

\* The energy between two readings is recovered across a wrap of the counter and
\* across failed readings, but for the one unit a wrap costs, as long as less than
\* the counter's range was spent (mod.rs 1918-1922, 2396-2400).
EnergyRecovered ==
  \A m \in Meter :
    LET buf == record_buffer[m]
    IN  Len(buf) = 2 /\ buf[2].spent <= RaplMax
          => \/ Energy(buf) = buf[2].spent
             \/ Energy(buf) = buf[2].spent - 1 /\ buf[2].value < buf[1].value

\* Background power stems from measurements: whatever the events, however often the
\* background was subtracted from the power it is learnt from and however the clock is
\* set back between two readings, it never exceeds the highest power measured
\* (mod.rs 1652-1705, 1882-1896, 1924-1925).
BackgroundMeasured == get_background_power_microwatts(idle, activation) <= peak
=============================================================================
