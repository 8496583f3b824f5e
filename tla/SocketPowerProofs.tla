------------------------- MODULE SocketPowerProofs -------------------------
(***************************************************************************)
(* Proofs about SocketPower.  The background power is bounded by the peak  *)
(* power because the power it is learnt from is: PowerInv keeps, next to   *)
(* the types, that the power between the two newest records is part of the *)
(* peak and that records differ in time, so that powers are naturals.      *)
(***************************************************************************)
EXTENDS SocketPower, FiniteSetTheorems, TLAPS

\* Records are apart in time.
Apart == \A m \in Meter : \A i \in 1 .. Len(record_buffer[m]) : record_buffer[m][i].after # 0

\* The power between the newest records has been counted.
PowerCounted == Power(record_buffer[Socket]) <= peak

PowerInv == TypeOK /\ Apart /\ PowerCounted /\ BackgroundMeasured

\* A buffer of at most two records that are apart in time.
GoodBuffer(b) ==
  /\ b \in Seq(Record)
  /\ Len(b) <= 2
  /\ \A i \in 1 .. Len(b) : b[i].after # 0

\* Integer division of naturals.
LEMMA DivNat == ASSUME NEW a \in Nat, NEW b \in Nat, b > 0 PROVE a \div b \in Nat
OBVIOUS

\* The lengths of the buffers.
LEMMA UpToTwo ==
  \A n \in Nat : n <= 2 => (n = 0 \/ n = 1 \/ n = 2) /\ (n < 2 \/ n = 2)
OBVIOUS

\* Saturating subtraction stays natural and does not exceed its first operand.
LEMMA SatNat ==
  ASSUME NEW a \in Nat, NEW b \in Nat
  PROVE  saturating_sub(a, b) \in Nat /\ saturating_sub(a, b) <= a
BY DEF saturating_sub

\* The power of a good buffer is a natural number.
LEMMA PowerNat == ASSUME NEW b, GoodBuffer(b) PROVE Power(b) \in Nat
<1>1. CASE Len(b) < 2
  BY <1>1 DEF Power
<1>2. CASE Len(b) = 2
  <2>1. b[1] \in Record /\ b[2] \in Record /\ b[2].after # 0
    BY <1>2 DEF GoodBuffer
  <2>2. /\ b[1].value \in Nat /\ b[1].value <= RaplMax
        /\ b[2].value \in Nat /\ b[2].after \in Int
    BY <2>1, SocketPowerAssumption DEF Record
  <2>3. Energy(b) \in Nat
    BY <2>2, SocketPowerAssumption DEF Energy, saturating_sub
  <2>4. CASE b[2].after < 0
    BY <2>4 DEF Power
  <2>5. CASE ~(b[2].after < 0)
    <3>1. b[2].after \in Nat /\ b[2].after > 0
      BY <2>1, <2>2, <2>5
    <3>2. Energy(b) \div b[2].after \in Nat
      BY <2>3, <3>1, DivNat
    <3>3. Power(b) = Energy(b) \div b[2].after
      BY <1>2, <2>5 DEF Power
    <3> QED BY <3>2, <3>3
  <2> QED BY <2>4, <2>5
<1>3. Len(b) \in Nat /\ Len(b) <= 2
  BY DEF GoodBuffer
<1>4. Len(b) < 2 \/ Len(b) = 2
  BY <1>3, UpToTwo, Zenon
<1> QED BY <1>1, <1>2, <1>4

\* What PowerInv says of the buffers and the powers.
LEMMA InvFacts ==
  ASSUME PowerInv
  PROVE  /\ \A m \in Meter : GoodBuffer(record_buffer[m])
         /\ \A m \in Meter : Power(record_buffer[m]) \in Nat
         /\ idle \in Nat /\ activation \in Nat /\ peak \in Nat
         /\ idle <= peak /\ activation <= peak
<1>1. \A m \in Meter : GoodBuffer(record_buffer[m])
  BY DEF PowerInv, TypeOK, Apart, GoodBuffer
<1>2. \A m \in Meter : Power(record_buffer[m]) \in Nat
  BY <1>1, PowerNat
<1> QED BY <1>1, <1>2 DEF PowerInv, TypeOK, BackgroundMeasured,
                          get_background_power_microwatts, Max2

\* The socket's power after subtraction is part of the peak.
LEMMA SocketPowerFacts ==
  ASSUME PowerInv, NEW i \in Nat, NEW a \in Nat
  PROVE  SocketPower(i, a) \in Nat /\ SocketPower(i, a) <= peak
<1> DEFINE p == Power(record_buffer[Socket])
           g == get_background_power_microwatts(i, a)
<1>1. p \in Nat /\ p <= peak /\ peak \in Nat
  BY InvFacts DEF PowerInv, PowerCounted, Meter
<1>2. g \in Nat
  BY DEF get_background_power_microwatts, Max2
<1>3. SocketPower(i, a) = saturating_sub(p, g)
  BY DEF SocketPower
<1> HIDE DEF p, g
<1> QED BY <1>1, <1>2, <1>3, SatNat

\* What is learnt from an event does not exceed what was known and what is measured.
LEMMA LearnFacts ==
  ASSUME NEW k \in Nat, NEW c \in Nat, NEW q \in Nat, k <= q, c <= q, NEW s
  PROVE  Learn(k, s, c) \in Nat /\ Learn(k, s, c) <= q
BY DEF Learn, Min2

\* Pushing a record leaves a good buffer.
LEMMA PushGood ==
  ASSUME PowerInv, NEW m \in Meter, since[m] # 0
  PROVE  GoodBuffer(Push(m))
<1> DEFINE b == record_buffer[m]
           r == [value |-> counter[m], after |-> since[m], spent |-> spent[m]]
           a == Append(b, r)
<1>1. GoodBuffer(b)
  BY InvFacts
<1>2. r \in Record /\ r.after # 0
  BY DEF PowerInv, TypeOK, Record
<1>3. Push(m) = SubSeq(a, Max2(1, Len(a) - 1), Len(a))
  BY DEF Push
<1> HIDE DEF b, r
<1>4. /\ b \in Seq(Record) /\ Len(b) \in Nat /\ Len(b) <= 2
      /\ \A i \in 1 .. Len(b) : b[i].after # 0
  BY <1>1 DEF GoodBuffer
<1>5. /\ a \in Seq(Record) /\ Len(a) = Len(b) + 1
      /\ \A i \in 1 .. Len(a) : a[i] = IF i = Len(a) THEN r ELSE b[i]
  BY <1>2, <1>4
<1>6. \A i \in 1 .. Len(a) : a[i].after # 0
  BY <1>2, <1>4, <1>5
<1> HIDE DEF a
<1>7. ASSUME NEW f \in {1, 2}, NEW l \in {1, 2, 3}, f <= l, l - f <= 1, Len(a) = l
      PROVE  GoodBuffer(SubSeq(a, f, l))
  <2>1. /\ SubSeq(a, f, l) \in Seq(Record)
        /\ Len(SubSeq(a, f, l)) = l - f + 1
        /\ \A i \in 1 .. l - f + 1 : SubSeq(a, f, l)[i] = a[f + i - 1]
    BY <1>5, <1>7
  <2>2. \A i \in 1 .. l - f + 1 : f + i - 1 \in 1 .. Len(a)
    BY <1>7
  <2> QED BY <1>6, <1>7, <2>1, <2>2 DEF GoodBuffer
<1>8. CASE Len(b) = 0
  BY <1>3, <1>5, <1>7, <1>8 DEF Max2
<1>9. CASE Len(b) = 1
  BY <1>3, <1>5, <1>7, <1>9 DEF Max2
<1>10. CASE Len(b) = 2
  BY <1>3, <1>5, <1>7, <1>10 DEF Max2
<1>11. Len(b) = 0 \/ Len(b) = 1 \/ Len(b) = 2
  BY <1>4, UpToTwo, Zenon
<1> QED BY <1>8, <1>9, <1>10, <1>11

\* A share of the background power is a natural number.
LEMMA ShareNat ==
  ASSUME PowerInv, NEW i \in Nat, NEW a \in Nat, NEW d \in Domain
  PROVE  LET background == get_background_power_microwatts(i, a)
             total      == SocketPower(i, a)
         IN  (IF total > 0 THEN (background * DomainPower(d)) \div total
              ELSE background \div Cardinality(Domain)) \in Nat
<1> DEFINE g == get_background_power_microwatts(i, a)
           t == SocketPower(i, a)
           p == DomainPower(d)
<1>1. g \in Nat
  BY DEF get_background_power_microwatts, Max2
<1>2. t \in Nat
  BY SocketPowerFacts
<1>3. p \in Nat
  <2>1. Power(record_buffer[d]) \in Nat /\ background_power_uw[d] \in Nat
    BY InvFacts DEF Meter, PowerInv, TypeOK
  <2> QED BY <2>1, SatNat DEF DomainPower
<1>4. Cardinality(Domain) \in Nat /\ Cardinality(Domain) > 0
  <2>1. Cardinality(Domain) \in Nat
    BY SocketPowerAssumption, FS_CardinalityType
  <2>2. Cardinality(Domain) # 0
    BY SocketPowerAssumption, FS_EmptySet
  <2> QED BY <2>1, <2>2
<1> HIDE DEF g, t, p
<1>5. g * p \in Nat
  BY <1>1, <1>3
<1>6. t > 0 => (g * p) \div t \in Nat
  BY <1>2, <1>5, DivNat
<1>7. g \div Cardinality(Domain) \in Nat
  BY <1>1, <1>4, DivNat
<1>8. (IF t > 0 THEN (g * p) \div t ELSE g \div Cardinality(Domain)) \in Nat
  BY <1>6, <1>7
<1> QED BY <1>8 DEF g, t, p

\* Learning keeps the background power within the peak.
LEMMA LearnKeeps ==
  ASSUME PowerInv, NEW events \in SUBSET EventType, read_activation_idle_record(events)
  PROVE  /\ idle' \in Nat /\ activation' \in Nat
         /\ idle' <= peak /\ activation' <= peak
<1> DEFINE c == SocketPower(idle, activation)
<1>1. /\ idle \in Nat /\ activation \in Nat /\ peak \in Nat
      /\ idle <= peak /\ activation <= peak
  BY InvFacts DEF PowerInv, TypeOK
<1>2. c \in Nat /\ c <= peak
  BY <1>1, SocketPowerFacts
<1>3. \/ UNCHANGED <<idle, activation>>
      \/ /\ idle' = Learn(idle, "IdleEvent" \in events, c)
         /\ activation' = Learn(activation, "ActivationEvent" \in events, c)
  BY DEF read_activation_idle_record
<1> HIDE DEF c
<1>4. CASE UNCHANGED <<idle, activation>>
  BY <1>1, <1>4
<1>5. CASE /\ idle' = Learn(idle, "IdleEvent" \in events, c)
           /\ activation' = Learn(activation, "ActivationEvent" \in events, c)
    <2>1. idle' \in Nat /\ idle' <= peak
    BY <1>1, <1>2, <1>5, LearnFacts
  <2>2. activation' \in Nat /\ activation' <= peak
    BY <1>1, <1>2, <1>5, LearnFacts
  <2> QED BY <1>1, <1>5, <2>1, <2>2
<1> QED BY <1>3, <1>4, <1>5

\* A refresh keeps the invariant.
LEMMA RefreshKeeps ==
  ASSUME PowerInv, NEW events \in SUBSET EventType, NEW failed \in SUBSET Meter,
         refresh(events, failed)
  PROVE  PowerInv'
<1>1. /\ idle' \in Nat /\ activation' \in Nat
      /\ idle' <= peak /\ activation' <= peak /\ peak \in Nat
  BY LearnKeeps, InvFacts DEF refresh
<1>2. background_power_uw' \in [Domain -> Nat]
  <2>1. CASE UNCHANGED background_power_uw
    BY <2>1 DEF PowerInv, TypeOK
  <2>2. CASE background_power_uw' =
               [d \in Domain |->
                  IF SocketPower(idle', activation') > 0
                  THEN (get_background_power_microwatts(idle', activation')
                          * DomainPower(d)) \div SocketPower(idle', activation')
                  ELSE get_background_power_microwatts(idle', activation')
                         \div Cardinality(Domain)]
    BY <1>1, <2>2, ShareNat
  <2> QED BY <2>1, <2>2 DEF refresh, distribute_background_to_domains
<1>3. \A m \in Meter : GoodBuffer(record_buffer'[m])
  <2>1. /\ \A m \in Meter : since[m] # 0
        /\ record_buffer' = [m \in Meter |-> IF m \in Meter \ failed THEN Push(m)
                                             ELSE record_buffer[m]]
    BY DEF refresh, refresh_record
  <2>2. \A m \in Meter : GoodBuffer(Push(m)) /\ GoodBuffer(record_buffer[m])
    BY <2>1, PushGood, InvFacts
  <2> QED BY <2>1, <2>2
<1>4. /\ record_buffer' \in [Meter -> Seq(Record)]
      /\ \A m \in Meter : Len(record_buffer'[m]) <= 2
      /\ \A m \in Meter : \A i \in 1 .. Len(record_buffer'[m]) : record_buffer'[m][i].after # 0
  <2>1. record_buffer' = [m \in Meter |-> record_buffer'[m]]
    BY DEF refresh, refresh_record
  <2> QED BY <1>3, <2>1 DEF GoodBuffer
<1>5. peak' \in Nat /\ peak <= peak' /\ Power(record_buffer'[Socket]) <= peak'
  <2>1. Power(record_buffer'[Socket]) \in Nat
    BY <1>3, PowerNat DEF Meter
  <2>2. peak' = Max2(peak, Power(record_buffer'[Socket]))
    BY DEF refresh, refresh_record
  <2> QED BY <1>1, <2>1, <2>2 DEF Max2
<1>6. /\ counter' \in [Meter -> 0 .. RaplMax]
      /\ since' \in [Meter -> Int] /\ spent' \in [Meter -> Nat]
  BY DEF refresh, refresh_record, PowerInv, TypeOK
<1>7. TypeOK' /\ Apart'
  BY <1>1, <1>2, <1>4, <1>5, <1>6 DEF TypeOK, Apart
<1>8. PowerCounted'
  BY <1>5 DEF PowerCounted, Power, Energy
<1>9. BackgroundMeasured'
  BY <1>1, <1>5 DEF BackgroundMeasured, get_background_power_microwatts, Max2
<1> QED BY <1>7, <1>8, <1>9 DEF PowerInv

\* The passing of time keeps the invariant.
LEMMA ConsumeKeeps == ASSUME PowerInv, Consume PROVE PowerInv'
<1>1. PICK e \in [Meter -> Draw] :
        /\ counter' = [m \in Meter |-> (counter[m] + e[m]) % (RaplMax + 1)]
        /\ since' = [m \in Meter |-> since[m] + 1]
        /\ spent' = [m \in Meter |-> spent[m] + e[m]]
        /\ UNCHANGED <<record_buffer, idle, activation, background_power_uw, peak>>
  BY DEF Consume
<1>2. \A m \in Meter : e[m] \in Nat
  BY SocketPowerAssumption
<1>3. \A x \in Nat : x % (RaplMax + 1) \in 0 .. RaplMax
  BY SocketPowerAssumption
<1>4. \A m \in Meter : counter[m] + e[m] \in Nat /\ since[m] + 1 \in Int /\ spent[m] + e[m] \in Nat
  BY <1>2, SocketPowerAssumption DEF PowerInv, TypeOK
<1>5. counter' \in [Meter -> 0 .. RaplMax]
  BY <1>1, <1>3, <1>4
<1>6. since' \in [Meter -> Int] /\ spent' \in [Meter -> Nat]
  BY <1>1, <1>4
<1>7. TypeOK' /\ Apart'
  BY <1>1, <1>5, <1>6 DEF PowerInv, TypeOK, Apart
<1>8. PowerCounted' /\ BackgroundMeasured'
  BY <1>1 DEF PowerInv, PowerCounted, BackgroundMeasured, Power, Energy
<1> QED BY <1>7, <1>8 DEF PowerInv

\* The invariant holds initially and is kept.
LEMMA PowerStart == Init => PowerInv
<1> SUFFICES ASSUME Init PROVE PowerInv
  OBVIOUS
<1>1. \A m \in Meter : record_buffer[m] = <<>> /\ Len(record_buffer[m]) = 0
  BY DEF Init
<1>2. TypeOK /\ Apart
  BY <1>1 DEF Init, TypeOK, Apart, EventType
<1>3. Power(record_buffer[Socket]) = 0
  BY <1>1 DEF Power, Meter
<1> QED BY <1>2, <1>3 DEF Init, PowerInv, PowerCounted, BackgroundMeasured,
                          get_background_power_microwatts, Max2

\* Every step keeps the invariant.
LEMMA PowerStep == PowerInv /\ [Next]_vars => PowerInv'
<1> SUFFICES ASSUME PowerInv, [Next]_vars PROVE PowerInv'
  OBVIOUS
<1>1. CASE Consume
  BY <1>1, ConsumeKeeps
<1>2. CASE Refresh
  <2>1. PICK events \in Delivered, failed \in SUBSET {m \in MayFail : since[m] < MaxSince} :
               refresh(events, failed)
    BY <1>2 DEF Refresh
  <2>2. events \in SUBSET EventType /\ failed \in SUBSET Meter
    BY SocketPowerAssumption DEF Meter
  <2> QED BY <2>1, <2>2, RefreshKeeps
<1>3. CASE SetClockBack
  <2>1. since' \in [Meter -> Int]
    BY <1>3, SocketPowerAssumption DEF SetClockBack, PowerInv, TypeOK
  <2>2. UNCHANGED <<counter, spent, record_buffer, idle, activation, background_power_uw, peak>>
    BY <1>3 DEF SetClockBack
  <2> QED BY <2>1, <2>2 DEF PowerInv, TypeOK, Apart, PowerCounted, BackgroundMeasured,
                            Power, Energy
<1>4. CASE UNCHANGED vars
  BY <1>4 DEF vars, PowerInv, TypeOK, Apart, PowerCounted, BackgroundMeasured, Power, Energy
<1> QED BY <1>1, <1>2, <1>3, <1>4 DEF Next

\* For any domains, counter range and draws, energies and powers are never negative.
THEOREM PowerTypeAlways == Spec => []TypeOK
<1>1. PowerInv => TypeOK
  BY DEF PowerInv
<1> QED BY <1>1, PowerStart, PowerStep, PTL DEF Spec

\* For any domains, counter range, draws and events, and however the wall clock is set
\* back, the background power never exceeds the highest power measured for the socket
\* (mod.rs 1652-1705, 1882-1896, 1924-1925).
THEOREM BackgroundMeasuredAlways == Spec => []BackgroundMeasured
<1>1. PowerInv => BackgroundMeasured
  BY DEF PowerInv
<1> QED BY <1>1, PowerStart, PowerStep, PTL DEF Spec

-----------------------------------------------------------------------------
(***************************************************************************)
(* EnergyRecovered.  Between two readings a counter goes round at most     *)
(* once, as long as less than its range is spent: CounterFollows keeps how *)
(* the counter stands to the newest record, PairsFollow how the two newest *)
(* records stand to each other.                                            *)
(***************************************************************************)

\* A counter that was at v is at w after energy s was spent: it wrapped once, or not.
Follows(v, s, w) == s <= RaplMax => w = v + s \/ w = v + s - (RaplMax + 1)

CounterFollows ==
  \A m \in Meter :
    LET b == record_buffer[m]
    IN  Len(b) > 0 => Follows(b[Len(b)].value, spent[m], counter[m])

PairsFollow ==
  \A m \in Meter :
    LET b == record_buffer[m]
    IN  Len(b) = 2 => Follows(b[1].value, b[2].spent, b[2].value)

EnergyInv == TypeOK /\ CounterFollows /\ PairsFollow

\* A number below the range is itself modulo the range, one below twice the range is
\* reduced once.
LEMMA ModOnce ==
  ASSUME NEW r \in Nat, NEW x \in Nat
  PROVE  /\ x <= r => x % (r + 1) = x
         /\ x > r /\ x <= 2 * r => x % (r + 1) = x - (r + 1)
OBVIOUS

\* Spending more energy moves the counter on.
LEMMA FollowsOn ==
  ASSUME NEW v \in 0 .. RaplMax, NEW w \in 0 .. RaplMax, NEW s \in Nat, NEW e \in Nat,
         Follows(v, s, w)
  PROVE  Follows(v, s + e, (w + e) % (RaplMax + 1))
<1> SUFFICES ASSUME s + e <= RaplMax
             PROVE  \/ (w + e) % (RaplMax + 1) = v + (s + e)
                    \/ (w + e) % (RaplMax + 1) = v + (s + e) - (RaplMax + 1)
  BY DEF Follows
<1>1. w = v + s \/ w = v + s - (RaplMax + 1)
  BY SocketPowerAssumption DEF Follows
<1>2. w + e \in Nat /\ w + e <= 2 * RaplMax
  BY SocketPowerAssumption
<1>3. /\ w + e <= RaplMax => (w + e) % (RaplMax + 1) = w + e
      /\ w + e > RaplMax => (w + e) % (RaplMax + 1) = w + e - (RaplMax + 1)
  BY <1>2, ModOnce, SocketPowerAssumption
<1>4. CASE w = v + s
  BY <1>3, <1>4, SocketPowerAssumption
<1>5. CASE w = v + s - (RaplMax + 1)
  BY <1>3, <1>5, SocketPowerAssumption
<1> QED BY <1>1, <1>4, <1>5

\* The energy between two records, from how the counter got from one to the other.
LEMMA EnergyOfPair ==
  ASSUME NEW b, b[1].value \in 0 .. RaplMax, b[2].value \in 0 .. RaplMax, b[2].spent \in Nat,
         Follows(b[1].value, b[2].spent, b[2].value), b[2].spent <= RaplMax
  PROVE  \/ Energy(b) = b[2].spent
         \/ Energy(b) = b[2].spent - 1 /\ b[2].value < b[1].value
<1> DEFINE v == b[1].value
           s == b[2].spent
           w == b[2].value
<1>1. v \in 0 .. RaplMax /\ w \in 0 .. RaplMax /\ s \in Nat /\ s <= RaplMax
  OBVIOUS
<1>2. w = v + s \/ w = v + s - (RaplMax + 1)
  BY DEF Follows
<1>3. Energy(b) = IF w >= v THEN w - v ELSE saturating_sub(RaplMax, v) + w
  BY DEF Energy
<1> HIDE DEF v, s, w
<1>4. saturating_sub(RaplMax, v) = RaplMax - v
  BY <1>1, SocketPowerAssumption DEF saturating_sub
<1>5. CASE w = v + s
  <2>1. w >= v /\ w - v = s
    BY <1>1, <1>5
  <2> QED BY <1>3, <2>1 DEF v, s, w
<1>6. CASE w = v + s - (RaplMax + 1)
  <2>1. w < v /\ ~(w >= v) /\ (RaplMax - v) + w = s - 1
    BY <1>1, <1>6, SocketPowerAssumption
  <2> QED BY <1>3, <1>4, <2>1 DEF v, s, w
<1> QED BY <1>2, <1>5, <1>6

\* The records of a buffer.
LEMMA BufferType ==
  ASSUME TypeOK, NEW m \in Meter
  PROVE  LET b == record_buffer[m]
         IN  /\ b \in Seq(Record) /\ Len(b) \in Nat /\ Len(b) <= 2
             /\ Len(b) = 0 \/ Len(b) = 1 \/ Len(b) = 2
             /\ \A i \in 1 .. Len(b) : /\ b[i] \in Record
                                       /\ b[i].value \in 0 .. RaplMax /\ b[i].spent \in Nat
<1> DEFINE b == record_buffer[m]
<1>1. b \in Seq(Record) /\ Len(b) \in Nat /\ Len(b) <= 2
  BY DEF TypeOK
<1> HIDE DEF b
<1>2. Len(b) = 0 \/ Len(b) = 1 \/ Len(b) = 2
  BY <1>1, UpToTwo, Zenon
<1>3. \A i \in 1 .. Len(b) : b[i] \in Record
  BY <1>1
<1>4. \A i \in 1 .. Len(b) : b[i].value \in 0 .. RaplMax /\ b[i].spent \in Nat
  BY <1>3 DEF Record
<1> QED BY <1>1, <1>2, <1>3, <1>4 DEF b

\* A pushed record comes last, behind the one that was last before.
LEMMA PushShape ==
  ASSUME TypeOK, NEW m \in Meter
  PROVE  LET b == record_buffer[m]
             p == Push(m)
         IN  /\ Len(b) = 0 => Len(p) = 1
             /\ Len(b) > 0 => Len(p) = 2 /\ p[1] = b[Len(b)]
             /\ p[Len(p)] = [value |-> counter[m], after |-> since[m], spent |-> spent[m]]
             /\ Len(p) \in Nat
<1> DEFINE b == record_buffer[m]
           r == [value |-> counter[m], after |-> since[m], spent |-> spent[m]]
           a == Append(b, r)
           p == Push(m)
<1>1. b \in Seq(Record) /\ Len(b) \in Nat /\ (Len(b) = 0 \/ Len(b) = 1 \/ Len(b) = 2)
  BY BufferType
<1>2. r \in Record
  BY DEF TypeOK, Record
<1>3. p = SubSeq(a, Max2(1, Len(a) - 1), Len(a))
  BY DEF Push
<1> HIDE DEF b, r, p
<1>4. /\ a \in Seq(Record) /\ Len(a) = Len(b) + 1
      /\ a[Len(a)] = r /\ \A i \in 1 .. Len(b) : a[i] = b[i]
  BY <1>1, <1>2
<1> HIDE DEF a
<1>5. CASE Len(b) = 0
  <2>1. p = SubSeq(a, 1, 1) /\ Len(a) = 1
    BY <1>3, <1>4, <1>5 DEF Max2
  <2>2. Len(p) = 1 /\ p[1] = a[1]
    BY <1>4, <2>1
  <2> QED BY <1>4, <1>5, <2>1, <2>2 DEF b, r, p
<1>6. CASE Len(b) = 1
  <2>1. p = SubSeq(a, 1, 2) /\ Len(a) = 2
    BY <1>3, <1>4, <1>6 DEF Max2
  <2>2. Len(p) = 2 /\ p[1] = a[1] /\ p[2] = a[2]
    BY <1>4, <2>1
  <2> QED BY <1>4, <1>6, <2>1, <2>2 DEF b, r, p
<1>7. CASE Len(b) = 2
  <2>1. p = SubSeq(a, 2, 3) /\ Len(a) = 3
    BY <1>3, <1>4, <1>7 DEF Max2
  <2>2. Len(p) = 2 /\ p[1] = a[2] /\ p[2] = a[3]
    BY <1>4, <2>1
  <2> QED BY <1>4, <1>7, <2>1, <2>2 DEF b, r, p
<1> QED BY <1>1, <1>5, <1>6, <1>7

\* A refresh keeps the invariant of the energies.
LEMMA EnergyRefresh ==
  ASSUME EnergyInv, TypeOK', NEW failed \in SUBSET Meter, refresh_record(failed)
  PROVE  EnergyInv'
<1> SUFFICES ASSUME NEW m \in Meter
             PROVE  LET b == record_buffer'[m]
                    IN  /\ Len(b) > 0 => Follows(b[Len(b)].value, spent'[m], counter'[m])
                        /\ Len(b) = 2 => Follows(b[1].value, b[2].spent, b[2].value)
  BY DEF EnergyInv, CounterFollows, PairsFollow, Follows
<1>1. CASE m \in failed
  <2>1. record_buffer'[m] = record_buffer[m] /\ spent'[m] = spent[m] /\ counter' = counter
    BY <1>1 DEF refresh_record
  <2> QED BY <2>1 DEF EnergyInv, CounterFollows, PairsFollow
<1>2. CASE m \notin failed
  <2> DEFINE p == Push(m)
             o == record_buffer[m]
             r == [value |-> counter[m], after |-> since[m], spent |-> spent[m]]
  <2>1. record_buffer'[m] = p /\ spent'[m] = 0 /\ counter'[m] = counter[m]
    BY <1>2 DEF refresh_record
  <2>2. /\ Len(o) = 0 => Len(p) = 1
        /\ Len(o) > 0 => Len(p) = 2 /\ p[1] = o[Len(o)]
        /\ p[Len(p)] = r /\ Len(p) \in Nat
    BY PushShape DEF EnergyInv
  <2>3. Len(o) \in Nat /\ (Len(o) > 0 => Follows(o[Len(o)].value, spent[m], counter[m]))
    BY BufferType DEF EnergyInv, CounterFollows
  <2>4. r.value = counter[m] /\ r.spent = spent[m] /\ counter[m] \in Int
    BY SocketPowerAssumption DEF EnergyInv, TypeOK
  <2> HIDE DEF p, o, r
  <2>5. Follows(p[Len(p)].value, 0, counter[m])
    BY <2>2, <2>4 DEF Follows
  <2>6. Len(p) = 2 => Follows(p[1].value, p[2].spent, p[2].value)
    BY <2>2, <2>3, <2>4
  <2> QED BY <2>1, <2>5, <2>6
<1> QED BY <1>1, <1>2

\* The passing of time keeps it.
LEMMA EnergyConsume == ASSUME EnergyInv, TypeOK', Consume PROVE EnergyInv'
<1>1. PICK e \in [Meter -> Draw] :
        /\ counter' = [m \in Meter |-> (counter[m] + e[m]) % (RaplMax + 1)]
        /\ spent' = [m \in Meter |-> spent[m] + e[m]]
        /\ record_buffer' = record_buffer
  BY DEF Consume
<1>2. PairsFollow'
  BY <1>1 DEF EnergyInv, PairsFollow, Follows
<1>3. CounterFollows'
  <2> SUFFICES ASSUME NEW m \in Meter, Len(record_buffer[m]) > 0
               PROVE  Follows(record_buffer[m][Len(record_buffer[m])].value,
                              spent'[m], counter'[m])
    BY <1>1 DEF CounterFollows, Follows
  <2> DEFINE b == record_buffer[m]
             v == b[Len(b)].value
  <2>1. v \in 0 .. RaplMax
    BY BufferType DEF EnergyInv
  <2>2. counter[m] \in 0 .. RaplMax /\ spent[m] \in Nat
    BY DEF EnergyInv, TypeOK
  <2>3. e[m] \in Nat
    BY SocketPowerAssumption
  <2>4. Follows(v, spent[m], counter[m])
    BY DEF EnergyInv, CounterFollows
  <2>5. Follows(v, spent[m] + e[m], (counter[m] + e[m]) % (RaplMax + 1))
    BY <2>1, <2>2, <2>3, <2>4, FollowsOn
  <2> QED BY <1>1, <2>5
<1> QED BY <1>2, <1>3 DEF EnergyInv

\* For any counter range, draws and failed readings, the energy between two readings is
\* recovered across a wrap, but for one unit (mod.rs 1918-1922, 2396-2400).
THEOREM EnergyRecoveredAlways == Spec => []EnergyRecovered
<1>1. Init => EnergyInv
  <2> SUFFICES ASSUME Init PROVE EnergyInv
    OBVIOUS
  <2>1. TypeOK
    BY PowerStart DEF PowerInv
  <2>2. \A m \in Meter : Len(record_buffer[m]) = 0
    BY DEF Init
  <2> QED BY <2>1, <2>2 DEF EnergyInv, CounterFollows, PairsFollow
<1>2. EnergyInv /\ TypeOK' /\ [Next]_vars => EnergyInv'
  <2> SUFFICES ASSUME EnergyInv, TypeOK', [Next]_vars PROVE EnergyInv'
    OBVIOUS
  <2>1. CASE Consume
    BY <2>1, EnergyConsume
  <2>2. CASE Refresh
    <3>1. PICK events \in Delivered, failed \in SUBSET {m \in MayFail : since[m] < MaxSince} :
                 refresh(events, failed)
      BY <2>2 DEF Refresh
    <3>2. failed \in SUBSET Meter
      BY SocketPowerAssumption DEF Meter
    <3> QED BY <3>1, <3>2, EnergyRefresh DEF refresh
  <2>3. CASE UNCHANGED <<counter, spent, record_buffer>>
    BY <2>3 DEF EnergyInv, CounterFollows, PairsFollow, Follows
  <2> QED BY <2>1, <2>2, <2>3 DEF Next, SetClockBack, vars
<1>3. EnergyInv => EnergyRecovered
  <2> SUFFICES ASSUME EnergyInv, NEW m \in Meter, Len(record_buffer[m]) = 2,
                      record_buffer[m][2].spent <= RaplMax
               PROVE  \/ Energy(record_buffer[m]) = record_buffer[m][2].spent
                      \/ /\ Energy(record_buffer[m]) = record_buffer[m][2].spent - 1
                         /\ record_buffer[m][2].value < record_buffer[m][1].value
    BY DEF EnergyRecovered
  <2> DEFINE b == record_buffer[m]
  <2>1. b[1].value \in 0 .. RaplMax /\ b[2].value \in 0 .. RaplMax /\ b[2].spent \in Nat
    BY BufferType DEF EnergyInv
  <2>2. Follows(b[1].value, b[2].spent, b[2].value)
    BY DEF EnergyInv, PairsFollow
  <2> HIDE DEF b
  <2>3. b[2].spent <= RaplMax
    BY DEF b
  <2> QED BY <2>1, <2>2, <2>3, EnergyOfPair DEF b
<1> QED BY <1>1, <1>2, <1>3, PowerTypeAlways, PTL DEF Spec

=============================================================================
