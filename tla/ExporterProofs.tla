--------------------------- MODULE ExporterProofs ---------------------------
(***************************************************************************)
(* Proofs about the exporters: PrometheusServer, for any number of         *)
(* workers, and ExporterLoop, for any containers, pods, resolution of the  *)
(* clock, period and limits.                                               *)
(*                                                                         *)
(* Refreshes of the server are spaced because the last request is never    *)
(* older than the one that made the last refresh (Refreshed), and a request*)
(* is refreshed for after it was made (Later).  While requests do not      *)
(* overlap, the clock is not set back and nothing panics, the time a       *)
(* worker has read is never before the last request (Ordered), so that no  *)
(* mutex is poisoned.                                                      *)
(*                                                                         *)
(* The loops keep metrics of the current refresh only (Fresh), so that the *)
(* reports follow each other (ReportsInv).  As long as                     *)
(* docker answers in time, it remembers the start of every container that  *)
(* is not listed (Remembered), and a check that is over has found what was *)
(* started before its second (DockerStep); the pods are as many seconds    *)
(* behind as their period says (PodsStep).                                 *)
(***************************************************************************)
EXTENDS PrometheusServer, ExporterLoop, TLAPS

-----------------------------------------------------------------------------
(***************************************************************************)
(* The server.                                                             *)
(***************************************************************************)

\* The last request is not older than the one that made the last refresh.
Refreshed == asked <= last_request /\ (asked = Never <=> refreshed = Never)

\* Times that were read are past, and a refresh comes after the request it is made for.
Later ==
  ~setBack => /\ asked <= refreshed
              /\ \A w \in Worker : pc[w] # "idle" => now[w] <= clock

\* The first request refreshes, because the epoch is more than two seconds ago.
FirstRefreshes ==
  /\ clock >= Start
  /\ \A w \in Worker : pc[w] # "idle" => now[w] >= Start
  /\ refreshed = Never => last_request = 0

ServerInv == TypeOK /\ Refreshed /\ Later /\ FirstRefreshes

\* At the start no worker holds a mutex.
LEMMA InitInv == Init => ServerInv
<1> SUFFICES ASSUME Init PROVE ServerInv
  OBVIOUS
<1>1. \A w \in Worker : \A m \in Mutex : owner[m] # w
  BY PrometheusServerAssumption DEF Init
<1>2. TypeOK
  BY <1>1 DEF Init, TypeOK, Mutex, Bodies, Start, Never
<1> QED BY <1>2 DEF ServerInv, Refreshed, Later, FirstRefreshes, Init, Never, Start

\* Releasing, when the worker holds both mutexes, leaves nobody with one.
LEMMA ReleaseType ==
  ASSUME TypeOK, NEW w \in Worker, pc[w] \in {"handle", "generate"}, Release(w)
  PROVE  /\ pc' \in [Worker -> {"idle", "lock_request", "lock_generator", "handle", "generate"}]
         /\ owner' \in [Mutex -> Worker \cup {Nobody}]
         /\ \A u \in Worker :
              /\ owner'["last_request"] = u <=> pc'[u] \in {"lock_generator", "handle", "generate"}
              /\ owner'["metric_generator"] = u <=> pc'[u] \in {"handle", "generate"}
<1>1. owner["last_request"] = w /\ owner["metric_generator"] = w
  BY DEF TypeOK
<1>2. \A u \in Worker : u # w => pc[u] \notin {"lock_generator", "handle", "generate"}
  BY <1>1 DEF TypeOK
<1>3. \A u \in Worker : pc'[u] \notin {"lock_generator", "handle", "generate"}
  BY <1>2 DEF Release, TypeOK
<1>4. \A u \in Worker : owner'["last_request"] # u /\ owner'["metric_generator"] # u
  BY PrometheusServerAssumption DEF Release, Mutex
<1>5. /\ pc' \in [Worker -> {"idle", "lock_request", "lock_generator", "handle", "generate"}]
      /\ owner' \in [Mutex -> Worker \cup {Nobody}]
  BY DEF Release, TypeOK
<1> QED BY <1>3, <1>4, <1>5

\* Every step of a worker, and of the clock, keeps the invariant of the server.
LEMMA StepInv == ServerInv /\ [Next]_vars => ServerInv'
<1> SUFFICES ASSUME ServerInv, [Next]_vars PROVE ServerInv'
  OBVIOUS
<1> USE DEF ServerInv
<1>1. CASE Tick
  BY <1>1 DEF Tick, measured, history, TypeOK, Refreshed, Later, FirstRefreshes, Start
<1>2. CASE SetClockBack
  BY <1>2 DEF SetClockBack, measured, TypeOK, Refreshed, Later, FirstRefreshes, Start
<1>3. ASSUME NEW w \in Worker, Accept(w) PROVE ServerInv'
  BY <1>3 DEF Accept, measured, TypeOK, Refreshed, Later, FirstRefreshes
<1>4. ASSUME NEW w \in Worker, AcceptOther(w) PROVE ServerInv'
  BY <1>4 DEF AcceptOther, Reply, measured, history, TypeOK, Refreshed, Later, FirstRefreshes, Bodies
<1>5. ASSUME NEW w \in Worker, LockRequest(w) PROVE ServerInv'
  <2>1. Refreshed' /\ Later' /\ FirstRefreshes'
    BY <1>5 DEF LockRequest, Lock, measured, history, TypeOK, Refreshed, Later, FirstRefreshes
  <2>2. TypeOK'
    BY <1>5, PrometheusServerAssumption
    DEF LockRequest, Lock, Reply, measured, history, TypeOK, Mutex, Bodies
  <2> QED BY <2>1, <2>2
<1>6. ASSUME NEW w \in Worker, LockGenerator(w) PROVE ServerInv'
  <2>1. Refreshed' /\ Later' /\ FirstRefreshes'
    BY <1>6 DEF LockGenerator, Lock, measured, history, TypeOK, Refreshed, Later, FirstRefreshes
  <2>2. TypeOK'
    BY <1>6, PrometheusServerAssumption
    DEF LockGenerator, Lock, Reply, measured, history, TypeOK, Mutex, Bodies
  <2> QED BY <2>1, <2>2
<1>7. ASSUME NEW w \in Worker, Panic(w) \/ Fail(w) PROVE ServerInv'
  <2>1. /\ Abort(w) /\ Release(w) /\ pc[w] \in {"handle", "generate"}
        /\ overlapped' = overlapped /\ setBack' = setBack /\ failed' \in BOOLEAN
    BY <1>7 DEF Panic, Fail, Abort, history, TypeOK
  <2>2. Refreshed' /\ Later' /\ FirstRefreshes'
    BY <2>1 DEF Abort, Release, measured, TypeOK, Refreshed, Later, FirstRefreshes
  <2>3. reply' \in [Worker -> Bodies]
    BY <2>1 DEF Abort, Reply, TypeOK, Bodies
  <2>4. TypeOK'
    BY <2>1, <2>3, ReleaseType DEF Abort, measured, TypeOK
  <2> QED BY <2>2, <2>4
<1>8. ASSUME NEW w \in Worker, Handle(w) PROVE ServerInv'
  <2>1. /\ pc[w] = "handle" /\ now[w] \in Nat /\ now[w] >= last_request /\ now[w] >= Start
        /\ last_request' = now[w] /\ clock' = clock
    BY <1>8 DEF Handle, TypeOK, FirstRefreshes
  <2>2. /\ refreshed' \in Nat /\ asked' \in Nat /\ served' \in Nat /\ asked' <= now[w]
        /\ (~setBack => asked' <= refreshed')
    BY <1>8, <2>1 DEF Handle, Refresh, Old, TypeOK, Refreshed, Later, FirstRefreshes, Never,
                      Start, Min_age
  <2>3. Refreshed' /\ FirstRefreshes'
    BY <1>8, <2>1, <2>2 DEF Handle, TypeOK, Refreshed, FirstRefreshes, Never
  <2>4. Later'
    BY <1>8, <2>1, <2>2 DEF Handle, history, TypeOK, Later
  <2>5. TypeOK'
    BY <1>8, <2>1, <2>2 DEF Handle, history, TypeOK
  <2> QED BY <2>3, <2>4, <2>5
<1>9. ASSUME NEW w \in Worker, Answer(w) PROVE ServerInv'
  <2>1. Release(w) /\ pc[w] \in {"handle", "generate"}
    BY <1>9 DEF Answer
  <2>2. Refreshed' /\ Later' /\ FirstRefreshes'
    BY <1>9 DEF Answer, Release, measured, history, TypeOK, Refreshed, Later, FirstRefreshes
  <2>3. reply' \in [Worker -> Bodies]
    BY <1>9 DEF Answer, Reply, TypeOK, Bodies
  <2>4. TypeOK'
    BY <1>9, <2>1, <2>3, ReleaseType DEF Answer, measured, history, TypeOK
  <2> QED BY <2>2, <2>4
<1>10. CASE UNCHANGED vars
  BY <1>10 DEF vars, measured, history, TypeOK, Refreshed, Later, FirstRefreshes
<1> QED
  BY <1>1, <1>2, <1>3, <1>4, <1>5, <1>6, <1>7, <1>8, <1>9, <1>10 DEF Next, Work

\* Only a request that is handled changes what is measured.
LEMMA MeasuredBy ==
  [Next]_vars => UNCHANGED measured \/ \E w \in Worker : Handle(w)
BY DEF Next, Work, Tick, SetClockBack, Accept, AcceptOther, LockRequest, LockGenerator, Lock,
       Panic, Fail, Abort, Answer, vars

\* The mutexes protect what they should and the data keep their types, for any number
\* of workers and poisoned mutexes too.
THEOREM ServerTypeAlways == Spec => []TypeOK
<1>1. ServerInv => TypeOK
  BY DEF ServerInv
<1> QED BY <1>1, InitInv, StepInv, PTL DEF Spec

\* For any number of workers: two refreshes are more than two seconds apart, less what the
\* request that made the earlier one had waited for it, unless the clock is set back.
THEOREM RefreshSpacedAlways == Spec => RefreshSpaced
<1>1. ServerInv /\ [Next]_vars
      => [asked' # asked /\ asked # Never /\ ~setBack
            => (refreshed' - refreshed) + (refreshed - asked) > Min_age]_vars
  <2> SUFFICES ASSUME ServerInv, [Next]_vars, asked' # asked, asked # Never, ~setBack
               PROVE  (refreshed' - refreshed) + (refreshed - asked) > Min_age
    OBVIOUS
  <2>1. PICK w \in Worker : Handle(w)
    BY MeasuredBy DEF measured
  <2>2. Old(w, Min_age) /\ refreshed' = clock
    BY <2>1 DEF Handle, Refresh
  <2>3. now[w] <= clock
    BY <2>1 DEF Handle, ServerInv, Later
  <2> QED BY <2>2, <2>3 DEF Old, ServerInv, TypeOK, Refreshed, Min_age, Never
<1> QED BY <1>1, InitInv, StepInv, PTL DEF Spec, RefreshSpaced

\* What is served is never older than two seconds for each answer given from it, for
\* any number of workers and however the clock is set.
THEOREM StaleBoundedAlways == Spec => []StaleBounded
<1> DEFINE Bounded == refreshed # Never => last_request - asked <= Min_age * served
<1>1. Init => Bounded
  BY DEF Init
<1>2. ServerInv /\ Bounded /\ [Next]_vars => Bounded'
  <2> SUFFICES ASSUME ServerInv, Bounded, [Next]_vars PROVE Bounded'
    OBVIOUS
  <2>1. CASE UNCHANGED measured
    BY <2>1 DEF measured
  <2>2. ASSUME NEW w \in Worker, Handle(w) PROVE Bounded'
    <3>1. /\ last_request \in Nat /\ served \in Nat /\ now[w] \in Nat
          /\ asked \in Nat \cup {Never} /\ last_request' = now[w]
      BY <2>2 DEF Handle, ServerInv, TypeOK
    <3>2. CASE Old(w, Min_age)
      BY <2>2, <3>1, <3>2 DEF Handle, Refresh, Min_age
    <3>3. CASE ~Old(w, Min_age)
      <4>1. refreshed' = refreshed /\ asked' = asked /\ served' = served + 1
        BY <2>2, <3>3 DEF Handle, Refresh
      <4> QED BY <3>1, <3>3, <4>1 DEF Old, Min_age, Never
    <3> QED BY <3>2, <3>3
  <2> QED BY <2>1, <2>2, MeasuredBy
<1>3. ServerInv /\ Bounded => StaleBounded
  BY DEF StaleBounded, ServerInv, TypeOK, Later, Refreshed, Min_age, Never
<1> QED BY <1>1, <1>2, <1>3, InitInv, StepInv, PTL DEF Spec

-----------------------------------------------------------------------------
(***************************************************************************)
(* Requests that do not overlap.                                           *)
(***************************************************************************)

\* One request at a time, and times are read in the order in which they are used.
Ordered ==
  ~overlapped /\ ~setBack /\ ~failed =>
    /\ last_request <= clock
    /\ \A w \in Worker : pc[w] # "idle" => last_request <= now[w] /\ now[w] <= clock
    /\ \A u, w \in Worker : pc[u] # "idle" /\ pc[w] # "idle" => u = w
    /\ poisoned = {}

TurnInv == ServerInv /\ Ordered /\ ServedInTurn

\* Without overlap every step keeps the order of the times.
LEMMA TurnStep == TurnInv /\ [Next]_vars => TurnInv'
<1> SUFFICES ASSUME TurnInv, [Next]_vars PROVE Ordered' /\ ServedInTurn'
  BY StepInv DEF TurnInv
<1> USE DEF TurnInv, ServerInv, TypeOK, Ordered, ServedInTurn
<1>1. CASE Tick
  BY <1>1 DEF Tick, measured, history
<1>2. CASE SetClockBack
  BY <1>2 DEF SetClockBack
<1>3. ASSUME NEW w \in Worker, Accept(w) PROVE Ordered' /\ ServedInTurn'
  <2>1. CASE overlapped' \/ setBack' \/ failed'
    BY <2>1
  <2>2. CASE ~overlapped' /\ ~setBack' /\ ~failed'
    <3>1. ~overlapped /\ ~setBack /\ ~failed /\ \A u \in Worker : pc[u] = "idle"
      BY <1>3, <2>2, Zenon DEF Accept
    <3> QED BY <1>3, <3>1 DEF Accept, measured
  <2> QED BY <2>1, <2>2
<1>4. ASSUME NEW w \in Worker, AcceptOther(w) PROVE Ordered' /\ ServedInTurn'
  BY <1>4 DEF AcceptOther, Reply, measured, history
<1>5. ASSUME NEW w \in Worker, LockRequest(w) PROVE Ordered' /\ ServedInTurn'
  BY <1>5 DEF LockRequest, Lock, measured, history
<1>6. ASSUME NEW w \in Worker, LockGenerator(w) PROVE Ordered' /\ ServedInTurn'
  BY <1>6 DEF LockGenerator, Lock, measured, history
<1>7. ASSUME NEW w \in Worker, Panic(w) PROVE Ordered' /\ ServedInTurn'
  BY <1>7 DEF Panic, history
<1>8. ASSUME NEW w \in Worker, Fail(w) PROVE Ordered' /\ ServedInTurn'
  BY <1>8 DEF Fail
<1>9. ASSUME NEW w \in Worker, Handle(w) PROVE Ordered' /\ ServedInTurn'
  BY <1>9 DEF Handle, history
<1>10. ASSUME NEW w \in Worker, Answer(w) PROVE Ordered' /\ ServedInTurn'
  BY <1>10 DEF Answer, Release, Reply, measured, history
<1>11. CASE UNCHANGED vars
  BY <1>11 DEF vars, measured, history
<1> QED
  BY <1>1, <1>2, <1>3, <1>4, <1>5, <1>6, <1>7, <1>8, <1>9, <1>10, <1>11 DEF Next, Work

\* For any number of workers, an overlap, a set-back clock and a panic of the refresh or of
\* the generation of metrics are the only causes of an answer without data.
THEOREM ServedInTurnAlways == Spec => []ServedInTurn
<1>1. Init => TurnInv
  BY InitInv DEF Init, TurnInv, Ordered, ServedInTurn, Start
<1>2. TurnInv => ServedInTurn
  BY DEF TurnInv
<1> QED BY <1>1, <1>2, TurnStep, PTL DEF Spec

-----------------------------------------------------------------------------
(***************************************************************************)
(* The loops.                                                              *)
(***************************************************************************)

\* The metrics kept are of the iteration's refresh, and there are some to deliver.
Fresh ==
  /\ refreshes \in Nat
  /\ loop_pc \in {"generate", "watch", "deliver"} => refreshes > 0
  /\ \A m \in data : m.from = refreshes
  /\ loop_pc \in {"watch", "deliver"} <=> data # {}

\* The last refresh whose iteration is over.
Over == IF loop_pc \in {"generate", "watch", "deliver"} THEN refreshes - 1 ELSE refreshes

\* The reports are in turn, and of iterations that are over.
ReportsInv ==
  /\ written \in Seq(SUBSET Nat)
  /\ flushed \in Nat
  /\ \A i \in DOMAIN written : InTurn(i) /\ written[i] \subseteq 1..Over
  /\ \A n \in 1..Over : n \notin skipped => \E i \in DOMAIN written : written[i] = {n}
  /\ flushed <= Whole(written)
  /\ loop_pc = "ended" /\ ~lost => flushed = Whole(written)

\* No metrics and no reports to begin with.
LEMMA FreshInit == LoopInit => Fresh /\ ReportsInv
<1> SUFFICES ASSUME LoopInit PROVE Fresh /\ ReportsInv
  OBVIOUS
<1>1. /\ written = <<>> /\ Len(<<>>) = 0 /\ <<>> \in Seq(SUBSET Nat)
      /\ \A i \in DOMAIN <<>> : FALSE
  BY DEF LoopInit
<1>2. Fresh /\ Over = 0 /\ flushed = 0 /\ Whole(written) = 0
  BY <1>1 DEF LoopInit, Fresh, Over, Whole
<1> QED BY <1>1, <1>2 DEF LoopInit, ReportsInv

\* Every step keeps the metrics of the current refresh only.
LEMMA FreshStep == Fresh /\ [LoopNext]_loop_vars => Fresh'
<1> SUFFICES ASSUME Fresh, [LoopNext]_loop_vars PROVE Fresh'
  OBVIOUS
<1> USE DEF Fresh
<1>1. CASE RefreshTopology
  BY <1>1 DEF RefreshTopology
<1>2. CASE gen_all_metrics
  <2>1. /\ data' = data \cup {[from |-> refreshes, names |-> {}]}
        /\ UNCHANGED refreshes /\ loop_pc = "generate" /\ loop_pc' \in {"watch", "deliver"}
    BY <1>2 DEF gen_all_metrics, Measured
  <2>2. data = {} /\ refreshes > 0
    BY <2>1
  <2>3. data' = {[from |-> refreshes, names |-> {}]}
    BY <2>1, <2>2
  <2>4. \A m \in data' : m.from = refreshes
    BY <2>3
  <2>5. data' # {}
    BY <2>3
  <2> QED BY <2>1, <2>2, <2>4, <2>5
<1>3. CASE ProcessMetrics
  BY <1>3 DEF ProcessMetrics, Measured
<1>4. CASE Deliver \/ NotDelivered
  BY <1>4 DEF Deliver, NotDelivered, Slept
<1>5. CASE SendFails
  BY <1>5 DEF SendFails
<1>6. CASE End \/ Wake
  BY <1>6 DEF End, Wake
<1>7. CASE UNCHANGED loop
  BY <1>7 DEF loop
<1>8. CASE UNCHANGED loop_vars
  BY <1>8 DEF loop_vars
<1> QED BY <1>1, <1>2, <1>3, <1>4, <1>5, <1>6, <1>7, <1>8
        DEF LoopNext, Iteration, WatchStep

\* The report of the current refresh comes in turn after the others.
LEMMA Reports ==
  ASSUME Fresh, ReportsInv, loop_pc = "deliver", UNCHANGED refreshes, written' = Report
  PROVE  /\ written' \in Seq(SUBSET Nat)
         /\ DOMAIN written \subseteq DOMAIN written'
         /\ \A i \in DOMAIN written : written'[i] = written[i]
         /\ \E i \in DOMAIN written' : written'[i] = {refreshes}
         /\ \A i \in DOMAIN written' : InTurn(i)' /\ written'[i] \subseteq 1..refreshes
         /\ Whole(written) \in Nat /\ Whole(written') = Whole(written) + 2
<1> DEFINE k == Len(written) + 1
<1>1. Froms(data) = {refreshes}
  BY DEF Fresh, Froms
<1>2. refreshes \in Nat /\ refreshes > 0 /\ written \in Seq(SUBSET Nat)
  BY DEF Fresh, ReportsInv
<1>3. written' = Append(written, {refreshes})
  BY <1>1 DEF Report
<1>4. /\ written' \in Seq(SUBSET Nat)
      /\ Len(written) \in Nat /\ DOMAIN written = 1..Len(written)
      /\ Len(written') = k /\ DOMAIN written' = 1..k
      /\ written'[k] = {refreshes}
      /\ \A i \in 1..Len(written) : written'[i] = written[i]
  BY <1>2, <1>3
<1>5. \A i \in DOMAIN written : InTurn(i) /\ written[i] \subseteq 1..(refreshes - 1)
  BY DEF ReportsInv, Over
<1>6. ASSUME NEW i \in 1..Len(written)
      PROVE  InTurn(i)' /\ written'[i] \subseteq 1..refreshes
  <2>1. PICK n \in 1..refreshes :
          written[i] = {n} /\ \A j \in 1..(i - 1) : written[j] \subseteq 1..(n - 1)
    BY <1>4, <1>5 DEF InTurn
  <2>2. \A j \in 1..(i - 1) : written'[j] = written[j]
    BY <1>4
  <2> QED BY <2>1, <2>2, <1>4, <1>5, <1>2 DEF InTurn
<1>7. ASSUME NEW i \in Nat, i = k PROVE InTurn(i)' /\ written'[i] \subseteq 1..refreshes
  <2>1. \A j \in 1..(i - 1) : written'[j] \subseteq 1..(refreshes - 1)
    BY <1>4, <1>5, <1>7
  <2>2. refreshes \in 1..refreshes /\ {refreshes} \subseteq 1..refreshes
    BY <1>2
  <2>3. written'[i] = {refreshes}
    BY <1>4, <1>7
  <2> QED BY <2>1, <2>2, <2>3, <1>2 DEF InTurn
<1>8. \A i \in 1..k : i \in Nat /\ (i \in 1..Len(written) \/ i = k)
  BY <1>4
<1>9. Whole(written) \in Nat /\ Whole(written') = Whole(written) + 2
  BY <1>4 DEF Whole
<1>10. \A i \in DOMAIN written' : InTurn(i)' /\ written'[i] \subseteq 1..refreshes
  BY <1>4, <1>6, <1>7, <1>8
<1>11. k \in DOMAIN written' /\ DOMAIN written \subseteq DOMAIN written'
  BY <1>4
<1> HIDE DEF k
<1> QED BY <1>4, <1>9, <1>10, <1>11

\* The types of the refreshes and of the last one that is over.
OverType == refreshes \in Nat /\ Over \in Nat

\* An iteration has begun with a refresh.
LEMMA OverTyped == Fresh => OverType
BY DEF Fresh, OverType, Over

\* The same of the next state.
LEMMA OverTypedNext == Fresh' => OverType'
BY OverTyped, PTL

\* What is done while nothing is reported.
LEMMA NothingReported ==
  ASSUME Fresh, ReportsInv, Fresh', UNCHANGED written, refreshes <= refreshes',
         Over <= Over', \A n \in 1..Over' : n \in 1..Over \/ n \in skipped',
         skipped \subseteq skipped', flushed' \in flushed..Whole(written),
         loop_pc' = "ended" /\ ~lost' => flushed' = Whole(written)
  PROVE  ReportsInv'
<1>1. refreshes \in Nat /\ refreshes' \in Nat /\ Over \in Nat /\ Over' \in Nat
  BY OverTyped, OverTypedNext, Zenon DEF OverType
<1>2. ASSUME NEW i \in DOMAIN written PROVE InTurn(i)' /\ written[i] \subseteq 1..Over'
  <2>1. InTurn(i) /\ written[i] \subseteq 1..Over
    BY DEF ReportsInv
  <2>2. 1..refreshes \subseteq 1..refreshes' /\ 1..Over \subseteq 1..Over'
    BY <1>1
  <2>3. PICK n \in 1..refreshes :
          written[i] = {n} /\ \A j \in 1..(i - 1) : written[j] \subseteq 1..(n - 1)
    BY <2>1 DEF InTurn
  <2>4. InTurn(i)'
    BY <2>2, <2>3 DEF InTurn
  <2> QED BY <2>1, <2>2, <2>4
<1>3. \A n \in 1..Over' : n \notin skipped' => \E i \in DOMAIN written : written[i] = {n}
  BY DEF ReportsInv
<1>4. Whole(written) \in Nat /\ Whole(written') = Whole(written) /\ flushed \in Nat
  BY DEF ReportsInv, Whole
<1>5. flushed' \in Nat /\ flushed' <= Whole(written)
  BY <1>4
<1> QED BY <1>2, <1>3, <1>4, <1>5 DEF ReportsInv

\* Every step leaves the reports in turn and complete.
LEMMA ReportsStep == Fresh /\ ReportsInv /\ [LoopNext]_loop_vars => ReportsInv'
<1> SUFFICES ASSUME Fresh, ReportsInv, [LoopNext]_loop_vars PROVE ReportsInv'
  OBVIOUS
<1>0. /\ Whole(written) \in Nat /\ flushed \in Nat /\ flushed \in flushed..Whole(written)
      /\ refreshes \in Nat /\ Over \in Nat /\ Fresh'
  BY FreshStep DEF Fresh, Over, ReportsInv, Whole
<1>1. ASSUME UNCHANGED output, refreshes <= refreshes', Over' = Over, loop_pc' # "ended"
      PROVE  ReportsInv'
  BY <1>0, <1>1, NothingReported DEF output
<1>2. CASE RefreshTopology \/ gen_all_metrics \/ ProcessMetrics \/ Wake
  <2>1. UNCHANGED output /\ loop_pc' # "ended"
    BY <1>2 DEF RefreshTopology, gen_all_metrics, ProcessMetrics, Wake
  <2>2. refreshes <= refreshes' /\ Over' = Over
    BY <1>0, <1>2 DEF RefreshTopology, gen_all_metrics, ProcessMetrics, Wake, Over
  <2> QED BY <1>1, <2>1, <2>2
<1>3. CASE UNCHANGED loop
  BY <1>3 DEF loop, ReportsInv, Over, InTurn, Whole
<1>4. CASE UNCHANGED loop_vars
  BY <1>4 DEF loop_vars, ReportsInv, Over, InTurn, Whole
<1>5. CASE End
  <2>1. UNCHANGED <<written, skipped, refreshes>> /\ Over' = Over
    BY <1>5 DEF End, Over
  <2>2. flushed' \in flushed..Whole(written) /\ (~lost' => flushed' = Whole(written))
    <3>1. PICK ok \in BOOLEAN : Drop(ok)
      BY <1>5 DEF End
    <3>2. Whole(written) \in flushed..Whole(written)
      BY <1>0
    <3>3. CASE ok
      BY <3>1, <3>2, <3>3 DEF Drop
    <3>4. CASE ~ok
      BY <3>1, <3>4 DEF Drop
    <3> QED BY <3>3, <3>4
  <2> QED BY <1>0, <2>1, <2>2, NothingReported
<1>6. CASE NotDelivered /\ UNCHANGED <<written, flushed>>
  <2>1. Over' = refreshes /\ Over = refreshes - 1 /\ UNCHANGED refreshes /\ loop_pc' # "ended"
    BY <1>6 DEF NotDelivered, Slept, Over
  <2>2. \A n \in 1..refreshes : n \in 1..Over \/ n = refreshes
    BY <2>1, <1>0
  <2>3. skipped' = skipped \cup {refreshes}
    BY <1>6 DEF NotDelivered
  <2>4. refreshes <= refreshes' /\ Over <= Over'
    BY <2>1, <1>0
  <2> QED BY <1>0, <1>6, <2>1, <2>2, <2>3, <2>4, NothingReported
<1>7. ASSUME loop_pc = "deliver", UNCHANGED refreshes, written' = Report,
             loop_pc' \in {"sleep", "panicked"}, skipped \subseteq skipped',
             flushed' \in flushed..Whole(written')
      PROVE  ReportsInv'
  <2>1. Over' = refreshes /\ Over = refreshes - 1 /\ refreshes \in Nat
    BY <1>7 DEF Over, Fresh
  <2>2. \A n \in 1..refreshes : n \in 1..Over \/ n = refreshes
    BY <2>1
  <2>3. \A n \in 1..refreshes : n \notin skipped' =>
          \E i \in DOMAIN written' : written'[i] = {n}
    BY <2>2, <1>7, Reports DEF ReportsInv
  <2>4. flushed' \in Nat /\ flushed' <= Whole(written')
    BY <1>7, <1>0, Reports DEF ReportsInv
  <2> QED BY <2>1, <2>3, <2>4, <1>7, Reports DEF ReportsInv
<1>8. CASE Deliver
  <2>1. loop_pc = "deliver" /\ UNCHANGED refreshes /\ written' = Report
    BY <1>8 DEF Deliver
  <2>2. flushed' \in flushed..Whole(written')
    <3>1. flushed' \in Reached(written')
      BY <1>8 DEF Deliver
    <3>2. /\ Whole(written) \in Nat /\ Whole(written') = Whole(written) + 2
          /\ flushed \in Nat /\ flushed <= Whole(written)
      BY <2>1, Reports DEF ReportsInv
    <3> QED BY <3>1, <3>2 DEF Reached
  <2> QED BY <1>7, <1>8, <2>1, <2>2 DEF Deliver, Slept
<1>9. CASE NotDelivered /\ written' = Report /\ flushed' = Whole(Report)
  <2>1. loop_pc = "deliver" /\ UNCHANGED refreshes
    BY <1>9 DEF NotDelivered
  <2>2. flushed' \in flushed..Whole(written')
    <3>1. flushed' = Whole(written')
      BY <1>9
    <3>2. /\ Whole(written) \in Nat /\ Whole(written') = Whole(written) + 2
          /\ flushed \in Nat /\ flushed <= Whole(written)
      BY <1>9, <2>1, Reports DEF ReportsInv
    <3> QED BY <3>1, <3>2
  <2> QED BY <1>7, <1>9, <2>1, <2>2 DEF NotDelivered, Slept
<1>10. CASE SendFails
  BY <1>7, <1>10 DEF SendFails
<1> QED BY <1>2, <1>3, <1>4, <1>5, <1>6, <1>8, <1>9, <1>10
        DEF LoopNext, Iteration, WatchStep, NotDelivered

\* The exporters report every refresh once and in order, and those with a time limit to the
\* end, whatever deliveries failed before and however much the json exporter's BufWriter held
\* (json.rs 242, 643).
THEOREM ReportsKeptAlways == LoopSpec => []ReportsKept
<1>1. Fresh /\ ReportsInv => ReportsKept
  <2> SUFFICES ASSUME Fresh, ReportsInv PROVE ReportsKept
    OBVIOUS
  <2>1. Reported = 1..Over
    BY DEF Reported, Over
  <2> QED BY <2>1 DEF ReportsInv, ReportsKept
<1> QED BY <1>1, FreshInit, FreshStep, ReportsStep, PTL DEF LoopSpec

\* Rounding to whole seconds: k seconds are over by the tick t if k is at most t's second.
LEMMA Seconds ==
  ASSUME NEW t \in Nat
  PROVE  /\ Second(t) \in Nat
         /\ \A k \in Nat : k * Resolution <= t <=> k <= Second(t)
<1> DEFINE R == Resolution
           q == t \div R
           r == t % R
<1>1. R \in Nat /\ R > 0
  BY MetricGeneratorAssumption
<1> HIDE DEF R
<1>2. q \in Nat /\ r \in Nat /\ r < R /\ t = R * q + r
  BY <1>1
<1> HIDE DEF q, r
<1>3. ASSUME NEW k \in Nat PROVE k * R <= t <=> k <= q
  <2>1. CASE k <= q
    <3>1. q - k \in Nat /\ (q - k) * R \in Nat
      BY <2>1, <1>1, <1>2
    <3>2. q * R = k * R + (q - k) * R
      BY <3>1, <1>1, <1>2
    <3> QED BY <2>1, <3>1, <3>2, <1>1, <1>2
  <2>2. CASE k > q
    <3>1. k - q - 1 \in Nat /\ (k - q - 1) * R \in Nat
      BY <2>2, <1>1, <1>2
    <3>2. k * R = q * R + R + (k - q - 1) * R
      BY <3>1, <1>1, <1>2
    <3> QED BY <2>2, <3>1, <3>2, <1>1, <1>2
  <2> QED BY <2>1, <2>2, <1>2
<1> QED BY <1>2, <1>3 DEF Second, q, R

\* What was checked or started is not in the future.
Past ==
  /\ time \in Nat
  /\ since \in [Container \cup Pod -> Nat \cup {Unset}]
  /\ \A x \in Container \cup Pod : since[x] <= time
  /\ now_seconds \in Nat /\ now_seconds * Resolution <= time
  /\ containers_last_check \in Nat \cup {Unset}
  /\ containers_last_check # Unset => containers_last_check * Resolution <= time
  /\ pods_last_check \in Nat \cup {Unset}
  /\ pods_last_check # Unset => pods_last_check * Resolution <= time
  /\ dockerTimely => watch_docker

\* As long as docker answers in time: a container that is not in the list was started after
\* the last check, and docker remembers it.
Remembered ==
  dockerTimely /\ containers_last_check # Unset =>
    \A c \in Running(Container) \ containers :
      since[c] \in events /\ since[c] >= containers_last_check * Resolution

\* A check that is over, but for its stamp, has found all the containers started in earlier
\* seconds, and its stamp is the second it was begun in.
DockerStep ==
  dockerTimely =>
    /\ step = "stamp" =>
         /\ containers_last_check # Unset
         /\ \A c \in Running(Container) \ containers : since[c] >= now_seconds * Resolution
    /\ step \in {"kube", "podstamp", "done"} /\ docker_client => containers_last_check = now_seconds

\* The same of the pods, which are listed anew after PodsPeriod.
PodsStep ==
  podsTimely =>
    /\ pods_last_check # Unset =>
         \A p \in Running(Pod) \ pods : Second(since[p]) >= pods_last_check
    /\ step = "podstamp" =>
         \A p \in Running(Pod) \ pods : Second(since[p]) >= now_seconds
    /\ step = "done" /\ kubernetes_client =>
         pods_last_check # Unset /\ now_seconds - pods_last_check <= PodsPeriod

WatchInv == Past /\ Remembered /\ DockerStep /\ PodsStep

\* Nothing has been checked in the initial states.
LEMMA WatchInit ==
  ASSUME LoopInit
  PROVE  WatchInv
<1>1. PICK watch_containers \in BOOLEAN : GeneratorInit(watch_containers)
  BY DEF LoopInit
<1>2. 0 * Resolution = 0
  BY MetricGeneratorAssumption
<1> QED BY <1>1, <1>2
        DEF GeneratorInit, WatchInv, Past, Remembered, DockerStep, PodsStep, Unset

\* Steps of the loop outside gen_process_metrics.
LEMMA WatchLeftAlone ==
  ASSUME WatchInv, UNCHANGED <<environment, generator, timeliness>>
  PROVE  WatchInv'
BY DEF WatchInv, Past, Remembered, DockerStep, PodsStep, environment, generator,
       timeliness, Running, Second

\* A check begins: "now" is taken.
LEMMA WatchBegins ==
  ASSUME WatchInv, gen_process_metrics
  PROVE  WatchInv'
<1> USE DEF WatchInv, gen_process_metrics
<1>1. now_seconds' \in Nat /\ now_seconds' * Resolution <= time
  BY Seconds DEF Past
<1>2. Past'
  BY <1>1 DEF Past, environment, timeliness
<1>3. Remembered'
  BY DEF Remembered, environment, timeliness, Running
<1>4. DockerStep'
  BY DEF Past, DockerStep, environment, timeliness, Running, AfterDocker
<1>5. PodsStep'
  BY DEF PodsStep, environment, timeliness, Running, AfterDocker, Second
<1> QED BY <1>2, <1>3, <1>4, <1>5

\* Docker is asked for its version, and gives it or is no longer timely.
LEMMA WatchVersion ==
  ASSUME WatchInv, NEW ok \in BOOLEAN, get_version(ok)
  PROVE  WatchInv'
BY DEF WatchInv, Past, Remembered, DockerStep, PodsStep, get_version, environment,
       Running, Second

\* If docker has no event of a container since the last check, nothing it runs is missing
\* from the list but what was started in the second of this check.
LEMMA WatchEvents ==
  ASSUME WatchInv, NEW ok \in BOOLEAN, get_events(ok)
  PROVE  WatchInv'
<1> USE DEF WatchInv, get_events, environment
<1>1. Past'
  BY DEF Past
<1>2. Remembered'
  BY DEF Remembered, Running
<1>3. ASSUME dockerTimely', step' = "stamp", NEW c \in Running(Container)',
             c \notin containers'
      PROVE  (since[c] >= now_seconds * Resolution)'
  <2>1. dockerTimely /\ c \in Running(Container) \ containers
    BY <1>3 DEF Running
  <2>2. since[c] \in events /\ since[c] >= containers_last_check * Resolution
    BY <2>1 DEF Remembered
  <2>3. since[c] \notin Events(containers_last_check, now_seconds)
    BY <1>3
  <2>4. ~(since[c] <= now_seconds * Resolution)
    BY <2>2, <2>3, MetricGeneratorAssumption DEF Past, Events
  <2>5. since[c] \in Int /\ now_seconds * Resolution \in Int
    BY <2>1, MetricGeneratorAssumption DEF Past, Running, Unset
  <2> QED BY <2>4, <2>5
<1>4. DockerStep'
  BY <1>3 DEF DockerStep
<1>5. PodsStep'
  BY DEF PodsStep, Running, Second
<1> QED BY <1>1, <1>2, <1>4, <1>5

\* After a listing nothing is missing.
LEMMA WatchLists ==
  ASSUME WatchInv, NEW ok \in BOOLEAN,
         gen_docker_containers_basic_metadata(ok)
  PROVE  WatchInv'
<1> USE DEF WatchInv, gen_docker_containers_basic_metadata, environment
<1>1. Second(time) \in Nat /\ Second(time) * Resolution <= time
  BY Seconds DEF Past
<1>2. Second(time) # Unset
  BY <1>1 DEF Unset
<1>3. Past'
  BY <1>1 DEF Past
<1>4. Remembered'
  BY DEF Remembered, Running
<1>5. DockerStep'
  BY <1>2 DEF DockerStep, Running
<1>6. PodsStep'
  BY DEF PodsStep, Running, Second
<1> QED BY <1>3, <1>4, <1>5, <1>6

\* The events forgotten with the stamp of a check are of containers that it found.
LEMMA WatchStamped ==
  ASSUME WatchInv, DockerChecked
  PROVE  WatchInv'
<1> USE DEF WatchInv, DockerChecked
<1>1. Second(time) \in Nat /\ Second(time) * Resolution <= time
  BY Seconds DEF Past
<1>2. Past'
  BY <1>1 DEF Past
<1>3. Remembered'
  <2> SUFFICES ASSUME dockerTimely', NEW c \in Running(Container)', c \notin containers'
               PROVE  (since[c] \in events /\ since[c] >= containers_last_check * Resolution)'
    BY DEF Remembered
  <2>1. dockerTimely /\ c \in Running(Container) \ containers /\ Second(time) = now_seconds
    BY DEF Running
  <2>2. since[c] \in events
    BY <2>1 DEF DockerStep, Remembered
  <2>3. since[c] >= now_seconds * Resolution
    BY <2>1 DEF DockerStep
  <2> QED BY <2>1, <2>2, <2>3
<1>4. DockerStep'
  BY DEF DockerStep, AfterDocker
<1>5. PodsStep'
  BY DEF PodsStep, Running, Second, AfterDocker
<1> QED BY <1>2, <1>3, <1>4, <1>5

\* The steps that check the pods.
LEMMA WatchPods ==
  ASSUME WatchInv,
         \/ PodsNotDue
         \/ \E ok \in BOOLEAN : gen_kubernetes_pods_basic_metadata(ok)
         \/ PodsChecked
  PROVE  WatchInv'
<1> USE DEF WatchInv
<1>1. CASE PodsNotDue
  <2> USE <1>1 DEF PodsNotDue, environment, timeliness
  <2>1. Past'
    BY DEF Past
  <2>2. Remembered' /\ DockerStep'
    BY DEF Remembered, DockerStep, Running
  <2>3. pods_last_check # Unset /\ now_seconds - pods_last_check <= PodsPeriod
    BY MetricGeneratorAssumption DEF PodsDue, Past, Unset
  <2>4. PodsStep'
    BY <2>3 DEF PodsStep, Running, Second
  <2> QED BY <2>1, <2>2, <2>4
<1>2. ASSUME NEW ok \in BOOLEAN, gen_kubernetes_pods_basic_metadata(ok) PROVE WatchInv'
  <2> USE <1>2 DEF gen_kubernetes_pods_basic_metadata, environment
  <2>1. Past'
    BY DEF Past
  <2>2. Remembered' /\ DockerStep'
    BY DEF Remembered, DockerStep, Running
  <2>3. PodsStep'
    BY DEF PodsStep, Running
  <2> QED BY <2>1, <2>2, <2>3
<1>3. CASE PodsChecked
  <2> USE <1>3 DEF PodsChecked, environment
  <2>1. Second(time) \in Nat /\ Second(time) * Resolution <= time
    BY Seconds DEF Past
  <2>2. Past'
    BY <2>1 DEF Past
  <2>3. Remembered' /\ DockerStep'
    BY DEF Remembered, DockerStep, Running
  <2>4. podsTimely' => pods_last_check' # Unset /\ now_seconds - pods_last_check' <= PodsPeriod
    <3>1. podsTimely' => pods_last_check' = now_seconds
      OBVIOUS
    <3>2. now_seconds # Unset /\ now_seconds - now_seconds <= PodsPeriod
      BY MetricGeneratorAssumption DEF Past, Unset
    <3> QED BY <3>1, <3>2
  <2>5. PodsStep'
    BY <2>4 DEF PodsStep, Running, Second
  <2> QED BY <2>2, <2>3, <2>5
<1> QED BY <1>1, <1>2, <1>3

\* Time passes.
LEMMA WatchTick ==
  ASSUME WatchInv, TimePasses
  PROVE  WatchInv'
<1> USE DEF WatchInv, TimePasses, generator, timeliness
<1>1. now_seconds * Resolution \in Int /\ containers_last_check * Resolution \in Int
      /\ pods_last_check * Resolution \in Int
  BY MetricGeneratorAssumption DEF Past, Unset
<1>2. \A x \in Container \cup Pod : since[x] \in Int
  BY DEF Past, Unset
<1>3. Past'
  BY <1>1, <1>2 DEF Past
<1>4. Remembered' /\ DockerStep' /\ PodsStep'
  BY DEF Remembered, DockerStep, PodsStep, Running, Second
<1> QED BY <1>3, <1>4

\* What runs after a start or a stop ran before, or has been started now.
LEMMA MoveStarts ==
  ASSUME WatchInv, NEW x \in Container \cup Pod, Move(x),
         NEW y \in Container \cup Pod, (since[y] # Unset)'
  PROVE  \/ since[y] # Unset /\ since'[y] = since[y]
         \/ y = x /\ since'[y] = time
BY DEF WatchInv, Past, Move

\* What starts now is younger than every check, and docker remembers it.
LEMMA WatchMove ==
  ASSUME WatchInv, NEW x \in Container \cup Pod, Move(x)
  PROVE  WatchInv'
<1> USE DEF WatchInv, Move, generator, timeliness
<1>1. time >= now_seconds * Resolution /\ Second(time) >= now_seconds
  BY Seconds, MetricGeneratorAssumption DEF Past
<1>2. containers_last_check # Unset => time >= containers_last_check * Resolution
  BY MetricGeneratorAssumption DEF Past
<1>3. pods_last_check # Unset => Second(time) >= pods_last_check
  BY Seconds, MetricGeneratorAssumption DEF Past
<1>4. Past'
  <2>1. since' \in [Container \cup Pod -> Nat \cup {Unset}]
    BY DEF Past
  <2>2. \A y \in Container \cup Pod : since'[y] <= time
    BY DEF Past, Unset
  <2> QED BY <2>1, <2>2 DEF Past
<1>5. Remembered'
  <2> SUFFICES ASSUME dockerTimely, containers_last_check # Unset,
                      NEW c \in Running(Container)', c \notin containers
               PROVE  (since[c] \in events /\ since[c] >= containers_last_check * Resolution)'
    BY DEF Remembered
  <2>1. c \in Container /\ (since[c] # Unset)'
    BY DEF Running
  <2>2. CASE since[c] # Unset /\ since'[c] = since[c]
    <3>1. since[c] \in events /\ since[c] >= containers_last_check * Resolution
      BY <2>1, <2>2 DEF Remembered, Running
    <3> QED BY <3>1, <2>2
  <2>3. CASE c = x /\ since'[c] = time
    BY <2>1, <2>3, <1>2
  <2> QED BY <2>1, <2>2, <2>3, MoveStarts
<1>6. DockerStep'
  <2>1. ASSUME dockerTimely, step = "stamp", NEW c \in Running(Container)', c \notin containers
        PROVE  (since[c] >= now_seconds * Resolution)'
    <3>1. c \in Container /\ (since[c] # Unset)'
      BY DEF Running
    <3>2. CASE since[c] # Unset /\ since'[c] = since[c]
      BY <2>1, <3>1, <3>2 DEF DockerStep, Running
    <3>3. CASE since'[c] = time
      BY <3>3, <1>1
    <3> QED BY <3>1, <3>2, <3>3, MoveStarts
  <2> QED BY <2>1 DEF DockerStep
<1>7. PodsStep'
  <2>1. ASSUME podsTimely, NEW p \in Running(Pod)', p \notin pods
        PROVE  /\ pods_last_check # Unset => (Second(since[p]) >= pods_last_check)'
               /\ step = "podstamp" => (Second(since[p]) >= now_seconds)'
    <3>1. p \in Pod /\ (since[p] # Unset)'
      BY DEF Running
    <3>2. CASE since[p] # Unset /\ since'[p] = since[p]
      BY <2>1, <3>1, <3>2 DEF PodsStep, Running, Second
    <3>3. CASE since'[p] = time
      BY <3>3, <1>1, <1>3 DEF Second
    <3> QED BY <3>1, <3>2, <3>3, MoveStarts
  <2> QED BY <2>1 DEF PodsStep
<1> QED BY <1>4, <1>5, <1>6, <1>7

\* All steps.
LEMMA WatchInvStep ==
  ASSUME WatchInv, [LoopNext]_loop_vars
  PROVE  WatchInv'
<1>1. CASE gen_all_metrics
  <2>1. CASE gen_process_metrics
    BY <2>1, WatchBegins
  <2>2. CASE UNCHANGED <<environment, generator, timeliness>>
    BY <2>2, WatchLeftAlone
  <2> QED BY <1>1, <2>1, <2>2 DEF gen_all_metrics
<1>2. CASE Watch
  BY <1>2, WatchVersion, WatchEvents, WatchLists, WatchStamped, WatchPods DEF Watch
<1>3. CASE ProcessMetrics
  BY <1>3 DEF WatchInv, Past, Remembered, DockerStep, PodsStep, ProcessMetrics,
       environment, timeliness, Running, Second
<1>4. CASE TimePasses
  BY <1>4, WatchTick
<1>5. CASE \E x \in Container \cup Pod : Move(x)
  BY <1>5, WatchMove
<1>6. CASE End \/ RefreshTopology \/ Deliver \/ NotDelivered \/ SendFails
           \/ Wake
  BY <1>6, WatchLeftAlone DEF End, RefreshTopology, Deliver, NotDelivered, SendFails, Wake
<1>7. CASE UNCHANGED loop_vars
  BY <1>7, WatchLeftAlone DEF loop_vars, environment, generator, timeliness
<1> QED BY <1>1, <1>2, <1>3, <1>4, <1>5, <1>6, <1>7 DEF LoopNext, Iteration, WatchStep

\* The labels of the metrics last.
Labelled == WatchInv /\ ContainersLabelled /\ PodsLabelled

\* The metrics of the processes, made after the checks, have the names of the listed
\* containers and pods.
LEMMA LabelsGiven ==
  ASSUME WatchInv, ProcessMetrics
  PROVE  (ContainersLabelled /\ PodsLabelled)'
<1> USE DEF WatchInv, ProcessMetrics, environment, timeliness
<1>1. ASSUME NEW x \in Running(Container \cup Pod), x \in containers \cup pods
      PROVE  Named(x)'
  <2> DEFINE m == [from |-> refreshes,
                   names |-> {y \in Running(Container \cup Pod) :
                                "names" \in get_process_container_description(y)}]
  <2>1. "names" \in get_process_container_description(x)
    BY <1>1 DEF get_process_container_description
  <2>2. x \in m.names /\ m.from = refreshes
    BY <1>1, <2>1
  <2>3. m \in data'
    BY DEF Measured
  <2> HIDE DEF m
  <2> QED BY <2>2, <2>3 DEF Named, Latest
<1>2. ContainersLabelled'
  <2> SUFFICES ASSUME docker_client, dockerTimely, NEW c \in Running(Container)',
                      (since[c] < now_seconds * Resolution)'
               PROVE  Named(c)'
    BY DEF ContainersLabelled
  <2>1. c \in Running(Container) /\ c \in Running(Container \cup Pod)
    BY DEF Running
  <2>2. containers_last_check = now_seconds /\ now_seconds # Unset
    BY DEF DockerStep, Past, Unset
  <2>3. since[c] \in Int /\ now_seconds * Resolution \in Int
    BY <2>1, MetricGeneratorAssumption DEF Past, Running, Unset
  <2>4. c \in containers
    BY <2>1, <2>2, <2>3 DEF Remembered
  <2> QED BY <1>1, <2>1, <2>4
<1>3. PodsLabelled'
  <2> SUFFICES ASSUME kubernetes_client, podsTimely, NEW p \in Running(Pod)', ~Named(p)'
               PROVE  (now_seconds - Second(since[p]) <= PodsPeriod)'
    BY DEF PodsLabelled
  <2>1. p \in Running(Pod) /\ p \in Running(Container \cup Pod)
    BY DEF Running
  <2>2. p \notin pods
    BY <1>1, <2>1
  <2>3. /\ Second(since[p]) >= pods_last_check
        /\ now_seconds - pods_last_check <= PodsPeriod
    BY <2>1, <2>2 DEF PodsStep
  <2>4. since[p] \in Nat
    BY <2>1 DEF Past, Running
  <2>5. /\ Second(since[p]) \in Nat /\ now_seconds \in Nat
        /\ pods_last_check \in Int /\ PodsPeriod \in Nat
    BY <2>4, Seconds, MetricGeneratorAssumption DEF Past, Unset
  <2>6. now_seconds - Second(since[p]) <= PodsPeriod
    <3> DEFINE s == Second(since[p])
    <3> HIDE DEF s
    <3> QED BY <2>3, <2>5 DEF s
  <2> QED BY <2>6 DEF Second
<1> QED BY <1>2, <1>3

\* Starts and stops before the delivery.
LEMMA LabelsMove ==
  ASSUME Labelled, NEW x \in Container \cup Pod, Move(x),
         UNCHANGED loop
  PROVE  (ContainersLabelled /\ PodsLabelled)'
<1> USE DEF Labelled, Move, generator, timeliness, loop
<1>1. \A y : Named(y)' <=> Named(y)
  BY DEF Named, Latest
<1>2. now_seconds * Resolution <= time /\ time \in Nat /\ now_seconds * Resolution \in Int
  BY MetricGeneratorAssumption DEF WatchInv, Past
<1>3. ContainersLabelled'
  <2> SUFFICES ASSUME loop_pc = "deliver", kind \in Labelling, docker_client, dockerTimely,
                      NEW c \in Running(Container)', (since[c] < now_seconds * Resolution)'
               PROVE  Named(c)
    BY <1>1 DEF ContainersLabelled
  <2>1. c \in Container /\ (since[c] # Unset)'
    BY DEF Running
  <2>2. since'[c] # time
    BY <1>2
  <2>3. c \in Running(Container) /\ since[c] < now_seconds * Resolution
    BY <2>1, <2>2, MoveStarts DEF Running
  <2> QED BY <2>3 DEF ContainersLabelled
<1>4. PodsLabelled'
  <2> SUFFICES ASSUME loop_pc = "deliver", kind \in Labelling, kubernetes_client, podsTimely,
                      NEW p \in Running(Pod)', ~Named(p)
               PROVE  (now_seconds - Second(since[p]) <= PodsPeriod)'
    BY <1>1 DEF PodsLabelled
  <2>1. p \in Pod /\ (since[p] # Unset)'
    BY DEF Running
  <2>2. CASE since[p] # Unset /\ since'[p] = since[p]
    BY <2>1, <2>2 DEF PodsLabelled, Running, Second
  <2>3. CASE since'[p] = time
    <3>1. Second(time) \in Nat /\ now_seconds \in Nat /\ now_seconds <= Second(time)
      BY <1>2, Seconds DEF WatchInv, Past
    <3>2. now_seconds - Second(time) <= PodsPeriod
      BY <3>1, MetricGeneratorAssumption
    <3> QED BY <2>3, <3>2 DEF Second
  <2> QED BY <2>1, <2>2, <2>3, MoveStarts
<1> QED BY <1>3, <1>4

\* All steps keep the labels.
LEMMA LabelledStep ==
  ASSUME Labelled, [LoopNext]_loop_vars
  PROVE  Labelled'
<1>1. WatchInv'
  BY WatchInvStep DEF Labelled
<1> SUFFICES ContainersLabelled' /\ PodsLabelled'
  BY <1>1 DEF Labelled
<1> USE DEF ContainersLabelled, PodsLabelled
<1>2. CASE ProcessMetrics
  BY <1>2, LabelsGiven DEF Labelled
<1>3. CASE gen_all_metrics
  BY <1>3 DEF gen_all_metrics
<1>4. CASE WatchStep
  BY <1>4 DEF WatchStep, loop
<1>5. CASE End \/ RefreshTopology \/ Deliver \/ NotDelivered \/ SendFails
           \/ Wake
  BY <1>5 DEF End, RefreshTopology, Deliver, NotDelivered, Slept, SendFails, Wake
<1>6. CASE TimePasses /\ UNCHANGED loop
  BY <1>6 DEF Labelled, TimePasses, loop, generator, timeliness, Named,
       Latest, Running, Second
<1>7. CASE (\E x \in Container \cup Pod : Move(x)) /\ UNCHANGED loop
  BY <1>7, LabelsMove
<1>8. CASE UNCHANGED loop_vars
  BY <1>8 DEF Labelled, loop_vars, Named, Latest, Running, Second
<1> QED BY <1>2, <1>3, <1>4, <1>5, <1>6, <1>7, <1>8 DEF LoopNext, Iteration

\* The labels and what they rest on are an invariant.
LEMMA LabelledAlways == LoopSpec => []Labelled
<1>1. LoopInit => Labelled
  BY WatchInit DEF Labelled, ContainersLabelled, PodsLabelled, LoopInit
<1>2. Labelled /\ [LoopNext]_loop_vars => Labelled'
  BY LabelledStep
<1> QED BY <1>1, <1>2, PTL DEF LoopSpec

\* With a docker that answers in time, no container falls between the events of two checks,
\* however finely docker's clock divides the seconds the code asks in
\* (exporters/mod.rs 1032-1063).
THEOREM ContainersLabelledAlways == LoopSpec => []ContainersLabelled
<1>1. Labelled => ContainersLabelled
  BY DEF Labelled
<1> QED BY <1>1, LabelledAlways, PTL

\* With a kubernetes that answers in time, the names of a pod are missing for no longer than
\* PodsPeriod (exporters/mod.rs 1064-1079).
THEOREM PodsLabelledAlways == LoopSpec => []PodsLabelled
<1>1. Labelled => PodsLabelled
  BY DEF Labelled
<1> QED BY <1>1, LabelledAlways, PTL
=============================================================================
