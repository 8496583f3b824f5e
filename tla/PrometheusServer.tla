-------------------------- MODULE PrometheusServer --------------------------
(***************************************************************************)
(* The HTTP server of the Prometheus exporter (exporters/prometheus.rs):   *)
(* workers that share the metric generator and the time of the last        *)
(* request behind two mutexes, and refresh the measurements when the last  *)
(* request is more than two seconds old.                                   *)
(*                                                                         *)
(* A mutex is poisoned when a worker panics while it holds it.  Subtracting*)
(* a later Duration from an earlier one panics, and so may the refresh and *)
(* the generation of the metrics, whatever the cause.                      *)
(***************************************************************************)
EXTENDS Integers

CONSTANTS
  Worker,       \* threads that may run show_metrics at the same time
  MaxClock,     \* bound on the wall clock, for model checking
  MaxRequests   \* bound on the requests, for model checking

Min_age == 2     \* Duration::from_secs(2)
Start   == 4     \* the wall clock is far from the epoch when the server starts
Nobody  == "nobody"
Never   == -1    \* no refresh yet

ASSUME PrometheusServerAssumption ==
  /\ Nobody \notin Worker
  /\ MaxClock \in Nat
  /\ MaxRequests \in Nat

VARIABLES
  clock,         \* wall clock, seconds
  requests,      \* requests accepted so far
  pc,            \* what each worker does next
  now,           \* current_system_time_since_epoch of each worker's request
  last_request,  \* contents of the first mutex
  refreshed,     \* time of the last refresh of the topology, which stamps its records
  asked,         \* time of the request that made that refresh
  served,        \* requests answered from that refresh since it was made
  owner,         \* which worker holds each mutex
  poisoned,      \* the mutexes a worker has panicked under
  reply,         \* the body of each worker's last reply
  overlapped,    \* a request has been accepted while another one was handled
  setBack,       \* the wall clock has been set back
  failed         \* a refresh or a generation of metrics has panicked

measured == <<last_request, refreshed, asked, served>>
history  == <<overlapped, setBack, failed>>
vars     == <<clock, requests, pc, now, measured, owner, poisoned, reply, history>>

Mutex == {"last_request", "metric_generator"}

Bodies == {"none", "data", "empty", "page", "aborted"}

\* Mutexes are held by the worker that is past locking them, and by nobody else.
TypeOK ==
  /\ clock \in Nat /\ requests \in Nat /\ last_request \in Nat /\ served \in Nat
  /\ refreshed \in Nat \cup {Never} /\ asked \in Nat \cup {Never}
  /\ pc \in [Worker -> {"idle", "lock_request", "lock_generator", "handle", "generate"}]
  /\ now \in [Worker -> Nat]
  /\ owner \in [Mutex -> Worker \cup {Nobody}]
  /\ poisoned \subseteq Mutex
  /\ reply \in [Worker -> Bodies]
  /\ overlapped \in BOOLEAN /\ setBack \in BOOLEAN /\ failed \in BOOLEAN
  /\ \A w \in Worker :
       /\ owner["last_request"] = w <=> pc[w] \in {"lock_generator", "handle", "generate"}
       /\ owner["metric_generator"] = w <=> pc[w] \in {"handle", "generate"}

Init ==
  /\ clock = Start
  /\ requests = 0
  /\ pc = [w \in Worker |-> "idle"]
  /\ now = [w \in Worker |-> 0]
  /\ last_request = 0
  /\ refreshed = Never
  /\ asked = Never
  /\ served = 0
  /\ owner = [m \in Mutex |-> Nobody]
  /\ poisoned = {}
  /\ reply = [w \in Worker |-> "none"]
  /\ overlapped = FALSE
  /\ setBack = FALSE
  /\ failed = FALSE

Tick ==
  /\ clock < MaxClock
  /\ clock' = clock + 1
  /\ UNCHANGED <<requests, pc, now, measured, owner, poisoned, reply, history>>

SetClockBack ==
  /\ clock > Start
  /\ clock' = clock - 1
  /\ setBack' = TRUE
  /\ UNCHANGED <<requests, pc, now, measured, owner, poisoned, reply, overlapped, failed>>

-----------------------------------------------------------------------------
Reply(w, body) == reply' = [reply EXCEPT ![w] = body]

\* A request for the metrics reads the clock before it waits for the mutexes.
Accept(w) ==
  /\ pc[w] = "idle"
  /\ requests < MaxRequests
  /\ requests' = requests + 1
  /\ now' = [now EXCEPT ![w] = clock]
  /\ pc' = [pc EXCEPT ![w] = "lock_request"]
  /\ overlapped' = (overlapped \/ \E u \in Worker : pc[u] # "idle")
  /\ UNCHANGED <<clock, measured, owner, poisoned, reply, setBack, failed>>

\* A request for another path takes no mutex.
AcceptOther(w) ==
  /\ pc[w] = "idle"
  /\ requests < MaxRequests
  /\ requests' = requests + 1
  /\ Reply(w, "page")
  /\ UNCHANGED <<clock, pc, now, measured, owner, poisoned, history>>

\* Faulty variant: the error path keeps the mutex.
Lock_keep(w, m, next) ==
  /\ owner[m] = Nobody
  /\ IF m \in poisoned
     THEN /\ pc' = [pc EXCEPT ![w] = "idle"]
          /\ owner' = [owner EXCEPT ![m] = w]
          /\ Reply(w, "empty")
     ELSE /\ pc' = [pc EXCEPT ![w] = next]
          /\ owner' = [owner EXCEPT ![m] = w]
          /\ UNCHANGED reply
  /\ UNCHANGED <<clock, requests, now, measured, poisoned, history>>

\* Faulty variant: a poisoned mutex is waited for.
Lock_wait(w, m, next) ==
  /\ owner[m] = Nobody
  /\ m \notin poisoned
  /\ pc' = [pc EXCEPT ![w] = next]
  /\ owner' = [owner EXCEPT ![m] = w]
  /\ UNCHANGED <<clock, requests, now, measured, poisoned, reply, history>>

\* lock() waits for the owner and fails if the mutex is poisoned; the request is then
\* answered with an empty body, and what the worker held is released.
Lock(w, m, next) ==
  /\ owner[m] = Nobody
  /\ IF m \in poisoned
     THEN /\ pc' = [pc EXCEPT ![w] = "idle"]
          /\ owner' = [n \in Mutex |-> IF owner[n] = w THEN Nobody ELSE owner[n]]
          /\ Reply(w, "empty")
     ELSE /\ pc' = [pc EXCEPT ![w] = next]
          /\ owner' = [owner EXCEPT ![m] = w]
          /\ UNCHANGED reply
  /\ UNCHANGED <<clock, requests, now, measured, poisoned, history>>

LockRequest(w) ==
  /\ pc[w] = "lock_request"
  /\ Lock(w, "last_request", "lock_generator")

LockGenerator(w) ==
  /\ pc[w] = "lock_generator"
  /\ Lock(w, "metric_generator", "handle")

Release(w) ==
  /\ pc' = [pc EXCEPT ![w] = "idle"]
  /\ owner' = [m \in Mutex |-> Nobody]

\* The worker panics under both mutexes: they are released and poisoned, and the
\* connection is dropped.
Abort(w) ==
  /\ poisoned' = Mutex
  /\ Release(w)
  /\ Reply(w, "aborted")
  /\ UNCHANGED <<clock, requests, now, measured>>

\* Faulty variant: the time of the last request must be strictly earlier.
Panic_equal(w) ==
  /\ pc[w] = "handle"
  /\ now[w] <= last_request
  /\ Abort(w)
  /\ UNCHANGED history

\* now - *last_request panics.
Panic(w) ==
  /\ pc[w] = "handle"
  /\ now[w] < last_request
  /\ Abort(w)
  /\ UNCHANGED history

\* Whether the last request of worker w is more than age seconds old.
Old(w, age) == now[w] - last_request > age

\* The refresh panics, before the time of the request is stored, or the generation of
\* the metrics does.
Fail(w) ==
  /\ (pc[w] = "handle" /\ Old(w, Min_age)) \/ pc[w] = "generate"
  /\ Abort(w)
  /\ failed' = TRUE
  /\ UNCHANGED <<overlapped, setBack>>

\* Refreshes the topology if the last request is more than age seconds old.  The refresh
\* runs now, the request came when it read the clock.
Refresh(w, age) ==
  IF Old(w, age)
  THEN refreshed' = clock /\ asked' = now[w] /\ served' = 0
  ELSE served' = served + 1 /\ UNCHANGED <<refreshed, asked>>

\* Faulty variant: the time of the request is not stored.
Handle_forgets(w) ==
  /\ pc[w] = "handle"
  /\ now[w] >= last_request
  /\ Refresh(w, Min_age)
  /\ pc' = [pc EXCEPT ![w] = "generate"]
  /\ UNCHANGED <<clock, requests, now, last_request, owner, poisoned, reply, history>>

\* Faulty variant: a last request of three seconds ago is young enough.
Handle_lax(w) ==
  /\ pc[w] = "handle"
  /\ now[w] >= last_request
  /\ Refresh(w, Min_age + 1)
  /\ last_request' = now[w]
  /\ pc' = [pc EXCEPT ![w] = "generate"]
  /\ UNCHANGED <<clock, requests, now, owner, poisoned, reply, history>>

\* With both mutexes, refreshes if the last request is old and stores the time of this one.
Handle(w) ==
  /\ pc[w] = "handle"
  /\ now[w] >= last_request
  /\ Refresh(w, Min_age)
  /\ last_request' = now[w]
  /\ pc' = [pc EXCEPT ![w] = "generate"]
  /\ UNCHANGED <<clock, requests, now, owner, poisoned, reply, history>>

\* Generates, pops and formats the metrics.
Answer(w) ==
  /\ pc[w] = "generate"
  /\ Release(w)
  /\ Reply(w, "data")
  /\ UNCHANGED <<clock, requests, now, measured, poisoned, history>>

\* What a worker does with a request it has accepted.
Work(w) ==
  \/ LockRequest(w)
  \/ LockGenerator(w)
  \/ Panic(w)
  \/ Fail(w)
  \/ Handle(w)
  \/ Answer(w)

Next ==
  \/ Tick
  \/ SetClockBack
  \/ \E w \in Worker : Accept(w) \/ AcceptOther(w) \/ Work(w)

Spec == Init /\ [][Next]_vars

\* The runtime runs every worker; nothing makes clients send requests, and nothing says
\* which of the waiting workers gets a mutex that is released.
FairSpec == Spec /\ \A w \in Worker : WF_vars(Work(w))

-----------------------------------------------------------------------------
(***************************************************************************)
(* Properties.                                                             *)
(***************************************************************************)

\* The two seconds are measured from request to request, and a request reads the clock
\* before it waits for the mutexes: the time between two refreshes, over which a power is
\* computed, may be shorter than two seconds, but only by what the request that made the
\* earlier refresh had waited, unless the clock is set back (prometheus.rs 162-180).
RefreshSpaced ==
  [][asked' # asked /\ asked # Never /\ ~setBack
       => (refreshed' - refreshed) + (refreshed - asked) > Min_age]_vars

\* Every answer moves the time of the last request, refreshed or not, so that frequent
\* requests postpone the refresh: what is served may be older than two seconds, but
\* never by more than two seconds for each answer since the refresh, counted from the
\* request that made it or, unless the clock is set back, from the refresh itself
\* (prometheus.rs 167-180).
StaleBounded ==
  refreshed # Never =>
    /\ last_request - asked <= Min_age * served
    /\ ~setBack => last_request - refreshed <= Min_age * served

\* Whoever holds a mutex lets go of it, on every path, and once no more requests for the
\* metrics come every request accepted comes to an end, poisoned mutexes or not.  (While
\* they keep coming a worker that waits may be overtaken for ever: std's Mutex does not
\* serve in turn.  prometheus.rs 163-231.)
NobodyLockedOut ==
  /\ \A m \in Mutex : owner[m] # Nobody ~> owner[m] = Nobody
  /\ (<>[][\A w \in Worker : ~Accept(w)]_vars)
       => \A w \in Worker : pc[w] # "idle" ~> pc[w] = "idle"

\* There are three ways to lose the exporter, and no other: as long as requests have not
\* overlapped, the clock has not been set back and neither a refresh nor a generation of
\* metrics has panicked, every request for the metrics is answered with data: "Handles
\* requests and returns data formated for Prometheus" (prometheus.rs 153).  After an
\* overlap or a set-back clock a request may find a last request later than itself; the
\* panic of line 167, as any under the mutexes, makes all later answers empty.
ServedInTurn ==
  ~overlapped /\ ~setBack /\ ~failed => \A w \in Worker : reply[w] \in {"none", "data", "page"}
=============================================================================
