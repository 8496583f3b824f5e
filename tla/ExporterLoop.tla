---------------------------- MODULE ExporterLoop ----------------------------
(***************************************************************************)
(* The loops of the exporters that measure on their own: stdout, json,     *)
(* riemann, warp10 and prometheuspush (src/scaphandre/src/exporters).  An  *)
(* iteration refreshes the topology, generates metrics, watching the       *)
(* containers on the way, delivers them and sleeps.                        *)
(*                                                                         *)
(* A metric is what it was measured by, the refresh, and what the process  *)
(* it is about is labelled with.  The cleaning of the process tracker that *)
(* some of the loops begin with is in ProcessTracker.                      *)
(*                                                                         *)
(* The json exporter writes its reports through a BufWriter that it keeps  *)
(* from one iteration to the next and never flushes: the writer holds the  *)
(* end of what was written, from anywhere in a report on, until it is full *)
(* or dropped.  What a kill leaves is the output at that moment, a part of *)
(* every state here.                                                       *)
(***************************************************************************)
EXTENDS MetricGenerator, Sequences

CONSTANTS
  Step,          \* seconds between two iterations
  Limits,        \* time limits in seconds, of the exporters that have one
  MaxRefreshes   \* bound on the iterations, for model checking

ASSUME ExporterLoopAssumption ==
  /\ Step \in Nat \ {0}
  /\ Limits \subseteq Nat
  /\ MaxRefreshes \in Nat

VARIABLES
  kind,       \* the exporter
  limit,      \* its time limit, or Unset
  loop_pc,    \* where its loop is
  wake,       \* when it has slept enough
  refreshes,  \* refreshes of the topology so far
  data,       \* metrics generated and not popped yet
  written,    \* reports handed to the output so far: the refreshes their metrics are from
  flushed,    \* how much of them has reached the output, in halves of a report
  skipped,    \* history: refreshes that were to be reported and may not have been
  lost        \* history: what the json exporter's BufWriter held at the end was not written

output == <<written, flushed, skipped, lost>>
loop == <<kind, limit, loop_pc, wake, refreshes, data, written, flushed, skipped, lost>>
loop_vars ==
  <<time, since, events, moves, docker_client, kubernetes_client, watch_docker, containers,
    containers_last_check, pods, pods_last_check, step, now_seconds, dockerTimely, podsTimely,
    kind, limit, loop_pc, wake, refreshes, data, written, flushed, skipped, lost>>

Kinds == {"stdout", "json", "riemann", "warp10", "prometheuspush"}

\* Kinds with an option to watch containers, with a time limit, and that use what they watch:
\* riemann makes its own metrics of processes, and never looks for containers.
Watching == Kinds \ {"warp10"}
Limited  == {"stdout", "json"}
Labelling == Kinds \ {"riemann"}

LoopInit ==
  /\ kind \in Kinds
  /\ \E watch_containers \in IF kind \in Watching THEN BOOLEAN ELSE {FALSE} :
       GeneratorInit(watch_containers)
  /\ limit \in IF kind \in Limited THEN Limits \cup {Unset} ELSE {Unset}
  /\ loop_pc = "head"
  /\ wake = 0 /\ refreshes = 0
  /\ data = {} /\ written = <<>> /\ flushed = 0
  /\ skipped = {} /\ lost = FALSE

-----------------------------------------------------------------------------

\* Faulty variant: an iteration is counted against the limit from its own beginning.
Late_restarted == limit # Unset /\ time - wake > limit * Resolution

\* The time since the loop began, which is 0 here, exceeds the limit.
Late == limit # Unset /\ time > limit * Resolution

\* All that was written.
Whole(reports) == 2 * Len(reports)

\* Faulty variant: the program exits without dropping the exporter.
Drop_exit(ok) == UNCHANGED <<flushed, lost>>

\* The exporter is dropped, and its BufWriter with it, which writes what it still holds and
\* ignores a failure.  The other exporters hold nothing.
Drop(ok) ==
  /\ flushed' \in IF ok THEN {Whole(written)} ELSE flushed..Whole(written)
  /\ lost' = ~ok

\* The loop of an exporter with a time limit ends at its head.
End ==
  /\ loop_pc = "head"
  /\ Late
  /\ \E ok \in BOOLEAN : (ok \/ kind = "json") /\ Drop(ok)
  /\ loop_pc' = "ended"
  /\ UNCHANGED <<environment, generator, timeliness, kind, limit, wake, refreshes, data,
                 written, skipped>>

\* topology.refresh()
RefreshTopology ==
  /\ loop_pc = "head"
  /\ ~Late
  /\ refreshes < MaxRefreshes
  /\ refreshes' = refreshes + 1
  /\ loop_pc' = "generate"
  /\ UNCHANGED <<environment, generator, timeliness, kind, limit, wake, data, output>>

Measured(names) == data \cup {[from |-> refreshes, names |-> names]}

\* gen_all_metrics up to the processes; riemann goes on to its own metrics of processes.
gen_all_metrics ==
  /\ loop_pc = "generate"
  /\ data' = Measured({})
  /\ IF kind \in Labelling
     THEN /\ gen_process_metrics
          /\ loop_pc' = "watch"
     ELSE /\ loop_pc' = "deliver"
          /\ UNCHANGED <<environment, generator, timeliness>>
  /\ UNCHANGED <<kind, limit, wake, refreshes, output>>

WatchStep ==
  /\ loop_pc = "watch"
  /\ Watch
  /\ UNCHANGED loop

\* The metrics of the processes, one of which runs in each container and pod.
ProcessMetrics ==
  /\ loop_pc = "watch"
  /\ step = "done"
  /\ step' = "off"
  /\ data' = Measured({x \in Running(Container \cup Pod) :
                         "names" \in get_process_container_description(x)})
  /\ loop_pc' = "deliver"
  /\ UNCHANGED <<environment, docker_client, kubernetes_client, watch_docker, containers,
                 containers_last_check, pods, pods_last_check, now_seconds, timeliness,
                 kind, limit, wake, refreshes, output>>

\* Kinds that may deliver nothing and go on.
MayFail == {"json", "warp10", "prometheuspush"}

Froms(metrics) == {m.from : m \in metrics}

Slept ==
  /\ loop_pc' = "sleep"
  /\ wake' = time + Step * Resolution

Report == Append(written, Froms(data))

\* What has reached the output when the reports are r: of json's all but, at least, the end of
\* the last one, which is written last and stays in the buffer; everything of the others'.
Reached(r) == IF kind = "json" THEN flushed..(Whole(r) - 1) ELSE {Whole(r)}

\* pop_metrics, and the metrics are printed, written, posted or pushed.
Deliver ==
  /\ loop_pc = "deliver"
  /\ data' = {}
  /\ written' = Report
  /\ flushed' \in Reached(Report)
  /\ Slept
  /\ UNCHANGED <<environment, generator, timeliness, kind, limit, refreshes, skipped, lost>>

\* pop_metrics, and there is no report to write yet, or the server does not answer, whether it
\* has the metrics or not.  This is logged.
NotDelivered ==
  /\ loop_pc = "deliver"
  /\ kind \in MayFail
  /\ data' = {}
  /\ \/ UNCHANGED <<written, flushed>>
     \/ kind # "json" /\ written' = Report /\ flushed' = Whole(Report)
  /\ skipped' = skipped \cup {refreshes}
  /\ Slept
  /\ UNCHANGED <<environment, generator, timeliness, kind, limit, refreshes, lost>>

\* Kinds that panic when the metrics, or a part of them, cannot be printed, written or sent.
MayPanic == {"stdout", "json", "riemann"}

\* Some of it has been delivered, and json's BufWriter tries once more when it is dropped.
SendFails ==
  /\ loop_pc = "deliver"
  /\ kind \in MayPanic
  /\ data' = {}
  /\ written' = Report
  /\ flushed' \in flushed..Whole(Report)
  /\ skipped' = skipped \cup {refreshes}
  /\ loop_pc' = "panicked"
  /\ UNCHANGED <<environment, generator, timeliness, kind, limit, wake, refreshes, lost>>

\* thread::sleep has returned; when the clock is at its bound, an exporter that has a limit
\* has slept enough.
Wake ==
  /\ loop_pc = "sleep"
  /\ time >= wake \/ (limit # Unset /\ time = MaxTime)
  /\ loop_pc' = "head"
  /\ UNCHANGED <<environment, generator, timeliness, kind, limit, wake, refreshes, data, output>>

Iteration ==
  \/ End
  \/ RefreshTopology
  \/ gen_all_metrics
  \/ WatchStep
  \/ ProcessMetrics
  \/ Deliver
  \/ NotDelivered
  \/ SendFails
  \/ Wake

LoopNext ==
  \/ Iteration
  \/ (TimePasses \/ \E x \in Container \cup Pod : Move(x)) /\ UNCHANGED loop

LoopSpec == LoopInit /\ [][LoopNext]_loop_vars

\* Time goes on, and docker and kubernetes answer or fail.
LoopFairSpec == LoopSpec /\ WF_loop_vars(TimePasses /\ UNCHANGED loop) /\ WF_loop_vars(Iteration)

-----------------------------------------------------------------------------
(***************************************************************************)
(* Properties.                                                             *)
(***************************************************************************)

\* The latest metrics of the processes.
Latest == {m \in data : m.from = refreshes}

Named(x) == \E m \in Latest : x \in m.names

\* With --containers and a docker that answers in time, the processes of a container are
\* labelled from the first iteration on that begins in a later second than the container
\* does: no container falls between the events of two checks (exporters/mod.rs 1032-1063).
ContainersLabelled ==
  loop_pc = "deliver" /\ kind \in Labelling /\ docker_client /\ dockerTimely =>
    \A c \in Running(Container) : since[c] < now_seconds * Resolution => Named(c)

\* With a kubernetes that answers in time, the processes of a pod are labelled at the
\* latest PodsPeriod seconds after its start (exporters/mod.rs 1064-1079).
PodsLabelled ==
  loop_pc = "deliver" /\ kind \in Labelling /\ kubernetes_client /\ podsTimely =>
    \A p \in Running(Pod) : ~Named(p) => now_seconds - Second(since[p]) <= PodsPeriod

\* Report i is of one refresh, a later one than the reports before it.
InTurn(i) ==
  \E n \in 1..refreshes : written[i] = {n} /\ \A j \in 1..(i - 1) : written[j] \subseteq 1..(n - 1)

\* Refreshes whose iteration is over.
Reported == 1..(IF loop_pc \in {"generate", "watch", "deliver"} THEN refreshes - 1 ELSE refreshes)

\* Reports are of one refresh each and in the order of the refreshes, so that what has reached
\* the output, a beginning of them, holds nothing twice nor out of order; none is missing but
\* those of iterations that had nothing to report or failed to; and an exporter that has ended
\* by its time limit has written them to the end, although the json exporter never flushes
\* its BufWriter (json.rs 242, 643; docs/json.md:7), unless the last write fails.
ReportsKept ==
  /\ \A i \in DOMAIN written : InTurn(i)
  /\ \A n \in Reported \ skipped : \E i \in DOMAIN written : written[i] = {n}
  /\ flushed <= Whole(written)
  /\ loop_pc = "ended" /\ ~lost => flushed = Whole(written)

\* An exporter with a time limit ends, whatever docker and kubernetes answer, unless it
\* panics (stdout.rs 65-70, json.rs 192-197).
LimitKept == limit # Unset ~> loop_pc \in {"ended", "panicked"}
=============================================================================
