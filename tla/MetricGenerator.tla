-------------------------- MODULE MetricGenerator --------------------------
(***************************************************************************)
(* The watching of containers and pods by gen_process_metrics              *)
(* (exporters/mod.rs) and the labels it leads to                           *)
(* (get_process_container_description, sensors/utils.rs).                  *)
(*                                                                         *)
(* Docker and kubernetes are the environment: what runs, the events docker *)
(* remembers, queries that fail, and time that passes during queries.  The *)
(* code works in whole seconds, docker does not: time has Resolution ticks *)
(* a second.  The actions are composed in ExporterLoop.                    *)
(***************************************************************************)
EXTENDS Integers, FiniteSets

CONSTANTS
  Container,   \* docker containers
  Pod,         \* kubernetes pods
  Resolution,  \* ticks per second
  PodsPeriod,  \* seconds between two listings of the pods: 20
  MaxTime,     \* bound on the clock, for model checking
  MaxMoves     \* bound on starts and stops, for model checking

ASSUME MetricGeneratorAssumption ==
  /\ Container \cap Pod = {}
  /\ Resolution \in Nat \ {0}
  /\ PodsPeriod \in Nat /\ MaxTime \in Nat /\ MaxMoves \in Nat

Unset == -1   \* the empty string of *_last_check, and no start

VARIABLES
  time,                   \* the wall clock, in ticks
  since,                  \* when the running containers and pods were started
  events,                 \* ticks of the docker events since containers_last_check
  moves,                  \* starts and stops so far
  docker_client, kubernetes_client,  \* are there clients?
  watch_docker,
  containers,             \* the containers of the last listing
  containers_last_check,  \* in seconds
  pods, pods_last_check,
  step,                   \* where gen_process_metrics is
  now_seconds,            \* its "now"
  dockerTimely,           \* history: no query to docker has failed, and no check went on into
                          \* another second
  podsTimely              \* history: the same of the pods

environment == <<time, since, events, moves>>
generator   == <<docker_client, kubernetes_client, watch_docker, containers,
                 containers_last_check, pods, pods_last_check, step, now_seconds>>
timeliness  == <<dockerTimely, podsTimely>>

Second(t) == t \div Resolution

Running(set) == {x \in set : since[x] # Unset}

\* What nobody asks about is left alone.
Observed(x) == IF x \in Container THEN docker_client /\ watch_docker ELSE kubernetes_client

\* MetricGenerator::new, with watch_containers or not.
GeneratorInit(watch_containers) ==
  /\ watch_docker = TRUE
  /\ docker_client \in {watch_containers, FALSE}
  /\ kubernetes_client \in {watch_containers, FALSE}
  /\ time = 0
  /\ since \in [Container \cup Pod -> {0, Unset}]
  /\ \A x \in Container \cup Pod : since[x] # Unset => Observed(x)
  /\ events = {} /\ moves = 0
  /\ containers = {} /\ containers_last_check = Unset
  /\ pods = {} /\ pods_last_check = Unset
  /\ step = "off" /\ now_seconds = 0
  /\ dockerTimely = TRUE /\ podsTimely = TRUE

-----------------------------------------------------------------------------
(***************************************************************************)
(* The environment.                                                        *)
(***************************************************************************)

TimePasses ==
  /\ time < MaxTime
  /\ time' = time + 1
  /\ UNCHANGED <<since, events, moves, generator, timeliness>>

\* A container or a pod starts, or stops; docker remembers it of its containers.
Move(x) ==
  /\ Observed(x)
  /\ moves < MaxMoves
  /\ moves' = moves + 1
  /\ since' = [since EXCEPT ![x] = IF @ = Unset THEN time ELSE Unset]
  /\ events' = IF x \in Container THEN events \cup {time} ELSE events
  /\ UNCHANGED <<time, generator, timeliness>>

-----------------------------------------------------------------------------
(***************************************************************************)
(* The watching part of gen_process_metrics.                               *)
(***************************************************************************)

AfterDocker == IF kubernetes_client THEN "kube" ELSE "done"

gen_process_metrics ==
  /\ step = "off"
  /\ now_seconds' = Second(time)
  /\ step' = IF docker_client /\ watch_docker THEN "docker" ELSE AfterDocker
  /\ UNCHANGED <<environment, docker_client, kubernetes_client, watch_docker, containers,
                 containers_last_check, pods, pods_last_check, timeliness>>

\* The first check asks for docker's version; if that fails docker is no longer watched.
get_version(ok) ==
  /\ step = "docker"
  /\ containers_last_check = Unset
  /\ watch_docker' = ok
  /\ step' = IF ok THEN "list" ELSE "stamp"
  /\ dockerTimely' = (dockerTimely /\ ok)
  /\ UNCHANGED <<environment, docker_client, kubernetes_client, containers,
                 containers_last_check, pods, pods_last_check, now_seconds, podsTimely>>

\* Docker's answer: the events from one instant to another, both given in whole seconds.
Events(from, until) == {e \in events : from * Resolution <= e /\ e <= until * Resolution}

\* Faulty variant: the events are asked for from the second after the last check.
get_events_after(ok) ==
  /\ step = "docker"
  /\ containers_last_check # Unset
  /\ step' = IF ok /\ Events(containers_last_check + 1, now_seconds) # {} THEN "list" ELSE "stamp"
  /\ dockerTimely' = (dockerTimely /\ ok)
  /\ UNCHANGED <<environment, docker_client, kubernetes_client, watch_docker, containers,
                 containers_last_check, pods, pods_last_check, now_seconds, podsTimely>>

\* The later ones ask for the events since the last check.
get_events(ok) ==
  /\ step = "docker"
  /\ containers_last_check # Unset
  /\ step' = IF ok /\ Events(containers_last_check, now_seconds) # {} THEN "list" ELSE "stamp"
  /\ dockerTimely' = (dockerTimely /\ ok)
  /\ UNCHANGED <<environment, docker_client, kubernetes_client, watch_docker, containers,
                 containers_last_check, pods, pods_last_check, now_seconds, podsTimely>>

gen_docker_containers_basic_metadata(ok) ==
  /\ step = "list"
  /\ step' = "stamp"
  /\ containers' = IF ok THEN Running(Container) ELSE containers
  /\ containers_last_check' = IF ok THEN Second(time) ELSE containers_last_check
  /\ dockerTimely' = (dockerTimely /\ ok)
  /\ UNCHANGED <<environment, docker_client, kubernetes_client, watch_docker,
                 pods, pods_last_check, now_seconds, podsTimely>>

\* Whatever came of the queries, the time of the check moves on.  No query will ask for
\* earlier events.
DockerChecked ==
  /\ step = "stamp"
  /\ containers_last_check' = Second(time)
  /\ step' = AfterDocker
  /\ events' = {e \in events : e >= Second(time) * Resolution}
  /\ dockerTimely' = (dockerTimely /\ Second(time) = now_seconds)
  /\ UNCHANGED <<time, since, moves, docker_client, kubernetes_client, watch_docker, containers,
                 pods, pods_last_check, now_seconds, podsTimely>>

\* Faulty variant: the period is counted with a second too many.
PodsDue_late == pods_last_check = Unset \/ now_seconds - pods_last_check > PodsPeriod + 1

PodsDue == pods_last_check = Unset \/ now_seconds - pods_last_check > PodsPeriod

PodsNotDue ==
  /\ step = "kube"
  /\ ~PodsDue
  /\ step' = "done"
  /\ UNCHANGED <<environment, docker_client, kubernetes_client, watch_docker, containers,
                 containers_last_check, pods, pods_last_check, now_seconds, timeliness>>

gen_kubernetes_pods_basic_metadata(ok) ==
  /\ step = "kube"
  /\ PodsDue
  /\ step' = "podstamp"
  /\ pods' = IF ok THEN Running(Pod) ELSE pods
  /\ podsTimely' = (podsTimely /\ ok /\ Second(time) = now_seconds)
  /\ UNCHANGED <<environment, docker_client, kubernetes_client, watch_docker, containers,
                 containers_last_check, pods_last_check, now_seconds, dockerTimely>>

PodsChecked ==
  /\ step = "podstamp"
  /\ pods_last_check' = Second(time)
  /\ step' = "done"
  /\ podsTimely' = (podsTimely /\ Second(time) = now_seconds)
  /\ UNCHANGED <<environment, docker_client, kubernetes_client, watch_docker, containers,
                 containers_last_check, pods, now_seconds, dockerTimely>>

Watch ==
  \/ \E ok \in BOOLEAN :
       \/ get_version(ok)
       \/ get_events(ok)
       \/ gen_docker_containers_basic_metadata(ok)
       \/ gen_kubernetes_pods_basic_metadata(ok)
  \/ DockerChecked
  \/ PodsNotDue
  \/ PodsChecked

\* The labels of a process that runs in x.
get_process_container_description(x) ==
  IF containers = {} /\ pods = {} THEN {}
  ELSE {"id"} \cup (IF x \in containers \cup pods THEN {"names"} ELSE {})
=============================================================================
