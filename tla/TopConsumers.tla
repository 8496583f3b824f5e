---------------------------- MODULE TopConsumers ----------------------------
(***************************************************************************)
(* The processes that the json and stdout exporters list after a refresh   *)
(* (get_top_consumers and get_filtered_processes in sensors/utils.rs), in  *)
(* any state the tracker of ProcessTracker can be in.                      *)
(*                                                                         *)
(* The usage of a process is per cent of a CPU; what the list is sorted by *)
(* is that usage times the load of the host, divided by 100 and the number *)
(* of CPUs.  Here both are multiplied by 100 * nb_cores.                   *)
(***************************************************************************)
EXTENDS ProcessTracker

CONSTANTS
  top,       \* processes to list at most
  nb_cores,  \* CPUs of the host
  Usages,    \* cpu_usage of a process, per cent of a CPU
  Loads,     \* global cpu_usage, per cent
  NoProcess  \* stands for the empty name that a process that is gone has

ASSUME TopConsumersAssumption ==
  /\ top \in Nat
  /\ nb_cores \in Nat \ {0}
  /\ Usages \subseteq 0 .. 100 * nb_cores
  /\ Loads \subseteq 0 .. 100
  /\ NoProcess \notin Pid

\* get_cpu_usage_percentage of process p when the processes have the usages u.
get_cpu_usage_percentage(u, load, p) == IF p \in DOMAIN sysinfo THEN load * u[p] ELSE 0

\* The usage that listed processes are compared with, which is not scaled by the load.
cpu_usage(u, p) == 100 * nb_cores * u[p]

\* Faulty variant: the smallest usage comes first.
Inserted_ascending(list, p, diff) ==
  InsertAt(list, 1 + Max({0} \cup {i \in DOMAIN list : diff[list[i]] <= diff[p]}), p)

\* Pushed behind a sorted list, which is sorted again by usage, the highest first.  The sort
\* is stable, so that p comes behind the last process that has no lower usage.
Inserted(list, p, diff) ==
  InsertAt(list, 1 + Max({0} \cup {i \in DOMAIN list : diff[list[i]] >= diff[p]}), p)

\* One iteration of the loop of get_top_consumers.
Considered(list, v, u, load) ==
  LET p       == v[1].pid
      diff    == [x \in Pid |-> get_cpu_usage_percentage(u, load, x)]
      higher  == {i \in DOMAIN list : list[i] \in DOMAIN sysinfo
                                        /\ cpu_usage(u, list[i]) > diff[p]}
      longer  == Inserted(list, p, diff)
  IN  IF Len(v) > 1 /\ Cardinality(higher) < top /\ p \in DOMAIN sysinfo
      THEN SubSeq(longer, 1, IF Len(longer) > top THEN Len(longer) - 1 ELSE Len(longer))
      ELSE list

get_top_consumers(u, load) ==
  LET consumers[i \in 0 .. Len(procs)] ==
        IF i = 0 THEN <<>> ELSE Considered(consumers[i - 1], procs[i], u, load)
  IN  consumers[Len(procs)]

\* Whether the filter matches p, by the executable or else the command line that p has in
\* the snapshot; both are empty for a process that is not in it.  A filter is given by the
\* processes it matches, with NoProcess when it matches the empty string.
Matches(filter, p) == IF p \in DOMAIN sysinfo THEN p \in filter ELSE NoProcess \in filter

\* One iteration of the loop of get_filtered_processes: it looks at the last record of the
\* vector, the oldest one, but only for its pid.
Filtered(list, v, u, load, filter) ==
  LET diff == [x \in Pid |-> get_cpu_usage_percentage(u, load, x)]
      p    == v[Len(v)].pid
  IN  IF Len(v) > 1 /\ Matches(filter, p) THEN Inserted(list, p, diff) ELSE list

get_filtered_processes(u, load, filter) ==
  LET consumers[i \in 0 .. Len(procs)] ==
        IF i = 0 THEN <<>> ELSE Filtered(consumers[i - 1], procs[i], u, load, filter)
  IN  consumers[Len(procs)]

\* Processes a list may be made of: in the snapshot, with two records.
Candidates == {p \in DOMAIN sysinfo : \E i \in VectorsOf(p) : Len(procs[i]) > 1}

\* Processes a filtered list is made of: with two records, in the snapshot or not.
Matching(filter) ==
  {p \in Pid : Matches(filter, p) /\ \E i \in VectorsOf(p) : Len(procs[i]) > 1}

\* The highest usage comes first.
Sorted(list, u, load) ==
  \A i, j \in DOMAIN list : i < j =>
     get_cpu_usage_percentage(u, load, list[i]) >= get_cpu_usage_percentage(u, load, list[j])

\* After every refresh the list holds processes of the snapshot, each once, the highest
\* consumer first, and as many as there are up to top.  They are the top consumers ("sorted
\* by the highest consumers in first", utils.rs 766) only as far as the comparison goes:
\* a usage scaled by the load is compared with one that is not, so that all that is
\* certain of a process left out is that its usage times the load, over 100 * nb_cores,
\* does not exceed the usage of any process listed.  It is off by at most that factor,
\* and right on one CPU under full load.  A filtered list holds the processes that match
\* now, each once and sorted alike; one that is gone is in it when the filter matches
\* the empty string (utils.rs 766-830).
TopConsumersSound ==
  phase = "clean" =>
    \A u \in [Pid -> Usages], load \in Loads :
      LET list == get_top_consumers(u, load)
      IN  /\ ToSet(list) \subseteq Candidates
          /\ IsInjective(list) /\ Sorted(list, u, load)
          /\ Len(list) = IF Cardinality(Candidates) <= top THEN Cardinality(Candidates) ELSE top
          /\ \A p \in Candidates \ ToSet(list), x \in ToSet(list) :
               get_cpu_usage_percentage(u, load, p) <= cpu_usage(u, x)
          /\ \A filter \in SUBSET (Pid \cup {NoProcess}) :
               LET filtered == get_filtered_processes(u, load, filter)
               IN  /\ ToSet(filtered) = Matching(filter)
                   /\ IsInjective(filtered) /\ Sorted(filtered, u, load)
=============================================================================
