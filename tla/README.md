# Verification of scaphandre

TLA+ models, TLC runs and TLAPS proofs of the power-attribution agent in this
repository: the eBPF programs that account CPU time, the topology that turns
RAPL counters into power, and the exporters that publish it. Paths below are
relative to the repository's root.

## 1. The system

### 1.1 Parts

| Part | State | Operations | Where |
|---|---|---|---|
| eBPF time accounting | `PID_LAST`, `PID_TIMES` (per-CPU hash maps), `CPU_TIME` | `context_switch_tracker`, `sample_tick`, `process_exit_cleanup` | `scaphandre-ebpf/src/main.rs` |
| eBPF state detection | `CPU_SNAPSHOT`, `CPU_TO_SOCKET`, `CPU_STATE_EVENTS` (ring buffer) | `cpu_state_tick`; drained by userspace | `scaphandre-ebpf/src/main.rs`, `scaphandre/src/bpf.rs` |
| Topology | record, stat and CPU-time buffers | `refresh` and the difference functions | `scaphandre/src/sensors/mod.rs` |
| Socket, domain | energy records, idle/activation/background power | `refresh_record`, `read_activation_idle_record`, `distribute_background_to_domains`, `clean_old_records` | `scaphandre/src/sensors/mod.rs` |
| Process tracker | one vector of records per pid | `add_process_record`, `clean_old_process_records`, `clean_terminated_process_records_vectors`, `drop_empty_process_records_vectors`, `get_top_consumers`, `get_filtered_processes` | `scaphandre/src/sensors/utils.rs` |
| Core | records of registers, busy times and perf counters | `CPUCore::read_record`, `get_core_coefs` and the split of the power | `scaphandre/src/sensors/mod.rs` |
| RAPL sensor | - | `generate_topology`, `read_record` | `scaphandre/src/sensors/powercap_rapl.rs` |
| Metric generator | metric list, container and pod lists | `gen_all_metrics`, `pop_metrics` | `scaphandre/src/exporters/mod.rs` |
| Exporters | loop timers, server locks, files | `run`, `iterate`, `show_metrics`, `add_or_create` | `scaphandre/src/exporters/*.rs` |

### 1.2 How they interact

- The three accounting programs run on every CPU, from the scheduler's
  tracepoints and a perf timer, and write the maps. Instances of
  `cpu_state_tick`, one per socket, read `CPU_TIME` and write events into the
  ring. Nothing locks the maps.
- An exporter owns a topology. A `refresh` drains the ring, learns idle and
  activation power from the events, reads the energy counters of the sockets
  and domains and the registers and perf counters of the cores, takes a snapshot of the processes with their entries of
  `PID_TIMES`, and copies `CPU_TIME`, all while the programs go on counting.
- Powers and shares are differences of the two newest records of buffers that
  every refresh appends to and trims.
- The metric generator copies the results into metrics, after asking docker and
  kubernetes what runs; the exporter pops and delivers them. The Prometheus
  exporter does so in worker threads that share the generator behind two
  mutexes, the qemu exporter adds to files that guests read as energy counters.

### 1.3 What is hard, and what correctness means

`PROJECT.json` lists the hazards line by line. By part:

| Part | Hard behaviour | What makes it correct |
|---|---|---|
| Accounting | programs of all CPUs interleave on entries keyed by process, removal on one CPU affects another, full maps, pid reuse, events after the exit tracepoint | busy time is counted once and completely; a process is charged no more than its CPU |
| State detection | scan and snapshot are not atomic, two instances share a snapshot, the ring overflows, the socket map is filled in while ticks run | work is counted by a tick before a snapshot takes it away, but for the windows the code leaves; lasting idleness is reported |
| Buffers | 16-bit arithmetic on option values, eight copies of an off-by-one deletion loop | memory is bounded and the two newest records survive |
| Socket power | counters wrap, readings fail, the wall clock is set back, power is learnt from a power already corrected by it | energy is recovered across a wrap; background power stems from measurements |
| Core power | a core's registers are read one by one, CPUs go offline and come back in between, lines of `/proc/stat` are found by position, perf counters are multiplexed | coefficients are non-negative numbers, whatever could not be read; a process gets no more than the socket's power |
| Process tracker | pids are reused, the clock is set back, a loop removes from the vector it iterates over, usages of two scales are compared | one vector per pid, one executable per vector, newest record first, bounded number of vectors; a list of running processes, each once |
| Attribution | readings of a refresh are not simultaneous, entries vanish in between | a process is charged for what it ran, and shares of a CPU exceed 1 by at most the work of one refresh |
| Prometheus exporter | a time read before two locks and used after, panics that poison them, answers that postpone the refresh | refreshes are as far apart as the waiting for mutexes lets them be, mutexes are released, requests are served when they do not overlap and nothing panics, and data is as old as the requests since let it be |
| Qemu exporter | kill between truncation and write, machines that share a file, guests that read a truncated file | the files are meters that never fall, unless one cannot be read; together they never exceed what was measured for the host, and a guest charges no more for its socket |
| RAPL sensor, host energy | directories come in any order, names or domains are missing, counters are read one after the other, wrap and fail singly | every package, domain and core is found once; the host is charged what it consumed, once |
| Watching, other exporters | queries in whole seconds, failures, time that passes in between, failed deliveries, time limits | no container is overlooked, reports are in order and none is missing or torn when the limit ends the loop |

## 2. Modules

| Module | Models | Composition |
|---|---|---|
| `CpuAccounting` | the three accounting programs and the kernel around them | implements `BusyCounters` |
| `EbpfMaps` | `CPU_TIME`, the map that the accounting writes and state detection reads | extended by `CpuAccounting` and `CpuStateTick` |
| `BusyCounters` | abstract: what the readers of `CPU_TIME` rely on | |
| `CpuStateTick` | `cpu_state_tick` instances, ring, socket map, drain | takes `CPU_TIME` as `BusyCounters` describes it |
| `RecordBuffer` | the eight buffers and their trimming | |
| `SocketPower` | counters, records, background power of a socket and its domains, under a wall clock that may be set back | keeps the two records `RecordBuffer` shows to survive |
| `CorePower` | the reading of the cores and the split of a socket's power among them, with the fallback for processes without eBPF data | keeps two records likewise |
| `ProcessTracker` | the vectors of process records | extended by `TopConsumers` |
| `TopConsumers` | the lists of top and of filtered processes | in the states of `ProcessTracker` |
| `Attribution` | the reading of `PID_TIMES` and `CPU_TIME` by refreshes and the shares | takes from `CpuAccounting` what its readers see, from `ProcessTracker` and `RecordBuffer` the two newest records |
| `PrometheusServer` | the request handler and its mutexes | |
| `QemuExporter` | the loop, the files and the cleaning timer | implements `EnergyMeter` |
| `EnergyMeter` | abstract: what a guest relies on when it reads a file | |
| `QemuGuest` | a scaphandre in the guest that reads its file as the counter of a socket | composed with `QemuExporter`: every step is one of the exporter or of the guest |
| `HostTopology` | the building of the topology from the powercap directory, and the record of the host's energy | the power of single sockets and domains is in `SocketPower` |
| `MetricGenerator` | the watching of containers and pods | extended by `ExporterLoop` |
| `ExporterLoop` | the loops of the stdout, json, riemann, warp10 and prometheuspush exporters | |

`MC*` modules hold instances for TLC. The theorems are in `EbpfProofs`
(`CpuAccounting`, `CpuStateTick`), `RecordProofs` (`RecordBuffer`, `CorePower`),
`SocketPowerProofs`, `TopologyProofs` (`ProcessTracker`, `HostTopology`),
`AttributionProofs`, `ExporterProofs` (`PrometheusServer`, `ExporterLoop`),
`QemuExporterProofs` (`QemuExporter`, `QemuGuest`) and `FiniteSums`, the lemmas about
sums and products over finite sets. Where two modules are proved about together, the
names of their specifications differ (`TickSpec`, `CoreSpec`, `LoopSpec`, `HostSpec`).
Definitions whose names end in `_something` and whose comment says "Faulty
variant" are plausible bugs of the definition that follows; no specification
uses them, they serve to show that the properties can fail.

### 2.1 Correspondence with the code

`PROJECT.json` maps every definition to its lines. What to know beforehand:

- **CpuAccounting.** A step is one run of a program: tracepoint and perf handlers
  do not nest on a CPU, and those of different CPUs interleave. A per-CPU hash
  map is a set of keys with one slot per CPU for each; an insertion by one CPU
  makes the key present, with a zero slot, for all CPUs, and fails when
  `MaxKeys` keys are there. Exit is two steps, as in the kernel: the
  tracepoint, then the last switch. `busy` and `owed` are history variables:
  the time a CPU really ran tasks, and the part of it the programs could see; so are
  `overlapped` (two threads of a process have run at the same time) and `dropped` (a
  full map has refused a stamp), the conditions of the properties.
- **CpuStateTick.** An instance scans CPU by CPU, emits socket by socket, then
  copies CPU by CPU; work and other instances come between any two accesses.
  The ring drops what does not fit. The history variable `unseen` collects the
  CPUs whose work no scan has counted, and `overlooked` those of them whose snapshot
  was taken all the same, from the first tick on and for any number of sockets.
- **RecordBuffer.** Record sizes, casts, loop bounds and `u16` products are those
  of the code. A buffer is kept oldest first.
- **SocketPower.** A record holds the time since its predecessor in place of a time
  stamp, which is negative if the wall clock was set back in between: the code's
  cast makes the power 0 then. Unsigned subtractions are plain or saturating where
  the code's are. Powers are integers: the code's rounding of floats is abstracted.
  No two time stamps are taken to be equal.
- **CorePower.** A refresh first looks up the line of each core in `/proc/stat`, core
  by core, and panics if there is none. Then a core is read in four steps, one for each register and one for
  `/proc/stat` and the perf counters, in the order the code has; work and CPU
  hotplug come between any two. What cannot be read then is 0, as in the code; either
  perf counter may be overestimated or missing. The
  reading of a register interrupts the core, so that its counters move between two
  readings. Coefficients are kept as fractions, so that infinity and NaN are a zero
  below. The fields `online`, `cameUp` and `drifted` of a record are history.
- **ProcessTracker.** A cycle is clean, drop (one iteration of the loop per step),
  snapshot, add (one process per step, in any order). Sorting is by time stamp
  and stable, as the code's is. The lists of `TopConsumers` are computed in every
  state after a refresh, for all usages the processes may have. A filter matches what
  the snapshot says of a pid now, and the empty string for one that is gone.
- **Attribution.** `ReadProcess` reads the slots of an entry for all CPUs in one
  step, as one `get` of a per-CPU map does in one system call; `CPU_TIME` is
  read slot by slot. Subtractions wrap (release build).
- **PrometheusServer.** `Lock` models `std::sync::Mutex` with poisoning. The body of
  an answer is what it is: data, page, empty, or none because of a panic. The refresh and
  the generation of the metrics are two steps under the mutexes, and either may panic.
  `refreshed` is the time of the refresh, `asked` that of its request, read before the
  mutexes. `served` is history: the number of answers since the last refresh.
- **QemuExporter.** A file is absent, empty or a number. A file that is there may not be
  readable, for which the code starts it over. Truncation and write are two
  steps, `Kill` may come between. The power measured for a refresh is any number: what
  the host really drew plays no part. Assumed: the shares that the operating system
  gives the machines in one refresh add up to at most 100 per cent of the host. The guest of `QemuGuest` reads at any time, its
  socket and the host's sum one after the other, and makes of a file without a
  number what its sensor does.
- **HostTopology.** A folder of the powercap directory is a record of its kind, the
  numbers in its path and the contents of its file `name`; the three listings of
  `generate_topology` visit the folders in any order. A name is read with its end of
  line, and trimmed only where the code trims. The counters are read one after the
  other, in the order of the code, while they run. The fields of a record but for
  `value` are history: what the host had consumed when the reading began and when it
  ended, what had been lost by wrapping, and what the counters stood at that failed. Assumed of the directory: it is finite, either all packages
  have domain folders or none has (section 5 tells what happens otherwise), and psys
  is not memory-mapped.
- **MetricGenerator, ExporterLoop.** Time has `Resolution` ticks a second, the code
  reads whole seconds. Every query may fail and time passes between any two
  steps. What docker or kubernetes does with things nobody asks about is left
  out. A metric is the refresh it is from and the containers it names. `written` are the
  reports given to the output, `flushed` how much of them has reached it, in halves of
  a report: the json exporter's `BufWriter` keeps a part back, over iterations, and
  writes it when the exporter is dropped.

## 3. Runs

Times are for two workers. Every passing run comes with a mutant for each of its
properties (`PROJECT.json`, "mutants"), which TLC refutes.

| Run | Instance | Checks | Shows |
|---|---|---|---|
| `accounting` | 2 CPUs, a process with 2 threads and a single-threaded one, maps with room for 2 keys of 3, 2 ticks | `TypeOK`, `BusyTimeSound`, `BusyTimeComplete`, `ShareAtMostOne`, `CountersSpec` | the two maps agree and `CPU_TIME` implements `BusyCounters`, threads and full maps included; it counts only busy time until two threads of a process run at the same time, and all of it unless a stamp is refused too, through migrations, exits and reuse of ids |
| `accounting_threads_busy` | a process with 2 threads on 2 CPUs | `CpuTimeIsBusyTime`, violated | with threads `CPU_TIME` can exceed the busy time: section 5 |
| `tick_two_sockets` | 2 sockets with an instance each and an unused number between them, 3 CPUs, a hole in their numbers, ring of 1 event | `TickTypeOK`, `NoWorkOverlooked`, `IdleReported` | from the first tick on, with the socket map being filled in and both instances moving one snapshot, no work is overlooked but for the two cases the property names (section 5); lost events do not end the reporting |
| `buffer_trim` | all eight buffers, options 0, 1, 2, 66, 8192 kB, 50 readings | `TypeOK`, `SizeBounded`, `TwoNewestKept` | memory is bounded and the two newest readings survive, with the option values that wrap included |
| `power_events` | a socket and a domain, counters of 4 values, failing socket readings, a clock set back, any events | `TypeOK`, `EnergyRecovered`, `BackgroundMeasured` | wraps and failed readings lose at most one unit of energy; the background never exceeds a measured power |
| `core_power` | 2 cores of different speed, 2 units of work after the start, 2 hotplug events, one imprecise perf count, 3 refreshes | `SplitSound`, `FallbackBounded` | after a refresh that has not panicked, a core that could not be read does not spoil the split; the conditions named are needed |
| `tracker_cycles` | 2 pids, 2 executables, 2 records per process, lists of 1, usages 0, 50, 100 and loads 0, 75 | `UniquePid`, `OneHistory`, `HeadIsCurrent`, `VectorsBounded`, `TopConsumersSound` | histories stay apart through pid reuse, a clock set back and a dropping loop that skips vectors; lists hold running processes once, the highest first, and leave none out that uses more than the scale of the comparison allows |
| `prom_race` | 2 workers, 4 requests, a clock from 4 to 7 that may be set back, panics | `TypeOK`, `ServedInTurn`, `RefreshSpaced`, `StaleBounded`, `NobodyLockedOut` | `ServedInTurn` names the three ways to lose the exporter; refreshes come closer than two seconds only by what a request has waited; data is at most two seconds older per request answered since; every mutex is released |
| `qemu_files` | a named machine with a guest that reads twice and two machines without a name, half of the host each, 6 refreshes, 1 restart | `TypeOK`, `NoOverCount`, `PanicsOnlyIfInterrupted`, `GuestNotOvercharged`, `MetersSpec` | the files are meters through kills and failed writes, but for one that could not be read; only an interrupted write leaves one that cannot be parsed; no share is added twice; a guest that reads a truncated file loses energy for its socket and never gains any |
| `attribution` | 2 processes, 2 CPUs, 4 units of work, 3 refreshes, 2 changes | `ChargedForRunTime`, `SharesBounded` | attribution is exact per process, and the shares of a CPU, taken over the processes of two successive snapshots, are off by at most the work of one refresh |
| `host_topology` | seven directories (two packages, one with mmio, a laptop with psys, no domains, a guest, a domain of another kind, empty), 2 cores, any readings failing | `HostTypeOK`, `PackagesFound`, `HostEnergySound` | the order of the listing does not matter to packages, domains and cores; no counter is left out or counted twice although they run while they are read, and a failure is made up for by the next record |
| `exporter_watch` | 1 container, 1 pod, 2 ticks a second, 2 seconds, up to 3 iterations, each exporter | `ContainersLabelled`, `PodsLabelled`, `ReportsKept`, `LimitKept` | no container or pod is overlooked as long as queries succeed within their second; reports reach the output once and in order, and wholly once the limit has ended the exporter |

### 3.1 Bounds

- Two CPUs, processes, workers or pids are what every known interaction here needs:
  one that acts and one that is disturbed. `VectorsBounded` was also checked
  with three and four pids, as its bound depends on their number; from two pids on,
  which is assumed, it is a theorem. The theorems
  of section 4 remove the bounds for the properties they cover.
- `MaxNow`, `MaxWork`, `MaxReadings`, `MaxClock`, `MaxRequests`, `MaxRefreshes`,
  `MaxRestarts`, `MaxChanges`, `MaxPlugs`, `MaxDrifts`, `MaxTime`, `MaxMoves`, `MaxEnergy` and `MaxSince` bound counters,
  each in the guard of one action. Three refreshes give the attribution two
  windows, of which the second can inherit something from the first; a pid that is
  away for one refresh and reused needs a fourth, and is covered by
  `SharesBoundedAlways`. Fifty
  readings are more than any of the buffers holds at its limit with the small
  option values (1000 bytes and 48 bytes a record make 21). In `accounting` three keys
  compete for two places; its two ticks are enough for a stamp that is zeroed, refused
  or removed to be used.
- `RaplMax = 3` (1 in `host_topology`) makes the counters wrap at almost every reading. `cleaner_step = 15`
  (120 in the code) makes the qemu timer come round in three iterations. Both the
  timer and `step = 5` divide as they do in the code. `PodsPeriod = 1` (20 in the
  code) makes listings happen within the clock's bound, and `MaxTime = 4` is two seconds:
  one second over the limit of 1, and the start of a container in a second between two
  checks. The server of `prom_race` starts at 4, more than two seconds after the epoch,
  as every clock is. `Shares = {50}` lets two of the machines run and share a file.
- Runs say `CHECK_DEADLOCK FALSE` where a bound on time or work, or a panic, ends the
  behaviours.
- The view of `power_events` leaves out when and after how much energy the older of
  two records was taken: no definition but `Record`'s type looks at it.
- Symmetry is used where only safety is checked and the set is used symmetrically:
  CPUs and the threads of one process, pids, unnamed machines.

### 3.2 Fairness

- `CpuStateTick!TickFairSpec`: the perf timers fire again and again, a started program
  ends, the exporter refreshes again and again. Nothing makes a CPU work, and
  the filling of the socket map may stop for good (`IdleReported` assumes it does
  not).
- `PrometheusServer!FairSpec`: a worker that can go on does; nothing on clients, and
  nothing on who gets a mutex next. With requests that keep coming a worker may
  therefore wait for ever; `NobodyLockedOut` speaks of the time after the last one.
- `ExporterLoop!LoopFairSpec`: time passes, and the loop goes on, which includes that
  docker and kubernetes answer or fail: the queries have no timeout in the code,
  so that a socket that never answers blocks the exporter past its limit. When
  the clock is at its bound a limited exporter is taken to have slept enough.

## 4. Proofs

Eight modules hold the proofs. The listed theorems hold for all values of the
constants that satisfy the named assumptions of the modules, and no bound of section 3
is needed for them.

| Theorem | Statement | Inductive invariant and argument |
|---|---|---|
| `EbpfProofs!TypeAlways`, `ShareAlways` | types; a process is charged at most its CPU's busy time | `ShareInv`: with `StampsPast` (no stamp is in the future, a zero slot included) every delta is a natural number, and each program adds the same delta to both maps, or to `CPU_TIME` only |
| `ImplementsCounters` | `Spec => CountersSpec` | each action maps to growth of one slot or to a stutter, from `ShareInv` |
| `BusyTimeSoundAlways` | nothing is counted twice, until two threads of a process run at the same time | `SingleInv`: a thread is on one CPU (`OnePlace`), so that the programs conserve `CPU_TIME + Pending` and only the clock moves it, by what it moves `busy` |
| `BusyTimeCompleteAlways` | no run time is lost, until then and until a stamp is refused | `CompleteInv` adds `Tracked`: the task on a CPU has a stamp once an event was seen |
| `TickTypeAlways`, `NoWorkOverlookedAlways` | types and bounds of the three loops; no work is overlooked but for the two cases named; for any sockets, holes and filling of the map | `OverlookInv`: a CPU whose work no scan has counted is ahead of the snapshot, and no instance that will come to it is past it (`Uncounted`); the entries an instance began with stay (`EntriesStay`) |
| `RecordProofs!BufferTypeAlways`, `SizeBoundedAlways`, `TwoNewestAlways` | for every option value | `BufferInv`: the readings in a buffer are contiguous and end with the newest; the number to delete is bounded on both sides by non-linear facts proved per record size |
| `SplitSoundAlways` | any number of cores, speeds, hotplug: after a refresh that has not panicked no denominator is zero but for a CPU that came up during its reading, no numerator negative but for an imprecise count | `SplitInv`: what has been read of the core in turn (`Reading`), how stored records stand to the counters (`Stored`) and the two of a core to each other (`Pair`) |
| `FallbackBoundedAlways` | processes without eBPF data get at most the socket's power | `BusyInv`: between two readings with the same CPUs online a core is busy no longer than the first line says of all (`BusyPair`), so that percentages are at most 100; the rest is sums of weights over the cores, whose common denominators are products |
| `SocketPowerProofs!PowerTypeAlways`, `BackgroundMeasuredAlways` | any domains, range, draws, events and steps of the clock | `PowerInv`: records differ in time, so powers are naturals, and the power of the two newest records is below `peak` |
| `EnergyRecoveredAlways` | any range, draws, failed readings | `EnergyInv`: how the counter stands to the newest record (`CounterFollows`) and the two newest records to each other (`PairsFollow`): wrapped once or not |
| `TopologyProofs!TrackerTypeAlways`, `UniquePidAlways`, `OneHistoryAlways` | any pids, executables, interleavings | `TrackerInv`: `UniquePid` needs `OneHistory`, as sorting brings any record of a vector to the front |
| `HeadIsCurrentAlways` | the newest record of a running process is of the last snapshot, unless the clock was set back | no record is from the future, and what of the snapshot has been added so far; sorting then leaves the newest in front |
| `VectorsBoundedAlways` | fewer than two vectors per pid | `FewInv`: in the dropping loop the empty vectors that were stepped over are at most as many as those removed |
| `TopConsumersSoundAlways` | any number of processes, CPUs and list entries, any usages and load: each list has as many processes as it should, once, the highest first; one left out of the top list has, scaled by the load, no higher usage than any in it has unscaled; filtered lists hold what matches now | from `TrackerInv` alone, by induction along the vectors: `Good`, what the vectors passed so far have left in the list (as many as fit; a list that is full when a vector is refused has no lower usage in it) and `Sieved` for filtered lists; `UniquePid` makes the next pid a new one |
| `HostTypeAlways`, `PackagesFoundAlways` | any powercap directory, in any order | `BuildInv`: for the folders looked at so far (`Looked`), the topology has exactly the domains that they name, each once; what the fallback and the look for psys add to that |
| `HostEnergySoundAlways` | any counters, wraps, failures, with time between any two readings | `MeasureInv`: what has been summed up so far, with what failed, is between what the counters read so far held when the sum was begun and what they hold (`SumBounds`), so that a record is between what was consumed at its beginning and at its end (`Bounds`); the sockets partition the counters of the host, so that each is summed up once |
| `AttributionProofs!ChargedForRunTimeAlways` | a process is charged exactly for what it ran between its two newest records | `ChargedInv`: what an entry has grown by since the newest record of its process (`EntrySince`), and the newest record since the one before (`RecordSince`) |
| `SharesBoundedAlways` | the processes of two successive snapshots get no more of a CPU than there is, but for the work of one refresh | `SharesInv`: what the processes read so far have run since is at most what their CPU was busy since it was read, and late before; the same between two readings (`Balanced`) |
| `ExporterProofs!ServerTypeAlways`, `RefreshSpacedAlways`, `StaleBoundedAlways`, `ServedInTurnAlways` | any number of workers | `ServerInv` (who holds which mutex; a request is not later than its refresh, and the first request refreshes), `TurnInv` (without overlap and panic at most one worker is active, times are ordered and no mutex is poisoned) |
| `ReportsKeptAlways` | any number of iterations, whatever fails: reports are of one refresh each, in order, none missing but those that failed, and whole once an exporter has ended by its limit | `Fresh` (the metrics kept are of the last refresh, and there are none outside of watching and delivery) and `ReportsInv` (every iteration that is over has its report, or is among those that failed) |
| `ContainersLabelledAlways`, `PodsLabelledAlways` | any containers, pods and resolution of docker's clock | `Past` (nothing checked or started is in the future), `Remembered` (docker remembers the start of a container that is not listed, at or after the second of the last check), `DockerStep` and `PodsStep` (what a check that is under way has found), `Labelled` |
| `QemuExporterProofs!ImplementsMeters` | `Spec => MetersSpec`, any machines, names, usages, powers | `QemuInv`: a file that holds a number holds the last one written (`Held`), and the number about to be written is not smaller (`Iteration`); truncation maps to `Hide` or a stutter, a write to `Show` |
| `QemuTypeAlways`, `PanicsOnlyIfInterruptedAlways` | the timer never underflows; who leaves unreadable files | `QemuInv`: until a write is interrupted the only truncated file is the one being written (`OneTorn`) |
| `NoOverCountAlways` | the files sum up to at most the powers measured for the host | `Budget`: the files, and what the machines still to be handled will be charged, stay within the sum of the powers measured |
| `GuestNotOverchargedAlways` | a guest derives no more for its socket than the machine was charged, and for its host no more than that and one counter per misreading | `GuestInv`: what it has derived is within its newest record, and that within the last number of the file (`SocketKnown`, `HostKnown`) |

**Sums.** The library computes a sum with a recursive function over the subsets of a
set, taking elements in an order of TLC's choice. `FiniteSums` proves that this function
exists and is unique on a finite set, and from it that sums split, scale, compare and do
not depend on the order. The loops of `TopConsumers` are functions of the number of
vectors passed; `IterationExists` shows that they exist. The induction is on instances: the set of subsets for
which the fact fails has a member of least cardinality (`SubsetInduction`), since a
theorem with an operator as a parameter cannot be used.

**Proofs that failed.** `SharesBounded` was first stated for all processes with two
records. It is false: a pid that is missing in one snapshot and comes back keeps its
older record (section 5). The property now speaks of processes of two successive
snapshots, which is what the shares of one window are.

Only model-checked: the liveness properties `IdleReported`, `NobodyLockedOut` and
`LimitKept` (liveness and ENABLED are out of the prover's reach).

## 5. Where the code and its documentation disagree

Kept as a run, with a finding in `PROJECT.json`: `accounting_threads_busy`.

Seen while modelling and not kept as runs:

- **Entries outlive their process.** The exit tracepoint is not a task's last event:
  a sample or the last switch re-creates the entries it deletes
  (`scaphandre-ebpf/src/main.rs:115`, `:220`; `docs/overview.md:203-208` says that
  they are deleted). The same makes the subtraction of `utils.rs:414` wrap when a
  refresh has read the entry before the removal and the next one reads the
  re-created one. `ChargedForRunTime` therefore excludes processes whose entry was
  removed between their two newest records; without the exclusion TLC refutes it.
- **Shares may exceed 1 by one refresh.** Entries are read before `CPU_TIME`. The
  term `latePrev` of `SharesBounded` is the work in between, and without it TLC
  refutes the property. A pid that is not in the previous snapshot but has an older
  record (`utils.rs:378`) is charged, against the CPU time of one window, for what it
  ran since that record; `SharesBounded` leaves such a process out.
- **Two sockets.** Each instance of `cpu_state_tick` judges all sockets and moves the one
  shared snapshot (`main.rs:121-184`; `bpf.rs:56` starts one per socket), so that an
  instance consumes the window of the other and may report a busy socket idle
  (`overview.md:221-222`). `NoWorkOverlooked` therefore says that work is counted by
  some tick, not by the tick of its own socket, and leaves out what is done between
  the look of any instance at the CPU and its snapshot.
- **A gap in the numbers of the CPUs** ends the scan: CPUs behind an index without an entry
  are looked at by no verdict (`main.rs:131`), and so are, at start-up, the CPUs whose
  entry is not set yet. `NoWorkOverlooked` leaves them out.
- **Work between scan and snapshot** of a tick is seen by no verdict
  (`main.rs:179`; `overview.md:221-222`).
- **Buffers settle above `buffer_max_kbytes`**, by up to two records
  (`sensors/mod.rs:1495`, comment at 1475-1476), and options from 66 kB on wrap.
- **Idle power does not converge.** It is learnt from a power that it was already
  subtracted from (`mod.rs:1662`), with 0 for "unknown": under constant power and
  idle events it alternates between the true power and 0 (`mod.rs:1669`;
  `overview.md:237-238` says that it converges, the comment at 1719 that it is a
  minimum). Domains keep a background when the socket's returns to 0, because of an
  early return (`mod.rs:1625`, comment at 1619).
- **Time set back.** With a wall clock set back by more than the time between two
  readings the power is 0 (`mod.rs:1924`), by less it is too high, and such a power
  counts as measured in `BackgroundMeasured`.
- **The dropping loop** skips a vector after each one it removes (`utils.rs:875`,
  comment at 871); `VectorsBounded` shows that this does not pile up.
- **A pid reused by the same executable** continues the old history
  (`utils.rs:378`, comment at 375-376).
- **Top consumers** are kept by comparing the unscaled usage of the listed processes
  with the scaled usage of the next one (`utils.rs:777`): with `top = 1`, two CPUs
  and a load below 100 % the first process considered stays, although the next uses
  twice as much (`docs/json.md:98` says "top processes by estimated power
  consumption"). `TopConsumersSound` states what is certain instead: a process left out
  is below the listed ones by this mixed comparison. A filter is matched against what
  the snapshot says of the pid, so that one that matches the empty string lists
  processes that are gone (`utils.rs:165-183`).
- **Fallback.** Processes without eBPF data get shares of the operating system's
  percentages next to shares of eBPF times (`mod.rs:1139-1155`).
- **Prometheus.** A request that waited for the mutexes while a later one was served
  subtracts a later time from an earlier one and panics (`prometheus.rs:167`); the
  poisoned mutexes make all later answers empty. So does any panic of the refresh or
  of the generation (`:177`, `:184`), such as that of an offline CPU below. The time
  of a request is read before it waits (`:162`), so that two refreshes, each of which
  stamps its own records, may be less than two seconds apart. Requests two seconds apart or
  less are served the same data for ever (`prometheus.rs:180`); `StaleBounded` says
  how old it can get. The exporter
  clones the topology, and the clone has no eBPF handles.
- **Qemu.** The first value of a file is dropped (`qemu.rs:128`, comment at 114-115);
  an empty file left by a kill makes the exporter panic after every restart
  (`qemu.rs:127`); a power in microwatts is added to a counter of microjoules
  every five seconds (`qemu.rs:79`). A file that cannot be read, for whatever reason, is
  started over (`qemu.rs:126`), which a guest takes for a wrap. A guest that reads a truncated file counts it as 0
  in its host's sum and the whole counter as energy at the next reading
  (`powercap_rapl.rs:113-138`); for its socket it only misses that energy, which is
  what `GuestNotOvercharged` is about.
- **Watching.** `containers_last_check` moves on after failed queries
  (`exporters/mod.rs:1061`; the comment at 989-990 says "if the operation is
  successful"), as does `pods_last_check` (`:1023`, comment at 1009). A container
  that starts during a check that goes on into the next second is not seen
  before another event; a failure of the first query ends the watching of docker
  (`:1043`). `ContainersLabelled` and `PodsLabelled` exclude exactly these cases by
  the history variables `dockerTimely` and `podsTimely`. Seconds are parsed as
  `i32`, which ends in 2038 (`:1070`).
- **Riemann** has a `--containers` option that does nothing: its loop never calls
  `gen_process_metrics`.
- **Json** takes a negative timeout for its absolute value, and keeps reports in a
  `BufWriter` that it never flushes (`json.rs:242`, `:643`): what is in the file is behind
  by up to a buffer, and a kill, which is how an exporter without a limit ends, tears
  or loses the last reports. `ReportsKept` shows that one that ends by its limit loses
  none. The stdout exporter with `-t 0`
  runs one iteration (`stdout.rs:58-67`; `exporter-stdout.md:10` says "infinitely").
- **RAPL topology.** The fallback compares an untrimmed name with `psys`
  (`powercap_rapl.rs:286`), so that psys becomes a socket, and mmio folders that are
  listed before their socket's domains are not attached (`:246-275`). A package
  without domain folders beside one with them is left out (`:279`). A domain that is
  neither core, uncore nor dram makes the sensor panic (`:38`).
- **Host energy.** A counter that cannot be read is left out of the host's sum
  (`powercap_rapl.rs:113-138`): the sum falls, for which no power is given
  (`mod.rs:798`), and rises at the next refresh by the whole counter, which is
  given as power. `HostEnergySound` bounds that rise by what the failed counters stood
  at. A psys that fails is replaced by the sum of the sockets, a different quantity,
  and such a record is out of the property.
- **A CPU that is offline makes the refresh panic.** `s.refresh_stats` takes the line of
  each core out of what it has read of `/proc/stat` by `cpu_time.remove(id)`
  (`mod.rs:571`, `:1819`, `:2221`), and there are only as many lines as CPUs online: the
  core with the highest number has none. The stdout exporter ends, the Prometheus
  exporter poisons its mutexes. `CorePower` has this panic; its properties are about
  the CPUs that go offline after it and come back before the next refresh.
- **Core shares** are NaN or infinite when a CPU comes online between the readings of
  its registers, as the reference counter is 0 then and the time stamp counter is not
  (`mod.rs:471-473`; `overview.md:175` says that they sum to 1), and negative when the
  scaled count of a multiplexed perf counter falls (`mod.rs:2142`, `:2146`). The line of a CPU
  in `/proc/stat` is found by its position among the CPUs that are online
  (`mod.rs:2125`), so that after a change differences mix CPUs. `SplitSound` and
  `FallbackBounded` exclude exactly these cases.
- `overview.md:197` describes a map `TID_TO_TGID` that the code has not.

## 6. What is not modelled

- `scaphandre-ebpf/src/vmlinux.rs`: generated bindings of kernel types, 71 thousand
  lines without behaviour. They are nine tenths of the repository's lines, so that a
  count of lines says little about what is modelled.
- The Windows sensor (`msr_rapl.rs`, a driver interface that only reads registers),
  units (pure conversions, unit-tested), the command line (no state), the error paths
  of the eBPF loader, and the texts and layouts of the exporters' reports.
- The order of all parts in one refresh: the parts share no state but the buffers
  each module has, and the modules allow any time between them.
- Time set back in the watching of containers; floating point.

## 7. Plan

Done, in the order of importance: accounting, state detection, buffers, power,
tracker, Prometheus and qemu exporters, attribution, watching and the other
exporters, the RAPL topology, the power of cores, the qemu guest, the lists of
processes; the theorems of section 4.

Next, for the model: `TopologyRefresh`, the order of all parts in one refresh; the
filter by container names.

Next, for the proofs: `EnergyMeter` as the counter that `SocketPower` reads.
