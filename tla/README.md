# A TLA+ model of system_diagnostics

`system_diagnostics` is a ROS 2 lifecycle node. A timer calls
`SystemDiagnosticsNode::publish_diagnostics`, which updates a list of plugin
tasks (CPU, memory, Docker memory, storage, thermal, network, battery, time
synchronization), on the executor thread or on a small pool of threads, and
publishes one `DiagnosticArray`. This directory holds TLA+ modules of the parts
whose behaviour is hard to test, the TLC configurations that check them, and
proofs of the most important properties for all values of the constants.

Source paths below are relative to the repository (`src/...` in
`PROJECT.json` is the repository's root followed by its own `src/`).

## Inventory

| Component | State it keeps | Operations | Talks to |
| --- | --- | --- | --- |
| Process (`main.cpp`) | the node and its executor | `main`, `spin` | runs every callback of the node |
| Lifecycle node (`system_diagnostics_node.cpp`, `main.cpp`) | lifecycle state, parameters, `task_names_`, `update_rate_`, `num_threads_`, `tasks_`, `timer_` | constructor, five transition callbacks, `on_error`, destructor; `discover_plugins`, `load_tasks`, `cleanup_tasks`, `start_timer`, `stop_timer` | plugins (calls `configure`, `cleanup`), the executor (callbacks), the parameter service |
| Update cycle (`publish_diagnostics`) | locals of one call: `results`, `next_index`, the workers | one timer callback: update every task, join, add the timing status, publish | tasks (calls `update` from several threads) |
| Docker memory task: sampler (`docker_memory_task.cpp`) | `latest_sample_` and what goes with it under `sample_mutex_`; `sampler_`, `sample_worker_` and `background_` under no lock | `configure`, `update`, `set_sampler`, `cleanup`; the worker's lambda | the update cycle, its own worker thread |
| Docker memory task: `sample_docker` | the sample being collected, one socket | list request, then one statistics request per container | the Docker daemon over a Unix socket |
| Docker memory task: summary | four thresholds | `configure`, `update` | its latest sample |
| Network task | `previous_counters_`, `sample_count_`, thresholds | `configure`, `update`, `cleanup` | sysfs, which changes at any time |
| CPU task | `previous_sample_`, thresholds | `configure`, `update`, `cleanup` | `/proc/stat`, `/proc/loadavg` |
| Storage task | `paths_`, thresholds; a test file on disk while a path is tried | `configure`, `update` | `statvfs`, `open`, `unlink`, and whoever else tries the same path |
| Thermal task | the zones discovered at `configure`, or why they could not be | `configure`, `update`, `cleanup` | sysfs |
| Memory, battery, time synchronization tasks | thresholds only | `configure`, `update` | procfs, sysfs, `adjtimex` |
| Task interface (`diagnostic_task.hpp`) | none | `declare_or_get`, `configure_name` | parameters |

What is hard, and what must hold in spite of it:

* **Update cycle.** Threads draw indices from an atomic counter and write
  results and tasks without a lock; a task may throw; a thread may fail to
  start with others running. No task is updated twice at once, no result is
  lost or misplaced, no thread outlives the cycle, and the timing status is not
  a lie.
* **Background sampler.** One mutex, one flag, one thread handle outside the
  mutex, and a daemon that may never answer. No joinable thread is overwritten,
  `update()` never waits for the daemon, a status never mixes samples, and
  `cleanup()` leaves nothing behind.
* **`sample_docker`.** The containers change between two requests, and every
  system call may fail. No descriptor leaks, and success means complete.
* **Lifecycle.** `on_configure` may be left in the middle by an exception, and
  parameters change between any two transitions. Nothing leaks, the timer runs
  exactly in the active state, and the right plugins are loaded.
* **Network and CPU tasks.** They compare with a stored sample which may be
  stale or belong to a recreated interface, in unsigned arithmetic; several
  findings compete for one summary. The deltas are real, and the summary is the
  worst of the findings.
* **Docker summary.** Thresholds go through `int` and `std::uint64_t`, and only
  one of the containers is judged.
* **Memory, battery, thermal, time.** Several findings compete for one summary, a
  source may fail between two good ones, differences are unsigned, and the
  kernel's offset has a unit of its own. Nothing hides an alarm, and no alarm is
  false.
* **Storage task.** Its test file has one name per process and path, and lives
  from one system call to another. No check disturbs another path's, and nothing
  is left behind but by a crash.
* **The process.** None of the parts is written for two callers at once; that
  there is only one is due to the executor, the pool's joins and the order of
  `cleanup_tasks`. A daemon that hangs must not hold up a cycle.

`PROJECT.json` lists each hazard at its line, with the properties that guard it.

## The modules

### UpdateCycle and DiagnosticsCycle

`UpdateCycle` models `publish_diagnostics`. A *runner* executes the lambda
`update_task`: runner 0 is the executor (sequential branch), the others are the
workers. `BeginCycle` is the timer callback up to the branch, `SpawnWorker` one
`emplace_back`, `ClaimTask` the `fetch_add` and the start of the update,
`FinishTask` its end with or without an exception and the write of the result,
`ExitRunner` the end of the worker's loop, `Publish` the joins, the timing status
and the publication. `SpawnFails` is an exception of `std::thread`'s constructor:
the pool threads that exist are joinable, so that it ends the process. `elapsed`
is the steady clock since `cycle_start`.

`DiagnosticsCycle` is what a cycle promises: every task answers once, in any
order, and the array is published in task order, or the process ends.
`UpdateCycle` implements it (`ImplementsDiagnosticsCycle`): the thread pool,
the counter and the clock disappear in the refinement mapping.

### DockerMemoryTask

One caller at a time (`pc`; the runner that updates the task, or the executor in
`configure`, `set_sampler` and `cleanup`) and one worker thread. Each lock, each
critical section, each join and the start of the thread is an action, in the
code's order: `Check` is the first critical section of
`start_background_sample_if_idle`, `JoinEndedWorker` its join, `Recheck` the
second one, `SpawnWorker` or `SpawnFails` the construction of the thread,
`ReadSample` the last critical section of `current_sample`. The worker is
`WorkerStarts`, `SamplerReturns`, `WorkerLocks`, `StoreSample`, `CountSample`,
`WorkerExits`. Cleanup joins first and resets under the lock. A sample is the
number of its run, so that a mixture of two samples shows.

`LatestSample` is what the task promises its callers: a register that is open
between `configure()` and `cleanup()`, in which samples begin and complete, one
after the other, and from which an answer takes the sequence number, the
duration, the sample and the flag at one moment. `DockerMemoryTask` implements it
(`ImplementsLatestSample`): threads, locks and joins disappear, and a sample counts
as completed as soon as it is stored, one step before it is numbered, which
nobody sees because both are done under the lock.

### DockerSampling

`sample_docker` and `http_get_unix_socket`, one system call per action, against a
daemon whose containers start and stop at any time. An answer is a header and
objects that arrive one by one; the connection may fail or end anywhere
(`RequestFails`, `EndOfAnswer`), and a daemon that closed it before the request
was sent raises SIGPIPE (`SendRaisesSigpipe`). How JSON text is cut into objects
is left out; that the code accepts any prefix of an answer is kept.

### NetworkTask, CpuTask

The tasks that compare with a stored sample. `NetworkTask` has one action per turn
of the loop over the interfaces, and the kernel acts between the turns: errors are
counted, links go down, interfaces vanish and come back at zero. A read may fail at any turn
(`FailInterface`), also of an interface that is there, since one of its files may not
open or parse. `CpuTask` has the counters of `/proc/stat`: idle may slip backwards as
Linux documents of iowait, and a tick of a virtual processor (`GuestTick`) counts twice
in the total that the code adds up, because Linux accounts it in `user` and in `guest`.
`since` is a history of what really happened since the last successful read, with which
the published numbers are compared: the ticks, of which those of guests are a part; the
errors, whether the interface was recreated, and whether it was ever read. Ratios of
doubles are compared by multiplying out.

### ThresholdTasks: MemoryTask, BatteryTask, TimeSyncTask, ThermalTask, ContainerStatus

The tasks that judge what they read. Each is a module of operators: `update` is
the task's `update()` as a function of the parameters and the reading, with one
operator for each condition that the code computes (`Used` is the unsigned
difference, `WorstContainer` is `std::max_element`, `sample_adjtimex` the kernel's
numbers as the code takes them), and `Findings` lists every reason for an alarm
there truly is, independently of the order in which the code looks for them: by the true
figures (the offset in its true unit, every container of the sample) and by the
parameters as they were set, not as the code stores them. Where the code misreads one
of these, `IsMisread` and `IsOfAnotherContainer` say where, and the properties excuse
just that; see "Disagreements found" and "What the properties excuse".
`DiagnosticLevels` has the levels and the chain of else-ifs. `ThresholdTasks` is
the life of one instance of one of them: `Configure` (the thermal task looks for
its zones), `Update` on a host that may have changed in any way, `Cleanup`. The
status of the Docker task is treated in the same way, its reading being a
completed sample, with the byte parameters' conversion to `int` and then to
`std::uint64_t`. `HostTasks` puts the CPU task and these next to each other, with what
their constants must satisfy; `MCHostTasks` gives the constants values.

### StorageTask

Instances of the task in one or several processes, one system call per action:
`Statvfs` (or `StatvfsFails`), `Open` with O_EXCL, `Unlink`, each followed by what
the code does up to the next call; `EndTurn` is the end of a turn of the loop. The
host may remount a path between any two calls, and a process may crash and be
started again, with the same number or another one. `left_over` is a history of
the files nobody will remove.

### SystemDiagnosticsNode and ManagedNode

One action per transition callback, since the executor runs one callback at a
time; `on_configure` is one step per plugin (`BeginConfigure`, `VisitPlugin`,
`FinishConfigure`), because an exception can leave it after any of them. A
namespace is its rank in the order of the names, and a parameter is what it makes
the code do (a plugin that loads, fails, or is not a string). An exception of a
callback leads to `OnError`, as rclcpp_lifecycle does. `main()`'s two transitions
come first, and `Destroy` may come whenever the node spins.

`ManagedNode` is what the node promises whoever drives its lifecycle: each transition
happens at one moment or not at all, a configuration has loaded every plugin that
works, in order, or the node is as empty as before, and an activation that fails
leaves an unconfigured, empty node. `SystemDiagnosticsNode` implements it
(`ImplementsManagedNode`): the loop over the plugins, its exceptions and `on_error`
disappear, and a configuration counts as done when `on_configure` succeeds.

### DiagnosticsSystem

The composition. It extends `SystemDiagnosticsNode` and instantiates `UpdateCycle` and
`DockerMemoryTask`, whose steps are taken by threads: thread 0 is that of `spin()`,
the others are the pool's, and the Docker worker is one besides. `Callback` is any
step of the node, and `DockerFollows` ties it to the Docker task: when the node loads
its namespace, the task is configured in the same step; when the node cleans its
tasks up, thread 0 enters the task's `cleanup()`, and `FinishCleanup` ends it and
destroys the task. `TimerFires` begins a cycle; `BeginUpdate` and `FinishUpdate` are the
`ClaimTask` and `FinishTask` of the cycle, between which a thread that has drawn the
Docker task goes through that task's own steps (`DockerCall`). `inside` is a history
of the threads in an operation of the Docker task. `Promise` is `DiagnosticsCycle` with the
tasks that are loaded at the time; each cycle of the process implements it
(`CyclesKeepTheirPromise`).

### The proofs

| Module | Proofs about |
| --- | --- |
| `UpdateCycleProofs` | `UpdateCycle`, and that it implements `DiagnosticsCycle` |
| `DockerMemoryTaskProofs` | `DockerMemoryTask`, and that it implements `LatestSample` |
| `DockerSamplingProofs` | `DockerSampling` |
| `StorageTaskProofs` | `StorageTask` |
| `NetworkTaskProofs` | `NetworkTask` |
| `HostTasksProofs` | `HostTasks`: `CpuTask` and the `ThresholdTasks` |
| `DiagnosticsSystemProofs` | `SystemDiagnosticsNode`, that it implements `ManagedNode`, and `DiagnosticsSystem` from all the parts |
| `SetInduction` | nothing of the program: induction, recursive functions and maxima, as lemmas to cite |

## The runs

| Run | Question | Distinct states |
| --- | --- | --- |
| `update_cycle` | Are tasks updated once each, the array complete and truthful, the pool joined, the abstract cycle implemented, and does every cycle end? | 315,383 |
| `docker_sampler` | Are caller and worker safe in every interleaving, does the task implement the register of samples, and do samples complete if the daemon answers? | 1,574 |
| `docker_spawn_failure` | (violation) Does `sample_in_progress` mean what it says when a thread fails to start? | |
| `docker_sampling` | Is a successful sample complete, does none leak a descriptor, does each end? | 87,114 |
| `docker_container_gone` | (violation) Are all running containers checked when one goes away? | |
| `host_tasks` | Does any of the memory, battery, thermal, time, Docker and CPU summaries hide an alarm, or raise a false one, but for the figures that are misread? | 211,092 |
| `time_sync_nano` | (violation) Is the offset judged in milliseconds? | |
| `cpu_guest_ticks` | (violation) Was the CPU as busy as an alarm of its usage says, when virtual machines run? | |
| `network` | Do deltas count all real errors whatever reads fail, and does the summary tell the worst of them? | 2,855,808 |
| `storage` | Do checks of writability disturb each other, does a test file stay behind, is the summary that of the worst path? | 3,241,320 |
| `node` | Is everything released, the timer right, the list loaded, every setting safe, is each transition one step to the outside, and does it end? | 854,048 |
| `system` | Is the Docker task called by one thread at a time, is the array of a cycle that of the tasks loaded at its tick, does anything run after the end, and do cycles and callbacks return? | 79,272 |

### Bounds, and why they are enough

* `update_cycle`: four tasks and three threads. With more tasks than threads a
  runner draws a second index while the others are still at their first, and
  with fewer it finds the counter past the end; both branches (`num_threads_ = 1`
  or at most one task) are reached. The period is 1 and the clock stops at 3,
  so that a cycle can be in time, late by one task, and late in sum.
* `docker_sampler`: three samples of one instance with two samplers, of which any
  worker may fail to start. A state depends on the last completed sample and
  the one in work, so that a third sample already repeats the pattern. The
  proofs have no bound on the number.
* `docker_sampling`: three containers; one that stops, one that starts and one
  that stays.
* `host_tasks`: parameters and readings lie at, just below and just above each
  threshold, thresholds that nothing or everything reaches included. Three
  batteries, and three containers: one that is hidden, one that hides it, and one
  in between. Two thermal zones that are there or not, at `configure` and again at
  every `update`. An `int` of 4 bits and a `std::uint64_t` of 10, with byte
  parameters that fit, that wrap around to 1 (17) or to zero (16), and that are
  negative or become so (8). CPU counters up to 4; three ticks between two successful
  reads, of guests or not, reach either threshold or neither.
* `network`: two interfaces, or one listed twice, with one counter of at most 2,
  which is the error threshold; two updates per configuration, the second of
  which has a baseline unless the read of the first failed; a list with a repetition
  can be read, fail and be read again in two updates. The comparison of the counters of one interface is the
  same fold as that over the interfaces, so that one counter shows how findings
  compete.
* `storage`: two instances, one that walks two paths and one that tries one of them
  or the other, which is enough for a collision and for its absence; one of the
  paths may be remounted, and one process crashes once. The volumes are at the
  warning, full, or without blocks.
* `node`: two namespaces, lists with both orders and a repetition, all kinds of
  parameters, and an `int` of three bits with `num_threads` at its largest value
  and one beyond it.
* `system`: two namespaces, one of them the Docker task, in one list, with a
  pool of one thread (the executor itself) or two; two samples per instance; a
  mistyped parameter that makes `on_configure` fail. The plugins that fail in
  other ways are the business of `node`, the clock that of `update_cycle`.

TLC's deadlock check is on everywhere: where the system really stops (the
process was ended, the node was destroyed) the module has an explicit idle step,
or the environment (the Docker daemon) goes on.

### Mutants

Next to some definitions stands one marked `Mutant:`. It is a plausible mistake
in the code the definition models, and is not part of the specification. Put in
place of the definition, it makes TLC report the property that `PROJECT.json`
pairs it with, under that run's own configuration: this is how each property is
known to depend on the code.

### Fairness

* `UpdateCycle!FairSpec`: weak fairness of the executor's steps and of each
  runner. The operating system schedules every thread, and the code assumes
  that a task's `update()` returns; for the Docker task in the background that is
  `CyclesReturn`.
* `DockerMemoryTask!FairSpec`: both threads are scheduled, but the call of the
  sampler has no fairness, because `recv()` has no timeout. The worker's lock
  is strongly fair: the caller holds the lock for a few instructions once a
  period, so that the worker finds it free again and again. `LiveSpec` adds
  that each call of the sampler returns, for `SampleCompletes`.
* `DiagnosticsSystem!SystemSpec`: every thread is scheduled, as above, and nothing is
  said of the daemon. `CyclesReturn` needs no more: with background sampling a cycle
  returns even if the daemon never answers. `CallbacksReturn` is the one property
  with `DaemonAnswers` as its premise: `cleanup()` joins the worker, and without an
  answer it waits, and the executor with it, for ever.
* `StorageTask`, `NetworkTask`, `CpuTask` and `ThresholdTasks` state no liveness: their
  operations are finite loops that wait for nothing.
* `DockerSampling!FairSpec`: some system call goes on as long as the sample is not
  over. Failures are never forced.
* `SystemDiagnosticsNode!FairSpec`: a transition that has begun continues, and
  `main()` makes its two transitions: plugins' constructors and `configure()`
  return. Nothing makes anybody activate or clean up the node afterwards.

## What is proved

TLAPS proves every safety invariant, action property and refinement of the passing
runs, for all values of the constants that satisfy the modules' named assumptions. An
inductive invariant stands at the head of each module of proofs, and TLC has
checked each on the instance of the corresponding run before it was proved. The
theorems do not use the bounds of the runs.

* **UpdateCycle.** The invariant `IInv` adds to the type invariant: which
  runners exist is known from where the executor is (`RunnersExist`), a runner
  that updates has an index below `next_index` that nobody else has and whose
  slot is blank (`ClaimsAreDistinct`), every drawn index is being updated or
  has its result, and none is left when a runner has exited
  (`IndicesAccountedFor`), no duration exceeds the time elapsed
  (`DurationsFit`). `OneUpdatePerTask` alone is not inductive: without the bound
  by `next_index` a fresh index could equal an old one. `EveryTaskReported`
  follows at `Publish`: all runners have exited, so that all indices were drawn
  and none is in work. `Refinement` shows that every step of `UpdateCycle` is a
  step of `DiagnosticsCycle` or a stutter, for any number of tasks and threads.
* **DockerMemoryTask.** `IInv` says who holds the mutex (`Locking`), that the
  flag is up while a worker is at work and down from the caller's first look to
  its own second (`Flag`), and that runs, stored samples and counted samples
  differ by at most the one in work (`Counting`). From it follow
  the theorems about joins, statuses, cleanup and `set_sampler`. If threads
  can be started, the flag is up only while sampling (`FlagIsTruthful`). A
  by-product is `RecheckNeverTaken`: with one caller at a time, the second look
  at the flag under the lock never finds it up.
  `SampleRefinement` shows that the two threads implement `LatestSample`: an update
  that reads holds the lock, so that no worker is between storing a sample and
  counting it, and the sample stored next is the successor of the newest one because
  there is never more than one in work.
* **SystemDiagnosticsNode.** Instances configured are those in `tasks_` at every
  step of loading, and what is still to be visited lies above what was loaded in
  the order of the map; `LoadedAsConfigured` follows at the last step. That
  `num_threads_` lies in `1 .. IntHalf - 1` is arithmetic of the conversion to
  `int` and holds for an `int` of any width. `TransitionsAreAtomic` is the refinement of
  `ManagedNode`; it needs besides that the list being loaded is still the parameter's
  (`ListIsCurrent`), because no parameter is set while `on_configure` runs.
* **DiagnosticsSystem.** The process implements the node (`ProcessRunsTheNode`) and
  the Docker task (`ProcessRunsTheDockerTask`) under the identity: whatever pools and
  transitions do, they make no call that `DockerMemoryTask` does not allow for. The
  theorems of the two hold of the process with that. It is no such refinement of
  `UpdateCycle`, since the tasks change between two cycles; `CycleInv` says instead
  that a cycle that runs satisfies the invariant of `UpdateCycleProofs`, and that
  otherwise the pool is gone (`Quiet`), from which `BeginInvariant` opens the next
  cycle. A step of a running cycle is therefore one of the abstract cycle
  (`CyclesImplementThePromise`), over the tasks loaded at the tick, so that no result
  of an earlier cycle or configuration is ever published. That one thread at a time is inside the Docker task (`OneCallerAtATime`)
  is not inductive for four reasons, which are the rest of the invariant. A namespace has one place in
  `tasks_` (`NodeInv`: they keep the order of loading), so that two threads with
  different indices cannot both have drawn the Docker task. Whoever is inside is the
  thread that updates it, or the executor in `cleanup()` (`CallsInv`, `Updating`). The
  two exclude each other because callbacks wait for the cycle. And the instance is
  configured exactly as long as the node counts it among the configured ones. Every
  theorem about the process is about any namespaces, lists, parameters, pool,
  number of samples and sequence of transitions.
* **DockerSampling.** `NoDescriptorLeft` is kept by each of the early returns, which are
  cases of their own. `SuccessMeansAllChecked` needs that a list answered by the
  daemon has every container that runs throughout (`AnswerIsTrue`), and that each of
  those is asked for, still to come, or in the result with its real usage
  (`NobodyIsForgotten`).
* **StorageTask.** `EveryFileHasOneOwner` is inductive once a turn of the loop is
  known to have a path (`TurnExists`): O_EXCL is what makes it so. `DeniedWithReason`
  follows from it: a file in the way is another check's or left over.
  `SummaryIsWorstPath` is maintained by each turn, for any number of paths
  (`Explained`).
* **NetworkTask.** `NoneIsLost` relates the kernel's counter, the stored one and the
  true number of errors in between, recreation of the interface included, and
  `BaselinesAreKept` says that whatever was read since `configure()` has a stored
  counter; `DeltasCountRealErrors` follows by arithmetic. That an interface which can be
  read again publishes a delta of every counter is part of it, so that no failed read
  loses a baseline. The summary is a loop over
  interfaces with a loop over counters in each, both of any length (`SumsUp`).
  A threshold parameter is signed and is converted to unsigned; the theorem
  covers negative ones, which no delta reaches.
* **HostTasks.** Each task's `update` is a chain of else-ifs, a loop, or a search of a
  maximum, and each is shown to give the worst of its `Findings`, which do not know the
  order of the code: chains whose conditions come from the worse to the milder
  level (`IsChain`), the loop over the supplies of any number, the hottest of any
  number of zones, and the fullest of any number of containers, compared by exact
  ratios (`FullnessIsOrdered`). Over time only `ThresholdInv` is needed: what
  `configure()` stored stays, and the last report is the judgement of the last
  reading. What is proved of the Docker task is about every container of the sample and the
  bytes as they were set: that a threshold which fits into an `int` is stored as it is
  (`BytesAreKept`), and that an offset is overestimated but never underestimated
  (`OffsetIsNotUnderestimated`), so that only false alarms, and no masked ones, need an
  excuse for it. For the CPU, `CpuInv` has the stored sample equal to the counters less
  what was counted since, the ticks of guests included twice. `CpuAlarmsAreReal` says that
  an alarm of the usage is real if no guest ran, and otherwise real of a CPU with twice the
  busy ticks; it holds although the difference of the counters may wrap, under the hypothesis `0 <
  WarnUsage <= ErrorUsage`: any usage reaches a threshold of 0, also the one
  computed from a wrapped difference, and with a warning above the error a usage
  between the two is an error by the code though it is below the threshold for
  warnings. The defaults satisfy the hypothesis.

### Assumptions

They are the named assumptions of the modules, which TLC evaluates in every run.
Most say only of which type a constant is: bounds are natural numbers, there
is at least one thread, an `int` has at least two bits, the Docker daemon has finitely
many containers, thresholds are integers of any sign. Three say more:

* `CpuAssumption`: 201 times the largest counter of `/proc/stat` fits into a
  `std::uint64_t`. At 100 ticks a second a thousand cores need tens of thousands of
  years to count that far. Without it a difference that wraps could look like a
  plausible one.
* `NetworkAssumption`: a counter does not reach a threshold that wrapped, that is, a
  negative parameter taken as unsigned. The code reads the counters as 64-bit numbers, and
  the parameters in use are many orders of magnitude away.
* `ThresholdAssumption`: what procfs says of memory fits into 64 bits, there are finitely
  many supplies, zones and containers, and a directory that is missing has no zones.

### How loops are proved

The library states induction of an operator `P(_)`, which the provers cannot
instantiate. `SetInduction` states it of a *set* of numbers, from the well-foundedness of
`<` on the naturals: a set with a least element and no smaller counterexample. From
that it follows that the recursive function of a loop exists (`LoopExists`), that what
each turn keeps, the loop keeps (`LoopKeeps`), and that a maximum of finitely many has
a first occurrence (`FirstLargestExists`). The folds of the code's loops are shown to
be such functions, so that what they compute is proved for inputs of any length.

tlapm's translation to SMT takes `Len` of anything for a natural number, also of a function
that is no sequence. Every obligation in which `Len` occurs was checked a
second time with that axiom restricted to sequences, and holds without it.

### Only model-checked

* Liveness: `CycleEnds`, `SampleCompletes` (of a sample and of the task),
  `TransitionsEnd`, `CyclesReturn`, `CallbacksReturn`. The prover cannot treat `ENABLED`,
  and with it fairness.
* What the violation runs refute: a counterexample needs no proof.

## Disagreements found

* **A failed thread start wedges the sampler** (`docker_spawn_failure`).
  `sample_in_progress_` is set before the `std::thread` is constructed. If that
  throws, no thread will ever clear the flag, and until the next `cleanup()` the
  task reports its last sample as if a new one were in work.
* **One container that goes away fails the sample** (`docker_container_gone`),
  although the documentation says that all running containers are checked.
* **The offset of the clock may be a thousand times too large** (`time_sync_nano`).
  `timex.offset` is in nanoseconds once the daemon that steers the clock has set
  STA_NANO; `sample_adjtimex` divides by 1000 in any case, and an offset of 0.1 ms
  becomes an error of 100 ms.
* **Guests count twice** (`cpu_guest_ticks`). `read_cpu_sample` adds `guest` and
  `guest_nice` to `user` and `nice`, in which Linux has them already: a host whose
  virtual machines use 60 percent of the CPU is reported at 75.

### What the properties excuse

The properties of the host's tasks are stated by true figures, and name the readings
and parameters of which they do not hold:

* **Byte thresholds go through an `int`** (`ThresholdIsMisread`). 4 GiB is no
  threshold at all, 4 GiB + 1 is one of a byte, and 3 GiB is never reached.
  `NothingIsMasked` and `AlarmsAreReal` hold of the byte thresholds from 0 to the
  largest `int`.
* **Byte thresholds see one container** (`IsOfAnotherContainer`), the one with the
  largest percentage. `NothingIsMasked` holds of the percentages of all containers and
  of the bytes of that one.
* **An offset in nanoseconds** (`TimeSync!IsMisread`) raises false alarms, as
  `time_sync_nano` shows, but masks none.
* **Guests**: `UsageAlarmsAreReal` bounds by how much their double counting
  overestimates; `HighUsageIsReported` holds whoever is busy.
* **More memory available than there is** (`Memory!IsPlausible`): the difference wraps
  around, to a false error.

### Other observations

Recorded as hazards: an answer that is cut off is taken for a complete one
(`SuccessMeansAllChecked` holds only of samples whose answers were whole); `send()`
may raise SIGPIPE; a hanging daemon blocks `cleanup()` and with it the executor; a
`plugin` or `enabled` parameter of the wrong type makes `on_configure` fail; a
namespace added to `tasks` at runtime has no declared parameters and is skipped; the
task list passes through a `std::map` and is loaded in the order of the names, while
README.md:92 calls it an ordered list; a process that is killed while it tries a
path leaves its test file, and a successor with the same number finds the path not
writable until somebody removes it; two tasks that try the same path at once may do
so, too; namespaces with the same last component share a timing key.

## What is not modelled

* Texts: JSON, HTTP headers, messages, key names, units. Of the JSON scanner
  only which objects are found is kept.
* Rounding of doubles. Percentages are exact ratios.
* The DDS side: publishers, QoS, the delivery of diagnostics.
* `TimeSyncTask::set_sampler`, which only the tests call.
* The keys of the timing status, of which equal ones would be published twice.
* The launch file and the YAML file have no behaviour; their values guided the
  choice of the constants.

## Plan

Every safety property that a run checks is proved. What is left:

1. Abstract specifications of further components, in the way of `ManagedNode` and
   `LatestSample`: a check of writability as one step, which `StorageTask` implements
   if no two tasks try the same path; a reading of the network's counters as one step.
2. `TimeSyncTask::set_sampler` and the parameters' declaration, of which only the
   effect is modelled.
