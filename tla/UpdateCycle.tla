----------------------------- MODULE UpdateCycle -----------------------------
(***************************************************************************)
(* SystemDiagnosticsNode::publish_diagnostics: one call of the timer       *)
(* callback updates every loaded task, inline or on a pool of short-lived  *)
(* threads that draw indices from an atomic counter, joins the pool, and   *)
(* publishes one DiagnosticArray that ends in a timing status.             *)
(*                                                                         *)
(* A "runner" is whoever executes the lambda update_task: runner 0 is the  *)
(* executor thread itself (the sequential loop), runners 1, 2, ... are the *)
(* pool's workers.  The steady clock is `elapsed`, the time since          *)
(* cycle_start; it moves only while a cycle runs.                          *)
(***************************************************************************)
EXTENDS Naturals

CONSTANTS
    MaxTasks,           \* bound: the most tasks that are loaded
    MaxThreads,         \* bound: the largest num_threads parameter
    Period,             \* 1000 / update_rate_, the configured period
    MaxElapsed,         \* bound: the clock stops here
    SpawnMayFail        \* may std::thread's constructor throw?

ASSUME UpdateCycleAssumption ==
    /\ MaxTasks \in Nat
    /\ MaxThreads \in Nat \ {0}
    /\ Period \in Nat
    /\ MaxElapsed \in Nat
    /\ SpawnMayFail \in BOOLEAN

VARIABLES
    task_count,         \* tasks_.size()
    num_threads_,       \* the member of that name, at least 1
    pc,                 \* where the executor thread is
    spawned,            \* how many workers have been emplaced
    next_index,         \* the shared counter (the loop index when sequential)
    runner,             \* the state of each runner
    claim,              \* the index a runner is updating
    task_start,         \* when that update began
    results,            \* the vector results, one slot per task
    elapsed,            \* time since cycle_start
    array               \* the DiagnosticArray, once published

config == <<task_count, num_threads_>>
work == <<next_index, runner, claim, task_start, results>>
vars == <<config, pc, spawned, work, elapsed, array>>

-----------------------------------------------------------------------------

Tasks == 0 .. (task_count - 1)
AllRunners == 0 .. MaxThreads
Outcomes == {"ok", "threw"}

\* Every task runs on the executor thread: one thread, or at most one task.
Sequential == num_threads_ = 1 \/ task_count <= 1

WorkerCount == IF num_threads_ < task_count THEN num_threads_ ELSE task_count

Runners == IF Sequential THEN {0} ELSE 1 .. WorkerCount

Durations == 0 .. MaxElapsed

\* A slot of `results` as value-initialised, and as update_task fills it.
BlankResult == [written |-> FALSE]
TaskResult(i, outcome, duration) ==
    [written |-> TRUE, task |-> i, outcome |-> outcome, duration |-> duration]
Results ==
    {BlankResult} \cup
    [written : {TRUE}, task : Tasks, outcome : Outcomes, duration : Durations]

NoArray == [published |-> FALSE]
ArrayOf(statuses, all, level) ==
    [published |-> TRUE, statuses |-> statuses, all |-> all, level |-> level]

Init ==
    /\ task_count \in 0 .. MaxTasks
    /\ num_threads_ \in 1 .. MaxThreads
    /\ pc = "idle"
    /\ spawned = 0
    /\ next_index = 0
    /\ runner = [r \in AllRunners |-> "none"]
    /\ claim = [r \in AllRunners |-> 0]
    /\ task_start = [r \in AllRunners |-> 0]
    /\ results = [i \in Tasks |-> BlankResult]
    /\ elapsed = 0
    /\ array = NoArray

-----------------------------------------------------------------------------
(* The executor thread opens a cycle and, if it uses a pool, spawns it.    *)

\* The timer fires: fresh locals, then the sequential loop or the pool.
BeginCycle ==
    /\ pc = "idle"
    /\ pc' = IF Sequential THEN "run" ELSE "spawn"
    /\ runner' = IF Sequential THEN [runner EXCEPT ![0] = "fetch"] ELSE runner
    /\ spawned' = 0
    /\ next_index' = 0
    /\ results' = [i \in Tasks |-> BlankResult]
    /\ elapsed' = 0
    /\ array' = NoArray
    /\ UNCHANGED <<config, claim, task_start>>

SpawnWorker ==
    /\ pc = "spawn"
    /\ spawned' = spawned + 1
    /\ runner' = [runner EXCEPT ![spawned + 1] = "fetch"]
    /\ pc' = IF spawned + 1 = WorkerCount THEN "run" ELSE "spawn"
    /\ UNCHANGED <<config, next_index, claim, task_start, results, elapsed, array>>

\* std::thread's constructor throws.  Unwinding destroys `workers` with its
\* joinable threads, or, with none yet, leaves the timer callback and main
\* uncaught: std::terminate either way.
SpawnFails ==
    /\ SpawnMayFail
    /\ pc = "spawn"
    /\ pc' = "terminated"
    /\ runner' = [r \in AllRunners |-> "none"]
    /\ UNCHANGED <<config, spawned, next_index, claim, task_start, results, elapsed, array>>

-----------------------------------------------------------------------------
(* A runner draws an index and updates that task until there are none.     *)

\* Mutant: the bound of the loop is off by one.
HasTaskOrEnd(index) == index <= task_count

HasTask(index) == index < task_count

\* Mutant: the counter is read but not advanced.
NotAdvanced(index) == index

Advanced(index) == index + 1

\* fetch_add(1) returned the index of a task; its update begins.
ClaimTask(r) ==
    /\ runner[r] = "fetch"
    /\ HasTask(next_index)
    /\ next_index' = Advanced(next_index)
    /\ runner' = [runner EXCEPT ![r] = "updating"]
    /\ claim' = [claim EXCEPT ![r] = next_index]
    /\ task_start' = [task_start EXCEPT ![r] = elapsed]
    /\ UNCHANGED <<config, pc, spawned, results, elapsed, array>>

\* fetch_add(1) went past the last task: the loop breaks.
ExitRunner(r) ==
    /\ runner[r] = "fetch"
    /\ ~HasTask(next_index)
    /\ next_index' = Advanced(next_index)
    /\ runner' = [runner EXCEPT ![r] = "exited"]
    /\ UNCHANGED <<config, pc, spawned, claim, task_start, results, elapsed, array>>

\* update_duration_ms: the time since this update began.
TaskTime(r) == elapsed - task_start[r]

\* Mutant: an exception of a task is not caught and the runner dies with it.
FinishTaskUncaught(r) ==
    /\ runner[r] = "updating"
    /\ \E outcome \in Outcomes :
        IF outcome = "threw"
        THEN /\ runner' = [runner EXCEPT ![r] = "exited"]
             /\ UNCHANGED results
        ELSE /\ results' = [results EXCEPT ![claim[r]] =
                    TaskResult(claim[r], outcome, TaskTime(r))]
             /\ runner' = [runner EXCEPT ![r] = "fetch"]
    /\ UNCHANGED <<config, pc, spawned, next_index, claim, task_start, elapsed, array>>

\* The task's update returned or threw; either way its slot is written, and
\* update_task returns (its locals are cleared).
FinishTask(r) ==
    /\ runner[r] = "updating"
    /\ \E outcome \in Outcomes :
        results' = [results EXCEPT ![claim[r]] =
            TaskResult(claim[r], outcome, TaskTime(r))]
    /\ runner' = [runner EXCEPT ![r] = "fetch"]
    /\ claim' = [claim EXCEPT ![r] = 0]
    /\ task_start' = [task_start EXCEPT ![r] = 0]
    /\ UNCHANGED <<config, pc, spawned, next_index, elapsed, array>>

-----------------------------------------------------------------------------
(* The executor joins the pool and publishes.                              *)

\* Mutant: only one of the workers is joined.
AllJoinedButSome == \E r \in Runners : runner[r] = "exited"

\* The joins have all returned (the loop has ended).
AllJoined == \A r \in Runners : runner[r] = "exited"

\* Mutant: an overrun is reported only one unit of time too late.
OverrunLate(duration) == duration > Period + 1

Overrun(duration) == duration > Period

Publish ==
    /\ pc = "run"
    /\ AllJoined
    /\ array' = ArrayOf(results, elapsed, IF Overrun(elapsed) THEN "ERROR" ELSE "OK")
    /\ pc' = "idle"
    /\ runner' = [r \in AllRunners |-> IF runner[r] = "exited" THEN "none" ELSE runner[r]]
    /\ UNCHANGED <<config, spawned, next_index, claim, task_start, results, elapsed>>

\* Time passes while a cycle runs.
Tick ==
    /\ pc \in {"spawn", "run"}
    /\ elapsed < MaxElapsed
    /\ elapsed' = elapsed + 1
    /\ UNCHANGED <<config, pc, spawned, work, array>>

\* The process is gone for good.
Terminated ==
    /\ pc = "terminated"
    /\ UNCHANGED vars

-----------------------------------------------------------------------------

RunnerStep(r) == ClaimTask(r) \/ ExitRunner(r) \/ FinishTask(r)

Next ==
    \/ BeginCycle
    \/ SpawnWorker
    \/ SpawnFails
    \/ \E r \in Runners : RunnerStep(r)
    \/ Publish
    \/ Tick
    \/ Terminated

Spec == Init /\ [][Next]_vars

\* The operating system runs every thread, and every task's update returns.
Fairness ==
    /\ WF_vars(SpawnWorker)
    /\ WF_vars(Publish)
    /\ \A r \in AllRunners : WF_vars(r \in Runners /\ RunnerStep(r))

FairSpec == Spec /\ Fairness

-----------------------------------------------------------------------------
(* Properties                                                              *)

\* The type invariant; an update in progress has an index within `results`.
TypeOK ==
    /\ task_count \in 0 .. MaxTasks
    /\ num_threads_ \in 1 .. MaxThreads
    /\ pc \in {"idle", "spawn", "run", "terminated"}
    /\ spawned \in 0 .. MaxThreads
    /\ next_index \in Nat
    /\ runner \in [AllRunners -> {"none", "fetch", "updating", "exited"}]
    /\ claim \in [AllRunners -> Nat]
    /\ \A r \in AllRunners : runner[r] = "updating" => claim[r] \in Tasks
    /\ task_start \in [AllRunners -> Durations]
    /\ results \in [Tasks -> Results]
    /\ elapsed \in Durations
    /\ array = NoArray \/ array = ArrayOf(array.statuses, array.all, array.level)
    /\ array.published =>
        /\ array.statuses \in [Tasks -> Results]
        /\ array.all \in Durations
        /\ array.level \in {"OK", "ERROR"}

\* Two threads never update tasks through the same slot in one cycle: a task
\* that is being updated has one runner and no result yet.  This is what makes
\* the unlocked writes to results[index] and the unlocked tasks race-free.
OneUpdatePerTask ==
    \A r \in Runners : runner[r] = "updating" =>
        /\ results[claim[r]] = BlankResult
        /\ \A s \in Runners \ {r} :
            runner[s] = "updating" => claim[s] # claim[r]

\* The array that is published holds the result of every loaded task at the
\* place of that task, whichever thread updated it and whatever it threw.
EveryTaskReported ==
    array.published =>
        \A i \in Tasks :
            /\ array.statuses[i].written
            /\ array.statuses[i].task = i

\* The timing status says OK only of a cycle in which no task alone took longer
\* than the period, and the time reported for "all" covers every task's own.
TimingIsTruthful ==
    array.published =>
        \A i \in Tasks : array.statuses[i].written =>
            /\ array.statuses[i].duration <= array.all
            /\ array.level = "OK" => array.statuses[i].duration <= Period

\* Between two cycles no thread of the pool is left: nothing touches the tasks
\* or the destroyed locals of publish_diagnostics when the executor has gone on
\* to other callbacks (a cleanup of the tasks, for one).
NoWorkerOutlivesCycle ==
    pc \in {"idle", "terminated"} => \A r \in AllRunners : runner[r] = "none"

\* A cycle that has begun ends, if every task returns.
CycleEnds == pc = "spawn" \/ pc = "run" ~> pc = "idle" \/ pc = "terminated"

-----------------------------------------------------------------------------
(* Refinement of the abstract cycle.                                       *)

AnswerOf(result) == IF result.written THEN result.outcome ELSE "none"

AbstractStage ==
    IF pc = "idle" THEN "idle" ELSE IF pc = "terminated" THEN "aborted" ELSE "updating"

AbstractReport ==
    IF array.published
    THEN [published |-> TRUE,
          statuses |-> [i \in Tasks |-> AnswerOf(array.statuses[i])]]
    ELSE [published |-> FALSE]

Abstract == INSTANCE DiagnosticsCycle WITH
    stage <- AbstractStage,
    answer <- [i \in Tasks |-> AnswerOf(results[i])],
    report <- AbstractReport

\* Whatever the threads do, the cycle is an abstract cycle: each task is updated
\* once and the array is published in task order.
ImplementsDiagnosticsCycle == Abstract!Spec
=============================================================================
