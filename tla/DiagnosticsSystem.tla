-------------------------- MODULE DiagnosticsSystem --------------------------
(***************************************************************************)
(* The running process: the node, the update cycles that its timer starts, *)
(* and a Docker memory task among the tasks it loads.  Each of the three   *)
(* is a module of its own; this one says which thread takes their steps,   *)
(* and when.                                                               *)
(*                                                                         *)
(* main() spins a single-threaded executor: one callback at a time, a      *)
(* transition, a parameter service or a cycle of the timer, whose pool is  *)
(* joined before it returns.  Thread 0 is the executor's, threads 1, 2, .. *)
(* are the pool's; the Docker worker is a thread besides.  A transition of *)
(* the node that drops the Docker task goes on in the task's cleanup().    *)
(***************************************************************************)
EXTENDS SystemDiagnosticsNode

CONSTANTS
    Docker,             \* the namespace of the Docker memory task
    MaxRuns,            \* bound: the samples one instance of it takes
    SpawnMayFail        \* may std::thread's constructor throw?

ASSUME SystemAssumption ==
    /\ Docker \in Namespaces
    /\ MaxRuns \in Nat
    /\ SpawnMayFail \in BOOLEAN

VARIABLES
    executor,           \* "waiting", or in a "cleanup" of the Docker task
    inside,             \* history: the threads in a call of the Docker task
    \* UpdateCycle
    cycle_pc, spawned, next_index, runner, claim, task_start, results, elapsed, array,
    \* DockerMemoryTask
    life, background_, docker_pc, sampler_, sample_mutex_, sample_in_progress_,
    latest_sample_, latest_sample_duration_, sample_sequence_, worker, worker_sample,
    runs, status

cycle == <<cycle_pc, spawned, next_index, runner, claim, task_start, results, elapsed, array>>
docker == <<life, background_, docker_pc, sampler_, sample_mutex_, sample_in_progress_,
            latest_sample_, latest_sample_duration_, sample_sequence_, worker,
            worker_sample, runs, status>>
system == <<vars, executor, inside, cycle, docker>>

\* No clock: every step takes no time.
C == INSTANCE UpdateCycle WITH
    MaxTasks <- Cardinality(Namespaces), MaxThreads <- IntHalf - 1,
    Period <- 0, MaxElapsed <- 0,
    task_count <- Len(tasks_), pc <- cycle_pc

\* Nobody but a test calls set_sampler.
D == INSTANCE DockerMemoryTask WITH Samplers <- {}, pc <- docker_pc

Threads == 0 .. IntHalf - 1

SystemInit ==
    /\ Init
    /\ C!Init
    /\ D!Init
    /\ executor = "waiting"
    /\ inside = {}

-----------------------------------------------------------------------------

\* std::terminate has ended the process.
Dead == cycle_pc = "terminated"

ExecutorIsFree == executor = "waiting" /\ cycle_pc = "idle"

\* Thread t calls an operation of the Docker task, which begins with `step`.
Enter(t, step) ==
    /\ inside' = inside \cup {t}
    /\ IF inside = {} THEN step ELSE UNCHANGED docker

\* The Docker instance is configured when the node loads it, and cleaned up when
\* the node cleans up its tasks.
DockerFollows ==
    \/ /\ Docker \in configured' \ configured
       /\ D!Configure
       /\ UNCHANGED <<executor, inside>>
    \/ /\ Docker \in configured \ configured'
       /\ Enter(0, D!BeginCleanup)
       /\ executor' = "cleanup"
    \/ /\ Docker \in configured <=> Docker \in configured'
       /\ UNCHANGED <<docker, executor, inside>>

\* A callback of the node, but the timer's, or main() before and after spin().
Callback(step) ==
    /\ ExecutorIsFree
    /\ step
    /\ DockerFollows
    /\ UNCHANGED cycle

\* cleanup() has returned, tasks_ is cleared, and with it the transition ends.
FinishCleanup ==
    /\ executor = "cleanup"
    /\ D!Destroy
    /\ executor' = "waiting"
    /\ inside' = inside \ {0}
    /\ UNCHANGED <<vars, cycle>>

-----------------------------------------------------------------------------
(* publish_diagnostics                                                     *)

\* The timer fires (as long as the bound on samples allows another one).
TimerFires ==
    /\ ExecutorIsFree
    /\ timer_ = "armed"
    /\ runs < MaxRuns
    /\ UNCHANGED <<vars, executor, inside, docker>>
    /\ C!BeginCycle

CycleGoesOn ==
    /\ UNCHANGED <<vars, executor, inside, docker>>
    /\ C!SpawnWorker \/ C!SpawnFails \/ C!Publish

BeginUpdate(t) ==
    /\ UNCHANGED <<vars, executor>>
    /\ C!ClaimTask(t)
    /\ IF tasks_[next_index + 1] = Docker
       THEN Enter(t, D!BeginUpdate)
       ELSE UNCHANGED <<docker, inside>>

\* update() of the Docker task has returned, or thrown.
FinishUpdate(t) ==
    /\ UNCHANGED <<vars, executor, docker>>
    /\ C!FinishTask(t)
    /\ IF tasks_[claim[t] + 1] = Docker
       THEN /\ docker_pc = "idle"
            /\ results'[claim[t]].outcome = "threw" <=> status = D!ExceptionStatus
            /\ inside' = inside \ {t}
       ELSE UNCHANGED inside

\* There is no task left for this thread.
LeaveLoop(t) ==
    /\ UNCHANGED <<vars, executor, inside, docker>>
    /\ C!ExitRunner(t)

RunnerStep(t) == BeginUpdate(t) \/ FinishUpdate(t) \/ LeaveLoop(t)

-----------------------------------------------------------------------------
(* Inside the Docker task                                                  *)

DockerStep(step) ==
    /\ ~Dead
    /\ step
    /\ UNCHANGED <<vars, executor, inside, cycle>>

\* The thread that is in an operation of the Docker task takes its next step.
DockerCall(t) == t \in inside /\ DockerStep(D!CallerStep)

DockerWorker == DockerStep(D!WorkerStep)

-----------------------------------------------------------------------------

\* The process is gone for good.
Gone ==
    /\ Dead
    /\ UNCHANGED system

SystemNext ==
    \/ Callback(Next) \/ FinishCleanup
    \/ TimerFires \/ CycleGoesOn
    \/ \E t \in C!Runners : RunnerStep(t)
    \/ \E t \in Threads : DockerCall(t)
    \/ DockerWorker \/ DockerStep(D!SamplerReturns)
    \/ Gone

\* The operating system runs every thread.  The executor carries on with what it
\* has begun, and so does a thread of the pool; every other task's update returns.
\* Nothing is said of the sampler: the Docker daemon may never answer.
ThreadStep(t) ==
    \/ t \in C!Runners /\ RunnerStep(t)
    \/ DockerCall(t) /\ docker_pc # "inline"
    \/ t = 0 /\ (Callback(TransitionStep \/ MainStep) \/ FinishCleanup \/ CycleGoesOn)

SystemFairness ==
    /\ \A t \in Threads : WF_system(ThreadStep(t))
    /\ WF_system(DockerWorker)
    /\ SF_system(DockerStep(D!WorkerLocks))

SystemSpec == SystemInit /\ [][SystemNext]_system /\ SystemFairness

\* Besides, the daemon answers every request, or closes the connection.
DaemonAnswers ==
    /\ WF_system(DockerStep(D!SampleInline))
    /\ WF_system(DockerStep(D!SamplerReturns))

-----------------------------------------------------------------------------
(* Properties                                                              *)

\* The Docker task is called by one thread at a time, and only between configure()
\* and the end of cleanup(): no thread of a pool is in update() while another one is,
\* or while a transition cleans the task up.  DockerMemoryTask, whose sampler_ and
\* sample_worker_ have no lock, is written (and modelled) for one such caller.
OneCallerAtATime ==
    /\ Cardinality(inside) <= 1
    /\ inside # {} => life \in {"configured", "cleaned"}

\* What the cycles of the running node promise: those of UpdateCycle's abstraction,
\* with the tasks that are loaded at the time.
Promise == INSTANCE DiagnosticsCycle WITH
    MaxTasks <- Cardinality(Namespaces),
    task_count <- Len(tasks_),
    stage <- C!AbstractStage,
    answer <- [i \in C!Tasks |-> C!AnswerOf(results[i])],
    report <- C!AbstractReport

\* From the timer's tick to the publication every step is one of the abstract cycle:
\* each task loaded when the timer fires, whatever cycles and transitions came before,
\* answers once, none of another cycle or configuration, and the array that is
\* published has just these answers in the order of the tasks.
CyclesKeepTheirPromise ==
    [][cycle_pc # "idle" \/ cycle_pc' # "idle" => [Promise!Next]_(Promise!vars)]_system

\* When the node has been destroyed, nothing of it runs: no pool, and no Docker
\* worker that would use the destroyed task.
NothingRunsAfterExit ==
    main_pc = "done" /\ ExecutorIsFree =>
        /\ worker = "none"
        /\ \A t \in Threads : runner[t] = "none"

\* With background sampling a hanging Docker daemon never holds up a cycle, be it
\* the first one or one after any sequence of transitions.
CyclesReturn ==
    background_ /\ cycle_pc \in {"spawn", "run"} ~> cycle_pc \in {"idle", "terminated"}

\* If the daemon answers, every callback of the executor returns: a cycle that
\* samples inline, and a cleanup, shutdown or destruction that has to wait for a
\* sample in progress.
CallbacksReturn ==
    DaemonAnswers => (~ExecutorIsFree ~> ExecutorIsFree \/ Dead)
=============================================================================
