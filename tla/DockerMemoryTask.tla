--------------------------- MODULE DockerMemoryTask ---------------------------
(***************************************************************************)
(* The background sampler of DockerMemoryTask: one caller at a time (a     *)
(* runner of the update cycle, or the executor thread that configures and  *)
(* cleans up) and one worker thread that talks to the Docker daemon.  The  *)
(* two share the latest sample under sample_mutex_, and sampler_ and       *)
(* sample_worker_ under no lock at all.                                    *)
(*                                                                         *)
(* What a sample says of the containers is abstracted to whether the       *)
(* sampler succeeded; a sample is known by the number of its run, and so   *)
(* is the duration that was measured for it.                               *)
(***************************************************************************)
EXTENDS Naturals

CONSTANTS
    Samplers,           \* the functions set_sampler may install
    MaxRuns,            \* bound: the samples one instance takes
    SpawnMayFail        \* may std::thread's constructor throw?

\* The sampler configure() installs: sample_docker.
sample_docker == "sample_docker"

ASSUME DockerMemoryTaskAssumption ==
    /\ sample_docker \notin Samplers
    /\ MaxRuns \in Nat
    /\ SpawnMayFail \in BOOLEAN

VARIABLES
    life,               \* what became of the instance
    background_,        \* the parameter of that name
    pc,                 \* where the caller is
    sampler_,           \* the function that takes a sample
    sample_mutex_,      \* who holds it
    sample_in_progress_,
    latest_sample_,
    latest_sample_duration_,
    sample_sequence_,
    worker,             \* the thread sample_worker_ stands for
    worker_sample,      \* the sample in the worker's hands
    runs,               \* how many samples this instance has begun
    status              \* what the last update() reported

shared == <<sample_in_progress_, latest_sample_, latest_sample_duration_, sample_sequence_>>
thread == <<worker, worker_sample, runs>>
vars == <<life, background_, pc, sampler_, sample_mutex_, shared, thread, status>>

-----------------------------------------------------------------------------

AnySampler == Samplers \cup {sample_docker}

NoSample == [run |-> 0]
Sample(run, success, by) == [run |-> run, success |-> success, by |-> by]
Samples == [run : 1 .. MaxRuns, success : BOOLEAN, by : AnySampler]

\* The key values and the sample that make up one status.
NoStatus == [kind |-> "none"]
InlineStatus(success) == [kind |-> "inline", success |-> success]
ExceptionStatus == [kind |-> "exception"]
BackgroundStatus(in_progress, sequence, duration, sample) ==
    [kind |-> "background", in_progress |-> in_progress, sequence |-> sequence,
     duration |-> duration, sample |-> sample]

\* The states of the worker thread: not joinable; before, in and after the call
\* of the sampler; writing the result under the lock, in two steps; past it; and
\* ended but not yet joined.
Working == {"started", "sampling", "sampled", "storing", "counting"}
WorkerStates == {"none", "returning", "exited"} \cup Working

\* Where update() can be, and where the other operations can.
UpdatePoints == {"inline", "check_lock", "check", "join", "recheck_lock", "recheck",
                 "spawn", "read_lock", "read"}
CleanupPoints == {"cleanup_join", "reset_lock", "reset"}
Points == {"idle", "set_join"} \cup UpdatePoints \cup CleanupPoints

\* There is no instance yet.
Init ==
    /\ life = "destroyed"
    /\ background_ = FALSE
    /\ pc = "idle"
    /\ sampler_ = sample_docker
    /\ sample_mutex_ = "free"
    /\ sample_in_progress_ = FALSE
    /\ latest_sample_ = NoSample
    /\ latest_sample_duration_ = 0
    /\ sample_sequence_ = 0
    /\ worker = "none"
    /\ worker_sample = NoSample
    /\ runs = 0
    /\ status = NoStatus

-----------------------------------------------------------------------------
(* std::lock_guard: the caller acquires, runs its block and releases.      *)

AfterLock == [check_lock |-> "check", recheck_lock |-> "recheck",
              read_lock |-> "read", reset_lock |-> "reset"]

\* Mutant: the caller reads and writes the sample without the lock.
LockIgnored == TRUE

LockIsFree == sample_mutex_ = "free"

CallerLocks ==
    /\ pc \in DOMAIN AfterLock
    /\ LockIsFree
    /\ sample_mutex_' = "caller"
    /\ pc' = AfterLock[pc]
    /\ UNCHANGED <<life, background_, sampler_, shared, thread, status>>

\* A joinable thread is waited for until it ends; otherwise join is skipped.
Join ==
    /\ worker \in {"none", "exited"}
    /\ worker' = "none"

\* Mutant: the worker is left running.
NotJoined == UNCHANGED worker

join_background_worker == Join

-----------------------------------------------------------------------------
(* update()                                                                *)

BeginUpdate ==
    /\ life = "configured"
    /\ pc = "idle"
    /\ runs < MaxRuns
    /\ pc' = IF background_ THEN "check_lock" ELSE "inline"
    /\ status' = NoStatus
    /\ UNCHANGED <<life, background_, sampler_, sample_mutex_, shared, thread>>

\* background: false.  The sampler runs in the caller's thread.
SampleInline ==
    /\ pc = "inline"
    /\ \E success \in BOOLEAN : status' = InlineStatus(success)
    /\ pc' = "idle"
    /\ UNCHANGED <<life, background_, sampler_, sample_mutex_, shared, thread>>

\* Mutant: the first check is gone, and update() joins a worker at work.
JoinInAnyCase == "join"

\* Mutant: the ended worker is not joined before a new one is started.
JoinSkipped == IF sample_in_progress_ THEN "read_lock" ELSE "recheck_lock"

\* A sample in progress is left alone; otherwise its ended worker is joined.
AfterCheck == IF sample_in_progress_ THEN "read_lock" ELSE "join"

Check ==
    /\ pc = "check"
    /\ pc' = AfterCheck
    /\ sample_mutex_' = "free"
    /\ UNCHANGED <<life, background_, sampler_, shared, thread, status>>

JoinEndedWorker ==
    /\ pc = "join"
    /\ Join
    /\ pc' = "recheck_lock"
    /\ UNCHANGED <<life, background_, sampler_, sample_mutex_, shared,
                   worker_sample, runs, status>>

Recheck ==
    /\ pc = "recheck"
    /\ IF sample_in_progress_
       THEN /\ pc' = "read_lock"
            /\ UNCHANGED sample_in_progress_
       ELSE /\ pc' = "spawn"
            /\ sample_in_progress_' = TRUE
    /\ sample_mutex_' = "free"
    /\ UNCHANGED <<life, background_, sampler_, latest_sample_, latest_sample_duration_,
                   sample_sequence_, thread, status>>

SpawnWorker ==
    /\ pc = "spawn"
    /\ worker' = "started"
    /\ runs' = runs + 1
    /\ pc' = "read_lock"
    /\ UNCHANGED <<life, background_, sampler_, sample_mutex_, shared,
                   worker_sample, status>>

\* std::thread's constructor throws out of update(): nothing is undone.  The
\* node's update_task turns the exception into an ERROR status.
SpawnFails ==
    /\ SpawnMayFail
    /\ pc = "spawn"
    /\ status' = ExceptionStatus
    /\ pc' = "idle"
    /\ UNCHANGED <<life, background_, sampler_, sample_mutex_, shared, thread>>

\* The latest sample is copied, or reported as pending if there is none yet.
ReadSample ==
    /\ pc = "read"
    /\ status' = BackgroundStatus(sample_in_progress_, sample_sequence_,
                                  latest_sample_duration_, latest_sample_)
    /\ pc' = "idle"
    /\ sample_mutex_' = "free"
    /\ UNCHANGED <<life, background_, sampler_, shared, thread>>

-----------------------------------------------------------------------------
(* The worker thread                                                       *)

\* The thread calls whatever sampler_ holds, without a lock.
WorkerStarts ==
    /\ worker = "started"
    /\ worker' = "sampling"
    /\ worker_sample' = Sample(runs, FALSE, sampler_)
    /\ UNCHANGED <<life, background_, pc, sampler_, sample_mutex_, shared, runs, status>>

\* The daemon has answered every request, or one failed.
SamplerReturns ==
    /\ worker = "sampling"
    /\ worker' = "sampled"
    /\ \E success \in BOOLEAN : worker_sample' = [worker_sample EXCEPT !.success = success]
    /\ UNCHANGED <<life, background_, pc, sampler_, sample_mutex_, shared, runs, status>>

WorkerLocks ==
    /\ worker = "sampled"
    /\ sample_mutex_ = "free"
    /\ worker' = "storing"
    /\ sample_mutex_' = "worker"
    /\ UNCHANGED <<life, background_, pc, sampler_, shared, worker_sample, runs, status>>

\* The sample, its time and its duration are stored ...
StoreSample ==
    /\ worker = "storing"
    /\ latest_sample_' = worker_sample
    /\ latest_sample_duration_' = worker_sample.run
    /\ worker' = "counting"
    /\ worker_sample' = NoSample
    /\ UNCHANGED <<life, background_, pc, sampler_, sample_mutex_, sample_in_progress_,
                   sample_sequence_, runs, status>>

\* Mutant: the flag that keeps further samples away is not cleared.
CountSampleOnly ==
    /\ worker = "counting"
    /\ sample_sequence_' = sample_sequence_ + 1
    /\ sample_mutex_' = "free"
    /\ worker' = "returning"
    /\ UNCHANGED <<life, background_, pc, sampler_, sample_in_progress_, latest_sample_,
                   latest_sample_duration_, worker_sample, runs, status>>

\* ... and then counted, and the way is free for the next one.
CountSample ==
    /\ worker = "counting"
    /\ sample_sequence_' = sample_sequence_ + 1
    /\ sample_in_progress_' = FALSE
    /\ sample_mutex_' = "free"
    /\ worker' = "returning"
    /\ UNCHANGED <<life, background_, pc, sampler_, latest_sample_,
                   latest_sample_duration_, worker_sample, runs, status>>

\* Mutant: the worker loops and samples again.
WorkerLoops ==
    /\ worker = "returning"
    /\ worker' = "started"
    /\ UNCHANGED <<life, background_, pc, sampler_, sample_mutex_, shared,
                   worker_sample, runs, status>>

WorkerExits ==
    /\ worker = "returning"
    /\ worker' = "exited"
    /\ UNCHANGED <<life, background_, pc, sampler_, sample_mutex_, shared,
                   worker_sample, runs, status>>

-----------------------------------------------------------------------------
(* set_sampler(), cleanup() and the rest of an instance's life             *)

BeginSetSampler ==
    /\ life = "configured"
    /\ pc = "idle"
    /\ pc' = "set_join"
    /\ UNCHANGED <<life, background_, sampler_, sample_mutex_, shared, thread, status>>

\* The worker is joined, and only then the function it calls replaced.
ReplaceSampler ==
    /\ pc = "set_join"
    /\ join_background_worker
    /\ \E s \in Samplers : sampler_' = s
    /\ pc' = "idle"
    /\ UNCHANGED <<life, background_, sample_mutex_, shared, worker_sample, runs, status>>

BeginCleanup ==
    /\ life = "configured"
    /\ pc = "idle"
    /\ pc' = "cleanup_join"
    /\ UNCHANGED <<life, background_, sampler_, sample_mutex_, shared, thread, status>>

\* Mutant: cleanup takes the lock before it joins the worker that needs it.
JoinUnderLock ==
    /\ pc = "cleanup_join"
    /\ \/ /\ sample_mutex_ = "free"
          /\ sample_mutex_' = "caller"
          /\ UNCHANGED <<pc, worker>>
       \/ /\ sample_mutex_ = "caller"
          /\ join_background_worker
          /\ pc' = "reset"
          /\ UNCHANGED sample_mutex_
    /\ UNCHANGED <<life, background_, sampler_, shared, worker_sample, runs, status>>

JoinForCleanup ==
    /\ pc = "cleanup_join"
    /\ join_background_worker
    /\ pc' = "reset_lock"
    /\ UNCHANGED <<life, background_, sampler_, sample_mutex_, shared,
                   worker_sample, runs, status>>

ResetSample ==
    /\ pc = "reset"
    /\ latest_sample_' = NoSample
    /\ latest_sample_duration_' = 0
    /\ sample_sequence_' = 0
    /\ sample_in_progress_' = FALSE
    /\ sample_mutex_' = "free"
    /\ pc' = "idle"
    /\ life' = "cleaned"
    /\ UNCHANGED <<background_, sampler_, thread, status>>

\* tasks_.clear() drops the last reference; there is no destructor.
Destroy ==
    /\ life = "cleaned"
    /\ pc = "idle"
    /\ life' = "destroyed"
    /\ UNCHANGED <<background_, pc, sampler_, sample_mutex_, shared, thread, status>>

\* on_configure creates an instance and configures it.
Configure ==
    /\ life = "destroyed"
    /\ life' = "configured"
    /\ background_' \in BOOLEAN
    /\ pc' = "idle"
    /\ sampler_' = sample_docker
    /\ sample_mutex_' = "free"
    /\ sample_in_progress_' = FALSE
    /\ latest_sample_' = NoSample
    /\ latest_sample_duration_' = 0
    /\ sample_sequence_' = 0
    /\ worker' = "none"
    /\ worker_sample' = NoSample
    /\ runs' = 0
    /\ status' = NoStatus

-----------------------------------------------------------------------------

UpdateStep ==
    \/ SampleInline \/ Check \/ JoinEndedWorker \/ Recheck
    \/ SpawnWorker \/ SpawnFails \/ ReadSample

WorkerStep == WorkerStarts \/ WorkerLocks \/ StoreSample \/ CountSample \/ WorkerExits

CallerStep == CallerLocks \/ UpdateStep \/ ReplaceSampler \/ JoinForCleanup \/ ResetSample

Next ==
    \/ BeginUpdate \/ BeginSetSampler \/ BeginCleanup
    \/ CallerStep
    \/ WorkerStep \/ SamplerReturns
    \/ Destroy \/ Configure

Spec == Init /\ [][Next]_vars

\* Both threads are scheduled, but the sampler (the Docker daemon, over a socket
\* without a timeout) may take forever.  The caller holds the lock for a moment
\* once a period, so that the worker does not miss its turn forever.
ThreadFairness ==
    /\ WF_vars(CallerLocks)
    /\ WF_vars(UpdateStep /\ pc # "inline")
    /\ WF_vars(ReplaceSampler \/ JoinForCleanup \/ ResetSample)
    /\ WF_vars(WorkerStep)
    /\ SF_vars(WorkerLocks)

FairSpec == Spec /\ ThreadFairness

\* Besides, every call of the sampler returns.
SamplerFairness == WF_vars(SampleInline) /\ WF_vars(SamplerReturns)

LiveSpec == FairSpec /\ SamplerFairness

-----------------------------------------------------------------------------
(* Properties                                                              *)

\* The type invariant.
TypeOK ==
    /\ life \in {"configured", "cleaned", "destroyed"}
    /\ background_ \in BOOLEAN
    /\ pc \in Points
    /\ sampler_ \in AnySampler
    /\ sample_mutex_ \in {"free", "caller", "worker"}
    /\ sample_in_progress_ \in BOOLEAN
    /\ latest_sample_ \in {NoSample} \cup Samples
    /\ latest_sample_duration_ \in 0 .. MaxRuns
    /\ sample_sequence_ \in 0 .. MaxRuns
    /\ worker \in WorkerStates
    /\ worker_sample \in {NoSample} \cup Samples
    /\ runs \in 0 .. MaxRuns
    /\ status.kind \in {"none", "inline", "exception", "background"}

\* sample_worker_ is assigned a new thread only when the old one has been joined:
\* assigning to a joinable std::thread ends the process.
SpawnFindsNoWorker == pc = "spawn" => worker = "none"

\* When update() joins, it joins a thread that has nothing left to do but return;
\* it never waits for the Docker daemon.
UpdateNeverWaitsForDocker == pc = "join" => worker \notin Working

\* A status never mixes two samples: the sequence number, the duration and the
\* sample that one update() reports belong together, and the sample is "pending"
\* exactly when none has been completed.
StatusIsConsistent ==
    status.kind = "background" =>
        /\ status.duration = status.sequence
        /\ status.sample.run = status.sequence

\* sampler_ is never replaced while a worker calls it, or is about to.
SamplerStaysInUse ==
    [][sampler_' # sampler_ => worker \notin {"started", "sampling"}]_vars

\* cleanup() leaves nothing behind: no thread that outlives the instance (there is
\* no destructor to join it), no sample, no flag.
ReleasedByCleanup ==
    life # "configured" =>
        /\ worker = "none"
        /\ sample_mutex_ = "free"
        /\ latest_sample_ = NoSample
        /\ sample_sequence_ = 0
        /\ ~sample_in_progress_

\* The flag says what its name and the status key "sample_in_progress" say: it is
\* up exactly while a worker is being started or is at work.  Not so when std::thread's
\* constructor throws.
InProgressMeansSampling ==
    sample_in_progress_ <=> pc = "spawn" \/ worker \in Working

\* A sample that a worker has begun is completed, if the daemon answers: the next
\* update() can take a new one.
SampleCompletes == worker = "started" ~> ~sample_in_progress_

-----------------------------------------------------------------------------
(* Refinement of the abstract sampler.  Under the lock, the sample counts  *)
(* as completed as soon as it is stored.                                   *)

AbstractSample(sample) ==
    IF sample = NoSample
    THEN [run |-> 0]
    ELSE [run |-> sample.run, result |-> <<sample.success, sample.by>>]

AbstractAnswer ==
    IF status.kind = "background"
    THEN [status EXCEPT !.sample = AbstractSample(@)]
    ELSE [kind |-> status.kind]

Abstract == INSTANCE LatestSample WITH
    Results <- BOOLEAN \X AnySampler,
    open <- life = "configured",
    sampling <- sample_in_progress_ /\ worker # "counting",
    latest <- AbstractSample(latest_sample_),
    answer <- AbstractAnswer

\* However caller and worker interleave, a sample is completed at one moment, and a
\* status is a snapshot: its sequence number, duration, sample and "in progress"
\* flag belong together, and the sample is the newest one completed.
ImplementsLatestSample == Abstract!Spec
=============================================================================
