------------------------ MODULE DockerMemoryTaskProofs ------------------------
(***************************************************************************)
(* Proofs about DockerMemoryTask, for every set of samplers, every bound   *)
(* on the runs, and whether or not starting a thread may fail.             *)
(***************************************************************************)
EXTENDS DockerMemoryTask, TLAPS

-----------------------------------------------------------------------------
(* The inductive invariant                                                 *)

\* Who holds the lock is known from where the two threads are.
Locking ==
    /\ sample_mutex_ = "caller" <=> pc \in {"check", "recheck", "read", "reset"}
    /\ sample_mutex_ = "worker" <=> worker \in {"storing", "counting"}

\* The flag is up while a worker is at work, and down from the moment update() has
\* seen it down until update() itself raises it: only the caller ever does.
Flag ==
    /\ worker \in Working \/ pc = "spawn" => sample_in_progress_
    /\ pc \in {"join", "recheck_lock", "recheck"} => ~sample_in_progress_
    /\ pc \in {"recheck_lock", "recheck", "spawn", "reset_lock", "reset"} => worker = "none"

\* Without failures of std::thread the flag is up at no other time.
FlagMeansSampling ==
    ~SpawnMayFail /\ sample_in_progress_ => pc = "spawn" \/ worker \in Working

\* The runs are those that were completed and the one in progress; the sample and
\* its duration are stored together, one step before they are counted.
Counting ==
    /\ life = "configured" =>
        runs = IF worker \in Working THEN sample_sequence_ + 1 ELSE sample_sequence_
    /\ worker \in {"sampling", "sampled", "storing"} => worker_sample.run = runs
    /\ latest_sample_.run = IF worker = "counting" THEN runs ELSE sample_sequence_
    /\ latest_sample_duration_ = latest_sample_.run
    /\ pc \in {"check_lock", "check", "join", "recheck_lock", "recheck", "spawn"} =>
        runs < MaxRuns

\* The life of an instance: nothing is called, or left over, after cleanup().
Life ==
    /\ pc # "idle" => life = "configured"
    /\ ReleasedByCleanup

IInv ==
    /\ TypeOK
    /\ Locking
    /\ Flag
    /\ FlagMeansSampling
    /\ Counting
    /\ Life
    /\ StatusIsConsistent

\* A worker at work takes the latest of the runs.
LEMMA WorkingRun ==
    ASSUME DockerMemoryTaskAssumption, IInv, worker \in Working
    PROVE  /\ life = "configured"
           /\ runs \in 1 .. MaxRuns
           /\ sample_sequence_ + 1 = runs
  <1>1. life = "configured"
    BY DEF IInv, Life, ReleasedByCleanup, Working
  <1>2. QED
    BY <1>1 DEF IInv, Counting, TypeOK, DockerMemoryTaskAssumption

-----------------------------------------------------------------------------
(* The invariant holds initially and is preserved                          *)

LEMMA InitInvariant == DockerMemoryTaskAssumption /\ Init => IInv
  <1> SUFFICES ASSUME DockerMemoryTaskAssumption, Init PROVE IInv
    OBVIOUS
  <1>1. TypeOK
    <2>1. sample_in_progress_ \in BOOLEAN /\ background_ \in BOOLEAN
      BY DEF Init
    <2>2. QED
      BY <2>1 DEF Init, TypeOK, DockerMemoryTaskAssumption, Points, AnySampler, WorkerStates, NoStatus
  <1>2. Locking /\ Flag /\ FlagMeansSampling
    BY DEF Init, Locking, Flag, FlagMeansSampling, Working
  <1>3. Counting /\ Life /\ StatusIsConsistent
    BY DEF Init, Counting, Life, StatusIsConsistent, ReleasedByCleanup, Working, NoSample, NoStatus
  <1>4. QED
    BY <1>1, <1>2, <1>3 DEF IInv

LEMMA NextInvariant == DockerMemoryTaskAssumption /\ IInv /\ [Next]_vars => IInv'
  <1> SUFFICES ASSUME DockerMemoryTaskAssumption, IInv, [Next]_vars PROVE IInv'
    OBVIOUS
  <1> USE DEF IInv
  <1>1. CASE BeginUpdate
    <2> USE <1>1 DEF BeginUpdate, shared, thread
    <2>1. TypeOK'
      BY DEF TypeOK, Points, UpdatePoints, NoStatus
    <2>2. Locking' /\ Flag' /\ FlagMeansSampling'
      BY DEF Locking, Flag, FlagMeansSampling
    <2>3. Counting'
      BY DEF Counting
    <2>4. Life' /\ StatusIsConsistent'
      BY DEF Life, StatusIsConsistent, ReleasedByCleanup, NoStatus
    <2>5. QED
      BY <2>1, <2>2, <2>3, <2>4
  <1>2. CASE SampleInline
    <2> USE <1>2 DEF SampleInline, shared, thread, InlineStatus
    <2>1. TypeOK'
      BY DEF TypeOK, Points
    <2>2. Locking' /\ Flag' /\ FlagMeansSampling'
      BY DEF Locking, Flag, FlagMeansSampling
    <2>3. Counting'
      BY DEF Counting
    <2>4. Life' /\ StatusIsConsistent'
      BY DEF Life, StatusIsConsistent, ReleasedByCleanup
    <2>5. QED
      BY <2>1, <2>2, <2>3, <2>4
  <1>3. CASE CallerLocks
    <2> USE <1>3 DEF CallerLocks, shared, thread, AfterLock, LockIsFree
    <2>1. TypeOK'
      BY DEF TypeOK, Points, UpdatePoints, CleanupPoints
    <2>2. Locking' /\ Flag' /\ FlagMeansSampling'
      BY DEF Locking, Flag, FlagMeansSampling
    <2>3. Counting'
      BY DEF Counting
    <2>4. Life' /\ StatusIsConsistent'
      BY DEF Life, StatusIsConsistent, ReleasedByCleanup
    <2>5. QED
      BY <2>1, <2>2, <2>3, <2>4
  <1>4. CASE Check
    <2> USE <1>4 DEF Check, shared, thread, AfterCheck
    <2>1. TypeOK'
      BY DEF TypeOK, Points, UpdatePoints
    <2>2. Locking' /\ Flag' /\ FlagMeansSampling'
      BY DEF Locking, Flag, FlagMeansSampling
    <2>3. Counting'
      BY DEF Counting
    <2>4. Life' /\ StatusIsConsistent'
      BY DEF Life, StatusIsConsistent, ReleasedByCleanup
    <2>5. QED
      BY <2>1, <2>2, <2>3, <2>4
  <1>5. CASE JoinEndedWorker
    <2> USE <1>5 DEF JoinEndedWorker, shared, thread, Join
    <2>1. TypeOK'
      BY DEF TypeOK, Points, UpdatePoints, WorkerStates
    <2>2. Locking' /\ Flag' /\ FlagMeansSampling'
      BY DEF Locking, Flag, FlagMeansSampling, Working
    <2>3. Counting'
      BY DEF Counting, Working
    <2>4. Life' /\ StatusIsConsistent'
      BY DEF Life, StatusIsConsistent, ReleasedByCleanup
    <2>5. QED
      BY <2>1, <2>2, <2>3, <2>4
  <1>6. CASE Recheck
    <2> USE <1>6 DEF Recheck, shared, thread
    <2>1. TypeOK'
      <3>1. sample_in_progress_' \in BOOLEAN
        OBVIOUS
      <3>2. QED
        BY <3>1 DEF TypeOK, Points, UpdatePoints
    <2>2. Locking' /\ Flag' /\ FlagMeansSampling'
      BY DEF Locking, Flag, FlagMeansSampling
    <2>3. Counting'
      BY DEF Counting
    <2>4. Life' /\ StatusIsConsistent'
      BY DEF Life, StatusIsConsistent, ReleasedByCleanup
    <2>5. QED
      BY <2>1, <2>2, <2>3, <2>4
  <1>7. CASE SpawnWorker
    <2> USE <1>7 DEF SpawnWorker, shared, thread
    <2>1. TypeOK'
      BY DEF TypeOK, Counting, Points, UpdatePoints, WorkerStates, Working
    <2>2. Locking' /\ Flag' /\ FlagMeansSampling'
      BY DEF Locking, Flag, FlagMeansSampling, Working
    <2>3. Counting'
      BY DEF Flag, Counting, Working
    <2>4. Life' /\ StatusIsConsistent'
      BY DEF Life, StatusIsConsistent, ReleasedByCleanup
    <2>5. QED
      BY <2>1, <2>2, <2>3, <2>4
  <1>8. CASE SpawnFails
    <2> USE <1>8 DEF SpawnFails, shared, thread, ExceptionStatus
    <2>1. TypeOK'
      BY DEF TypeOK, Points
    <2>2. Locking' /\ Flag' /\ FlagMeansSampling'
      BY DEF Locking, Flag, FlagMeansSampling
    <2>3. Counting'
      BY DEF Counting
    <2>4. Life' /\ StatusIsConsistent'
      BY DEF Life, StatusIsConsistent, ReleasedByCleanup
    <2>5. QED
      BY <2>1, <2>2, <2>3, <2>4
  <1>9. CASE ReadSample
    <2> USE <1>9 DEF ReadSample, shared, thread, BackgroundStatus
    <2>1. TypeOK'
      BY DEF TypeOK, Points
    <2>2. Locking' /\ Flag' /\ FlagMeansSampling'
      BY DEF Locking, Flag, FlagMeansSampling
    <2>3. Counting'
      BY DEF Counting
    <2>4. Life' /\ StatusIsConsistent'
      BY DEF Life, StatusIsConsistent, ReleasedByCleanup, Locking, Counting
    <2>5. QED
      BY <2>1, <2>2, <2>3, <2>4
  <1>10. CASE WorkerStarts
    <2> USE <1>10 DEF WorkerStarts, shared, thread, Sample
    <2>0. runs \in 1 .. MaxRuns /\ sample_sequence_ + 1 = runs /\ life = "configured"
      BY WorkingRun DEF Working
    <2>1. TypeOK'
      BY <2>0 DEF TypeOK, Samples, WorkerStates, Working
    <2>2. Locking' /\ Flag' /\ FlagMeansSampling'
      BY DEF Locking, Flag, FlagMeansSampling, Working
    <2>3. Counting'
      BY <2>0 DEF Counting, Working
    <2>4. Life' /\ StatusIsConsistent'
      BY DEF Life, StatusIsConsistent, ReleasedByCleanup
    <2>5. QED
      BY <2>1, <2>2, <2>3, <2>4
  <1>11. CASE SamplerReturns
    <2> USE <1>11 DEF SamplerReturns, shared, thread
    <2>1. TypeOK'
      BY DEF TypeOK, Samples, NoSample, WorkerStates, Working
    <2>2. Locking' /\ Flag' /\ FlagMeansSampling'
      BY DEF Locking, Flag, FlagMeansSampling, Working
    <2>3. Counting'
      BY DEF Counting, Working
    <2>4. Life' /\ StatusIsConsistent'
      BY DEF Life, StatusIsConsistent, ReleasedByCleanup
    <2>5. QED
      BY <2>1, <2>2, <2>3, <2>4
  <1>12. CASE WorkerLocks
    <2> USE <1>12 DEF WorkerLocks, shared, thread
    <2>1. TypeOK'
      BY DEF TypeOK, WorkerStates, Working
    <2>2. Locking' /\ Flag' /\ FlagMeansSampling'
      BY DEF Locking, Flag, FlagMeansSampling, Working
    <2>3. Counting'
      BY DEF Counting, Working
    <2>4. Life' /\ StatusIsConsistent'
      BY DEF Life, StatusIsConsistent, ReleasedByCleanup
    <2>5. QED
      BY <2>1, <2>2, <2>3, <2>4
  <1>13. CASE StoreSample
    <2> USE <1>13 DEF StoreSample, shared, thread
    <2>1. TypeOK'
      BY DEF TypeOK, Counting, WorkerStates, Working
    <2>2. Locking' /\ Flag' /\ FlagMeansSampling'
      BY DEF Locking, Flag, FlagMeansSampling, Working
    <2>3. Counting'
      BY DEF Counting, Working
    <2>4. Life' /\ StatusIsConsistent'
      BY DEF Life, StatusIsConsistent, ReleasedByCleanup
    <2>5. QED
      BY <2>1, <2>2, <2>3, <2>4
  <1>14. CASE CountSample
    <2> USE <1>14 DEF CountSample, shared, thread
    <2>0. runs \in 1 .. MaxRuns /\ sample_sequence_ + 1 = runs /\ life = "configured"
      BY WorkingRun DEF Working
    <2>1. TypeOK'
      <3>1. sample_in_progress_' \in BOOLEAN
        OBVIOUS
      <3>2. QED
        BY <2>0, <3>1 DEF TypeOK, WorkerStates
    <2>2. Locking' /\ Flag' /\ FlagMeansSampling'
      BY DEF Locking, Flag, FlagMeansSampling, Working
    <2>3. Counting'
      BY <2>0 DEF Counting, Working
    <2>4. Life' /\ StatusIsConsistent'
      BY DEF Life, StatusIsConsistent, ReleasedByCleanup
    <2>5. QED
      BY <2>1, <2>2, <2>3, <2>4
  <1>15. CASE WorkerExits
    <2> USE <1>15 DEF WorkerExits, shared, thread
    <2>1. TypeOK'
      BY DEF TypeOK, WorkerStates
    <2>2. Locking' /\ Flag' /\ FlagMeansSampling'
      BY DEF Locking, Flag, FlagMeansSampling, Working
    <2>3. Counting'
      BY DEF Counting, Working
    <2>4. Life' /\ StatusIsConsistent'
      BY DEF Life, StatusIsConsistent, ReleasedByCleanup
    <2>5. QED
      BY <2>1, <2>2, <2>3, <2>4
  <1>16. CASE BeginSetSampler
    <2> USE <1>16 DEF BeginSetSampler, shared, thread
    <2>1. TypeOK'
      BY DEF TypeOK, Points
    <2>2. Locking' /\ Flag' /\ FlagMeansSampling'
      BY DEF Locking, Flag, FlagMeansSampling
    <2>3. Counting'
      BY DEF Counting
    <2>4. Life' /\ StatusIsConsistent'
      BY DEF Life, StatusIsConsistent, ReleasedByCleanup
    <2>5. QED
      BY <2>1, <2>2, <2>3, <2>4
  <1>17. CASE ReplaceSampler
    <2> USE <1>17 DEF ReplaceSampler, shared, thread, join_background_worker, Join
    <2>1. TypeOK'
      BY DEF TypeOK, Points, AnySampler, WorkerStates
    <2>2. Locking' /\ Flag' /\ FlagMeansSampling'
      BY DEF Locking, Flag, FlagMeansSampling, Working
    <2>3. Counting'
      BY DEF Counting, Working
    <2>4. Life' /\ StatusIsConsistent'
      BY DEF Life, StatusIsConsistent, ReleasedByCleanup
    <2>5. QED
      BY <2>1, <2>2, <2>3, <2>4
  <1>18. CASE BeginCleanup
    <2> USE <1>18 DEF BeginCleanup, shared, thread
    <2>1. TypeOK'
      BY DEF TypeOK, Points, CleanupPoints
    <2>2. Locking' /\ Flag' /\ FlagMeansSampling'
      BY DEF Locking, Flag, FlagMeansSampling
    <2>3. Counting'
      BY DEF Counting
    <2>4. Life' /\ StatusIsConsistent'
      BY DEF Life, StatusIsConsistent, ReleasedByCleanup
    <2>5. QED
      BY <2>1, <2>2, <2>3, <2>4
  <1>19. CASE JoinForCleanup
    <2> USE <1>19 DEF JoinForCleanup, shared, thread, join_background_worker, Join
    <2>1. TypeOK'
      BY DEF TypeOK, Points, CleanupPoints, WorkerStates
    <2>2. Locking' /\ Flag' /\ FlagMeansSampling'
      BY DEF Locking, Flag, FlagMeansSampling, Working
    <2>3. Counting'
      BY DEF Counting, Working
    <2>4. Life' /\ StatusIsConsistent'
      BY DEF Life, StatusIsConsistent, ReleasedByCleanup
    <2>5. QED
      BY <2>1, <2>2, <2>3, <2>4
  <1>20. CASE ResetSample
    <2> USE <1>20 DEF ResetSample, shared, thread
    <2>1. TypeOK'
      <3>1. sample_in_progress_' \in BOOLEAN
        OBVIOUS
      <3>2. QED
        BY <3>1 DEF TypeOK, Points
    <2>2. Locking' /\ Flag' /\ FlagMeansSampling'
      BY DEF Locking, Flag, FlagMeansSampling, Working
    <2>3. Counting'
      BY DEF Flag, Counting, NoSample
    <2>4. Life' /\ StatusIsConsistent'
      BY DEF Life, StatusIsConsistent, ReleasedByCleanup, Flag
    <2>5. QED
      BY <2>1, <2>2, <2>3, <2>4
  <1>21. CASE Destroy
    <2> USE <1>21 DEF Destroy, shared, thread
    <2>1. TypeOK'
      BY DEF TypeOK
    <2>2. Locking' /\ Flag' /\ FlagMeansSampling'
      BY DEF Locking, Flag, FlagMeansSampling
    <2>3. Counting'
      BY DEF Counting
    <2>4. Life' /\ StatusIsConsistent'
      BY DEF Life, StatusIsConsistent, ReleasedByCleanup
    <2>5. QED
      BY <2>1, <2>2, <2>3, <2>4
  <1>22. CASE Configure
    <2> USE <1>22 DEF Configure, shared, thread
    <2>1. TypeOK'
      <3>1. sample_in_progress_' \in BOOLEAN
        OBVIOUS
      <3>2. QED
        BY <3>1 DEF TypeOK, Points, AnySampler, WorkerStates, NoStatus
    <2>2. Locking' /\ Flag' /\ FlagMeansSampling'
      BY DEF Locking, Flag, FlagMeansSampling, Life, ReleasedByCleanup
    <2>3. Counting'
      BY DEF Counting, Working, NoSample
    <2>4. Life' /\ StatusIsConsistent'
      BY DEF Life, StatusIsConsistent, ReleasedByCleanup, NoStatus
    <2>5. QED
      BY <2>1, <2>2, <2>3, <2>4
  <1>23. CASE UNCHANGED vars
    BY <1>23 DEF vars, shared, thread, TypeOK, Locking, Flag, FlagMeansSampling, Counting, Life, StatusIsConsistent, ReleasedByCleanup
  <1>24. QED
    BY <1>1, <1>2, <1>3, <1>4, <1>5, <1>6, <1>7, <1>8, <1>9, <1>10, <1>11, <1>12, <1>13, <1>14, <1>15, <1>16, <1>17, <1>18, <1>19, <1>20, <1>21, <1>22, <1>23
    DEF Next, CallerStep, UpdateStep, WorkerStep

LEMMA Invariance == Spec => []IInv
  <1>1. Init => IInv
    BY InitInvariant, DockerMemoryTaskAssumption
  <1>2. IInv /\ [Next]_vars => IInv'
    BY NextInvariant, DockerMemoryTaskAssumption
  <1>3. QED
    BY <1>1, <1>2, PTL DEF Spec

-----------------------------------------------------------------------------
(* The theorems                                                            *)

\* The variables keep their types.
THEOREM TypeCorrect == Spec => []TypeOK
  BY Invariance, PTL DEF IInv

\* sample_worker_ is never assigned while it is joinable (std::thread would end the
\* process), even after a thread could not be started.
THEOREM SafeSpawn == Spec => []SpawnFindsNoWorker
  <1>1. IInv => SpawnFindsNoWorker
    BY DEF IInv, Flag, SpawnFindsNoWorker
  <1>2. QED
    BY <1>1, Invariance, PTL

\* update() never joins a thread that still has to hear from the Docker daemon.
THEOREM NonBlockingUpdate == Spec => []UpdateNeverWaitsForDocker
  <1>1. IInv => UpdateNeverWaitsForDocker
    BY DEF IInv, Flag, UpdateNeverWaitsForDocker
  <1>2. QED
    BY <1>1, Invariance, PTL

\* The values of one status belong to one sample.
THEOREM ConsistentStatus == Spec => []StatusIsConsistent
  BY Invariance, PTL DEF IInv

\* cleanup() releases the thread and the sample, whatever it interrupts.
THEOREM CleanupReleases == Spec => []ReleasedByCleanup
  <1>1. IInv => ReleasedByCleanup
    BY DEF IInv, Life
  <1>2. QED
    BY <1>1, Invariance, PTL

\* sampler_ is only replaced when no thread uses it.
THEOREM SamplerNotReplacedInUse == Spec => SamplerStaysInUse
  <1>1. ASSUME IInv, [Next]_vars, sampler_' # sampler_
        PROVE  worker \notin {"started", "sampling"}
    <2>1. CASE ReplaceSampler
      BY <2>1 DEF ReplaceSampler, join_background_worker, Join
    <2>2. CASE Configure
      BY <1>1, <2>2 DEF Configure, IInv, Life, ReleasedByCleanup
    <2>3. ASSUME UpdateStep \/ WorkerStep \/ SamplerReturns
          PROVE  UNCHANGED sampler_
      BY <2>3 DEF UpdateStep, SampleInline, Check, JoinEndedWorker, Recheck, SpawnWorker,
          SpawnFails, ReadSample, WorkerStep, WorkerStarts, WorkerLocks, StoreSample,
          CountSample, WorkerExits, SamplerReturns
    <2>4. ASSUME CallerLocks \/ BeginUpdate \/ BeginSetSampler \/ BeginCleanup
          PROVE  UNCHANGED sampler_
      BY <2>4 DEF CallerLocks, BeginUpdate, BeginSetSampler, BeginCleanup
    <2>5. ASSUME JoinForCleanup \/ ResetSample \/ Destroy \/ UNCHANGED vars
          PROVE  UNCHANGED sampler_
      BY <2>5 DEF JoinForCleanup, ResetSample, Destroy, vars
    <2>6. QED
      BY <1>1, <2>1, <2>2, <2>3, <2>4, <2>5 DEF Next, CallerStep
  <1>2. IInv /\ [Next]_vars =>
          [sampler_' # sampler_ => worker \notin {"started", "sampling"}]_vars
    BY <1>1
  <1>3. QED
    BY <1>2, Invariance, PTL DEF Spec, SamplerStaysInUse

\* If threads can be started, the flag is up exactly while a sample is taken: the
\* sampler is never locked out.
THEOREM FlagIsTruthful == ~SpawnMayFail => (Spec => []InProgressMeansSampling)
  <1> SUFFICES ASSUME ~SpawnMayFail PROVE Spec => []InProgressMeansSampling
    OBVIOUS
  <1>1. IInv => InProgressMeansSampling
    BY DEF IInv, Flag, FlagMeansSampling, InProgressMeansSampling
  <1>2. QED
    BY <1>1, Invariance, PTL

\* The second check of the flag, after the join, never finds it up: update() is the
\* only one to raise it.
THEOREM RecheckNeverTaken == Spec => [](pc = "recheck" => ~sample_in_progress_)
  <1>1. IInv => (pc = "recheck" => ~sample_in_progress_)
    BY DEF IInv, Flag
  <1>2. QED
    BY <1>1, Invariance, PTL

-----------------------------------------------------------------------------
(* Refinement                                                              *)

AbstractSampling == sample_in_progress_ /\ worker # "counting"

\* A step that leaves these alone is a stutter of the abstract sampler.
LEMMA AbstractStutter ==
    ASSUME (life' = "configured") <=> (life = "configured"),
           AbstractSampling' <=> AbstractSampling,
           UNCHANGED <<latest_sample_, status>>
    PROVE  UNCHANGED Abstract!vars
  <1>1. AbstractAnswer' = AbstractAnswer
    BY DEF AbstractAnswer, AbstractSample
  <1>2. AbstractSample(latest_sample_)' = AbstractSample(latest_sample_)
    BY DEF AbstractSample
  <1>3. (life = "configured")' = (life = "configured")
    OBVIOUS
  <1>4. (sample_in_progress_ /\ worker # "counting")' = (sample_in_progress_ /\ worker # "counting")
    BY DEF AbstractSampling
  <1>5. QED
    BY <1>1, <1>2, <1>3, <1>4 DEF Abstract!vars

\* The number of a sample is kept by the refinement mapping.
LEMMA AbstractRun ==
    ASSUME NEW sample PROVE AbstractSample(sample).run = sample.run
  BY DEF AbstractSample, NoSample

LEMMA AbstractInit == Init => Abstract!Init
  <1> SUFFICES ASSUME Init PROVE Abstract!Init
    OBVIOUS
  <1>1. AbstractAnswer = [kind |-> "none"]
    BY DEF Init, AbstractAnswer, NoStatus
  <1>2. AbstractSample(latest_sample_) = [run |-> 0]
    BY DEF Init, AbstractSample
  <1>3. QED
    BY <1>1, <1>2 DEF Init, Abstract!Init, Abstract!NoAnswer, Abstract!Nothing

LEMMA AbstractOpen == IInv /\ Configure => Abstract!Open
  <1> SUFFICES ASSUME IInv, Configure PROVE Abstract!Open
    OBVIOUS
  <1>1. AbstractAnswer' = [kind |-> "none"]
    BY DEF Configure, AbstractAnswer, NoStatus
  <1>2. latest_sample_ = NoSample /\ ~sample_in_progress_
    BY DEF Configure, IInv, Life, ReleasedByCleanup
  <1>3. AbstractSample(latest_sample_)' = AbstractSample(latest_sample_)
    BY <1>2 DEF Configure, AbstractSample
  <1>4. (sample_in_progress_ /\ worker # "counting")' = (sample_in_progress_ /\ worker # "counting")
    BY <1>2 DEF Configure
  <1>5. life # "configured" /\ life' = "configured"
    BY DEF Configure
  <1>6. QED
    BY <1>1, <1>3, <1>4, <1>5 DEF Abstract!Open, Abstract!NoAnswer

LEMMA AbstractAsk == BeginUpdate => Abstract!Ask
  <1> SUFFICES ASSUME BeginUpdate PROVE Abstract!Ask
    OBVIOUS
  <1>1. AbstractAnswer' = [kind |-> "none"]
    BY DEF BeginUpdate, AbstractAnswer, NoStatus
  <1>2. AbstractSample(latest_sample_)' = AbstractSample(latest_sample_)
    BY DEF BeginUpdate, shared, AbstractSample
  <1>3. QED
    BY <1>1, <1>2 DEF BeginUpdate, shared, thread, Abstract!Ask, Abstract!NoAnswer

\* Only the flag is raised; no worker is between storing and counting, because the
\* caller has joined it.
LEMMA AbstractBegin ==
    ASSUME IInv, Recheck
    PROVE  Abstract!Begin
  <1>1. life = "configured" /\ worker = "none" /\ ~sample_in_progress_
    BY DEF Recheck, IInv, Life, Flag
  <1>2. sample_in_progress_' = TRUE
    BY <1>1 DEF Recheck
  <1>3. UNCHANGED <<life, latest_sample_, status, worker>>
    BY DEF Recheck, thread
  <1>4. AbstractAnswer' = AbstractAnswer
    BY <1>3 DEF AbstractAnswer, AbstractSample
  <1>5. AbstractSample(latest_sample_)' = AbstractSample(latest_sample_)
    BY <1>3 DEF AbstractSample
  <1>6. QED
    BY <1>1, <1>2, <1>3, <1>4, <1>5 DEF Abstract!Begin

\* An inline sample and an exception leave the background samples alone.
LEMMA AbstractOtherAnswer ==
    ASSUME IInv, SampleInline \/ SpawnFails
    PROVE  Abstract!Answer
  <1>1. life = "configured"
    BY DEF SampleInline, SpawnFails, IInv, Life
  <1>2. UNCHANGED <<life, shared, thread>>
    BY DEF SampleInline, SpawnFails
  <1>3. \E kind \in {"inline", "exception"} : AbstractAnswer' = [kind |-> kind]
    BY DEF SampleInline, SpawnFails, InlineStatus, ExceptionStatus, AbstractAnswer
  <1>4. AbstractSample(latest_sample_)' = AbstractSample(latest_sample_)
    BY <1>2 DEF shared, AbstractSample
  <1>5. AbstractAnswer' \in Abstract!OtherAnswers
    BY <1>3 DEF Abstract!OtherAnswers
  <1>6. QED
    BY <1>1, <1>2, <1>4, <1>5 DEF shared, thread, Abstract!Answer

\* The caller holds the lock: nothing is stored that is not counted.
LEMMA AbstractAnswered ==
    ASSUME IInv, ReadSample
    PROVE  Abstract!Answer
  <1>1. life = "configured" /\ worker # "counting"
    BY DEF ReadSample, IInv, Life, Locking
  <1>2. UNCHANGED <<life, shared, thread>>
    BY DEF ReadSample
  <1>3. latest_sample_.run = sample_sequence_ /\ latest_sample_duration_ = sample_sequence_
    BY <1>1 DEF IInv, Counting
  <1>4. AbstractSample(latest_sample_)' = AbstractSample(latest_sample_)
    BY <1>2 DEF shared, AbstractSample
  <1>5. AbstractAnswer' =
          [kind |-> "background", in_progress |-> sample_in_progress_,
           sequence |-> sample_sequence_, duration |-> latest_sample_duration_,
           sample |-> AbstractSample(latest_sample_)]
    <2>1. status' = [kind |-> "background", in_progress |-> sample_in_progress_,
                     sequence |-> sample_sequence_, duration |-> latest_sample_duration_,
                     sample |-> latest_sample_]
      BY DEF ReadSample, BackgroundStatus
    <2>2. AbstractAnswer' = [status' EXCEPT !.sample = AbstractSample(status'.sample)]
      BY <2>1 DEF AbstractAnswer, AbstractSample
    <2>3. status'.sample = latest_sample_
      BY <2>1
    <2>4. QED
      BY <2>1, <2>2, <2>3
  <1>6. sample_in_progress_ = (sample_in_progress_ /\ worker # "counting")
    BY <1>1 DEF IInv, TypeOK
  <1>7. AbstractSample(latest_sample_).run = sample_sequence_
    BY <1>3, AbstractRun
  <1>8. AbstractAnswer' = Abstract!AnswerOf(sample_in_progress_ /\ worker # "counting",
                                            AbstractSample(latest_sample_))
    BY <1>3, <1>5, <1>6, <1>7 DEF Abstract!AnswerOf
  <1>9. QED
    BY <1>1, <1>2, <1>4, <1>8 DEF shared, thread, Abstract!Answer

\* The worker holds the lock, and its sample follows the newest one.
LEMMA AbstractComplete ==
    ASSUME DockerMemoryTaskAssumption, IInv, StoreSample
    PROVE  Abstract!Complete
  <1>1. /\ life = "configured"
        /\ runs \in 1 .. MaxRuns
        /\ sample_sequence_ + 1 = runs
    BY WorkingRun DEF StoreSample, Working
  <1>2. worker_sample.run = latest_sample_.run + 1 /\ worker_sample.run # 0
    BY <1>1 DEF StoreSample, IInv, Counting, DockerMemoryTaskAssumption
  <1>3. worker_sample \in Samples
    BY <1>2 DEF IInv, TypeOK, NoSample
  <1>4. UNCHANGED <<life, sample_in_progress_, status>> /\ latest_sample_' = worker_sample
    BY DEF StoreSample
  <1>5. AbstractAnswer' = AbstractAnswer
    BY <1>4 DEF AbstractAnswer, AbstractSample
  <1>6. AbstractSample(latest_sample_)' = Abstract!Completed(
          AbstractSample(latest_sample_).run + 1, <<worker_sample.success, worker_sample.by>>)
    <2>1. worker_sample # NoSample
      BY <1>2 DEF NoSample
    <2>2. AbstractSample(latest_sample_)' =
            [run |-> worker_sample.run, result |-> <<worker_sample.success, worker_sample.by>>]
      BY <1>4, <2>1 DEF AbstractSample
    <2>3. QED
      BY <1>2, <2>2, AbstractRun DEF Abstract!Completed
  <1>7. <<worker_sample.success, worker_sample.by>> \in BOOLEAN \X AnySampler
    BY <1>3 DEF Samples
  <1>8. sample_in_progress_ /\ worker # "counting" /\ worker' = "counting"
    BY DEF StoreSample, IInv, Flag, Working
  <1>9. QED
    BY <1>1, <1>4, <1>5, <1>6, <1>7, <1>8 DEF Abstract!Complete

LEMMA AbstractClose ==
    ASSUME IInv, ResetSample
    PROVE  Abstract!Close
  <1>1. life = "configured" /\ life' = "cleaned"
    BY DEF ResetSample, IInv, Life
  <1>2. AbstractAnswer' = AbstractAnswer
    BY DEF ResetSample, AbstractAnswer, AbstractSample
  <1>3. AbstractSample(latest_sample_)' = [run |-> 0] /\ sample_in_progress_' = FALSE
    BY DEF ResetSample, AbstractSample
  <1>4. QED
    BY <1>1, <1>2, <1>3 DEF Abstract!Close, Abstract!Nothing

LEMMA AbstractStep ==
    ASSUME DockerMemoryTaskAssumption, IInv, [Next]_vars
    PROVE  [Abstract!Next]_(Abstract!vars)
  <1>1. CASE Configure
    BY <1>1, AbstractOpen DEF Abstract!Next
  <1>2. CASE BeginUpdate
    BY <1>2, AbstractAsk DEF Abstract!Next
  <1>3. CASE Recheck
    BY <1>3, AbstractBegin DEF Abstract!Next
  <1>4. CASE SampleInline \/ SpawnFails
    BY <1>4, AbstractOtherAnswer DEF Abstract!Next
  <1>5. CASE ReadSample
    BY <1>5, AbstractAnswered DEF Abstract!Next
  <1>6. CASE StoreSample
    BY <1>6, AbstractComplete DEF Abstract!Next
  <1>7. CASE ResetSample
    BY <1>7, AbstractClose DEF Abstract!Next
  <1>8. CASE CountSample
    <2>1. AbstractSampling' <=> AbstractSampling
      BY <1>8 DEF CountSample, AbstractSampling
    <2>2. QED
      BY <1>8, <2>1, AbstractStutter DEF CountSample
  <1>9. CASE Destroy
    BY <1>9, AbstractStutter DEF Destroy, shared, thread, AbstractSampling
  <1>10. CASE JoinEndedWorker \/ ReplaceSampler \/ JoinForCleanup
    <2>1. worker # "counting" /\ worker' # "counting"
      BY <1>10 DEF JoinEndedWorker, ReplaceSampler, JoinForCleanup, join_background_worker, Join
    <2>2. UNCHANGED <<life, shared, status>>
      BY <1>10 DEF JoinEndedWorker, ReplaceSampler, JoinForCleanup
    <2>3. QED
      BY <2>1, <2>2, AbstractStutter DEF shared, AbstractSampling
  <1>11. CASE SpawnWorker
    <2>1. worker # "counting" /\ worker' # "counting"
      BY <1>11 DEF SpawnWorker, IInv, Flag
    <2>2. QED
      BY <1>11, <2>1, AbstractStutter DEF SpawnWorker, shared, AbstractSampling
  <1>12. CASE WorkerStarts \/ SamplerReturns \/ WorkerLocks \/ WorkerExits
    <2>1. worker # "counting" /\ worker' # "counting"
      BY <1>12 DEF WorkerStarts, SamplerReturns, WorkerLocks, WorkerExits
    <2>2. UNCHANGED <<life, shared, status>>
      BY <1>12 DEF WorkerStarts, SamplerReturns, WorkerLocks, WorkerExits
    <2>3. QED
      BY <2>1, <2>2, AbstractStutter DEF shared, AbstractSampling
  <1>13. CASE CallerLocks \/ Check \/ BeginSetSampler \/ BeginCleanup \/ UNCHANGED vars
    <2>1. UNCHANGED <<life, shared, thread, status>>
      BY <1>13 DEF CallerLocks, Check, BeginSetSampler, BeginCleanup, vars
    <2>2. QED
      BY <2>1, AbstractStutter DEF shared, thread, AbstractSampling
  <1>14. QED
    BY <1>1, <1>2, <1>3, <1>4, <1>5, <1>6, <1>7, <1>8, <1>9, <1>10, <1>11, <1>12, <1>13
    DEF Next, CallerStep, UpdateStep, WorkerStep

\* Caller and worker implement the sampler without threads: samples are taken one at
\* a time, each is completed at one moment, and a status is a snapshot of the newest.
THEOREM SampleRefinement == Spec => ImplementsLatestSample
  <1>1. Init => Abstract!Init
    BY AbstractInit
  <1>2. IInv /\ [Next]_vars => [Abstract!Next]_(Abstract!vars)
    BY AbstractStep, DockerMemoryTaskAssumption
  <1>3. QED
    BY <1>1, <1>2, Invariance, PTL DEF Spec, ImplementsLatestSample, Abstract!Spec

=============================================================================
