-------------------------- MODULE UpdateCycleProofs --------------------------
(***************************************************************************)
(* Proofs about UpdateCycle, for every number of tasks and threads.        *)
(***************************************************************************)
EXTENDS UpdateCycle, TLAPS

-----------------------------------------------------------------------------
(* The inductive invariant                                                 *)

InCycle == pc \in {"spawn", "run"}

\* Which runners there are is known from where the executor is.
RunnersExist ==
    /\ pc \in {"idle", "terminated"} => \A r \in AllRunners : runner[r] = "none"
    /\ pc = "spawn" => /\ ~Sequential
                       /\ spawned < WorkerCount
                       /\ \A r \in AllRunners : runner[r] # "none" <=> r \in 1 .. spawned
    /\ pc = "run" => \A r \in AllRunners : runner[r] # "none" <=> r \in Runners

\* An update in progress has drawn its index, and nobody else has the same.
ClaimsAreDistinct ==
    \A r \in AllRunners : runner[r] = "updating" =>
        /\ claim[r] < next_index
        /\ claim[r] \in Tasks
        /\ results[claim[r]] = BlankResult
        /\ \A s \in AllRunners : s # r /\ runner[s] = "updating" => claim[s] # claim[r]

\* Every index drawn is being updated or has its result, in its own slot; no index
\* is left once a runner has exited.
IndicesAccountedFor ==
    InCycle =>
        /\ \A i \in Tasks :
            /\ results[i] # BlankResult => i < next_index /\ results[i].task = i
            /\ i < next_index =>
                \/ results[i] # BlankResult
                \/ \E r \in AllRunners : runner[r] = "updating" /\ claim[r] = i
        /\ \A r \in AllRunners : runner[r] = "exited" => next_index >= task_count

\* No duration is longer than the time the cycle has taken so far.
DurationsFit ==
    /\ \A r \in AllRunners : runner[r] = "updating" => task_start[r] <= elapsed
    /\ \A i \in Tasks : results[i] # BlankResult => results[i].duration <= elapsed

\* The published array is complete, and its verdict is about the longest duration.
ArrayIsComplete ==
    array.published =>
        /\ pc = "idle"
        /\ \A i \in Tasks :
            /\ array.statuses[i] # BlankResult
            /\ array.statuses[i].task = i
            /\ array.statuses[i].duration <= array.all
        /\ array.level = "OK" => array.all <= Period

IInv ==
    /\ TypeOK
    /\ RunnersExist
    /\ ClaimsAreDistinct
    /\ IndicesAccountedFor
    /\ DurationsFit
    /\ ArrayIsComplete

\* All that a cycle needs of the state it finds.
Quiet ==
    /\ task_count \in 0 .. MaxTasks
    /\ num_threads_ \in 1 .. MaxThreads
    /\ runner = [r \in AllRunners |-> "none"]
    /\ claim \in [AllRunners -> Nat]
    /\ task_start \in [AllRunners -> Durations]

-----------------------------------------------------------------------------
(* Facts about results and runners                                         *)

LEMMA ResultFacts ==
    /\ BlankResult \in Results
    /\ BlankResult.written = FALSE
    /\ \A r \in Results : r # BlankResult =>
        /\ r.written = TRUE
        /\ r.task \in Tasks
        /\ r.outcome \in Outcomes
        /\ r.duration \in Durations
    /\ \A i \in Tasks, o \in Outcomes, d \in Durations :
        /\ TaskResult(i, o, d) \in Results
        /\ TaskResult(i, o, d) # BlankResult
        /\ TaskResult(i, o, d).task = i
        /\ TaskResult(i, o, d).duration = d
        /\ TaskResult(i, o, d).outcome = o
  <1>1. \A i, o, d : TaskResult(i, o, d).written = TRUE /\ BlankResult.written = FALSE
    BY DEF TaskResult, BlankResult
  <1>2. QED
    BY <1>1 DEF Results, BlankResult, TaskResult

LEMMA RunnersAreRunners ==
    ASSUME TypeOK, UpdateCycleAssumption
    PROVE  /\ Runners \subseteq AllRunners
           /\ WorkerCount \in 0 .. MaxThreads
           /\ WorkerCount <= task_count
           /\ ~Sequential => WorkerCount >= 2
           /\ Runners # {}
           /\ \E r \in Runners : r \in AllRunners
  <1>1. task_count \in Nat /\ num_threads_ \in 1 .. MaxThreads /\ MaxThreads \in Nat
    BY DEF TypeOK, UpdateCycleAssumption
  <1>2. WorkerCount \in 0 .. MaxThreads /\ WorkerCount <= task_count
    BY <1>1 DEF WorkerCount
  <1>3. ~Sequential => WorkerCount >= 2
    BY <1>1 DEF WorkerCount, Sequential
  <1>4. Runners \subseteq AllRunners
    BY <1>1, <1>2 DEF Runners, AllRunners
  <1>5. Sequential => 0 \in Runners
    BY DEF Runners
  <1>6. ~Sequential => 1 \in Runners
    BY <1>2, <1>3 DEF Runners
  <1>7. QED
    BY <1>2, <1>3, <1>4, <1>5, <1>6

-----------------------------------------------------------------------------
(* The invariant holds initially and is preserved                          *)

LEMMA InitInvariant == UpdateCycleAssumption /\ Init => IInv
  <1> SUFFICES ASSUME UpdateCycleAssumption, Init PROVE IInv
    OBVIOUS
  <1>1. TypeOK
    BY ResultFacts DEF Init, TypeOK, UpdateCycleAssumption, Durations, AllRunners,
        NoArray, ArrayOf
  <1>2. RunnersExist /\ ClaimsAreDistinct /\ DurationsFit
    BY DEF Init, RunnersExist, ClaimsAreDistinct, DurationsFit
  <1>3. IndicesAccountedFor /\ ArrayIsComplete
    BY DEF Init, IndicesAccountedFor, InCycle, ArrayIsComplete, NoArray
  <1>4. QED
    BY <1>1, <1>2, <1>3 DEF IInv

\* The timer fires: no runner is left from before, and every slot is blank.  The
\* results of the last cycle do not matter, which may have had other tasks.
LEMMA BeginInvariant == UpdateCycleAssumption /\ Quiet /\ BeginCycle => IInv'
  <1> SUFFICES ASSUME UpdateCycleAssumption, Quiet, BeginCycle PROVE IInv'
    OBVIOUS
  <1> USE DEF Quiet
  <1>1. /\ Tasks' = Tasks
        /\ Runners' = Runners
        /\ Sequential' = Sequential
        /\ WorkerCount' = WorkerCount
    BY DEF BeginCycle, config, Tasks, Runners, Sequential, WorkerCount
  <1>2. 0 \in AllRunners /\ \A r \in AllRunners : runner[r] = "none"
    BY DEF AllRunners, UpdateCycleAssumption
  <1>3. TypeOK'
    BY <1>1, <1>2, ResultFacts DEF BeginCycle, config, TypeOK, Results, Durations, NoArray,
        ArrayOf, UpdateCycleAssumption
  <1>4. \A r \in AllRunners :
          runner'[r] = IF Sequential /\ r = 0 THEN "fetch" ELSE "none"
    BY <1>1, <1>2 DEF BeginCycle
  <1>5. RunnersExist'
    <2>1. CASE Sequential
      BY <1>1, <1>4, <2>1 DEF RunnersExist, BeginCycle, Runners
    <2>2. CASE ~Sequential
      <3>1. 0 < WorkerCount
        BY <2>2 DEF Sequential, WorkerCount, UpdateCycleAssumption
      <3>2. /\ pc' = "spawn" /\ spawned' = 0
            /\ \A r \in AllRunners : runner'[r] = "none"
        BY <1>4, <2>2 DEF BeginCycle
      <3>3. QED
        BY <1>1, <2>2, <3>1, <3>2 DEF RunnersExist
    <2>3. QED
      BY <2>1, <2>2
  <1>6. ClaimsAreDistinct' /\ DurationsFit'
    BY <1>1, <1>4 DEF ClaimsAreDistinct, DurationsFit, BeginCycle
  <1>7. IndicesAccountedFor'
    <2>1. \A i \in Tasks : results'[i] = BlankResult /\ ~(i < next_index')
      BY DEF BeginCycle, Tasks
    <2>2. \A r \in AllRunners : runner'[r] # "exited"
      BY <1>4
    <2>3. QED
      BY <1>1, <2>1, <2>2 DEF IndicesAccountedFor
  <1>8. ArrayIsComplete'
    BY DEF ArrayIsComplete, BeginCycle, NoArray
  <1>9. QED
    BY <1>3, <1>5, <1>6, <1>7, <1>8 DEF IInv

\* A new worker starts with nothing in its hands.
LEMMA SpawnInvariant == UpdateCycleAssumption /\ IInv /\ SpawnWorker => IInv'
  <1> SUFFICES ASSUME UpdateCycleAssumption, IInv, SpawnWorker PROVE IInv'
    OBVIOUS
  <1> USE DEF IInv
  <1>1. /\ Tasks' = Tasks
        /\ Runners' = Runners
        /\ Sequential' = Sequential
        /\ WorkerCount' = WorkerCount
    BY DEF SpawnWorker, config, Tasks, Runners, Sequential, WorkerCount
  <1>2. /\ pc = "spawn" /\ ~Sequential
        /\ spawned \in Nat /\ spawned < WorkerCount
        /\ WorkerCount \in 0 .. MaxThreads
        /\ Runners = 1 .. WorkerCount
        /\ spawned + 1 \in AllRunners
        /\ runner[spawned + 1] = "none"
    BY RunnersAreRunners DEF SpawnWorker, RunnersExist, TypeOK, AllRunners, Runners,
        UpdateCycleAssumption
  <1>3. \A r \in AllRunners :
          runner'[r] = IF r = spawned + 1 THEN "fetch" ELSE runner[r]
    BY <1>2 DEF SpawnWorker, TypeOK
  <1>4. TypeOK'
    <2>1. Results' = Results
      BY <1>1 DEF Results
    <2>2. /\ spawned' \in 0 .. MaxThreads
          /\ runner' \in [AllRunners -> {"none", "fetch", "updating", "exited"}]
          /\ \A r \in AllRunners : runner'[r] = "updating" => claim[r] \in Tasks
      BY <1>2, <1>3 DEF SpawnWorker, TypeOK, UpdateCycleAssumption
    <2>3. QED
      BY <1>1, <2>1, <2>2 DEF SpawnWorker, config, TypeOK
  <1>5. RunnersExist'
    <2>1. \A r \in AllRunners : runner'[r] # "none" <=> r \in 1 .. (spawned + 1)
      BY <1>2, <1>3 DEF RunnersExist, AllRunners
    <2>2. QED
      BY <1>1, <1>2, <2>1 DEF SpawnWorker, RunnersExist
  <1>6. ClaimsAreDistinct' /\ DurationsFit'
    BY <1>1, <1>3 DEF ClaimsAreDistinct, DurationsFit, SpawnWorker
  <1>7. IndicesAccountedFor'
    BY <1>1, <1>2, <1>3 DEF IndicesAccountedFor, InCycle, SpawnWorker, config
  <1>8. ArrayIsComplete'
    BY <1>2 DEF ArrayIsComplete, SpawnWorker
  <1>9. QED
    BY <1>4, <1>5, <1>6, <1>7, <1>8

\* Every thread is gone with the process.
LEMMA SpawnFailsInvariant == UpdateCycleAssumption /\ IInv /\ SpawnFails => IInv'
  <1> SUFFICES ASSUME UpdateCycleAssumption, IInv, SpawnFails PROVE IInv'
    OBVIOUS
  <1> USE DEF IInv
  <1>1. Tasks' = Tasks /\ \A r \in AllRunners : runner'[r] = "none"
    BY DEF SpawnFails, config, Tasks
  <1>2. TypeOK'
    BY <1>1 DEF SpawnFails, config, TypeOK, Results
  <1>3. RunnersExist' /\ ClaimsAreDistinct'
    BY <1>1 DEF SpawnFails, RunnersExist, ClaimsAreDistinct
  <1>4. IndicesAccountedFor' /\ DurationsFit' /\ ArrayIsComplete'
    BY <1>1 DEF SpawnFails, IndicesAccountedFor, InCycle, DurationsFit, ArrayIsComplete
  <1>5. QED
    BY <1>2, <1>3, <1>4

\* The index that a runner draws is one that nobody has drawn before.
LEMMA ClaimInvariant ==
    ASSUME UpdateCycleAssumption, IInv, NEW r \in Runners, ClaimTask(r)
    PROVE  IInv'
  <1> USE DEF IInv, HasTask, Advanced
  <1>1. /\ r \in AllRunners
        /\ Tasks' = Tasks
        /\ Results' = Results
        /\ Runners' = Runners
        /\ Sequential' = Sequential
        /\ WorkerCount' = WorkerCount
    BY RunnersAreRunners DEF ClaimTask, config, Tasks, Results, Runners, Sequential, WorkerCount
  <1>2. /\ runner[r] = "fetch"
        /\ next_index \in Tasks
        /\ next_index \in Nat
        /\ next_index' = next_index + 1
        /\ InCycle
    BY <1>1 DEF ClaimTask, TypeOK, Tasks, UpdateCycleAssumption, RunnersExist, InCycle
  <1>3. \A s \in AllRunners :
          /\ runner'[s] = IF s = r THEN "updating" ELSE runner[s]
          /\ claim'[s] = IF s = r THEN next_index ELSE claim[s]
          /\ task_start'[s] = IF s = r THEN elapsed ELSE task_start[s]
    BY <1>1 DEF ClaimTask, TypeOK
  <1>4. TypeOK'
    <2>1. \A s \in AllRunners : runner'[s] = "updating" => claim'[s] \in Tasks
      BY <1>2, <1>3 DEF TypeOK
    <2>2. /\ runner' \in [AllRunners -> {"none", "fetch", "updating", "exited"}]
          /\ claim' \in [AllRunners -> Nat]
          /\ task_start' \in [AllRunners -> Durations]
      BY <1>1, <1>2 DEF ClaimTask, TypeOK
    <2>3. QED
      BY <1>1, <1>2, <2>1, <2>2 DEF ClaimTask, config, TypeOK
  <1>5. RunnersExist'
    BY <1>1, <1>2, <1>3 DEF RunnersExist, ClaimTask
  <1>6. results[next_index] = BlankResult
    BY <1>2 DEF IndicesAccountedFor
  <1>7. ClaimsAreDistinct'
    BY <1>1, <1>2, <1>3, <1>6 DEF ClaimsAreDistinct, ClaimTask, TypeOK
  <1>8. IndicesAccountedFor'
    <2>1. ASSUME NEW i \in Tasks, i < next_index', results[i] = BlankResult
          PROVE  \E s \in AllRunners : runner'[s] = "updating" /\ claim'[s] = i
      <3>1. CASE i = next_index
        BY <1>1, <1>3, <3>1
      <3>2. CASE i # next_index
        <4>1. i < next_index
          BY <1>2, <2>1, <3>2 DEF Tasks, TypeOK
        <4>2. PICK s \in AllRunners : runner[s] = "updating" /\ claim[s] = i
          BY <1>2, <2>1, <4>1 DEF IndicesAccountedFor
        <4>3. QED
          BY <1>2, <1>3, <4>2
      <3>3. QED
        BY <3>1, <3>2
    <2>2. \A i \in Tasks : results[i] # BlankResult => i < next_index' /\ results[i].task = i
      BY <1>2 DEF IndicesAccountedFor, Tasks, TypeOK
    <2>3. \A s \in AllRunners : runner'[s] = "exited" => next_index' >= task_count
      BY <1>2, <1>3 DEF IndicesAccountedFor, TypeOK, UpdateCycleAssumption
    <2>4. QED
      BY <1>1, <2>1, <2>2, <2>3 DEF IndicesAccountedFor, ClaimTask, config
  <1>9. DurationsFit'
    BY <1>1, <1>3 DEF DurationsFit, ClaimTask, TypeOK, Durations
  <1>10. ArrayIsComplete'
    BY <1>2 DEF ArrayIsComplete, ClaimTask, InCycle
  <1>11. QED
    BY <1>4, <1>5, <1>7, <1>8, <1>9, <1>10

\* A runner leaves only when every index has been drawn.
LEMMA ExitInvariant ==
    ASSUME UpdateCycleAssumption, IInv, NEW r \in Runners, ExitRunner(r)
    PROVE  IInv'
  <1> USE DEF IInv, HasTask, Advanced
  <1>1. /\ r \in AllRunners
        /\ Tasks' = Tasks
        /\ Results' = Results
        /\ Runners' = Runners
        /\ Sequential' = Sequential
        /\ WorkerCount' = WorkerCount
    BY RunnersAreRunners DEF ExitRunner, config, Tasks, Results, Runners, Sequential, WorkerCount
  <1>2. /\ runner[r] = "fetch"
        /\ next_index \in Nat /\ task_count \in Nat
        /\ next_index >= task_count
        /\ next_index' = next_index + 1
        /\ InCycle
    BY <1>1 DEF ExitRunner, TypeOK, UpdateCycleAssumption, RunnersExist, InCycle
  <1>3. \A s \in AllRunners : runner'[s] = IF s = r THEN "exited" ELSE runner[s]
    BY <1>1 DEF ExitRunner, TypeOK
  <1>4. TypeOK'
    <2>1. \A s \in AllRunners : runner'[s] = "updating" => claim[s] \in Tasks
      BY <1>3 DEF TypeOK
    <2>2. runner' \in [AllRunners -> {"none", "fetch", "updating", "exited"}]
      BY <1>1 DEF ExitRunner, TypeOK
    <2>3. QED
      BY <1>1, <1>2, <2>1, <2>2 DEF ExitRunner, config, TypeOK
  <1>5. RunnersExist'
    BY <1>1, <1>2, <1>3 DEF RunnersExist, ExitRunner
  <1>6. ClaimsAreDistinct'
    BY <1>1, <1>2, <1>3 DEF ClaimsAreDistinct, ExitRunner, TypeOK
  <1>7. IndicesAccountedFor'
    <2>1. ASSUME NEW i \in Tasks, results[i] = BlankResult
          PROVE  \E s \in AllRunners : runner'[s] = "updating" /\ claim[s] = i
      <3>1. i < next_index
        BY <1>2 DEF Tasks
      <3>2. PICK s \in AllRunners : runner[s] = "updating" /\ claim[s] = i
        BY <1>2, <2>1, <3>1 DEF IndicesAccountedFor
      <3>3. QED
        BY <1>2, <1>3, <3>2
    <2>2. \A i \in Tasks : results[i] # BlankResult => i < next_index' /\ results[i].task = i
      BY <1>2 DEF IndicesAccountedFor, Tasks
    <2>3. next_index' >= task_count
      BY <1>2
    <2>4. QED
      BY <1>1, <2>1, <2>2, <2>3 DEF IndicesAccountedFor, ExitRunner, config
  <1>8. DurationsFit'
    BY <1>1, <1>3 DEF DurationsFit, ExitRunner
  <1>9. ArrayIsComplete'
    BY <1>2 DEF ArrayIsComplete, ExitRunner, InCycle
  <1>10. QED
    BY <1>4, <1>5, <1>6, <1>7, <1>8, <1>9

\* The slot that a runner fills is its own.
LEMMA FinishInvariant ==
    ASSUME UpdateCycleAssumption, IInv, NEW r \in Runners, FinishTask(r)
    PROVE  IInv'
  <1> USE DEF IInv
  <1>1. /\ r \in AllRunners
        /\ Tasks' = Tasks
        /\ Results' = Results
        /\ Runners' = Runners
        /\ Sequential' = Sequential
        /\ WorkerCount' = WorkerCount
    BY RunnersAreRunners DEF FinishTask, config, Tasks, Results, Runners, Sequential, WorkerCount
  <1>2. /\ runner[r] = "updating"
        /\ claim[r] \in Tasks
        /\ claim[r] < next_index
        /\ results[claim[r]] = BlankResult
        /\ InCycle
    BY <1>1 DEF FinishTask, ClaimsAreDistinct, RunnersExist, InCycle, TypeOK
  <1>3. TaskTime(r) \in Durations /\ TaskTime(r) <= elapsed
    BY <1>1, <1>2 DEF TaskTime, DurationsFit, TypeOK, Durations, UpdateCycleAssumption
  <1>4. PICK outcome \in Outcomes :
          results' = [results EXCEPT ![claim[r]] = TaskResult(claim[r], outcome, TaskTime(r))]
    BY DEF FinishTask
  <1> DEFINE result == TaskResult(claim[r], outcome, TaskTime(r))
  <1>5. /\ result \in Results
        /\ result # BlankResult
        /\ result.task = claim[r]
        /\ result.duration = TaskTime(r)
    BY <1>2, <1>3, ResultFacts
  <1> HIDE DEF result
  <1>6. \A i \in Tasks : results'[i] = IF i = claim[r] THEN result ELSE results[i]
    BY <1>2, <1>4 DEF TypeOK, result
  <1>7. \A s \in AllRunners :
          /\ runner'[s] = IF s = r THEN "fetch" ELSE runner[s]
          /\ s # r => claim'[s] = claim[s]
          /\ s # r => task_start'[s] = task_start[s]
    BY <1>1 DEF FinishTask, TypeOK
  <1>8. TypeOK'
    <2>1. results' \in [Tasks -> Results]
      BY <1>2, <1>4, <1>5 DEF TypeOK, result
    <2>2. \A s \in AllRunners : runner'[s] = "updating" => claim'[s] \in Tasks
      BY <1>7 DEF TypeOK
    <2>3. /\ runner' \in [AllRunners -> {"none", "fetch", "updating", "exited"}]
          /\ claim' \in [AllRunners -> Nat]
          /\ task_start' \in [AllRunners -> Durations]
      BY <1>1 DEF FinishTask, TypeOK, Durations, UpdateCycleAssumption
    <2>4. QED
      BY <1>1, <2>1, <2>2, <2>3 DEF FinishTask, config, TypeOK
  <1>9. RunnersExist'
    BY <1>1, <1>2, <1>7 DEF RunnersExist, FinishTask
  <1>10. ClaimsAreDistinct'
    <2>1. \A s \in AllRunners : s # r /\ runner[s] = "updating" => claim[s] # claim[r]
      BY <1>1, <1>2 DEF ClaimsAreDistinct
    <2>2. QED
      BY <1>1, <1>6, <1>7, <2>1 DEF ClaimsAreDistinct, FinishTask
  <1>11. IndicesAccountedFor'
    <2>1. \A i \in Tasks :
            results'[i] # BlankResult => i < next_index' /\ results'[i].task = i
      BY <1>2, <1>5, <1>6 DEF IndicesAccountedFor, FinishTask
    <2>2. ASSUME NEW i \in Tasks, i < next_index, results'[i] = BlankResult
          PROVE  \E s \in AllRunners : runner'[s] = "updating" /\ claim'[s] = i
      <3>1. i # claim[r] /\ results[i] = BlankResult
        BY <1>5, <1>6, <2>2
      <3>2. PICK s \in AllRunners : runner[s] = "updating" /\ claim[s] = i
        BY <1>2, <2>2, <3>1 DEF IndicesAccountedFor
      <3>3. QED
        BY <1>7, <3>1, <3>2
    <2>3. \A s \in AllRunners : runner'[s] = "exited" => next_index >= task_count
      BY <1>2, <1>7 DEF IndicesAccountedFor
    <2>4. QED
      BY <1>1, <2>1, <2>2, <2>3 DEF IndicesAccountedFor, FinishTask, config
  <1>12. DurationsFit'
    BY <1>1, <1>3, <1>5, <1>6, <1>7 DEF DurationsFit, FinishTask
  <1>13. ArrayIsComplete'
    BY <1>2 DEF ArrayIsComplete, FinishTask, InCycle
  <1>14. QED
    BY <1>8, <1>9, <1>10, <1>11, <1>12, <1>13

\* When all have been joined, nobody is updating and every slot is filled.
LEMMA AllJoinedMeansAllWritten ==
    ASSUME UpdateCycleAssumption, IInv, pc = "run", AllJoined
    PROVE  /\ \A r \in AllRunners : runner[r] \in {"none", "exited"}
           /\ \A i \in Tasks : results[i] # BlankResult /\ results[i].task = i
  <1> USE DEF IInv
  <1>1. \A r \in AllRunners : runner[r] \in {"none", "exited"}
    BY DEF RunnersExist, AllJoined
  <1>2. PICK r \in AllRunners : runner[r] = "exited"
    BY RunnersAreRunners DEF AllJoined
  <1>3. next_index >= task_count
    BY <1>2 DEF IndicesAccountedFor, InCycle
  <1>4. \A i \in Tasks : i < next_index
    BY <1>3 DEF Tasks, TypeOK, UpdateCycleAssumption
  <1>5. \A i \in Tasks : results[i] # BlankResult
    BY <1>1, <1>4 DEF IndicesAccountedFor, InCycle
  <1>6. QED
    BY <1>1, <1>5 DEF IndicesAccountedFor, InCycle

\* The array that is published is complete, and the joined threads are gone.
LEMMA PublishInvariant == UpdateCycleAssumption /\ IInv /\ Publish => IInv'
  <1> SUFFICES ASSUME UpdateCycleAssumption, IInv, Publish PROVE IInv'
    OBVIOUS
  <1> USE DEF IInv
  <1> DEFINE level == IF Overrun(elapsed) THEN "ERROR" ELSE "OK"
  <1>1. /\ pc = "run" /\ AllJoined
        /\ pc' = "idle"
        /\ Tasks' = Tasks
        /\ Results' = Results
    BY DEF Publish, config, Tasks, Results
  <1>2. /\ \A r \in AllRunners : runner[r] \in {"none", "exited"}
        /\ \A i \in Tasks : results[i] # BlankResult /\ results[i].task = i
    BY <1>1, AllJoinedMeansAllWritten
  <1>3. \A r \in AllRunners : runner'[r] = "none"
    BY <1>2 DEF Publish
  <1>4. runner' \in [AllRunners -> {"none", "fetch", "updating", "exited"}]
    BY <1>3 DEF Publish
  <1>5. /\ array' = ArrayOf(array'.statuses, array'.all, array'.level)
        /\ array'.published
        /\ array'.statuses = results
        /\ array'.all = elapsed
        /\ array'.level = level
    BY DEF Publish, ArrayOf
  <1>6. TypeOK'
    BY <1>1, <1>3, <1>4, <1>5 DEF Publish, config, TypeOK
  <1>7. RunnersExist' /\ ClaimsAreDistinct' /\ IndicesAccountedFor'
    BY <1>1, <1>3 DEF RunnersExist, ClaimsAreDistinct, IndicesAccountedFor, InCycle
  <1>8. DurationsFit'
    BY <1>1, <1>3 DEF DurationsFit, Publish
  <1>9. ArrayIsComplete'
    <2>1. \A i \in Tasks : results[i].duration <= elapsed
      BY <1>2 DEF DurationsFit
    <2>2. level = "OK" => elapsed <= Period
      BY DEF Overrun, TypeOK, Durations, UpdateCycleAssumption
    <2>3. QED
      BY <1>1, <1>2, <1>5, <2>1, <2>2 DEF ArrayIsComplete
  <1>10. QED
    BY <1>6, <1>7, <1>8, <1>9

\* Time only adds to what a duration may be.
LEMMA TickInvariant == UpdateCycleAssumption /\ IInv /\ Tick => IInv'
  <1> SUFFICES ASSUME UpdateCycleAssumption, IInv, Tick PROVE IInv'
    OBVIOUS
  <1> USE DEF IInv
  <1>1. /\ Tasks' = Tasks
        /\ Results' = Results
        /\ Runners' = Runners
        /\ Sequential' = Sequential
        /\ WorkerCount' = WorkerCount
    BY DEF Tick, config, Tasks, Results, Runners, Sequential, WorkerCount
  <1>2. elapsed \in Durations /\ elapsed' \in Durations /\ elapsed' = elapsed + 1
    BY DEF Tick, TypeOK, Durations, UpdateCycleAssumption
  <1>3. TypeOK'
    BY <1>1, <1>2 DEF Tick, config, work, TypeOK
  <1>4. RunnersExist' /\ ClaimsAreDistinct' /\ IndicesAccountedFor'
    BY <1>1 DEF Tick, config, work, RunnersExist, ClaimsAreDistinct, IndicesAccountedFor, InCycle
  <1>5. DurationsFit'
    <2>1. \A d \in Durations : d <= elapsed => d <= elapsed'
      BY <1>2 DEF Durations
    <2>2. \A r \in AllRunners : task_start[r] \in Durations
      BY DEF TypeOK
    <2>3. \A i \in Tasks : results[i] # BlankResult => results[i].duration \in Durations
      BY ResultFacts DEF TypeOK
    <2>4. QED
      BY <1>1, <2>1, <2>2, <2>3 DEF Tick, work, DurationsFit
  <1>6. ArrayIsComplete'
    BY <1>1 DEF Tick, ArrayIsComplete
  <1>7. QED
    BY <1>3, <1>4, <1>5, <1>6

LEMMA StutterInvariant == IInv /\ UNCHANGED vars => IInv'
  <1> SUFFICES ASSUME IInv, UNCHANGED vars PROVE IInv'
    OBVIOUS
  <1> USE DEF vars, config, work, IInv
  <1>1. /\ Tasks' = Tasks
        /\ Results' = Results
        /\ Runners' = Runners
        /\ Sequential' = Sequential
        /\ WorkerCount' = WorkerCount
    BY DEF Tasks, Results, Runners, Sequential, WorkerCount
  <1>2. TypeOK'
    BY <1>1 DEF TypeOK
  <1>3. RunnersExist' /\ ClaimsAreDistinct'
    BY <1>1 DEF RunnersExist, ClaimsAreDistinct
  <1>4. IndicesAccountedFor' /\ DurationsFit' /\ ArrayIsComplete'
    BY <1>1 DEF IndicesAccountedFor, InCycle, DurationsFit, ArrayIsComplete
  <1>5. QED
    BY <1>2, <1>3, <1>4

\* What is left behind when a cycle has ended.
LEMMA QuietBetweenCycles == IInv /\ pc = "idle" => Quiet
  BY DEF IInv, TypeOK, RunnersExist, Quiet

LEMMA NextInvariant == UpdateCycleAssumption /\ IInv /\ [Next]_vars => IInv'
  <1> SUFFICES ASSUME UpdateCycleAssumption, IInv, [Next]_vars PROVE IInv'
    OBVIOUS
  <1>1. CASE BeginCycle
    BY <1>1, QuietBetweenCycles, BeginInvariant DEF BeginCycle
  <1>2. CASE SpawnWorker
    BY <1>2, SpawnInvariant
  <1>3. CASE SpawnFails
    BY <1>3, SpawnFailsInvariant
  <1>4. ASSUME NEW r \in Runners, RunnerStep(r) PROVE IInv'
    BY <1>4, ClaimInvariant, ExitInvariant, FinishInvariant DEF RunnerStep
  <1>5. CASE Publish
    BY <1>5, PublishInvariant
  <1>6. CASE Tick
    BY <1>6, TickInvariant
  <1>7. CASE Terminated \/ UNCHANGED vars
    BY <1>7, StutterInvariant DEF Terminated
  <1>8. QED
    BY <1>1, <1>2, <1>3, <1>4, <1>5, <1>6, <1>7 DEF Next

LEMMA Invariance == Spec => []IInv
  <1>1. Init => IInv
    BY InitInvariant, UpdateCycleAssumption
  <1>2. IInv /\ [Next]_vars => IInv'
    BY NextInvariant, UpdateCycleAssumption
  <1>3. QED
    BY <1>1, <1>2, PTL DEF Spec

-----------------------------------------------------------------------------
(* The theorems                                                            *)

\* The variables keep their types, and no update has an index out of bounds
\* (results[index] and tasks_[index] are never accessed past the end).
THEOREM TypeCorrect == Spec => []TypeOK
  BY Invariance, PTL DEF IInv

\* However many threads there are, no task is updated by two of them, or twice in
\* a cycle (the writes to results[index] need no lock).
THEOREM ExclusiveUpdates == Spec => []OneUpdatePerTask
  <1>1. IInv => OneUpdatePerTask
    BY RunnersAreRunners, UpdateCycleAssumption
    DEF IInv, ClaimsAreDistinct, OneUpdatePerTask
  <1>2. QED
    BY <1>1, Invariance, PTL

\* Every published array has the result of every loaded task, in its place.
THEOREM CompleteReports == Spec => []EveryTaskReported
  <1>1. IInv => EveryTaskReported
    BY ResultFacts DEF IInv, ArrayIsComplete, EveryTaskReported, TypeOK
  <1>2. QED
    BY <1>1, Invariance, PTL

\* The timing status tells the truth about the longest update.
THEOREM TruthfulTiming == Spec => []TimingIsTruthful
  <1>1. IInv => TimingIsTruthful
    <2> SUFFICES ASSUME IInv, array.published, NEW i \in Tasks
                 PROVE  /\ array.statuses[i].duration <= array.all
                        /\ array.level = "OK" => array.statuses[i].duration <= Period
      BY DEF TimingIsTruthful
    <2>1. array.statuses[i].duration \in Durations /\ array.all \in Durations
      BY ResultFacts DEF IInv, TypeOK, ArrayIsComplete
    <2>2. /\ array.statuses[i].duration <= array.all
          /\ array.level = "OK" => array.all <= Period
      BY DEF IInv, ArrayIsComplete
    <2>3. QED
      BY <2>1, <2>2, UpdateCycleAssumption DEF Durations, UpdateCycleAssumption
  <1>2. QED
    BY <1>1, Invariance, PTL

\* No thread of the pool is left between two cycles.
THEOREM JoinedPool == Spec => []NoWorkerOutlivesCycle
  <1>1. IInv => NoWorkerOutlivesCycle
    BY DEF IInv, RunnersExist, NoWorkerOutlivesCycle
  <1>2. QED
    BY <1>1, Invariance, PTL

-----------------------------------------------------------------------------
(* Refinement                                                              *)

AbstractAnswer == [i \in Tasks |-> AnswerOf(results[i])]

\* A step that leaves these alone is a stutter of the abstract cycle.
LEMMA AbstractStutter ==
    ASSUME UNCHANGED <<config, results, array>>, AbstractStage' = AbstractStage
    PROVE  UNCHANGED Abstract!vars
  <1>1. Tasks' = Tasks /\ AbstractAnswer' = AbstractAnswer /\ AbstractReport' = AbstractReport
    BY DEF config, Tasks, AbstractAnswer, AbstractReport
  <1>2. QED
    BY <1>1 DEF config, Abstract!vars, AbstractAnswer

LEMMA AbstractInit == UpdateCycleAssumption /\ Init => Abstract!Init
  <1> SUFFICES ASSUME UpdateCycleAssumption, Init PROVE Abstract!Init
    OBVIOUS
  <1>1. AbstractAnswer = [i \in Tasks |-> "none"]
    BY DEF Init, AbstractAnswer, AnswerOf, BlankResult
  <1>2. QED
    BY <1>1 DEF Init, Abstract!Init, Abstract!Tasks, Abstract!NoReport, AbstractStage,
        AbstractAnswer, AbstractReport, NoArray, Tasks

LEMMA AbstractBegin == BeginCycle => Abstract!Begin
  <1> SUFFICES ASSUME BeginCycle PROVE Abstract!Begin
    OBVIOUS
  <1>1. Tasks' = Tasks
    BY DEF BeginCycle, config, Tasks
  <1>2. AbstractAnswer' = [i \in Tasks |-> "none"]
    BY <1>1 DEF BeginCycle, AbstractAnswer, AnswerOf, BlankResult
  <1>3. AbstractStage = "idle" /\ AbstractStage' = "updating"
    BY DEF BeginCycle, AbstractStage
  <1>4. AbstractReport' = [published |-> FALSE]
    BY DEF BeginCycle, AbstractReport, NoArray
  <1>5. QED
    BY <1>1, <1>2, <1>3, <1>4 DEF BeginCycle, config, Abstract!Begin, Abstract!Tasks,
        Abstract!NoReport, AbstractAnswer, Tasks

LEMMA AbstractUpdate ==
    ASSUME UpdateCycleAssumption, IInv, NEW r \in Runners, FinishTask(r)
    PROVE  Abstract!Update(claim[r])
  <1>1. /\ claim[r] \in Tasks
        /\ results[claim[r]] = BlankResult
        /\ InCycle
        /\ Tasks' = Tasks
    BY RunnersAreRunners DEF FinishTask, IInv, ClaimsAreDistinct, RunnersExist, InCycle,
        TypeOK, config, Tasks
  <1>2. PICK outcome \in Outcomes :
          results' = [results EXCEPT ![claim[r]] = TaskResult(claim[r], outcome, TaskTime(r))]
    BY DEF FinishTask
  <1>3. AnswerOf(TaskResult(claim[r], outcome, TaskTime(r))) = outcome
    BY DEF AnswerOf, TaskResult
  <1>4. \A i \in Tasks : AnswerOf(results'[i]) =
          IF i = claim[r] THEN outcome ELSE AnswerOf(results[i])
    BY <1>1, <1>2, <1>3 DEF IInv, TypeOK
  <1>5. AbstractAnswer' = [AbstractAnswer EXCEPT ![claim[r]] = outcome]
    BY <1>1, <1>4 DEF AbstractAnswer
  <1>6. AbstractAnswer[claim[r]] = "none"
    BY <1>1 DEF AbstractAnswer, AnswerOf, BlankResult
  <1>7. AbstractStage = "updating" /\ AbstractStage' = AbstractStage
    BY <1>1 DEF FinishTask, AbstractStage, InCycle
  <1>8. AbstractReport' = AbstractReport
    BY <1>1 DEF FinishTask, AbstractReport
  <1>9. QED
    BY <1>2, <1>5, <1>6, <1>7, <1>8 DEF FinishTask, config, Abstract!Update,
        Abstract!Outcomes, Outcomes, AbstractAnswer

LEMMA AbstractPublish ==
    ASSUME UpdateCycleAssumption, IInv, Publish
    PROVE  Abstract!Publish
  <1>1. Tasks' = Tasks /\ pc = "run" /\ AllJoined
    BY DEF Publish, config, Tasks
  <1>2. \A i \in Tasks : results[i] # BlankResult
    BY <1>1, AllJoinedMeansAllWritten
  <1>3. \A i \in Tasks : AbstractAnswer[i] # "none"
    BY <1>2, ResultFacts DEF IInv, TypeOK, AbstractAnswer, AnswerOf, Outcomes
  <1>4. AbstractAnswer' = AbstractAnswer
    BY <1>1 DEF Publish, AbstractAnswer
  <1>5. AbstractReport' = [published |-> TRUE, statuses |-> AbstractAnswer]
    BY <1>1 DEF Publish, ArrayOf, AbstractReport, AbstractAnswer
  <1>6. AbstractStage = "updating" /\ AbstractStage' = "idle"
    BY DEF Publish, AbstractStage
  <1>7. QED
    BY <1>1, <1>3, <1>4, <1>5, <1>6 DEF Publish, config, Abstract!Publish, Abstract!Tasks,
        Abstract!ReportOf, AbstractAnswer, Tasks

LEMMA AbstractAbort == SpawnFails => Abstract!Abort
  <1> SUFFICES ASSUME SpawnFails PROVE Abstract!Abort
    OBVIOUS
  <1>1. Tasks' = Tasks /\ AbstractAnswer' = AbstractAnswer /\ AbstractReport' = AbstractReport
    BY DEF SpawnFails, config, Tasks, AbstractAnswer, AbstractReport
  <1>2. AbstractStage = "updating" /\ AbstractStage' = "aborted"
    BY DEF SpawnFails, AbstractStage
  <1>3. QED
    BY <1>1, <1>2 DEF SpawnFails, config, Abstract!Abort, AbstractAnswer

LEMMA AbstractStep ==
    ASSUME UpdateCycleAssumption, IInv, [Next]_vars
    PROVE  [Abstract!Next]_(Abstract!vars)
  <1>1. CASE BeginCycle
    BY <1>1, AbstractBegin DEF Abstract!Next
  <1>2. CASE SpawnWorker
    BY <1>2, AbstractStutter DEF SpawnWorker, AbstractStage
  <1>3. CASE SpawnFails
    BY <1>3, AbstractAbort DEF Abstract!Next
  <1>4. ASSUME NEW r \in Runners, RunnerStep(r) PROVE [Abstract!Next]_(Abstract!vars)
    <2>1. CASE ClaimTask(r)
      BY <2>1, AbstractStutter DEF ClaimTask, AbstractStage
    <2>2. CASE ExitRunner(r)
      BY <2>2, AbstractStutter DEF ExitRunner, AbstractStage
    <2>3. CASE FinishTask(r)
      <3>1. claim[r] \in Tasks
        BY <2>3, RunnersAreRunners DEF FinishTask, IInv, TypeOK
      <3>2. Abstract!Update(claim[r])
        BY <2>3, AbstractUpdate
      <3>3. QED
        BY <3>1, <3>2 DEF Abstract!Next, Abstract!Tasks, Tasks
    <2>4. QED
      BY <1>4, <2>1, <2>2, <2>3 DEF RunnerStep
  <1>5. CASE Publish
    BY <1>5, AbstractPublish DEF Abstract!Next
  <1>6. CASE Tick
    BY <1>6, AbstractStutter DEF Tick, work, AbstractStage
  <1>7. CASE Terminated \/ UNCHANGED vars
    BY <1>7, AbstractStutter DEF Terminated, vars, work, AbstractStage
  <1>8. QED
    BY <1>1, <1>2, <1>3, <1>4, <1>5, <1>6, <1>7 DEF Next

\* The pool implements the cycle without threads: each task is updated exactly once
\* and the results are published in the order of the tasks.
THEOREM Refinement == Spec => ImplementsDiagnosticsCycle
  <1>1. Init => Abstract!Init
    BY AbstractInit, UpdateCycleAssumption
  <1>2. IInv /\ [Next]_vars => [Abstract!Next]_(Abstract!vars)
    BY AbstractStep, UpdateCycleAssumption
  <1>3. QED
    BY <1>1, <1>2, Invariance, PTL DEF Spec, ImplementsDiagnosticsCycle, Abstract!Spec

=============================================================================
