--------------------------- MODULE StorageTaskProofs ---------------------------
(***************************************************************************)
(* Proofs about StorageTask, for any number of instances, processes and    *)
(* process numbers, any lists of paths, and any number of crashes.         *)
(***************************************************************************)
EXTENDS StorageTask, TLAPS

-----------------------------------------------------------------------------
(* The inductive invariant                                                 *)

Levels == {OK, WARN, ERROR}
Reasons == {"usage ok", "failed", "not writable", "error_usage", "warn_usage"}
Messages == [path : Paths, what : Reasons]
AnyVolume == Volumes \cup {NoVolume}
Values == [path : Paths, failed : BOOLEAN, volume : AnyVolume, writable : BOOLEAN]

InUpdate == {"statvfs", "open", "unlink"}
Stages == {"unconfigured", "idle"} \cup InUpdate

TypeOK ==
    /\ process \in [Instances -> Processes]
    /\ pid \in [Processes -> Pids]
    /\ stage \in [Instances -> Stages]
    /\ paths_ \in [Instances -> Seq(Paths)]
    /\ check_writable_ \in [Instances -> BOOLEAN]
    /\ volume \in [Instances -> AnyVolume]
    /\ level \in [Instances -> Levels]
    /\ message \in [Instances -> Messages]
    /\ values \in [Instances -> Seq(Values)]

\* There is a path whose turn it is as long as update() runs, and one to begin with.
TurnExists ==
    \A i \in Instances :
        /\ paths_[i] # <<>>
        /\ stage[i] \in InUpdate => Len(values[i]) < Len(paths_[i])

\* What SummaryIsWorstPath says, from the first turn of the loop on: before it the
\* summary is OK.
Explained(i) ==
    /\ \A n \in DOMAIN values[i] : LevelOf(i, values[i][n]) <= level[i]
    /\ level[i] # OK =>
        \E n \in DOMAIN values[i] :
            /\ LevelOf(i, values[i][n]) = level[i]
            /\ values[i][n].path = message[i].path

IInv ==
    /\ TypeOK
    /\ TurnExists
    /\ EveryFileHasOneOwner
    /\ \A i \in Instances : Explained(i)

-----------------------------------------------------------------------------
(* Lemmas                                                                  *)

LEMMA LevelsAreOrdered ==
    ASSUME NEW i, NEW value
    PROVE  /\ OK \in Levels /\ WARN \in Levels /\ ERROR \in Levels
           /\ LevelOf(i, value) \in Levels
           /\ \A l \in Levels : OK <= l /\ l <= ERROR /\ (l # ERROR => l <= WARN)
                                /\ (l < WARN => l = OK) /\ l <= l
  BY DEF Levels, OK, WARN, ERROR, LevelOf

LEMMA CurrentPath ==
    ASSUME TypeOK, TurnExists, NEW i \in Instances, stage[i] \in InUpdate
    PROVE  Current(i) \in Paths
  BY DEF TypeOK, TurnExists, Current

\* What the loop has found after a turn, from what it had found before.
Follows(i, found, value) ==
    /\ found \in [level : Levels, message : Messages]
    /\ value \in Values
    /\ level[i] <= found.level
    /\ LevelOf(i, value) <= found.level
    /\ \/ found.level = level[i] /\ found.message = message[i]
       \/ found.level = LevelOf(i, value) /\ found.message.path = value.path

\* An error takes over, and a warning only if nothing was found yet.
LEMMA AfterPathFollows ==
    ASSUME TypeOK, TurnExists, NEW i \in Instances, stage[i] \in InUpdate,
           NEW v \in AnyVolume, NEW writable \in BOOLEAN
    PROVE  Follows(i,
               AfterPath([level |-> level[i], message |-> message[i]], Current(i), v, writable),
               [path |-> Current(i), failed |-> FALSE, volume |-> v, writable |-> writable])
  <1> DEFINE before == [level |-> level[i], message |-> message[i]]
             value == [path |-> Current(i), failed |-> FALSE, volume |-> v, writable |-> writable]
             found == AfterPath(before, Current(i), v, writable)
  <1>1. Current(i) \in Paths /\ level[i] \in Levels /\ message[i] \in Messages
    BY CurrentPath DEF TypeOK
  <1>2. value \in Values
    BY <1>1 DEF Values
  <1>3. LevelOf(i, value) = IF ~writable \/ UsageReaches(v, ErrorUsage) THEN ERROR
                            ELSE IF UsageReaches(v, WarnUsage) THEN WARN ELSE OK
    BY DEF LevelOf
  <1>4. CASE ~writable \/ UsageReaches(v, ErrorUsage)
    <2>1. PICK what \in {"not writable", "error_usage"} :
              found = [level |-> ERROR, message |-> [path |-> Current(i), what |-> what]]
      <3>1. CASE ~writable
        BY <3>1 DEF AfterPath
      <3>2. CASE writable
        BY <1>4, <3>2 DEF AfterPath
      <3>3. QED
        BY <3>1, <3>2
    <2>2. found.level = ERROR /\ found.message.path = Current(i) /\ found \in [level : Levels, message : Messages]
      <3> HIDE DEF found
      <3>1. [path |-> Current(i), what |-> what] \in Messages
        BY <1>1 DEF Messages, Reasons
      <3>2. QED
        BY <2>1, <3>1, LevelsAreOrdered
    <2>3. QED
      BY <1>1, <1>2, <1>3, <1>4, <2>2, LevelsAreOrdered DEF Follows
  <1>5. CASE writable /\ ~UsageReaches(v, ErrorUsage) /\ UsageReaches(v, WarnUsage) /\ level[i] < WARN
    <2>1. found = [level |-> WARN, message |-> [path |-> Current(i), what |-> "warn_usage"]]
      BY <1>5 DEF AfterPath
    <2>2. found.level = WARN /\ found.message.path = Current(i) /\ found \in [level : Levels, message : Messages]
      <3>1. [path |-> Current(i), what |-> "warn_usage"] \in Messages
        BY <1>1 DEF Messages, Reasons
      <3>2. QED
        BY <2>1, <3>1, LevelsAreOrdered
    <2>3. QED
      BY <1>1, <1>2, <1>3, <1>5, <2>2, LevelsAreOrdered DEF Follows
  <1>6. CASE /\ writable /\ ~UsageReaches(v, ErrorUsage)
             /\ ~(UsageReaches(v, WarnUsage) /\ level[i] < WARN)
    <2>1. found = before
      BY <1>6 DEF AfterPath
    <2>2. LevelOf(i, value) <= level[i]
      BY <1>1, <1>3, <1>6 DEF Levels, OK, WARN, ERROR
    <2>3. found.level = level[i] /\ found.message = message[i] /\ found \in [level : Levels, message : Messages]
      BY <1>1, <2>1
    <2>4. QED
      BY <1>1, <1>2, <2>2, <2>3, LevelsAreOrdered DEF Follows
  <1>7. QED
    BY <1>4, <1>5, <1>6

\* A turn of the loop keeps all but the files in order.
LEMMA TurnEnds ==
    ASSUME TypeOK, TurnExists, \A j \in Instances : Explained(j),
           NEW i \in Instances, stage[i] \in InUpdate,
           NEW found, NEW value, Follows(i, found, value), EndTurn(i, found, value),
           UNCHANGED <<settings, pid>>
    PROVE  /\ TypeOK'
           /\ TurnExists'
           /\ \A j \in Instances : Explained(j)'
           /\ \A j \in Instances \ {i} : stage'[j] = stage[j] /\ values'[j] = values[j]
           /\ stage'[i] # "unlink"
           /\ values'[i] = Append(values[i], value)
  <1>1. /\ values' = [values EXCEPT ![i] = Append(values[i], value)]
        /\ level' = [level EXCEPT ![i] = found.level]
        /\ message' = [message EXCEPT ![i] = found.message]
        /\ volume' = [volume EXCEPT ![i] = NoVolume]
        /\ stage' = [stage EXCEPT ![i] = IF Len(values'[i]) = Len(paths_[i]) THEN "idle" ELSE "statvfs"]
    BY DEF EndTurn
  <1>2. values'[i] = Append(values[i], value) /\ values[i] \in Seq(Values) /\ value \in Values
    BY <1>1 DEF TypeOK, Follows
  <1>3. /\ values'[i] \in Seq(Values)
        /\ Len(values'[i]) = Len(values[i]) + 1
        /\ \A n \in 1 .. Len(values[i]) : values'[i][n] = values[i][n]
        /\ values'[i][Len(values[i]) + 1] = value
    BY <1>2
  <1>4. UNCHANGED <<process, paths_, check_writable_, pid>>
    BY DEF settings
  <1>5. TypeOK'
    <2>1. values' \in [Instances -> Seq(Values)]
      BY <1>1, <1>2, <1>3 DEF TypeOK
    <2>2. level' \in [Instances -> Levels] /\ message' \in [Instances -> Messages]
      BY <1>1 DEF TypeOK, Follows
    <2>3. volume' \in [Instances -> AnyVolume]
      BY <1>1 DEF TypeOK, AnyVolume
    <2>4. stage' \in [Instances -> Stages]
      BY <1>1 DEF TypeOK, Stages, InUpdate
    <2>5. QED
      BY <1>4, <2>1, <2>2, <2>3, <2>4 DEF TypeOK
  <1>6. \A j \in Instances \ {i} :
            /\ stage'[j] = stage[j] /\ values'[j] = values[j]
            /\ level'[j] = level[j] /\ message'[j] = message[j]
    BY <1>1 DEF TypeOK
  <1>7. stage'[i] = IF Len(values'[i]) = Len(paths_[i]) THEN "idle" ELSE "statvfs"
    BY <1>1 DEF TypeOK
  <1>8. TurnExists'
    <2>1. Len(values[i]) < Len(paths_[i]) /\ Len(paths_[i]) \in Nat /\ Len(values[i]) \in Nat
      BY <1>2 DEF TurnExists, TypeOK
    <2>2. stage'[i] \in InUpdate => Len(values'[i]) < Len(paths_[i])
      BY <1>3, <1>7, <2>1 DEF InUpdate
    <2>3. QED
      BY <1>4, <1>6, <2>2 DEF TurnExists
  <1>9. Explained(i)'
    <2>1. level'[i] = found.level /\ message'[i] = found.message
      BY <1>1 DEF TypeOK
    <2>2. DOMAIN values'[i] = DOMAIN values[i] \cup {Len(values[i]) + 1} /\ DOMAIN values[i] = 1 .. Len(values[i])
      BY <1>2, <1>3
    <2>3. \A w : LevelOf(i, w)' = LevelOf(i, w)
      BY DEF LevelOf, UsageReaches
    <2>4. \A n \in DOMAIN values[i] : values'[i][n] = values[i][n]
      BY <1>3, <2>2
    <2>5. ASSUME NEW n \in DOMAIN values'[i] PROVE LevelOf(i, values'[i][n]) <= found.level
      <3>1. CASE n \in DOMAIN values[i]
        <4>1. LevelOf(i, values[i][n]) <= level[i] /\ level[i] <= found.level
          BY <3>1 DEF Explained, Follows
        <4>2. LevelOf(i, values[i][n]) \in Levels /\ level[i] \in Levels /\ found.level \in Levels
          BY LevelsAreOrdered DEF TypeOK, Follows
        <4>3. QED
          BY <2>4, <3>1, <4>1, <4>2 DEF Levels, OK, WARN, ERROR
      <3>2. CASE n = Len(values[i]) + 1
        BY <1>3, <3>2 DEF Follows
      <3>3. QED
        BY <2>2, <2>5, <3>1, <3>2
    <2>6. found.level # OK =>
            \E n \in DOMAIN values'[i] : /\ LevelOf(i, values'[i][n]) = found.level
                                         /\ values'[i][n].path = found.message.path
      <3>1. CASE found.level = level[i] /\ found.message = message[i]
        BY <2>2, <2>4, <3>1 DEF Explained
      <3>2. CASE found.level = LevelOf(i, value) /\ found.message.path = value.path
        BY <1>3, <2>2, <3>2
      <3>3. QED
        BY <3>1, <3>2 DEF Follows
    <2>7. QED
      BY <2>1, <2>3, <2>5, <2>6 DEF Explained
  <1>10. \A j \in Instances \ {i} : Explained(j)'
    BY <1>6 DEF Explained, LevelOf, UsageReaches
  <1>11. QED
    BY <1>2, <1>5, <1>6, <1>7, <1>8, <1>9, <1>10

\* The file of a check depends on the path and the process of the instance alone.
LEMMA SameTestFile ==
    ASSUME NEW i, paths_'[i] = paths_[i], values'[i] = values[i],
           process'[i] = process[i], pid'[process[i]] = pid[process[i]]
    PROVE  TestFile(i)' = TestFile(i)
  BY DEF TestFile, Current

\* A step that leaves the files and the checks alone, and what names the files of these.
LEMMA OwnersUndisturbed ==
    ASSUME EveryFileHasOneOwner, UNCHANGED <<files, left_over>>, Checking' = Checking,
           \A i \in Checking : TestFile(i)' = TestFile(i)
    PROVE  EveryFileHasOneOwner'
  <1>1. {TestFile(i) : i \in Checking}' = {TestFile(i) : i \in Checking}
    OBVIOUS
  <1>2. QED
    BY <1>1 DEF EveryFileHasOneOwner

-----------------------------------------------------------------------------
(* The invariant holds initially and is preserved                          *)

LEMMA InitInvariant == StorageAssumption /\ Init => IInv
  <1> SUFFICES ASSUME StorageAssumption, Init PROVE IInv
    OBVIOUS
  <1>1. Root \in Paths
    BY DEF Paths
  <1>2. TypeOK
    <2>1. <<Root>> \in Seq(Paths) /\ <<>> \in Seq(Values) /\ UsageOk \in Messages
      BY <1>1 DEF UsageOk, Messages, Reasons
    <2>2. QED
      BY <2>1 DEF Init, TypeOK, Stages, Levels, AnyVolume
  <1>3. TurnExists
    BY DEF Init, TurnExists, InUpdate
  <1>4. EveryFileHasOneOwner
    BY DEF Init, EveryFileHasOneOwner, Checking
  <1>5. \A i \in Instances : Explained(i)
    BY DEF Init, Explained
  <1>6. QED
    BY <1>2, <1>3, <1>4, <1>5 DEF IInv

LEMMA ConfigureInvariant ==
    ASSUME StorageAssumption, IInv, NEW i \in Instances, Configure(i)
    PROVE  IInv'
  <1> USE DEF IInv
  <1>1. PICK list \in PathLists[i] :
            paths_' = [paths_ EXCEPT ![i] = IF list = <<>> THEN <<Root>> ELSE list]
    BY DEF Configure
  <1>2. /\ list \in Seq(Paths) /\ <<Root>> \in Seq(Paths) /\ <<Root>> # <<>>
        /\ stage' = [stage EXCEPT ![i] = "idle"] /\ stage[i] = "unconfigured"
        /\ check_writable_' \in [Instances -> BOOLEAN]
        /\ UNCHANGED <<files, left_over, process, pid, volume, level, message, values>>
    <2>1. list \in Seq(Paths) /\ <<Root>> # <<>>
      BY DEF StorageAssumption
    <2>2. <<Root>> \in Seq(Paths)
      BY DEF Paths
    <2>3. PICK b \in BOOLEAN : check_writable_' = [check_writable_ EXCEPT ![i] = b]
      BY DEF Configure
    <2>4. check_writable_' \in [Instances -> BOOLEAN]
      BY <2>3 DEF TypeOK
    <2>5. QED
      BY <2>1, <2>2, <2>4 DEF Configure, host, summary
  <1>3. TypeOK'
    BY <1>1, <1>2 DEF TypeOK, Stages
  <1>4. TurnExists'
    BY <1>1, <1>2 DEF TypeOK, TurnExists, InUpdate
  <1>5. Checking' = Checking /\ i \notin Checking
    BY <1>2 DEF Checking, TypeOK
  <1>6. \A j \in Checking : TestFile(j)' = TestFile(j)
    BY <1>1, <1>2, <1>5, SameTestFile DEF Checking, TypeOK
  <1>7. EveryFileHasOneOwner'
    BY <1>2, <1>5, <1>6, OwnersUndisturbed
  <1>8. \A j \in Instances : Explained(j)'
    BY <1>2 DEF Explained, LevelOf, UsageReaches
  <1>9. QED
    BY <1>3, <1>4, <1>7, <1>8

LEMMA CleanupInvariant ==
    ASSUME IInv, NEW i \in Instances, Cleanup(i)
    PROVE  IInv'
  <1> USE DEF IInv
  <1>1. /\ stage' = [stage EXCEPT ![i] = "unconfigured"] /\ stage[i] = "idle"
        /\ UNCHANGED <<files, left_over, process, paths_, check_writable_, pid, volume,
                       level, message, values>>
    BY DEF Cleanup, host, settings, summary
  <1>2. TypeOK'
    BY <1>1 DEF TypeOK, Stages
  <1>3. TurnExists'
    BY <1>1 DEF TypeOK, TurnExists, InUpdate
  <1>4. Checking' = Checking /\ \A j \in Checking : TestFile(j)' = TestFile(j)
    BY <1>1, SameTestFile DEF Checking, TypeOK
  <1>5. EveryFileHasOneOwner'
    BY <1>1, <1>4, OwnersUndisturbed
  <1>6. \A j \in Instances : Explained(j)'
    BY <1>1 DEF Explained, LevelOf, UsageReaches
  <1>7. QED
    BY <1>2, <1>3, <1>5, <1>6

LEMMA BeginUpdateInvariant ==
    ASSUME IInv, NEW i \in Instances, BeginUpdate(i)
    PROVE  IInv'
  <1> USE DEF IInv
  <1>1. /\ stage' = [stage EXCEPT ![i] = "statvfs"] /\ stage[i] = "idle"
        /\ level' = [level EXCEPT ![i] = OK]
        /\ message' = [message EXCEPT ![i] = UsageOk]
        /\ values' = [values EXCEPT ![i] = <<>>]
        /\ UNCHANGED <<files, left_over, process, paths_, check_writable_, pid, volume>>
    BY DEF BeginUpdate, host, settings
  <1>2. TypeOK'
    <2>1. <<>> \in Seq(Values) /\ UsageOk \in Messages
      BY DEF UsageOk, Messages, Reasons, Paths
    <2>2. QED
      BY <1>1, <2>1 DEF TypeOK, Stages, InUpdate, Levels
  <1>3. TurnExists'
    <2>1. values'[i] = <<>> /\ paths_[i] \in Seq(Paths) /\ paths_[i] # <<>>
      BY <1>1 DEF TypeOK, TurnExists
    <2>2. Len(values'[i]) < Len(paths_[i])
      BY <2>1
    <2>3. \A j \in Instances \ {i} : stage'[j] = stage[j] /\ values'[j] = values[j]
      BY <1>1 DEF TypeOK
    <2>4. QED
      BY <1>1, <2>2, <2>3 DEF TurnExists
  <1>4. Checking' = Checking /\ i \notin Checking
    BY <1>1 DEF Checking, TypeOK
  <1>5. \A j \in Checking : TestFile(j)' = TestFile(j)
    BY <1>1, <1>4, SameTestFile DEF Checking, TypeOK
  <1>6. EveryFileHasOneOwner'
    BY <1>1, <1>4, <1>5, OwnersUndisturbed
  <1>7. Explained(i)'
    BY <1>1 DEF TypeOK, Explained
  <1>8. \A j \in Instances \ {i} : Explained(j)'
    BY <1>1 DEF TypeOK, Explained, LevelOf, UsageReaches
  <1>9. QED
    BY <1>2, <1>3, <1>6, <1>7, <1>8

\* The end of a turn in which instance i is not the owner of a file.
LEMMA TurnWithoutFile ==
    ASSUME IInv, NEW i \in Instances, stage[i] \in InUpdate, stage[i] # "unlink",
           NEW found, NEW value, Follows(i, found, value), EndTurn(i, found, value),
           UNCHANGED <<host, settings, pid>>
    PROVE  IInv'
  <1> USE DEF IInv
  <1>1. /\ TypeOK'
        /\ TurnExists'
        /\ \A j \in Instances : Explained(j)'
        /\ \A j \in Instances \ {i} : stage'[j] = stage[j] /\ values'[j] = values[j]
        /\ stage'[i] # "unlink"
    BY TurnEnds
  <1>2. Checking' = Checking /\ i \notin Checking
    BY <1>1 DEF Checking
  <1>3. \A j \in Checking : TestFile(j)' = TestFile(j)
    BY <1>1, <1>2, SameTestFile DEF Checking, settings
  <1>4. EveryFileHasOneOwner'
    BY <1>2, <1>3, OwnersUndisturbed DEF host
  <1>5. QED
    BY <1>1, <1>4

LEMMA StatvfsInvariant ==
    ASSUME StorageAssumption, IInv, NEW i \in Instances, Statvfs(i) \/ StatvfsFails(i)
    PROVE  IInv'
  <1> USE DEF IInv
  <1>1. stage[i] = "statvfs" /\ stage[i] \in InUpdate /\ Current(i) \in Paths
    BY CurrentPath DEF Statvfs, StatvfsFails, InUpdate
  <1>2. CASE StatvfsFails(i)
    <2> DEFINE found == [level |-> ERROR, message |-> [path |-> Current(i), what |-> "failed"]]
               value == [path |-> Current(i), failed |-> TRUE, volume |-> NoVolume, writable |-> TRUE]
    <2>1. found.message \in Messages /\ value \in Values
      BY <1>1 DEF Messages, Reasons, Values, AnyVolume
    <2>2. LevelOf(i, value) = ERROR
      BY DEF LevelOf
    <2>3. Follows(i, found, value)
      BY <2>1, <2>2, LevelsAreOrdered DEF Follows, TypeOK
    <2>4. EndTurn(i, found, value) /\ UNCHANGED <<host, settings, pid>>
      BY <1>2 DEF StatvfsFails
    <2> HIDE DEF found, value
    <2>5. QED
      BY <1>1, <2>3, <2>4, TurnWithoutFile
  <1>3. ASSUME Statvfs(i), NEW v \in Volumes, ~check_writable_[i], Judge(i, v, TRUE)
        PROVE  IInv'
    <2> DEFINE found == AfterPath([level |-> level[i], message |-> message[i]], Current(i), v, TRUE)
               value == [path |-> Current(i), failed |-> FALSE, volume |-> v, writable |-> TRUE]
    <2>1. Follows(i, found, value)
      BY <1>1, AfterPathFollows DEF AnyVolume
    <2>2. EndTurn(i, found, value) /\ UNCHANGED <<host, settings, pid>>
      BY <1>3 DEF Statvfs, Judge
    <2> HIDE DEF found, value
    <2>3. QED
      BY <1>1, <2>1, <2>2, TurnWithoutFile
  <1>4. ASSUME Statvfs(i), NEW v \in Volumes,
               volume' = [volume EXCEPT ![i] = v], stage' = [stage EXCEPT ![i] = "open"],
               UNCHANGED summary
        PROVE  IInv'
    <2>1. UNCHANGED <<files, left_over, process, paths_, check_writable_, pid, level, message, values>>
      BY <1>4 DEF Statvfs, host, settings, summary
    <2>2. TypeOK'
      BY <1>4, <2>1 DEF TypeOK, Stages, InUpdate, AnyVolume
    <2>3. TurnExists'
      BY <1>1, <1>4, <2>1 DEF TypeOK, TurnExists, InUpdate
    <2>4. Checking' = Checking /\ \A j \in Checking : TestFile(j)' = TestFile(j)
      BY <1>1, <1>4, <2>1, SameTestFile DEF Checking, TypeOK
    <2>5. EveryFileHasOneOwner'
      BY <2>1, <2>4, OwnersUndisturbed
    <2>6. \A j \in Instances : Explained(j)'
      BY <2>1 DEF Explained, LevelOf, UsageReaches
    <2>7. QED
      BY <2>2, <2>3, <2>5, <2>6
  <1>5. QED
    BY <1>2, <1>3, <1>4 DEF Statvfs

\* The new file is nobody else's: O_EXCL.
LEMMA OpenInvariant ==
    ASSUME StorageAssumption, IInv, NEW i \in Instances, Open(i)
    PROVE  IInv'
  <1> USE DEF IInv
  <1>1. stage[i] = "open" /\ stage[i] \in InUpdate /\ UNCHANGED <<left_over, settings, pid>>
    BY DEF Open, InUpdate
  <1>2. CASE ~CanCreate(i)
    <2> DEFINE found == AfterPath([level |-> level[i], message |-> message[i]], Current(i), volume[i], FALSE)
               value == [path |-> Current(i), failed |-> FALSE, volume |-> volume[i], writable |-> FALSE]
    <2>1. Follows(i, found, value)
      BY <1>1, AfterPathFollows DEF TypeOK
    <2>2. EndTurn(i, found, value) /\ UNCHANGED <<host, settings, pid>>
      BY <1>2 DEF Open, Judge, host
    <2> HIDE DEF found, value
    <2>3. QED
      BY <1>1, <2>1, <2>2, TurnWithoutFile
  <1>3. CASE CanCreate(i)
    <2>1. /\ files' = files \cup {TestFile(i)}
          /\ stage' = [stage EXCEPT ![i] = "unlink"]
          /\ TestFile(i) \notin files
          /\ UNCHANGED <<process, paths_, check_writable_, volume, level, message, values>>
      BY <1>3 DEF Open, CanCreate, settings, summary
    <2>2. TypeOK'
      BY <1>1, <2>1 DEF TypeOK, Stages, InUpdate
    <2>3. TurnExists'
      BY <1>1, <2>1 DEF TypeOK, TurnExists, InUpdate
    <2>4. Checking' = Checking \cup {i} /\ i \notin Checking
      BY <1>1, <2>1 DEF Checking, TypeOK
    <2>5. \A j \in Instances : TestFile(j)' = TestFile(j)
      BY <1>1, <2>1, SameTestFile
    <2>6. EveryFileHasOneOwner'
      <3>1. Checking \subseteq Instances
        BY DEF Checking
      <3>2. \A j \in Checking' : TestFile(j)' \in (files \ left_over)'
        BY <1>1, <2>1, <2>4, <2>5, <3>1 DEF EveryFileHasOneOwner
      <3>3. \A j, k \in Checking' : TestFile(j)' = TestFile(k)' => j = k
        BY <2>1, <2>4, <2>5, <3>1 DEF EveryFileHasOneOwner
      <3>4. {TestFile(j) : j \in Checking}' = {TestFile(j) : j \in Checking} \cup {TestFile(i)}
        BY <2>4, <2>5, <3>1
      <3>5. QED
        BY <1>1, <2>1, <3>2, <3>3, <3>4 DEF EveryFileHasOneOwner
    <2>7. \A j \in Instances : Explained(j)'
      BY <2>1 DEF Explained, LevelOf, UsageReaches
    <2>8. QED
      BY <2>2, <2>3, <2>6, <2>7
  <1>4. QED
    BY <1>2, <1>3

\* The file that is removed, or left over, was the instance's own.
LEMMA UnlinkInvariant ==
    ASSUME StorageAssumption, IInv, NEW i \in Instances, Unlink(i)
    PROVE  IInv'
  <1> USE DEF IInv
  <1> DEFINE removed == Current(i) \notin read_only /\ TestFile(i) \in files
             found == AfterPath([level |-> level[i], message |-> message[i]], Current(i), volume[i], removed)
             value == [path |-> Current(i), failed |-> FALSE, volume |-> volume[i], writable |-> removed]
  <1>1. /\ stage[i] = "unlink" /\ stage[i] \in InUpdate
        /\ files' = IF removed THEN files \ {TestFile(i)} ELSE files
        /\ left_over' = IF removed THEN left_over ELSE left_over \cup {TestFile(i)}
        /\ EndTurn(i, found, value)
        /\ UNCHANGED <<settings, pid>>
    BY DEF Unlink, Judge, InUpdate
  <1>2. removed \in BOOLEAN
    OBVIOUS
  <1>3. Follows(i, found, value)
    BY <1>1, <1>2, AfterPathFollows DEF TypeOK
  <1> HIDE DEF removed, found, value
  <1>4. /\ TypeOK'
        /\ TurnExists'
        /\ \A j \in Instances : Explained(j)'
        /\ \A j \in Instances \ {i} : stage'[j] = stage[j] /\ values'[j] = values[j]
        /\ stage'[i] # "unlink"
    BY <1>1, <1>3, TurnEnds
  <1>5. Checking' = Checking \ {i} /\ i \in Checking /\ Checking \subseteq Instances
    BY <1>1, <1>4 DEF Checking
  <1>6. \A j \in Checking' : TestFile(j)' = TestFile(j)
    BY <1>1, <1>4, <1>5, SameTestFile DEF settings
  <1>7. \A j \in Checking' : TestFile(j) # TestFile(i)
    BY <1>5 DEF EveryFileHasOneOwner
  <1>8. {TestFile(j) : j \in Checking}' = {TestFile(j) : j \in Checking} \ {TestFile(i)}
    BY <1>5, <1>6, <1>7
  <1>9. EveryFileHasOneOwner'
    <2>1. \A j \in Checking' : TestFile(j)' \in (files \ left_over)'
      BY <1>1, <1>5, <1>6, <1>7 DEF EveryFileHasOneOwner
    <2>2. \A j, k \in Checking' : TestFile(j)' = TestFile(k)' => j = k
      BY <1>5, <1>6 DEF EveryFileHasOneOwner
    <2>3. TestFile(i) \in files /\ TestFile(i) \notin left_over
      BY <1>5 DEF EveryFileHasOneOwner
    <2>4. files' = left_over' \cup {TestFile(j) : j \in Checking}'
      BY <1>1, <1>5, <1>8, <2>3 DEF EveryFileHasOneOwner
    <2>5. QED
      BY <2>1, <2>2, <2>4 DEF EveryFileHasOneOwner
  <1>10. QED
    BY <1>4, <1>9

LEMMA RemountInvariant ==
    ASSUME IInv, NEW path, Remount(path)
    PROVE  IInv'
  <1>1. UNCHANGED <<files, left_over, process, paths_, check_writable_, pid, stage, volume,
                    level, message, values>>
    BY DEF Remount, settings, summary
  <1>2. Checking' = Checking /\ \A i \in Checking : TestFile(i)' = TestFile(i)
    BY <1>1, SameTestFile DEF Checking
  <1>3. EveryFileHasOneOwner'
    BY <1>1, <1>2, OwnersUndisturbed DEF IInv
  <1>4. QED
    BY <1>1, <1>3 DEF IInv, TypeOK, TurnExists, Explained, LevelOf, UsageReaches

\* The files of the checks that the crash interrupts are left over; the other checks
\* are of processes that keep their number.
LEMMA CrashInvariant ==
    ASSUME StorageAssumption, IInv, NEW p \in Processes, Crash(p)
    PROVE  IInv'
  <1> USE DEF IInv
  <1> DEFINE lost == {i \in Instances : process[i] = p}
             abandoned == {TestFile(i) : i \in {j \in lost : stage[j] = "unlink"}}
  <1>1. PICK n \in Pids : pid' = [pid EXCEPT ![p] = n]
    BY DEF Crash
  <1>2. /\ left_over' = left_over \cup abandoned
        /\ stage' = [i \in Instances |-> IF i \in lost THEN "unconfigured" ELSE stage[i]]
        /\ paths_' = [i \in Instances |-> IF i \in lost THEN <<Root>> ELSE paths_[i]]
        /\ check_writable_' = [i \in Instances |-> IF i \in lost THEN FALSE ELSE check_writable_[i]]
        /\ volume' = [i \in Instances |-> IF i \in lost THEN NoVolume ELSE volume[i]]
        /\ level' = [i \in Instances |-> IF i \in lost THEN OK ELSE level[i]]
        /\ message' = [i \in Instances |-> IF i \in lost THEN UsageOk ELSE message[i]]
        /\ values' = [i \in Instances |-> IF i \in lost THEN <<>> ELSE values[i]]
        /\ UNCHANGED <<files, process>>
    BY DEF Crash
  <1>3. TypeOK'
    <2>1. <<Root>> \in Seq(Paths) /\ <<>> \in Seq(Values) /\ UsageOk \in Messages
          /\ NoVolume \in AnyVolume /\ OK \in Levels
      BY DEF UsageOk, Messages, Reasons, Paths, AnyVolume, Levels
    <2>2. /\ stage' \in [Instances -> Stages] /\ paths_' \in [Instances -> Seq(Paths)]
          /\ check_writable_' \in [Instances -> BOOLEAN]
      BY <1>2, <2>1 DEF TypeOK, Stages
    <2>3. /\ volume' \in [Instances -> AnyVolume] /\ level' \in [Instances -> Levels]
          /\ message' \in [Instances -> Messages] /\ values' \in [Instances -> Seq(Values)]
      BY <1>2, <2>1 DEF TypeOK
    <2>4. process' \in [Instances -> Processes] /\ pid' \in [Processes -> Pids]
      BY <1>1, <1>2 DEF TypeOK
    <2>5. QED
      BY <2>2, <2>3, <2>4 DEF TypeOK
  <1>4. \A i \in lost : /\ stage'[i] = "unconfigured" /\ paths_'[i] = <<Root>>
                         /\ level'[i] = OK /\ values'[i] = <<>>
    BY <1>2
  <1>5. \A i \in Instances \ lost :
            /\ stage'[i] = stage[i] /\ paths_'[i] = paths_[i] /\ level'[i] = level[i]
            /\ message'[i] = message[i] /\ values'[i] = values[i]
            /\ process'[i] = process[i] /\ pid'[process[i]] = pid[process[i]]
    BY <1>1, <1>2 DEF TypeOK
  <1>6. TurnExists'
    <2>1. <<Root>> # <<>>
      OBVIOUS
    <2>2. QED
      BY <1>4, <1>5, <2>1 DEF TurnExists, InUpdate
  <1>7. \A i \in Instances : Explained(i)'
    <2>1. \A i \in lost : Explained(i)'
      BY <1>4 DEF Explained
    <2>2. ASSUME NEW i \in Instances \ lost PROVE Explained(i)'
      <3>1. level'[i] = level[i] /\ message'[i] = message[i] /\ values'[i] = values[i]
        BY <1>5
      <3>2. QED
        BY <3>1 DEF Explained, LevelOf, UsageReaches
    <2>3. QED
      BY <2>1, <2>2
  <1>8. Checking' = Checking \ lost /\ Checking \subseteq Instances
    BY <1>4, <1>5 DEF Checking
  <1>9. \A i \in Checking' : TestFile(i)' = TestFile(i)
    BY <1>5, <1>8, SameTestFile
  <1>10. abandoned = {TestFile(i) : i \in Checking \cap lost}
    BY DEF Checking
  <1> HIDE DEF lost, abandoned
  <1>11. EveryFileHasOneOwner'
    <2>1. \A i \in Checking' : TestFile(i) \notin abandoned
      BY <1>8, <1>10 DEF EveryFileHasOneOwner
    <2>2. \A i \in Checking' : TestFile(i)' \in (files \ left_over)'
      BY <1>2, <1>8, <1>9, <2>1 DEF EveryFileHasOneOwner
    <2>3. \A i, j \in Checking' : TestFile(i)' = TestFile(j)' => i = j
      BY <1>8, <1>9 DEF EveryFileHasOneOwner
    <2>4. {TestFile(i) : i \in Checking} = abandoned \cup {TestFile(i) : i \in Checking}'
      BY <1>8, <1>9, <1>10
    <2>5. QED
      BY <1>2, <2>2, <2>3, <2>4 DEF EveryFileHasOneOwner
  <1>12. QED
    BY <1>3, <1>6, <1>7, <1>11

LEMMA NextInvariant == StorageAssumption /\ IInv /\ [Next]_vars => IInv'
  <1> SUFFICES ASSUME StorageAssumption, IInv, [Next]_vars PROVE IInv'
    OBVIOUS
  <1>1. ASSUME NEW i \in Instances, Configure(i) \/ Cleanup(i) \/ BeginUpdate(i)
        PROVE  IInv'
    BY <1>1, ConfigureInvariant, CleanupInvariant, BeginUpdateInvariant
  <1>2. ASSUME NEW i \in Instances, Statvfs(i) \/ StatvfsFails(i) \/ Open(i) \/ Unlink(i)
        PROVE  IInv'
    BY <1>2, StatvfsInvariant, OpenInvariant, UnlinkInvariant
  <1>3. ASSUME NEW path \in Removable, Remount(path) PROVE IInv'
    BY <1>3, RemountInvariant
  <1>4. ASSUME NEW p \in Processes, Crash(p) PROVE IInv'
    BY <1>4, CrashInvariant
  <1>5. CASE UNCHANGED vars
    <2>1. UNCHANGED <<files, left_over, process, paths_, check_writable_, pid, stage, volume,
                      level, message, values>>
      BY <1>5 DEF vars, host, settings, summary
    <2>2. Checking' = Checking /\ \A i \in Checking : TestFile(i)' = TestFile(i)
      BY <2>1, SameTestFile DEF Checking
    <2>3. EveryFileHasOneOwner'
      BY <2>1, <2>2, OwnersUndisturbed DEF IInv
    <2>4. QED
      BY <2>1, <2>3 DEF IInv, TypeOK, TurnExists, Explained, LevelOf, UsageReaches
  <1>6. QED
    BY <1>1, <1>2, <1>3, <1>4, <1>5 DEF Next

LEMMA Invariance == Spec => []IInv
  <1>1. Init => IInv
    BY InitInvariant, StorageAssumption
  <1>2. IInv /\ [Next]_vars => IInv'
    BY NextInvariant, StorageAssumption
  <1>3. QED
    BY <1>1, <1>2, PTL DEF Spec

-----------------------------------------------------------------------------
(* The theorems                                                            *)

\* Every test file is the file of one check that will remove it, or was left over by a
\* crash or a failed unlink: open() with O_EXCL keeps the checks apart, whatever
\* processes share a path or a number.
THEOREM FilesHaveOwners == Spec => []EveryFileHasOneOwner
  BY Invariance, PTL DEF IInv

\* The summary of the paths is that of the worst one, at every turn of the loop.
THEOREM WorstPathIsReported == Spec => []SummaryIsWorstPath
  <1>1. IInv => SummaryIsWorstPath
    BY DEF IInv, Explained, SummaryIsWorstPath
  <1>2. QED
    BY <1>1, Invariance, PTL

\* The last value, after a turn of the loop, is the one of the turn.
LEMMA LastValue ==
    ASSUME IInv, NEW i \in Instances, NEW k \in Instances, stage[k] \in InUpdate,
           NEW found, NEW value, Follows(k, found, value), EndTurn(k, found, value),
           UNCHANGED <<settings, pid>>,
           Len(values'[i]) > Len(values[i])
    PROVE  i = k /\ Last(values'[i]) = value
  <1>1. /\ \A j \in Instances \ {k} : values'[j] = values[j]
        /\ values'[k] = Append(values[k], value)
    BY TurnEnds DEF IInv
  <1>2. values[i] \in Seq(Values) /\ value \in Values
    BY DEF IInv, TypeOK, Follows
  <1>3. i = k
    BY <1>1, <1>2
  <1>4. Last(Append(values[i], value)) = value
    BY <1>2 DEF Last
  <1>5. QED
    BY <1>1, <1>3, <1>4

\* Why the path whose turn it is for instance i may be found not writable.
Reason(i, path) ==
    LET others == {j \in Checking \ {i} :
                    Current(j) = path /\ pid[process[j]] = pid[process[i]]}
    IN  \/ path \in read_only
        \/ others # {}
        \/ <<path, pid[process[i]]>> \in left_over

\* open() fails with a reason: a file that exists has an owner, or was left over.
LEMMA OpenFailsWithReason ==
    ASSUME IInv, NEW i \in Instances, stage[i] = "open", ~CanCreate(i)
    PROVE  Reason(i, Current(i))
  <1>1. CASE Current(i) \in read_only
    BY <1>1 DEF Reason
  <1>2. CASE TestFile(i) \in left_over
    BY <1>2 DEF Reason, TestFile
  <1>3. ASSUME NEW j \in Checking, TestFile(j) = TestFile(i)
        PROVE  Reason(i, Current(i))
    <2>1. j # i
      BY DEF Checking
    <2>2. Current(j) = Current(i) /\ pid[process[j]] = pid[process[i]]
      BY <1>3 DEF TestFile
    <2>3. QED
      BY <2>1, <2>2 DEF Reason
  <1>4. QED
    BY <1>1, <1>2, <1>3 DEF CanCreate, IInv, EveryFileHasOneOwner

LEMMA StepHasReason ==
    ASSUME StorageAssumption, IInv, Next, NEW i \in Instances,
           Len(values'[i]) > Len(values[i]), ~Last(values'[i]).writable
    PROVE  Reason(i, Last(values'[i]).path)
  <1>1. values[i] \in Seq(Values) /\ Len(values[i]) \in Nat /\ values'[i] # values[i] /\ values'[i] # <<>>
    BY DEF IInv, TypeOK
  <1>2. ASSUME NEW k \in Instances, Configure(k) \/ Cleanup(k) PROVE FALSE
    BY <1>1, <1>2 DEF Configure, Cleanup, summary
  <1>3. ASSUME NEW k \in Instances, BeginUpdate(k) PROVE FALSE
    BY <1>1, <1>3 DEF BeginUpdate, IInv, TypeOK
  <1>4. ASSUME NEW path, Remount(path) PROVE FALSE
    BY <1>1, <1>4 DEF Remount, summary
  <1>5. ASSUME NEW p, Crash(p) PROVE FALSE
    BY <1>1, <1>5 DEF Crash
  <1>6. ASSUME NEW k \in Instances, StatvfsFails(k) PROVE FALSE
    <2> DEFINE found == [level |-> ERROR, message |-> [path |-> Current(k), what |-> "failed"]]
               value == [path |-> Current(k), failed |-> TRUE, volume |-> NoVolume, writable |-> TRUE]
    <2>1. stage[k] \in InUpdate /\ Current(k) \in Paths
      BY <1>6, CurrentPath DEF StatvfsFails, InUpdate, IInv
    <2>2. found.message \in Messages /\ value \in Values
      BY <2>1 DEF Messages, Reasons, Values, AnyVolume
    <2>3. LevelOf(k, value) = ERROR
      BY DEF LevelOf
    <2>4. Follows(k, found, value)
      BY <2>2, <2>3, LevelsAreOrdered DEF Follows, IInv, TypeOK
    <2>5. EndTurn(k, found, value) /\ UNCHANGED <<settings, pid>> /\ value.writable = TRUE
      BY <1>6 DEF StatvfsFails
    <2> HIDE DEF found, value
    <2>6. Last(values'[i]) = value
      BY <2>1, <2>4, <2>5, LastValue
    <2>7. QED
      BY <2>5, <2>6
  <1>7. ASSUME NEW k \in Instances, Statvfs(k) PROVE FALSE
    <2>1. PICK v \in Volumes : UNCHANGED summary \/ Judge(k, v, TRUE)
      BY <1>7 DEF Statvfs
    <2>2. CASE UNCHANGED summary
      BY <1>1, <2>2 DEF summary
    <2>3. CASE Judge(k, v, TRUE)
      <3> DEFINE found == AfterPath([level |-> level[k], message |-> message[k]], Current(k), v, TRUE)
                 value == [path |-> Current(k), failed |-> FALSE, volume |-> v, writable |-> TRUE]
      <3>1. stage[k] \in InUpdate
        BY <1>7 DEF Statvfs, InUpdate
      <3>2. Follows(k, found, value)
        BY <3>1, AfterPathFollows DEF AnyVolume, IInv
      <3>3. EndTurn(k, found, value) /\ UNCHANGED <<settings, pid>> /\ value.writable = TRUE
        BY <1>7, <2>3 DEF Statvfs, Judge
      <3> HIDE DEF found, value
      <3>4. Last(values'[i]) = value
        BY <3>1, <3>2, <3>3, LastValue
      <3>5. QED
        BY <3>3, <3>4
    <2>4. QED
      BY <2>1, <2>2, <2>3
  <1>8. ASSUME NEW k \in Instances, Open(k) PROVE Reason(i, Last(values'[i]).path)
    <2> DEFINE found == AfterPath([level |-> level[k], message |-> message[k]], Current(k), volume[k], FALSE)
               value == [path |-> Current(k), failed |-> FALSE, volume |-> volume[k], writable |-> FALSE]
    <2>1. stage[k] \in InUpdate /\ stage[k] = "open"
      BY <1>8 DEF Open, InUpdate
    <2>2. Follows(k, found, value)
      BY <2>1, AfterPathFollows DEF IInv, TypeOK
    <2>3. ~CanCreate(k) /\ EndTurn(k, found, value) /\ UNCHANGED <<settings, pid>>
      BY <1>1, <1>8 DEF Open, Judge, summary
    <2>4. value.path = Current(k)
      OBVIOUS
    <2> HIDE DEF found, value
    <2>5. i = k /\ Last(values'[i]) = value
      BY <2>1, <2>2, <2>3, LastValue
    <2>6. QED
      BY <2>1, <2>3, <2>4, <2>5, OpenFailsWithReason
  <1>9. ASSUME NEW k \in Instances, Unlink(k) PROVE Reason(i, Last(values'[i]).path)
    <2> DEFINE removed == Current(k) \notin read_only /\ TestFile(k) \in files
               found == AfterPath([level |-> level[k], message |-> message[k]], Current(k), volume[k], removed)
               value == [path |-> Current(k), failed |-> FALSE, volume |-> volume[k], writable |-> removed]
    <2>1. stage[k] \in InUpdate /\ stage[k] = "unlink" /\ removed \in BOOLEAN
      BY <1>9 DEF Unlink, InUpdate
    <2>2. Follows(k, found, value)
      BY <2>1, AfterPathFollows DEF IInv, TypeOK
    <2>3. EndTurn(k, found, value) /\ UNCHANGED <<settings, pid>>
      BY <1>9 DEF Unlink, Judge
    <2>4. value.path = Current(k) /\ value.writable = removed
      OBVIOUS
    <2>5. TestFile(k) \in files
      BY <2>1 DEF Checking, IInv, EveryFileHasOneOwner
    <2> HIDE DEF found, value
    <2>6. i = k /\ Last(values'[i]) = value
      BY <2>1, <2>2, <2>3, LastValue
    <2>7. Current(k) \in read_only
      BY <2>4, <2>5, <2>6
    <2>8. QED
      BY <2>4, <2>6, <2>7 DEF Reason
  <1>10. QED
    BY <1>2, <1>3, <1>4, <1>5, <1>6, <1>7, <1>8, <1>9 DEF Next

\* A path is said not to be writable with a reason: it is read-only, another check of
\* the same number is at work on it, or one has left its file.
THEOREM DenialsHaveReasons == Spec => DeniedWithReason
  <1> DEFINE Step == \A i \in Instances :
                        Len(values'[i]) > Len(values[i]) /\ ~Last(values'[i]).writable =>
                            Reason(i, Last(values'[i]).path)
  <1>1. IInv /\ [Next]_vars => [Step]_vars
    BY StepHasReason, StorageAssumption
  <1>2. [Step]_vars => [ \A i \in Instances :
            LET value == Last(values'[i])
                number == pid[process[i]]
                others == {j \in Checking \ {i} :
                            Current(j) = value.path /\ pid[process[j]] = number}
            IN  Len(values'[i]) > Len(values[i]) /\ ~value.writable =>
                    \/ value.path \in read_only
                    \/ others # {}
                    \/ <<value.path, number>> \in left_over ]_vars
    BY DEF Reason
  <1>3. QED
    BY <1>1, <1>2, Invariance, PTL DEF Spec, DeniedWithReason

=============================================================================
