----------------------------- MODULE StorageTask -----------------------------
(***************************************************************************)
(* The storage task: update() walks the configured paths, judges the usage *)
(* of each, and, if asked to, tries whether it is writable: it creates a   *)
(* test file, which must not exist yet, and removes it again.  The file is *)
(* named after the process, so that every instance of the task in one      *)
(* process uses the same file of a path; so does a process of another      *)
(* container that shares the path and has the same number, and the next    *)
(* process that is given the number.                                       *)
(*                                                                         *)
(* The instances are updated by different workers or processes, and an     *)
(* action is one system call of one of them, with what the task does up to *)
(* the next one.  close() of the new file changes nothing that matters.    *)
(***************************************************************************)
EXTENDS DiagnosticLevels, SequencesExt

CONSTANTS
    Instances,          \* instances of the task, on one host
    Processes,          \* the processes they are loaded in
    Pids,               \* what getpid() may return
    Root,               \* the path "/"
    PathLists,          \* by instance: the values of the parameter `paths`
    Removable,          \* the paths that may be mounted anew
    Volumes,            \* what statvfs may find: [total, available]
    WarnUsage, ErrorUsage,  \* the thresholds, in percent
    MaxCrashes          \* bound: the processes that crash

Paths == {Root} \cup UNION {ToSet(list) : list \in UNION {PathLists[i] : i \in Instances}}

ASSUME StorageAssumption ==
    /\ \A i \in Instances : PathLists[i] \subseteq Seq(Paths)
    /\ Volumes \subseteq [total : Nat, available : Nat]
    /\ {WarnUsage, ErrorUsage} \subseteq Int
    /\ MaxCrashes \in Nat

VARIABLES
    files,              \* the test files there are
    read_only,          \* the paths that are mounted read-only
    process, pid,       \* the process of an instance, the number of a process
    crashes,            \* the processes that have crashed so far
    left_over,          \* history: the files that nobody will remove
    stage,              \* of an instance: "unconfigured", "idle", or its next call
    paths_, check_writable_,
    volume,             \* local of update(): what statvfs found
    level, message,     \* locals of update()
    values              \* the key/values published for each path

host == <<files, read_only, crashes, left_over>>
settings == <<process, paths_, check_writable_>>
summary == <<level, message, values>>
vars == <<host, pid, stage, settings, volume, summary>>

NoVolume == [total |-> 0, available |-> 0]
UsageOk == [path |-> Root, what |-> "usage ok"]

Init ==
    /\ files = {}
    /\ read_only \in SUBSET Removable
    /\ process \in [Instances -> Processes]
    /\ pid \in [Processes -> Pids]
    /\ crashes = 0
    /\ left_over = {}
    /\ stage = [i \in Instances |-> "unconfigured"]
    /\ paths_ = [i \in Instances |-> <<Root>>]
    /\ check_writable_ = [i \in Instances |-> FALSE]
    /\ volume = [i \in Instances |-> NoVolume]
    /\ level = [i \in Instances |-> OK]
    /\ message = [i \in Instances |-> UsageOk]
    /\ values = [i \in Instances |-> <<>>]

-----------------------------------------------------------------------------
(* The task                                                                *)

\* An empty list stands for the root.
Configure(i) ==
    /\ stage[i] = "unconfigured"
    /\ stage' = [stage EXCEPT ![i] = "idle"]
    /\ \E list \in PathLists[i] :
        paths_' = [paths_ EXCEPT ![i] = IF list = <<>> THEN <<Root>> ELSE list]
    /\ \E b \in BOOLEAN : check_writable_' = [check_writable_ EXCEPT ![i] = b]
    /\ UNCHANGED <<host, process, pid, volume, summary>>

\* The settings stay, to be replaced by the next Configure.
Cleanup(i) ==
    /\ stage[i] = "idle"
    /\ stage' = [stage EXCEPT ![i] = "unconfigured"]
    /\ UNCHANGED <<host, settings, pid, volume, summary>>

BeginUpdate(i) ==
    /\ stage[i] = "idle"
    /\ stage' = [stage EXCEPT ![i] = "statvfs"]
    /\ level' = [level EXCEPT ![i] = OK]
    /\ message' = [message EXCEPT ![i] = UsageOk]
    /\ values' = [values EXCEPT ![i] = <<>>]
    /\ UNCHANGED <<host, settings, pid, volume>>

\* The path whose turn it is, and its test file.
Current(i) == paths_[i][Len(values[i]) + 1]

\* Mutant: the test files of all paths are in one place.
SharedTestFile(i) == <<Root, pid[process[i]]>>

TestFile(i) == <<Current(i), pid[process[i]]>>

\* used_percent >= threshold; a volume with more available than total is empty.
UsageReaches(v, threshold) ==
    IF v.total = 0 \/ v.available > v.total THEN 0 >= threshold
    ELSE 100 * (v.total - v.available) >= threshold * v.total

\* Mutant: a warning replaces an error of an earlier path.
LastPathDecides(found, path, v, writable) ==
    IF ~writable THEN [level |-> ERROR, message |-> [path |-> path, what |-> "not writable"]]
    ELSE IF UsageReaches(v, ErrorUsage)
        THEN [level |-> ERROR, message |-> [path |-> path, what |-> "error_usage"]]
    ELSE IF UsageReaches(v, WarnUsage)
        THEN [level |-> WARN, message |-> [path |-> path, what |-> "warn_usage"]]
    ELSE found

\* An error always takes over, a warning only when nothing was found yet.
AfterPath(found, path, v, writable) ==
    IF ~writable THEN [level |-> ERROR, message |-> [path |-> path, what |-> "not writable"]]
    ELSE IF UsageReaches(v, ErrorUsage)
        THEN [level |-> ERROR, message |-> [path |-> path, what |-> "error_usage"]]
    ELSE IF UsageReaches(v, WarnUsage) /\ found.level < WARN
        THEN [level |-> WARN, message |-> [path |-> path, what |-> "warn_usage"]]
    ELSE found

\* The turn of the loop is over; the next path or the end of update() follows.
EndTurn(i, found, value) ==
    /\ level' = [level EXCEPT ![i] = found.level]
    /\ message' = [message EXCEPT ![i] = found.message]
    /\ values' = [values EXCEPT ![i] = Append(@, value)]
    /\ volume' = [volume EXCEPT ![i] = NoVolume]
    /\ stage' = [stage EXCEPT ![i] =
                    IF Len(values'[i]) = Len(paths_[i]) THEN "idle" ELSE "statvfs"]

Judge(i, v, writable) ==
    EndTurn(i, AfterPath([level |-> level[i], message |-> message[i]], Current(i), v, writable),
            [path |-> Current(i), failed |-> FALSE, volume |-> v, writable |-> writable])

Statvfs(i) ==
    /\ stage[i] = "statvfs"
    /\ \E v \in Volumes :
        IF check_writable_[i]
        THEN /\ volume' = [volume EXCEPT ![i] = v]
             /\ stage' = [stage EXCEPT ![i] = "open"]
             /\ UNCHANGED summary
        ELSE Judge(i, v, TRUE)
    /\ UNCHANGED <<host, settings, pid>>

\* An error of this path alone.
StatvfsFails(i) ==
    /\ stage[i] = "statvfs"
    /\ EndTurn(i, [level |-> ERROR, message |-> [path |-> Current(i), what |-> "failed"]],
               [path |-> Current(i), failed |-> TRUE, volume |-> NoVolume, writable |-> TRUE])
    /\ UNCHANGED <<host, settings, pid>>

\* Mutant: open without O_EXCL.
CanCreateOrOpen(i) == Current(i) \notin read_only

\* O_CREAT | O_EXCL
CanCreate(i) == Current(i) \notin read_only /\ TestFile(i) \notin files

Open(i) ==
    /\ stage[i] = "open"
    /\ IF CanCreate(i)
       THEN /\ files' = files \cup {TestFile(i)}
            /\ stage' = [stage EXCEPT ![i] = "unlink"]
            /\ UNCHANGED <<volume, summary>>
       ELSE Judge(i, volume[i], FALSE) /\ UNCHANGED files
    /\ UNCHANGED <<read_only, crashes, left_over, settings, pid>>

\* unlink fails if the path was remounted meanwhile, or the file is gone.
Unlink(i) ==
    LET removed == Current(i) \notin read_only /\ TestFile(i) \in files
    IN  /\ stage[i] = "unlink"
        /\ files' = IF removed THEN files \ {TestFile(i)} ELSE files
        /\ left_over' = IF removed THEN left_over ELSE left_over \cup {TestFile(i)}
        /\ Judge(i, volume[i], removed)
        /\ UNCHANGED <<read_only, crashes, settings, pid>>

-----------------------------------------------------------------------------
(* The host                                                                *)

Remount(path) ==
    /\ read_only' = IF path \in read_only THEN read_only \ {path} ELSE read_only \cup {path}
    /\ UNCHANGED <<files, crashes, left_over, pid, stage, settings, volume, summary>>

\* The process ends between any two calls, and is started again, perhaps with the
\* same number: in a container it always is.
Crash(p) ==
    LET lost == {i \in Instances : process[i] = p}
        kept(f, initial) == [i \in Instances |-> IF i \in lost THEN initial ELSE f[i]]
    IN  /\ crashes < MaxCrashes
        /\ lost # {}
        /\ crashes' = crashes + 1
        /\ left_over' = left_over \cup {TestFile(i) : i \in {j \in lost : stage[j] = "unlink"}}
        /\ \E n \in Pids : pid' = [pid EXCEPT ![p] = n]
        /\ stage' = kept(stage, "unconfigured")
        /\ paths_' = kept(paths_, <<Root>>)
        /\ check_writable_' = kept(check_writable_, FALSE)
        /\ volume' = kept(volume, NoVolume)
        /\ level' = kept(level, OK)
        /\ message' = kept(message, UsageOk)
        /\ values' = kept(values, <<>>)
        /\ UNCHANGED <<files, read_only, process>>

Next ==
    \/ \E i \in Instances :
        \/ Configure(i) \/ Cleanup(i) \/ BeginUpdate(i)
        \/ Statvfs(i) \/ StatvfsFails(i) \/ Open(i) \/ Unlink(i)
    \/ \E path \in Removable : Remount(path)
    \/ \E p \in Processes : Crash(p)

Spec == Init /\ [][Next]_vars

-----------------------------------------------------------------------------
(* Properties                                                              *)

Checking == {i \in Instances : stage[i] = "unlink"}

\* Every test file is the file of exactly one check that is about to remove it, unless
\* a crash or a failed unlink has left it over: no check removes the file of another,
\* and none stays behind after an ordinary update.
EveryFileHasOneOwner ==
    /\ \A i \in Checking : TestFile(i) \in files \ left_over
    /\ \A i, j \in Checking : TestFile(i) = TestFile(j) => i = j
    /\ files = left_over \cup {TestFile(i) : i \in Checking}

\* A path is said not to be writable only when it was read-only at the time, or another
\* check of a process with the same number was trying the same path, or one has left
\* its test file there: otherwise checks never disturb each other.
DeniedWithReason ==
    [][ \A i \in Instances :
            LET value == Last(values'[i])
                number == pid[process[i]]
                others == {j \in Checking \ {i} :
                            Current(j) = value.path /\ pid[process[j]] = number}
            IN  Len(values'[i]) > Len(values[i]) /\ ~value.writable =>
                    \/ value.path \in read_only
                    \/ others # {}
                    \/ <<value.path, number>> \in left_over ]_vars

\* The level that the published values of one path call for.
LevelOf(i, value) ==
    IF value.failed \/ ~value.writable \/ UsageReaches(value.volume, ErrorUsage) THEN ERROR
    ELSE IF UsageReaches(value.volume, WarnUsage) THEN WARN
    ELSE OK

\* The summary has the level of the worst path, and speaks of a path that has it: no
\* path hides an earlier one, and one that fails ends neither the update nor the others.
SummaryIsWorstPath ==
    \A i \in Instances :
        LET levels == {LevelOf(i, values[i][n]) : n \in DOMAIN values[i]}
        IN  values[i] # <<>> =>
                /\ \A l \in levels : l <= level[i]
                /\ level[i] # OK =>
                    \E n \in DOMAIN values[i] :
                        /\ LevelOf(i, values[i][n]) = level[i]
                        /\ values[i][n].path = message[i].path
=============================================================================
