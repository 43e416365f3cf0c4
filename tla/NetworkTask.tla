----------------------------- MODULE NetworkTask -----------------------------
(***************************************************************************)
(* The network task: update() walks the configured interfaces, compares    *)
(* the error counters of each with the ones it stored at its previous      *)
(* successful read, and reports the worst of what it found.  The kernel    *)
(* works concurrently: counters grow, carriers flap, interfaces vanish and *)
(* come back with their counters at zero, between any two reads.           *)
(*                                                                         *)
(* One action is one turn of the loop over the interfaces.  The reads of   *)
(* one interface are a single step: the counters are independent of each   *)
(* other and each is read once, so a finer grain shows nothing more.       *)
(***************************************************************************)
EXTENDS DiagnosticLevels

CONSTANTS
    Interfaces,         \* the interfaces the kernel may have
    InterfaceLists,     \* the values of the parameter `interfaces`
    CounterNames,       \* the counters, in the order the code compares them
    DeltaParameters,    \* pairs of warn_<counter>_delta, error_<counter>_delta
    TwoToThe64,         \* the number of values of a std::uint64_t
    MaxErrors,          \* bound: the errors of a counter between two reads
    MaxCounter,         \* bound: the value of a counter
    MaxSamples          \* bound: the updates between configure and cleanup

Counters == {CounterNames[n] : n \in DOMAIN CounterNames}

ASSUME NetworkAssumption ==
    /\ InterfaceLists \subseteq Seq(Interfaces)
    /\ CounterNames \in Seq(STRING)
    /\ DeltaParameters \subseteq [warn : Int, error : Int]
    /\ {TwoToThe64, MaxErrors, MaxCounter, MaxSamples} \subseteq Nat
    /\ \A d \in DeltaParameters : /\ MaxCounter < TwoToThe64 + d.warn
                                  /\ MaxCounter < TwoToThe64 + d.error

VARIABLES
    link,               \* the kernel: "absent", "down" or "up"
    counter,            \* the kernel: the statistics of each interface
    since,              \* history: the errors of each interface since the task
                        \* last read it or was configured, if it was recreated
                        \* since, and if it was read at all since configure
    stage,              \* "unconfigured", "idle" or "updating"
    interfaces_,
    require_carrier_,
    parameter,          \* the delta parameters of the node, signed
    thresholds_,        \* the same as the task keeps them, unsigned
    previous_counters_, \* defined on the interfaces read so far
    sample_count_,
    level,              \* local of update(): 0 is OK, 1 WARN, 2 ERROR
    message,            \* local of update(): what the summary speaks of
    values              \* the key/values published for each interface

kernel == <<link, counter>>
settings == <<interfaces_, require_carrier_, parameter, thresholds_>>
history == <<previous_counters_, sample_count_>>
status == <<level, message, values>>
vars == <<kernel, since, stage, settings, history, status>>

-----------------------------------------------------------------------------

Zero == [c \in Counters |-> 0]

\* No counter was compared: the interface has not been read before.
NoDelta == [c \in {} |-> 0]

\* The previous sample of no interface.
NothingSampled == [i \in {} |-> Zero]

StateOk == [interface |-> "", what |-> "state ok"]

\* The thresholds are read as std::int64_t and stored as std::uint64_t.
AsUnsigned(n) == IF n >= 0 THEN n ELSE TwoToThe64 + n

StoredThresholds(delta) ==
    [warn |-> AsUnsigned(delta.warn), error |-> AsUnsigned(delta.error)]

NothingSince == [i \in Interfaces |-> [errors |-> Zero, recreated |-> FALSE, read |-> FALSE]]

Init ==
    /\ link \in [Interfaces -> {"absent", "down", "up"}]
    /\ counter = [i \in Interfaces |-> Zero]
    /\ since = NothingSince
    /\ stage = "unconfigured"
    /\ interfaces_ = <<>>
    /\ require_carrier_ = TRUE
    /\ parameter \in DeltaParameters
    /\ thresholds_ = StoredThresholds(parameter)
    /\ previous_counters_ = NothingSampled
    /\ sample_count_ = 0
    /\ level = OK
    /\ message = StateOk
    /\ values = <<>>

-----------------------------------------------------------------------------
(***************************************************************************)
(* The kernel.                                                             *)
(***************************************************************************)

CountError(i, c) ==
    /\ link[i] # "absent"
    /\ since[i].errors[c] < MaxErrors
    /\ counter[i][c] < MaxCounter
    /\ counter' = [counter EXCEPT ![i][c] = @ + 1]
    /\ since' = [since EXCEPT ![i].errors[c] = @ + 1]
    /\ UNCHANGED <<link, stage, settings, history, status>>

\* An interface that is attached again starts counting at zero.
ChangeLink(i) ==
    /\ \E l \in {"absent", "down", "up"} \ {link[i]} :
        link' = [link EXCEPT ![i] = l]
    /\ IF link[i] = "absent"
         THEN /\ counter' = [counter EXCEPT ![i] = Zero]
              /\ since' = [since EXCEPT ![i].recreated = TRUE]
         ELSE UNCHANGED <<counter, since>>
    /\ UNCHANGED <<stage, settings, history, status>>

-----------------------------------------------------------------------------
(***************************************************************************)
(* The task.                                                               *)
(***************************************************************************)

ForgetSamples ==
    /\ previous_counters_' = NothingSampled
    /\ sample_count_' = 0

Configure ==
    /\ stage = "unconfigured"
    /\ stage' = "idle"
    /\ interfaces_' \in InterfaceLists
    /\ require_carrier_' \in BOOLEAN
    /\ parameter' \in DeltaParameters
    /\ thresholds_' = StoredThresholds(parameter')
    /\ ForgetSamples
    /\ since' = NothingSince
    /\ level' = OK
    /\ message' = StateOk
    /\ values' = <<>>
    /\ UNCHANGED kernel

Cleanup ==
    /\ stage = "idle"
    /\ stage' = "unconfigured"
    /\ ForgetSamples
    /\ UNCHANGED <<kernel, since, settings, status>>

\* update() starts; an empty list is reported at once as an error.
BeginUpdate ==
    /\ stage = "idle"
    /\ sample_count_ < MaxSamples
    /\ sample_count_' = sample_count_ + 1
    /\ values' = <<>>
    /\ IF interfaces_ = <<>>
         THEN /\ level' = ERROR
              /\ message' = [interface |-> "", what |-> "no interfaces"]
              /\ UNCHANGED stage
         ELSE /\ level' = OK
              /\ message' = StateOk
              /\ stage' = "updating"
    /\ UNCHANGED <<kernel, since, settings, previous_counters_>>

\* The interface whose turn it is in the loop.
Current == interfaces_[Len(values) + 1]

AfterLoop ==
    stage' = IF Len(values) + 1 = Len(interfaces_) THEN "idle" ELSE "updating"

\* A counter that went backwards belongs to a recreated interface.
counter_delta(current, previous) ==
    IF current < previous THEN 0 ELSE current - previous

\* Mutant: a warning replaces what was found before.
WarningTakesOver(found, cause, delta) ==
    IF delta >= thresholds_.error
      THEN [level |-> ERROR, message |-> cause]
    ELSE IF delta >= thresholds_.warn
      THEN [level |-> WARN, message |-> cause]
    ELSE found

\* apply_counter_threshold: an error always takes over, a warning only
\* when nothing was found yet.
apply_counter_threshold(found, cause, delta) ==
    IF delta >= thresholds_.error
      THEN [level |-> ERROR, message |-> cause]
    ELSE IF delta >= thresholds_.warn /\ found.level < WARN
      THEN [level |-> WARN, message |-> cause]
    ELSE found

\* A lost carrier is an error, if one is required.
AfterCarrier(i) ==
    IF require_carrier_ /\ link[i] # "up"
      THEN [level |-> ERROR, message |-> [interface |-> i, what |-> "carrier"]]
      ELSE [level |-> level, message |-> message]

DeltasOf(i) == [c \in Counters |->
                    counter_delta(counter[i][c], previous_counters_[i][c])]

\* All the counters of interface i are compared, one after the other.
AfterCounters(i, deltas) ==
    LET after[n \in 0 .. Len(CounterNames)] ==
            IF n = 0
              THEN AfterCarrier(i)
              ELSE apply_counter_threshold(
                       after[n - 1],
                       [interface |-> i, what |-> CounterNames[n]],
                       deltas[CounterNames[n]])
    IN  after[Len(CounterNames)]

\* All files of the interface are there: its counters are compared with the
\* previous ones, if any, and become the previous ones.
ReadInterface ==
    LET i == Current
        deltas == IF i \in DOMAIN previous_counters_ THEN DeltasOf(i) ELSE NoDelta
        found == IF deltas = NoDelta
                   THEN AfterCarrier(i)
                   ELSE AfterCounters(i, deltas)
    IN  /\ stage = "updating"
        /\ link[i] # "absent"
        /\ level' = found.level
        /\ message' = found.message
        /\ values' = Append(values, [interface |-> i, failed |-> FALSE,
                                     carrier |-> link[i] = "up",
                                     deltas |-> deltas])
        /\ previous_counters_' =
               [j \in DOMAIN previous_counters_ \union {i} |->
                    IF j = i THEN counter[i] ELSE previous_counters_[j]]
        /\ since' = [since EXCEPT ![i] = [errors |-> Zero, recreated |-> FALSE,
                                         read |-> TRUE]]
        /\ AfterLoop
        /\ UNCHANGED <<kernel, settings, sample_count_>>

\* Mutant: an interface that fails starts anew.
BaselineDropped ==
    previous_counters_' = [j \in DOMAIN previous_counters_ \ {Current} |-> previous_counters_[j]]

\* The handler of the exception leaves previous_counters_ as it is.
BaselinesStay == UNCHANGED previous_counters_

\* The interface does not exist, or one of its files cannot be opened or parsed, as
\* `carrier` of an interface that is administratively down: an error of this interface
\* alone.
FailInterface ==
    LET i == Current
    IN  /\ stage = "updating"
        /\ level' = ERROR
        /\ message' = [interface |-> i, what |-> "unreadable"]
        /\ values' = Append(values, [interface |-> i, failed |-> TRUE,
                                     carrier |-> FALSE, deltas |-> NoDelta])
        /\ BaselinesStay
        /\ AfterLoop
        /\ UNCHANGED <<kernel, since, settings, sample_count_>>

Next ==
    \/ \E i \in Interfaces, c \in Counters : CountError(i, c)
    \/ \E i \in Interfaces : ChangeLink(i)
    \/ Configure
    \/ Cleanup
    \/ BeginUpdate
    \/ ReadInterface
    \/ FailInterface

Spec == Init /\ [][Next]_vars

-----------------------------------------------------------------------------
(***************************************************************************)
(* Properties.                                                             *)
(***************************************************************************)

\* What the published key/values of one interface say, as an operator of
\* the diagnostics reads them.  A negative threshold is never reached.
Reaches(delta, threshold) == threshold >= 0 /\ delta >= threshold

Cause(lvl, value, what) == [level |-> lvl, interface |-> value.interface, what |-> what]

Causes(value) ==
    LET reach(threshold) == {c \in DOMAIN value.deltas : Reaches(value.deltas[c], threshold)}
    IN  When(value.failed, {Cause(ERROR, value, "unreadable")}) \cup
        When(~value.failed /\ ~value.carrier /\ require_carrier_,
             {Cause(ERROR, value, "carrier")}) \cup
        {Cause(ERROR, value, c) : c \in reach(parameter.error)} \cup
        {Cause(WARN, value, c) : c \in reach(parameter.warn) \ reach(parameter.error)}

AllCauses == UNION {Causes(values[n]) : n \in DOMAIN values}

\* However many interfaces are down, failing or counting errors, and in
\* whatever order they are listed, the summary has the worst level that the
\* published values justify, and its message names an interface and a reading
\* of that level: no later interface hides an earlier one, nothing is alarmed
\* without a value that shows why, and no error is explained by a warning.
SummaryIsWorstValue ==
    values # <<>> =>
        /\ \A cause \in AllCauses : cause.level <= level
        /\ level # OK =>
            [level |-> level, interface |-> message.interface, what |-> message.what]
                \in AllCauses

\* A published delta counts real errors: never more than there were since the interface
\* was last read, nor any from before the task was configured, and all of them unless the
\* interface was recreated meanwhile.  Reads that fail, of this interface or of another,
\* and pauses between updates lose none: whenever an interface can be read that was read
\* before, a delta of every counter is published.  No sample outlives a cleanup.
DeltasCountRealErrors ==
    [][ \A i \in Interfaces :
          LET value == values'[Len(values')]
          IN  /\ Len(values') = Len(values) + 1
              /\ value.interface = i
              /\ ~value.failed
              => /\ DOMAIN value.deltas = IF since[i].read THEN Counters ELSE {}
                 /\ \A c \in DOMAIN value.deltas :
                      /\ value.deltas[c] <= since[i].errors[c]
                      /\ \/ value.deltas[c] = since[i].errors[c]
                         \/ since[i].recreated ]_vars
=============================================================================
