------------------------------- MODULE CpuTask -------------------------------
(***************************************************************************)
(* The CPU task: update() reads the aggregate counters of /proc/stat, and  *)
(* compares them with the sample it stored at the previous successful      *)
(* read.  The counters are unsigned 64-bit, and so are the differences the *)
(* code takes; Linux documents that iowait may decrease, so that the idle  *)
(* counter can slip backwards between two reads.  A tick that a guest of   *)
(* this host ran is counted twice by the kernel, in user and in guest (or  *)
(* in nice and in guest_nice), and the code adds up all of them.           *)
(*                                                                         *)
(* A usage percentage is kept as the pair of differences it is the         *)
(* quotient of, and compared with a threshold by multiplying out; the      *)
(* rounding of doubles is left out.                                        *)
(***************************************************************************)
EXTENDS DiagnosticLevels

CONSTANTS
    TwoToThe64,         \* the number of values of a std::uint64_t
    MaxTicks,           \* bound: the ticks of a counter
    MaxSince,           \* bound: the ticks between two successful reads
    LoadsPerCore,       \* the one-minute loads per core, as integers
    WarnUsage, ErrorUsage,      \* thresholds of the usage, in percent
    WarnLoad, ErrorLoad         \* thresholds of the load per core

VARIABLES
    idle, busy,         \* the kernel: idle + iowait, and all the other ticks
    guest,              \* the kernel: the busy ticks that ran a guest
    since,              \* history: the ticks since the task last read them
    configured,
    previous_sample_,
    level, cause,       \* the published summary
    usage, load,        \* the published usage_percent and load_per_core
    sampled             \* the update compared two samples

kernel == <<idle, busy, guest, since>>
status == <<level, cause, usage, load, sampled>>
vars == <<kernel, configured, previous_sample_, status>>

-----------------------------------------------------------------------------

NoSample == [read |-> FALSE]

Sample(i, t) == [read |-> TRUE, idle |-> i, total |-> t]

NoTicks == [idle |-> 0, busy |-> 0, guest |-> 0]

\* A usage of (total - idle) / total; the code takes 0 / 0 for 0.
NoUsage == [idle |-> 0, total |-> 0]

Init ==
    /\ idle = 0
    /\ busy = 0
    /\ guest = 0
    /\ since = NoTicks
    /\ configured = FALSE
    /\ previous_sample_ = NoSample
    /\ level = OK
    /\ cause = "none"
    /\ usage = NoUsage
    /\ load = 0
    /\ sampled = FALSE

-----------------------------------------------------------------------------
(***************************************************************************)
(* The kernel.                                                             *)
(***************************************************************************)

BusyTick ==
    /\ busy < MaxTicks
    /\ since.busy < MaxSince
    /\ busy' = busy + 1
    /\ since' = [since EXCEPT !.busy = @ + 1]
    /\ UNCHANGED <<idle, guest, configured, previous_sample_, status>>

\* A virtual processor of a guest runs: that is user time, and guest time.
GuestTick ==
    /\ busy < MaxTicks
    /\ since.busy < MaxSince
    /\ busy' = busy + 1
    /\ guest' = guest + 1
    /\ since' = [since EXCEPT !.busy = @ + 1, !.guest = @ + 1]
    /\ UNCHANGED <<idle, configured, previous_sample_, status>>

IdleTick ==
    /\ idle < MaxTicks
    /\ since.idle < MaxSince
    /\ idle' = idle + 1
    /\ since' = [since EXCEPT !.idle = @ + 1]
    /\ UNCHANGED <<busy, guest, configured, previous_sample_, status>>

\* The kernel corrects iowait downwards.
IdleSlips ==
    /\ idle > 0
    /\ since.idle > -MaxSince
    /\ idle' = idle - 1
    /\ since' = [since EXCEPT !.idle = @ - 1]
    /\ UNCHANGED <<busy, guest, configured, previous_sample_, status>>

-----------------------------------------------------------------------------
(***************************************************************************)
(* The task.                                                               *)
(***************************************************************************)

DropSample == previous_sample_' = NoSample

Configure ==
    /\ ~configured
    /\ configured' = TRUE
    /\ DropSample
    /\ UNCHANGED <<kernel, status>>

Cleanup ==
    /\ configured
    /\ configured' = FALSE
    /\ DropSample
    /\ UNCHANGED <<kernel, status>>

\* The sample that is read now: the total adds guest and guest_nice to user and nice,
\* which contain them already.
Reading == Sample(idle, idle + busy + guest)

\* Mutant: the difference is signed.
SignedDelta(now, before) == now - before

\* The difference of two std::uint64_t.
Delta(now, before) == (now - before + TwoToThe64) % TwoToThe64

\* usage_percent >= threshold
UsageReaches(u, threshold) ==
    IF u.total = 0 THEN threshold <= 0 ELSE 100 * (u.total - u.idle) >= threshold * u.total

\* Mutant: usage is judged to the end before load.
UsageBeforeLoad(u, l) ==
    FirstReached(0, <<
        Check(UsageReaches(u, ErrorUsage), ERROR, "usage"),
        Check(UsageReaches(u, WarnUsage), WARN, "usage"),
        Check(l >= ErrorLoad, ERROR, "load"),
        Check(l >= WarnLoad, WARN, "load")>>)

\* The chain of thresholds: both errors come before both warnings.
Summary(u, l) ==
    FirstReached(0, <<
        Check(UsageReaches(u, ErrorUsage), ERROR, "usage"),
        Check(l >= ErrorLoad, ERROR, "load"),
        Check(UsageReaches(u, WarnUsage), WARN, "usage"),
        Check(l >= WarnLoad, WARN, "load")>>)

\* Mutant: the new sample is not stored.
SampleKept == UNCHANGED previous_sample_

StoreSample == previous_sample_' = Reading

\* The first sample after configure has nothing to be compared with: it is
\* stored and reported as OK, whatever the load is.
FirstSample ==
    /\ configured
    /\ previous_sample_ = NoSample
    /\ previous_sample_' = Reading
    /\ since' = NoTicks
    /\ level' = OK
    /\ cause' = "waiting"
    /\ usage' = NoUsage
    /\ load' \in LoadsPerCore \union {0}
    /\ sampled' = FALSE
    /\ UNCHANGED <<idle, busy, guest, configured>>

\* Without /proc/loadavg the load per core is taken for zero.
CompareSamples ==
    /\ configured
    /\ previous_sample_ # NoSample
    /\ usage' = [idle |-> Delta(Reading.idle, previous_sample_.idle),
                 total |-> Delta(Reading.total, previous_sample_.total)]
    /\ load' \in LoadsPerCore \union {0}
    /\ level' = Summary(usage', load').level
    /\ cause' = Summary(usage', load').what
    /\ StoreSample
    /\ since' = NoTicks
    /\ sampled' = TRUE
    /\ UNCHANGED <<idle, busy, guest, configured>>

\* /proc/stat cannot be read or parsed: the previous sample stays.
FailToRead ==
    /\ configured
    /\ level' = ERROR
    /\ cause' = "unreadable"
    /\ usage' = NoUsage
    /\ load' = 0
    /\ sampled' = FALSE
    /\ UNCHANGED <<kernel, configured, previous_sample_>>

Next ==
    \/ BusyTick
    \/ GuestTick
    \/ IdleTick
    \/ IdleSlips
    \/ Configure
    \/ Cleanup
    \/ FirstSample
    \/ CompareSamples
    \/ FailToRead

Spec == Init /\ [][Next]_vars

-----------------------------------------------------------------------------
(***************************************************************************)
(* Properties.                                                             *)
(***************************************************************************)

\* What the ticks since the last successful read really amount to.
RealUsageReaches(threshold) ==
    100 * since.busy >= threshold * (since.busy + since.idle)

Severity(error, warning) ==
    IF error THEN ERROR ELSE IF warning THEN WARN ELSE OK

\* Usage and load are judged together: the summary has the worse of the two
\* levels, so that a warning of one never hides an error of the other.
LevelIsWorstOfBoth ==
    sampled =>
        LET of_usage == Severity(UsageReaches(usage, ErrorUsage),
                                 UsageReaches(usage, WarnUsage))
            of_load == Severity(load >= ErrorLoad, load >= WarnLoad)
        IN  level = IF of_usage > of_load THEN of_usage ELSE of_load

\* A usage alarm is real if no guest ran: the ticks since the last successful read,
\* which may span failed updates, reach the warning threshold.  In particular an idle
\* counter that slipped backwards, whose unsigned difference wraps around, never raises
\* one.  If guests ran, their ticks count twice, and the alarm is real of a CPU that was
\* busy for twice as many ticks: the code never overestimates by more.
UsageAlarmsAreReal ==
    [][ CompareSamples /\ cause' = "usage" =>
          /\ since.idle >= 0
          /\ since.guest = 0 => RealUsageReaches(WarnUsage)
          /\ 100 * (2 * since.busy) >= WarnUsage * (2 * since.busy + since.idle) ]_vars

\* The usage is the usage: an alarm of it is raised only if the CPU was as busy as that,
\* whoever kept it busy.
UsageIsNotInflated ==
    [][ CompareSamples /\ cause' = "usage" => RealUsageReaches(WarnUsage) ]_vars

\* An overloaded CPU is reported at the next comparison, also when reads
\* failed in between and whoever kept it busy, as long as the idle counter did not slip
\* backwards.
HighUsageIsReported ==
    [][ /\ CompareSamples
        /\ since.idle >= 0
        /\ since.busy > 0
        /\ RealUsageReaches(ErrorUsage)
        => level' = ERROR ]_vars
=============================================================================
