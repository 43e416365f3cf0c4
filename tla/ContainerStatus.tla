--------------------------- MODULE ContainerStatus ---------------------------
(***************************************************************************)
(* What the Docker memory task reports of one completed sample: update()   *)
(* finds the container with the worst percentage, and judges that one by   *)
(* the two percentage thresholds and the two byte thresholds.  How samples *)
(* come about is the business of DockerMemoryTask.                         *)
(*                                                                         *)
(* Percentages are compared by multiplying out; the rounding of doubles is *)
(* left out.                                                               *)
(***************************************************************************)
EXTENDS DiagnosticLevels

CONSTANTS
    TwoToThe32,         \* the number of values of an int
    TwoToThe64          \* the number of values of a std::uint64_t

Container(usage, limit) == [usage |-> usage, limit |-> limit]
Sample(success, containers) == [success |-> success, containers |-> containers]

-----------------------------------------------------------------------------

\* The byte parameter is read as an int: it keeps the low 32 bits.
AsInt(n) == ((n + TwoToThe32 \div 2) % TwoToThe32) - TwoToThe32 \div 2

\* The int becomes a std::uint64_t: a negative one is huge.
StoredBytes(parameter) == AsInt(parameter) % TwoToThe64

\* usage_percent(container) >= threshold; without a limit it is 0 percent.
PercentReaches(container, threshold) ==
    IF container.limit = 0
    THEN 0 >= threshold
    ELSE 100 * container.usage >= threshold * container.limit

\* A byte threshold of zero is none.
BytesReach(container, parameter) ==
    StoredBytes(parameter) > 0 /\ container.usage >= StoredBytes(parameter)

\* usage_percent(left) < usage_percent(right)
LessFull(left, right) ==
    IF right.limit = 0 THEN FALSE
    ELSE IF left.limit = 0 THEN right.usage > 0
    ELSE left.usage * right.limit < right.usage * left.limit

\* std::max_element: the first of the containers with the worst percentage.
WorstContainer(containers) ==
    CHOOSE n \in DOMAIN containers :
        /\ \A m \in DOMAIN containers : ~LessFull(containers[n], containers[m])
        /\ \A m \in 1 .. (n - 1) : LessFull(containers[m], containers[n])

\* The chain of thresholds: both errors come before both warnings.
Summary(p, n, container) ==
    FirstReached(n, <<
        Check(BytesReach(container, p.error_usage_bytes), ERROR, "error_usage_bytes"),
        Check(PercentReaches(container, p.error_usage), ERROR, "error_usage"),
        Check(BytesReach(container, p.warn_usage_bytes), WARN, "warn_usage_bytes"),
        Check(PercentReaches(container, p.warn_usage), WARN, "warn_usage")>>)

update(p, sample) ==
    IF ~sample.success THEN Failed
    ELSE IF sample.containers = <<>> THEN Fine(0)
    ELSE LET worst == WorstContainer(sample.containers)
         IN  Summary(p, worst, sample.containers[worst])

-----------------------------------------------------------------------------
(* What the summary should speak of                                        *)

\* Every reason for an alarm about container n, by the parameters as they were set: a
\* byte threshold that is not positive is none.
FindingsOf(p, n, container) ==
    LET bytes(threshold) == threshold > 0 /\ container.usage >= threshold
    IN  When(PercentReaches(container, p.error_usage), {Report(ERROR, n, "error_usage")}) \cup
        When(PercentReaches(container, p.warn_usage), {Report(WARN, n, "warn_usage")}) \cup
        When(bytes(p.error_usage_bytes), {Report(ERROR, n, "error_usage_bytes")}) \cup
        When(bytes(p.warn_usage_bytes), {Report(WARN, n, "warn_usage_bytes")})

\* Every reason for an alarm, of every container of the sample.
Findings(p, sample) ==
    IF ~sample.success THEN {Failed}
    ELSE UNION {FindingsOf(p, n, sample.containers[n]) : n \in DOMAIN sample.containers}

ByteThresholds == {"error_usage_bytes", "warn_usage_bytes"}

\* It is a byte threshold, and the code stores another one than was set: it does not fit
\* into an int, or is negative.
IsMisread(p, what) ==
    what \in ByteThresholds /\ p[what] \notin 0 .. TwoToThe32 \div 2 - 1
=============================================================================
