----------------------------- MODULE MemoryTask -----------------------------
(***************************************************************************)
(* The memory task: what update() makes of /proc/meminfo.  The file is a   *)
(* function from the keys it has to their values; one that cannot be read  *)
(* has none.  The values are unsigned 64-bit, and so are the differences.  *)
(* Percentages are compared by multiplying out; the rounding of doubles is *)
(* left out.                                                               *)
(***************************************************************************)
EXTENDS DiagnosticLevels

CONSTANT TwoToThe64     \* the number of values of a std::uint64_t

Keys == {"MemTotal", "MemAvailable", "SwapTotal", "SwapFree"}

-----------------------------------------------------------------------------

\* read_meminfo throws, or update() does.
Unusable(meminfo) == Keys \ DOMAIN meminfo # {} \/ meminfo["MemTotal"] = 0

\* The difference of two std::uint64_t.
Used(total, free) == (total - free) % TwoToThe64

\* Mutant: a host without swap has used all of it.
NothingIsFull(total, free, threshold) == 100 * Used(total, free) >= threshold * total

\* used_percent >= threshold; nothing of nothing is 0 percent.
UsageReaches(total, free, threshold) ==
    IF total = 0 THEN 0 >= threshold ELSE 100 * Used(total, free) >= threshold * total

\* Both errors come before both warnings.
update(p, meminfo) ==
    IF Unusable(meminfo) THEN Failed
    ELSE
        LET memory(t) == UsageReaches(meminfo["MemTotal"], meminfo["MemAvailable"], t)
            swap(t) == UsageReaches(meminfo["SwapTotal"], meminfo["SwapFree"], t)
        IN  FirstReached(0, <<
                Check(memory(p.error_usage), ERROR, "error_usage"),
                Check(swap(p.error_swap_usage), ERROR, "error_swap_usage"),
                Check(memory(p.warn_usage), WARN, "warn_usage"),
                Check(swap(p.warn_swap_usage), WARN, "warn_swap_usage")>>)

-----------------------------------------------------------------------------
(* What the summary should speak of                                        *)

\* The kernel reports no more available than there is.
IsPlausible(meminfo) ==
    ~Unusable(meminfo) =>
        /\ meminfo["MemAvailable"] <= meminfo["MemTotal"]
        /\ meminfo["SwapFree"] <= meminfo["SwapTotal"]

\* Every reason for an alarm, by the true shares of the memory and the swap in use.
Findings(p, meminfo) ==
    IF Unusable(meminfo) THEN {Failed}
    ELSE
        LET reaches(total, free, t) ==
                IF total = 0 THEN 0 >= t ELSE 100 * (total - free) >= t * total
            memory(t) == reaches(meminfo["MemTotal"], meminfo["MemAvailable"], t)
            swap(t) == reaches(meminfo["SwapTotal"], meminfo["SwapFree"], t)
        IN  When(memory(p.error_usage), {Report(ERROR, 0, "error_usage")}) \cup
            When(swap(p.error_swap_usage), {Report(ERROR, 0, "error_swap_usage")}) \cup
            When(memory(p.warn_usage), {Report(WARN, 0, "warn_usage")}) \cup
            When(swap(p.warn_swap_usage), {Report(WARN, 0, "warn_swap_usage")})
=============================================================================
