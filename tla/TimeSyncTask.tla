---------------------------- MODULE TimeSyncTask ----------------------------
(***************************************************************************)
(* The time synchronization task: sample_adjtimex() asks the kernel, and   *)
(* update() judges the sample.  The kernel's clock discipline gives its    *)
(* offset in microseconds, or in nanoseconds if the daemon that steers the *)
(* clock has asked for it (STA_NANO of adjtimex(2)); the maximum error is  *)
(* in microseconds always.                                                 *)
(***************************************************************************)
EXTENDS DiagnosticLevels

\* The true state of the clock: does adjtimex work, is the clock unsynchronized, is
\* the state TIME_ERROR, the offset in microseconds, the unit it is reported in, and
\* the maximum error in microseconds.
Kernel(works, unsync, time_error, offset, nano, maxerror) ==
    [works |-> works, unsync |-> unsync, time_error |-> time_error,
     offset |-> offset, nano |-> nano, maxerror |-> maxerror]

-----------------------------------------------------------------------------

Absolute(n) == IF n < 0 THEN -n ELSE n

\* data.offset
ReportedOffset(kernel) == IF kernel.nano THEN 1000 * kernel.offset ELSE kernel.offset

FailedSample == [success |-> FALSE]

\* The offset and the error are kept in microseconds here; the code divides both by
\* 1000 and calls the result milliseconds.
sample_adjtimex(kernel) ==
    IF ~kernel.works THEN FailedSample
    ELSE [success |-> TRUE,
          synchronized |-> ~kernel.unsync /\ ~kernel.time_error,
          offset |-> ReportedOffset(kernel),
          max_error |-> kernel.maxerror]

update(p, sample) ==
    IF ~sample.success THEN Failed
    ELSE
        LET offset(t) == Absolute(sample.offset) >= 1000 * t
            max_error(t) == sample.max_error >= 1000 * t
        IN  FirstReached(0, <<
                Check(p.require_synchronized /\ ~sample.synchronized, ERROR, "unsynchronized"),
                Check(offset(p.error_offset_ms), ERROR, "error_offset_ms"),
                Check(max_error(p.error_max_error_ms), ERROR, "error_max_error_ms"),
                Check(offset(p.warn_offset_ms), WARN, "warn_offset_ms"),
                Check(max_error(p.warn_max_error_ms), WARN, "warn_max_error_ms")>>)

-----------------------------------------------------------------------------
(* What the summary should speak of                                        *)

\* Every reason for an alarm, by the true offset.
Findings(p, kernel) ==
    IF ~kernel.works THEN {Failed}
    ELSE
        LET unsynchronized == p.require_synchronized /\ (kernel.unsync \/ kernel.time_error)
            offset(t) == Absolute(kernel.offset) >= 1000 * t
            max_error(t) == kernel.maxerror >= 1000 * t
        IN  When(unsynchronized, {Report(ERROR, 0, "unsynchronized")}) \cup
            When(offset(p.error_offset_ms), {Report(ERROR, 0, "error_offset_ms")}) \cup
            When(max_error(p.error_max_error_ms), {Report(ERROR, 0, "error_max_error_ms")}) \cup
            When(offset(p.warn_offset_ms), {Report(WARN, 0, "warn_offset_ms")}) \cup
            When(max_error(p.warn_max_error_ms), {Report(WARN, 0, "warn_max_error_ms")})

\* It is an offset, and the kernel gives it in the unit that the code does not expect.
IsMisread(kernel, what) == kernel.nano /\ what \in {"error_offset_ms", "warn_offset_ms"}
=============================================================================
