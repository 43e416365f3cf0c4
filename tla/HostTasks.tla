------------------------------- MODULE HostTasks -------------------------------
(***************************************************************************)
(* The tasks that watch the host, one at a time: the CPU task, which       *)
(* compares two samples, or one of the ThresholdTasks, which judge one     *)
(* reading.                                                                *)
(***************************************************************************)
EXTENDS ThresholdTasks

CONSTANTS               \* the parameters of CpuTask
    MaxTicks, MaxSince, LoadsPerCore, WarnUsage, ErrorUsage, WarnLoad, ErrorLoad

\* The counters of /proc/stat have two hundred times more room than a machine will
\* ever use: at 100 ticks a second, a thousand cores need 25000 years to count to a
\* two hundredth of 2^64.
ASSUME CpuAssumption ==
    /\ {MaxTicks, MaxSince} \subseteq Nat
    /\ 201 * MaxTicks < TwoToThe64
    /\ LoadsPerCore \subseteq Nat
    /\ {WarnUsage, ErrorUsage, WarnLoad, ErrorLoad} \subseteq Int

VARIABLES               \* the variables of CpuTask
    idle, busy, guest, since, cpu_configured, previous_sample_, level, cause, usage, load, sampled

cpu_vars ==
    <<idle, busy, guest, since, cpu_configured, previous_sample_, level, cause, usage, load, sampled>>

Cpu == INSTANCE CpuTask WITH configured <- cpu_configured

-----------------------------------------------------------------------------

\* The CPU task, or one of the others, which the CPU's variables then sleep through.
HostInit ==
    /\ Cpu!Init
    /\ \/ Init
       \/ /\ task = "cpu"
          /\ configured = FALSE
          /\ parameters = Unread /\ found_at_configure = Unread /\ active_ = Unread
          /\ reading = Unread /\ report = Unread

HostNext ==
    \/ task = "cpu" /\ Cpu!Next /\ UNCHANGED vars
    \/ task # "cpu" /\ Next /\ UNCHANGED cpu_vars

HostSpec == HostInit /\ [][HostNext]_<<vars, cpu_vars>>

-----------------------------------------------------------------------------
(* The properties of CpuTask                                               *)

\* Usage and load of the CPU are judged together: a warning of one never hides an
\* error of the other.
LevelIsWorstOfBoth == Cpu!LevelIsWorstOfBoth

\* A usage alarm of the CPU is real, also when the idle counter slipped backwards; the
\* ticks of guests, which the code counts twice, at most double the usage.
UsageAlarmsAreReal == Cpu!UsageAlarmsAreReal

\* A usage alarm of the CPU is real, also when guests run.
UsageIsNotInflated == Cpu!UsageIsNotInflated

\* An overloaded CPU is reported at the next comparison.
HighUsageIsReported == Cpu!HighUsageIsReported
=============================================================================
