--------------------------- MODULE ThresholdTasks ---------------------------
(***************************************************************************)
(* The tasks whose update() judges what it reads now, with no memory of    *)
(* earlier updates: memory, battery, time synchronization, the thermal     *)
(* task, which remembers the zones of configure(), and the status of the   *)
(* Docker memory task, whose reading is a completed sample.  A behaviour   *)
(* is the life of one instance of one of them, while the host changes in   *)
(* any way between two calls.                                              *)
(***************************************************************************)
EXTENDS DiagnosticLevels, FiniteSets

CONSTANTS
    Parameters,         \* by task: what configure() may read
    Readings,           \* by task: what update() may find
    TwoToThe32,         \* the number of values of an int
    TwoToThe64          \* the number of values of a std::uint64_t

VARIABLES
    task,               \* which of the tasks this is
    configured,         \* between configure() and cleanup()
    parameters,
    found_at_configure, \* history: the host at configure() (thermal)
    active_,            \* active_zones_ and discovery_error_ (thermal)
    reading,            \* what the last update() has read: <<what>>, or Unread
    report              \* its summary

vars == <<task, configured, parameters, found_at_configure, active_, reading, report>>

Memory == INSTANCE MemoryTask
Battery == INSTANCE BatteryTask
TimeSync == INSTANCE TimeSyncTask
Thermal == INSTANCE ThermalTask
Docker == INSTANCE ContainerStatus

Tasks == {"memory", "battery", "time_sync", "thermal", "docker"}

Unread == <<>>

\* The parameters are of the types that configure() declares them with, and the
\* figures are within those of the types they are parsed into.  A directory that is
\* not there has no zones.
ASSUME ThresholdAssumption ==
    /\ {TwoToThe32, TwoToThe64} \subseteq Nat
    /\ TwoToThe32 <= TwoToThe64
    /\ Parameters["memory"] \subseteq
         [warn_usage : Int, error_usage : Int, warn_swap_usage : Int, error_swap_usage : Int]
    /\ \A meminfo \in Readings["memory"] :
         DOMAIN meminfo \subseteq Memory!Keys /\ meminfo \in [DOMAIN meminfo -> 0 .. TwoToThe64 - 1]
    /\ Parameters["battery"] \subseteq
         [supplies : Nat, require_present : BOOLEAN, warn_capacity : Int, error_capacity : Int]
    /\ Readings["battery"] \subseteq
         Seq([exists : BOOLEAN, present : BOOLEAN, readable : BOOLEAN, capacity : Int])
    /\ Parameters["time_sync"] \subseteq
         [require_synchronized : BOOLEAN, warn_offset_ms : Int, error_offset_ms : Int,
          warn_max_error_ms : Int, error_max_error_ms : Int]
    /\ Readings["time_sync"] \subseteq
         [works : BOOLEAN, unsync : BOOLEAN, time_error : BOOLEAN, offset : Int,
          nano : BOOLEAN, maxerror : Int]
    /\ Parameters["thermal"] \subseteq
         [zones : Seq(Nat), warn_temperature_c : Int, error_temperature_c : Int]
    /\ \A sysfs \in Readings["thermal"] :
         /\ sysfs.exists \in BOOLEAN
         /\ IsFiniteSet(DOMAIN sysfs.zone) /\ DOMAIN sysfs.zone \subseteq Nat
         /\ sysfs.zone \in [DOMAIN sysfs.zone -> [readable : BOOLEAN, temp : Int]]
         /\ ~sysfs.exists => DOMAIN sysfs.zone = {}
    /\ Parameters["docker"] \subseteq
         [warn_usage : Int, error_usage : Int, warn_usage_bytes : Int, error_usage_bytes : Int]
    /\ Readings["docker"] \subseteq
         [success : BOOLEAN, containers : Seq([usage : Nat, limit : Nat])]

-----------------------------------------------------------------------------

Init ==
    /\ task \in Tasks
    /\ configured = FALSE
    /\ parameters = Unread
    /\ found_at_configure = Unread
    /\ active_ = Thermal!cleanup
    /\ reading = Unread
    /\ report = Fine(0)

Configure ==
    /\ ~configured
    /\ configured' = TRUE
    /\ parameters' \in Parameters[task]
    /\ IF task = "thermal"
       THEN /\ found_at_configure' \in Readings[task]
            /\ active_' = Thermal!configure(parameters', found_at_configure')
       ELSE UNCHANGED <<found_at_configure, active_>>
    /\ UNCHANGED <<task, reading, report>>

\* Only the thermal task has anything to release; the parameters are replaced by
\* the next configure().
Cleanup ==
    /\ configured
    /\ configured' = FALSE
    /\ active_' = Thermal!cleanup
    /\ reading' = Unread
    /\ report' = Fine(0)
    /\ UNCHANGED <<task, parameters, found_at_configure>>

Judge(r) ==
    CASE task = "memory" -> Memory!update(parameters, r)
      [] task = "battery" -> Battery!update(parameters, r)
      [] task = "time_sync" -> TimeSync!update(parameters, TimeSync!sample_adjtimex(r))
      [] task = "thermal" -> Thermal!update(parameters, active_, r)
      [] task = "docker" -> Docker!update(parameters, r)

\* A battery is read for each supply of the list.
Fits(r) == task = "battery" => Len(r) = parameters.supplies

Update ==
    /\ configured
    /\ \E r \in Readings[task] :
        /\ Fits(r)
        /\ reading' = <<r>>
        /\ report' = Judge(r)
    /\ UNCHANGED <<task, configured, parameters, found_at_configure, active_>>

Next == Configure \/ Update \/ Cleanup

-----------------------------------------------------------------------------
(* Properties                                                              *)

LastReading == reading[1]

\* Every reason for an alarm in what was read, by the true figures of the host and the
\* parameters as they were set.
Findings ==
    CASE task = "memory" -> Memory!Findings(parameters, LastReading)
      [] task = "battery" -> Battery!Findings(parameters, LastReading)
      [] task = "time_sync" -> TimeSync!Findings(parameters, LastReading)
      [] task = "thermal" -> Thermal!Findings(parameters, found_at_configure, LastReading)
      [] task = "docker" -> Docker!Findings(parameters, LastReading)

\* An update has been made.
Updated == configured /\ reading # Unread

\* f speaks of the bytes of a container, by a threshold that the code stores as another.
ThresholdIsMisread(f) == task = "docker" /\ Docker!IsMisread(parameters, f.what)

\* f speaks of the bytes of a container that is not the fullest: the code looks only at
\* the container with the worst percentage.
IsOfAnotherContainer(f) ==
    task = "docker" /\ f.what \in Docker!ByteThresholds /\ f.who # report.who

\* The summary is never milder than any reason for an alarm: no later supply hides an
\* earlier one, no warning hides an error, a source that fails hides nothing, and no
\* arithmetic of unsigned numbers lets a full host pass.  The percentage thresholds of
\* the Docker task guard every container, also when containers have no limit.  Its byte
\* thresholds do not: excused are those of the containers that are not the fullest, and
\* those that the code stores as other numbers.
NothingIsMasked ==
    Updated =>
        \A f \in Findings :
            f.level <= report.level \/ IsOfAnotherContainer(f) \/ ThresholdIsMisread(f)

\* A summary that is not OK gives a reason of its own level, by the true figures: no
\* threshold is said to be exceeded that is not, by a battery, zone or container that
\* does not.  Excused are a kernel that reports more available than total memory (the
\* difference wraps around, and the summary is an error), an offset that the kernel gives
\* in nanoseconds, and byte thresholds that the code stores as other numbers.
AlarmsAreReal ==
    /\ Updated
    /\ report.level # OK
    /\ task = "memory" => Memory!IsPlausible(LastReading)
    /\ task = "time_sync" => ~TimeSync!IsMisread(LastReading, report.what)
    /\ ~ThresholdIsMisread(report)
    => report \in Findings

\* The offset is judged in milliseconds, as documented: an alarm of it is one of the true
\* offset of the clock, in whatever unit the kernel gives it.
OffsetIsInMilliseconds ==
    (Updated /\ task = "time_sync" /\ report.what \in {"error_offset_ms", "warn_offset_ms"})
        => report \in Findings
=============================================================================
