----------------------------- MODULE ThermalTask -----------------------------
(***************************************************************************)
(* The thermal task: configure() fixes the zones, the ones it is told or   *)
(* the ones it finds at that time, and remembers if looking for them       *)
(* failed; update() reads every one of them and judges the hottest.        *)
(*                                                                         *)
(* sysfs is what is found below sysfs_path: whether it exists, and the     *)
(* zones there, by number, with their files "type" and "temp".             *)
(***************************************************************************)
EXTENDS DiagnosticLevels, FiniteSets

Sysfs(exists, zone) == [exists |-> exists, zone |-> zone]
Zone(readable, temp) == [readable |-> readable, temp |-> temp]

-----------------------------------------------------------------------------

\* The directories thermal_zone*, sorted: the n-th has n - 1 before it.
discover_thermal_zones(sysfs) ==
    LET there == DOMAIN sysfs.zone
    IN  [n \in 1 .. Cardinality(there) |->
            CHOOSE z \in there : Cardinality({y \in there : y < z}) = n - 1]

\* active_zones_ and discovery_error_
Active(zones, failed) == [zones |-> zones, failed |-> failed]

configure(p, sysfs) ==
    IF p.zones # <<>> THEN Active(p.zones, FALSE)
    ELSE IF ~sysfs.exists THEN Active(<<>>, TRUE)
    ELSE Active(discover_thermal_zones(sysfs), FALSE)

cleanup == Active(<<>>, FALSE)

Unreadable(sysfs, zone) == zone \notin DOMAIN sysfs.zone \/ ~sysfs.zone[zone].readable

\* The first of the hottest zones.
WorstZone(zones, sysfs) ==
    LET temp(n) == sysfs.zone[zones[n]].temp
        first == CHOOSE n \in DOMAIN zones :
            /\ \A m \in DOMAIN zones : temp(m) <= temp(n)
            /\ \A m \in 1 .. (n - 1) : temp(m) < temp(n)
    IN  zones[first]

update(p, active, sysfs) ==
    IF \/ active.failed
       \/ active.zones = <<>>
       \/ \E n \in DOMAIN active.zones : Unreadable(sysfs, active.zones[n])
    THEN Failed
    ELSE
        LET worst == WorstZone(active.zones, sysfs)
            temp == sysfs.zone[worst].temp
        IN  FirstReached(worst, <<
                Check(temp >= p.error_temperature_c, ERROR, "error_temperature_c"),
                Check(temp >= p.warn_temperature_c, WARN, "warn_temperature_c")>>)

-----------------------------------------------------------------------------
(* What the summary should speak of                                        *)

\* Every reason for an alarm, from the zones there were at configure().
Findings(p, before, sysfs) ==
    LET wanted == IF p.zones = <<>> THEN DOMAIN before.zone
                  ELSE {p.zones[n] : n \in DOMAIN p.zones}
        there == {z \in wanted \cap DOMAIN sysfs.zone : sysfs.zone[z].readable}
        reaches(t) == {z \in there : sysfs.zone[z].temp >= t}
    IN  When(wanted = {} \/ wanted # there, {Failed}) \cup
        {Report(ERROR, z, "error_temperature_c") : z \in reaches(p.error_temperature_c)} \cup
        {Report(WARN, z, "warn_temperature_c") : z \in reaches(p.warn_temperature_c)}
=============================================================================
