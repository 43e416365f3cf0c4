----------------------------- MODULE MCHostTasks -----------------------------
(***************************************************************************)
(* HostTasks with parameters and readings that lie at, just below and just *)
(* above the thresholds.  An int has 16 values here and a std::uint64_t    *)
(* 1024.                                                                   *)
(***************************************************************************)
EXTENDS HostTasks, SequencesExt

MemoryParameters ==
    {[warn_usage |-> 50, error_usage |-> 75, warn_swap_usage |-> 25, error_swap_usage |-> 50],
     [warn_usage |-> 101, error_usage |-> 100, warn_swap_usage |-> 0, error_swap_usage |-> 101]}

\* Every file with figures up to 4, the implausible ones too, and some without a key.
MemoryReadings ==
    [Memory!Keys -> 0 .. 4] \cup [Memory!Keys \ {"SwapFree"} -> {1}] \cup [{} -> {0}]

BatteryParameters ==
    [supplies : 0 .. 3, require_present : BOOLEAN, warn_capacity : {30}, error_capacity : {15}]

Supplies ==
    [exists : {TRUE}, present : BOOLEAN, readable : {TRUE}, capacity : {15, 30, 31}] \cup
    [exists : {FALSE}, present : {FALSE}, readable : {FALSE}, capacity : {0}] \cup
    [exists : {TRUE}, present : {TRUE}, readable : {FALSE}, capacity : {0}]

TimeSyncParameters ==
    [require_synchronized : BOOLEAN, warn_offset_ms : {50}, error_offset_ms : {100},
     warn_max_error_ms : {1000}, error_max_error_ms : {5000}]

Kernels ==
    [works : BOOLEAN, unsync : BOOLEAN, time_error : BOOLEAN,
     offset : {-100000, -50000, 0, 49999, 99999}, nano : BOOLEAN,
     maxerror : {0, 1000000, 5000000}]

ThermalParameters ==
    [zones : {<<>>, <<1>>, <<2, 1>>}, warn_temperature_c : {75}, error_temperature_c : {90}]

Zones == [readable : {TRUE}, temp : {74, 75, 90}] \cup [readable : {FALSE}, temp : {0}]

Sysfs ==
    {[exists |-> FALSE, zone |-> <<>>]} \cup
    UNION {[exists : {TRUE}, zone : [there -> Zones]] : there \in SUBSET {1, 2}}

\* Byte thresholds that are none, that fit into an int, that wrap around to 1 or to a
\* huge number, and that are lost: as an int, 8 is negative and 16 is zero.
DockerParameters ==
    {[warn_usage |-> p[1], error_usage |-> p[2],
      warn_usage_bytes |-> b[1], error_usage_bytes |-> b[2]] :
        p \in {<<50, 80>>, <<100, 101>>},
        b \in {<<0, 0>>, <<1, 7>>, <<17, -1>>, <<8, 16>>}}

Containers ==
    {[usage |-> c[1], limit |-> c[2]] :
        c \in {<<0, 8>>, <<1, 0>>, <<1, 2>>, <<7, 0>>, <<8, 10>>, <<8, 16>>}}

Samples ==
    {[success |-> FALSE, containers |-> <<>>]} \cup
    [success : {TRUE}, containers : BoundedSeq(Containers, 3)]

SomeParameters ==
    [memory |-> MemoryParameters, battery |-> BatteryParameters,
     time_sync |-> TimeSyncParameters, thermal |-> ThermalParameters,
     docker |-> DockerParameters]

SomeReadings ==
    [memory |-> MemoryReadings, battery |-> BoundedSeq(Supplies, 3),
     time_sync |-> Kernels, thermal |-> Sysfs, docker |-> Samples]
=============================================================================
