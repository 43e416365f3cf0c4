----------------------------- MODULE BatteryTask -----------------------------
(***************************************************************************)
(* The battery task: update() walks the configured supplies.  A supply     *)
(* that is missing, not present or unreadable ends the walk with an        *)
(* exception; otherwise the worst capacity decides.                        *)
(***************************************************************************)
EXTENDS DiagnosticLevels

\* What is found of one supply: its directory, its file "present" (1 if there is
\* none), and whether "present", "capacity" and "status" could be read.
Supply(exists, present, readable, capacity) ==
    [exists |-> exists, present |-> present, readable |-> readable, capacity |-> capacity]

-----------------------------------------------------------------------------

\* One turn of the loop throws.
Throws(p, supply) ==
    ~supply.exists \/ ~supply.readable \/ (p.require_present /\ ~supply.present)

\* Mutant: a warning replaces an error of an earlier supply.
LastSupplyDecides(p, supply, found, n) ==
    IF supply.capacity <= p.error_capacity THEN Report(ERROR, n, "error_capacity")
    ELSE IF supply.capacity <= p.warn_capacity THEN Report(WARN, n, "warn_capacity")
    ELSE found

\* An error always takes over, a warning only when nothing was found yet.
AfterSupply(p, supply, found, n) ==
    IF supply.capacity <= p.error_capacity THEN Report(ERROR, n, "error_capacity")
    ELSE IF supply.capacity <= p.warn_capacity /\ found.level < WARN
        THEN Report(WARN, n, "warn_capacity")
    ELSE found

AfterSupplies(p, supplies) ==
    LET after[n \in 0 .. Len(supplies)] ==
            IF n = 0 THEN Fine(0) ELSE AfterSupply(p, supplies[n], after[n - 1], n)
    IN  after[Len(supplies)]

update(p, supplies) ==
    IF supplies = <<>> \/ \E n \in DOMAIN supplies : Throws(p, supplies[n])
    THEN Failed
    ELSE AfterSupplies(p, supplies)

-----------------------------------------------------------------------------
(* What the summary should speak of                                        *)

\* Every reason for an alarm.
Findings(p, supplies) ==
    LET failing == {n \in DOMAIN supplies : Throws(p, supplies[n])}
        at_most(capacity) ==
            {n \in DOMAIN supplies \ failing : supplies[n].capacity <= capacity}
    IN  When(supplies = <<>> \/ failing # {}, {Failed}) \cup
        {Report(ERROR, n, "error_capacity") : n \in at_most(p.error_capacity)} \cup
        {Report(WARN, n, "warn_capacity") : n \in at_most(p.warn_capacity)}
=============================================================================
