----------------------------- MODULE ManagedNode -----------------------------
(***************************************************************************)
(* What the node promises whoever drives its lifecycle: a transition       *)
(* happens at one moment or not at all.  A configuration has loaded every  *)
(* plugin that works, or the node is as it was before; an activation that  *)
(* fails leaves an unconfigured node with nothing loaded.  There are no    *)
(* exceptions, no half-loaded lists and no timer of their own here.        *)
(* SystemDiagnosticsNode is shown to implement this specification.         *)
(***************************************************************************)
EXTENDS Naturals, Sequences

CONSTANT Namespaces     \* the task namespaces, as ranks

VARIABLES
    state,              \* "unconfigured", "inactive", "active", "finalized"
                        \* or "destroyed"
    working,            \* the plugins a configuration would load now
    tasks,              \* the loaded tasks
    publishing          \* does the node publish diagnostics?

vars == <<state, working, tasks, publishing>>

-----------------------------------------------------------------------------

\* A sequence has the members of a set, each once, in the order of their ranks.
Lists(seq, set) ==
    /\ seq \in Seq(set)
    /\ \A ns \in set : \E i \in 1 .. Len(seq) : seq[i] = ns
    /\ \A i, j \in 1 .. Len(seq) : i < j => seq[i] < seq[j]

Init ==
    /\ state = "unconfigured"
    /\ working \subseteq Namespaces
    /\ tasks = <<>>
    /\ publishing = FALSE

\* Everything is released on the way to a state without tasks.
Release ==
    /\ tasks' = <<>>
    /\ publishing' = FALSE
    /\ UNCHANGED working

Configure ==
    /\ state = "unconfigured"
    /\ state' = "inactive"
    /\ Lists(tasks', working)
    /\ UNCHANGED <<working, publishing>>

Activate ==
    /\ state = "inactive"
    /\ state' = "active"
    /\ publishing' = TRUE
    /\ UNCHANGED <<working, tasks>>

Deactivate ==
    /\ state = "active"
    /\ state' = "inactive"
    /\ publishing' = FALSE
    /\ UNCHANGED <<working, tasks>>

\* Asked for, or what is left of an activation that failed.
Cleanup ==
    /\ state = "inactive"
    /\ state' = "unconfigured"
    /\ Release

Shutdown ==
    /\ state \in {"unconfigured", "inactive", "active"}
    /\ state' = "finalized"
    /\ Release

Destroy ==
    /\ state # "destroyed"
    /\ state' = "destroyed"
    /\ Release

\* Whoever sets parameters decides what the next configuration will load, and
\* nothing else.
SetParameter ==
    /\ state # "destroyed"
    /\ working' \subseteq Namespaces
    /\ UNCHANGED <<state, tasks, publishing>>

Next ==
    \/ Configure \/ Activate \/ Deactivate \/ Cleanup
    \/ Shutdown \/ Destroy \/ SetParameter

Spec == Init /\ [][Next]_vars
=============================================================================
