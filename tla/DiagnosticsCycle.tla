-------------------------- MODULE DiagnosticsCycle --------------------------
(***************************************************************************)
(* What one update cycle of the node promises, whatever threads carry it   *)
(* out: every loaded task is updated exactly once, in any order, and the   *)
(* cycle then publishes one status per task, in the order of the tasks.    *)
(* There are no threads, no clock and no work queue here.  UpdateCycle is  *)
(* shown to implement this specification.                                  *)
(***************************************************************************)
EXTENDS Naturals

CONSTANT MaxTasks       \* the most tasks a node has loaded

VARIABLES
    task_count,         \* the number of loaded tasks
    stage,              \* "idle", "updating" or "aborted"
    answer,             \* what each task's update returned in this cycle
    report              \* the statuses of the last cycle; empty during a cycle

vars == <<task_count, stage, answer, report>>

-----------------------------------------------------------------------------

Tasks == 0 .. (task_count - 1)

Outcomes == {"ok", "threw"}

NoReport == [published |-> FALSE]

ReportOf(statuses) == [published |-> TRUE, statuses |-> statuses]

Init ==
    /\ task_count \in 0 .. MaxTasks
    /\ stage = "idle"
    /\ answer = [i \in Tasks |-> "none"]
    /\ report = NoReport

\* A timer tick opens a cycle: nobody has answered yet.
Begin ==
    /\ stage = "idle"
    /\ stage' = "updating"
    /\ answer' = [i \in Tasks |-> "none"]
    /\ report' = NoReport
    /\ UNCHANGED task_count

\* Task i, not yet updated in this cycle, is updated once.
Update(i) ==
    /\ stage = "updating"
    /\ answer[i] = "none"
    /\ \E outcome \in Outcomes : answer' = [answer EXCEPT ![i] = outcome]
    /\ UNCHANGED <<task_count, stage, report>>

\* Every task has answered: the answers are published in task order.
Publish ==
    /\ stage = "updating"
    /\ \A i \in Tasks : answer[i] # "none"
    /\ stage' = "idle"
    /\ report' = ReportOf(answer)
    /\ UNCHANGED <<task_count, answer>>

\* The process dies in the middle of a cycle: nothing of it is published.
Abort ==
    /\ stage = "updating"
    /\ stage' = "aborted"
    /\ UNCHANGED <<task_count, answer, report>>

Next ==
    \/ Begin
    \/ \E i \in Tasks : Update(i)
    \/ Publish
    \/ Abort

Spec == Init /\ [][Next]_vars
=============================================================================
