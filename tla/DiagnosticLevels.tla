-------------------------- MODULE DiagnosticLevels --------------------------
(***************************************************************************)
(* The levels of a diagnostic status, and the summary a task gives: its    *)
(* level, and what the message speaks of (`who`: the number of a battery,  *)
(* thermal zone or container, 0 for the host; `what`: the threshold that   *)
(* was reached).  The wording of messages is left out.                     *)
(***************************************************************************)
EXTENDS Integers, Sequences

OK == 0
WARN == 1
ERROR == 2

Report(level, who, what) == [level |-> level, who |-> who, what |-> what]

\* A source could not be read, or said something impossible.
Failed == Report(ERROR, 0, "failed")

Fine(who) == Report(OK, who, "none")

\* The elements of a set, if the condition holds.
When(condition, set) == IF condition THEN set ELSE {}

\* One condition of a chain of else-ifs.
Check(reached, level, what) == [reached |-> reached, level |-> level, what |-> what]

\* A chain of else-ifs: the first condition that holds decides.
FirstReached(who, checks) ==
    LET reached == {n \in DOMAIN checks : checks[n].reached}
        first == CHOOSE n \in reached : \A m \in reached : n <= m
    IN  IF reached = {}
        THEN Fine(who)
        ELSE Report(checks[first].level, who, checks[first].what)
=============================================================================
