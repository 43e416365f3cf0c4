---------------------------- MODULE LatestSample ----------------------------
(***************************************************************************)
(* What the Docker memory task promises of its background samples, without *)
(* threads, lock or flag: samples are taken one at a time, each is         *)
(* completed at one moment, and an update is answered at one moment with   *)
(* the newest completed sample and whether another one is being taken.     *)
(* Nothing of a sample outlives its instance.  DockerMemoryTask is shown   *)
(* to implement this specification.                                        *)
(***************************************************************************)
EXTENDS Naturals

CONSTANT Results        \* what a sample may say

VARIABLES
    open,               \* an instance is configured
    sampling,           \* a sample is being taken
    latest,             \* the newest completed sample
    answer              \* the answer to the last update

vars == <<open, sampling, latest, answer>>

-----------------------------------------------------------------------------

Nothing == [run |-> 0]
Completed(run, result) == [run |-> run, result |-> result]

NoAnswer == [kind |-> "none"]

\* An answer made without the latest sample: taken inline, or an exception.
OtherAnswers == [kind : {"inline", "exception"}]

\* The sequence number and the duration are those of the sample.
AnswerOf(in_progress, sample) ==
    [kind |-> "background", in_progress |-> in_progress,
     sequence |-> sample.run, duration |-> sample.run, sample |-> sample]

Init ==
    /\ ~open
    /\ ~sampling
    /\ latest = Nothing
    /\ answer = NoAnswer

\* configure()
Open ==
    /\ ~open
    /\ open'
    /\ answer' = NoAnswer
    /\ UNCHANGED <<sampling, latest>>

\* update() is called ...
Ask ==
    /\ open
    /\ answer' = NoAnswer
    /\ UNCHANGED <<open, sampling, latest>>

\* ... may begin a sample, if none is being taken ...
Begin ==
    /\ open
    /\ ~sampling
    /\ sampling'
    /\ UNCHANGED <<open, latest, answer>>

\* ... and answers.
Answer ==
    /\ open
    /\ answer' \in OtherAnswers \cup {AnswerOf(sampling, latest)}
    /\ UNCHANGED <<open, sampling, latest>>

\* The sample is there.
Complete ==
    /\ open
    /\ sampling
    /\ ~sampling'
    /\ \E result \in Results : latest' = Completed(latest.run + 1, result)
    /\ UNCHANGED <<open, answer>>

\* cleanup()
Close ==
    /\ open
    /\ ~open'
    /\ ~sampling'
    /\ latest' = Nothing
    /\ UNCHANGED answer

Next == Open \/ Ask \/ Begin \/ Answer \/ Complete \/ Close

Spec == Init /\ [][Next]_vars
=============================================================================
