---------------------------- MODULE DockerSampling ----------------------------
(***************************************************************************)
(* One sample of the Docker memory task: sample_docker asks the daemon for *)
(* the list of containers and then, one request after the other, for the   *)
(* statistics of each.  Every request is a connection of its own, read to  *)
(* its end.  Meanwhile containers start and stop, and the daemon may       *)
(* refuse, fail, or die in the middle of an answer.                        *)
(*                                                                         *)
(* A container is its id.  An answer is the header and a number of JSON    *)
(* objects; how objects and fields are found in the text is left out, and  *)
(* of a memory usage only whether it is the one the daemon meant.          *)
(***************************************************************************)
EXTENDS Naturals, Sequences, SequencesExt, FiniteSets

CONSTANT
    Ids                 \* the containers there may be

\* The request for the list; the others are for the statistics of one id.
List == "list"

\* An object of the list in which no id is found.
NoId == ""

\* An id of the daemon is 64 hexadecimal digits: it is neither of the two.
ASSUME SamplingAssumption == IsFiniteSet(Ids) /\ List \notin Ids /\ NoId \notin Ids

VARIABLES
    running,            \* the daemon: the running containers
    throughout,         \* history: those running since the sample began
    pc,                 \* where sample_docker is
    request,            \* what it asks for: List or an id
    fd,                 \* is its socket open?
    answer,             \* what the daemon sends: status and objects
    received,           \* how much has arrived: the header, then the objects
    whole,              \* history: was no answer of this sample cut off?
    todo,               \* the listed containers that are still to be asked for
    containers,         \* sample.containers
    sample              \* the completed sample

daemon == <<running, throughout>>
http == <<request, fd, answer, received, whole>>
vars == <<daemon, pc, http, todo, containers, sample>>

-----------------------------------------------------------------------------

NoAnswer == [status |-> 0, objects |-> <<>>]

NoSample == [completed |-> FALSE]

Sample(success, list) ==
    [completed |-> TRUE, success |-> success, containers |-> list]

Container(id, usage) == [id |-> id, usage |-> usage]

Init ==
    /\ running \in SUBSET Ids
    /\ throughout = {}
    /\ pc = "idle"
    /\ request = List
    /\ fd = FALSE
    /\ answer = NoAnswer
    /\ received = 0
    /\ whole = TRUE
    /\ todo = <<>>
    /\ containers = <<>>
    /\ sample = NoSample

-----------------------------------------------------------------------------
(***************************************************************************)
(* The daemon.                                                             *)
(***************************************************************************)

Start(id) ==
    /\ id \notin running
    /\ running' = running \union {id}
    /\ UNCHANGED <<throughout, pc, http, todo, containers, sample>>

Stop(id) ==
    /\ id \in running
    /\ running' = running \ {id}
    /\ throughout' = throughout \ {id}
    /\ UNCHANGED <<pc, http, todo, containers, sample>>

\* The answers to a request.  A container that stopped has been removed, or
\* is still known and has no memory statistics.
Answers(r) ==
    IF r = List
      THEN {[status |-> 200, objects |-> order] :
              order \in SetToSeqs(running) \union SetToSeqs(running \union {NoId})}
    ELSE IF r \in running
      THEN {[status |-> 200, objects |-> <<"real">>]}
    ELSE {[status |-> 404, objects |-> <<>>],
          [status |-> 200, objects |-> <<"zero">>]}

-----------------------------------------------------------------------------
(***************************************************************************)
(* sample_docker and http_get_unix_socket.                                 *)
(***************************************************************************)

BeginSample ==
    /\ pc = "idle"
    /\ pc' = "socket"
    /\ request' = List
    /\ throughout' = running
    /\ containers' = <<>>
    /\ sample' = NoSample
    /\ whole' = TRUE
    /\ UNCHANGED <<running, fd, answer, received, todo>>

\* The exception is caught in sample_docker: the whole sample failed.  What
\* was collected before stays in it.
Throw ==
    /\ pc' = "idle"
    /\ todo' = <<>>
    /\ sample' = Sample(FALSE, containers)
    /\ answer' = NoAnswer
    /\ received' = 0
    /\ UNCHANGED <<daemon, request, whole, containers>>

Close == fd' = FALSE

\* Mutant: the descriptor is left open.
LeaveOpen == fd' = fd

CloseAfterError == Close

OpenSocket ==
    /\ pc = "socket"
    /\ fd' = TRUE
    /\ pc' = "connect"
    /\ UNCHANGED <<daemon, request, answer, received, whole, todo, containers, sample>>

SocketFails ==
    /\ pc = "socket"
    /\ Throw
    /\ UNCHANGED fd

Connect ==
    /\ pc = "connect"
    /\ pc' = "send"
    /\ UNCHANGED <<daemon, http, todo, containers, sample>>

\* The request is sent and the daemon makes up its answer.
Send ==
    /\ pc = "send"
    /\ answer' \in Answers(request)
    /\ received' = 0
    /\ pc' = "receive"
    /\ UNCHANGED <<daemon, request, fd, whole, todo, containers, sample>>

\* The daemon has closed the connection: send() is called without
\* MSG_NOSIGNAL, and SIGPIPE ends the process.
SendRaisesSigpipe ==
    /\ pc = "send"
    /\ pc' = "killed"
    /\ fd' = FALSE
    /\ UNCHANGED <<daemon, request, answer, received, whole, todo, containers, sample>>

\* The next part of the answer arrives.
Receive ==
    /\ pc = "receive"
    /\ received < 1 + Len(answer.objects)
    /\ received' = received + 1
    /\ UNCHANGED <<daemon, pc, request, fd, answer, whole, todo, containers, sample>>

\* connect(), send() or recv() fails: the socket is closed.
RequestFails ==
    /\ pc \in {"connect", "send", "receive"}
    /\ Throw
    /\ CloseAfterError

Complete == received = 1 + Len(answer.objects)

\* Mutant: the loop goes on when recv() returns 0.
EndIgnored ==
    /\ pc = "receive"
    /\ UNCHANGED vars

\* recv() returns 0: the daemon is done, or it died.  The code takes what
\* there is; it compares no length.
EndOfAnswer ==
    /\ pc = "receive"
    /\ Close
    /\ pc' = "parse"
    /\ whole' = (whole /\ Complete)
    /\ UNCHANGED <<daemon, request, answer, received, todo, containers, sample>>

\* No complete header, or a status that is not 200.
BadResponse ==
    /\ pc = "parse"
    /\ received = 0 \/ answer.status # 200
    /\ Throw
    /\ UNCHANGED fd

\* The usage that is found in the statistics; of a number that was cut, the
\* digits that did arrive.
FoundUsages == IF Complete THEN {answer.objects[1]} ELSE {"zero", "short"}

HasId(object) == object # NoId

\* The ids in the complete objects of a list; one without an id is skipped.
IdsAmong(objects) ==
    LET listed[n \in 0 .. Len(objects)] ==
          IF n = 0 THEN <<>>
          ELSE IF HasId(objects[n]) THEN Append(listed[n - 1], objects[n])
          ELSE listed[n - 1]
    IN  listed[Len(objects)]

\* Mutant: the last object is dropped.
AllButLast(objects) == IdsAmong(SubSeq(objects, 1, Len(objects) - 1))

ListedIds(objects) == IdsAmong(objects)

\* The list was parsed: its containers are asked for, one after the other.
\* A list without containers completes the sample.
ParseList ==
    /\ pc = "parse"
    /\ request = List
    /\ received > 0
    /\ answer.status = 200
    /\ LET listed == ListedIds(SubSeq(answer.objects, 1, received - 1))
       IN  IF listed = <<>>
             THEN /\ pc' = "idle"
                  /\ sample' = Sample(TRUE, containers)
                  /\ UNCHANGED <<request, todo>>
             ELSE /\ pc' = "socket"
                  /\ request' = Head(listed)
                  /\ todo' = Tail(listed)
                  /\ UNCHANGED sample
    /\ answer' = NoAnswer
    /\ received' = 0
    /\ UNCHANGED <<daemon, fd, whole, containers>>

\* The statistics of one container were parsed: on to the next one.
ParseStatistics ==
    /\ pc = "parse"
    /\ request # List
    /\ received > 0
    /\ answer.status = 200
    /\ \E usage \in FoundUsages :
          containers' = Append(containers, Container(request, usage))
    /\ IF todo = <<>>
         THEN /\ pc' = "idle"
              /\ sample' = Sample(TRUE, containers')
              /\ UNCHANGED <<request, todo>>
         ELSE /\ pc' = "socket"
              /\ request' = Head(todo)
              /\ todo' = Tail(todo)
              /\ UNCHANGED sample
    /\ answer' = NoAnswer
    /\ received' = 0
    /\ UNCHANGED <<daemon, fd, whole>>

RequestStep ==
    \/ OpenSocket \/ Connect \/ Send
    \/ Receive \/ EndOfAnswer
    \/ BadResponse \/ ParseList \/ ParseStatistics

Next ==
    \/ \E id \in Ids : Start(id) \/ Stop(id)
    \/ BeginSample
    \/ RequestStep
    \/ SocketFails \/ RequestFails \/ SendRaisesSigpipe

Spec == Init /\ [][Next]_vars

\* The daemon answers: no system call of the sampler blocks for ever.  That
\* a call fails is always possible and never relied on.
FairSpec == Spec /\ WF_vars(RequestStep)

-----------------------------------------------------------------------------
(***************************************************************************)
(* Properties.                                                             *)
(***************************************************************************)

\* However a request ends, and at whatever request the sample is given up,
\* no descriptor stays open: the sampler runs once a period for months.
NoDescriptorLeft == pc \in {"idle", "socket", "parse"} => ~fd

\* A sample that claims success is complete, if no answer was cut off: a
\* container that ran from the beginning of the sample to now is in it, with
\* its real usage, whatever other containers and requests did in between.
SuccessMeansAllChecked ==
    sample.completed /\ sample.success /\ whole =>
        \A id \in throughout :
            \E n \in DOMAIN sample.containers :
                sample.containers[n] = Container(id, "real")

\* The README says of the task that "it checks all running containers": one
\* container that goes away does not keep the others from being checked, as
\* long as the daemon itself answers.
OthersAreStillChecked ==
    [][ BadResponse /\ whole =>
            throughout \subseteq {containers[n].id : n \in DOMAIN containers} ]_vars

\* A sample that was begun completes, if the daemon answers: the
\* loop over recv() ends, and so does the one over the containers.  (A
\* connection that the daemon closes too early may kill the process.)
SampleCompletes == pc # "idle" ~> pc \in {"idle", "killed"}
=============================================================================
