---------------------------- MODULE MCStorageTask ----------------------------
(***************************************************************************)
(* StorageTask with two instances, in one process or in two, that may have *)
(* the same number.  The second checks one of the two paths of the first.  *)
(***************************************************************************)
EXTENDS StorageTask

SomeLists == <<{<<"/data", "/">>}, {<<>>, <<"/data">>}>>

\* At the warning, full, and one without blocks, which counts as empty.
SomeVolumes ==
    {[total |-> 20, available |-> 3], [total |-> 20, available |-> 0],
     [total |-> 0, available |-> 0]}

\* The first instance is in the first process, which has the first number: the
\* other cases are the same up to names.
StorageInit ==
    /\ Init
    /\ process[1] = 1 /\ pid[1] = 1
    /\ process[2] = 1 => pid[2] = 1

StorageSpec == StorageInit /\ [][Next]_vars
=============================================================================
