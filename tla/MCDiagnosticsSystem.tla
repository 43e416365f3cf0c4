------------------------- MODULE MCDiagnosticsSystem -------------------------
(***************************************************************************)
(* A node with the Docker memory task and one other task, and a pool of up *)
(* to two threads.                                                         *)
(***************************************************************************)
EXTENDS DiagnosticsSystem

TwoNamespaces == {1, 2}
BothTasks == {<<1, 2>>}
OneOrTwoThreads == {1, 2}
=============================================================================
