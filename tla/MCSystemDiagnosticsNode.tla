----------------------- MODULE MCSystemDiagnosticsNode -----------------------
(***************************************************************************)
(* Small instances of SystemDiagnosticsNode for TLC.                       *)
(***************************************************************************)
EXTENDS SystemDiagnosticsNode

\* Namespaces, and lists of them in and out of order and with a repetition.
TwoNamespaces == {1, 2}
ThreeNamespaces == {1, 2, 3}
SomeLists == {<<>>, <<1>>, <<2, 1>>, <<1, 2, 1>>}
PermutedLists == {<<2, 1, 3>>, <<3, 1>>, <<1, 2, 3>>}

\* The largest value of an int of three bits, -4 .. 3, and the first one beyond it.
EdgeThreads == {3, 4}
FewThreads == {2}
=============================================================================
