---------------------------- MODULE MCNetworkTask ----------------------------
(***************************************************************************)
(* NetworkTask on two interfaces with one counter each: one interface may  *)
(* hide or mask the other, and one may be listed twice.                    *)
(***************************************************************************)
EXTENDS NetworkTask

SomeLists == {<<>>, <<"eth0", "wlan0">>, <<"eth0", "eth0">>}

OneCounter == <<"rx_errors">>

\* Ordinary thresholds, and a negative one, which is stored as a huge number.
SomeThresholds == {[warn |-> 1, error |-> 2], [warn |-> 0, error |-> -1]}
=============================================================================
