--------------------------- MODULE MCDrainHistory ---------------------------
(* Values of the constants for the runs of DrainHistory.                   *)
EXTENDS HistoryInvariant
CONSTANTS v1, v2, v3, greeter, mailer

ThreeVersions == {v1, v2, v3}

\* The later versions add a service.
Growing == [v \in Versions |-> IF v = v1 THEN {greeter} ELSE {greeter, mailer}]

Once == {1}
=============================================================================
