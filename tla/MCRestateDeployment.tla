------------------------ MODULE MCRestateDeployment ------------------------
(* Values of the constants for the runs of RestateDeployment.              *)
EXTENDS RoutingInvariant, TLC
CONSTANTS v1, v2, greeter

TwoVersions == {v1, v2}

\* Versions are interchangeable: every one serves the same service, and the one a
\* pass that is not running is said to be about (NoSpec) is never looked at.
VersionSymmetry == Permutations(TwoVersions)

\* Every version serves the same service.
OneService == [v \in Versions |-> {greeter}]

Once == {1}
Twice == {1, 2}
=============================================================================
