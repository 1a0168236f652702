--------------------------- MODULE MCAppsHistory ----------------------------
(***************************************************************************)
(* Instances of AppsHistory for TLC.                                       *)
(***************************************************************************)
EXTENDS AppsHistory, TLC

OnePort == {1}
TwoPorts == {1, 2}
MCHostPort == [h \in Hosts |-> 9]

\* Request slots behave alike, and so do the container entries.
ReqSymmetry == Permutations(Reqs)
ContainerSymmetry == ReqSymmetry \cup Permutations(Containers)
=============================================================================
