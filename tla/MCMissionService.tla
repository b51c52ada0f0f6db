-------------------------- MODULE MCMissionService ---------------------------
(****************************************************************************)
(* Instances of MissionService for TLC.                                     *)
(****************************************************************************)
EXTENDS MissionService

\* The FC holds nothing, or more than the bridge can take.
OneRoute   == {<<"a", "b">>}
NoneOrLong == {<< >>, <<"c", "b", "a">>}
Long       == {<<"c", "b", "a">>}
\* A MISSION_ITEM has no parameters; those of "b" and "c" are 0 anyway.
Simplified == [w \in Waypoints |-> IF w = "a" THEN "A" ELSE w]
==============================================================================
