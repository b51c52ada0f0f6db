---------------------------- MODULE MCCoreHealth -----------------------------
(****************************************************************************)
(* Instances of CoreHealth for TLC.                                         *)
(****************************************************************************)
EXTENDS CoreHealth

OneApp    == <<"bridge">>
TwoApps   == <<"bridge", "uplink">>
OneTick   == [i \in Inputs |-> 1]
==============================================================================
