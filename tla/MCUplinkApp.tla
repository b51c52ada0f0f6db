----------------------------- MODULE MCUplinkApp -----------------------------
(****************************************************************************)
(* Instances of UplinkApp for TLC: the sets of command contents the ground  *)
(* draws from.                                                              *)
(****************************************************************************)
EXTENDS UplinkApp

Good(cls, auth, sub) ==
    [cls |-> cls, env |-> "OK", auth |-> auth, force |-> FALSE, token |-> TRUE,
     payload |-> "GOOD", sub |-> sub]

\* For the sequence numbers: a command that NOMINAL lets through and DEGRADED
\* refuses.
SequencingTemplates == {Good("CONFIG", 2, "-")}

\* For the gate: every class, and every way a command can fail.
GateTemplates ==
    {Good("CONFIG", 2, "-"), Good("ROUTE_UPDATE", 2, "-"),
     Good("VIEWPOINT", 2, "-"), Good("RECOVERY", 3, "-"), Good("MODE", 3, "-"),
     Good("DIAGNOSTIC", 1, "-"), Good("COUNTER_MGMT", 3, "UPLINK"),
     Good("COUNTER_MGMT", 3, "OTHER"), Good("FLIGHT_MODE", 3, "WAYPOINT"),
     Good("FLIGHT_MODE", 3, "HOVER"), Good("FLIGHT_MODE", 3, "LAND"),
     Good("NONE", 1, "-")}
    \cup {[Good("DIAGNOSTIC", 1, "-") EXCEPT !.env = e] :
            e \in {"BAD_VERSION", "TOO_LONG", "BAD_CRC"}}
    \cup {[Good(cls, 3, "-") EXCEPT !.payload = "BAD"] :
            cls \in {"CONFIG", "ROUTE_UPDATE", "VIEWPOINT", "MODE", "COUNTER_MGMT",
                    "FLIGHT_MODE"}}
    \cup {[Good(cls, 3, "-") EXCEPT !.payload = p] :
            cls \in {"ROUTE_UPDATE", "FLIGHT_MODE"}, p \in {"EMPTY", "SHORT"}}
    \cup {[Good("VIEWPOINT", 2, "-") EXCEPT !.force = TRUE],
          [Good("VIEWPOINT", 2, "-") EXCEPT !.auth = 1],
          [Good("MODE", 3, "-") EXCEPT !.token = FALSE]}

\* A counter reset of uplink_app itself.
ResetTemplates == {Good("COUNTER_MGMT", 3, "UPLINK")}
==============================================================================
