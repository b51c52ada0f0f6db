----------------------------- MODULE ConfigStore -----------------------------
(****************************************************************************)
(* What an app promises about its run-time configuration: it is always a    *)
(* legal one, a command changes one parameter of it at a time, and a        *)
(* restart brings back the configuration that was saved last, or the        *)
(* defaults when there is no readable file.                                 *)
(*                                                                          *)
(* CommandExec implements it three times, once for each app.                *)
(****************************************************************************)
CONSTANTS
    Configs,     \* the legal configurations
    Default,     \* the configuration of a new vehicle
    NoFile       \* there is no readable state file

VARIABLES
    active,      \* the configuration the app works with
    stored       \* the one in its state file

store == <<active, stored>>

Init == active = Default /\ stored = NoFile

\* All parameters but one are the same.
OneParameter(c, d) ==
    \E p \in DOMAIN d : \A q \in DOMAIN d \ {p} : c[q] = d[q]

\* A command.  The save that follows may fail and leaves the old file then.
Change ==
    /\ active' \in Configs
    /\ OneParameter(active', active)
    /\ stored' \in {active', stored}

\* A save for another reason.
Save == stored' = active /\ UNCHANGED active

Damage == stored' = NoFile /\ UNCHANGED active

Restart ==
    /\ active' = IF stored = NoFile THEN Default ELSE stored
    /\ UNCHANGED stored

Next == Change \/ Save \/ Damage \/ Restart

Spec == Init /\ [][Next]_store
=============================================================================
