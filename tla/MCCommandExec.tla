--------------------------- MODULE MCCommandExec ----------------------------
(****************************************************************************)
(* An instance of CommandExec: commands of every class, good and bad.       *)
(****************************************************************************)
EXTENDS CommandExec

Recovery(action) == [cls |-> "RECOVERY", len |-> "FULL", action |-> action]
Mode(action, state) == [cls |-> "MODE", len |-> "FULL", action |-> action, state |-> state]
Diagnostic(target_, action) ==
    [cls |-> "DIAGNOSTIC", len |-> "FULL", target |-> target_, action |-> action]
CounterMgmt(scope) == [cls |-> "COUNTER_MGMT", len |-> "FULL", action |-> "RESET", scope |-> scope]

CoreOk     == ConfigPayload("FULL", 1, 1, "PUBLISH_PERIOD", 2)
AttitudeOk == ConfigPayload("FULL", 2, 1, "ATTITUDE", 3)
LoraOk     == ConfigPayload("FULL", 3, 1, "DOWNLINK_PROTOCOL", 1)
Enter      == Mode("ENTER", "RECOVERY")
Readback   == Diagnostic("core", "ROUTE_READBACK_REQUEST")
Replace(route) == RoutePayload("REPLACE", 0, route)
Viewpoint(ranges) == [cls |-> "VIEWPOINT", len |-> "FULL", ranges |-> ranges, type |-> "LOOK"]

\* A CONFIG command goes to three pipes: to keep the instance small it is paired
\* with one that goes to a single pipe or, where it is bad itself, is refused.
MCScripts ==
    {<<CoreOk, Recovery("RESET_COUNTER")>>,
     <<Viewpoint(TRUE), ConfigPayload("FULL", 1, 1, "PUBLISH_PERIOD", 9)>>,
     <<Recovery("unknown"), ConfigPayload("FULL", 1, 1, "unknown", 2)>>,
     <<FlightModePayload("HOVER", 1), ConfigPayload("FULL", 1, 2, "PUBLISH_PERIOD", 2)>>,
     <<ConfigPayload("SHORT", 1, 1, "PUBLISH_PERIOD", 2), ConfigPayload("NO_VALUE", 1, 1, "PUBLISH_PERIOD", 2)>>,
     <<AttitudeOk, Mode("EXIT", "NORMAL")>>,
     <<Viewpoint(FALSE), ConfigPayload("FULL", 2, 1, "ATTITUDE", 9)>>,
     <<FlightModePayload("HOVER", 1), ConfigPayload("FULL", 2, 1, "unknown", 3)>>,
     <<Recovery("bridge"), FlightModePayload("WAYPOINT", 2)>>,
     <<Recovery("lora"), Diagnostic("lora", "other")>>, <<LoraOk, Viewpoint(FALSE)>>,
     <<Viewpoint(FALSE), ConfigPayload("FULL", 3, 1, "DOWNLINK_PROTOCOL", 9)>>,
     <<ConfigPayload("FULL", 9, 1, "PUBLISH_PERIOD", 2), CounterMgmt("lora")>>,
     <<Enter, Mode("EXIT", "NORMAL")>>, <<Enter, Enter>>,
     <<Recovery("uplink"), Viewpoint(TRUE)>>,
     <<CounterMgmt("uplink"), Recovery("SERIAL_RECONNECT")>>,
     <<CounterMgmt("core"), Viewpoint(TRUE)>>,
     <<Recovery("PARSER_RESET"), FlightModePayload("WAYPOINT", 2)>>,
     <<FlightModePayload("WAYPOINT", 2), FlightModePayload("HOVER", 0)>>,
     <<Replace(<<1>>), Replace(<<2>>)>>,
     <<Replace(<<1, 2>>), RoutePayload("DELETE", 0, << >>)>>,
     <<Replace(<<1>>), RoutePayload("MODIFY", 0, <<2>>)>>,
     <<RoutePayload("ADD", 0, <<2>>), Readback>>}

MCDefaultConfig ==
    [a \in Apps |-> [p \in Params[a] |-> IF a = "lora" THEN 0 ELSE 1]]
=============================================================================
