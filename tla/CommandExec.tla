----------------------------- MODULE CommandExec -----------------------------
(****************************************************************************)
(* What becomes of a ground command after uplink_app has let it pass.       *)
(*                                                                          *)
(* uplink_app forwards it on the software bus to the apps that subscribe to *)
(* its class; each takes messages from its own pipe when it gets round to   *)
(* it, carries the command out or refuses it and, for most classes, answers *)
(* with EXEC_RESULT, which uplink_app shows to the ground.  A pipe that is  *)
(* full drops messages, a restarted app loses its pipe and its memory, and  *)
(* a save of a state file, a write to the flight controller (FC) or a       *)
(* transmission may fail.                                                   *)
(*                                                                          *)
(* The checks a command passes before it is forwarded are the subject of    *)
(* UplinkApp (here: it is let pass or not), health and automatic restarts   *)
(* that of CoreHealth.  The messages of an upload or a readback of the      *)
(* mission, and MISSION_QUERY, are the subject of MissionService: here an   *)
(* upload or a readback begins, goes on while all else happens, and ends in *)
(* one of the ways it can.  Commands are numbered 1, 2, 3...  Command and   *)
(* error counters, event texts and request tokens are left out.             *)
(****************************************************************************)
EXTENDS Naturals, Sequences

CONSTANTS
    Scripts,                     \* the sequences of commands the ground may send
    MS_MIN, MS_MAX,              \* legal times of cfs_core_app and the bridge
    INTERVAL_MIN, INTERVAL_MAX,  \* legal stream intervals of the bridge
    DefaultConfig,               \* the configuration of each app when new
    PIPE_DEPTH,                  \* messages a pipe holds
    MaxCommands,                 \* bound: commands sent
    MaxEvents                    \* bound: faults, restarts and local commands

Apps == {"core", "bridge", "lora"}
Pipes == Apps \cup {"uplink"}

VARIABLES
    commands,              \* history: the commands, in the order of their numbers
    LastRxSequence,        \* uplink: the command the status is about
    LastAcceptedSequence,  \* uplink: the last command that was routed
    LastCommandResult,     \* uplink: the result that is shown
    bus,                   \* the pipes, and what has happened to messages
    restarting,            \* apps that CFE_ES_RestartApp was called for
    active,                \* ActiveConfig of each app
    pend,                  \* the rest of the configuration state
    file,                  \* the configuration in the state file of each app
    core,                  \* the rest of cfs_core_app
    snapshot,              \* lora: the route it was given to send down
    target,                \* bridge: TargetSystemId is known
    link,                  \* bridge: LinkState is CONNECTED
    ActiveRoute,           \* bridge: the route it uploaded last
    upload,                \* bridge: the route being uploaded, or nothing
    readback,              \* bridge: RUNNING or IDLE
    retry,                 \* bridge: MissionReadbackPending
    streamDue,             \* bridge: the retry time of the streams is over
    fc,                    \* the flight controller
    wrote,                 \* history: flight mode frames written, and for which command
    excused,               \* history: what was undone behind the ground's back
    events                 \* history: faults, restarts and local commands

uplink == <<LastRxSequence, LastAcceptedSequence, LastCommandResult>>
config == <<active, pend, file>>
mission == <<link, ActiveRoute, upload, readback, retry>>
bridge == <<target, mission, streamDue>>
vars == <<commands, uplink, bus, restarting, config, core, snapshot, bridge, fc,
          wrote, excused, events>>

------------------------------------------------------------------------------
(* Configurations *)

\* No readable state file: a configuration without parameters.
NoFile == << >>

CoreParams == {"ATTITUDE_TIMEOUT", "LOCAL_TIMEOUT", "GPS_TIMEOUT", "EKF_TIMEOUT",
               "BRIDGE_TIMEOUT", "PUBLISH_PERIOD"}

\* In the order in which RequestTelemetryStreams asks for them.
Streams == <<"ATTITUDE", "LOCAL_POSITION", "GLOBAL_POSITION", "GPS_RAW", "EKF_STATUS">>
Intervals == {Streams[i] : i \in 1..Len(Streams)}
BridgeParams == Intervals \cup {"RECONNECT_MS", "HEARTBEAT_MS"}

LoraParams == {"DOWNLINK_PROTOCOL"}

Params == [a \in Apps |-> CASE a = "core"   -> CoreParams
                            [] a = "bridge" -> BridgeParams
                            [] a = "lora"   -> LoraParams]

InRange(a, p, v) ==
    CASE a = "core"   -> v \in MS_MIN..MS_MAX
      [] a = "bridge" -> IF p \in Intervals THEN v \in INTERVAL_MIN..INTERVAL_MAX
                                            ELSE v \in MS_MIN..MS_MAX
      [] a = "lora"   -> v \in {0, 1}

Legal(a) == {c \in [Params[a] -> Nat] : \A p \in Params[a] : InRange(a, p, c[p])}

ASSUME ConfigAssumption ==
    /\ MS_MIN \in Nat /\ MS_MAX \in Nat
    /\ INTERVAL_MIN \in Nat /\ INTERVAL_MAX \in Nat
    /\ DefaultConfig = [a \in Apps |-> DefaultConfig[a]]
    /\ \A a \in Apps : DefaultConfig[a] \in Legal(a)
\* All commands that a script contains.
Sendable == UNION {{s[i] : i \in 1..Len(s)} : s \in Scripts}

ASSUME ScriptsAssumption == Scripts \subseteq Seq(Sendable)
ASSUME BoundsAssumption ==
    PIPE_DEPTH \in Nat \ {0} /\ MaxCommands \in Nat /\ MaxEvents \in Nat

\* ConfigScope values, and the version all three apps expect.
Scope == [a \in Apps |-> CASE a = "core" -> 1 [] a = "bridge" -> 2 [] a = "lora" -> 3]
CONFIG_VERSION == 1

\* The sum of the bytes, the same in all four apps.  A parameter counts as 1.
ConfigChecksum(c) == (c.scope + c.version + 1 + c.value) % 65536

PendingStart(a) == [Pending |-> DefaultConfig[a], Previous |-> DefaultConfig[a],
                    State |-> "IDLE", LastResult |-> "OK"]

------------------------------------------------------------------------------
(* The software bus *)

\* lost: some message never arrived.  answered: EXEC_RESULTs per command.
EmptyBus == [queue    |-> [p \in Pipes |-> << >>],
             lost     |-> FALSE,
             answered |-> [n \in 1..MaxCommands |-> 0]]

\* CFE_SB_TransmitMsg succeeds even where a pipe is full.
Transmit(b, pipes, m) ==
    [b EXCEPT !.queue = [p \in Pipes |-> IF p \in pipes /\ Len(@[p]) < PIPE_DEPTH
                                           THEN Append(@[p], m) ELSE @[p]],
              !.lost = @ \/ \E p \in pipes : Len(b.queue[p]) >= PIPE_DEPTH]

Take(a) == [bus EXCEPT !.queue[a] = Tail(@)]

\* The PublishExecResult of all three apps.
PublishExecResult(b, n, ok) ==
    LET sent == Transmit(b, {"uplink"}, [num |-> n, ok |-> ok])
    IN  [sent EXCEPT !.answered[n] = @ + 1]

\* The message an app is about to handle.
Handles(a, cls) == bus.queue[a] # << >> /\ Head(bus.queue[a]).body.cls = cls
Msg(a) == Head(bus.queue[a]).body
Num(a) == Head(bus.queue[a]).num

\* A step that may fail; failures are bounded.
Event == events < MaxEvents /\ events' = events + 1
Tried(ok) == IF ok THEN UNCHANGED events ELSE Event

------------------------------------------------------------------------------
(* The commands *)

\* Commands are records whose fields depend on the class, cls.  len tells how
\* much of the payload there is: not its fixed part, all but the value, or
\* all.  These three are made by the scripts of the ground.
ConfigPayload(len, scope, version, param, value) ==
    LET c == [cls |-> "CONFIG", len |-> len, scope |-> scope, version |-> version,
              param |-> param, value |-> value, checksum |-> 0]
    IN  [c EXCEPT !.checksum = ConfigChecksum(c)]

FlightModePayload(mode, index) ==
    [cls |-> "FLIGHT_MODE", len |-> "FULL", mode |-> mode, index |-> index]

\* REPLACE and ADD bring waypoints, MODIFY one waypoint and DELETE none; the
\* index is that of MODIFY and DELETE.
RoutePayload(op, index, route) ==
    [cls |-> "ROUTE_UPDATE", len |-> "FULL", op |-> op, index |-> index, route |-> route]

------------------------------------------------------------------------------
(* uplink_app: forwarding *)

\* Mutant: the length is left for the receiver to check.
ForwardConfigAnyLength(c) == c.len = "FULL" => c.checksum = ConfigChecksum(c)

ForwardConfigCommand(c) == c.len = "FULL" /\ c.checksum = ConfigChecksum(c)

ForwardRecoveryCommand(c)   == c.len = "FULL"
ForwardModeCommand(c)       == c.len = "FULL"
ForwardDiagnosticCommand(c) == c.len = "FULL"

\* Version, type, frame and the ranges of position, angles and hold time.
ParseViewpointPayload(c) == c.len = "FULL" /\ c.ranges

FlightModes == {"HOVER", "WAYPOINT", "LAND"}
ParseFlightModePayload(c) ==
    /\ c.len = "FULL"
    /\ c.mode \in FlightModes
    /\ c.mode # "WAYPOINT" => c.index = 0

ForwardCounterMgmtCommand(c) ==
    c.len = "FULL" /\ c.action = "RESET" /\ c.scope \in Pipes

\* A class without a route target is a ROUTE_MISS.
Forwards(c) ==
    CASE c.cls = "CONFIG"       -> ForwardConfigCommand(c)
      [] c.cls = "RECOVERY"     -> ForwardRecoveryCommand(c)
      [] c.cls = "MODE"         -> ForwardModeCommand(c)
      [] c.cls = "DIAGNOSTIC"   -> ForwardDiagnosticCommand(c)
      [] c.cls = "VIEWPOINT"    -> ParseViewpointPayload(c)
      [] c.cls = "FLIGHT_MODE"  -> ParseFlightModePayload(c)
      [] c.cls = "COUNTER_MGMT" -> ForwardCounterMgmtCommand(c)
      [] c.cls = "ROUTE_UPDATE" -> c.len = "FULL"
      [] OTHER                  -> FALSE

\* The apps whose pipes subscribe to the message a command is sent as.
Subscribers(c) ==
    CASE c.cls = "CONFIG"       -> Apps
      [] c.cls = "DIAGNOSTIC"   -> {"core", "lora"}
      [] c.cls = "ROUTE_UPDATE" -> {"core", "bridge"}
      [] c.cls = "FLIGHT_MODE"  -> {"bridge"}
      [] c.cls = "COUNTER_MGMT" -> {c.scope}
      [] OTHER                  -> {"core"}

Next1 == Len(commands) + 1

\* The ground is at this point of the script.
Sends(script) == Next1 =< Len(script) /\ SubSeq(script, 1, Len(commands)) = commands

Received(c) ==
    /\ Next1 =< MaxCommands
    /\ commands' = Append(commands, c)
    /\ LastRxSequence' = Next1
    /\ UNCHANGED <<restarting, config, core, snapshot, bridge, fc, wrote, excused>>

\* The command is refused, by the gate or by the forwarder, or it cannot be
\* transmitted.
RefuseUplink(c, pass, sent) ==
    /\ Received(c)
    /\ ~(pass /\ Forwards(c) /\ sent)
    /\ Tried(sent)
    /\ LastCommandResult' = "REFUSED"
    /\ UNCHANGED <<LastAcceptedSequence, bus>>

\* Counters of uplink_app itself are reset on the spot, and the sequence
\* number is not recorded.
LocalReset(c) == c.cls = "COUNTER_MGMT" /\ c.scope = "uplink"

RouteUplink(c) ==
    /\ Received(c)
    /\ Forwards(c)
    /\ LastCommandResult' = "ROUTED"
    /\ IF LocalReset(c)
         THEN UNCHANGED <<LastAcceptedSequence, bus>>
         ELSE /\ LastAcceptedSequence' = Next1
              /\ bus' = Transmit(bus, Subscribers(c), [num |-> Next1, body |-> c])
    /\ UNCHANGED events

\* Mutant: every answer is taken for that of the last command.
CorrelatesAny(r) == TRUE

Correlates(r) == r.num = LastAcceptedSequence

ProcessExecResult ==
    /\ bus.queue["uplink"] # << >>
    /\ LET r == Head(bus.queue["uplink"])
       IN  LastCommandResult' =
             IF ~Correlates(r) THEN LastCommandResult
             ELSE IF r.ok THEN "EXECUTED_OK" ELSE "EXECUTED_FAILED"
    /\ bus' = Take("uplink")
    /\ UNCHANGED <<commands, LastRxSequence, LastAcceptedSequence, restarting, config,
                   core, snapshot, bridge, fc, wrote, excused, events>>

------------------------------------------------------------------------------
(* Configuration commands *)

Stay == UNCHANGED <<commands, uplink, snapshot, bridge, fc, wrote>>

\* SaveState: the file is replaced by rename, or stays as it was.
SaveState(a, saved) ==
    /\ file' = IF saved THEN [file EXCEPT ![a] = active'[a]] ELSE file
    /\ excused' = IF saved THEN excused ELSE excused \cup {a}
    /\ Tried(saved)

NoSave == UNCHANGED <<file, excused, events>>

Candidate(a, c) == [active[a] EXCEPT ![c.param] = c.value]

\* The result of CFS_CORE_APP_ProcessConfigCommand.
CoreConfigResult(c) ==
    IF c.len = "SHORT" THEN "BAD_LENGTH"
    ELSE IF c.scope # Scope["core"] THEN "BAD_SCOPE"
    ELSE IF c.version # CONFIG_VERSION THEN "BAD_VERSION"
    ELSE IF c.len # "FULL" THEN "BAD_LENGTH"
    ELSE IF c.checksum # ConfigChecksum(c) THEN "BAD_CHECKSUM"
    ELSE IF c.value \notin MS_MIN..MS_MAX THEN "BAD_VALUE"
    ELSE IF c.param \notin CoreParams THEN "BAD_PARAM"
    ELSE IF \E p \in CoreParams : Candidate("core", c)[p] < MS_MIN THEN "BAD_VALUE"
    ELSE "OK"

\* Mutant: any value is taken, as long as the parameter is known.
BridgeConfigResultAnyValue(c) ==
    IF c.len = "SHORT" THEN "BAD_LENGTH"
    ELSE IF c.scope # Scope["bridge"] THEN "IGNORED"
    ELSE IF c.version # CONFIG_VERSION THEN "BAD_VERSION"
    ELSE IF c.param \notin BridgeParams THEN "BAD_PARAM"
    ELSE "OK"

\* The result of MAVLINK_BRIDGE_APP_ProcessConfigCommand.
BridgeConfigResult(c) ==
    IF c.len = "SHORT" THEN "BAD_LENGTH"
    ELSE IF c.scope # Scope["bridge"] THEN "IGNORED"
    ELSE IF c.version # CONFIG_VERSION THEN "BAD_VERSION"
    ELSE IF c.len # "FULL" THEN "BAD_LENGTH"
    ELSE IF c.checksum # ConfigChecksum(c) THEN "BAD_CHECKSUM"
    ELSE IF c.param \notin BridgeParams THEN "BAD_PARAM"
    ELSE IF ~InRange("bridge", c.param, c.value) THEN "BAD_VALUE"
    ELSE IF \E p \in BridgeParams :
              Candidate("bridge", c)[p] < (IF p \in Intervals THEN INTERVAL_MIN ELSE MS_MIN)
         THEN "BAD_VALUE"
    ELSE "OK"

\* The result of LORA_TDM_APP_ProcessConfigCommand.
LoraConfigResult(c) ==
    IF c.len = "SHORT" \/ c.scope # Scope["lora"] THEN "IGNORED"
    ELSE IF \/ c.version # CONFIG_VERSION
            \/ c.len # "FULL"
            \/ c.checksum # ConfigChecksum(c)
            \/ c.param \notin LoraParams
            \/ c.value \notin {0, 1}
         THEN "FAILED"
    ELSE "OK"

\* Steps 2 to 4: the candidate becomes PendingConfig and, if nothing is wrong
\* with it, ActiveConfig.
Activate(a, c, saved) ==
    /\ active' = [active EXCEPT ![a] = Candidate(a, c)]
    /\ pend' = [pend EXCEPT ![a] = [Pending |-> Candidate(a, c), Previous |-> active[a],
                                    State |-> "IDLE", LastResult |-> "OK"]]
    /\ SaveState(a, saved)

\* A refusal; pending is how far PendingConfig had been filled in by then.
RejectConfig(a, result, pending) ==
    /\ pend' = [pend EXCEPT ![a].Pending = pending,
                            ![a].State = "REJECTED", ![a].LastResult = result]
    /\ UNCHANGED active
    /\ NoSave

\* cfs_core_app records a command for another app as rejected, but does not
\* answer it.
CoreConfig(saved) ==
    /\ Handles("core", "CONFIG")
    /\ LET c      == Msg("core")
           result == CoreConfigResult(c)
       IN  IF result = "OK"
             THEN /\ Activate("core", c, saved)
                  /\ bus' = PublishExecResult(Take("core"), Num("core"), TRUE)
             ELSE /\ saved
                  /\ RejectConfig("core", result,
                       IF result = "BAD_PARAM" THEN active["core"]
                       ELSE IF result = "BAD_VALUE" /\ c.value \in MS_MIN..MS_MAX
                         THEN Candidate("core", c)
                       ELSE pend["core"].Pending)
                  /\ bus' = IF result = "BAD_SCOPE" THEN Take("core")
                            ELSE PublishExecResult(Take("core"), Num("core"), FALSE)
    /\ Stay /\ UNCHANGED <<restarting, core>>

BridgeConfig(saved) ==
    /\ Handles("bridge", "CONFIG")
    /\ LET c      == Msg("bridge")
           result == BridgeConfigResult(c)
       IN  CASE result = "OK" ->
                  /\ Activate("bridge", c, saved)
                  /\ bus' = PublishExecResult(Take("bridge"), Num("bridge"), TRUE)
             [] result = "IGNORED" ->
                  /\ saved
                  /\ bus' = Take("bridge")
                  /\ UNCHANGED <<active, pend>> /\ NoSave
             [] OTHER ->
                  /\ saved
                  /\ RejectConfig("bridge", result,
                       IF result = "BAD_VALUE" /\ InRange("bridge", c.param, c.value)
                         THEN Candidate("bridge", c)
                       ELSE IF result \in {"BAD_PARAM", "BAD_VALUE"} THEN active["bridge"]
                       ELSE pend["bridge"].Pending)
                  /\ bus' = PublishExecResult(Take("bridge"), Num("bridge"), FALSE)
    /\ Stay /\ UNCHANGED <<restarting, core>>

LoraConfig(saved) ==
    /\ Handles("lora", "CONFIG")
    /\ LET c      == Msg("lora")
           result == LoraConfigResult(c)
       IN  /\ IF result = "OK"
                THEN /\ active' = [active EXCEPT !["lora"] = Candidate("lora", c)]
                     /\ SaveState("lora", saved)
                ELSE saved /\ UNCHANGED active /\ NoSave
           /\ bus' = IF result = "IGNORED" THEN Take("lora")
                     ELSE PublishExecResult(Take("lora"), Num("lora"), result = "OK")
    /\ Stay /\ UNCHANGED <<pend, restarting, core>>

\* The command of lora_tdm_app itself, not sent through uplink_app.
SetDownlinkProtocol(v, saved) ==
    /\ Event
    /\ active' = [active EXCEPT !["lora"]["DOWNLINK_PROTOCOL"] = v]
    /\ file' = IF saved THEN [file EXCEPT !["lora"] = active'["lora"]] ELSE file
    /\ excused' = excused \cup {"lora"}
    /\ Stay /\ UNCHANGED <<bus, pend, restarting, core>>

------------------------------------------------------------------------------
(* Other commands to cfs_core_app *)

CoreStart == [mode |-> "NORMAL", route |-> << >>, routeValid |-> FALSE,
              viewpoint |-> "none"]

CoreOnly == Stay /\ UNCHANGED <<restarting, config, excused, events>>

\* There is no gimbal: the command is stored, and answered as failed (BL-82).
CoreViewpoint ==
    /\ Handles("core", "VIEWPOINT")
    /\ core' = [core EXCEPT !.viewpoint = Msg("core").type]
    /\ bus' = PublishExecResult(Take("core"), Num("core"), FALSE)
    /\ CoreOnly

Restartable == {"bridge", "lora", "uplink"}

\* RESET_COUNTER saves the restart counters, and the configuration with them.
CoreRecoveryReset(saved) ==
    /\ Handles("core", "RECOVERY") /\ Msg("core").action = "RESET_COUNTER"
    /\ UNCHANGED <<active, pend>>
    /\ SaveState("core", saved)
    /\ bus' = PublishExecResult(Take("core"), Num("core"), TRUE)
    /\ Stay /\ UNCHANGED <<restarting, core>>

\* found: CFE_ES_GetAppIDByName knows the app.
CoreRecoveryRestart(found) ==
    /\ Handles("core", "RECOVERY") /\ Msg("core").action \in Restartable
    /\ restarting' = IF found THEN restarting \cup {Msg("core").action} ELSE restarting
    /\ bus' = PublishExecResult(Take("core"), Num("core"), found)
    /\ Tried(found)
    /\ Stay /\ UNCHANGED <<config, core, excused>>

\* SendBridgeCtrlCmd hands on to the bridge what is meant for it.
CoreRecoveryBridge(sent) ==
    /\ Handles("core", "RECOVERY")
    /\ Msg("core").action \in {"PARSER_RESET", "SERIAL_RECONNECT"}
    /\ LET ctrl   == [num |-> 0, body |-> [cls |-> Msg("core").action]]
           handed == IF sent THEN Transmit(Take("core"), {"bridge"}, ctrl) ELSE Take("core")
       IN  bus' = PublishExecResult(handed, Num("core"), sent)
    /\ Tried(sent)
    /\ Stay /\ UNCHANGED <<restarting, config, core, excused>>

CoreRecoveryUnknown ==
    /\ Handles("core", "RECOVERY")
    /\ Msg("core").action \notin
         Restartable \cup {"RESET_COUNTER", "PARSER_RESET", "SERIAL_RECONNECT"}
    /\ bus' = PublishExecResult(Take("core"), Num("core"), FALSE)
    /\ UNCHANGED core
    /\ CoreOnly

\* Mutant: BL-81, MODE was never answered.
AnswerModeNever(ok) == Take("core")

AnswerMode(ok) == PublishExecResult(Take("core"), Num("core"), ok)

CoreMode ==
    /\ Handles("core", "MODE")
    /\ LET c       == Msg("core")
           allowed == \/ c.action = "ENTER" /\ c.state = "RECOVERY" /\ core.mode = "NORMAL"
                      \/ c.action = "EXIT" /\ c.state = "NORMAL" /\ core.mode = "RECOVERY"
       IN  /\ core' = IF allowed THEN [core EXCEPT !.mode = c.state] ELSE core
           /\ bus' = AnswerMode(allowed)
    /\ CoreOnly

\* A readback request is answered with the route, sent to lora_tdm_app; all
\* else is ignored.
CoreDiagnostic ==
    /\ Handles("core", "DIAGNOSTIC")
    /\ LET c    == Msg("core")
           snap == [num |-> 0, body |-> [cls |-> "ROUTE_SNAPSHOT", route |-> core.route]]
       IN  bus' = IF c.target = "core" /\ c.action = "ROUTE_READBACK_REQUEST"
                    THEN Transmit(Take("core"), {"lora"}, snap)
                    ELSE Take("core")
    /\ UNCHANGED core
    /\ CoreOnly

SetRouteCache(route) == [core EXCEPT !.route = route, !.routeValid = TRUE]

\* ROUTE_UPDATE_MID: only a REPLACE holds the whole route.
CoreRouteUpdate ==
    /\ Handles("core", "ROUTE_UPDATE")
    /\ core' = IF Msg("core").op = "REPLACE" THEN SetRouteCache(Msg("core").route) ELSE core
    /\ bus' = Take("core")
    /\ CoreOnly

\* Mutant: what the FC says is not believed when a route is known already.
ConfirmRouteOnce(route) == IF core.routeValid THEN core ELSE SetRouteCache(route)

ConfirmRoute(route) == SetRouteCache(route)

\* FC_MISSION_READBACK_MID: what the FC has.
CoreReadback ==
    /\ Handles("core", "READBACK")
    /\ core' = ConfirmRoute(Msg("core").route)
    /\ bus' = Take("core")
    /\ excused' = excused \ {"route"}
    /\ Stay /\ UNCHANGED <<restarting, config, events>>

\* RESET_COUNTERS for any of the apps, and the control commands whose effect
\* is the subject of BridgeLink (a port that SERIAL_RECONNECT opened: LinkUp).
HandleQuietly(a) ==
    /\ \/ Handles(a, "COUNTER_MGMT")
       \/ a = "bridge" /\ (Handles(a, "PARSER_RESET") \/ Handles(a, "SERIAL_RECONNECT"))
    /\ bus' = Take(a)
    /\ UNCHANGED core
    /\ CoreOnly

------------------------------------------------------------------------------
(* Commands to lora_tdm_app *)

\* Answered by event messages only.
LoraDiagnostic ==
    /\ Handles("lora", "DIAGNOSTIC")
    /\ bus' = Take("lora")
    /\ UNCHANGED core
    /\ CoreOnly

LoraRouteSnapshot ==
    /\ Handles("lora", "ROUTE_SNAPSHOT")
    /\ snapshot' = Msg("lora").route
    /\ bus' = Take("lora")
    /\ UNCHANGED <<commands, uplink, restarting, config, core, bridge, fc, wrote, excused,
                   events>>

------------------------------------------------------------------------------
(* mavlink_bridge_app and the FC *)

FcStart == [intervals |-> [s \in Intervals |-> 0], mission |-> << >>]

\* DO_SET_MODE and, for WAYPOINT, MISSION_SET_CURRENT.
Frames(c) == IF c.mode = "WAYPOINT" THEN <<"SET_MODE", "SET_CURRENT">> ELSE <<"SET_MODE">>

\* The first n frames are written to the port.  Whether the FC obeys is not
\* known: it may deny the mode (BL-74), or not be the system they are meant
\* for while TargetSystemId is 0, and its COMMAND_ACK is not waited for.
BridgeFlightMode(n) ==
    /\ Handles("bridge", "FLIGHT_MODE")
    /\ LET c   == Msg("bridge")
           all == n = Len(Frames(c))
       IN  /\ n =< Len(Frames(c))
           /\ wrote' = wrote \cup {<<Num("bridge"), Frames(c)[i]>> : i \in 1..n}
           /\ Tried(all)
           /\ bus' = PublishExecResult(Take("bridge"), Num("bridge"), all)
    /\ UNCHANGED <<commands, uplink, restarting, config, core, snapshot, bridge, fc, excused>>

\* upload is the empty sequence, or holds the route being uploaded.
NoUpload == << >>

\* The new route, from the waypoints of the message and the active ones (short
\* enough not to be cut).
NewRoute(c) ==
    CASE c.op = "ADD"    -> ActiveRoute \o c.route
      [] c.op = "DELETE" -> SubSeq(ActiveRoute, 1, c.index)
                            \o SubSeq(ActiveRoute, c.index + 2, Len(ActiveRoute))
      [] c.op = "MODIFY" -> [ActiveRoute EXCEPT ![c.index + 1] = c.route[1]]
      [] OTHER           -> c.route

\* The early returns of StartMissionUpload but the last one.
Uploadable(c) ==
    /\ link
    /\ readback = "IDLE"
    /\ c.op \in {"DELETE", "MODIFY"} => c.index < Len(ActiveRoute)

\* StartMissionUpload.  The upload begins, in place of one under way; unless
\* the index to DELETE is that of the waypoint the FC is flying to.
BridgeRouteUpdate(current) ==
    /\ Handles("bridge", "ROUTE_UPDATE")
    /\ bus' = Take("bridge")
    /\ LET c == Msg("bridge")
       IN  /\ current => c.op = "DELETE"
           /\ upload' = IF Uploadable(c) /\ ~current THEN <<NewRoute(c)>> ELSE upload
    /\ UNCHANGED <<commands, uplink, restarting, config, core, snapshot, target, link,
                   ActiveRoute, readback, retry, streamDue, fc, wrote, excused, events>>

------------------------------------------------------------------------------
(* The mission: uploads and readbacks under way, and the link to the FC *)

\* What the steps of this part leave alone.
Aside == UNCHANGED <<commands, uplink, restarting, config, core, snapshot, streamDue, wrote>>

\* The first heartbeat of the FC.
FcHeard ==
    /\ ~target
    /\ target' = TRUE
    /\ Aside /\ UNCHANGED <<bus, mission, fc, excused, events>>

\* SetLinkState, CONNECTED: the port was opened or the FC is heard again.
LinkUp ==
    /\ ~link
    /\ link' = TRUE
    /\ retry' = FALSE
    /\ readback' = IF upload = NoUpload THEN "RUNNING" ELSE readback
    /\ Aside /\ UNCHANGED <<target, ActiveRoute, upload, bus, fc, excused, events>>

\* SetLinkState, DEGRADED, which keeps a retry that is due, or DISCONNECTED.
LinkLost(closed) ==
    /\ link
    /\ Event
    /\ link' = FALSE
    /\ retry' = (retry /\ ~closed)
    /\ Aside /\ UNCHANGED <<target, ActiveRoute, upload, readback, bus, fc, excused>>

\* The FC clears its mission, or stores the one it was sent.
FcMission ==
    /\ upload # NoUpload
    /\ \E m \in {<< >>, upload[1]} : fc' = [fc EXCEPT !.mission = m]
    /\ Aside /\ UNCHANGED <<target, mission, bus, excused, events>>

\* MISSION_ACK of the upload: accepted, or so it seems when it is the late
\* answer to a CLEAR_ALL; what the FC has is read back.
UploadSucceeds ==
    /\ upload # NoUpload
    /\ upload' = NoUpload
    /\ ActiveRoute' = upload[1]
    /\ readback' = "RUNNING"
    /\ retry' = FALSE
    /\ Aside /\ UNCHANGED <<target, link, bus, fc, excused, events>>

\* MISSION_ACK says no, or the last retry was in vain.  Nothing tells
\* cfs_core_app, which may have put a REPLACE in its cache.
UploadFails ==
    /\ upload # NoUpload
    /\ upload' = NoUpload
    /\ excused' = excused \cup {"upload"}
    /\ Aside /\ UNCHANGED <<target, link, ActiveRoute, readback, retry, bus, fc, events>>

\* PublishFcMissionReadback.
ReadbackDone ==
    /\ readback = "RUNNING"
    /\ readback' = "IDLE"
    /\ bus' = Transmit(bus, {"core"},
                       [num |-> 0, body |-> [cls |-> "READBACK", route |-> fc.mission]])
    /\ excused' = excused \ {"upload"}
    /\ Aside /\ UNCHANGED <<target, link, ActiveRoute, upload, retry, fc, events>>

\* CheckMissionDownloadTimeout.
ReadbackTimeout ==
    /\ readback = "RUNNING"
    /\ Event
    /\ readback' = "IDLE"
    /\ retry' = (retry \/ link)
    /\ Aside /\ UNCHANGED <<target, link, ActiveRoute, upload, bus, fc, excused>>

\* The backoff is over.
RetryReadback ==
    /\ retry /\ link
    /\ upload = NoUpload /\ readback = "IDLE"
    /\ readback' = "RUNNING"
    /\ retry' = FALSE
    /\ Aside /\ UNCHANGED <<target, link, ActiveRoute, upload, bus, fc, excused, events>>

UploadEnds == UploadSucceeds \/ UploadFails

MissionStep ==
    \/ FcHeard \/ LinkUp \/ FcMission \/ UploadEnds
    \/ ReadbackDone \/ ReadbackTimeout \/ RetryReadback
    \/ \E closed \in BOOLEAN : LinkLost(closed)

------------------------------------------------------------------------------
(* Streams, and reboots of the FC *)

\* STREAM_REQUEST_RETRY_MS have passed.
StreamTimer ==
    /\ ~streamDue
    /\ streamDue' = TRUE
    /\ UNCHANGED <<commands, uplink, bus, restarting, config, core, snapshot, target,
                   mission, fc, wrote, excused, events>>

\* Mutant: the streams are asked for once and not again.
StreamsAgainNever ==
    target /\ streamDue /\ upload = NoUpload /\ fc.intervals[Streams[1]] = 0

\* The periodic part of ServiceSerial.
StreamsAgain == target /\ streamDue /\ upload = NoUpload

\* RequestTelemetryStreams: the first n requests are written, then one fails.
RequestTelemetryStreams(n) ==
    /\ StreamsAgain
    /\ fc' = [fc EXCEPT !.intervals =
                [s \in Intervals |-> IF \E i \in 1..n : Streams[i] = s
                                        THEN active["bridge"][s] ELSE @[s]]]
    /\ streamDue' = (n < Len(Streams))
    /\ Tried(n = Len(Streams))
    /\ UNCHANGED <<commands, uplink, bus, restarting, config, core, snapshot, target,
                   mission, wrote, excused>>

\* The FC has forgotten what it was asked for.
FcReboot ==
    /\ Event
    /\ fc' = [FcStart EXCEPT !.mission = fc.mission]
    /\ UNCHANGED <<commands, uplink, bus, restarting, config, core, snapshot, bridge,
                   wrote, excused>>

------------------------------------------------------------------------------
(* Restarts *)

LoadState(a) == IF file[a] = NoFile THEN DefaultConfig[a] ELSE file[a]

\* What an app loses: its pipe.
Emptied(p) == [bus EXCEPT !.queue[p] = << >>, !.lost = @ \/ bus.queue[p] # << >>]

\* Asked for by a RECOVERY command, or not.
Asked(p) ==
    \/ p \in restarting /\ restarting' = restarting \ {p} /\ UNCHANGED events
    \/ p \notin restarting /\ Event /\ UNCHANGED restarting

RestartUplink ==
    /\ Asked("uplink")
    /\ bus' = Emptied("uplink")
    /\ LastRxSequence' = 0
    /\ LastCommandResult' = "NONE"
    /\ UNCHANGED <<commands, LastAcceptedSequence, config, core, snapshot, bridge, fc,
                   wrote, excused>>

RestartCore ==
    /\ Event /\ UNCHANGED restarting
    /\ bus' = Emptied("core")
    /\ active' = [active EXCEPT !["core"] = LoadState("core")]
    /\ pend' = [pend EXCEPT !["core"] = PendingStart("core")]
    /\ core' = CoreStart
    /\ excused' = excused \cup {"mode", "route"}
    /\ UNCHANGED <<commands, uplink, file, snapshot, bridge, fc, wrote>>

RestartBridge ==
    /\ Asked("bridge")
    /\ bus' = Emptied("bridge")
    /\ active' = [active EXCEPT !["bridge"] = LoadState("bridge")]
    /\ pend' = [pend EXCEPT !["bridge"] = PendingStart("bridge")]
    /\ target' = FALSE /\ link' = FALSE /\ streamDue' = TRUE
    /\ ActiveRoute' = << >> /\ upload' = NoUpload
    /\ readback' = "IDLE" /\ retry' = FALSE
    /\ UNCHANGED <<commands, uplink, file, core, snapshot, fc, wrote, excused>>

RestartLora ==
    /\ Asked("lora")
    /\ bus' = Emptied("lora")
    /\ active' = [active EXCEPT !["lora"] = LoadState("lora")]
    /\ snapshot' = << >>
    /\ UNCHANGED <<commands, uplink, pend, file, core, bridge, fc, wrote, excused>>

\* A state file is damaged or lost: LoadState will refuse it.
DamageFile(a) ==
    /\ Event
    /\ file' = [file EXCEPT ![a] = NoFile]
    /\ excused' = excused \cup {a}
    /\ UNCHANGED <<commands, uplink, bus, restarting, active, pend, core, snapshot, bridge,
                   fc, wrote>>

------------------------------------------------------------------------------
(* Specification *)

Init ==
    /\ commands = << >>
    /\ LastRxSequence = 0 /\ LastAcceptedSequence = 0
    /\ LastCommandResult = "NONE"
    /\ bus = EmptyBus
    /\ restarting = {}
    /\ active = DefaultConfig
    /\ pend = [a \in {"core", "bridge"} |-> PendingStart(a)]
    /\ file = [a \in Apps |-> NoFile]
    /\ core = CoreStart
    /\ snapshot = << >>
    /\ target = FALSE /\ link = FALSE /\ streamDue = TRUE
    /\ ActiveRoute = << >> /\ upload = NoUpload
    /\ readback = "IDLE" /\ retry = FALSE
    /\ fc = FcStart
    /\ wrote = {}
    /\ excused = {}
    /\ events = 0

UplinkStep ==
    \/ \E script \in Scripts :
         /\ Sends(script)
         /\ \/ RouteUplink(script[Next1])
            \/ \E pass, sent \in BOOLEAN : RefuseUplink(script[Next1], pass, sent)
    \/ ProcessExecResult

CoreStep ==
    \/ \E ok \in BOOLEAN : CoreConfig(ok) \/ CoreRecoveryReset(ok)
                           \/ CoreRecoveryRestart(ok) \/ CoreRecoveryBridge(ok)
    \/ CoreRecoveryUnknown \/ CoreViewpoint \/ CoreMode \/ CoreDiagnostic
    \/ CoreRouteUpdate \/ CoreReadback
    \/ HandleQuietly("core")

BridgeStep ==
    \/ \E ok \in BOOLEAN : BridgeConfig(ok)
    \/ \E current \in BOOLEAN : BridgeRouteUpdate(current)
    \/ \E n \in 0..2 : BridgeFlightMode(n)
    \/ HandleQuietly("bridge")

LoraStep ==
    \/ \E ok \in BOOLEAN : LoraConfig(ok)
    \/ LoraDiagnostic \/ LoraRouteSnapshot
    \/ HandleQuietly("lora")

StreamStep == \E n \in 0..Len(Streams) : RequestTelemetryStreams(n)

Restart == RestartUplink \/ RestartCore \/ RestartBridge \/ RestartLora

Next ==
    \/ UplinkStep \/ CoreStep \/ BridgeStep \/ LoraStep
    \/ MissionStep
    \/ StreamTimer \/ StreamStep \/ FcReboot
    \/ Restart
    \/ \E a \in Apps : DamageFile(a)
    \/ \E v \in {0, 1}, saved \in BOOLEAN : SetDownlinkProtocol(v, saved)

\* Each app serves its pipe, the FC sends heartbeats, time passes and the
\* bridge looks at its timers, which also end an upload.
Fairness ==
    /\ WF_vars(ProcessExecResult) /\ WF_vars(CoreStep)
    /\ WF_vars(BridgeStep) /\ WF_vars(LoraStep)
    /\ WF_vars(FcHeard) /\ WF_vars(UploadEnds)
    /\ WF_vars(StreamTimer) /\ WF_vars(StreamStep)

Spec == Init /\ [][Next]_vars /\ Fairness

------------------------------------------------------------------------------
(* Properties *)

Results == {"NONE", "REFUSED", "ROUTED", "EXECUTED_OK", "EXECUTED_FAILED"}

\* Type invariant.  Every configuration that is in use, pending or saved names
\* exactly the parameters of its app.
TypeOK ==
    /\ commands \in Seq(Sendable) /\ Len(commands) =< MaxCommands
    /\ LastRxSequence \in 0..Len(commands) /\ LastAcceptedSequence \in 0..Len(commands)
    /\ LastCommandResult \in Results
    /\ restarting \subseteq Restartable
    /\ \A a \in Apps : /\ active[a] \in [Params[a] -> Nat]
                       /\ file[a] # NoFile => file[a] \in [Params[a] -> Nat]
    /\ \A a \in {"core", "bridge"} : pend[a].Pending \in [Params[a] -> Nat]
    /\ core.mode \in {"NORMAL", "RECOVERY"}
    /\ readback \in {"IDLE", "RUNNING"}
    /\ readback = "RUNNING" => upload = NoUpload
    /\ fc.intervals \in [Intervals -> Nat]
    /\ events \in 0..MaxEvents

\* A CONFIG command reaches three apps and a RECOVERY command makes one app
\* talk to another, but no command is ever answered twice
\* (PublishExecResult: uplink_app would show whichever came last).
AnsweredOnce == \A n \in 1..MaxCommands : bus.answered[n] =< 1

\* The effect of command n is in place; that of FLIGHT_MODE is that all its
\* frames were written.
Done(n) ==
    LET c == commands[n] IN
    CASE c.cls = "CONFIG" ->
           \E a \in Apps : c.scope = Scope[a] /\ (a \in excused \/ active[a][c.param] = c.value)
      [] c.cls = "MODE" -> "mode" \in excused \/ core.mode = c.state
      [] c.cls = "FLIGHT_MODE" ->
           \A i \in 1..Len(Frames(c)) : <<n, Frames(c)[i]>> \in wrote
      [] c.cls = "RECOVERY" -> TRUE
      [] OTHER -> FALSE

\* When the ground is shown EXECUTED_OK, the last command that was accepted has
\* taken effect, whatever was answered late, lost, restarted or saved meanwhile
\* (ProcessExecResult); only a command whose effect was undone behind the
\* ground's back is excepted.  Of FLIGHT_MODE it says that the frames were
\* transmitted, not that the FC obeyed (ProcessSetFlightModeCmd).
OkMeansDone == LastCommandResult = "EXECUTED_OK" => Done(LastAcceptedSequence)

\* The bridge has nothing under way with the FC, and no upload has failed since
\* the last readback.
Settled ==
    /\ link
    /\ upload = NoUpload
    /\ readback = "IDLE" /\ ~retry
    /\ "upload" \notin excused

\* Once the pipes are empty, no message was lost and the bridge has settled,
\* the route that cfs_core_app holds for the ground is the FC's
\* (CFS_CORE_APP_TaskPipe, BL-61).  REPLACE is cached at once although the
\* bridge may refuse it, and the readback of an earlier upload may arrive after
\* it; uploads may be replaced and be taken for stored when they were not, and
\* readbacks fail.
RouteCacheIsMission ==
    /\ \A p \in Pipes : bus.queue[p] = << >>
    /\ ~bus.lost
    /\ Settled
    /\ "route" \notin excused
    => core.route = fc.mission

\* The classes whose receiver answers.
Answers(c) ==
    \/ c.cls = "CONFIG" /\ \E a \in Apps : c.scope = Scope[a]
    \/ c.cls \in {"RECOVERY", "MODE", "VIEWPOINT", "FLIGHT_MODE"}

Awaiting ==
    /\ LastCommandResult = "ROUTED"
    /\ LastRxSequence = LastAcceptedSequence
    /\ Answers(commands[LastAcceptedSequence])

\* The ground does not wait for ever: ROUTED is replaced by an outcome or by
\* the status of a later command, unless a message was lost (BL-81).
AnswerArrives == Awaiting ~> (~Awaiting \/ bus.lost)

\* In the end the FC sends every stream at the configured interval, although
\* requests fail half-way, intervals are changed and the FC or the bridge is
\* restarted (RequestTelemetryStreams, ServiceSerial).
StreamsFollowConfig ==
    <>[](\A s \in Intervals : fc.intervals[s] = active["bridge"][s])

Core   == INSTANCE ConfigStore WITH Configs <- Legal("core"),
            Default <- DefaultConfig["core"], active <- active["core"], stored <- file["core"]
Bridge == INSTANCE ConfigStore WITH Configs <- Legal("bridge"),
            Default <- DefaultConfig["bridge"], active <- active["bridge"],
            stored <- file["bridge"]
Lora   == INSTANCE ConfigStore WITH Configs <- Legal("lora"),
            Default <- DefaultConfig["lora"], active <- active["lora"], stored <- file["lora"]

\* Each app implements ConfigStore with its ActiveConfig and its state file
\* (ProcessConfigCommand, SaveState, LoadState).
ConfigStores == Core!Spec /\ Bridge!Spec /\ Lora!Spec
=============================================================================
