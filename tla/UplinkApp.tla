------------------------------ MODULE UplinkApp ------------------------------
(****************************************************************************)
(* uplink_app: the command gate between the ground and the other apps.      *)
(*                                                                          *)
(* Every ground command reaches ProcessUplink (uplink_app_cmds.c), which    *)
(* checks its sequence number, its envelope, the vehicle health and its     *)
(* authorisation, publishes it to the app it is for and records the         *)
(* sequence number it accepted in memory and in a state file that survives  *)
(* restarts.  A restart can hit between the publication and the save, and a *)
(* save can fail at open, write or rename, leaving the previous file.       *)
(*                                                                          *)
(* Sequence numbers are uint16 on the wire.  The model numbers the ground's *)
(* commands 1, 2, 3... without wrapping (field "num") and everything the    *)
(* code compares is compared through Wire, so that a property can tell a    *)
(* new command from one SeqMod commands older with the same wire number.    *)
(*                                                                          *)
(* Payload bytes, telemetry layout and event texts are abstracted; a        *)
(* command carries which check its envelope fails, how far its payload      *)
(* parses and the few fields the gate reads.                                *)
(****************************************************************************)
EXTENDS Integers, Sequences

CONSTANTS
    Half,         \* half of the sequence space, 0x8000 in the code
    CounterMod,   \* values of CmdCounter and ErrCounter, 256 in the code
    HealthStates, \* health states cfs_core_app reports, NOMINAL..FAILED
    Templates,    \* contents the ground may put in a command
    MaxDelay,     \* how many numbers behind the newest command a copy may be
    MaxSent,      \* bound: largest command number
    MaxHandled,   \* bound: uplinks and NOOPs handled between counter resets
    MaxExecuted   \* bound: length of each execution history

SeqMod == 2 * Half

Classes == {"NONE", "CONFIG", "ROUTE_UPDATE", "VIEWPOINT", "RECOVERY", "MODE",
            "DIAGNOSTIC", "COUNTER_MGMT", "FLIGHT_MODE"}

\* The classes whose target app answers on EXEC_RESULT_MID.
RepliedClasses == {"CONFIG", "VIEWPOINT", "RECOVERY", "MODE", "FLIGHT_MODE"}

\* env: the envelope field that is wrong, if any.  payload: absent, shorter
\* than the fixed part of its class, long enough but refused by the class's
\* parser, or good.  sub: the payload byte the gate itself looks at, the mode
\* of FLIGHT_MODE and the scope of COUNTER_MGMT.
Content == [cls     : Classes,
            env     : {"OK", "BAD_VERSION", "TOO_LONG", "BAD_CRC"},
            auth    : 0..3,
            force   : BOOLEAN,
            token   : BOOLEAN,
            payload : {"EMPTY", "SHORT", "BAD", "GOOD"},
            sub     : {"-", "HOVER", "WAYPOINT", "LAND", "UPLINK", "OTHER"}]

Command == [num : Nat, body : Content]

Results == {"NONE", "ROUTED", "FAILED", "REJECT_VERSION", "REJECT_CLASS",
            "REJECT_LENGTH", "ROUTE_MISS", "REJECT_ROUTE", "REJECT_SEQUENCE",
            "REJECT_STATE", "REJECT_CHECKSUM", "REJECT_VIEWPOINT", "DUPLICATE",
            "EXECUTED_OK", "EXECUTED_FAILED", "REJECT_COUNTER",
            "REJECT_FLIGHT_MODE"}

Targets == {"ROUTE_NONE", "ROUTE_CORE", "ROUTE_DOWNLINK",
            "ROUTE_COUNTER_MGMT", "ROUTE_FLIGHT_MODE"}

NOMINAL  == 0
DEGRADED == 1
RECOVERY == 2
FAILED   == 3

ASSUME HalfAssumption == Half \in Nat \ {0}
ASSUME CounterAssumption == CounterMod \in Nat \ {0}
ASSUME DelayAssumption == MaxDelay \in Nat /\ MaxDelay =< Half
ASSUME HealthAssumption == HealthStates \subseteq NOMINAL..FAILED
ASSUME TemplatesAssumption == Templates \subseteq Content
ASSUME BoundsAssumption == MaxSent \in Nat /\ MaxHandled \in Nat /\ MaxExecuted \in Nat

VARIABLES
    phase,              \* where the app is: see Phases
    AcceptedCount,
    LastAccepted,       \* LastAcceptedSequence, unwrapped
    CfsHealthState,
    CfsHealthReceived,
    stats,              \* the counters ResetCounters clears
    status,             \* what the next UPLINK_STATUS_MID will say
    file,               \* the state file: is it readable, and what it holds
    inFlight,           \* the command published but not yet recorded
    sent,               \* ground: the commands sent so far
    newest,             \* ground: number of the newest command
    executed,           \* history: numbers of the commands published to an app
    resets,             \* history: numbers of the local counter resets
    rollback,           \* history: some boot restored less than was executed
    handled             \* history: uplinks and NOOPs since the counters were 0

memory  == <<AcceptedCount, LastAccepted, CfsHealthState, CfsHealthReceived,
             stats, status>>
ground  == <<sent, newest>>
history == <<executed, resets, rollback, handled>>
vars    == <<phase, memory, file, inFlight, ground, history>>

\* off: not running; loaded, counted: inside UPLINK_APP_Init, after LoadState
\* and after IncrementBootCount; run: in the main loop; routed: inside
\* ProcessUplink, after CFE_SB_TransmitMsg and before SaveState.
Phases == {"off", "loaded", "counted", "run", "routed"}

------------------------------------------------------------------------------
(* Sequence numbers *)

Wire(n) == n % SeqMod

\* UPLINK_APP_CheckSequence: uint16 arithmetic on the wire values.
Diff(seq, last) == IF seq >= last THEN seq - last ELSE seq - last + SeqMod

\* Mutant: a plain comparison, wrong at the wrap.
CheckSequencePlain(num) ==
    IF AcceptedCount = 0 THEN "NEW"
    ELSE IF Wire(num) = Wire(LastAccepted) THEN "DUPLICATE"
    ELSE IF Wire(num) > Wire(LastAccepted) THEN "NEW"
    ELSE "REPLAY"

\* Mutant: every number that is not new counts as a duplicate.
CheckSequenceNoReplay(num) ==
    IF AcceptedCount = 0 THEN "NEW"
    ELSE IF Wire(num) # Wire(LastAccepted)
            /\ Diff(Wire(num), Wire(LastAccepted)) < Half THEN "NEW"
    ELSE "DUPLICATE"

CheckSequence(num) ==
    IF AcceptedCount = 0 THEN "NEW"
    ELSE IF Wire(num) = Wire(LastAccepted) THEN "DUPLICATE"
    ELSE IF Diff(Wire(num), Wire(LastAccepted)) < Half THEN "NEW"
    ELSE "REPLAY"

------------------------------------------------------------------------------
(* The checks of ProcessUplink, in the order the code makes them *)

\* UPLINK_APP_ValidateProxyCommand
ValidateProxyCommand(c) ==
    IF c.env = "BAD_VERSION" THEN "REJECT_VERSION"
    ELSE IF c.env = "TOO_LONG" THEN "REJECT_LENGTH"
    ELSE IF c.cls = "NONE" THEN "REJECT_CLASS"
    ELSE IF c.cls \in {"ROUTE_UPDATE", "VIEWPOINT"} /\ c.payload = "EMPTY"
         THEN "REJECT_LENGTH"
    ELSE IF c.env = "BAD_CRC" THEN "REJECT_CHECKSUM"
    ELSE "ACCEPT"

ResolveRouteTarget(cls) ==
    IF cls \in {"CONFIG", "ROUTE_UPDATE", "VIEWPOINT", "RECOVERY", "MODE"}
         THEN "ROUTE_CORE"
    ELSE IF cls = "DIAGNOSTIC" THEN "ROUTE_DOWNLINK"
    ELSE IF cls = "COUNTER_MGMT" THEN "ROUTE_COUNTER_MGMT"
    ELSE IF cls = "FLIGHT_MODE" THEN "ROUTE_FLIGHT_MODE"
    ELSE "ROUTE_NONE"

\* The health policy: what a state refuses, the modes that only reduce risk,
\* and the FORCE flag.
Refused(c, health) ==
    \/ health \in {RECOVERY, FAILED} /\ c.cls \notin {"RECOVERY", "DIAGNOSTIC"}
    \/ health = DEGRADED /\ \/ c.cls \in {"VIEWPOINT", "CONFIG"}
                            \/ /\ c.cls = "FLIGHT_MODE"
                               /\ c.payload # "EMPTY"
                               /\ c.sub = "WAYPOINT"

\* Mutants: the risk-reducing modes are forgotten, or any mode counts as one.
ExemptForceOnly(c) == c.force
ExemptAnyMode(c) == c.force \/ (c.cls = "FLIGHT_MODE" /\ c.payload # "EMPTY")

Exempt(c) ==
    \/ c.cls = "FLIGHT_MODE" /\ c.payload # "EMPTY" /\ c.sub \in {"HOVER", "LAND"}
    \/ c.force

Blocked(c, health) == Refused(c, health) /\ ~Exempt(c)

RequiredLevel(cls) ==
    IF cls \in {"NONE", "DIAGNOSTIC"} THEN 1
    ELSE IF cls \in {"CONFIG", "ROUTE_UPDATE", "VIEWPOINT"} THEN 2
    ELSE 3

\* The token is read only from a payload long enough to hold it.
RequestToken(c) == c.token /\ c.payload \in {"BAD", "GOOD"}

IsAuthorized(c) ==
    /\ c.auth >= RequiredLevel(c.cls)
    /\ RequiredLevel(c.cls) = 3 => RequestToken(c)

\* The result of the class's Parse or Forward function before it transmits;
\* RECOVERY, MODE and DIAGNOSTIC only look at the length.
ParsePayload(c) ==
    IF \/ c.payload = "GOOD"
       \/ c.payload = "BAD" /\ c.cls \in {"RECOVERY", "MODE", "DIAGNOSTIC"}
         THEN "ROUTED"
    ELSE IF c.cls = "ROUTE_UPDATE" THEN "REJECT_ROUTE"
    ELSE IF c.cls = "VIEWPOINT" THEN "REJECT_VIEWPOINT"
    ELSE IF c.cls = "COUNTER_MGMT" THEN "REJECT_COUNTER"
    ELSE IF c.cls = "FLIGHT_MODE" THEN "REJECT_FLIGHT_MODE"
    ELSE "FAILED"

\* What ProcessUplink answers to a command whose sequence number is new, up
\* to the point where it would transmit it ("ROUTED").
Verdict(c) ==
    IF ValidateProxyCommand(c) # "ACCEPT" THEN ValidateProxyCommand(c)
    ELSE IF ResolveRouteTarget(c.cls) = "ROUTE_NONE" THEN "ROUTE_MISS"
    ELSE IF \/ ~CfsHealthReceived
            \/ Blocked(c, CfsHealthState)
            \/ ~IsAuthorized(c)
         THEN "REJECT_STATE"
    ELSE ParsePayload(c)

\* A COUNTER_MGMT command for uplink_app itself is applied on the spot.
IsLocalReset(c) == c.cls = "COUNTER_MGMT" /\ c.sub = "UPLINK"

\* A failed transmission is a routing failure, except for COUNTER_MGMT.
SendFailure(c) == IF c.cls = "COUNTER_MGMT" THEN "REJECT_COUNTER" ELSE "FAILED"

\* ForwardConfigCommand counts its own error before ProcessUplink does.
ErrorsOf(c) == IF Verdict(c) = "FAILED" /\ c.cls = "CONFIG" THEN 2 ELSE 1

------------------------------------------------------------------------------
(* Counters, status and the state file *)

\* CmdCounter and ErrCounter are uint8; the other counters are uint32.
U8(n) == n % CounterMod

Zeroed == [Cmd |-> 0, Err |-> 0, Rejected |-> 0, Duplicate |-> 0,
           RoutingFailure |-> 0]

CountDuplicate == [stats EXCEPT !.Duplicate = @ + 1]

\* Mutant: a routing failure is only counted as an error.
CountRefusalErrOnly(result, errors) ==
    IF result \in {"ROUTE_MISS", "FAILED"}
      THEN [stats EXCEPT !.Err = U8(@ + errors)]
      ELSE [stats EXCEPT !.Err = U8(@ + errors), !.Rejected = @ + 1]

\* One uplink refused with the given result.
CountRefusal(result, errors) ==
    IF result \in {"ROUTE_MISS", "FAILED"}
      THEN [stats EXCEPT !.Err = U8(@ + errors), !.RoutingFailure = @ + 1]
      ELSE [stats EXCEPT !.Err = U8(@ + errors), !.Rejected = @ + 1]

CountRouted == [stats EXCEPT !.Cmd = U8(@ + 1)]

BootStatus == [code |-> "NONE", num |-> 0, result |-> "NONE",
               target |-> "ROUTE_NONE", link |-> NOMINAL]

\* SaveState replaces the file by rename, so a failure keeps the old one.
SaveState(ok, last) == file' = IF ok THEN [valid |-> TRUE, num |-> last] ELSE file

------------------------------------------------------------------------------
(* Boot and crash *)

\* The memset of UPLINK_APP_Init; nothing in memory outlives a crash.
ClearMemory ==
    /\ AcceptedCount' = 0
    /\ LastAccepted' = 0
    /\ CfsHealthState' = NOMINAL
    /\ CfsHealthReceived' = FALSE
    /\ stats' = Zeroed
    /\ status' = BootStatus
    /\ handled' = 0

\* First boot of a new vehicle: no state file.
Init ==
    /\ phase = "off"
    /\ AcceptedCount = 0
    /\ LastAccepted = 0
    /\ CfsHealthState = NOMINAL
    /\ CfsHealthReceived = FALSE
    /\ stats = Zeroed
    /\ status = BootStatus
    /\ handled = 0
    /\ file = [valid |-> FALSE, num |-> 0]
    /\ inFlight = {}
    /\ sent = {}
    /\ newest = 0
    /\ executed = << >>
    /\ resets = << >>
    /\ rollback = FALSE

\* Does the file a boot is about to read fall short of what was executed?
FileIsBehind ==
    executed # << >> /\ (~file.valid \/ file.num # executed[Len(executed)])

\* Mutant: the number is restored, but not that there is one.
RestoreReplayNumberOnly ==
    /\ LastAccepted' = IF file.valid THEN file.num ELSE LastAccepted
    /\ UNCHANGED AcceptedCount

\* What LoadState brings back of the replay protection.
RestoreReplay ==
    IF file.valid
      THEN AcceptedCount' = 1 /\ LastAccepted' = file.num
      ELSE UNCHANGED <<AcceptedCount, LastAccepted>>

\* UPLINK_APP_Init, on cleared memory: LoadState restores what it can.
LoadState ==
    /\ phase = "off"
    /\ phase' = "loaded"
    /\ RestoreReplay
    /\ rollback' = (rollback \/ FileIsBehind)
    /\ UNCHANGED <<CfsHealthState, CfsHealthReceived, stats, status, file,
                   inFlight, ground, executed, resets, handled>>

\* IncrementBootCount and then ProcessBootMarker each save the whole record.
BootSave(ok) ==
    /\ \/ phase = "loaded" /\ phase' = "counted"
       \/ phase = "counted" /\ phase' = "run"
    /\ SaveState(ok, LastAccepted)
    /\ UNCHANGED <<memory, inFlight, ground, history>>

\* The app dies, or cfs_core_app restarts it, at any point.
Crash ==
    /\ phase # "off"
    /\ phase' = "off"
    /\ ClearMemory
    /\ inFlight' = {}
    /\ UNCHANGED <<file, ground, executed, resets, rollback>>

\* The file is lost or damaged: LoadState refuses it.
FileCorrupted ==
    /\ phase = "off" /\ file.valid
    /\ file' = [file EXCEPT !.valid = FALSE]
    /\ UNCHANGED <<phase, memory, inFlight, ground, history>>

------------------------------------------------------------------------------
(* Ground and other apps *)

\* The ground numbers its commands 1..65535 and back to 1: 0 is never used.
NextNumber == IF Wire(newest + 1) = 0 THEN newest + 2 ELSE newest + 1

GroundSend(body) ==
    /\ NextNumber =< MaxSent
    /\ sent' = sent \cup {[num |-> NextNumber, body |-> body]}
    /\ newest' = NextNumber
    /\ UNCHANGED <<phase, memory, file, inFlight, history>>

\* SYSTEM_HEALTH_MID from cfs_core_app.
HealthMessage(health) ==
    /\ phase = "run"
    /\ CfsHealthState' = health
    /\ CfsHealthReceived' = TRUE
    /\ UNCHANGED <<phase, AcceptedCount, LastAccepted, stats, status, file,
                   inFlight, ground, history>>

\* UPLINK_APP_ProcessExecResult: the answer of the target app, at any time
\* after the command was published and any number of times.
ProcessExecResult(c, ok) ==
    /\ phase = "run"
    /\ c.body.cls \in RepliedClasses
    /\ \E i \in 1..Len(executed) : executed[i] = c.num
    /\ Wire(c.num) = Wire(LastAccepted)
    /\ status' = [status EXCEPT !.result = IF ok THEN "EXECUTED_OK"
                                                 ELSE "EXECUTED_FAILED"]
    /\ UNCHANGED <<phase, AcceptedCount, LastAccepted, CfsHealthState,
                   CfsHealthReceived, stats, file, inFlight, ground, history>>

Noop ==
    /\ phase = "run" /\ handled < MaxHandled
    /\ stats' = [stats EXCEPT !.Cmd = U8(@ + 1)]
    /\ handled' = handled + 1
    /\ UNCHANGED <<phase, AcceptedCount, LastAccepted, CfsHealthState,
                   CfsHealthReceived, status, file, inFlight, ground, executed,
                   resets, rollback>>

\* UPLINK_APP_TaskPipe: a packet with an unknown MID or function code or a
\* wrong length is only counted.
DispatchError ==
    /\ phase = "run"
    /\ stats' = [stats EXCEPT !.Err = U8(@ + 1)]
    /\ UNCHANGED <<phase, AcceptedCount, LastAccepted, CfsHealthState,
                   CfsHealthReceived, status, file, inFlight, ground, history>>

\* Mutant: AcceptedCount is cleared with the other counters.
ResetReplayStateCleared == AcceptedCount' = 0 /\ UNCHANGED LastAccepted

\* What ResetCounters leaves of the replay protection.
ResetReplayState == UNCHANGED <<AcceptedCount, LastAccepted>>

ResetCounters ==
    /\ phase = "run"
    /\ stats' = Zeroed
    /\ ResetReplayState
    /\ status' = [status EXCEPT !.code = "NONE", !.result = "NONE",
                                !.target = "ROUTE_NONE"]
    /\ handled' = 0
    /\ UNCHANGED <<phase, CfsHealthState, CfsHealthReceived, file, inFlight,
                   ground, executed, resets, rollback>>

------------------------------------------------------------------------------
(* UPLINK_APP_ProcessUplink *)

\* A copy of a sent command arrives, not more than MaxDelay numbers late.
Arrives(c) ==
    /\ phase = "run" /\ handled < MaxHandled
    /\ c \in sent
    /\ c.num + MaxDelay >= newest

DuplicateUplink(c) ==
    /\ Arrives(c)
    /\ CheckSequence(c.num) = "DUPLICATE"
    /\ stats' = CountDuplicate
    /\ status' = [status EXCEPT !.code = c.body.cls, !.num = c.num,
                                !.result = "DUPLICATE"]
    /\ handled' = handled + 1
    /\ UNCHANGED <<phase, AcceptedCount, LastAccepted, CfsHealthState,
                   CfsHealthReceived, file, inFlight, ground, executed, resets,
                   rollback>>

\* Every refusal: counted once, reported, and the link called degraded.
Refuse(c, result, errors) ==
    /\ stats' = CountRefusal(result, errors)
    /\ status' = [code |-> c.body.cls, num |-> c.num, result |-> result,
                  target |-> IF result = "FAILED"
                               THEN ResolveRouteTarget(c.body.cls)
                             ELSE IF result = "ROUTE_MISS" THEN "ROUTE_NONE"
                             ELSE status.target,
                  link |-> DEGRADED]
    /\ handled' = handled + 1
    /\ UNCHANGED <<phase, AcceptedCount, LastAccepted, CfsHealthState,
                   CfsHealthReceived, file, inFlight, ground, executed, resets,
                   rollback>>

ReplayedUplink(c) ==
    /\ Arrives(c)
    /\ CheckSequence(c.num) = "REPLAY"
    /\ Refuse(c, "REJECT_SEQUENCE", 1)

RefusedUplink(c) ==
    /\ Arrives(c)
    /\ CheckSequence(c.num) = "NEW"
    /\ Verdict(c.body) # "ROUTED"
    /\ Refuse(c, Verdict(c.body), ErrorsOf(c.body))

\* CFE_SB_TransmitMsg reports an error: nothing was published.
TransmitFailed(c) ==
    /\ Arrives(c)
    /\ CheckSequence(c.num) = "NEW"
    /\ Verdict(c.body) = "ROUTED" /\ ~IsLocalReset(c.body)
    /\ Refuse(c, SendFailure(c.body), 1)

\* COUNTER_MGMT with scope UPLINK: counters cleared, then an early return
\* that skips the acceptance record and the save.
LocalReset(c) ==
    /\ Arrives(c)
    /\ Len(resets) < MaxExecuted
    /\ CheckSequence(c.num) = "NEW"
    /\ Verdict(c.body) = "ROUTED" /\ IsLocalReset(c.body)
    /\ stats' = Zeroed
    /\ status' = [status EXCEPT !.code = c.body.cls, !.num = c.num,
                                !.result = "ROUTED"]
    /\ resets' = Append(resets, c.num)
    /\ handled' = 0
    /\ UNCHANGED <<phase, AcceptedCount, LastAccepted, CfsHealthState,
                   CfsHealthReceived, file, inFlight, ground, executed,
                   rollback>>

\* The command is published on the software bus ...
Transmit(c) ==
    /\ Arrives(c)
    /\ Len(executed) < MaxExecuted
    /\ CheckSequence(c.num) = "NEW"
    /\ Verdict(c.body) = "ROUTED" /\ ~IsLocalReset(c.body)
    /\ phase' = "routed"
    /\ inFlight' = {c}
    /\ executed' = Append(executed, c.num)
    /\ UNCHANGED <<memory, file, ground, resets, rollback, handled>>

\* ... and then recorded, in memory and in the file.
Accept(ok) ==
    \E c \in inFlight :
        /\ phase = "routed"
        /\ phase' = "run"
        /\ inFlight' = {}
        /\ AcceptedCount' = AcceptedCount + 1
        /\ LastAccepted' = c.num
        /\ SaveState(ok, c.num)
        /\ stats' = CountRouted
        /\ status' = [code |-> c.body.cls, num |-> c.num, result |-> "ROUTED",
                      target |-> ResolveRouteTarget(c.body.cls),
                      link |-> NOMINAL]
        /\ handled' = handled + 1
        /\ UNCHANGED <<CfsHealthState, CfsHealthReceived, ground, executed,
                       resets, rollback>>

ProcessUplink(c) ==
    \/ DuplicateUplink(c)
    \/ ReplayedUplink(c)
    \/ RefusedUplink(c)
    \/ TransmitFailed(c)
    \/ LocalReset(c)
    \/ Transmit(c)

Next ==
    \/ LoadState
    \/ \E ok \in BOOLEAN : BootSave(ok)
    \/ Crash
    \/ FileCorrupted
    \/ \E body \in Templates : GroundSend(body)
    \/ \E health \in HealthStates : HealthMessage(health)
    \/ \E c \in sent, ok \in BOOLEAN : ProcessExecResult(c, ok)
    \/ Noop
    \/ DispatchError
    \/ ResetCounters
    \/ \E c \in sent : ProcessUplink(c)
    \/ \E ok \in BOOLEAN : Accept(ok)

Spec == Init /\ [][Next]_vars

------------------------------------------------------------------------------
(* Properties *)

Stats == [Cmd : 0..(CounterMod - 1), Err : 0..(CounterMod - 1),
          Rejected : Nat, Duplicate : Nat, RoutingFailure : Nat]

Status == [code : Classes, num : Nat, result : Results, target : Targets,
           link : {NOMINAL, DEGRADED}]

File == [valid : BOOLEAN, num : Nat]

\* Type invariant.
TypeOK ==
    /\ phase \in Phases
    /\ AcceptedCount \in Nat
    /\ LastAccepted \in Nat
    /\ CfsHealthState \in NOMINAL..FAILED
    /\ CfsHealthReceived \in BOOLEAN
    /\ stats \in Stats
    /\ status \in Status
    /\ file \in File
    /\ inFlight \in SUBSET Command
    /\ sent \in SUBSET Command
    /\ newest \in Nat
    /\ executed \in Seq(Nat)
    /\ resets \in Seq(Nat)
    /\ rollback \in BOOLEAN
    /\ handled \in Nat

\* Replay protection (CheckSequence with the restored LastAcceptedSequence):
\* as long as every boot found in the file the last command that was
\* published, the commands are published in the order the ground numbered
\* them and none is published twice, across retransmissions, delayed copies,
\* wraps of the uint16 number, crashes and counter resets.
ExecutedInOrder ==
    ~rollback => \A i, j \in 1..Len(executed) : i < j => executed[i] < executed[j]

\* A command newer than the last accepted one by less than half the sequence
\* space is never taken for a replay or a duplicate, across the wrap 65535->1
\* (the modular comparison of CheckSequence).
FreshCommandIsNew ==
    \A c \in sent :
        (c.num > LastAccepted /\ c.num < LastAccepted + Half)
            => CheckSequence(c.num) = "NEW"

\* DUPLICATE, which the ground reads as "already accepted", is only ever the
\* answer to a copy of a command that was published, never to one that was
\* refused or lost in a failed transmission (CheckSequence compares with the
\* last ACCEPTED number), as long as the ground is less than one turn of the
\* sequence space ahead.
DuplicateWasExecuted ==
    \A c \in sent :
        (/\ c.num + MaxDelay >= newest
         /\ newest < LastAccepted + SeqMod
         /\ CheckSequence(c.num) = "DUPLICATE")
            => \E i \in 1..Len(executed) : executed[i] = c.num

\* Every uplink is counted exactly once since the counters were last zero
\* (CmdCounter, RejectedCount, DuplicateCount or RoutingFailureCount),
\* whichever of its returns ProcessUplink took, and across the uint8 wrap of
\* CmdCounter.
EveryUplinkCounted ==
    (stats.Cmd + stats.Rejected + stats.Duplicate + stats.RoutingFailure) % CounterMod
        = handled % CounterMod

\* The ground keeps a way in: once health is known, a well-formed RECOVERY
\* command with level 3 and a token, a DIAGNOSTIC command with level 1 and a
\* HOVER or LAND order pass the whole gate in every health state, unforced.
Intervention(cls, auth, sub) ==
    [cls |-> cls, env |-> "OK", auth |-> auth, force |-> FALSE, token |-> TRUE,
     payload |-> "GOOD", sub |-> sub]

InterventionPathOpen ==
    CfsHealthReceived =>
        /\ Verdict(Intervention("RECOVERY", 3, "-")) = "ROUTED"
        /\ Verdict(Intervention("DIAGNOSTIC", 1, "-")) = "ROUTED"
        /\ \A sub \in {"HOVER", "LAND"} :
               Verdict(Intervention("FLIGHT_MODE", 3, sub)) = "ROUTED"

\* What reaches another app was fit for the vehicle's state (the health gate
\* and the authorisation check): health is known to this session; with the
\* vehicle in RECOVERY or FAILED only interventions and risk-reducing modes
\* pass unforced, in DEGRADED no new route is flown unforced; orders that
\* change what the vehicle does carry level 3 and a token.
PublishedIsAllowed ==
    \A c \in inFlight :
        /\ CfsHealthReceived
        /\ ~c.body.force =>
              /\ CfsHealthState \in {RECOVERY, FAILED} =>
                    c.body.cls \in {"RECOVERY", "DIAGNOSTIC", "FLIGHT_MODE"}
              /\ CfsHealthState # NOMINAL /\ c.body.cls = "FLIGHT_MODE" =>
                    c.body.sub # "WAYPOINT"
        /\ c.body.cls \in {"RECOVERY", "MODE", "COUNTER_MGMT", "FLIGHT_MODE"} =>
              c.body.auth = 3 /\ c.body.token

\* What the state file records is final, with no condition on crashes or saves:
\* a number it holds is only ever replaced by a later one (rename in SaveState,
\* LoadState before the saves of Init), and no command as old as that number is
\* published any more, by this session or by one after a crash at any point.
\* A command published but not saved, because the app died before the save or
\* the save failed, is all that can be published again.
SavedIsNeverRepeated ==
    [][file.valid =>
          /\ file'.valid => file'.num >= file.num
          /\ executed' # executed => executed'[Len(executed')] > file.num]_vars

(* Statements of the repository that the code does not keep *)

\* The copies of an accepted command that arrive in later retransmission
\* slots are duplicates (comment in the DUPLICATE branch of ProcessUplink): a
\* command is not carried out again for one of them.
RetransmissionIsDuplicate ==
    \A i, j \in 1..Len(resets) : i # j => resets[i] # resets[j]
==============================================================================
