------------------------------- MODULE LoraTdm -------------------------------
(****************************************************************************)
(* lora_tdm_app: the radio between the vehicle and the ground.              *)
(*                                                                          *)
(* One turn of the main loop (RunCycle) empties the software bus pipe,      *)
(* reopens the serial port if it is closed, writes one downlink frame,      *)
(* listens for frames from the ground and judges the link.  The downlink    *)
(* frame carries what became of the last command (PendingUplinkFeedback),   *)
(* which is uplink_app's verdict, learnt from UPLINK_STATUS_MID, and, after *)
(* a route snapshot, one page of waypoints per frame.                       *)
(*                                                                          *)
(* Time is counted in ticks of half a cycle period (50 ms): a cycle sleeps  *)
(* two ticks and listens for one at most.  Instead of the clock and the     *)
(* time stamps the model keeps how long ago they were taken, up to a value  *)
(* beyond which the code makes no difference.  The uint32 clock may wrap    *)
(* round once between two ACKs (wrapped).                                   *)
(*                                                                          *)
(* Frames arrive whole: the byte parser, the telemetry values, the counters *)
(* that are only reported and the echoed frame numbers are left out.        *)
(****************************************************************************)
EXTENDS Integers, Sequences

CONSTANTS
    LINK_LOSS_THRESHOLD,  \* silent cycles to DEGRADED, 30 in the code
    LINK_TIMEOUT,         \* ticks to DISCONNECTED, 100 in the code
    REOPEN_BACKOFF,       \* ticks between two attempts to open, 20 in the code
    NoAckLimit,           \* where NoAckCount saturates, 0xFFFF in the code
    WAYPOINTS_PER_PAGE,   \* 2 in the code
    ROUTE_MAX_WAYPOINTS,  \* 37 in the code
    RouteCounts,          \* waypoint counts a snapshot may announce
    MsgLimit,             \* statuses the pipe holds, 4 in the code
    Answers,              \* what uplink_app may answer to a new command
    PreviousNumbers,      \* numbers uplink_app may have accepted before
    MaxWaiting,           \* bound: commands waiting at uplink_app
    MaxInputs             \* bound: commands, messages and faults

\* A cycle without an ACK takes three ticks at most, and the silence starts at
\* most one tick before its window ends.
Sleep == 2
CycleTicks == 3

ASSUME LinkAssumption ==
    /\ LINK_LOSS_THRESHOLD \in Nat \ {0}
    /\ LINK_TIMEOUT \in Nat
    /\ CycleTicks * LINK_LOSS_THRESHOLD < LINK_TIMEOUT
    /\ NoAckLimit \in Nat /\ NoAckLimit >= LINK_LOSS_THRESHOLD
    /\ REOPEN_BACKOFF \in Nat
ASSUME RouteAssumption ==
    /\ WAYPOINTS_PER_PAGE \in Nat \ {0}
    /\ ROUTE_MAX_WAYPOINTS \in Nat
    /\ RouteCounts \subseteq Nat
ASSUME BoundsAssumption ==
    /\ MsgLimit \in Nat /\ MaxWaiting \in Nat /\ MaxInputs \in Nat
    /\ PreviousNumbers \subseteq Nat

\* The results of uplink_app that are verdicts on a command, and their codes
\* in the downlink.  DUPLICATE, EXECUTED_* and NONE have none.
FeedbackCode ==
    [REJECT_SEQUENCE    |-> "SEQ_FAIL",
     REJECT_STATE       |-> "STATE_BLOCKED",
     FAILED             |-> "FAILED",
     REJECT_VERSION     |-> "REJECT_VERSION",
     REJECT_CLASS       |-> "REJECT_CLASS",
     REJECT_LENGTH      |-> "REJECT_LENGTH",
     ROUTE_MISS         |-> "ROUTE_MISS",
     REJECT_ROUTE       |-> "REJECT_ROUTE",
     REJECT_CHECKSUM    |-> "REJECT_CHECKSUM",
     REJECT_VIEWPOINT   |-> "REJECT_VIEWPOINT",
     REJECT_COUNTER     |-> "REJECT_COUNTER",
     REJECT_FLIGHT_MODE |-> "REJECT_FLIGHT_MODE",
     ROUTED             |-> "APPLIED"]

Verdicts == DOMAIN FeedbackCode
VerdictCodes == {FeedbackCode[v] : v \in Verdicts}

ASSUME AnswersAssumption == Answers \subseteq Verdicts \ {"REJECT_SEQUENCE"}

VARIABLES
    phase,                      \* see Phases
    LoRaFd,                     \* is the port open
    openAge,                    \* ticks since LastSerialOpenAttemptMs
    AckReceivedThisCycle,
    NoAckCount,
    LinkState,
    heard,                      \* LastAckTimestampMs # 0
    ackAge,                     \* ticks since LastAckTimestampMs
    wrapped,                    \* the clock has wrapped since then
    PendingUplinkFeedback,
    UplinkLastAcceptedSequence,
    UseV2Downlink,
    file,                       \* the saved UseV2Downlink, if there is one
    route,                      \* the readback: see Route
    pipe,                       \* UPLINK_STATUS_MID messages not yet read
    toUplink,                   \* commands forwarded, not yet handled
    accepted,                   \* uplink_app: LastAcceptedSequence
    result,                     \* uplink_app: LastCommandResult
    newest,                     \* history: the last command forwarded
    last,                       \* history: uplink_app's last verdict
    lost,                       \* history: that verdict did not fit in the pipe
    quiet,                      \* history: ticks NoAckCount should account for
    resetSince,                 \* history: ResetCounters since the last ACK
    inputs                      \* bound: inputs so far

link     == <<NoAckCount, LinkState, heard, ackAge, wrapped, quiet, resetSince>>
feedback == <<PendingUplinkFeedback, UplinkLastAcceptedSequence>>
config   == <<UseV2Downlink, file>>
uplink   == <<accepted, result, last>>
bus      == <<pipe, lost>>
vars     == <<phase, LoRaFd, openAge, AckReceivedThisCycle, link, feedback,
              config, route, bus, toUplink, uplink, newest, inputs>>

\* off: not running; drain, tx, rx: the three parts of RunCycle.
Phases == {"off", "drain", "tx", "rx"}

DISCONNECTED == 0
CONNECTED    == 1
DEGRADED     == 2

OldestAck == LINK_TIMEOUT + CycleTicks + 1
LongQuiet == CycleTicks * LINK_LOSS_THRESHOLD + 1

\* n, but never more than the limit.
UpTo(limit, n) == IF n > limit THEN limit ELSE n

NoRoute == [pending |-> FALSE, count |-> 0, page |-> 0, pages |-> 0,
            sent |-> << >>]

Input == inputs < MaxInputs /\ inputs' = inputs + 1

------------------------------------------------------------------------------
(* Boot and restart *)

\* The memset of LORA_TDM_APP_Init: LinkState 0 is DISCONNECTED, feedback 0 is
\* OK, and the first attempt to open the port does not wait.
Cleared ==
    /\ LoRaFd' = FALSE
    /\ openAge' = REOPEN_BACKOFF
    /\ AckReceivedThisCycle' = FALSE
    /\ NoAckCount' = 0
    /\ LinkState' = DISCONNECTED
    /\ heard' = FALSE
    /\ ackAge' = 0
    /\ wrapped' = FALSE
    /\ quiet' = 0
    /\ resetSince' = FALSE
    /\ PendingUplinkFeedback' = "OK"
    /\ UplinkLastAcceptedSequence' = 0
    /\ route' = NoRoute
    /\ pipe' = << >>

Init ==
    /\ phase = "off"
    /\ LoRaFd = FALSE
    /\ openAge = REOPEN_BACKOFF
    /\ AckReceivedThisCycle = FALSE
    /\ NoAckCount = 0
    /\ LinkState = DISCONNECTED
    /\ heard = FALSE
    /\ ackAge = 0
    /\ wrapped = FALSE
    /\ quiet = 0
    /\ resetSince = FALSE
    /\ PendingUplinkFeedback = "OK"
    /\ UplinkLastAcceptedSequence = 0
    /\ UseV2Downlink = TRUE
    /\ file = {}
    /\ route = NoRoute
    /\ pipe = << >>
    /\ lost = FALSE
    /\ toUplink = << >>
    /\ accepted \in PreviousNumbers
    /\ result = "NONE"
    /\ newest = 0
    /\ last = [num |-> 0, res |-> "NONE"]
    /\ inputs = 0

\* LORA_TDM_APP_Init: v2 unless LoadState finds something else; then the loop
\* sleeps before its first cycle.
LoadState ==
    /\ phase = "off"
    /\ phase' = "drain"
    /\ UseV2Downlink' = (file # {FALSE})
    /\ quiet' = UpTo(LongQuiet, Sleep)
    /\ UNCHANGED <<LoRaFd, openAge, AckReceivedThisCycle, NoAckCount, LinkState,
                   heard, ackAge, wrapped, resetSince, feedback, file, route,
                   bus, toUplink, uplink, newest, inputs>>

\* The app dies or cfs_core_app restarts it, at any point of its cycle.
Restart ==
    /\ phase # "off" /\ Input
    /\ phase' = "off"
    /\ Cleared
    /\ UNCHANGED <<config, lost, toUplink, uplink, newest>>

------------------------------------------------------------------------------
(* Emptying the pipe: ProcessCommandPacket *)

\* Mutant: a retransmitted copy is reported as a sequence error.
NewFeedbackDuplicate(res) ==
    IF res = "DUPLICATE" THEN "SEQ_FAIL"
    ELSE IF res \in Verdicts THEN FeedbackCode[res]
    ELSE PendingUplinkFeedback

NewFeedback(res) ==
    IF res \in Verdicts THEN FeedbackCode[res] ELSE PendingUplinkFeedback

UplinkStatus ==
    /\ phase = "drain" /\ pipe # << >>
    /\ pipe' = Tail(pipe)
    /\ PendingUplinkFeedback' = NewFeedback(Head(pipe).res)
    /\ UplinkLastAcceptedSequence' = Head(pipe).accepted
    /\ UNCHANGED <<phase, LoRaFd, openAge, AckReceivedThisCycle, link, config,
                   route, lost, toUplink, uplink, newest, inputs>>

\* Mutant: pages rounded down.
TotalPagesDown(count) == count \div WAYPOINTS_PER_PAGE

TotalPages(count) ==
    IF count = 0 THEN 0
    ELSE (count + WAYPOINTS_PER_PAGE - 1) \div WAYPOINTS_PER_PAGE

SnapshotCount(n) == UpTo(ROUTE_MAX_WAYPOINTS, n)

\* A new snapshot replaces the one being sent.
ProcessRouteSnapshot(n) ==
    /\ phase = "drain" /\ Input
    /\ LET count == SnapshotCount(n) IN
         route' = [pending |-> TotalPages(count) > 0, count |-> count,
                   page |-> 0, pages |-> TotalPages(count), sent |-> << >>]
    /\ UNCHANGED <<phase, LoRaFd, openAge, AckReceivedThisCycle, link, feedback,
                   config, bus, toUplink, uplink, newest>>

\* The file is replaced by rename, so a save that fails leaves the old one.
SaveState(saved, v2) == file' = IF saved THEN {v2} ELSE file

\* SET_DOWNLINK_PROTO or CONFIG.  Values other than 0 and 1 are refused and
\* change nothing here.
SetDownlinkProtocol(v2, saved) ==
    /\ phase = "drain" /\ Input
    /\ UseV2Downlink' = v2
    /\ SaveState(saved, v2)
    /\ UNCHANGED <<phase, LoRaFd, openAge, AckReceivedThisCycle, link, feedback,
                   route, bus, toUplink, uplink, newest>>

\* NoAckCount is one of the counters it clears.
ResetCounters ==
    /\ phase = "drain" /\ Input
    /\ NoAckCount' = 0
    /\ quiet' = 0
    /\ resetSince' = TRUE
    /\ UNCHANGED <<phase, LoRaFd, openAge, AckReceivedThisCycle, LinkState,
                   heard, ackAge, wrapped, feedback, config, route, bus,
                   toUplink, uplink, newest>>

\* The pipe is empty; a closed port is reopened after the backoff.
Reopen(opened) ==
    /\ phase = "drain" /\ pipe = << >>
    /\ phase' = "tx"
    /\ IF ~LoRaFd /\ openAge >= REOPEN_BACKOFF
         THEN LoRaFd' = opened /\ openAge' = 0
         ELSE UNCHANGED <<LoRaFd, openAge>>
    /\ UNCHANGED <<AckReceivedThisCycle, link, feedback, config, route, bus,
                   toUplink, uplink, newest, inputs>>

------------------------------------------------------------------------------
(* RunTx *)

\* The waypoints of the page that BuildDl2Frame attaches.
Page ==
    LET start     == route.page * WAYPOINTS_PER_PAGE
        remaining == IF start >= route.count THEN 0 ELSE route.count - start
    IN  [i \in 1..UpTo(WAYPOINTS_PER_PAGE, remaining) |-> start + i]

PageSent ==
    IF route.page + 1 >= route.pages
      THEN [route EXCEPT !.pending = FALSE, !.page = 0, !.sent = @ \o Page]
      ELSE [route EXCEPT !.page = @ + 1, !.sent = @ \o Page]

\* Mutant: BL-78, the flag is set by the first ACK and stays.
OpenWindowOnce == UNCHANGED AckReceivedThisCycle

\* RunRxWindow starts by forgetting the ACKs of earlier cycles.
OpenWindow == AckReceivedThisCycle' = FALSE

\* One frame.  v1 frames have no waypoints; a failed write closes the port and
\* does not count.
RunTx(written) ==
    /\ phase = "tx"
    /\ phase' = "rx"
    /\ written => LoRaFd
    /\ OpenWindow
    /\ route' = IF written /\ UseV2Downlink /\ route.pending THEN PageSent
                                                             ELSE route
    /\ LoRaFd' = written
    /\ IF LoRaFd /\ ~written THEN Input ELSE UNCHANGED inputs
    /\ UNCHANGED <<openAge, link, feedback, config, bus, toUplink, uplink,
                   newest>>

------------------------------------------------------------------------------
(* RunRxWindow *)

Listening == phase = "rx" /\ LoRaFd

\* A good ACK, whichever frame it echoes.
ReceiveAck ==
    /\ Listening
    /\ AckReceivedThisCycle' = TRUE
    /\ NoAckCount' = 0
    /\ heard' = TRUE
    /\ ackAge' = 0
    /\ wrapped' = FALSE
    /\ quiet' = 0
    /\ resetSince' = FALSE
    /\ UNCHANGED <<phase, LoRaFd, openAge, LinkState, feedback, config, route,
                   bus, toUplink, uplink, newest, inputs>>

\* A damaged command frame; a damaged ACK is only counted.
ReceiveBadCommand ==
    /\ Listening /\ Input
    /\ PendingUplinkFeedback' = "CRC_FAIL"
    /\ UNCHANGED <<phase, LoRaFd, openAge, AckReceivedThisCycle, link,
                   UplinkLastAcceptedSequence, config, route, bus, toUplink,
                   uplink, newest>>

\* A command frame is forwarded to uplink_app.  The ground sends every command
\* several times and its commands in order.
ReceiveCommand(n) ==
    /\ Listening /\ Input
    /\ n > 0 /\ n \in {newest, newest + 1}
    /\ Len(toUplink) < MaxWaiting
    /\ toUplink' = Append(toUplink, n)
    /\ PendingUplinkFeedback' = "OK"
    /\ newest' = n
    /\ UNCHANGED <<phase, LoRaFd, openAge, AckReceivedThisCycle, link,
                   UplinkLastAcceptedSequence, config, route, bus, uplink>>

ReadError ==
    /\ Listening /\ Input
    /\ LoRaFd' = FALSE
    /\ UNCHANGED <<phase, openAge, AckReceivedThisCycle, link, feedback, config,
                   route, bus, toUplink, uplink, newest>>

------------------------------------------------------------------------------
(* End of the cycle: UpdateLinkState *)

Elapsed(listened) == IF heard /\ ~wrapped THEN ackAge + listened ELSE 0

\* Mutant: BL-88, a threshold in cycles that is as long as the timeout.
TooSilentLate(count) == count >= LINK_TIMEOUT \div Sleep

TooSilent(count) == count >= LINK_LOSS_THRESHOLD

\* Mutant: the weaker condition is looked at first.
NewLinkStateWeakFirst(elapsed, count) ==
    IF TooSilent(count) THEN DEGRADED
    ELSE IF elapsed > LINK_TIMEOUT THEN DISCONNECTED
    ELSE CONNECTED

NewLinkState(elapsed, count) ==
    IF elapsed > LINK_TIMEOUT THEN DISCONNECTED
    ELSE IF TooSilent(count) THEN DEGRADED
    ELSE CONNECTED

\* The window closes after one tick, or at once if there is nothing to read
\* or no port; the silence is counted, the link judged, and the loop sleeps.
EndOfCycle(listened) ==
    /\ phase = "rx"
    /\ phase' = "drain"
    /\ listened > 0 => LoRaFd
    /\ NoAckCount' = IF AckReceivedThisCycle THEN NoAckCount
                                             ELSE UpTo(NoAckLimit, NoAckCount + 1)
    /\ LinkState' = NewLinkState(Elapsed(listened), NoAckCount')
    /\ ackAge' = IF heard THEN UpTo(OldestAck, ackAge + listened + Sleep) ELSE 0
    /\ quiet' = UpTo(LongQuiet, quiet + listened + Sleep)
    /\ openAge' = UpTo(REOPEN_BACKOFF, openAge + listened + Sleep)
    /\ UNCHANGED <<LoRaFd, AckReceivedThisCycle, heard, wrapped, resetSince,
                   feedback, config, route, bus, toUplink, uplink, newest,
                   inputs>>

\* GetTimeMs wraps round: until the next ACK "now" is before the last one.
ClockWraps ==
    /\ phase = "drain" /\ heard /\ ~wrapped /\ Input
    /\ wrapped' = TRUE
    /\ UNCHANGED <<phase, LoRaFd, openAge, AckReceivedThisCycle, NoAckCount,
                   LinkState, heard, ackAge, quiet, resetSince, feedback,
                   config, route, bus, toUplink, uplink, newest>>

------------------------------------------------------------------------------
(* uplink_app, as far as its status telemetry goes *)

\* UPLINK_STATUS_MID; a pipe that is full or not there drops it.
Publish(res, acc) ==
    IF phase # "off" /\ Len(pipe) < MsgLimit
      THEN /\ pipe' = Append(pipe, [res |-> res, accepted |-> acc])
           /\ lost' = (lost /\ res \notin Verdicts)
      ELSE /\ lost' = (lost \/ res \in Verdicts)
           /\ UNCHANGED pipe

\* ProcessUplink: duplicates and old numbers first, then the other checks; a
\* counter reset of its own is ROUTED without being recorded.
UplinkHandles(answer, recorded) ==
    /\ toUplink # << >>
    /\ LET n   == Head(toUplink)
           res == IF accepted > 0 /\ n = accepted THEN "DUPLICATE"
                  ELSE IF n < accepted THEN "REJECT_SEQUENCE"
                  ELSE answer
       IN  /\ result' = res
           /\ accepted' = IF res = "ROUTED" /\ recorded THEN n ELSE accepted
           /\ last' = IF res \in Verdicts THEN [num |-> n, res |-> res] ELSE last
           /\ Publish(res, accepted')
    /\ toUplink' = Tail(toUplink)
    /\ UNCHANGED <<phase, LoRaFd, openAge, AckReceivedThisCycle, link, feedback,
                   config, route, newest, inputs>>

\* ProcessExecResult: the target app answers the last accepted command.
UplinkExecuted ==
    /\ accepted > 0 /\ Input
    /\ result' = "EXECUTED_OK"
    /\ Publish("EXECUTED_OK", accepted)
    /\ UNCHANGED <<phase, LoRaFd, openAge, AckReceivedThisCycle, link, feedback,
                   config, route, toUplink, accepted, last, newest>>

\* ServicePrototype: the status is repeated periodically, whatever it says.
UplinkRepeats ==
    /\ phase # "off" /\ Len(pipe) < MsgLimit
    /\ Publish(result, accepted)
    /\ UNCHANGED <<phase, LoRaFd, openAge, AckReceivedThisCycle, link, feedback,
                   config, route, toUplink, uplink, newest, inputs>>

------------------------------------------------------------------------------
(* Specification *)

Next ==
    \/ LoadState \/ Restart
    \/ UplinkStatus
    \/ \E n \in RouteCounts : ProcessRouteSnapshot(n)
    \/ \E v2, saved \in BOOLEAN : SetDownlinkProtocol(v2, saved)
    \/ ResetCounters
    \/ \E opened \in BOOLEAN : Reopen(opened)
    \/ \E written \in BOOLEAN : RunTx(written)
    \/ ReceiveAck \/ ReceiveBadCommand \/ ReadError
    \/ \E n \in {newest, newest + 1} : ReceiveCommand(n)
    \/ \E listened \in 0..1 : EndOfCycle(listened)
    \/ ClockWraps
    \/ \E answer \in Answers, recorded \in BOOLEAN : UplinkHandles(answer, recorded)
    \/ UplinkExecuted \/ UplinkRepeats

Spec == Init /\ [][Next]_vars

------------------------------------------------------------------------------
(* Properties *)

\* Type invariant.  Its bounds are those of the code's arrays and counters:
\* a snapshot never announces more waypoints than RouteWaypoints holds, and
\* the page being sent starts inside the route.
TypeOK ==
    /\ phase \in Phases
    /\ LoRaFd \in BOOLEAN
    /\ openAge \in 0..REOPEN_BACKOFF
    /\ AckReceivedThisCycle \in BOOLEAN
    /\ NoAckCount \in 0..NoAckLimit
    /\ LinkState \in {DISCONNECTED, CONNECTED, DEGRADED}
    /\ heard \in BOOLEAN /\ wrapped \in BOOLEAN /\ resetSince \in BOOLEAN
    /\ ackAge \in 0..OldestAck
    /\ quiet \in 0..LongQuiet
    /\ PendingUplinkFeedback \in VerdictCodes \cup {"OK", "CRC_FAIL"}
    /\ UplinkLastAcceptedSequence \in Nat
    /\ UseV2Downlink \in BOOLEAN
    /\ file \in SUBSET BOOLEAN
    /\ route.count \in 0..ROUTE_MAX_WAYPOINTS
    /\ route.pending => route.page * WAYPOINTS_PER_PAGE < route.count
    /\ Len(pipe) =< MsgLimit
    /\ Len(toUplink) =< MaxWaiting
    /\ inputs \in 0..MaxInputs

\* Nothing is under way between this app and uplink_app.
Settled == phase # "off" /\ pipe = << >> /\ toUplink = << >> /\ ~lost

\* A verdict shown to the ground is uplink_app's last one, "applied" is about
\* the last command received, and the accepted number beside it is current -
\* although copies, repeated statuses and execution results are mixed with
\* the verdicts (lora_tdm_app_dispatch.c, UPLINK_STATUS_MID).
FeedbackIsTrue ==
    Settled /\ PendingUplinkFeedback \in VerdictCodes =>
        /\ last.res \in Verdicts
        /\ PendingUplinkFeedback = FeedbackCode[last.res]
        /\ PendingUplinkFeedback = "APPLIED" => last.num = newest
        /\ UplinkLastAcceptedSequence = accepted

\* However the clock wraps, the port fails or the app restarts, a link without
\* ACKs for the threshold's worth of cycles is not called CONNECTED
\* (RunRxWindow and UpdateLinkState, BL-78).
SilenceIsNoticed ==
    phase # "off" /\ quiet > CycleTicks * LINK_LOSS_THRESHOLD =>
        LinkState # CONNECTED

\* A link that was heard and then silent for longer than the timeout, seen
\* at the end of the cycle, is DISCONNECTED (UpdateLinkState).
LossIsReported ==
    heard /\ ~wrapped /\ ackAge > LINK_TIMEOUT + Sleep =>
        LinkState = DISCONNECTED

\* A link is DEGRADED before it is DISCONNECTED, so that the ground is warned
\* (LINK_LOSS_THRESHOLD, BL-88), unless the silence count was reset meanwhile.
DegradedBeforeLost ==
    [][heard' /\ LinkState' = DISCONNECTED /\ ~resetSince =>
         LinkState \in {DEGRADED, DISCONNECTED}]_vars

\* A readback shows the waypoints of the snapshot, each one once and in
\* order, though writes fail, the protocol is switched or another snapshot
\* comes in between (RunTx, ProcessRouteSnapshot).
EveryWaypointOnce ==
    /\ route.sent = [i \in 1..Len(route.sent) |-> i]
    /\ Len(route.sent) = IF route.pending THEN route.page * WAYPOINTS_PER_PAGE
                                          ELSE route.count
==============================================================================
