--------------------------- MODULE MissionService ----------------------------
(****************************************************************************)
(* mavlink_bridge_app: the mission of the flight controller (FC).           *)
(*                                                                          *)
(* A ROUTE_UPDATE of the ground makes the bridge build the whole new route  *)
(* from the route it believes the FC holds (ActiveWaypoint...) and upload   *)
(* it: MISSION_CLEAR_ALL, a pause, MISSION_COUNT, then one item for each    *)
(* MISSION_REQUEST until the FC answers MISSION_ACK.  A readback is the     *)
(* other direction: MISSION_REQUEST_LIST, the FC's count, one request for   *)
(* each item; the result is published and becomes the route cache of        *)
(* cfs_core_app.  A readback starts when the link comes up, after an        *)
(* upload, after a failed readback and on MISSION_QUERY.                    *)
(*                                                                          *)
(* The serial line delivers in order and may lose frames.  Timers are       *)
(* abstracted: a timeout may fire whenever no more than MaxLate messages    *)
(* are under way, so MaxLate = 0 is an FC that always answers in time.  The *)
(* FC asks for each item of an upload with either of two requests, and may  *)
(* or may not acknowledge MISSION_CLEAR_ALL.                                *)
(* ServiceSerial is one action per timer and per frame received; telemetry, *)
(* flight modes and CONFIG commands of the bridge are not part of this      *)
(* module.  Waypoints are opaque, but for what the older of the two         *)
(* requests loses of them.                                                  *)
(****************************************************************************)
EXTENDS Naturals, Sequences

CONSTANTS
    Waypoints,     \* contents of a waypoint
    Legacy,        \* what is left of each as a MISSION_ITEM: no parameters,
                   \* and a latitude and longitude rounded to a float
    MaxWaypoints,  \* length of a route, 37 in the code
    MaxRetries,    \* repetitions of an upload, 3 in the code
    Routes,        \* waypoint lists the ground may send
    FcMissions,    \* missions the FC may hold when the bridge starts
    MaxLate,       \* messages that may be under way when a timeout fires
    MaxUpdates,    \* bound: ROUTE_UPDATE commands taken
    MaxQueries,    \* bound: MISSION_QUERY commands
    MaxFaults      \* bound: lost frames, FC refusals and deaths, breaks of the
                   \* serial line, reconnects on command and restarts, together

ASSUME WaypointsAssumption ==
    /\ MaxWaypoints \in Nat \ {0} /\ MaxRetries \in Nat
    /\ Legacy \in [Waypoints -> Waypoints]
ASSUME RoutesAssumption ==
    Routes \subseteq Seq(Waypoints) /\ FcMissions \subseteq Seq(Waypoints)
ASSUME LimitsAssumption ==
    /\ MaxLate \in Nat /\ MaxUpdates \in Nat /\ MaxQueries \in Nat
    /\ MaxFaults \in Nat

VARIABLES
    LinkState,
    open,                 \* SerialFd >= 0
    MissionUploadState,
    pending,              \* MissionPending..., MissionUploadWpCount entries
    MissionUploadRetry,
    LastUploadResult,
    active,               \* ActiveWaypoint..., ActiveWaypointCount entries
    ActiveResumeIndex,
    mistaken,             \* history: the answer to MISSION_CLEAR_ALL ended the
                          \* upload
    overtaken,            \* history: the upload, or a retry of it, began with a
                          \* question or an answer of an earlier one under way
    MissionDownloadState,
    MissionDownloadSeq,
    MissionDownloadExpectedCount,
    buffer,               \* MissionDownloadWaypoints
    MissionReadbackPending,
    readback,             \* the last FC_MISSION_READBACK, if any: 0 or 1 routes
    fc,                   \* FC: its mission and the upload it is receiving
    toFc, fromFc,         \* the serial line
    fcPast,               \* history: missions the FC has held
    intruded,             \* history: a query started a readback in an upload
    crossed,              \* history: a list was asked for before the answer to
                          \* an earlier request for it
    used                  \* history: what was spent of each bound

upload   == <<MissionUploadState, pending, MissionUploadRetry, LastUploadResult,
              active, ActiveResumeIndex, mistaken, overtaken>>
download == <<MissionDownloadState, MissionDownloadSeq,
              MissionDownloadExpectedCount, buffer, MissionReadbackPending,
              readback, crossed>>
line     == <<LinkState, open>>
history  == <<fcPast, intruded, used>>
vars     == <<line, upload, download, fc, toFc, fromFc, history>>

None == "none"

\* Mutant: a route is not cut.
ClampNone(route) == route

Clamp(route) == SubSeq(route, 1, IF Len(route) < MaxWaypoints THEN Len(route) ELSE MaxWaypoints)

\* n: the sequence number of an item or of a request for it, or a count.
Message(type, n, wp) == [type |-> type, n |-> n, wp |-> wp]
Plain(type, n) == Message(type, n, None)

\* SendMavlinkV2: frames are dropped while the port is closed.
Send(frames) == toFc' = IF open THEN toFc \o frames ELSE toFc

Spend(what) == used' = [used EXCEPT ![what] = @ + 1]

------------------------------------------------------------------------------
(* Upload *)

\* The route that results from an operation on the active one; index counts
\* from 0, as in the code.
Without(route, index) == SubSeq(route, 1, index) \o SubSeq(route, index + 2, Len(route))

NewRoute(op, index, wps) ==
    CASE op = "ADD"    -> Clamp(active \o wps)
      [] op = "DELETE" -> Without(active, index)
      [] op = "MODIFY" -> [active EXCEPT ![index + 1] = wps[1]]
      [] OTHER         -> Clamp(wps)

\* StartMissionUpload, past its early returns; it also starts over an upload
\* that is under way.
StartMissionUpload(op, index, wps) ==
    /\ used.updates < MaxUpdates
    /\ LinkState = "CONNECTED"
    /\ MissionDownloadState = "IDLE"
    /\ op \in {"DELETE", "MODIFY"} => index < Len(active)
    /\ op = "DELETE" => index # ActiveResumeIndex
    /\ pending' = NewRoute(op, index, wps)
    /\ ActiveResumeIndex' = IF op = "DELETE" /\ index < ActiveResumeIndex
                              THEN ActiveResumeIndex - 1 ELSE ActiveResumeIndex
    /\ MissionUploadState' = "CLEARING"
    /\ MissionUploadRetry' = 0
    /\ mistaken' = FALSE /\ overtaken' = FALSE
    /\ Send(<<Plain("CLEAR_ALL", 0)>>)
    /\ Spend("updates")
    /\ UNCHANGED <<line, LastUploadResult, active, download, fc, fromFc, fcPast,
                   intruded>>

\* A timeout fires: the answer did not come, or is late.
Expired == open /\ Len(toFc) + Len(fromFc) =< MaxLate

\* A question to the FC about an upload, or an answer of it, is under way.
Asking    == {"COUNT", "ITEM"}
Answering == {"REQUEST", "REQUEST_INT", "ACK"}

ExchangeUnderWay ==
    \/ \E i \in 1..Len(toFc) : toFc[i].type \in Asking
    \/ \E i \in 1..Len(fromFc) : fromFc[i].type \in Answering

\* Mutant: the count of the active route is announced.
ClearDelayOverActive ==
    /\ Expired /\ MissionUploadState = "CLEARING"
    /\ MissionUploadState' = "ACTIVE"
    /\ overtaken' = ExchangeUnderWay
    /\ Send(<<Plain("COUNT", Len(active))>>)
    /\ UNCHANGED <<line, pending, MissionUploadRetry, LastUploadResult, active,
                   ActiveResumeIndex, mistaken, download, fc, fromFc, history>>

\* CheckMissionUploadTimeout
ClearDelayOver ==
    /\ Expired /\ MissionUploadState = "CLEARING"
    /\ MissionUploadState' = "ACTIVE"
    /\ overtaken' = ExchangeUnderWay
    /\ Send(<<Plain("COUNT", Len(pending))>>)
    /\ UNCHANGED <<line, pending, MissionUploadRetry, LastUploadResult, active,
                   ActiveResumeIndex, mistaken, download, fc, fromFc, history>>

\* Mutant: retries are not counted.
RetryUploadForever ==
    /\ Expired /\ MissionUploadState = "ACTIVE"
    /\ MissionUploadRetry < MaxRetries
    /\ overtaken' = (overtaken \/ ExchangeUnderWay)
    /\ Send(<<Plain("CLEAR_ALL", 0), Plain("COUNT", Len(pending))>>)
    /\ UNCHANGED <<line, MissionUploadState, pending, MissionUploadRetry,
                   LastUploadResult, active, ActiveResumeIndex, mistaken,
                   download, fc, fromFc, history>>

RetryUpload ==
    /\ Expired /\ MissionUploadState = "ACTIVE"
    /\ MissionUploadRetry < MaxRetries
    /\ MissionUploadRetry' = MissionUploadRetry + 1
    /\ overtaken' = (overtaken \/ ExchangeUnderWay)
    /\ Send(<<Plain("CLEAR_ALL", 0), Plain("COUNT", Len(pending))>>)
    /\ UNCHANGED <<line, MissionUploadState, pending, LastUploadResult, active,
                   ActiveResumeIndex, mistaken, download, fc, fromFc, history>>

UploadFailed ==
    /\ Expired /\ MissionUploadState = "ACTIVE"
    /\ MissionUploadRetry >= MaxRetries
    /\ MissionUploadState' = "IDLE"
    /\ LastUploadResult' = "TIMEOUT"
    /\ UNCHANGED <<line, pending, MissionUploadRetry, active, ActiveResumeIndex,
                   mistaken, overtaken, download, fc, toFc, fromFc, history>>

CheckMissionUploadTimeout == ClearDelayOver \/ RetryUpload \/ UploadFailed

------------------------------------------------------------------------------
(* Readback *)

\* A request for the FC's list, or the answer to it, is under way.
ListAwaited ==
    \/ \E i \in DOMAIN toFc : toFc[i].type = "REQUEST_LIST"
    \/ \E i \in DOMAIN fromFc : fromFc[i].type = "COUNT"

\* The download state machine asks the FC for its mission.
RequestList ==
    /\ MissionDownloadState' = "WAIT_COUNT"
    /\ MissionDownloadSeq' = 0
    /\ MissionDownloadExpectedCount' = 0
    /\ crossed' = (crossed \/ ListAwaited)
    /\ UNCHANGED <<buffer, readback>>

StartFcMissionReadback == RequestList /\ MissionReadbackPending' = FALSE

PublishFcMissionReadback(count, items) ==
    readback' = <<[i \in 1..(IF count < MaxWaypoints THEN count ELSE MaxWaypoints) |->
                      items[i]]>>

\* MISSION_QUERY does not look at the upload.
MissionQuery ==
    /\ used.queries < MaxQueries
    /\ LinkState = "CONNECTED"
    /\ RequestList
    /\ Send(<<Plain("REQUEST_LIST", 0)>>)
    /\ intruded' = (intruded \/ MissionUploadState # "IDLE")
    /\ Spend("queries")
    /\ UNCHANGED <<line, upload, MissionReadbackPending, fc, fromFc, fcPast>>

CheckMissionDownloadTimeout ==
    /\ Expired /\ MissionDownloadState # "IDLE"
    /\ MissionDownloadState' = "IDLE"
    /\ MissionReadbackPending' = (MissionReadbackPending \/ LinkState = "CONNECTED")
    /\ UNCHANGED <<line, upload, MissionDownloadSeq,
                   MissionDownloadExpectedCount, buffer, readback, crossed, fc,
                   toFc, fromFc, history>>

\* Mutant: a scheduled readback does not wait for the end of an upload.
RetryReadbackAnytime ==
    /\ open /\ MissionReadbackPending
    /\ LinkState = "CONNECTED" /\ MissionDownloadState = "IDLE"
    /\ StartFcMissionReadback
    /\ Send(<<Plain("REQUEST_LIST", 0)>>)
    /\ UNCHANGED <<line, upload, fc, fromFc, history>>

\* The readback that a timeout scheduled; its backoff is over at some time.
RetryReadback ==
    /\ open /\ MissionReadbackPending
    /\ LinkState = "CONNECTED"
    /\ MissionUploadState = "IDLE" /\ MissionDownloadState = "IDLE"
    /\ StartFcMissionReadback
    /\ Send(<<Plain("REQUEST_LIST", 0)>>)
    /\ UNCHANGED <<line, upload, fc, fromFc, history>>

------------------------------------------------------------------------------
(* The link *)

\* SetLinkState(CONNECTED) coming from the state "before", with the port open
\* and the given frames on the line.
Connect(before, frames) ==
    /\ LinkState' = "CONNECTED"
    /\ \/ /\ before = "CONNECTED"
          /\ toFc' = frames
          /\ UNCHANGED download
       \/ /\ before # "CONNECTED"
          /\ MissionUploadState = "IDLE" /\ MissionDownloadState = "IDLE"
          /\ StartFcMissionReadback
          /\ toFc' = Append(frames, Plain("REQUEST_LIST", 0))
       \/ /\ before # "CONNECTED"
          /\ MissionUploadState # "IDLE" \/ MissionDownloadState # "IDLE"
          /\ toFc' = frames
          /\ MissionReadbackPending' = FALSE
          /\ UNCHANGED <<MissionDownloadState, MissionDownloadSeq,
                         MissionDownloadExpectedCount, buffer, readback, crossed>>

\* HEARTBEAT and every other frame that shows the link is alive; for
\* MISSION_CURRENT, the FC also says which waypoint it is flying to.
LinkAlive(resume) ==
    /\ open /\ fc.alive
    /\ LinkState # "CONNECTED" \/ resume # ActiveResumeIndex
    /\ ActiveResumeIndex' = resume
    /\ Connect(LinkState, toFc)
    /\ UNCHANGED <<open, MissionUploadState, pending, MissionUploadRetry,
                   LastUploadResult, active, mistaken, overtaken, fc, fromFc,
                   history>>

\* No telemetry for STALE_TIMEOUT_MS and nothing to read; the frames of the
\* mission protocol itself do not count as telemetry.
LinkStale ==
    /\ open /\ fromFc = << >> /\ LinkState # "DEGRADED"
    /\ LinkState' = "DEGRADED"
    /\ UNCHANGED <<open, upload, download, fc, toFc, fromFc, history>>

\* A read error closes the port; the upload and the readback are left as they
\* are.
ReadError ==
    /\ open /\ used.faults < MaxFaults
    /\ open' = FALSE
    /\ LinkState' = "DISCONNECTED"
    /\ MissionReadbackPending' = FALSE
    /\ toFc' = << >> /\ fromFc' = << >>
    /\ Spend("faults")
    /\ UNCHANGED <<upload, MissionDownloadState, MissionDownloadSeq,
                   MissionDownloadExpectedCount, buffer, readback, crossed, fc,
                   fcPast, intruded>>

\* cfs_core_app restarts the bridge, or it dies: the memset of Init.  The frames
\* it sent still reach the FC.
Restart ==
    /\ used.faults < MaxFaults
    /\ LinkState' = "DISCONNECTED" /\ open' = FALSE
    /\ MissionUploadState' = "IDLE" /\ pending' = << >>
    /\ MissionUploadRetry' = 0 /\ LastUploadResult' = "NONE"
    /\ active' = << >> /\ ActiveResumeIndex' = 0
    /\ MissionDownloadState' = "IDLE" /\ MissionDownloadSeq' = 0
    /\ MissionDownloadExpectedCount' = 0
    /\ buffer' = [i \in 1..MaxWaypoints |-> None]
    /\ MissionReadbackPending' = FALSE
    /\ Spend("faults")
    /\ UNCHANGED <<mistaken, overtaken, readback, crossed, fc, toFc, fromFc,
                   fcPast, intruded>>

\* ServiceSerial with the port closed, not sooner than a timeout; OpenSerial
\* discards what the FC sent meanwhile and reports CONNECTED at once.
Reconnect ==
    /\ ~open /\ Len(toFc) =< MaxLate
    /\ open' = TRUE
    /\ fromFc' = << >>
    /\ Connect("DISCONNECTED", toFc)
    /\ UNCHANGED <<upload, fc, history>>

\* The attempt fails; it still takes back what the link was called.
ReconnectFails ==
    /\ ~open /\ LinkState # "DISCONNECTED"
    /\ LinkState' = "DISCONNECTED"
    /\ MissionReadbackPending' = FALSE
    /\ UNCHANGED <<open, upload, MissionDownloadState, MissionDownloadSeq,
                   MissionDownloadExpectedCount, buffer, readback, crossed, fc,
                   toFc, fromFc, history>>

\* SERIAL_RECONNECT closes the port and opens it again; when that fails the
\* link keeps its name until ServiceSerial tries.
ProcessSerialReconnectCmd(ok) ==
    /\ used.faults < MaxFaults
    /\ fromFc' = << >>
    /\ open' = ok
    /\ IF ok THEN Connect(LinkState, toFc)
             ELSE toFc' = << >> /\ UNCHANGED <<LinkState, download>>
    /\ Spend("faults")
    /\ UNCHANGED <<upload, fc, fcPast, intruded>>

------------------------------------------------------------------------------
(* Frames of the FC *)

Received(type) ==
    /\ open /\ fromFc # << >>
    /\ Head(fromFc).type = type
    /\ fromFc' = Tail(fromFc)

\* The item that the FC asks for is sent as MISSION_ITEM_INT with all its
\* fields ...
OnMissionRequestInt ==
    /\ Received("REQUEST_INT")
    /\ LET n == Head(fromFc).n
       IN  IF MissionUploadState = "ACTIVE" /\ n < Len(pending)
             THEN Send(<<Message("ITEM", n, pending[n + 1])>>)
             ELSE UNCHANGED toFc
    /\ UNCHANGED <<line, upload, download, fc, history>>

\* ... or, for the older MISSION_REQUEST, as MISSION_ITEM.
OnMissionRequest ==
    /\ Received("REQUEST")
    /\ LET n == Head(fromFc).n
       IN  IF MissionUploadState = "ACTIVE" /\ n < Len(pending)
             THEN Send(<<Message("ITEM", n, Legacy[pending[n + 1]])>>)
             ELSE UNCHANGED toFc
    /\ UNCHANGED <<line, upload, download, fc, history>>

\* MISSION_ACK; n is the FC's result, 0 = ACCEPTED.  The frame does not say what
\* it acknowledges: "CLEAR_ACK" is the answer to MISSION_CLEAR_ALL.
OnMissionAck ==
    /\ Received("ACK") \/ Received("CLEAR_ACK")
    /\ \/ /\ MissionUploadState # "ACTIVE"
          /\ UNCHANGED <<upload, download, toFc>>
       \/ /\ MissionUploadState = "ACTIVE" /\ Head(fromFc).n = 0
          /\ MissionUploadState' = "IDLE"
          /\ LastUploadResult' = "SUCCESS"
          /\ active' = pending
          /\ mistaken' = (Head(fromFc).type = "CLEAR_ACK")
          /\ IF MissionDownloadState = "IDLE"
               THEN StartFcMissionReadback /\ Send(<<Plain("REQUEST_LIST", 0)>>)
               ELSE UNCHANGED <<download, toFc>>
          /\ UNCHANGED <<pending, MissionUploadRetry, ActiveResumeIndex, overtaken>>
       \/ /\ MissionUploadState = "ACTIVE" /\ Head(fromFc).n # 0
          /\ MissionUploadState' = "IDLE"
          /\ LastUploadResult' = "NAK"
          /\ UNCHANGED <<pending, MissionUploadRetry, active, ActiveResumeIndex,
                         mistaken, overtaken, download, toFc>>
    /\ UNCHANGED <<line, fc, fcPast, intruded, used>>

OnMissionCount ==
    /\ Received("COUNT")
    /\ LET n == Head(fromFc).n
       IN  \/ /\ MissionDownloadState # "WAIT_COUNT"
              /\ UNCHANGED <<download, toFc>>
           \/ /\ MissionDownloadState = "WAIT_COUNT" /\ n = 0
              /\ MissionDownloadState' = "IDLE"
              /\ MissionDownloadExpectedCount' = 0
              /\ Send(<<Plain("ACK", 0)>>)
              /\ PublishFcMissionReadback(0, buffer)
              /\ UNCHANGED <<MissionDownloadSeq, buffer, MissionReadbackPending,
                             crossed>>
           \/ /\ MissionDownloadState = "WAIT_COUNT" /\ n # 0
              /\ MissionDownloadState' = "WAIT_ITEM"
              /\ MissionDownloadSeq' = 0
              /\ MissionDownloadExpectedCount' = n
              /\ Send(<<Plain("REQUEST_INT", 0)>>)
              /\ UNCHANGED <<buffer, MissionReadbackPending, readback, crossed>>
    /\ UNCHANGED <<line, upload, fc, history>>

\* Mutant: waypoints beyond the last place overwrite it.
StoredLast(wp) ==
    [buffer EXCEPT ![IF MissionDownloadSeq < MaxWaypoints
                       THEN MissionDownloadSeq + 1 ELSE MaxWaypoints] = wp]

\* The number that the item carries is not looked at.
Stored(wp) ==
    IF MissionDownloadSeq < MaxWaypoints
      THEN [buffer EXCEPT ![MissionDownloadSeq + 1] = wp] ELSE buffer

OnMissionItem ==
    /\ Received("ITEM")
    /\ \/ /\ MissionDownloadState # "WAIT_ITEM"
          /\ UNCHANGED <<download, toFc>>
       \/ /\ MissionDownloadState = "WAIT_ITEM"
          /\ buffer' = Stored(Head(fromFc).wp)
          /\ MissionDownloadSeq' = MissionDownloadSeq + 1
          /\ IF MissionDownloadSeq' >= MissionDownloadExpectedCount
               THEN /\ MissionDownloadState' = "IDLE"
                    /\ Send(<<Plain("ACK", 0)>>)
                    /\ PublishFcMissionReadback(MissionDownloadExpectedCount, buffer')
               ELSE /\ Send(<<Plain("REQUEST_INT", MissionDownloadSeq')>>)
                    /\ UNCHANGED <<MissionDownloadState, readback>>
          /\ UNCHANGED <<MissionDownloadExpectedCount, MissionReadbackPending,
                         crossed>>
    /\ UNCHANGED <<line, upload, fc, history>>

Receive ==
    \/ OnMissionRequestInt \/ OnMissionRequest \/ OnMissionAck
    \/ OnMissionCount \/ OnMissionItem

------------------------------------------------------------------------------
(* The flight controller and the serial line *)

Holds(mission) ==
    /\ fc' = [fc EXCEPT !.mission = mission, !.items = << >>, !.want = 0]
    /\ fcPast' = fcPast \cup {Clamp(mission)}

Answer(frames) == fromFc' = fromFc \o frames

\* The FC asks for an item of the upload, with the request it likes.
AsksFor(n) == Answer(<<Plain("REQUEST_INT", n)>>) \/ Answer(<<Plain("REQUEST", n)>>)

\* The MAVLink mission protocol, one frame after the other.
FcStep ==
    /\ toFc # << >>
    /\ toFc' = Tail(toFc)
    /\ LET m == Head(toFc)
       IN  \/ /\ fc.alive /\ m.type = "CLEAR_ALL"
              /\ Holds(<< >>)
              /\ Answer(<<Plain("CLEAR_ACK", 0)>>) \/ Answer(<< >>)
           \/ /\ fc.alive /\ m.type = "COUNT" /\ m.n = 0
              /\ Holds(<< >>)
              /\ Answer(<<Plain("ACK", 0)>>)
           \/ /\ fc.alive /\ m.type = "COUNT" /\ m.n # 0
              /\ fc' = [fc EXCEPT !.items = << >>, !.want = m.n]
              /\ AsksFor(0)
              /\ UNCHANGED fcPast
           \/ /\ fc.alive /\ m.type = "ITEM"
              /\ m.n = Len(fc.items) /\ m.n + 1 < fc.want
              /\ fc' = [fc EXCEPT !.items = Append(@, m.wp)]
              /\ AsksFor(m.n + 1)
              /\ UNCHANGED fcPast
           \/ /\ fc.alive /\ m.type = "ITEM"
              /\ m.n = Len(fc.items) /\ m.n + 1 = fc.want
              /\ Holds(Append(fc.items, m.wp))
              /\ Answer(<<Plain("ACK", 0)>>)
           \/ /\ fc.alive /\ m.type = "REQUEST_LIST"
              /\ Answer(<<Plain("COUNT", Len(fc.mission))>>)
              /\ UNCHANGED <<fc, fcPast>>
           \/ /\ fc.alive /\ m.type = "REQUEST_INT" /\ m.n < Len(fc.mission)
              /\ Answer(<<Message("ITEM", m.n, fc.mission[m.n + 1])>>)
              /\ UNCHANGED <<fc, fcPast>>
           \/ /\ \/ ~fc.alive
                 \/ m.type = "ACK"
                 \/ m.type = "ITEM" /\ (m.n # Len(fc.items) \/ m.n >= fc.want)
                 \/ m.type = "REQUEST_INT" /\ m.n >= Len(fc.mission)
              /\ UNCHANGED <<fc, fcPast, fromFc>>
    /\ UNCHANGED <<line, upload, download, intruded, used>>

\* The FC refuses the item that is next on the line.
FcRefuses ==
    /\ used.faults < MaxFaults /\ fc.alive
    /\ toFc # << >> /\ Head(toFc).type = "ITEM"
    /\ toFc' = Tail(toFc)
    /\ fc' = [fc EXCEPT !.items = << >>, !.want = 0]
    /\ Answer(<<Plain("ACK", 1)>>)
    /\ Spend("faults")
    /\ UNCHANGED <<line, upload, download, fcPast, intruded>>

FcDies ==
    /\ used.faults < MaxFaults /\ fc.alive
    /\ fc' = [fc EXCEPT !.alive = FALSE]
    /\ Spend("faults")
    /\ UNCHANGED <<line, upload, download, toFc, fromFc, fcPast, intruded>>

\* It keeps its mission, but not the upload it was receiving.
FcReboots ==
    /\ ~fc.alive
    /\ fc' = [fc EXCEPT !.alive = TRUE, !.items = << >>, !.want = 0]
    /\ UNCHANGED <<line, upload, download, toFc, fromFc, history>>

\* A frame is damaged and its CRC refused.
LoseToFc ==
    /\ used.faults < MaxFaults /\ toFc # << >>
    /\ toFc' = Tail(toFc)
    /\ Spend("faults")
    /\ UNCHANGED <<line, upload, download, fc, fromFc, fcPast, intruded>>

LoseFromFc ==
    /\ used.faults < MaxFaults /\ fromFc # << >>
    /\ fromFc' = Tail(fromFc)
    /\ Spend("faults")
    /\ UNCHANGED <<line, upload, download, fc, toFc, fcPast, intruded>>

------------------------------------------------------------------------------
Init ==
    /\ LinkState = "DISCONNECTED" /\ open = FALSE
    /\ MissionUploadState = "IDLE" /\ pending = << >>
    /\ MissionUploadRetry = 0 /\ LastUploadResult = "NONE"
    /\ active = << >> /\ ActiveResumeIndex = 0
    /\ mistaken = FALSE /\ overtaken = FALSE
    /\ MissionDownloadState = "IDLE" /\ MissionDownloadSeq = 0
    /\ MissionDownloadExpectedCount = 0
    /\ buffer = [i \in 1..MaxWaypoints |-> None]
    /\ MissionReadbackPending = FALSE
    /\ readback = << >>
    /\ \E m \in FcMissions :
           /\ fc = [mission |-> m, items |-> << >>, want |-> 0, alive |-> TRUE]
           /\ fcPast = {Clamp(m)}
    /\ toFc = << >> /\ fromFc = << >>
    /\ intruded = FALSE /\ crossed = FALSE
    /\ used = [updates |-> 0, queries |-> 0, faults |-> 0]

RouteUpdate ==
    \/ \E op \in {"ADD", "REPLACE"}, wps \in Routes : StartMissionUpload(op, 0, wps)
    \/ \E index \in 0..(MaxWaypoints - 1) : StartMissionUpload("DELETE", index, << >>)
    \/ \E index \in 0..(MaxWaypoints - 1), wps \in Routes :
           wps # << >> /\ StartMissionUpload("MODIFY", index, wps)

Next ==
    \/ RouteUpdate
    \/ CheckMissionUploadTimeout
    \/ MissionQuery
    \/ CheckMissionDownloadTimeout
    \/ RetryReadback
    \/ \E resume \in {ActiveResumeIndex} \cup 0..(MaxWaypoints - 1) : LinkAlive(resume)
    \/ LinkStale
    \/ ReadError
    \/ Restart
    \/ Reconnect
    \/ ReconnectFails
    \/ \E ok \in BOOLEAN : ProcessSerialReconnectCmd(ok)
    \/ Receive
    \/ FcStep
    \/ FcRefuses
    \/ FcDies
    \/ FcReboots
    \/ LoseToFc
    \/ LoseFromFc

Spec == Init /\ [][Next]_vars

\* ServiceSerial runs in every turn of the main loop, so that frames are read
\* and timeouts noticed; the FC works off its input.
LiveSpec ==
    /\ Spec
    /\ WF_vars(CheckMissionUploadTimeout)
    /\ WF_vars(CheckMissionDownloadTimeout)
    /\ WF_vars(Receive)
    /\ WF_vars(FcStep)

------------------------------------------------------------------------------
(* Properties *)

Frame == [type : {"CLEAR_ALL", "COUNT", "REQUEST_LIST", "REQUEST",
                  "REQUEST_INT", "ITEM", "ACK", "CLEAR_ACK"},
          n : Nat, wp : Waypoints \cup {None}]

\* Type invariant.
TypeOK ==
    /\ LinkState \in {"DISCONNECTED", "CONNECTED", "DEGRADED"} /\ open \in BOOLEAN
    /\ MissionUploadState \in {"IDLE", "CLEARING", "ACTIVE"}
    /\ pending \in Seq(Waypoints) /\ Len(pending) =< MaxWaypoints
    /\ active \in Seq(Waypoints) /\ Len(active) =< MaxWaypoints
    /\ MissionUploadRetry \in 0..MaxRetries
    /\ LastUploadResult \in {"NONE", "SUCCESS", "NAK", "TIMEOUT"}
    /\ ActiveResumeIndex \in Nat
    /\ mistaken \in BOOLEAN /\ overtaken \in BOOLEAN
    /\ MissionDownloadState \in {"IDLE", "WAIT_COUNT", "WAIT_ITEM"}
    /\ MissionDownloadSeq \in Nat /\ MissionDownloadExpectedCount \in Nat
    /\ buffer \in [1..MaxWaypoints -> Waypoints \cup {None}]
    /\ MissionReadbackPending \in BOOLEAN
    /\ readback \in Seq(Seq(Waypoints \cup {None}))
    /\ fc \in [mission : Seq(Waypoints), items : Seq(Waypoints), want : Nat,
               alive : BOOLEAN]
    /\ toFc \in Seq(Frame) /\ fromFc \in Seq(Frame)
    /\ fcPast \subseteq Seq(Waypoints)
    /\ intruded \in BOOLEAN /\ crossed \in BOOLEAN
    /\ used \in [updates : Nat, queries : Nat, faults : Nat]

\* Upload and readback exclude each other, so that neither takes the other's
\* answers for its own (the guards of StartMissionUpload, SetLinkState,
\* ServiceSerial and the MISSION_ACK handler), as long as no MISSION_QUERY
\* comes during an upload.
UploadExcludesReadback ==
    ~intruded => (MissionUploadState = "IDLE" \/ MissionDownloadState = "IDLE")

\* Each waypoint of the mission is that of the route, or what is left of it in a
\* MISSION_ITEM.
StoredAs(mission, route) ==
    /\ Len(mission) = Len(route)
    /\ \A i \in 1..Len(route) : mission[i] \in {route[i], Legacy[route[i]]}

UploadSucceeded == MissionUploadState = "IDLE" /\ LastUploadResult = "SUCCESS"

\* After an upload that was reported as a success, and until the next one, the
\* FC holds the route the bridge calls active, on which it will build the next
\* ADD, DELETE or MODIFY (MISSION_REQUEST and MISSION_ACK handlers,
\* CheckMissionUploadTimeout), unless the answer to MISSION_CLEAR_ALL was taken
\* for that to the upload, or an attempt began amid the answers to the one before.
SuccessMeansStored ==
    UploadSucceeded /\ ~mistaken /\ ~overtaken => StoredAs(fc.mission, active)

\* The same of every success.  Section 9.4 of notes/mavlink_bridge_app_behavior_spec.md
\* says that ACCEPTED includes that the FC accepted the mission items (which the
\* FC of this module then stores), section 6.0 that it may acknowledge
\* MISSION_CLEAR_ALL too.  The code refutes it: in a retry the upload is ACTIVE
\* when MISSION_CLEAR_ALL is sent, so that its answer ends the upload as a success
\* before the FC has asked for an item.
AcceptedMeansStored == UploadSucceeded => StoredAs(fc.mission, active)

\* What is published as the FC's mission is a mission the FC has held, whole
\* and in its order, cut after MaxWaypoints (OnMissionCount, OnMissionItem), as
\* long as a readback does not start during an upload or before the answer to
\* the request that started the one before.
ReadbackIsAMission ==
    ~intruded /\ ~crossed => \A i \in 1..Len(readback) : readback[i] \in fcPast

\* A readback shows a mission the FC has held, whenever it was asked for: the
\* "readback of the FC's real mission" of the notes.  It does not hold: the
\* requests for items of two crossing readbacks are answered twice, and items
\* are stored by arrival (MISSION_QUERY, OnMissionItem).
QueriedMissionIsReal ==
    ~intruded => \A i \in 1..Len(readback) : readback[i] \in fcPast

\* An upload comes to an end, by an answer or after the last retry, also when
\* the FC has stopped answering; only a closed port suspends it
\* (CheckMissionUploadTimeout).
UploadEnds == (MissionUploadState # "IDLE") ~> (MissionUploadState = "IDLE" \/ ~open)
==============================================================================
