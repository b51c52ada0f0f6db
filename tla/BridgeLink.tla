----------------------------- MODULE BridgeLink ------------------------------
(****************************************************************************)
(* mavlink_bridge_app: the bytes of the serial line and what they become.   *)
(*                                                                          *)
(* The flight controller (FC) and its peripherals send MAVLink frames,      *)
(* version 1 or 2.  ProcessReceivedByte takes them apart byte by byte; a    *)
(* complete frame with a good checksum updates the link state, the armed    *)
(* flag or one of the telemetry outputs on the software bus.  A line that   *)
(* is silent makes the link DEGRADED and the outputs stale; a read error    *)
(* closes the port, which is then reopened periodically.                    *)
(*                                                                          *)
(* The line may lose, damage or add bytes.  Bytes are read one at a time,   *)
(* and time passes in ticks when nothing arrives.  The checksum is a        *)
(* simpler one over the same bytes.  A payload has one byte for each field  *)
(* that is looked at.  Mission frames are the subject of MissionService;    *)
(* what the bridge sends itself, of CommandExec                             *)
(****************************************************************************)
EXTENDS Naturals, Sequences

CONSTANTS
    STALE_TIMEOUT,       \* ticks of silence until the link is DEGRADED
    RECONNECT_INTERVAL,  \* ticks between two attempts to open the port
    Traffic,             \* the sequences of messages that may be sent
    NoiseBytes,          \* what damaged and added bytes may be
    MaxGap,              \* bound: ticks between two bytes that are both there
                         \* when the bridge looks
    MaxEvents            \* bound: faults, ground commands and restarts

ASSUME TimesAssumption ==
    STALE_TIMEOUT \in Nat \ {0} /\ RECONNECT_INTERVAL \in Nat \ {0}
ASSUME BytesAssumption == NoiseBytes \subseteq 0..255
ASSUME BoundsAssumption ==
    MaxGap \in Nat /\ MaxEvents \in Nat

VARIABLES
    wire,              \* bytes sent and not yet read
    parser,            \* MAVLINK_BRIDGE_APP_Parser
    SerialFd,          \* is the port open
    LinkState,
    silence,           \* ticks since LastRxTimestampMs
    wait,              \* ticks since LastReconnectAttemptMs, as far as it matters
    LastErrorCode,
    TargetSystemId, TargetComponentId,
    IsArmed,
    tlm,               \* the telemetry outputs
    sent,              \* history: the messages sent, in order
    since,             \* history: how many of them an opening has discarded
    damaged,           \* history: a fault since the port was opened
    quiet,             \* history: ticks since bytes came or the port opened
    good,              \* history: ticks since a good frame or the opening
    events             \* history: faults, commands and restarts so far

\* The part of MAVLINK_BRIDGE_APP_Data_t that this module keeps.
link == <<SerialFd, LinkState, silence, wait>>
lock == <<TargetSystemId, TargetComponentId, IsArmed>>
history == <<sent, since, damaged, events>>
vars == <<wire, parser, link, LastErrorCode, lock, tlm, quiet, good, history>>

UpTo(limit, n) == IF n > limit THEN limit ELSE n

\* One tick less than the interval: the next turn may be the first after it.
Waited(ticks) == UpTo(RECONNECT_INTERVAL - 1, wait + ticks)

------------------------------------------------------------------------------
(* Frames *)

MAVLINK_STX_V1 == 254
MAVLINK_STX_V2 == 253
MAVLINK_MAX_PAYLOAD_LEN == 255

HEARTBEAT    == 0
SYS_TIME     == 2
GPS_RAW      == 24
ATTITUDE     == 30
LOCAL_NED    == 32
GLOBAL_INT   == 33
COMMAND_ACK  == 77
EKF_STATUS   == 193

\* The CRC_EXTRA byte that MAVLink adds to the checksum of each message.
CrcExtra ==
    [m \in {HEARTBEAT, SYS_TIME, GPS_RAW, ATTITUDE, LOCAL_NED, GLOBAL_INT,
            COMMAND_ACK, EKF_STATUS} |->
        CASE m = HEARTBEAT   -> 50
          [] m = SYS_TIME    -> 137
          [] m = GPS_RAW     -> 24
          [] m = ATTITUDE    -> 39
          [] m = LOCAL_NED   -> 185
          [] m = GLOBAL_INT  -> 104
          [] m = COMMAND_ACK -> 143
          [] m = EKF_STATUS  -> 71]
Known == DOMAIN CrcExtra

CrcAccumulate(byte, crc) == (crc * 31 + byte + 1) % 65536

Crc(bytes) ==
    LET crc[i \in 0..Len(bytes)] ==
          IF i = 0 THEN 65535 ELSE CrcAccumulate(bytes[i], crc[i - 1])
    IN  crc[Len(bytes)]

\* The checksum of the frame in the parser: the flags of a v2 frame are taken
\* to be zero, whatever was received.
ComputeFrameCrc(p, extra) ==
    Crc(<<p.PayloadLen>> \o (IF p.IsV2 THEN <<0, 0>> ELSE << >>)
        \o <<p.Seq, p.SysId, p.CompId, p.MsgId % 256>>
        \o (IF p.IsV2 THEN <<(p.MsgId \div 256) % 256, p.MsgId \div 65536>>
                      ELSE << >>)
        \o p.Payload \o <<extra>>)

\* A message as its sender sees it.  Payloads, scaled down:
\*   heartbeat    autopilot type, base mode, protocol version
\*   others       two fields: time or variance, then the value; GPS: fix,
\*                satellites; SYS_TIME: clock, uptime; ACK: command, result
Message == [v2 : BOOLEAN, sys : 1..255, msg : 0..255,
            payload : {p \in Seq(0..255) : Len(p) =< MAVLINK_MAX_PAYLOAD_LEN}]

ASSUME TrafficAssumption == Traffic \subseteq Seq(Message)

\* A v2 sender cuts trailing zero bytes, but not the first one.
Trim(payload) ==
    LET keep == {n \in 0..Len(payload) :
                   n =< 1 \/ \E i \in n..Len(payload) : payload[i] # 0}
    IN  SubSeq(payload, 1, CHOOSE n \in keep : \A k \in keep : k =< n)

\* The bytes a sender puts on the line (component 1, its frame number 7).
Bytes(m) ==
    LET payload == IF m.v2 THEN Trim(m.payload) ELSE m.payload
        tail    == IF m.v2 THEN <<0, 0, 7, m.sys, 1, m.msg, 0, 0>> \o payload
                           ELSE <<7, m.sys, 1, m.msg>> \o payload
        body    == <<Len(payload)>> \o tail
        extra   == IF m.msg \in Known THEN CrcExtra[m.msg] ELSE 0
        crc     == Crc(body \o <<extra>>)
    IN  <<IF m.v2 THEN MAVLINK_STX_V2 ELSE MAVLINK_STX_V1>> \o body
        \o <<crc % 256, crc \div 256>>

------------------------------------------------------------------------------
(* The parser *)

ResetParser ==
    [State |-> "WAIT_STX", IsV2 |-> FALSE, PayloadLen |-> 0, Seq |-> 0,
     SysId |-> 0, CompId |-> 0, MsgId |-> 0, CrcLow |-> 0, Payload |-> << >>]

\* Mutant: the end of the header always expects a payload.
AfterHeaderPayload(p) == [p EXCEPT !.State = "READING_PAYLOAD"]

AfterHeader(p) ==
    [p EXCEPT !.State = IF p.PayloadLen = 0 THEN "GOT_CRC1" ELSE "READING_PAYLOAD"]

\* The parser after a byte that does not complete a frame.
ParseByte(p, byte) ==
    CASE p.State = "WAIT_STX" ->
           IF byte \in {MAVLINK_STX_V1, MAVLINK_STX_V2}
             THEN [ResetParser EXCEPT !.State = "GOT_LENGTH",
                                      !.IsV2 = (byte = MAVLINK_STX_V2)]
             ELSE p
      [] p.State = "GOT_LENGTH" ->
           [p EXCEPT !.PayloadLen = byte,
                     !.State = IF p.IsV2 THEN "GOT_INCOMPAT" ELSE "GOT_SEQ"]
      [] p.State = "GOT_INCOMPAT" -> [p EXCEPT !.State = "GOT_COMPAT"]
      [] p.State = "GOT_COMPAT"   -> [p EXCEPT !.State = "GOT_SEQ"]
      [] p.State = "GOT_SEQ"   -> [p EXCEPT !.Seq = byte, !.State = "GOT_SYSID"]
      [] p.State = "GOT_SYSID" -> [p EXCEPT !.SysId = byte, !.State = "GOT_COMPID"]
      [] p.State = "GOT_COMPID" ->
           [p EXCEPT !.CompId = byte, !.State = "GOT_MSGID1"]
      [] p.State = "GOT_MSGID1" ->
           IF p.IsV2 THEN [p EXCEPT !.MsgId = byte, !.State = "GOT_MSGID2"]
                     ELSE AfterHeader([p EXCEPT !.MsgId = byte])
      [] p.State = "GOT_MSGID2" ->
           [p EXCEPT !.MsgId = @ + 256 * byte, !.State = "GOT_MSGID3"]
      [] p.State = "GOT_MSGID3" -> AfterHeader([p EXCEPT !.MsgId = @ + 65536 * byte])
      [] p.State = "READING_PAYLOAD" ->
           [p EXCEPT !.Payload = Append(@, byte),
                     !.State = IF Len(p.Payload) + 1 >= p.PayloadLen
                                 THEN "GOT_CRC1" ELSE "READING_PAYLOAD"]
      [] p.State = "GOT_CRC1" -> [p EXCEPT !.CrcLow = byte, !.State = "GOT_CRC2"]

------------------------------------------------------------------------------
(* The telemetry outputs *)

Outputs == {"Attitude", "EkfLocal", "GpsRaw", "EkfStatus", "SysTime"}

\* The fields that all FC state messages share, and the value of this one.
Output == [Valid : BOOLEAN, Stale : BOOLEAN, ErrorCode : STRING, value : 0..255]
NoOutput == [Valid |-> FALSE, Stale |-> FALSE, ErrorCode |-> "NONE", value |-> 0]

Fresh(v) == [Valid |-> TRUE, Stale |-> FALSE, ErrorCode |-> "NONE", value |-> v]
Unfit(code, v) ==
    [Valid |-> FALSE, Stale |-> FALSE, ErrorCode |-> code, value |-> v]

NaN == 200
HEARTBEAT_LEN == 3
PAYLOAD_LEN   == 2

\* The payload as the sender meant it: what v2 has cut is zero (BL-76).
ZeroExtended(payload) ==
    [i \in 1..PAYLOAD_LEN |-> IF i =< Len(payload) THEN payload[i] ELSE 0]

\* A frame whose content cannot be used.
RecordParseError == LastErrorCode' = "PARSE_FAIL"
RecordLengthError == LastErrorCode' = "INVALID_VALUE"
RecordNonFiniteError == LastErrorCode' = "INVALID_VALUE"

ValuesFinite(payload) == \A i \in 1..PAYLOAD_LEN : payload[i] # NaN

Put(output, content) == tlm' = [tlm EXCEPT ![output] = content]

\* Mutant: the code before BL-76, which took cut payloads for damaged ones.
PublishAttitudeUncut(p) ==
    IF Len(p.Payload) # PAYLOAD_LEN
      THEN RecordLengthError /\ UNCHANGED tlm
      ELSE /\ Put("Attitude", Fresh(p.Payload[2]))
           /\ LastErrorCode' = "NONE"

PublishAttitude(p) ==
    LET payload == ZeroExtended(p.Payload)
    IN  IF Len(p.Payload) > PAYLOAD_LEN
          THEN RecordLengthError /\ UNCHANGED tlm
        ELSE IF ~ValuesFinite(payload)
          THEN RecordNonFiniteError /\ UNCHANGED tlm
        ELSE /\ Put("Attitude", Fresh(payload[2]))
             /\ LastErrorCode' = "NONE"

PublishEkfLocal(p) ==
    LET payload == ZeroExtended(p.Payload)
    IN  IF Len(p.Payload) > PAYLOAD_LEN
          THEN RecordLengthError /\ UNCHANGED tlm
        ELSE IF ~ValuesFinite(payload)
          THEN RecordNonFiniteError /\ UNCHANGED tlm
        ELSE /\ Put("EkfLocal", Fresh(payload[2]))
             /\ LastErrorCode' = "NONE"

\* The same output as LOCAL_POSITION_NED, from integers.
PublishGlobalPositionAsLocal(p) ==
    IF Len(p.Payload) > PAYLOAD_LEN
      THEN RecordLengthError /\ UNCHANGED tlm
      ELSE /\ Put("EkfLocal", Fresh(ZeroExtended(p.Payload)[2]))
           /\ LastErrorCode' = "NONE"

\* Not zero-extended: a payload that was cut counts as too short.
PublishGpsRaw(p) ==
    IF Len(p.Payload) < PAYLOAD_LEN
      THEN RecordLengthError /\ UNCHANGED tlm
    ELSE IF p.Payload[1] >= 3
      THEN Put("GpsRaw", Fresh(p.Payload[1])) /\ LastErrorCode' = "NONE"
      ELSE /\ Put("GpsRaw", Unfit("GPS_NO_FIX", p.Payload[1]))
           /\ LastErrorCode' = "GPS_NO_FIX"

\* Not zero-extended either.
PublishEkfStatus(p) ==
    IF Len(p.Payload) < PAYLOAD_LEN
      THEN RecordLengthError /\ UNCHANGED tlm
    ELSE IF p.Payload[2] # 0
      THEN Put("EkfStatus", Fresh(p.Payload[2])) /\ LastErrorCode' = "NONE"
      ELSE /\ Put("EkfStatus", Unfit("EKF_UNHEALTHY", 0))
           /\ LastErrorCode' = "EKF_UNHEALTHY"

\* An FC without a clock sends zero, which is ignored.
HandleSysTime(p) ==
    LET clock == ZeroExtended(p.Payload)[1]
    IN  IF Len(p.Payload) > PAYLOAD_LEN
          THEN RecordLengthError /\ UNCHANGED tlm
          ELSE /\ LastErrorCode' = "NONE"
               /\ IF clock = 0 THEN UNCHANGED tlm ELSE Put("SysTime", Fresh(clock))

------------------------------------------------------------------------------
(* A complete frame *)

LongQuiet == STALE_TIMEOUT + RECONNECT_INTERVAL

\* Mutant: BL-77, heartbeats are believed without looking at the checksum.
GoodFrameUnlessHeartbeat(p, high) ==
    \/ p.MsgId = HEARTBEAT
    \/ ComputeFrameCrc(p, CrcExtra[p.MsgId]) = p.CrcLow + 256 * high

GoodFrame(p, high) == ComputeFrameCrc(p, CrcExtra[p.MsgId]) = p.CrcLow + 256 * high

\* ArduPilot and PX4; cameras and other peripherals say 8, "invalid".
FlightController(autopilot) == autopilot \in {3, 12}

UpdateFromHeartbeat(baseMode) == IsArmed' = (baseMode >= 128)

\* The first FC that is heard is the FC for the rest of this run.
HandleHeartbeat(p) ==
    /\ IF TargetSystemId = 0 /\ FlightController(p.Payload[1])
         THEN TargetSystemId' = p.SysId /\ TargetComponentId' = p.CompId
         ELSE UNCHANGED <<TargetSystemId, TargetComponentId>>
    /\ IF p.SysId = TargetSystemId'
         THEN LinkState' = "CONNECTED" /\ UpdateFromHeartbeat(p.Payload[2])
         ELSE UNCHANGED <<LinkState, IsArmed>>
    /\ LastErrorCode' = "NONE"
    /\ UNCHANGED tlm

\* Telemetry is taken from any sender.
HandleTelemetry(p) ==
    /\ LinkState' = "CONNECTED"
    /\ CASE p.MsgId = ATTITUDE   -> PublishAttitude(p)
         [] p.MsgId = LOCAL_NED  -> PublishEkfLocal(p)
         [] p.MsgId = GLOBAL_INT -> PublishGlobalPositionAsLocal(p)
         [] p.MsgId = GPS_RAW    -> PublishGpsRaw(p)
         [] p.MsgId = EKF_STATUS -> PublishEkfStatus(p)
         [] p.MsgId = SYS_TIME   -> HandleSysTime(p)
    /\ UNCHANGED lock

\* The answer to a stream request is only counted.
HandleCommandAck(p) ==
    /\ IF Len(p.Payload) >= PAYLOAD_LEN THEN LastErrorCode' = "NONE"
                                        ELSE RecordParseError
    /\ UNCHANGED <<LinkState, lock, tlm>>

\* A heartbeat that is too short is none, and other messages are ignored.
HandleFrameComplete(p, high) ==
    IF p.MsgId \notin Known \/ (p.MsgId = HEARTBEAT /\ Len(p.Payload) < HEARTBEAT_LEN)
      THEN LastErrorCode' = "NONE" /\ UNCHANGED <<LinkState, lock, tlm>>
    ELSE IF ~GoodFrame(p, high)
      THEN RecordParseError /\ UNCHANGED <<LinkState, lock, tlm>>
    ELSE IF p.MsgId = HEARTBEAT THEN HandleHeartbeat(p)
    ELSE IF p.MsgId = COMMAND_ACK THEN HandleCommandAck(p)
    ELSE HandleTelemetry(p)

ProcessReceivedByte(byte) ==
    IF parser.State = "GOT_CRC2"
      THEN HandleFrameComplete(parser, byte) /\ parser' = ResetParser
      ELSE /\ parser' = ParseByte(parser, byte)
           /\ LastErrorCode' = "NONE"
           /\ UNCHANGED <<LinkState, lock, tlm>>

------------------------------------------------------------------------------
(* ServiceSerial *)

Event == events < MaxEvents /\ events' = events + 1

\* The frame just completed has a good checksum.
Intact(byte) == parser.State = "GOT_CRC2" /\ parser.MsgId \in Known
                /\ GoodFrame(parser, byte)

\* A byte has come in, in this turn of the loop or in the next: whatever it
\* is, LastRxTimestampMs is now.
HandleReceivedBytes(elapsed) ==
    /\ SerialFd /\ wire # << >>
    /\ ProcessReceivedByte(Head(wire))
    /\ wire' = Tail(wire)
    /\ silence' = 0
    /\ quiet' = 0
    /\ good' = IF Intact(Head(wire)) THEN 0 ELSE UpTo(LongQuiet, good + elapsed)
    /\ wait' = Waited(elapsed)
    /\ UNCHANGED <<SerialFd, history>>

MarkOutputsStale ==
    tlm' = [o \in Outputs |-> IF o = "SysTime" THEN tlm[o]
                              ELSE [tlm[o] EXCEPT !.Stale = TRUE]]

\* Mutant: the outputs are left as they are.
GoStaleLinkOnly == LinkState' = "DEGRADED" /\ UNCHANGED tlm

GoStale == LinkState' = "DEGRADED" /\ MarkOutputsStale

\* A tick in which no byte is read.
QuietTick ==
    /\ quiet' = UpTo(LongQuiet, quiet + 1)
    /\ good' = UpTo(LongQuiet, good + 1)

\* A turn of the loop in which nothing arrives.
ServiceQuiet ==
    /\ SerialFd
    /\ silence' = UpTo(LongQuiet, silence + 1)
    /\ wait' = Waited(1)
    /\ QuietTick
    /\ IF silence' >= STALE_TIMEOUT
         THEN GoStale /\ LastErrorCode' = "READ_TIMEOUT"
         ELSE UNCHANGED <<LinkState, tlm, LastErrorCode>>
    /\ UNCHANGED <<wire, parser, SerialFd, lock, history>>

\* read() fails: the cable is pulled.
ServiceReadError ==
    /\ SerialFd /\ Event
    /\ SerialFd' = FALSE
    /\ LinkState' = "DISCONNECTED"
    /\ MarkOutputsStale
    /\ LastErrorCode' = "LINK_DOWN"
    /\ damaged' = TRUE
    /\ UNCHANGED <<wire, parser, silence, wait, lock, quiet, good, sent, since>>

\* OpenSerial: what came before is discarded, and the link counts as CONNECTED
\* with a LastRxTimestampMs of zero, long ago.
Opened ==
    /\ SerialFd' = TRUE
    /\ LinkState' = "CONNECTED"
    /\ silence' = LongQuiet
    /\ LastErrorCode' = "NONE"
    /\ parser' = ResetParser
    /\ wire' = << >>
    /\ since' = Len(sent)
    /\ damaged' = FALSE
    /\ quiet' = 0
    /\ good' = 0

NotOpened(state) ==
    /\ SerialFd' = FALSE
    /\ LinkState' = state
    /\ LastErrorCode' = "SERIAL_OPEN_FAIL"
    /\ UNCHANGED <<silence, parser, wire, since, damaged>>

\* A turn of the loop while the port is closed.
ServiceClosed(opens) ==
    /\ ~SerialFd
    /\ IF wait + 1 >= RECONNECT_INTERVAL
         THEN /\ wait' = 0
              /\ IF opens THEN Opened ELSE NotOpened("DISCONNECTED") /\ QuietTick
         ELSE /\ wait' = wait + 1
              /\ QuietTick
              /\ UNCHANGED <<SerialFd, LinkState, LastErrorCode, silence, parser,
                             wire, since, damaged>>
    /\ UNCHANGED <<lock, tlm, sent, events>>

------------------------------------------------------------------------------
(* Commands, restarts and the line *)

ProcessParserResetCmd ==
    /\ Event
    /\ parser' = ResetParser
    /\ damaged' = (damaged \/ parser.State # "WAIT_STX")
    /\ UNCHANGED <<wire, link, LastErrorCode, lock, tlm, quiet, good, sent, since>>

\* The state of the link is left alone when the port cannot be opened again.
ProcessSerialReconnectCmd(opens) ==
    /\ Event
    /\ IF opens THEN Opened ELSE NotOpened(LinkState) /\ UNCHANGED <<quiet, good>>
    /\ UNCHANGED <<wait, lock, tlm, sent>>

\* A restarted bridge has forgotten everything, the FC included.
Restart ==
    /\ Event
    /\ SerialFd' = FALSE
    /\ LinkState' = "DISCONNECTED"
    /\ silence' = LongQuiet
    /\ wait' = RECONNECT_INTERVAL - 1
    /\ LastErrorCode' = "NONE"
    /\ parser' = ResetParser
    /\ TargetSystemId' = 0 /\ TargetComponentId' = 0 /\ IsArmed' = FALSE
    /\ tlm' = [o \in Outputs |-> NoOutput]
    /\ UNCHANGED <<wire, quiet, good, sent, since, damaged>>

Send(script) ==
    /\ wire = << >>
    /\ Len(sent) < Len(script) /\ sent = SubSeq(script, 1, Len(sent))
    /\ wire' = Bytes(script[Len(sent) + 1])
    /\ sent' = Append(sent, script[Len(sent) + 1])
    /\ UNCHANGED <<parser, link, LastErrorCode, lock, tlm, quiet, good, since, damaged,
                   events>>

\* The next byte is lost or damaged, or there is one too many.
LineFault(bytes) ==
    /\ SerialFd /\ Event
    /\ wire' = bytes
    /\ damaged' = TRUE
    /\ UNCHANGED <<parser, link, LastErrorCode, lock, tlm, quiet, good, sent, since>>

LoseByte      == wire # << >> /\ LineFault(Tail(wire))
DamageByte(b) == wire # << >> /\ LineFault(<<b>> \o Tail(wire))
AddByte(b)    == LineFault(<<b>> \o wire)

------------------------------------------------------------------------------
(* Specification *)

Init ==
    /\ wire = << >>
    /\ parser = ResetParser
    /\ SerialFd = FALSE
    /\ LinkState = "DISCONNECTED"
    /\ silence = LongQuiet
    /\ wait = RECONNECT_INTERVAL - 1
    /\ LastErrorCode = "NONE"
    /\ TargetSystemId = 0 /\ TargetComponentId = 0
    /\ IsArmed = FALSE
    /\ tlm = [o \in Outputs |-> NoOutput]
    /\ sent = << >> /\ since = 0
    /\ damaged = FALSE
    /\ quiet = LongQuiet /\ good = LongQuiet
    /\ events = 0

Next ==
    \/ \E elapsed \in 0..MaxGap : HandleReceivedBytes(elapsed)
    \/ ServiceQuiet \/ ServiceReadError
    \/ \E opens \in BOOLEAN : ServiceClosed(opens) \/ ProcessSerialReconnectCmd(opens)
    \/ ProcessParserResetCmd \/ Restart
    \/ \E script \in Traffic : Send(script)
    \/ LoseByte
    \/ \E b \in NoiseBytes : DamageByte(b) \/ AddByte(b)

Spec == Init /\ [][Next]_vars

------------------------------------------------------------------------------
(* Properties *)

LinkStates == {"DISCONNECTED", "CONNECTED", "DEGRADED"}
ParseStates ==
    {"WAIT_STX", "GOT_LENGTH", "GOT_INCOMPAT", "GOT_COMPAT", "GOT_SEQ",
     "GOT_SYSID", "GOT_COMPID", "GOT_MSGID1", "GOT_MSGID2", "GOT_MSGID3",
     "READING_PAYLOAD", "GOT_CRC1", "GOT_CRC2"}

\* Type invariant.  The payload being read never outgrows its announced
\* length, nor the Payload array of the parser.
TypeOK ==
    /\ parser.State \in ParseStates
    /\ Len(parser.Payload) =< parser.PayloadLen
    /\ parser.PayloadLen =< MAVLINK_MAX_PAYLOAD_LEN
    /\ SerialFd \in BOOLEAN /\ IsArmed \in BOOLEAN /\ damaged \in BOOLEAN
    /\ LinkState \in LinkStates
    /\ silence \in 0..LongQuiet /\ quiet \in 0..LongQuiet /\ good \in 0..LongQuiet
    /\ wait \in 0..RECONNECT_INTERVAL - 1
    /\ TargetSystemId \in 0..255
    /\ DOMAIN tlm = Outputs

\* The messages that are meant for an output, and the value they give it.
Feeds(m, o) ==
    \/ o = "Attitude"  /\ m.msg = ATTITUDE
    \/ o = "EkfLocal"  /\ m.msg \in {LOCAL_NED, GLOBAL_INT}
    \/ o = "GpsRaw"    /\ m.msg = GPS_RAW
    \/ o = "EkfStatus" /\ m.msg = EKF_STATUS
    \/ o = "SysTime"   /\ m.msg = SYS_TIME
Value(m) == IF m.msg \in {GPS_RAW, SYS_TIME} THEN m.payload[1] ELSE m.payload[2]

\* A heartbeat of full length, and whether it says that the vehicle is armed.
Heartbeat(m) == m.msg = HEARTBEAT /\ Len(m.payload) = HEARTBEAT_LEN
Armed(m) == Heartbeat(m) /\ m.payload[2] >= 128

\* Whatever the line loses, damages or adds: the system that the bridge takes
\* for the FC has sent an FC's heartbeat, the vehicle counts as armed only if
\* that system has said so, and a valid output shows a value that was sent
\* (HandleFrameComplete, BL-77).
NothingInvented ==
    LET Sent == {sent[i] : i \in 1..Len(sent)}
    IN  /\ TargetSystemId # 0 =>
             \E m \in Sent : /\ m.msg = HEARTBEAT /\ m.sys = TargetSystemId
                             /\ FlightController(m.payload[1])
        /\ IsArmed => \E m \in Sent : Armed(m) /\ m.sys = TargetSystemId
        /\ \A o \in Outputs : tlm[o].Valid =>
             \E m \in Sent : Feeds(m, o) /\ Value(m) = tlm[o].value

\* What the checksum lets pass was sent: a frame that counts has the system, the
\* message id and the payload of a frame on the line, whichever byte of it or
\* before it was at fault and wherever the parser began to read (ComputeFrameCrc
\* covers all that HandleFrameComplete looks at, BL-77).
OnlySentPasses ==
    SerialFd /\ wire # << >> /\ Intact(Head(wire)) =>
        \E i \in 1..Len(sent) :
            /\ parser.MsgId = sent[i].msg /\ parser.SysId = sent[i].sys
            /\ parser.Payload = IF sent[i].v2 THEN Trim(sent[i].payload)
                                             ELSE sent[i].payload

\* A message that HandleFrameComplete can use; those of GPS and EKF only when
\* the sender has not cut them.
Usable(m) ==
    /\ Len(m.payload) = PAYLOAD_LEN
    /\ m.msg \in {ATTITUDE, LOCAL_NED} => \A i \in DOMAIN m.payload : m.payload[i] # NaN
    /\ m.msg = SYS_TIME => m.payload[1] # 0
    /\ m.msg \in {GPS_RAW, EKF_STATUS} /\ m.v2 => m.payload[2] # 0

\* Messages as MAVLink defines them: of their full length, and what is longer than
\* two fields here ends in a byte that v2 does not cut.  Heartbeats may be too
\* short, and so may the GPS and EKF messages, which are not zero-extended.
Regular(m) ==
    /\ m.msg = HEARTBEAT => Len(m.payload) =< HEARTBEAT_LEN
    /\ m.msg \in {GPS_RAW, EKF_STATUS} => Len(m.payload) =< PAYLOAD_LEN
    /\ m.msg \in {ATTITUDE, LOCAL_NED, GLOBAL_INT, SYS_TIME} => Len(m.payload) >= PAYLOAD_LEN
    /\ m.msg \in Known /\ Len(m.payload) > PAYLOAD_LEN => m.payload[Len(m.payload)] # 0
RegularTraffic == \A script \in Traffic : \A i \in 1..Len(script) : Regular(script[i])

\* The last of the messages since the port was opened that satisfy P.
LastOf(P(_)) ==
    LET is == {i \in since + 1..Len(sent) : P(sent[i])}
    IN  IF is = {} THEN {} ELSE {sent[CHOOSE i \in is : \A j \in is : j =< i]}

\* On an undamaged line every frame is understood, v1 and v2, full or cut:
\* once all bytes are read, each output shows the last usable message for it
\* and the armed flag is the FC's last one (ProcessReceivedByte, BL-76).
LastFrameShown ==
    SerialFd /\ ~damaged /\ wire = << >> =>
        /\ parser = ResetParser
        /\ \A o \in Outputs :
             \A m \in LastOf(LAMBDA n : Feeds(n, o) /\ Usable(n)) :
                 tlm[o].value = Value(m)
        /\ \A m \in LastOf(LAMBDA n : Heartbeat(n) /\ n.sys = TargetSystemId) :
             IsArmed = Armed(m)

\* A silent line is noticed, whichever way the port was opened, closed or lost
\* meanwhile; while the port is open its outputs are stale as well
\* (ServiceSerial, MarkOutputsStale).
SilenceIsNoticed ==
    /\ quiet >= LongQuiet => LinkState # "CONNECTED"
    /\ SerialFd /\ quiet >= STALE_TIMEOUT =>
         /\ LinkState # "CONNECTED"
         /\ \A o \in Outputs \ {"SysTime"} : tlm[o].Stale

\* HandleReceivedBytes, BL-84: bytes that are no frames do not keep the link
\* from being found DEGRADED.
GarbageIsNoticed ==
    SerialFd /\ good >= LongQuiet => LinkState # "CONNECTED"
=============================================================================
