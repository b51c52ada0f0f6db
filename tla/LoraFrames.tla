----------------------------- MODULE LoraFrames ------------------------------
(****************************************************************************)
(* lora_tdm_app: the bytes of the radio link, in both directions.           *)
(*                                                                          *)
(* In every cycle the app sends one frame made from its caches and then     *)
(* reads bytes until the window is over.  A first byte tells which kind of  *)
(* frame begins: ACK2 and UP2 are binary and of known length, everything    *)
(* else is a line of text.  A command that arrives intact is forwarded to   *)
(* uplink_app.  The buffer outlives the window, so that a frame may take    *)
(* several; the radio may lose, damage or add bytes.                        *)
(*                                                                          *)
(* The checksum is a simpler one over the same bytes; a text field is one   *)
(* character, payloads are hexadecimal digits as in the code.  Times, the   *)
(* state of the link, verdicts and route pages are the subject of LoraTdm.  *)
(****************************************************************************)
EXTENDS Integers, Sequences

CONSTANTS
    LINE_BUF_LEN,    \* size of RxLineBuf
    MAX_PAYLOAD,     \* UPLINK_FWD_CMD_MAX_PAYLOAD_LENGTH
    U16, U32,        \* number of values of a uint16 and of a uint32
    I16_MAX,         \* the largest int16
    Traffic,         \* the sequences of command frames the ground may send
    Positions,       \* positions the FC may report, in the units of the frame
    NoiseBytes,      \* what damaged and added bytes may be
    MaxEvents        \* bound: faults, commands to the app and FC messages

ASSUME BufferAssumption ==
    /\ LINE_BUF_LEN \in Nat /\ MAX_PAYLOAD \in Nat
    /\ 7 + MAX_PAYLOAD + 2 =< LINE_BUF_LEN - 1
    /\ 5 =< LINE_BUF_LEN - 1
ASSUME NumbersAssumption ==
    U16 \in Nat \ {0} /\ U32 \in Nat \ {0} /\ U32 % U16 = 0 /\ I16_MAX \in Nat
ASSUME InputsAssumption ==
    Positions \subseteq Int /\ NoiseBytes \subseteq 0..255 /\ MaxEvents \in Nat

VARIABLES
    wire,                   \* bytes sent by the ground and not yet read
    LoRaFd,                 \* is the port open
    window,                 \* RunRxWindow is running
    rx,                     \* RxLineBuf, RxFrameMode and RxFrameTargetLen
    forwarded,              \* commands handed to uplink_app
    PendingUplinkFeedback,  \* as far as set here: "OK" or "CRC_FAIL"
    DownlinkSeq, LastSentSeq,
    AckReceivedThisCycle,
    UseV2Downlink,
    cache,                  \* FcState and SystemHealth
    down,                   \* the frame sent last
    sent,                   \* history: the command frames sent, in order
    toAck,                  \* history: the frame sent last is not acknowledged
    late,                   \* history: a frame was sent before an ACK was read
    seqFail,                \* history: SeqFailCount is not zero
    damaged,                \* history: there was a fault
    events                  \* history: faults, commands and FC messages

\* The part of LORA_TDM_APP_Data_t that this module keeps.
receiver == <<LoRaFd, window, rx, AckReceivedThisCycle>>
sender   == <<DownlinkSeq, LastSentSeq, UseV2Downlink, cache, down>>
uplink   == <<forwarded, PendingUplinkFeedback>>
vars == <<wire, receiver, sender, uplink, sent, toAck, late, seqFail, damaged, events>>

------------------------------------------------------------------------------
(* Frames *)

ACK2_MAGIC == 162
UP2_MAGIC  == 178
NewLine    == 10
LetterA    == 65
LetterU    == 85

Crc16(bytes) ==
    LET crc[i \in 0..Len(bytes)] ==
          IF i = 0 THEN 65535 ELSE (crc[i - 1] * 31 + bytes[i] + 1) % 65536
    IN  crc[Len(bytes)]

GetU16LE(bytes, i) == bytes[i] + 256 * bytes[i + 1]
PutU16LE(v) == <<v % 256, v \div 256>>

\* Digits are the characters from 48 on.
Digit(v) == 48 + v
HexNibble(c) == IF c \in 48..63 THEN c - 48 ELSE -1
Hex(bytes) ==
    [i \in 1..2 * Len(bytes) |-> LET byte == bytes[(i + 1) \div 2]
                                 IN  Digit(IF i % 2 = 1 THEN byte \div 16 ELSE byte % 16)]
HexCrc(v) == <<Digit(v \div 4096), Digit((v \div 256) % 16),
               Digit((v \div 16) % 16), Digit(v % 16)>>

\* A command as its sender sees it; v2 tells which of the two formats is used.
Command == [v2 : BOOLEAN, version : 0..9, class : 0..9, seq : 0..9, flags : 0..9,
            payload : Seq(0..255)]

ASSUME TrafficAssumption == Traffic \subseteq Seq(Command)

\* Version, CommandClass, PayloadLength, Flags, Sequence, Payload: what the
\* checksum in the forwarded command covers, and uplink_app recomputes.
ProxyCrc(c) ==
    Crc16(<<c.version, c.class, Len(c.payload), c.flags>> \o PutU16LE(c.seq) \o c.payload)

\* The frames of the ground.
Up2(c) ==
    LET body == <<UP2_MAGIC, Len(c.payload), c.version, c.class>> \o PutU16LE(c.seq)
                \o <<c.flags>> \o c.payload
    IN  body \o PutU16LE(Crc16(body))
Up(c) ==
    LET body == <<LetterU, Digit(c.version), Digit(c.class), Digit(c.seq), Digit(c.flags)>>
                \o Hex(c.payload)
    IN  body \o HexCrc(Crc16(body)) \o <<NewLine>>
Bytes(c) == IF c.v2 THEN Up2(c) ELSE Up(c)

Ack2(seq) ==
    LET body == <<ACK2_MAGIC>> \o PutU16LE(seq % U16) IN body \o PutU16LE(Crc16(body))
Ack(seq) == <<LetterA, Digit(seq), NewLine>>

------------------------------------------------------------------------------
(* The caches and the frames made from them *)

NoCache == [pos |-> 0, health |-> 0, TimeValid |-> FALSE]

\* Mutant: positions below the range are cut off without a word.
ScaleMeterQuiet(pos) ==
    [value |-> IF pos > I16_MAX THEN I16_MAX ELSE IF pos < -I16_MAX - 1 THEN -I16_MAX - 1
               ELSE pos,
     saturated |-> pos > I16_MAX]

\* ScaleMeterToI16Cm.
ScaleMeter(pos) ==
    [value |-> IF pos > I16_MAX THEN I16_MAX ELSE IF pos < -I16_MAX - 1 THEN -I16_MAX - 1
               ELSE pos,
     saturated |-> pos > I16_MAX \/ pos < -I16_MAX - 1]

BuildDl2Frame ==
    [type |-> "DL2", seq |-> DownlinkSeq % U16, ufb |-> PendingUplinkFeedback,
     pos |-> ScaleMeter(cache.pos).value, saturated |-> ScaleMeter(cache.pos).saturated,
     health |-> cache.health, systime |-> cache.TimeValid]

\* In text the position is not limited.
BuildFcDownlinkLine ==
    [type |-> "FC", seq |-> DownlinkSeq, ufb |-> PendingUplinkFeedback, pos |-> cache.pos,
     saturated |-> FALSE]
BuildShDownlinkLine ==
    [type |-> "SH", seq |-> DownlinkSeq, ufb |-> PendingUplinkFeedback,
     health |-> cache.health]

Frame == IF UseV2Downlink THEN BuildDl2Frame
         ELSE IF DownlinkSeq % 2 = 0 THEN BuildFcDownlinkLine ELSE BuildShDownlinkLine

NoFrame == [type |-> "none"]

Event == events < MaxEvents /\ events' = events + 1

\* LORA_TDM_APP_UpdateCacheFromMsg.
UpdateCache(c) ==
    /\ Event /\ ~window
    /\ cache' = c
    /\ UNCHANGED <<wire, receiver, DownlinkSeq, LastSentSeq, UseV2Downlink, down, uplink,
                   sent, toAck, late, seqFail, damaged>>

FcPosition(pos)  == UpdateCache([cache EXCEPT !.pos = pos])
SystemHealth(s)  == UpdateCache([cache EXCEPT !.health = s])

\* ProcessCommandPacket does not know FC_SYS_TIME_MID: only an error is
\* counted, and TimeValid is never set.
FcSysTime == UpdateCache(cache)

SetDownlinkProtocol(v2) ==
    /\ Event /\ ~window
    /\ UseV2Downlink' = v2
    /\ UNCHANGED <<wire, receiver, DownlinkSeq, LastSentSeq, cache, down, uplink, sent,
                   toAck, late, seqFail, damaged>>

------------------------------------------------------------------------------
(* The cycle *)

RxStart == [buf |-> << >>, mode |-> "NONE", target |-> 0]

\* Mutant: every window starts with an empty buffer.
KeptEmpty == RxStart

\* The buffer is not a local variable of RunRxWindow.
Kept == rx

\* Mutant: BL-80, the uint32 is compared.
EchoesWide(seq) == seq = LastSentSeq

\* Does an ACK2 echo the last frame?
Echoes(seq) == seq = LastSentSeq % U16

AckPending == wire # << >> \/ rx.buf # << >>

\* RunTx, and the beginning of RunRxWindow.
RunTx(written) ==
    /\ LoRaFd /\ ~window
    /\ window' = TRUE
    /\ AckReceivedThisCycle' = FALSE
    /\ rx' = Kept
    /\ IF written
         THEN /\ down' = Frame
              /\ LastSentSeq' = DownlinkSeq
              /\ DownlinkSeq' = (DownlinkSeq + 1) % U32
              /\ toAck' = TRUE
              /\ late' = (late \/ AckPending)
              /\ UNCHANGED <<LoRaFd, wire, damaged, events>>
         ELSE /\ Event
              /\ LoRaFd' = FALSE
              /\ wire' = << >>
              /\ damaged' = TRUE
              /\ UNCHANGED <<DownlinkSeq, LastSentSeq, down, toAck, late>>
    /\ UNCHANGED <<UseV2Downlink, cache, uplink, sent, seqFail>>

\* The window is over, or the port was closed in it.
EndWindow ==
    /\ window
    /\ window' = FALSE
    /\ UNCHANGED <<wire, LoRaFd, rx, AckReceivedThisCycle, sender, uplink, sent, toAck, late,
                   seqFail, damaged, events>>

\* RunCycle, later: the port is opened again.  Nothing is flushed, and the
\* buffer keeps what it holds.
Reopen ==
    /\ ~LoRaFd /\ ~window
    /\ LoRaFd' = TRUE
    /\ UNCHANGED <<wire, window, rx, AckReceivedThisCycle, sender, uplink, sent, toAck, late,
                   seqFail, damaged, events>>

------------------------------------------------------------------------------
(* Received frames *)

\* Mutant: the checksum of a UP2 frame is not looked at.
ParseUp2FrameUnchecked(buf) == Len(buf) >= 8 /\ buf[1] = UP2_MAGIC

\* Is the UP2 frame intact?
ParseUp2Frame(buf) ==
    /\ Len(buf) >= 8 /\ buf[1] = UP2_MAGIC
    /\ Len(buf) >= 7 + buf[2] + 2 /\ buf[2] =< MAX_PAYLOAD
    /\ Crc16(SubSeq(buf, 1, 7 + buf[2])) = GetU16LE(buf, 7 + buf[2] + 1)

Up2Decoded(buf) ==
    [version |-> buf[3], class |-> buf[4], seq |-> GetU16LE(buf, 5), flags |-> buf[7],
     payload |-> SubSeq(buf, 8, 7 + buf[2])]

\* The text between the letter and the checksum.
Digits(line) == SubSeq(line, 6, Len(line) - 5)

\* Is the line a command?  The fields are there, the checksum is right, and
\* the payload is made of pairs of digits and not too long.
ParseUpFrame(line) ==
    /\ Len(line) >= 10
    /\ HexCrc(Crc16(SubSeq(line, 1, Len(line) - 5)))
         = SubSeq(line, Len(line) - 4, Len(line) - 1)
    /\ Len(Digits(line)) % 2 = 0 /\ Len(Digits(line)) \div 2 =< MAX_PAYLOAD
    /\ \A i \in 1..Len(Digits(line)) : HexNibble(Digits(line)[i]) >= 0

UpDecoded(line) ==
    [version |-> line[2] - 48, class |-> line[3] - 48, seq |-> line[4] - 48,
     flags |-> line[5] - 48,
     payload |-> [i \in 1..Len(Digits(line)) \div 2 |->
                    16 * HexNibble(Digits(line)[2 * i - 1]) + HexNibble(Digits(line)[2 * i])]]

\* The command is sent to uplink_app with a checksum of its own.
Forward(c) ==
    /\ forwarded' = Append(forwarded, [cmd |-> c, checksum |-> ProxyCrc(c)])
    /\ PendingUplinkFeedback' = "OK"

Refuse == PendingUplinkFeedback' = "CRC_FAIL" /\ UNCHANGED forwarded

ProcessAck(intact, echoes) ==
    /\ IF intact
         THEN /\ AckReceivedThisCycle' = TRUE
              /\ seqFail' = (seqFail \/ ~echoes)
         ELSE UNCHANGED <<AckReceivedThisCycle, seqFail>>
    /\ UNCHANGED uplink

NoAck == UNCHANGED <<AckReceivedThisCycle, seqFail>>

ProcessRxLine(line) ==
    CASE line[1] = LetterA ->
           LET intact == Len(line) = 3 /\ line[2] \in 48..57
           IN  ProcessAck(intact, intact /\ line[2] - 48 = LastSentSeq)
      [] line[1] = LetterU ->
           NoAck /\ IF ParseUpFrame(line) THEN Forward(UpDecoded(line)) ELSE Refuse
      [] OTHER -> NoAck /\ UNCHANGED uplink

ParseAck2Frame(buf) == Crc16(SubSeq(buf, 1, 3)) = GetU16LE(buf, 4)

ProcessRxBinaryFrame(buf) ==
    IF buf[1] = ACK2_MAGIC
      THEN ProcessAck(ParseAck2Frame(buf), Echoes(GetU16LE(buf, 2)))
      ELSE NoAck /\ IF ParseUp2Frame(buf) THEN Forward(Up2Decoded(buf)) ELSE Refuse

------------------------------------------------------------------------------
(* One byte *)

\* The mode that a first byte selects.
FirstByte(byte) ==
    CASE byte = ACK2_MAGIC -> [buf |-> <<byte>>, mode |-> "ACK2", target |-> 5]
      [] byte = UP2_MAGIC  -> [buf |-> <<byte>>, mode |-> "UP2_HDR", target |-> 0]
      [] OTHER             -> [buf |-> <<byte>>, mode |-> "TEXT", target |-> 0]

Stored(byte) ==
    IF rx.buf = << >> THEN FirstByte(byte) ELSE [rx EXCEPT !.buf = Append(@, byte)]

\* Mutant: BL-86, any length is believed.
TooLongNever(plen) == FALSE

TooLong(plen) == plen > MAX_PAYLOAD

\* The second byte of a UP2 frame, its length.
Header(r) ==
    IF Len(r.buf) # 2 THEN r
    ELSE IF TooLong(r.buf[2]) THEN RxStart
    ELSE [r EXCEPT !.mode = "UP2_BODY", !.target = 7 + r.buf[2] + 2]

LineEnded(r)  == r.mode = "TEXT" /\ r.buf[Len(r.buf)] = NewLine
FrameEnded(r) == r.mode \in {"ACK2", "UP2_BODY"} /\ Len(r.buf) >= r.target

\* Mutant: the byte that did not fit is the first one of the next frame.
OverflowKeepsByte(byte) == FirstByte(byte)

\* A full buffer is given up, with the byte that did not fit.
Overflow(byte) == RxStart

Nothing == NoAck /\ UNCHANGED uplink

ReadByte ==
    /\ window /\ LoRaFd /\ wire # << >>
    /\ wire' = Tail(wire)
    /\ IF Len(rx.buf) >= LINE_BUF_LEN - 1
         THEN rx' = Overflow(Head(wire)) /\ Nothing
         ELSE LET r == Stored(Head(wire))
              IN  CASE LineEnded(r)  -> rx' = RxStart /\ ProcessRxLine(r.buf)
                    [] FrameEnded(r) -> rx' = RxStart /\ ProcessRxBinaryFrame(r.buf)
                    [] OTHER -> /\ rx' = IF r.mode = "UP2_HDR" THEN Header(r) ELSE r
                                /\ Nothing
    /\ UNCHANGED <<LoRaFd, window, sender, sent, toAck, late, damaged, events>>

\* read() fails: the radio was unplugged.
ReadError ==
    /\ window /\ LoRaFd /\ Event
    /\ LoRaFd' = FALSE
    /\ wire' = << >>
    /\ damaged' = TRUE
    /\ UNCHANGED <<window, rx, AckReceivedThisCycle, sender, uplink, sent, toAck, late,
                   seqFail>>

------------------------------------------------------------------------------
(* The ground and the air *)

\* Every frame is acknowledged in its own format.
GroundAck ==
    /\ toAck /\ wire = << >> /\ LoRaFd
    /\ wire' = IF down.type = "DL2" THEN Ack2(down.seq) ELSE Ack(down.seq)
    /\ toAck' = FALSE
    /\ UNCHANGED <<receiver, sender, uplink, sent, late, seqFail, damaged, events>>

GroundSend(script) ==
    /\ wire = << >> /\ LoRaFd
    /\ Len(sent) < Len(script) /\ sent = SubSeq(script, 1, Len(sent))
    /\ wire' = Bytes(script[Len(sent) + 1])
    /\ sent' = Append(sent, script[Len(sent) + 1])
    /\ UNCHANGED <<receiver, sender, uplink, toAck, late, seqFail, damaged, events>>

AirFault(bytes) ==
    /\ Event /\ LoRaFd
    /\ wire' = bytes
    /\ damaged' = TRUE
    /\ UNCHANGED <<receiver, sender, uplink, sent, toAck, late, seqFail>>

LoseByte      == wire # << >> /\ AirFault(Tail(wire))
DamageByte(b) == wire # << >> /\ AirFault(<<b>> \o Tail(wire))
AddByte(b)    == AirFault(<<b>> \o wire)

------------------------------------------------------------------------------
(* Specification *)

Init ==
    /\ wire = << >>
    /\ LoRaFd = FALSE /\ window = FALSE
    /\ rx = RxStart
    /\ forwarded = << >> /\ PendingUplinkFeedback = "OK"
    /\ DownlinkSeq = 0 /\ LastSentSeq = 0
    /\ AckReceivedThisCycle = FALSE
    /\ UseV2Downlink \in BOOLEAN
    /\ cache = NoCache
    /\ down = NoFrame
    /\ sent = << >> /\ toAck = FALSE /\ late = FALSE /\ seqFail = FALSE
    /\ damaged = FALSE
    /\ events = 0

Cycle == RunTx(TRUE) \/ EndWindow \/ Reopen

Next ==
    \/ Cycle \/ RunTx(FALSE)
    \/ ReadByte \/ ReadError
    \/ \E pos \in Positions : FcPosition(pos)
    \/ SystemHealth(1) \/ FcSysTime
    \/ \E v2 \in BOOLEAN : SetDownlinkProtocol(v2)
    \/ GroundAck
    \/ \E script \in Traffic : GroundSend(script)
    \/ LoseByte
    \/ \E b \in NoiseBytes : DamageByte(b) \/ AddByte(b)

\* The cycle never stops.  A window may end before a byte that has come is
\* read, but windows are polled to their end and not every one can be
\* missed.  The ground acknowledges what it receives.
Fairness == WF_vars(Cycle) /\ SF_vars(ReadByte) /\ SF_vars(GroundAck)

Spec == Init /\ [][Next]_vars /\ Fairness

------------------------------------------------------------------------------
(* Properties *)

Modes == {"NONE", "TEXT", "ACK2", "UP2_HDR", "UP2_BODY"}

\* Type invariant.  RxLineBuf is never written past its end, and the length
\* that is waited for always fits in it (RunRxWindow, BL-86).
TypeOK ==
    /\ Len(rx.buf) =< LINE_BUF_LEN - 1
    /\ rx.mode \in Modes
    /\ rx.mode = "NONE" <=> rx.buf = << >>
    /\ rx.mode \in {"ACK2", "UP2_BODY"} => Len(rx.buf) < rx.target /\ rx.target < LINE_BUF_LEN
    /\ DownlinkSeq \in 0..U32 - 1 /\ LastSentSeq \in 0..U32 - 1
    /\ PendingUplinkFeedback \in {"OK", "CRC_FAIL"}
    /\ events \in 0..MaxEvents

\* What the receiver is to make of a command.
Content(c) == [version |-> c.version, class |-> c.class, seq |-> c.seq, flags |-> c.flags,
               payload |-> c.payload]

\* f tells which command was forwarded when: each one once, in the order they
\* were sent, with the checksum that uplink_app computes.
InOrder(f) ==
    /\ \A i, j \in 1..Len(forwarded) : i < j => f[i] < f[j]
    /\ \A i \in 1..Len(forwarded) :
         /\ forwarded[i].cmd = Content(sent[f[i]])
         /\ forwarded[i].checksum = ProxyCrc(sent[f[i]])

\* Whatever the radio does to the bytes: the commands handed to uplink_app were
\* sent, in this order and each once, and their checksum is the one that
\* uplink_app computes (ForwardUp2ToUplinkApp, ProcessUpFrame).
ForwardedWereSent == \E f \in [1..Len(forwarded) -> 1..Len(sent)] : InOrder(f)

\* A command in a format the buffer can hold.
Fits(c) == Len(Bytes(c)) =< LINE_BUF_LEN - 1

\* No command is longer than uplink_app takes.
RegularTraffic ==
    \A script \in Traffic : \A i \in 1..Len(script) : Len(script[i].payload) =< MAX_PAYLOAD

\* Of the first k commands, those that fit in the buffer were forwarded.
Delivered(k) ==
    \E f \in [1..Len(forwarded) -> 1..k] :
        /\ InOrder(f)
        /\ \A n \in 1..k : Fits(sent[n]) <=> \E i \in 1..Len(forwarded) : f[i] = n

\* Without faults, once all bytes are read, every command that fits in the
\* buffer was forwarded, however many windows it took, and none was called
\* damaged (RxLineBuf outlives RunRxWindow).
CleanLineDelivers ==
    ~damaged /\ wire = << >> =>
        /\ rx = RxStart
        /\ PendingUplinkFeedback = "OK"
        /\ Delivered(Len(sent))

\* SEQ_FAIL is only reported when an acknowledgement did come late or through
\* a fault, also when the sequence number has wrapped (BL-80).
SeqFailIsReal == seqFail => late \/ damaged

\* The position the ground decodes is the FC's, or the frame says that it is
\* not (ScaleMeterToI16Cm); measured when the frame is made.
PositionIsHonest ==
    [][down' # down /\ down'.type # "SH" => down'.pos = cache.pos \/ down'.saturated]_vars

\* Noise does not keep the app deaf: while the ground goes on acknowledging,
\* acknowledgements are received again and again (RunRxWindow's overflow
\* resynchronisation).
NoiseIsOvercome == []<>AckReceivedThisCycle
=============================================================================
