-------------------------- MODULE BridgeLinkProofs ---------------------------
(****************************************************************************)
(* Proofs about the serial line of mavlink_bridge_app, whatever is sent,    *)
(* lost or damaged, however often the port is lost and opened again and for *)
(* all timeouts.                                                            *)
(****************************************************************************)
EXTENDS BridgeLink, NaturalsInduction, WellFoundedInduction, SequenceTheorems, TLAPS

------------------------------------------------------------------------------
(* Silence *)

\* The code keeps one time of the last byte, which counts as long ago when the
\* port is opened; the link may stay CONNECTED with a closed port, until the
\* bridge tries to open it.
SilenceInv ==
    /\ silence \in 0..LongQuiet /\ quiet \in 0..LongQuiet
    /\ wait \in 0..(RECONNECT_INTERVAL - 1) /\ SerialFd \in BOOLEAN
    /\ SerialFd => quiet =< silence
    /\ ~SerialFd /\ LinkState = "CONNECTED" => quiet < STALE_TIMEOUT + wait
    /\ SerialFd /\ quiet >= STALE_TIMEOUT =>
         /\ LinkState # "CONNECTED"
         /\ \A o \in Outputs \ {"SysTime"} : tlm[o].Stale

\* The outputs are records in which Stale can be set, with a value.
HasFields(content) == {"Stale", "Valid", "value"} \subseteq DOMAIN content
OutputsExist == DOMAIN tlm = Outputs /\ \A o \in Outputs : HasFields(tlm[o])

LEMMA Times ==
    /\ STALE_TIMEOUT \in Nat \ {0} /\ RECONNECT_INTERVAL \in Nat \ {0}
    /\ LongQuiet \in Nat /\ LongQuiet = STALE_TIMEOUT + RECONNECT_INTERVAL
  BY TimesAssumption DEF LongQuiet

LEMMA Contents ==
    ASSUME NEW c, NEW v PROVE HasFields(Fresh(v)) /\ HasFields(Unfit(c, v)) /\ HasFields(NoOutput)
  BY DEF HasFields, Fresh, Unfit, NoOutput

LEMMA PutExists ==
    ASSUME OutputsExist, NEW o \in Outputs, NEW c, HasFields(c),
           tlm' = [tlm EXCEPT ![o] = c]
    PROVE  OutputsExist'
<1>1. DOMAIN tlm' = Outputs BY DEF OutputsExist
<1>2. ASSUME NEW q \in Outputs PROVE HasFields(tlm'[q])
  BY DEF OutputsExist
<1> QED BY <1>1, <1>2 DEF OutputsExist, HasFields

\* A complete frame replaces one output at most.
LEMMA FrameOutputs ==
    ASSUME OutputsExist, NEW p, NEW high, HandleFrameComplete(p, high)
    PROVE  OutputsExist'
<1>u. ASSUME UNCHANGED tlm PROVE OutputsExist' BY <1>u DEF OutputsExist, HasFields
<1>p. ASSUME NEW o \in Outputs, NEW c, HasFields(c), Put(o, c) PROVE OutputsExist'
  BY <1>p, PutExists DEF Put
<1>o. {"Attitude", "EkfLocal", "GpsRaw", "EkfStatus", "SysTime"} \subseteq Outputs
  BY DEF Outputs
<1>1. CASE HandleHeartbeat(p) BY <1>1, <1>u DEF HandleHeartbeat
<1>2. CASE HandleCommandAck(p) BY <1>2, <1>u DEF HandleCommandAck
<1>3. CASE UNCHANGED tlm BY <1>3, <1>u
<1>4. CASE HandleTelemetry(p) /\ p.MsgId \in Known \ {HEARTBEAT, COMMAND_ACK}
  <2>1. p.MsgId \in {ATTITUDE, LOCAL_NED, GLOBAL_INT, GPS_RAW, EKF_STATUS, SYS_TIME}
    BY <1>4 DEF Known, CrcExtra
  <2>2. CASE PublishAttitude(p)
    BY <2>2, <1>u, <1>p, <1>o, Contents DEF PublishAttitude
  <2>3. CASE PublishEkfLocal(p)
    BY <2>3, <1>u, <1>p, <1>o, Contents DEF PublishEkfLocal
  <2>4. CASE PublishGlobalPositionAsLocal(p)
    BY <2>4, <1>u, <1>p, <1>o, Contents DEF PublishGlobalPositionAsLocal
  <2>5. CASE PublishGpsRaw(p)
    BY <2>5, <1>u, <1>p, <1>o, Contents DEF PublishGpsRaw
  <2>6. CASE PublishEkfStatus(p)
    BY <2>6, <1>u, <1>p, <1>o, Contents DEF PublishEkfStatus
  <2>7. CASE HandleSysTime(p)
    BY <2>7, <1>u, <1>p, <1>o, Contents DEF HandleSysTime
  <2> QED BY <1>4, <2>1, <2>2, <2>3, <2>4, <2>5, <2>6, <2>7
        DEF HandleTelemetry, ATTITUDE, LOCAL_NED, GLOBAL_INT, GPS_RAW, EKF_STATUS, SYS_TIME
<1> QED BY <1>1, <1>2, <1>3, <1>4 DEF HandleFrameComplete

LEMMA StaleNow ==
    ASSUME OutputsExist, MarkOutputsStale
    PROVE  /\ OutputsExist'
           /\ \A o \in Outputs \ {"SysTime"} : tlm'[o].Stale
           /\ \A o \in Outputs : tlm'[o].value = tlm[o].value /\ tlm'[o].Valid = tlm[o].Valid
<1>1. tlm' = [o \in Outputs |-> IF o = "SysTime" THEN tlm[o]
                                ELSE [tlm[o] EXCEPT !.Stale = TRUE]]
  BY DEF MarkOutputsStale
<1>2. ASSUME NEW o \in Outputs
      PROVE  /\ HasFields(tlm'[o]) /\ (o # "SysTime" => tlm'[o].Stale)
             /\ tlm'[o].value = tlm[o].value /\ tlm'[o].Valid = tlm[o].Valid
  <2>1. "Stale" \in DOMAIN tlm[o] /\ "value" \in DOMAIN tlm[o] /\ "Valid" \in DOMAIN tlm[o]
    BY DEF OutputsExist, HasFields
  <2>2. CASE o = "SysTime" BY <1>1, <2>1, <2>2 DEF HasFields
  <2>3. CASE o # "SysTime"
    <3>1. tlm'[o] = [tlm[o] EXCEPT !.Stale = TRUE] BY <1>1, <2>3
    <3>2. /\ DOMAIN tlm'[o] = DOMAIN tlm[o] /\ tlm'[o].Stale = TRUE
          /\ tlm'[o].value = tlm[o].value /\ tlm'[o].Valid = tlm[o].Valid
      BY <2>1, <3>1
    <3> QED BY <2>1, <3>2 DEF HasFields
  <2> QED BY <2>2, <2>3
<1>3. DOMAIN tlm' = Outputs BY <1>1
<1> QED BY <1>2, <1>3 DEF OutputsExist, HasFields

LEMMA InitSilence == Init => SilenceInv /\ OutputsExist
<1> SUFFICES ASSUME Init PROVE SilenceInv /\ OutputsExist OBVIOUS
<1>1. SilenceInv
  <2>1. silence \in 0..LongQuiet /\ quiet \in 0..LongQuiet BY Times DEF Init
  <2>2. wait \in 0..(RECONNECT_INTERVAL - 1) BY Times DEF Init
  <2>3. SerialFd = FALSE /\ LinkState = "DISCONNECTED" BY DEF Init
  <2> QED BY <2>1, <2>2, <2>3 DEF SilenceInv
<1>2. OutputsExist BY Contents DEF Init, OutputsExist
<1> QED BY <1>1, <1>2

LEMMA OpenedSilence ==
    ASSUME SilenceInv, OutputsExist, Opened, UNCHANGED tlm, wait' \in 0..(RECONNECT_INTERVAL - 1)
    PROVE  SilenceInv' /\ OutputsExist'
  BY Times DEF Opened, SilenceInv, OutputsExist, HasFields

LEMMA NextSilence == SilenceInv /\ OutputsExist /\ [Next]_vars => SilenceInv' /\ OutputsExist'
<1> SUFFICES ASSUME SilenceInv, OutputsExist, [Next]_vars PROVE SilenceInv' /\ OutputsExist'
  OBVIOUS
<1>u. ASSUME UNCHANGED tlm PROVE OutputsExist' BY <1>u DEF OutputsExist, HasFields
<1>v. ASSUME UNCHANGED <<silence, quiet, wait, SerialFd, LinkState, tlm>>
      PROVE  SilenceInv' /\ OutputsExist'
  BY <1>u, <1>v DEF SilenceInv
<1>1. ASSUME NEW elapsed \in 0..MaxGap, HandleReceivedBytes(elapsed)
      PROVE  SilenceInv' /\ OutputsExist'
  <2>1. ProcessReceivedByte(Head(wire)) BY <1>1 DEF HandleReceivedBytes
  <2>2. OutputsExist' BY <1>u, <2>1, FrameOutputs DEF ProcessReceivedByte
  <2>3. wait' \in 0..(RECONNECT_INTERVAL - 1)
    <3>1. MaxGap \in Nat BY BoundsAssumption
    <3> QED BY <1>1, <3>1, Times DEF HandleReceivedBytes, Waited, UpTo, SilenceInv
  <2>4. SerialFd' = TRUE /\ silence' = 0 /\ quiet' = 0
    BY <1>1 DEF HandleReceivedBytes, SilenceInv
  <2>5. SilenceInv' BY <2>3, <2>4, Times DEF SilenceInv
  <2> QED BY <2>2, <2>5
<1>2. CASE ServiceQuiet
  <2>1. /\ silence' = UpTo(LongQuiet, silence + 1) /\ quiet' = UpTo(LongQuiet, quiet + 1)
        /\ wait' = UpTo(RECONNECT_INTERVAL - 1, wait + 1)
        /\ SerialFd /\ SerialFd' = SerialFd
    BY <1>2 DEF ServiceQuiet, QuietTick, Waited
  <2>2. /\ silence' \in 0..LongQuiet /\ quiet' \in 0..LongQuiet
        /\ wait' \in 0..(RECONNECT_INTERVAL - 1) /\ quiet' =< silence'
    BY <2>1, Times DEF SilenceInv, UpTo
  <2>3. CASE silence' >= STALE_TIMEOUT
    <3>1. LinkState' = "DEGRADED" /\ MarkOutputsStale BY <1>2, <2>3 DEF ServiceQuiet, GoStale
    <3> QED BY <2>1, <2>2, <3>1, StaleNow DEF SilenceInv
  <2>4. CASE ~ (silence' >= STALE_TIMEOUT)
    <3>1. UNCHANGED tlm BY <1>2, <2>4 DEF ServiceQuiet
    <3>2. quiet' < STALE_TIMEOUT BY <2>2, <2>4, Times
    <3> QED BY <1>u, <2>1, <2>2, <3>1, <3>2, Times DEF SilenceInv
  <2> QED BY <2>3, <2>4
<1>3. CASE ServiceReadError
  <2>1. MarkOutputsStale BY <1>3 DEF ServiceReadError
  <2> QED BY <1>3, <2>1, StaleNow DEF ServiceReadError, SilenceInv
<1>4. ASSUME NEW opens \in BOOLEAN, ServiceClosed(opens) PROVE SilenceInv' /\ OutputsExist'
  <2>1. UNCHANGED tlm /\ ~SerialFd BY <1>4 DEF ServiceClosed
  <2>2. CASE wait + 1 >= RECONNECT_INTERVAL
    <3>1. wait' = 0 BY <1>4, <2>2 DEF ServiceClosed
    <3>2. CASE Opened BY <2>1, <3>1, <3>2, Times, OpenedSilence
    <3>3. CASE NotOpened("DISCONNECTED") /\ QuietTick
      <4>1. quiet' \in 0..LongQuiet BY <3>3, Times DEF QuietTick, UpTo, SilenceInv
      <4>2. SerialFd' = FALSE /\ LinkState' = "DISCONNECTED" /\ silence' = silence
        BY <3>3 DEF NotOpened
      <4>3. wait' \in 0..(RECONNECT_INTERVAL - 1) BY <3>1, Times
      <4>4. SilenceInv' BY <4>1, <4>2, <4>3 DEF SilenceInv
      <4> QED BY <1>u, <2>1, <4>4
    <3> QED BY <1>4, <2>2, <3>2, <3>3 DEF ServiceClosed
  <2>3. CASE ~ (wait + 1 >= RECONNECT_INTERVAL)
    <3>1. /\ wait' = wait + 1 /\ quiet' = UpTo(LongQuiet, quiet + 1)
          /\ UNCHANGED <<SerialFd, LinkState, silence>>
      BY <1>4, <2>3 DEF ServiceClosed, QuietTick
    <3>2. quiet' \in 0..LongQuiet /\ quiet' =< quiet + 1
      BY <3>1, Times DEF UpTo, SilenceInv
    <3> QED BY <1>u, <2>1, <2>3, <3>1, <3>2, Times DEF SilenceInv
  <2> QED BY <2>2, <2>3
<1>5. ASSUME NEW opens \in BOOLEAN, ProcessSerialReconnectCmd(opens)
      PROVE  SilenceInv' /\ OutputsExist'
  <2>1. UNCHANGED <<tlm, wait>> BY <1>5 DEF ProcessSerialReconnectCmd
  <2>2. CASE Opened BY <2>1, <2>2, OpenedSilence DEF SilenceInv
  <2>3. CASE NotOpened(LinkState) /\ UNCHANGED <<quiet, good>>
    <3>1. SerialFd' = FALSE /\ UNCHANGED <<LinkState, silence, quiet, wait>>
      BY <2>1, <2>3 DEF NotOpened
    <3>2. LinkState = "CONNECTED" => quiet < STALE_TIMEOUT + wait
      <4>1. quiet \in Nat /\ wait \in Nat /\ STALE_TIMEOUT \in Nat BY Times DEF SilenceInv
      <4>2. CASE SerialFd BY <4>1, <4>2 DEF SilenceInv
      <4>3. CASE ~SerialFd BY <4>3 DEF SilenceInv
      <4> QED BY <4>2, <4>3
    <3>3. SilenceInv' BY <3>1, <3>2 DEF SilenceInv
    <3> QED BY <1>u, <2>1, <3>3
  <2> QED BY <1>5, <2>2, <2>3 DEF ProcessSerialReconnectCmd
<1>6. CASE Restart
  <2>1. OutputsExist' BY <1>6, Contents DEF Restart, OutputsExist
  <2>2. SerialFd' = FALSE /\ LinkState' = "DISCONNECTED" /\ quiet' = quiet
    BY <1>6 DEF Restart
  <2>3. silence' \in 0..LongQuiet /\ wait' \in 0..(RECONNECT_INTERVAL - 1)
    BY <1>6, Times DEF Restart
  <2>4. SilenceInv' BY <2>2, <2>3 DEF SilenceInv
  <2> QED BY <2>1, <2>4
<1>7. CASE ProcessParserResetCmd
  BY <1>7, <1>v DEF ProcessParserResetCmd, link
<1>8. ASSUME NEW script, Send(script) PROVE SilenceInv' /\ OutputsExist'
  BY <1>8, <1>v DEF Send, link
<1>9. ASSUME NEW bytes, LineFault(bytes) PROVE SilenceInv' /\ OutputsExist'
  BY <1>9, <1>v DEF LineFault, link
<1>10. CASE UNCHANGED vars BY <1>10, <1>v DEF vars, link
<1> QED BY <1>1, <1>2, <1>3, <1>4, <1>5, <1>6, <1>7, <1>8, <1>9, <1>10
      DEF Next, LoseByte, DamageByte, AddByte

\* Whatever the line does, whichever way the port was opened, lost or could not
\* be opened, STALE_TIMEOUT ticks without a byte make the link DEGRADED and the
\* outputs stale, and no closed port keeps the link CONNECTED for longer than
\* the interval between two attempts to open it (ServiceSerial,
\* ProcessSerialReconnectCmd).
THEOREM SilenceNoticed == Spec => []SilenceIsNoticed
<1>1. SilenceInv => SilenceIsNoticed
  BY Times DEF SilenceInv, SilenceIsNoticed
<1> QED BY InitSilence, NextSilence, <1>1, PTL DEF Spec

------------------------------------------------------------------------------
(* Bytes *)

Byte == 0..255
Word == {n \in Nat : n < 65536}

LEMMA ByteIs == \A b : b \in Byte <=> b \in Nat /\ b =< 255
  BY DEF Byte

\* Every set of numbers that is not empty has a least element.
LEMMA LeastOf ==
    ASSUME NEW S, S \subseteq Nat, S # {}
    PROVE  \E n \in S : \A m \in S : n =< m
<1> DEFINE R == {r \in Nat \X Nat : r[1] < r[2]}
<1>1. IsWellFoundedOn(R, Nat)
  <2>1. OpToRel(<, Nat) = R BY DEF OpToRel
  <2> HIDE DEF R
  <2> QED BY <2>1, NatLessThanWellFounded
<1>2. PICK n \in S : \A m \in S : ~ (<<m, n>> \in R)
  <2> HIDE DEF R
  <2> QED BY <1>1, WFMin
<1>3. \A m \in S : ~ (m < n) BY <1>2
<1>4. n \in Nat /\ \A m \in S : m \in Nat OBVIOUS
<1>5. \A m \in S : n =< m
  <2> HIDE DEF R
  <2> QED BY <1>3, <1>4
<1> QED BY <1>5

\* And a greatest one, when it is bounded.
LEMMA GreatestOf ==
    ASSUME NEW S, S \subseteq Nat, S # {}, NEW b \in Nat, \A n \in S : n =< b,
           NEW m, m = CHOOSE n \in S : \A k \in S : k =< n
    PROVE  m \in S /\ \A k \in S : k =< m
<1>1. PICK U : U = {u \in Nat : \A n \in S : n =< u} OBVIOUS
<1>2. U \subseteq Nat /\ b \in U BY <1>1
<1>3. PICK u \in U : \A v \in U : u =< v BY <1>2, LeastOf
<1>4. u \in Nat /\ \A n \in S : n =< u BY <1>1, <1>3
<1>5. u \in S
  <2> SUFFICES ASSUME u \notin S PROVE FALSE OBVIOUS
  <2>1. u # 0
    <3>1. PICK n \in S : n \in Nat /\ n =< u /\ n # u BY <1>4
    <3> QED BY <1>4, <3>1
  <2>2. u - 1 \in Nat BY <1>4, <2>1
  <2>3. \A n \in S : n =< u - 1
    <3> SUFFICES ASSUME NEW n \in S PROVE n =< u - 1 OBVIOUS
    <3>1. n \in Nat /\ n =< u /\ n # u BY <1>4
    <3> QED BY <1>4, <3>1
  <2>4. u - 1 \in U BY <1>1, <2>2, <2>3
  <2>5. u =< u - 1 BY <1>3, <2>4
  <2> QED BY <1>4, <2>5
<1> QED BY <1>4, <1>5

\* An induction: a property of 0 that passes from n to n + 1, here as the
\* set of the numbers up to k that have it.
LEMMA AllUpTo ==
    ASSUME NEW k \in Nat, NEW S, 0 \in S,
           \A n \in 0..k : n \in S /\ n + 1 =< k => n + 1 \in S
    PROVE  0..k \subseteq S
<1> SUFFICES ASSUME ~ (0..k \subseteq S) PROVE FALSE OBVIOUS
<1>1. (0..k) \ S # {} /\ (0..k) \ S \subseteq Nat OBVIOUS
<1>2. PICK m \in (0..k) \ S : \A n \in (0..k) \ S : m =< n BY <1>1, LeastOf
<1>3. m # 0 /\ m \in 0..k BY <1>2
<1>4. m - 1 \in 0..k /\ (m - 1) + 1 = m BY <1>3
<1>5. m - 1 \in S
  <2> SUFFICES ASSUME m - 1 \notin S PROVE FALSE OBVIOUS
  <2>1. m =< m - 1 BY <1>2, <1>4
  <2> QED BY <1>3, <2>1
<1>6. m \in S BY <1>3, <1>4, <1>5
<1> QED BY <1>2, <1>6

\* The checksum after the first n bytes.
IsCrc(f, bytes, n) ==
    f = [i \in 0..n |-> IF i = 0 THEN 65535 ELSE CrcAccumulate(bytes[i], f[i - 1])]

LEMMA AccumulateType ==
    ASSUME NEW b \in Nat, NEW c \in Nat PROVE CrcAccumulate(b, c) \in Word
<1> DEFINE x == c * 31 + b + 1
<1>1. x \in Nat OBVIOUS
<1>2. x % 65536 \in Word
  <2> HIDE DEF x
  <2> QED BY <1>1 DEF Word
<1>3. CrcAccumulate(b, c) = x % 65536 BY DEF CrcAccumulate
<1> HIDE DEF x
<1> QED BY <1>2, <1>3

LEMMA CrcExists ==
    ASSUME NEW bytes, NEW k \in Nat PROVE \E f : IsCrc(f, bytes, k)
<1> DEFINE S == {n \in 0..k : \E f : IsCrc(f, bytes, n)}
<1>1. 0 \in S
  <2> DEFINE f == [i \in 0..0 |-> 65535]
  <2>1. IsCrc(f, bytes, 0) BY DEF IsCrc
  <2> QED BY <2>1
<1>2. ASSUME NEW n \in 0..k, n \in S, n + 1 =< k PROVE n + 1 \in S
  <2>1. PICK f : IsCrc(f, bytes, n) BY <1>2
  <2>2. PICK g : g = [i \in 0..(n + 1) |->
                        IF i = n + 1 THEN CrcAccumulate(bytes[n + 1], f[n]) ELSE f[i]]
    OBVIOUS
  <2>3. ASSUME NEW i \in 0..(n + 1)
        PROVE  g[i] = IF i = 0 THEN 65535 ELSE CrcAccumulate(bytes[i], g[i - 1])
    <3>1. CASE i = 0
      <4>1. 0 \in 0..n /\ 0 # n + 1 OBVIOUS
      <4>2. g[0] = f[0] BY <2>2, <4>1
      <4>3. f[0] = 65535 BY <2>1, <4>1 DEF IsCrc
      <4> QED BY <3>1, <4>2, <4>3
    <3>2. CASE i = n + 1
      <4>1. i - 1 = n /\ n \in 0..(n + 1) /\ n # n + 1 /\ i # 0 BY <3>2
      <4>2. g[n] = f[n] BY <2>2, <4>1
      <4>3. g[i] = CrcAccumulate(bytes[i], f[n]) BY <2>2, <3>2
      <4> QED BY <4>1, <4>2, <4>3
    <3>3. CASE i # 0 /\ i # n + 1
      <4>1. i \in 0..n /\ i - 1 \in 0..(n + 1) /\ i - 1 # n + 1 BY <3>3
      <4>2. g[i] = f[i] /\ g[i - 1] = f[i - 1] BY <2>2, <3>3, <4>1
      <4>3. f[i] = CrcAccumulate(bytes[i], f[i - 1]) BY <2>1, <3>3, <4>1 DEF IsCrc
      <4> QED BY <3>3, <4>2, <4>3
    <3> QED BY <3>1, <3>2, <3>3
  <2>4. IsCrc(g, bytes, n + 1) BY <2>2, <2>3 DEF IsCrc
  <2>5. n + 1 \in 0..k BY <1>2
  <2> QED BY <2>4, <2>5
<1>3. k \in 0..k OBVIOUS
<1>4. k \in S
  <2> HIDE DEF S
  <2> QED BY <1>1, <1>2, <1>3, AllUpTo
<1> QED BY <1>4

LEMMA CrcRange ==
    ASSUME NEW k \in Nat, NEW bytes, \A i \in 1..k : bytes[i] \in Nat,
           NEW f, IsCrc(f, bytes, k)
    PROVE  f[k] \in Word
<1>1. PICK S : S = {n \in 0..k : f[n] \in Word} OBVIOUS
<1>2. 0 \in S
  <2>1. 0 \in 0..k OBVIOUS
  <2>2. f[0] = 65535 BY <2>1 DEF IsCrc
  <2>3. f[0] \in Word BY <2>2 DEF Word
  <2> QED BY <1>1, <2>1, <2>3
<1>3. ASSUME NEW n \in 0..k, n \in S, n + 1 =< k PROVE n + 1 \in S
  <2>1. n + 1 \in 1..k /\ n + 1 \in 0..k /\ n + 1 # 0 /\ (n + 1) - 1 = n BY <1>3
  <2>2. f[n + 1] = CrcAccumulate(bytes[n + 1], f[n]) BY <2>1 DEF IsCrc
  <2>3. bytes[n + 1] \in Nat BY <2>1
  <2>4. f[n] \in Nat BY <1>1, <1>3 DEF Word
  <2>5. f[n + 1] \in Word BY <2>2, <2>3, <2>4, AccumulateType
  <2> QED BY <1>1, <2>1, <2>5
<1>4. k \in 0..k OBVIOUS
<1>5. k \in S BY <1>2, <1>3, <1>4, AllUpTo
<1> QED BY <1>1, <1>5

LEMMA CrcType == ASSUME NEW bytes \in Seq(Byte) PROVE Crc(bytes) \in Word
<1>1. PICK k : k = Len(bytes) OBVIOUS
<1>2. k \in Nat /\ \A i \in 1..k : bytes[i] \in Nat
  <2>1. \A i \in 1..k : bytes[i] \in Byte BY <1>1
  <2> QED BY <1>1, <2>1, ByteIs
<1>3. \E f : IsCrc(f, bytes, k) BY <1>2, CrcExists
<1>4. PICK g : g = CHOOSE f : IsCrc(f, bytes, k) OBVIOUS
<1>5. IsCrc(g, bytes, k) BY <1>3, <1>4
<1>6. Crc(bytes) = g[k] BY <1>1, <1>4 DEF Crc, IsCrc
<1> QED BY <1>2, <1>5, <1>6, CrcRange

------------------------------------------------------------------------------
(* What is on the line *)

\* A sender cuts something off the end.
Kept(s, n) == n =< 1 \/ \E i \in n..Len(s) : s[i] # 0

LEMMA TrimIs ==
    ASSUME NEW S, NEW s \in Seq(S)
    PROVE  \E c \in 0..Len(s) :
             /\ Trim(s) = SubSeq(s, 1, c)
             /\ Kept(s, c) /\ \A n \in 0..Len(s) : Kept(s, n) => n =< c
             /\ Trim(s) \in Seq(S) /\ Len(Trim(s)) = c
             /\ \A i \in 1..c : Trim(s)[i] = s[i]
<1>1. PICK keep : keep = {n \in 0..Len(s) : Kept(s, n)} OBVIOUS
<1>l. Len(s) \in Nat OBVIOUS
<1>2. keep \subseteq Nat /\ 0 \in keep /\ \A n \in keep : n =< Len(s)
  BY <1>1, <1>l DEF Kept
<1>7. PICK c : c = CHOOSE n \in keep : \A k \in keep : k =< n OBVIOUS
<1>8. c \in keep /\ \A n \in keep : n =< c BY <1>2, <1>7, <1>l, GreatestOf
<1>9. c \in 0..Len(s) /\ Kept(s, c) BY <1>1, <1>8
<1>10. Trim(s) = SubSeq(s, 1, c) BY <1>1, <1>7 DEF Trim, Kept
<1>11. /\ SubSeq(s, 1, c) \in Seq(S) /\ Len(SubSeq(s, 1, c)) = c
       /\ \A i \in 1..c : SubSeq(s, 1, c)[i] = s[i]
  <2>1. \A i \in 1..c : s[i] \in S BY <1>9, <1>l
  <2> QED BY <1>9, <1>l, <2>1
<1>13. \A n \in 0..Len(s) : Kept(s, n) => n =< c BY <1>1, <1>8
<1> QED BY <1>9, <1>10, <1>11, <1>13

LEMMA Joined == ASSUME NEW S, NEW s \in Seq(S), NEW t \in Seq(S) PROVE s \o t \in Seq(S)
  OBVIOUS

LEMMA Small == \A n \in {0, 1, 7, 24, 39, 50, 71, 104, 137, 143, 185, 253, 254} : n \in Byte
  BY ByteIs

\* What a message becomes on the line.
Cargo(m) == IF m.v2 THEN Trim(m.payload) ELSE m.payload
Header(m) == IF m.v2 THEN <<0, 0, 7, m.sys, 1, m.msg, 0, 0>> ELSE <<7, m.sys, 1, m.msg>>
Body(m) == <<Len(Cargo(m))>> \o (Header(m) \o Cargo(m))
Extra(m) == IF m.msg \in Known THEN CrcExtra[m.msg] ELSE 0
Checksum(m) == Crc(Body(m) \o <<Extra(m)>>)
Start(m) == IF m.v2 THEN MAVLINK_STX_V2 ELSE MAVLINK_STX_V1

LEMMA BytesAre ==
    ASSUME NEW m
    PROVE  Bytes(m) = (<<Start(m)>> \o Body(m))
                        \o <<Checksum(m) % 256, Checksum(m) \div 256>>
<1>1. PICK b, c, x : b = Body(m) /\ c = Cargo(m) /\ x = Extra(m) OBVIOUS
<1>2. b = <<Len(c)>> \o (IF m.v2 THEN <<0, 0, 7, m.sys, 1, m.msg, 0, 0>> \o c
                                ELSE <<7, m.sys, 1, m.msg>> \o c)
  BY <1>1, Zenon DEF Body, Header
<1>3. Bytes(m) = (<<Start(m)>> \o b) \o <<Crc(b \o <<x>>) % 256, Crc(b \o <<x>>) \div 256>>
  <2>1. c = (IF m.v2 THEN Trim(m.payload) ELSE m.payload) BY <1>1, Zenon DEF Cargo
  <2>2. x = (IF m.msg \in Known THEN CrcExtra[m.msg] ELSE 0) BY <1>1, Zenon DEF Extra
  <2>3. CASE m.v2
    <3>1. b = <<Len(c)>> \o (<<0, 0, 7, m.sys, 1, m.msg, 0, 0>> \o c) BY <1>2, <2>3
    <3>2. c = Trim(m.payload) /\ Start(m) = MAVLINK_STX_V2 BY <2>1, <2>3 DEF Start
    <3> QED BY ONLY <2>2, <2>3, <3>1, <3>2, SMT DEF Bytes
  <2>4. CASE ~m.v2
    <3>1. b = <<Len(c)>> \o (<<7, m.sys, 1, m.msg>> \o c) BY <1>2, <2>4
    <3>2. c = m.payload /\ Start(m) = MAVLINK_STX_V1 BY <2>1, <2>4 DEF Start
    <3> QED BY ONLY <2>2, <2>4, <3>1, <3>2, ZenonT(60) DEF Bytes
  <2> QED BY <2>3, <2>4
<1>4. Checksum(m) = Crc(b \o <<x>>) BY <1>1, Zenon DEF Checksum
<1> QED BY <1>1, <1>3, <1>4, Zenon

LEMMA PartsType ==
    ASSUME NEW m \in Message
    PROVE  /\ m.v2 \in BOOLEAN /\ m.sys \in Byte /\ m.msg \in Byte
           /\ m.payload \in Seq(Byte)
           /\ Cargo(m) \in Seq(Byte) /\ Len(Cargo(m)) \in Byte
           /\ Header(m) \in Seq(Byte) /\ Body(m) \in Seq(Byte)
           /\ Extra(m) \in Byte /\ Start(m) \in Byte /\ Checksum(m) \in Word
           /\ Checksum(m) % 256 \in Byte /\ Checksum(m) \div 256 \in Byte
<1>1. /\ m.v2 \in BOOLEAN /\ m.sys \in Byte /\ m.msg \in Byte
      /\ m.payload \in Seq(Byte) /\ Len(m.payload) =< 255
  <2>1. m.sys \in 1..255 /\ m.v2 \in BOOLEAN BY DEF Message
  <2>2. m.sys \in Byte BY <2>1, ByteIs
  <2> QED BY <2>1, <2>2 DEF Message, Byte, MAVLINK_MAX_PAYLOAD_LEN
<1>2. Cargo(m) \in Seq(Byte) /\ Len(Cargo(m)) \in Byte
  <2>1. PICK s : s = m.payload OBVIOUS
  <2>2. s \in Seq(Byte) /\ Len(s) \in Nat /\ Len(s) =< 255 BY <1>1, <2>1
  <2>3. Trim(s) \in Seq(Byte) /\ Len(Trim(s)) \in 0..Len(s) BY <2>2, TrimIs
  <2>4. Cargo(m) \in {s, Trim(s)} BY <2>1 DEF Cargo
  <2>5. Cargo(m) \in Seq(Byte) BY <2>2, <2>3, <2>4
  <2>6. Len(Cargo(m)) \in Nat /\ Len(Cargo(m)) =< 255 BY <2>2, <2>3, <2>4
  <2> QED BY <2>5, <2>6, ByteIs
<1>3. Header(m) \in Seq(Byte)
  <2>1. 0 \in Byte /\ 1 \in Byte /\ 7 \in Byte BY Small
  <2>2. <<0, 0, 7, m.sys, 1, m.msg, 0, 0>> \in Seq(Byte) BY <1>1, <2>1
  <2>3. <<7, m.sys, 1, m.msg>> \in Seq(Byte) BY <1>1, <2>1
  <2> QED BY <2>2, <2>3 DEF Header
<1>4. Body(m) \in Seq(Byte)
  <2>1. <<Len(Cargo(m))>> \in Seq(Byte) BY <1>2
  <2>2. Header(m) \o Cargo(m) \in Seq(Byte) BY <1>2, <1>3, Joined
  <2> QED BY <2>1, <2>2, Joined DEF Body
<1>5. Extra(m) \in Byte
  BY Small DEF Extra, Known, CrcExtra, HEARTBEAT, SYS_TIME, GPS_RAW, ATTITUDE,
     LOCAL_NED, GLOBAL_INT, COMMAND_ACK, EKF_STATUS
<1>6. Start(m) \in Byte BY Small DEF Start, MAVLINK_STX_V1, MAVLINK_STX_V2
<1>7. Checksum(m) \in Word
  <2>1. <<Extra(m)>> \in Seq(Byte) BY <1>5
  <2>2. Body(m) \o <<Extra(m)>> \in Seq(Byte) BY <1>4, <2>1, Joined
  <2> QED BY <2>2, CrcType DEF Checksum
<1>8. Checksum(m) % 256 \in Byte /\ Checksum(m) \div 256 \in Byte
  <2>1. PICK crc : crc = Checksum(m) OBVIOUS
  <2>2. crc \in Nat /\ crc < 65536 BY <1>7, <2>1 DEF Word
  <2>3. crc % 256 \in Nat /\ crc % 256 =< 255 BY <2>2
  <2>4. crc \div 256 \in Nat /\ crc \div 256 =< 255 BY <2>2
  <2> QED BY <2>1, <2>3, <2>4, ByteIs
<1> QED BY <1>1, <1>2, <1>3, <1>4, <1>5, <1>6, <1>7, <1>8

LEMMA BytesType == ASSUME NEW m \in Message PROVE Bytes(m) \in Seq(Byte)
<1>1. /\ <<Start(m)>> \in Seq(Byte)
      /\ <<Checksum(m) % 256, Checksum(m) \div 256>> \in Seq(Byte)
  BY PartsType
<1>2. <<Start(m)>> \o Body(m) \in Seq(Byte) BY <1>1, PartsType, Joined
<1> QED BY <1>1, <1>2, Joined, BytesAre

------------------------------------------------------------------------------
(* The parser *)

Parsers ==
    [State : ParseStates, IsV2 : BOOLEAN, PayloadLen : Byte, Seq : Byte,
     SysId : Byte, CompId : Byte, MsgId : Nat, CrcLow : Byte, Payload : Seq(Byte)]

\* A payload is there only once it has been announced, and while it is read
\* there is room for the next byte.
ParserOK(p) ==
    /\ p \in Parsers
    /\ p.State \notin {"READING_PAYLOAD", "GOT_CRC1", "GOT_CRC2"} => p.Payload = << >>
    /\ p.State = "READING_PAYLOAD" => Len(p.Payload) < p.PayloadLen
    /\ Len(p.Payload) =< p.PayloadLen

LEMMA ResetOK == ParserOK(ResetParser)
<1>1. 0 \in Byte BY Small
<1>2. << >> \in Seq(Byte) /\ Len(<< >>) = 0 OBVIOUS
<1>3. ResetParser \in Parsers BY <1>1, <1>2 DEF ResetParser, Parsers, ParseStates
<1> QED BY <1>2, <1>3 DEF ParserOK, ResetParser

LEMMA AfterHeaderOK ==
    ASSUME NEW p \in Parsers, p.Payload = << >>
    PROVE  ParserOK(AfterHeader(p))
<1>1. p.PayloadLen \in Nat BY ByteIs DEF Parsers
<1>2. PICK next : next = IF p.PayloadLen = 0 THEN "GOT_CRC1" ELSE "READING_PAYLOAD"
  OBVIOUS
<1>3. AfterHeader(p) = [p EXCEPT !.State = next] BY <1>2 DEF AfterHeader
<1>4. next \in ParseStates BY <1>2 DEF ParseStates
<1>5. AfterHeader(p) \in Parsers BY <1>3, <1>4 DEF Parsers
<1>6. /\ AfterHeader(p).State = next /\ AfterHeader(p).Payload = << >>
      /\ AfterHeader(p).PayloadLen = p.PayloadLen
  BY <1>3 DEF Parsers
<1>7. Len(<< >>) = 0 OBVIOUS
<1> QED BY <1>1, <1>2, <1>5, <1>6, <1>7 DEF ParserOK

\* Every byte that does not complete a frame leads to a parser of this kind.
LEMMA ParseByteOK ==
    ASSUME NEW p, ParserOK(p), p.State # "GOT_CRC2", NEW byte \in Byte
    PROVE  ParserOK(ParseByte(p, byte))
<1>p. p \in Parsers /\ p.State \in ParseStates BY DEF ParserOK, Parsers
<1>b. byte \in Nat /\ byte =< 255 BY ByteIs
<1>l. Len(<< >>) = 0 OBVIOUS
<1>e. ASSUME p.State \notin {"READING_PAYLOAD", "GOT_CRC1"}
      PROVE  p.Payload = << >>
  BY <1>e DEF ParserOK
<1>1. CASE p.State = "WAIT_STX"
  <2>1. CASE byte \in {MAVLINK_STX_V1, MAVLINK_STX_V2}
    <3>1. PICK v2 \in BOOLEAN : v2 = (byte = MAVLINK_STX_V2) OBVIOUS
    <3>2. PICK q : q = [ResetParser EXCEPT !.State = "GOT_LENGTH", !.IsV2 = v2]
      OBVIOUS
    <3>3. ParseByte(p, byte) = q
      BY <1>1, <2>1, <3>1, <3>2 DEF ParseByte
    <3>4. ResetParser \in Parsers /\ ResetParser.Payload = << >> /\ ResetParser.PayloadLen = 0
      BY ResetOK DEF ParserOK, ResetParser
    <3>5. q \in Parsers /\ q.State = "GOT_LENGTH" /\ q.Payload = << >> /\ q.PayloadLen = 0
      BY <3>2, <3>4 DEF Parsers, ParseStates
    <3> QED BY <1>l, <3>3, <3>5 DEF ParserOK
  <2>2. CASE byte \notin {MAVLINK_STX_V1, MAVLINK_STX_V2}
    BY <1>1, <2>2 DEF ParseByte
  <2> QED BY <2>1, <2>2
<1>2. CASE p.State = "GOT_LENGTH"
  <2>1. PICK next : next = IF p.IsV2 THEN "GOT_INCOMPAT" ELSE "GOT_SEQ" OBVIOUS
  <2>2. PICK q : q = [p EXCEPT !.PayloadLen = byte, !.State = next] OBVIOUS
  <2>3. ParseByte(p, byte) = q BY <1>2, <2>1, <2>2 DEF ParseByte
  <2>4. next \in ParseStates /\ next \notin {"READING_PAYLOAD", "GOT_CRC1", "GOT_CRC2"}
    BY <2>1 DEF ParseStates
  <2>5. q \in Parsers /\ q.State = next /\ q.Payload = p.Payload /\ q.PayloadLen = byte
    BY <1>p, <2>2, <2>4 DEF Parsers
  <2> QED BY <1>2, <1>b, <1>e, <1>l, <2>3, <2>4, <2>5 DEF ParserOK
<1>3. CASE p.State = "GOT_INCOMPAT"
  <2>1. PICK q : q = [p EXCEPT !.State = "GOT_COMPAT"] OBVIOUS
  <2>2. ParseByte(p, byte) = q BY <1>3, <2>1 DEF ParseByte
  <2>3. /\ q \in Parsers /\ q.State = "GOT_COMPAT" /\ q.Payload = p.Payload
        /\ q.PayloadLen = p.PayloadLen
    BY <1>p, <2>1 DEF Parsers, ParseStates
  <2> QED BY <1>3, <1>e, <2>2, <2>3 DEF ParserOK
<1>4. CASE p.State = "GOT_COMPAT"
  <2>1. PICK q : q = [p EXCEPT !.State = "GOT_SEQ"] OBVIOUS
  <2>2. ParseByte(p, byte) = q BY <1>4, <2>1 DEF ParseByte
  <2>3. /\ q \in Parsers /\ q.State = "GOT_SEQ" /\ q.Payload = p.Payload
        /\ q.PayloadLen = p.PayloadLen
    BY <1>p, <2>1 DEF Parsers, ParseStates
  <2> QED BY <1>4, <1>e, <2>2, <2>3 DEF ParserOK
<1>5. CASE p.State = "GOT_SEQ"
  <2>1. PICK q : q = [p EXCEPT !.Seq = byte, !.State = "GOT_SYSID"] OBVIOUS
  <2>2. ParseByte(p, byte) = q BY <1>5, <2>1 DEF ParseByte
  <2>3. /\ q \in Parsers /\ q.State = "GOT_SYSID" /\ q.Payload = p.Payload
        /\ q.PayloadLen = p.PayloadLen
    BY <1>p, <2>1 DEF Parsers, ParseStates
  <2> QED BY <1>5, <1>e, <2>2, <2>3 DEF ParserOK
<1>6. CASE p.State = "GOT_SYSID"
  <2>1. PICK q : q = [p EXCEPT !.SysId = byte, !.State = "GOT_COMPID"] OBVIOUS
  <2>2. ParseByte(p, byte) = q BY <1>6, <2>1 DEF ParseByte
  <2>3. /\ q \in Parsers /\ q.State = "GOT_COMPID" /\ q.Payload = p.Payload
        /\ q.PayloadLen = p.PayloadLen
    BY <1>p, <2>1 DEF Parsers, ParseStates
  <2> QED BY <1>6, <1>e, <2>2, <2>3 DEF ParserOK
<1>7. CASE p.State = "GOT_COMPID"
  <2>1. PICK q : q = [p EXCEPT !.CompId = byte, !.State = "GOT_MSGID1"] OBVIOUS
  <2>2. ParseByte(p, byte) = q BY <1>7, <2>1 DEF ParseByte
  <2>3. /\ q \in Parsers /\ q.State = "GOT_MSGID1" /\ q.Payload = p.Payload
        /\ q.PayloadLen = p.PayloadLen
    BY <1>p, <2>1 DEF Parsers, ParseStates
  <2> QED BY <1>7, <1>e, <2>2, <2>3 DEF ParserOK
<1>8. CASE p.State = "GOT_MSGID1"
  <2>1. PICK q : q = [p EXCEPT !.MsgId = byte] OBVIOUS
  <2>2. /\ q \in Parsers /\ q.Payload = << >> /\ q.State = "GOT_MSGID1"
        /\ q.PayloadLen = p.PayloadLen
    BY <1>8, <1>b, <1>e, <1>p, <2>1 DEF Parsers
  <2>3. CASE p.IsV2
    <3>1. PICK r : r = [p EXCEPT !.MsgId = byte, !.State = "GOT_MSGID2"] OBVIOUS
    <3>2. ParseByte(p, byte) = r BY <1>8, <2>3, <3>1 DEF ParseByte
    <3>3. /\ r \in Parsers /\ r.State = "GOT_MSGID2" /\ r.Payload = << >>
          /\ r.PayloadLen = p.PayloadLen
      BY <1>8, <1>b, <1>e, <1>p, <3>1 DEF Parsers, ParseStates
    <3> QED BY <1>8, <1>e, <3>2, <3>3 DEF ParserOK
  <2>4. CASE ~p.IsV2
    <3>1. ParseByte(p, byte) = AfterHeader(q) BY <1>8, <2>1, <2>4 DEF ParseByte
    <3> QED BY <2>2, <3>1, AfterHeaderOK
  <2> QED BY <2>3, <2>4
<1>9. CASE p.State = "GOT_MSGID2"
  <2>1. PICK q : q = [p EXCEPT !.MsgId = @ + 256 * byte, !.State = "GOT_MSGID3"]
    OBVIOUS
  <2>2. ParseByte(p, byte) = q BY <1>9, <2>1 DEF ParseByte
  <2>3. p.MsgId + 256 * byte \in Nat BY <1>b, <1>p DEF Parsers
  <2>4. /\ q \in Parsers /\ q.State = "GOT_MSGID3" /\ q.Payload = p.Payload
        /\ q.PayloadLen = p.PayloadLen
    BY <1>p, <2>1, <2>3 DEF Parsers, ParseStates
  <2> QED BY <1>9, <1>e, <2>2, <2>4 DEF ParserOK
<1>10. CASE p.State = "GOT_MSGID3"
  <2>1. PICK id : id = p.MsgId + 65536 * byte OBVIOUS
  <2>2. PICK q : q = [p EXCEPT !.MsgId = id] OBVIOUS
  <2>3. ParseByte(p, byte) = AfterHeader(q) BY <1>10, <2>1, <2>2 DEF ParseByte
  <2>4. id \in Nat BY <1>b, <1>p, <2>1 DEF Parsers
  <2>5. q \in Parsers /\ q.Payload = << >>
    BY <1>10, <1>e, <1>p, <2>2, <2>4 DEF Parsers
  <2> QED BY <2>3, <2>5, AfterHeaderOK
<1>11. CASE p.State = "READING_PAYLOAD"
  <2>1. PICK next : next = IF Len(p.Payload) + 1 >= p.PayloadLen
                             THEN "GOT_CRC1" ELSE "READING_PAYLOAD"
    OBVIOUS
  <2>2. PICK q : q = [p EXCEPT !.Payload = Append(@, byte), !.State = next] OBVIOUS
  <2>3. ParseByte(p, byte) = q BY <1>11, <2>1, <2>2 DEF ParseByte
  <2>4. p.Payload \in Seq(Byte) /\ p.PayloadLen \in Nat BY <1>p, ByteIs DEF Parsers
  <2>5. /\ Append(p.Payload, byte) \in Seq(Byte)
        /\ Len(Append(p.Payload, byte)) = Len(p.Payload) + 1
        /\ Len(p.Payload) \in Nat
    BY <2>4
  <2>6. next \in ParseStates /\ next \in {"GOT_CRC1", "READING_PAYLOAD"}
    BY <2>1 DEF ParseStates
  <2>7. /\ q \in Parsers /\ q.State = next /\ q.Payload = Append(p.Payload, byte)
        /\ q.PayloadLen = p.PayloadLen
    BY <1>p, <2>2, <2>5, <2>6 DEF Parsers
  <2>8. Len(p.Payload) < p.PayloadLen BY <1>11 DEF ParserOK
  <2>9. Len(q.Payload) =< q.PayloadLen BY <2>4, <2>5, <2>7, <2>8
  <2>10. next = "READING_PAYLOAD" => Len(q.Payload) < q.PayloadLen
    BY <2>1, <2>4, <2>5, <2>7
  <2> QED BY <2>3, <2>6, <2>7, <2>9, <2>10 DEF ParserOK
<1>12. CASE p.State = "GOT_CRC1"
  <2>1. PICK q : q = [p EXCEPT !.CrcLow = byte, !.State = "GOT_CRC2"] OBVIOUS
  <2>2. ParseByte(p, byte) = q BY <1>12, <2>1 DEF ParseByte
  <2>3. /\ q \in Parsers /\ q.State = "GOT_CRC2" /\ q.Payload = p.Payload
        /\ q.PayloadLen = p.PayloadLen
    BY <1>p, <2>1 DEF Parsers, ParseStates
  <2> QED BY <1>12, <2>2, <2>3 DEF ParserOK
<1> QED BY <1>p, <1>1, <1>2, <1>3, <1>4, <1>5, <1>6, <1>7, <1>8, <1>9, <1>10,
           <1>11, <1>12 DEF ParseStates

------------------------------------------------------------------------------
(* Types *)

LineInv ==
    /\ ParserOK(parser)
    /\ wire \in Seq(Byte) /\ sent \in Seq(Message)
    /\ LinkState \in LinkStates /\ IsArmed \in BOOLEAN /\ TargetSystemId \in Byte
    /\ damaged \in BOOLEAN
    /\ good \in 0..LongQuiet

LEMMA States ==
    LinkStates = {"DISCONNECTED", "CONNECTED", "DEGRADED"}
  BY DEF LinkStates

\* What a complete frame does to the link and to the armed flag.
LEMMA FrameLine ==
    ASSUME LinkState \in LinkStates, IsArmed \in BOOLEAN, TargetSystemId \in Byte,
           NEW p \in Parsers, NEW high, HandleFrameComplete(p, high)
    PROVE  LinkState' \in LinkStates /\ IsArmed' \in BOOLEAN /\ TargetSystemId' \in Byte
<1>1. p.SysId \in Byte BY DEF Parsers
<1>2. CASE UNCHANGED <<LinkState, lock>> BY <1>2 DEF lock
<1>3. CASE HandleHeartbeat(p)
  <2>1. LinkState' \in LinkStates BY <1>3, States DEF HandleHeartbeat
  <2>2. IsArmed' \in BOOLEAN
    <3>1. PICK armed : armed = (p.Payload[2] >= 128) OBVIOUS
    <3>2. armed \in BOOLEAN BY <3>1
    <3>3. IsArmed' = armed \/ IsArmed' = IsArmed
      BY <1>3, <3>1, Zenon DEF HandleHeartbeat, UpdateFromHeartbeat
    <3> QED BY <3>2, <3>3
  <2>3. TargetSystemId' \in Byte BY <1>1, <1>3 DEF HandleHeartbeat
  <2> QED BY <2>1, <2>2, <2>3
<1>4. CASE HandleTelemetry(p)
  <2>1. LinkState' = "CONNECTED" /\ UNCHANGED lock BY <1>4 DEF HandleTelemetry
  <2> QED BY <2>1, States DEF lock
<1>5. CASE HandleCommandAck(p)
  BY <1>2, <1>5 DEF HandleCommandAck
<1> QED BY <1>2, <1>3, <1>4, <1>5 DEF HandleFrameComplete

LEMMA OpenedLine ==
    ASSUME LineInv, Opened, UNCHANGED <<IsArmed, TargetSystemId, sent>>
    PROVE  LineInv'
<1>1. /\ LinkState' = "CONNECTED" /\ parser' = ResetParser /\ wire' = << >>
      /\ damaged' = FALSE /\ good' = 0
  BY DEF Opened
<1>2. ParserOK(parser)' BY <1>1, ResetOK
<1>3. wire' \in Seq(Byte) /\ good' \in 0..LongQuiet BY <1>1, Times
<1> QED BY <1>1, <1>2, <1>3, States DEF LineInv

LEMMA InitLine == Init => LineInv
<1> SUFFICES ASSUME Init PROVE LineInv OBVIOUS
<1>1. ParserOK(parser) BY ResetOK DEF Init
<1>2. good \in 0..LongQuiet BY Times DEF Init
<1>3. TargetSystemId \in Byte BY Small DEF Init
<1>4. wire \in Seq(Byte) /\ sent \in Seq(Message) BY DEF Init
<1> QED BY <1>1, <1>2, <1>3, <1>4, States DEF Init, LineInv

LEMMA NextLine == SilenceInv /\ OutputsExist /\ LineInv /\ [Next]_vars => LineInv'
<1> SUFFICES ASSUME SilenceInv, OutputsExist, LineInv, [Next]_vars PROVE LineInv'
  OBVIOUS
<1>r. LinkState \in LinkStates /\ IsArmed \in BOOLEAN /\ TargetSystemId \in Byte
  BY DEF LineInv
<1>t. good \in Nat /\ good =< LongQuiet BY Times DEF LineInv
<1>q. QuietTick => good' \in 0..LongQuiet BY <1>t, Times DEF QuietTick, UpTo
<1>1. ASSUME NEW elapsed \in 0..MaxGap, HandleReceivedBytes(elapsed) PROVE LineInv'
  <2>1. wire \in Seq(Byte) /\ wire # << >> BY <1>1 DEF HandleReceivedBytes, LineInv
  <2>2. Head(wire) \in Byte /\ Tail(wire) \in Seq(Byte) BY <2>1
  <2>3. PICK byte \in Byte : byte = Head(wire) BY <2>2
  <2>4. ProcessReceivedByte(byte) BY <1>1, <2>3 DEF HandleReceivedBytes
  <2>5. ParserOK(parser) /\ parser \in Parsers BY DEF LineInv, ParserOK
  <2>6. /\ LinkState' \in LinkStates /\ IsArmed' \in BOOLEAN /\ TargetSystemId' \in Byte
        /\ ParserOK(parser')
    <3>1. CASE parser.State = "GOT_CRC2"
      <4>1. HandleFrameComplete(parser, byte) /\ parser' = ResetParser
        BY <2>4, <3>1 DEF ProcessReceivedByte
      <4> QED BY <1>r, <2>5, <4>1, FrameLine, ResetOK
    <3>2. CASE parser.State # "GOT_CRC2"
      <4>1. parser' = ParseByte(parser, byte) /\ UNCHANGED <<LinkState, lock>>
        BY <2>4, <3>2 DEF ProcessReceivedByte
      <4>2. ParserOK(parser') BY <2>5, <3>2, <4>1, ParseByteOK
      <4> QED BY <1>r, <4>1, <4>2 DEF lock
    <3> QED BY <3>1, <3>2
  <2>7. good' \in 0..LongQuiet
    <3>1. elapsed \in Nat BY BoundsAssumption
    <3>2. good' = 0 \/ good' = UpTo(LongQuiet, good + elapsed)
      BY <1>1 DEF HandleReceivedBytes
    <3> QED BY <1>t, <3>1, <3>2, Times DEF UpTo
  <2>8. wire' \in Seq(Byte) /\ UNCHANGED <<sent, damaged>>
    BY <1>1, <2>2 DEF HandleReceivedBytes, history
  <2> QED BY <2>6, <2>7, <2>8 DEF LineInv
<1>2. CASE ServiceQuiet
  <2>1. good' \in 0..LongQuiet BY <1>2, <1>q DEF ServiceQuiet
  <2>2. LinkState' \in LinkStates BY <1>2, <1>r, States DEF ServiceQuiet, GoStale
  <2>3. UNCHANGED <<wire, parser, lock, history>> BY <1>2 DEF ServiceQuiet
  <2> QED BY <2>1, <2>2, <2>3 DEF LineInv, lock, history
<1>3. CASE ServiceReadError
  BY <1>3, States DEF ServiceReadError, LineInv, lock
<1>4. ASSUME NEW opens \in BOOLEAN, ServiceClosed(opens) PROVE LineInv'
  <2>1. UNCHANGED <<lock, sent>> BY <1>4 DEF ServiceClosed
  <2>2. CASE Opened BY <2>1, <2>2, OpenedLine DEF lock
  <2>3. CASE NotOpened("DISCONNECTED") /\ QuietTick
    <3>1. good' \in 0..LongQuiet BY <1>q, <2>3
    <3>2. LinkState' = "DISCONNECTED" /\ UNCHANGED <<parser, wire, damaged>>
      BY <2>3 DEF NotOpened
    <3> QED BY <2>1, <3>1, <3>2, States DEF LineInv, lock
  <2>4. CASE QuietTick /\ UNCHANGED <<LinkState, parser, wire, damaged>>
    <3>1. good' \in 0..LongQuiet BY <1>q, <2>4
    <3> QED BY <2>1, <2>4, <3>1 DEF LineInv, lock
  <2> QED BY <1>4, <2>2, <2>3, <2>4 DEF ServiceClosed
<1>5. ASSUME NEW opens \in BOOLEAN, ProcessSerialReconnectCmd(opens) PROVE LineInv'
  <2>1. UNCHANGED <<lock, sent>> BY <1>5 DEF ProcessSerialReconnectCmd
  <2>2. CASE Opened BY <2>1, <2>2, OpenedLine DEF lock
  <2>3. CASE NotOpened(LinkState) /\ UNCHANGED <<quiet, good>>
    BY <2>1, <2>3 DEF NotOpened, LineInv, lock
  <2> QED BY <1>5, <2>2, <2>3 DEF ProcessSerialReconnectCmd
<1>6. CASE Restart
  <2>1. /\ LinkState' = "DISCONNECTED" /\ parser' = ResetParser
        /\ TargetSystemId' = 0 /\ IsArmed' = FALSE
        /\ UNCHANGED <<wire, good, sent, damaged>>
    BY <1>6 DEF Restart
  <2>2. ParserOK(parser)' BY <2>1, ResetOK
  <2>3. TargetSystemId' \in Byte BY <2>1, Small
  <2> QED BY <2>1, <2>2, <2>3, States DEF LineInv
<1>7. CASE ProcessParserResetCmd
  <2>1. parser' = ResetParser /\ damaged' \in BOOLEAN
    BY <1>7 DEF ProcessParserResetCmd, LineInv
  <2>2. ParserOK(parser)' BY <2>1, ResetOK
  <2>3. UNCHANGED <<wire, link, lock, good, sent>> BY <1>7 DEF ProcessParserResetCmd
  <2> QED BY <2>1, <2>2, <2>3 DEF LineInv, link, lock
<1>8. ASSUME NEW script \in Traffic, Send(script) PROVE LineInv'
  <2>1. script \in Seq(Message) BY TrafficAssumption
  <2>2. Len(sent) \in Nat /\ Len(sent) < Len(script) BY <1>8 DEF Send, LineInv
  <2>3. Len(sent) + 1 \in 1..Len(script) BY <2>1, <2>2
  <2>4. PICK m \in Message : m = script[Len(sent) + 1] BY <2>1, <2>3
  <2>5. wire' = Bytes(m) /\ sent' = Append(sent, m) BY <1>8, <2>4 DEF Send
  <2>6. wire' \in Seq(Byte) BY <2>5, BytesType
  <2>7. sent' \in Seq(Message) BY <2>4, <2>5 DEF LineInv
  <2>8. UNCHANGED <<parser, link, lock, good, damaged>> BY <1>8 DEF Send
  <2> QED BY <2>6, <2>7, <2>8 DEF LineInv, link, lock
<1>9. ASSUME NEW bytes \in Seq(Byte), LineFault(bytes) PROVE LineInv'
  BY <1>9 DEF LineFault, LineInv, link, lock
<1>10. CASE LoseByte
  <2>1. Tail(wire) \in Seq(Byte) BY <1>10 DEF LoseByte, LineInv
  <2> QED BY <1>9, <1>10, <2>1 DEF LoseByte
<1>11. ASSUME NEW b \in NoiseBytes, DamageByte(b) \/ AddByte(b) PROVE LineInv'
  <2>1. b \in Byte BY BytesAssumption DEF Byte
  <2>2. CASE DamageByte(b)
    <3>1. Tail(wire) \in Seq(Byte) BY <2>2 DEF DamageByte, LineInv
    <3>2. <<b>> \o Tail(wire) \in Seq(Byte) BY <2>1, <3>1
    <3> QED BY <1>9, <2>2, <3>2 DEF DamageByte
  <2>3. CASE AddByte(b)
    <3>1. <<b>> \o wire \in Seq(Byte) BY <2>1 DEF LineInv
    <3> QED BY <1>9, <2>3, <3>1 DEF AddByte
  <2> QED BY <1>11, <2>2, <2>3
<1>12. CASE UNCHANGED vars
  BY <1>12 DEF vars, link, lock, history, LineInv
<1> QED BY <1>1, <1>2, <1>3, <1>4, <1>5, <1>6, <1>7, <1>8, <1>10, <1>11, <1>12 DEF Next

\* Types, and above all that a payload never outgrows its announced length, for
\* every message of up to MAVLINK_MAX_PAYLOAD_LEN bytes and whatever the line
\* makes of it (ProcessReceivedByte).
THEOREM TypeCorrect == Spec => []TypeOK
<1>1. SilenceInv /\ OutputsExist /\ LineInv => TypeOK
  <2> SUFFICES ASSUME SilenceInv, OutputsExist, LineInv PROVE TypeOK OBVIOUS
  <2>1. ParserOK(parser) /\ parser \in Parsers BY DEF LineInv, ParserOK
  <2>2. parser.State \in ParseStates /\ parser.PayloadLen \in Byte BY <2>1 DEF Parsers
  <2>3. Len(parser.Payload) =< parser.PayloadLen BY <2>1 DEF ParserOK
  <2>4. parser.PayloadLen =< MAVLINK_MAX_PAYLOAD_LEN
    BY <2>2, ByteIs DEF MAVLINK_MAX_PAYLOAD_LEN
  <2>5. TargetSystemId \in 0..255 BY DEF LineInv, Byte
  <2>6. wait \in 0..RECONNECT_INTERVAL - 1 BY DEF SilenceInv
  <2> QED BY <2>2, <2>3, <2>4, <2>5, <2>6 DEF TypeOK, SilenceInv, OutputsExist, LineInv
<1> QED BY InitSilence, NextSilence, InitLine, NextLine, <1>1, PTL DEF Spec

------------------------------------------------------------------------------
(* The frame on the line, byte by byte *)

\* The flags of v2 come after the length; the payload comes after the header.
Flags(m) == IF m.v2 THEN 2 ELSE 0
HeaderEnd(m) == IF m.v2 THEN 10 ELSE 6

LEMMA BytesAt ==
    ASSUME NEW m \in Message
    PROVE  /\ Len(Bytes(m)) = HeaderEnd(m) + Len(Cargo(m)) + 2
           /\ Bytes(m)[1] = Start(m) /\ Bytes(m)[2] = Len(Cargo(m))
           /\ Bytes(m)[Flags(m) + 3] = 7 /\ Bytes(m)[Flags(m) + 4] = m.sys
           /\ Bytes(m)[Flags(m) + 5] = 1 /\ Bytes(m)[Flags(m) + 6] = m.msg
           /\ m.v2 => Bytes(m)[9] = 0 /\ Bytes(m)[10] = 0
           /\ \A i \in 1..Len(Cargo(m)) : Bytes(m)[HeaderEnd(m) + i] = Cargo(m)[i]
           /\ Bytes(m)[HeaderEnd(m) + Len(Cargo(m)) + 1] = Checksum(m) % 256
           /\ Bytes(m)[HeaderEnd(m) + Len(Cargo(m)) + 2] = Checksum(m) \div 256
<1>1. PICK s, h, c, b, e, F, n, k :
        /\ s = <<Start(m)>> /\ h = Header(m) /\ c = Cargo(m) /\ b = <<Len(c)>>
        /\ e = <<Checksum(m) % 256, Checksum(m) \div 256>> /\ F = Bytes(m)
        /\ n = Len(c) /\ k = Len(h)
  OBVIOUS
<1>2. /\ s \in Seq(Byte) /\ h \in Seq(Byte) /\ c \in Seq(Byte) /\ b \in Seq(Byte)
      /\ e \in Seq(Byte) /\ Len(s) = 1 /\ Len(b) = 1 /\ Len(e) = 2
      /\ n \in Nat /\ k \in Nat
  <2>1. n \in Byte BY <1>1, PartsType
  <2> QED BY <1>1, <2>1, PartsType, ByteIs
<1>3. F = (s \o (b \o (h \o c))) \o e
  BY <1>1, BytesAre DEF Body
<1>4. PICK hc : hc = h \o c OBVIOUS
<1>5. /\ hc \in Seq(Byte) /\ Len(hc) = k + n
      /\ \A i \in 1..k : hc[i] = h[i]
      /\ \A i \in 1..n : hc[k + i] = c[i]
  <2>1. /\ hc \in Seq(Byte) /\ Len(hc) = k + n
        /\ \A i \in 1..(k + n) : hc[i] = IF i =< k THEN h[i] ELSE c[i - k]
    BY <1>1, <1>2, <1>4, ConcatProperties
  <2>2. ASSUME NEW i \in 1..k PROVE hc[i] = h[i]
    <3>1. i \in 1..(k + n) /\ i =< k BY <1>2
    <3> QED BY <2>1, <3>1
  <2>3. ASSUME NEW i \in 1..n PROVE hc[k + i] = c[i]
    <3>1. k + i \in 1..(k + n) /\ ~ (k + i =< k) /\ (k + i) - k = i BY <1>2
    <3> QED BY <2>1, <3>1
  <2> QED BY <2>1, <2>2, <2>3
<1>6. PICK bhc : bhc = b \o hc OBVIOUS
<1>7. /\ bhc \in Seq(Byte) /\ Len(bhc) = k + n + 1
      /\ bhc[1] = n /\ \A i \in 1..(k + n) : bhc[i + 1] = hc[i]
  <2>0. /\ bhc \in Seq(Byte) /\ Len(bhc) = Len(b) + Len(hc)
        /\ \A i \in 1..(Len(b) + Len(hc)) :
             bhc[i] = IF i =< Len(b) THEN b[i] ELSE hc[i - Len(b)]
    <3>1. b \in Seq(Byte) /\ hc \in Seq(Byte) BY <1>2, <1>5
    <3> QED BY <1>6, <3>1, ConcatProperties
  <2>1. \A i \in 1..(1 + (k + n)) : bhc[i] = IF i =< 1 THEN b[i] ELSE hc[i - 1]
    BY <1>2, <1>5, <2>0
  <2>2. bhc[1] = n
    <3>1. 1 \in 1..(1 + (k + n)) /\ b[1] = n BY <1>1, <1>2
    <3> QED BY <2>1, <3>1
  <2>3. ASSUME NEW i \in 1..(k + n) PROVE bhc[i + 1] = hc[i]
    <3>1. i + 1 \in 1..(1 + (k + n)) /\ ~ (i + 1 =< 1) /\ (i + 1) - 1 = i BY <1>2
    <3> QED BY <2>1, <3>1
  <2> QED BY <1>2, <1>5, <2>0, <2>2, <2>3
<1>8. PICK sb : sb = s \o bhc OBVIOUS
<1>9. /\ sb \in Seq(Byte) /\ Len(sb) = k + n + 2
      /\ sb[1] = Start(m) /\ \A i \in 1..(k + n + 1) : sb[i + 1] = bhc[i]
  <2>0. /\ sb \in Seq(Byte) /\ Len(sb) = Len(s) + Len(bhc)
        /\ \A i \in 1..(Len(s) + Len(bhc)) :
             sb[i] = IF i =< Len(s) THEN s[i] ELSE bhc[i - Len(s)]
    <3>1. s \in Seq(Byte) /\ bhc \in Seq(Byte) BY <1>2, <1>7
    <3> QED BY <1>8, <3>1, ConcatProperties
  <2>1. \A i \in 1..(1 + (k + n + 1)) : sb[i] = IF i =< 1 THEN s[i] ELSE bhc[i - 1]
    BY <1>2, <1>7, <2>0
  <2>2. sb[1] = Start(m)
    <3>1. 1 \in 1..(1 + (k + n + 1)) /\ s[1] = Start(m) BY <1>1, <1>2
    <3> QED BY <2>1, <3>1
  <2>3. ASSUME NEW i \in 1..(k + n + 1) PROVE sb[i + 1] = bhc[i]
    <3>1. i + 1 \in 1..(1 + (k + n + 1)) /\ ~ (i + 1 =< 1) /\ (i + 1) - 1 = i BY <1>2
    <3> QED BY <2>1, <3>1
  <2> QED BY <1>2, <1>7, <2>0, <2>2, <2>3
<1>10. F = sb \o e BY <1>3, <1>4, <1>6, <1>8
<1>11. /\ Len(F) = k + n + 4
       /\ \A i \in 1..(k + n + 2) : F[i] = sb[i]
       /\ F[k + n + 3] = Checksum(m) % 256 /\ F[k + n + 4] = Checksum(m) \div 256
  <2>0. /\ Len(F) = Len(sb) + Len(e)
        /\ \A i \in 1..(Len(sb) + Len(e)) :
             F[i] = IF i =< Len(sb) THEN sb[i] ELSE e[i - Len(sb)]
    <3>1. sb \in Seq(Byte) /\ e \in Seq(Byte) BY <1>2, <1>9
    <3> QED BY <1>10, <3>1, ConcatProperties
  <2>1. \A i \in 1..((k + n + 2) + 2) :
          F[i] = IF i =< k + n + 2 THEN sb[i] ELSE e[i - (k + n + 2)]
    BY <1>2, <1>9, <2>0
  <2>2. \A i \in 1..(k + n + 2) : F[i] = sb[i] BY <1>2, <2>1
  <2>3. F[k + n + 3] = e[1] /\ F[k + n + 4] = e[2]
    <3>1. /\ k + n + 3 \in 1..((k + n + 2) + 2) /\ ~ (k + n + 3 =< k + n + 2)
          /\ (k + n + 3) - (k + n + 2) = 1
          /\ k + n + 4 \in 1..((k + n + 2) + 2) /\ ~ (k + n + 4 =< k + n + 2)
          /\ (k + n + 4) - (k + n + 2) = 2
      BY <1>2
    <3> QED BY <2>1, <3>1
  <2>4. e[1] = Checksum(m) % 256 /\ e[2] = Checksum(m) \div 256 BY <1>1
  <2>5. Len(F) = (k + n + 2) + 2 BY <1>2, <1>9, <2>0
  <2> QED BY <1>2, <2>2, <2>3, <2>4, <2>5
<1>12. F[1] = Start(m) /\ F[2] = n
  <2>1. 1 \in 1..(k + n + 2) /\ 2 \in 1..(k + n + 2) /\ 1 \in 1..(k + n + 1) /\ 1 + 1 = 2
    BY <1>2
  <2> QED BY <1>7, <1>9, <1>11, <2>1
<1>13. ASSUME NEW i \in 1..(k + n) PROVE F[i + 2] = hc[i]
  <2>1. i + 2 \in 1..(k + n + 2) /\ i + 1 \in 1..(k + n + 1) /\ (i + 1) + 1 = i + 2
    BY <1>2
  <2>2. F[i + 2] = sb[i + 2] BY <1>11, <2>1
  <2>3. sb[i + 2] = bhc[i + 1] BY <1>9, <2>1
  <2>4. bhc[i + 1] = hc[i] BY <1>7
  <2> QED BY <2>2, <2>3, <2>4
<1>14. \A i \in 1..k : F[i + 2] = h[i]
  <2>1. \A i \in 1..k : i \in 1..(k + n) BY <1>2
  <2> QED BY <1>5, <1>13, <2>1
<1>15. \A i \in 1..n : F[(k + 2) + i] = c[i]
  <2> SUFFICES ASSUME NEW i \in 1..n PROVE F[(k + 2) + i] = c[i] OBVIOUS
  <2>1. k + i \in 1..(k + n) /\ (k + i) + 2 = (k + 2) + i BY <1>2
  <2>2. F[(k + i) + 2] = hc[k + i] BY <1>13, <2>1
  <2>3. hc[k + i] = c[i] BY <1>5
  <2> QED BY <2>1, <2>2, <2>3
<1>16. CASE m.v2
  <2>1. Flags(m) = 2 /\ HeaderEnd(m) = 10 BY <1>16 DEF Flags, HeaderEnd
  <2>2. h = <<0, 0, 7, m.sys, 1, m.msg, 0, 0>> BY <1>1, <1>16 DEF Header
  <2>3. /\ k = 8 /\ h[3] = 7 /\ h[4] = m.sys /\ h[5] = 1 /\ h[6] = m.msg
        /\ h[7] = 0 /\ h[8] = 0
    BY <1>1, <2>2
  <2>4. F[5] = 7 /\ F[6] = m.sys /\ F[7] = 1 /\ F[8] = m.msg /\ F[9] = 0 /\ F[10] = 0
    <3>1. 3 \in 1..k /\ 4 \in 1..k /\ 5 \in 1..k /\ 6 \in 1..k /\ 7 \in 1..k /\ 8 \in 1..k
      BY <2>3
    <3>2. /\ F[3 + 2] = 7 /\ F[4 + 2] = m.sys /\ F[5 + 2] = 1 /\ F[6 + 2] = m.msg
          /\ F[7 + 2] = 0 /\ F[8 + 2] = 0
      BY ONLY <1>14, <2>3, <3>1
    <3> QED BY <3>2
  <2> QED BY <1>1, <1>2, <1>11, <1>12, <1>15, <2>1, <2>3, <2>4
<1>17. CASE ~m.v2
  <2>1. Flags(m) = 0 /\ HeaderEnd(m) = 6 BY <1>17 DEF Flags, HeaderEnd
  <2>2. h = <<7, m.sys, 1, m.msg>> BY <1>1, <1>17 DEF Header
  <2>3. k = 4 /\ h[1] = 7 /\ h[2] = m.sys /\ h[3] = 1 /\ h[4] = m.msg BY <1>1, <2>2
  <2>4. F[3] = 7 /\ F[4] = m.sys /\ F[5] = 1 /\ F[6] = m.msg
    <3>1. 1 \in 1..k /\ 2 \in 1..k /\ 3 \in 1..k /\ 4 \in 1..k BY <2>3
    <3>2. F[1 + 2] = 7 /\ F[2 + 2] = m.sys /\ F[3 + 2] = 1 /\ F[4 + 2] = m.msg
      BY ONLY <1>14, <2>3, <3>1
    <3> QED BY <3>2
  <2> QED BY <1>1, <1>2, <1>11, <1>12, <1>15, <1>17, <2>1, <2>3, <2>4
<1> QED BY <1>16, <1>17

\* k bytes of the frame have been read: where the parser is, and what it has
\* got.
Place(p, m, k) ==
    LET flags == Flags(m)
        end   == HeaderEnd(m)
        n     == Len(Cargo(m))
    IN  \/ p.State = "GOT_LENGTH" /\ k = 1
        \/ p.State = "GOT_INCOMPAT" /\ m.v2 /\ k = 2
        \/ p.State = "GOT_COMPAT" /\ m.v2 /\ k = 3
        \/ p.State = "GOT_SEQ" /\ k = flags + 2
        \/ p.State = "GOT_SYSID" /\ k = flags + 3
        \/ p.State = "GOT_COMPID" /\ k = flags + 4
        \/ p.State = "GOT_MSGID1" /\ k = flags + 5
        \/ p.State = "GOT_MSGID2" /\ m.v2 /\ k = 8
        \/ p.State = "GOT_MSGID3" /\ m.v2 /\ k = 9
        \/ p.State = "READING_PAYLOAD" /\ k = end + Len(p.Payload) /\ Len(p.Payload) < n
        \/ p.State = "GOT_CRC1" /\ k = end + n /\ Len(p.Payload) = n
        \/ p.State = "GOT_CRC2" /\ k = end + n + 1 /\ Len(p.Payload) = n

Got(p, m, k) ==
    /\ p.IsV2 = m.v2
    /\ k >= 2 => p.PayloadLen = Len(Cargo(m))
    /\ k >= Flags(m) + 3 => p.Seq = 7
    /\ k >= Flags(m) + 4 => p.SysId = m.sys
    /\ k >= Flags(m) + 5 => p.CompId = 1
    /\ k >= Flags(m) + 6 => p.MsgId = m.msg
    /\ \A i \in 1..Len(p.Payload) : p.Payload[i] = Cargo(m)[i]
    /\ p.State = "GOT_CRC2" => p.CrcLow = Checksum(m) % 256

Reading(p, m, k) == ParserOK(p) /\ Place(p, m, k) /\ Got(p, m, k)

LEMMA Sizes ==
    ASSUME NEW m \in Message
    PROVE  /\ Flags(m) \in Nat /\ HeaderEnd(m) \in Nat /\ Len(Cargo(m)) \in Nat
           /\ HeaderEnd(m) = IF m.v2 THEN 10 ELSE 6
           /\ Flags(m) = IF m.v2 THEN 2 ELSE 0
           /\ m.v2 \in BOOLEAN
  BY PartsType, ByteIs DEF Flags, HeaderEnd

\* The header is over.
LEMMA AfterHeaderReads ==
    ASSUME NEW m \in Message, NEW q \in Parsers, q.Payload = << >>,
           q.IsV2 = m.v2, q.PayloadLen = Len(Cargo(m)), q.Seq = 7, q.SysId = m.sys,
           q.CompId = 1, q.MsgId = m.msg
    PROVE  Reading(AfterHeader(q), m, HeaderEnd(m))
<1>1. PICK n \in Nat : n = Len(Cargo(m)) BY Sizes
<1>2. PICK next : next = IF n = 0 THEN "GOT_CRC1" ELSE "READING_PAYLOAD" OBVIOUS
<1>3. PICK r : r = AfterHeader(q) OBVIOUS
<1>4. r = [q EXCEPT !.State = next] BY <1>1, <1>2, <1>3 DEF AfterHeader
<1>5. /\ r.State = next /\ r.Payload = << >> /\ r.IsV2 = m.v2 /\ r.PayloadLen = n
      /\ r.Seq = 7 /\ r.SysId = m.sys /\ r.CompId = 1 /\ r.MsgId = m.msg
  BY <1>1, <1>4 DEF Parsers
<1>6. Len(<< >>) = 0 OBVIOUS
<1>7. ParserOK(r) BY <1>3, AfterHeaderOK
<1>8. Got(r, m, HeaderEnd(m)) BY <1>1, <1>2, <1>5, <1>6 DEF Got
<1>9. Place(r, m, HeaderEnd(m))
  <2>1. HeaderEnd(m) \in Nat BY Sizes
  <2> QED BY <1>1, <1>2, <1>5, <1>6, <2>1 DEF Place
<1> QED BY <1>3, <1>7, <1>8, <1>9 DEF Reading

LEMMA FirstReads ==
    ASSUME NEW m \in Message
    PROVE  Reading(ParseByte(ResetParser, Bytes(m)[1]), m, 1)
<1>1. PICK q : q = [ResetParser EXCEPT !.State = "GOT_LENGTH", !.IsV2 = m.v2] OBVIOUS
<1>2. Bytes(m)[1] = Start(m) BY BytesAt
<1>3. Start(m) \in {MAVLINK_STX_V1, MAVLINK_STX_V2} /\ (Start(m) = MAVLINK_STX_V2) = m.v2
  BY Sizes DEF Start, MAVLINK_STX_V1, MAVLINK_STX_V2
<1>4. ResetParser.State = "WAIT_STX" BY DEF ResetParser
<1>5. ParseByte(ResetParser, Bytes(m)[1]) = q
  <2>1. PICK byte : byte = Bytes(m)[1] OBVIOUS
  <2>2. byte \in {MAVLINK_STX_V1, MAVLINK_STX_V2} BY <1>2, <1>3, <2>1
  <2>3. ParseByte(ResetParser, byte) =
          [ResetParser EXCEPT !.State = "GOT_LENGTH", !.IsV2 = (byte = MAVLINK_STX_V2)]
    BY <1>4, <2>2 DEF ParseByte
  <2>4. (byte = MAVLINK_STX_V2) = m.v2 BY <1>2, <1>3, <2>1
  <2> QED BY <1>1, <2>1, <2>3, <2>4
<1>6. q.State = "GOT_LENGTH" /\ q.IsV2 = m.v2 /\ q.Payload = << >>
  BY <1>1 DEF ResetParser
<1>7. ParserOK(q)
  <2>1. Start(m) \in Byte BY PartsType
  <2>2. ParserOK(ResetParser) /\ ResetParser.State # "GOT_CRC2" BY <1>4, ResetOK
  <2> QED BY <1>2, <1>5, <2>1, <2>2, ParseByteOK
<1>8. Len(<< >>) = 0 OBVIOUS
<1>9. Place(q, m, 1) BY <1>6 DEF Place
<1>10. Got(q, m, 1) BY <1>6, <1>8, Sizes DEF Got
<1> QED BY <1>5, <1>7, <1>9, <1>10 DEF Reading

\* Every further byte but the last leads one place on.
LEMMA NextReads ==
    ASSUME NEW m \in Message, NEW p, NEW k \in Nat, Reading(p, m, k),
           p.State # "GOT_CRC2"
    PROVE  Reading(ParseByte(p, Bytes(m)[k + 1]), m, k + 1)
<1> PICK b : b = Bytes(m)[k + 1] OBVIOUS
<1> PICK n \in Nat : n = Len(Cargo(m)) BY Sizes
<1>z. ParserOK(p) /\ Place(p, m, k) /\ Got(p, m, k) BY DEF Reading
<1>n. /\ Flags(m) \in Nat /\ HeaderEnd(m) \in Nat /\ m.v2 \in BOOLEAN
      /\ HeaderEnd(m) = (IF m.v2 THEN 10 ELSE 6) /\ Flags(m) = (IF m.v2 THEN 2 ELSE 0)
  BY Sizes
<1>p. p \in Parsers BY <1>z DEF ParserOK
<1>e. p.State \notin {"READING_PAYLOAD", "GOT_CRC1", "GOT_CRC2"} => p.Payload = << >>
  BY <1>z DEF ParserOK
<1>l. Len(<< >>) = 0 OBVIOUS
\* It is enough to see where the next parser is and what it has got.
<1>o. ASSUME Place(ParseByte(p, b), m, k + 1), Got(ParseByte(p, b), m, k + 1),
             k + 1 =< Len(Bytes(m))
      PROVE  Reading(ParseByte(p, b), m, k + 1)
  <2>1. k + 1 \in 1..Len(Bytes(m)) BY <1>o, BytesAt, Sizes
  <2>2. b \in Byte BY <2>1, BytesType, ElementOfSeq
  <2> QED BY <1>o, <1>z, <2>2, ParseByteOK DEF Reading
<1>s. n + HeaderEnd(m) + 2 = Len(Bytes(m)) /\ HeaderEnd(m) >= Flags(m) + 6
  BY <1>n, BytesAt
<1>1. CASE p.State = "GOT_LENGTH"
  <2>1. k = 1 BY <1>1, <1>z DEF Place
  <2>2. b = n BY <2>1, BytesAt
  <2>3. PICK next : next = IF p.IsV2 THEN "GOT_INCOMPAT" ELSE "GOT_SEQ" OBVIOUS
  <2>4. PICK q : q = [p EXCEPT !.PayloadLen = b, !.State = next] OBVIOUS
  <2>5. ParseByte(p, b) = q BY <1>1, <2>3, <2>4 DEF ParseByte
  <2>6. q.State = next /\ q.PayloadLen = b /\ q.Payload = << >> /\ q.IsV2 = p.IsV2
    BY <1>1, <1>e, <1>p, <2>4 DEF Parsers
  <2>7. q.IsV2 = m.v2 BY <1>z, <2>6 DEF Got
  <2>8. Got(q, m, 2) BY <1>l, <1>n, <2>2, <2>3, <2>6, <2>7 DEF Got
  <2>9. Place(q, m, 2) BY <1>n, <2>3, <2>6, <2>7 DEF Place
  <2> QED BY <1>o, <1>n, <1>s, <2>1, <2>5, <2>8, <2>9
<1>2. CASE p.State = "GOT_INCOMPAT"
  <2>1. m.v2 /\ k = 2 BY <1>2, <1>z DEF Place
  <2>2. PICK q : q = [p EXCEPT !.State = "GOT_COMPAT"] OBVIOUS
  <2>3. ParseByte(p, b) = q BY <1>2, <2>2 DEF ParseByte
  <2>4. /\ q.State = "GOT_COMPAT" /\ q.Payload = << >> /\ q.IsV2 = p.IsV2
        /\ q.PayloadLen = p.PayloadLen
    BY <1>2, <1>e, <1>p, <2>2 DEF Parsers
  <2>5. Got(q, m, 3)
    <3>1. p.IsV2 = m.v2 /\ p.PayloadLen = n BY <1>z, <2>1 DEF Got
    <3>2. Flags(m) = 2 BY <1>n, <2>1
    <3> QED BY <1>l, <2>4, <3>1, <3>2 DEF Got
  <2>6. Place(q, m, 3) BY <2>1, <2>4 DEF Place
  <2> QED BY <1>o, <1>n, <1>s, <2>1, <2>3, <2>5, <2>6
<1>3. CASE p.State = "GOT_COMPAT"
  <2>1. m.v2 /\ k = 3 BY <1>3, <1>z DEF Place
  <2>2. PICK q : q = [p EXCEPT !.State = "GOT_SEQ"] OBVIOUS
  <2>3. ParseByte(p, b) = q BY <1>3, <2>2 DEF ParseByte
  <2>4. /\ q.State = "GOT_SEQ" /\ q.Payload = << >> /\ q.IsV2 = p.IsV2
        /\ q.PayloadLen = p.PayloadLen
    BY <1>3, <1>e, <1>p, <2>2 DEF Parsers
  <2>5. Got(q, m, 4)
    <3>1. p.IsV2 = m.v2 /\ p.PayloadLen = n BY <1>z, <2>1 DEF Got
    <3>2. Flags(m) = 2 BY <1>n, <2>1
    <3> QED BY <1>l, <2>4, <3>1, <3>2 DEF Got
  <2>6. Place(q, m, 4) BY <1>n, <2>1, <2>4 DEF Place
  <2> QED BY <1>o, <1>n, <1>s, <2>1, <2>3, <2>5, <2>6
<1>4. CASE p.State = "GOT_SEQ"
  <2>1. k = Flags(m) + 2 BY <1>4, <1>z DEF Place
  <2>2. b = 7 BY <1>n, <2>1, BytesAt
  <2>3. PICK q : q = [p EXCEPT !.Seq = b, !.State = "GOT_SYSID"] OBVIOUS
  <2>4. ParseByte(p, b) = q BY <1>4, <2>3 DEF ParseByte
  <2>5. /\ q.State = "GOT_SYSID" /\ q.Payload = << >> /\ q.Seq = b
        /\ q.IsV2 = p.IsV2 /\ q.PayloadLen = p.PayloadLen
    BY <1>4, <1>e, <1>p, <2>3 DEF Parsers
  <2>6. Got(q, m, k + 1) BY <1>l, <1>n, <1>z, <2>1, <2>2, <2>5 DEF Got
  <2>7. Place(q, m, k + 1) BY <1>n, <2>1, <2>5 DEF Place
  <2> QED BY <1>o, <1>n, <1>s, <2>1, <2>4, <2>6, <2>7
<1>5. CASE p.State = "GOT_SYSID"
  <2>1. k = Flags(m) + 3 BY <1>5, <1>z DEF Place
  <2>2. b = m.sys BY <1>n, <2>1, BytesAt
  <2>3. PICK q : q = [p EXCEPT !.SysId = b, !.State = "GOT_COMPID"] OBVIOUS
  <2>4. ParseByte(p, b) = q BY <1>5, <2>3 DEF ParseByte
  <2>5. /\ q.State = "GOT_COMPID" /\ q.Payload = << >> /\ q.SysId = b
        /\ q.IsV2 = p.IsV2 /\ q.PayloadLen = p.PayloadLen /\ q.Seq = p.Seq
    BY <1>5, <1>e, <1>p, <2>3 DEF Parsers
  <2>6. Got(q, m, k + 1) BY <1>l, <1>n, <1>z, <2>1, <2>2, <2>5 DEF Got
  <2>7. Place(q, m, k + 1) BY <1>n, <2>1, <2>5 DEF Place
  <2> QED BY <1>o, <1>n, <1>s, <2>1, <2>4, <2>6, <2>7
<1>6. CASE p.State = "GOT_COMPID"
  <2>1. k = Flags(m) + 4 BY <1>6, <1>z DEF Place
  <2>2. b = 1 BY <1>n, <2>1, BytesAt
  <2>3. PICK q : q = [p EXCEPT !.CompId = b, !.State = "GOT_MSGID1"] OBVIOUS
  <2>4. ParseByte(p, b) = q BY <1>6, <2>3 DEF ParseByte
  <2>5. /\ q.State = "GOT_MSGID1" /\ q.Payload = << >> /\ q.CompId = b
        /\ q.IsV2 = p.IsV2 /\ q.PayloadLen = p.PayloadLen /\ q.Seq = p.Seq /\ q.SysId = p.SysId
    BY <1>6, <1>e, <1>p, <2>3 DEF Parsers
  <2>6. Got(q, m, k + 1) BY <1>l, <1>n, <1>z, <2>1, <2>2, <2>5 DEF Got
  <2>7. Place(q, m, k + 1) BY <1>n, <2>1, <2>5 DEF Place
  <2> QED BY <1>o, <1>n, <1>s, <2>1, <2>4, <2>6, <2>7
<1>7. CASE p.State = "GOT_MSGID1"
  <2>1. k = Flags(m) + 5 BY <1>7, <1>z DEF Place
  <2>2. b = m.msg /\ m.msg \in Nat
    <3>1. k + 1 = Flags(m) + 6 BY <1>n, <2>1
    <3>2. b = m.msg BY <3>1, BytesAt
    <3>3. m.msg \in Nat BY PartsType, ByteIs
    <3> QED BY <3>2, <3>3
  <2>3. /\ p.IsV2 = m.v2 /\ p.PayloadLen = n /\ p.Seq = 7 /\ p.SysId = m.sys
        /\ p.CompId = 1
    BY <1>n, <1>z, <2>1 DEF Got
  <2>4. CASE m.v2
    <3>1. PICK q : q = [p EXCEPT !.MsgId = b, !.State = "GOT_MSGID2"] OBVIOUS
    <3>2. ParseByte(p, b) = q BY <1>7, <2>3, <2>4, <3>1 DEF ParseByte
    <3>3. /\ q.State = "GOT_MSGID2" /\ q.Payload = << >> /\ q.MsgId = b
          /\ q.IsV2 = p.IsV2 /\ q.PayloadLen = p.PayloadLen /\ q.Seq = p.Seq
          /\ q.SysId = p.SysId /\ q.CompId = p.CompId
      BY <1>7, <1>e, <1>p, <3>1 DEF Parsers
    <3>4. Got(q, m, k + 1) BY <1>l, <2>2, <2>3, <3>3 DEF Got
    <3>5. Place(q, m, k + 1) BY <1>n, <2>1, <2>4, <3>3 DEF Place
    <3> QED BY <1>o, <1>n, <1>s, <2>1, <3>2, <3>4, <3>5
  <2>5. CASE ~m.v2
    <3>1. PICK q : q = [p EXCEPT !.MsgId = b] OBVIOUS
    <3>2. ParseByte(p, b) = AfterHeader(q) BY <1>7, <2>3, <2>5, <3>1 DEF ParseByte
    <3>3. /\ q \in Parsers /\ q.Payload = << >> /\ q.MsgId = m.msg
          /\ q.IsV2 = m.v2 /\ q.PayloadLen = n /\ q.Seq = 7
          /\ q.SysId = m.sys /\ q.CompId = 1
      BY <1>7, <1>e, <1>p, <2>2, <2>3, <3>1 DEF Parsers
    <3>4. Reading(AfterHeader(q), m, HeaderEnd(m)) BY <3>3, AfterHeaderReads
    <3>5. HeaderEnd(m) = k + 1 BY <1>n, <2>1, <2>5
    <3> QED BY <3>2, <3>4, <3>5
  <2> QED BY <1>n, <2>4, <2>5
<1>8. CASE p.State = "GOT_MSGID2"
  <2>1. m.v2 /\ k = 8 BY <1>8, <1>z DEF Place
  <2>2. b = 0 BY <2>1, BytesAt
  <2>3. /\ p.IsV2 = m.v2 /\ p.PayloadLen = n /\ p.Seq = 7 /\ p.SysId = m.sys
        /\ p.CompId = 1 /\ p.MsgId = m.msg /\ m.msg \in Nat
    BY <1>n, <1>z, <2>1, PartsType, ByteIs DEF Got
  <2>4. PICK q : q = [p EXCEPT !.MsgId = @ + 256 * b, !.State = "GOT_MSGID3"] OBVIOUS
  <2>5. ParseByte(p, b) = q BY <1>8, <2>4 DEF ParseByte
  <2>6. /\ q.State = "GOT_MSGID3" /\ q.Payload = << >> /\ q.MsgId = p.MsgId + 256 * b
        /\ q.IsV2 = p.IsV2 /\ q.PayloadLen = p.PayloadLen /\ q.Seq = p.Seq
        /\ q.SysId = p.SysId /\ q.CompId = p.CompId
    BY <1>8, <1>e, <1>p, <2>4 DEF Parsers
  <2>7. q.MsgId = m.msg BY <2>2, <2>3, <2>6
  <2>8. Got(q, m, 9) BY <1>l, <2>3, <2>6, <2>7 DEF Got
  <2>9. Place(q, m, 9) BY <2>1, <2>6 DEF Place
  <2> QED BY <1>o, <1>n, <1>s, <2>1, <2>5, <2>8, <2>9
<1>9. CASE p.State = "GOT_MSGID3"
  <2>1. m.v2 /\ k = 9 BY <1>9, <1>z DEF Place
  <2>2. b = 0 BY <2>1, BytesAt
  <2>3. /\ p.IsV2 = m.v2 /\ p.PayloadLen = n /\ p.Seq = 7 /\ p.SysId = m.sys
        /\ p.CompId = 1 /\ p.MsgId = m.msg /\ m.msg \in Nat
    BY <1>n, <1>z, <2>1, PartsType, ByteIs DEF Got
  <2>4. PICK id : id = p.MsgId + 65536 * b OBVIOUS
  <2>5. id = m.msg BY <2>2, <2>3, <2>4
  <2>6. PICK q : q = [p EXCEPT !.MsgId = id] OBVIOUS
  <2>7. ParseByte(p, b) = AfterHeader(q) BY <1>9, <2>4, <2>6 DEF ParseByte
  <2>8. /\ q \in Parsers /\ q.Payload = << >> /\ q.MsgId = m.msg
        /\ q.IsV2 = m.v2 /\ q.PayloadLen = n /\ q.Seq = 7
        /\ q.SysId = m.sys /\ q.CompId = 1
    BY <1>9, <1>e, <1>p, <2>3, <2>5, <2>6 DEF Parsers
  <2>9. Reading(AfterHeader(q), m, HeaderEnd(m)) BY <2>8, AfterHeaderReads
  <2>10. HeaderEnd(m) = k + 1 BY <1>n, <2>1
  <2> QED BY <2>7, <2>9, <2>10
<1>10. CASE p.State = "READING_PAYLOAD"
  <2>1. PICK j \in Nat : j = Len(p.Payload) BY <1>p DEF Parsers
  <2>2. k = HeaderEnd(m) + j /\ j < n BY <1>10, <1>z, <2>1 DEF Place
  <2>3. b = Cargo(m)[j + 1]
    <3>1. j + 1 \in 1..n BY <2>1, <2>2
    <3>2. HeaderEnd(m) \in Nat BY <1>n
    <3>3. HeaderEnd(m) + (j + 1) = k + 1 BY <2>2, <3>2
    <3> QED BY <3>1, <3>3, BytesAt
  <2>4. /\ p.IsV2 = m.v2 /\ p.PayloadLen = n /\ p.Seq = 7 /\ p.SysId = m.sys
        /\ p.CompId = 1 /\ p.MsgId = m.msg
        /\ \A i \in 1..j : p.Payload[i] = Cargo(m)[i]
    <3>1. k >= 2 /\ k >= Flags(m) + 6 /\ k >= Flags(m) + 5 /\ k >= Flags(m) + 4
          /\ k >= Flags(m) + 3
      <4>1. HeaderEnd(m) \in Nat /\ Flags(m) \in Nat /\ HeaderEnd(m) >= Flags(m) + 6
        BY <1>n, <1>s
      <4> QED BY <2>2, <4>1
    <3> QED BY <1>z, <2>1, <3>1 DEF Got
  <2>5. PICK next : next = IF j + 1 >= p.PayloadLen THEN "GOT_CRC1" ELSE "READING_PAYLOAD"
    OBVIOUS
  <2>6. PICK q : q = [p EXCEPT !.Payload = Append(@, b), !.State = next] OBVIOUS
  <2>7. ParseByte(p, b) = q BY <1>10, <2>1, <2>5, <2>6 DEF ParseByte
  <2>8. /\ q.State = next /\ q.Payload = Append(p.Payload, b)
        /\ q.IsV2 = p.IsV2 /\ q.PayloadLen = p.PayloadLen /\ q.Seq = p.Seq
        /\ q.SysId = p.SysId /\ q.CompId = p.CompId /\ q.MsgId = p.MsgId
    BY <1>p, <2>6 DEF Parsers
  <2>9. /\ Len(q.Payload) = j + 1
        /\ \A i \in 1..(j + 1) : q.Payload[i] = Cargo(m)[i]
    <3>1. p.Payload \in Seq(Byte) /\ b \in Byte
      <4>1. j + 1 \in 1..n /\ Cargo(m) \in Seq(Byte) BY <2>1, <2>2, PartsType
      <4> QED BY <1>p, <2>3, <4>1, ElementOfSeq DEF Parsers
    <3>2. /\ Len(Append(p.Payload, b)) = j + 1
          /\ \A i \in 1..j : Append(p.Payload, b)[i] = p.Payload[i]
          /\ Append(p.Payload, b)[j + 1] = b
      BY <2>1, <3>1, AppendProperties
    <3>3. ASSUME NEW i \in 1..(j + 1) PROVE q.Payload[i] = Cargo(m)[i]
      <4>1. i \in 1..j \/ i = j + 1 BY <2>1
      <4> QED BY <2>3, <2>4, <2>8, <3>2, <4>1
    <3> QED BY <2>8, <3>2, <3>3
  <2>10. next # "GOT_CRC2" BY <2>5
  <2>11. Got(q, m, k + 1)
    BY <2>4, <2>8, <2>9, <2>10 DEF Got
  <2>12. Place(q, m, k + 1)
    <3>1. CASE j + 1 >= n
      <4>1. next = "GOT_CRC1" /\ j + 1 = n BY <2>1, <2>2, <2>4, <2>5, <3>1
      <4>2. k + 1 = HeaderEnd(m) + n BY <1>n, <2>2, <4>1
      <4> QED BY <2>8, <2>9, <4>1, <4>2 DEF Place
    <3>2. CASE ~ (j + 1 >= n)
      <4>1. next = "READING_PAYLOAD" /\ j + 1 < n BY <2>1, <2>4, <2>5, <3>2
      <4>2. k + 1 = HeaderEnd(m) + (j + 1) BY <1>n, <2>2
      <4> QED BY <2>8, <2>9, <4>1, <4>2 DEF Place
    <3> QED BY <3>1, <3>2
  <2> QED BY <1>o, <1>n, <1>s, <2>2, <2>7, <2>11, <2>12
<1>11. CASE p.State = "GOT_CRC1"
  <2>1. k = HeaderEnd(m) + n /\ Len(p.Payload) = n BY <1>11, <1>z DEF Place
  <2>2. b = Checksum(m) % 256 BY <2>1, BytesAt
  <2>3. /\ p.IsV2 = m.v2 /\ p.PayloadLen = n /\ p.Seq = 7 /\ p.SysId = m.sys
        /\ p.CompId = 1 /\ p.MsgId = m.msg
        /\ \A i \in 1..n : p.Payload[i] = Cargo(m)[i]
    BY <1>n, <1>z, <2>1 DEF Got
  <2>4. PICK q : q = [p EXCEPT !.CrcLow = b, !.State = "GOT_CRC2"] OBVIOUS
  <2>5. ParseByte(p, b) = q BY <1>11, <2>4 DEF ParseByte
  <2>6. /\ q.State = "GOT_CRC2" /\ q.CrcLow = b /\ q.Payload = p.Payload
        /\ q.IsV2 = p.IsV2 /\ q.PayloadLen = p.PayloadLen /\ q.Seq = p.Seq
        /\ q.SysId = p.SysId /\ q.CompId = p.CompId /\ q.MsgId = p.MsgId
    BY <1>p, <2>4 DEF Parsers
  <2>7. Got(q, m, k + 1) BY <2>1, <2>2, <2>3, <2>6 DEF Got
  <2>8. Place(q, m, k + 1) BY <2>1, <2>6 DEF Place
  <2> QED BY <1>o, <1>n, <1>s, <2>1, <2>5, <2>7, <2>8
<1> QED BY <1>z, <1>1, <1>2, <1>3, <1>4, <1>5, <1>6, <1>7, <1>8, <1>9, <1>10, <1>11
      DEF Place

LEMMA HeaderV2 ==
    ASSUME NEW S, NEW o \in S, NEW f \in S, NEW s \in S, NEW c \in S, NEW x \in S
    PROVE  <<o, o>> \o (<<f, s, c, x>> \o <<o, o>>) = <<o, o, f, s, c, x, o, o>>
<1> PICK a, b, t, h : /\ a = <<o, o>> /\ b = <<f, s, c, x>> /\ t = b \o a
                      /\ h = <<o, o, f, s, c, x, o, o>>
  OBVIOUS
<1>1. a \in Seq(S) /\ b \in Seq(S) /\ h \in Seq(S) OBVIOUS
<1>2. Len(a) = 2 /\ Len(b) = 4 /\ Len(h) = 8 OBVIOUS
<1>3. /\ a[1] = o /\ a[2] = o /\ b[1] = f /\ b[2] = s /\ b[3] = c /\ b[4] = x
      /\ h[1] = o /\ h[2] = o /\ h[3] = f /\ h[4] = s /\ h[5] = c /\ h[6] = x
      /\ h[7] = o /\ h[8] = o
  OBVIOUS
<1>4. /\ t \in Seq(S) /\ Len(t) = 6
      /\ \A i \in 1..6 : t[i] = IF i =< 4 THEN b[i] ELSE a[i - 4]
  BY <1>1, <1>2, ConcatProperties
<1>5. /\ t[1] = f /\ t[2] = s /\ t[3] = c /\ t[4] = x /\ t[5] = o /\ t[6] = o
  BY <1>3, <1>4
<1>6. /\ a \o t \in Seq(S) /\ Len(a \o t) = 8
      /\ \A i \in 1..8 : (a \o t)[i] = IF i =< 2 THEN a[i] ELSE t[i - 2]
  BY <1>1, <1>2, <1>4, ConcatProperties
<1>7. ASSUME NEW i \in 1..8 PROVE (a \o t)[i] = h[i]
  <2>1. i \in {1, 2, 3, 4, 5, 6, 7, 8} OBVIOUS
  <2>2. /\ (a \o t)[1] = a[1] /\ (a \o t)[2] = a[2] /\ (a \o t)[3] = t[1]
        /\ (a \o t)[4] = t[2] /\ (a \o t)[5] = t[3] /\ (a \o t)[6] = t[4]
        /\ (a \o t)[7] = t[5] /\ (a \o t)[8] = t[6]
    BY <1>6
  <2> QED BY <1>3, <1>5, <2>1, <2>2
<1>8. a \o t = h BY ONLY <1>1, <1>2, <1>6, <1>7, SeqEqual
<1> QED BY <1>8

\* The parser adds up the bytes the sender has added up.
LEMMA SameBytes ==
    ASSUME NEW m \in Message, NEW p, p.IsV2 = m.v2, p.PayloadLen = Len(Cargo(m)),
           p.Seq = 7, p.SysId = m.sys, p.CompId = 1, p.MsgId = m.msg,
           p.Payload = Cargo(m), NEW e
    PROVE  ComputeFrameCrc(p, e) = Crc(Body(m) \o <<e>>)
<1> PICK n, c, s, x : n = Len(Cargo(m)) /\ c = Cargo(m) /\ s = m.sys /\ x = m.msg OBVIOUS
<1>1. /\ n \in Byte /\ c \in Seq(Byte) /\ s \in Byte /\ x \in Byte /\ m.v2 \in BOOLEAN
      /\ 0 \in Byte /\ 1 \in Byte /\ 7 \in Byte
  BY PartsType, Small
<1>2. x % 256 = x /\ (x \div 256) % 256 = 0 /\ x \div 65536 = 0
  <2>1. x \in Nat /\ x =< 255 BY <1>1, ByteIs
  <2>2. x % 256 = x /\ x \div 256 = 0 /\ x \div 65536 = 0 BY <2>1
  <2> QED BY <2>2
<1>3. CASE m.v2
  <2>1. ComputeFrameCrc(p, e)
          = Crc(((((<<n>> \o <<0, 0>>) \o <<7, s, 1, x>>) \o <<0, 0>>) \o c) \o <<e>>)
    BY <1>2, <1>3 DEF ComputeFrameCrc
  <2>2. Body(m) = <<n>> \o (<<0, 0, 7, s, 1, x, 0, 0>> \o c)
    BY <1>3 DEF Body, Header
  <2>3. <<n>> \o (<<0, 0, 7, s, 1, x, 0, 0>> \o c)
          = (<<n>> \o <<0, 0, 7, s, 1, x, 0, 0>>) \o c
    <3>1. <<n>> \in Seq(Byte) /\ <<0, 0, 7, s, 1, x, 0, 0>> \in Seq(Byte) BY <1>1
    <3> QED BY <1>1, <3>1, ConcatAssociative
  <2>4. ((<<n>> \o <<0, 0>>) \o <<7, s, 1, x>>) \o <<0, 0>>
          = <<n>> \o <<0, 0, 7, s, 1, x, 0, 0>>
    <3> PICK a, z, h, t : /\ a = <<n>> /\ z = <<0, 0>> /\ h = <<7, s, 1, x>>
                          /\ t = <<0, 0, 7, s, 1, x, 0, 0>>
      OBVIOUS
    <3>1. a \in Seq(Byte) /\ z \in Seq(Byte) /\ h \in Seq(Byte) BY <1>1
    <3>2. a \o z \in Seq(Byte) /\ h \o z \in Seq(Byte) BY <3>1, Joined
    <3>3. ((a \o z) \o h) \o z = (a \o z) \o (h \o z)
      BY <3>1, <3>2, ConcatAssociative
    <3>4. (a \o z) \o (h \o z) = a \o (z \o (h \o z))
      BY <3>1, <3>2, ConcatAssociative
    <3>5. z \o (h \o z) = t BY <1>1, HeaderV2
    <3> QED BY <3>3, <3>4, <3>5
  <2> QED BY <2>1, <2>2, <2>3, <2>4
<1>4. CASE ~m.v2
  <2>1. ComputeFrameCrc(p, e)
          = Crc(((((<<n>> \o << >>) \o <<7, s, 1, x>>) \o << >>) \o c) \o <<e>>)
    BY <1>2, <1>4 DEF ComputeFrameCrc
  <2>2. Body(m) = <<n>> \o (<<7, s, 1, x>> \o c) BY <1>4 DEF Body, Header
  <2>3. <<n>> \o (<<7, s, 1, x>> \o c) = (<<n>> \o <<7, s, 1, x>>) \o c
    <3>1. <<n>> \in Seq(Byte) /\ <<7, s, 1, x>> \in Seq(Byte) BY <1>1
    <3> QED BY <1>1, <3>1, ConcatAssociative
  <2>4. ((<<n>> \o << >>) \o <<7, s, 1, x>>) \o << >> = <<n>> \o <<7, s, 1, x>>
    <3> PICK a, h : a = <<n>> /\ h = <<7, s, 1, x>> OBVIOUS
    <3>1. a \in Seq(Byte) /\ h \in Seq(Byte) BY <1>1
    <3>2. a \o h \in Seq(Byte) BY <3>1, Joined
    <3>3. a \o << >> = a /\ (a \o h) \o << >> = a \o h
      BY <3>1, <3>2, ConcatEmptySeq
    <3> QED BY <3>3
  <2> QED BY <2>1, <2>2, <2>3, <2>4
<1> QED BY <1>1, <1>3, <1>4

LEMMA LastReads ==
    ASSUME NEW m \in Message, NEW p, NEW k, Reading(p, m, k), p.State = "GOT_CRC2"
    PROVE  /\ k + 1 = Len(Bytes(m))
           /\ p.MsgId = m.msg /\ p.SysId = m.sys /\ p.Payload = Cargo(m)
           /\ m.msg \in Known => GoodFrame(p, Bytes(m)[k + 1])
<1> PICK n \in Nat : n = Len(Cargo(m)) BY Sizes
<1>1. ParserOK(p) /\ Place(p, m, k) /\ Got(p, m, k) BY DEF Reading
<1>2. k = HeaderEnd(m) + n + 1 /\ Len(p.Payload) = n BY <1>1 DEF Place
<1>3. HeaderEnd(m) \in Nat /\ Flags(m) \in Nat /\ HeaderEnd(m) >= Flags(m) + 6 BY Sizes
<1>4. /\ p.IsV2 = m.v2 /\ p.PayloadLen = n /\ p.Seq = 7 /\ p.SysId = m.sys
      /\ p.CompId = 1 /\ p.MsgId = m.msg /\ p.CrcLow = Checksum(m) % 256
      /\ \A i \in 1..n : p.Payload[i] = Cargo(m)[i]
  <2>1. k >= 2 /\ k >= Flags(m) + 6 /\ k >= Flags(m) + 5 /\ k >= Flags(m) + 4
        /\ k >= Flags(m) + 3
    BY <1>2, <1>3
  <2> QED BY <1>1, <1>2, <2>1 DEF Got
<1>5. p.Payload = Cargo(m)
  <2>1. p.Payload \in Seq(Byte) /\ Cargo(m) \in Seq(Byte)
    BY <1>1, PartsType DEF ParserOK, Parsers
  <2> QED BY <1>2, <1>4, <2>1, SeqEqual
<1>6. k + 1 = HeaderEnd(m) + n + 2 BY <1>2, <1>3
<1>7. Bytes(m)[k + 1] = Checksum(m) \div 256 BY <1>6, BytesAt
<1>8. ASSUME m.msg \in Known PROVE GoodFrame(p, Bytes(m)[k + 1])
  <2>1. ComputeFrameCrc(p, Extra(m)) = Checksum(m)
    BY <1>4, <1>5, SameBytes DEF Checksum
  <2>2. CrcExtra[p.MsgId] = Extra(m) BY <1>4, <1>8 DEF Extra
  <2>3. Checksum(m) = p.CrcLow + 256 * Bytes(m)[k + 1]
    <3>1. PICK crc : crc = Checksum(m) OBVIOUS
    <3>2. crc \in Nat BY <3>1, PartsType DEF Word
    <3>3. crc = (crc % 256) + 256 * (crc \div 256) BY <3>2
    <3> QED BY <1>4, <1>7, <3>1, <3>3
  <2> QED BY <2>1, <2>2, <2>3 DEF GoodFrame
<1>9. k + 1 = Len(Bytes(m)) BY <1>6, BytesAt
<1> QED BY <1>4, <1>5, <1>8, <1>9

------------------------------------------------------------------------------
(* What a frame does *)

LEMMA CargoIs ==
    ASSUME NEW m \in Message
    PROVE  /\ m.payload \in Seq(Byte) /\ Cargo(m) \in Seq(Byte)
           /\ Len(Cargo(m)) \in Nat /\ Len(m.payload) \in Nat
           /\ Len(Cargo(m)) =< Len(m.payload)
           /\ \A i \in 1..Len(Cargo(m)) : Cargo(m)[i] = m.payload[i]
           /\ ~m.v2 => Len(Cargo(m)) = Len(m.payload)
           /\ m.v2 => /\ Kept(m.payload, Len(Cargo(m)))
                      /\ \A n \in 0..Len(m.payload) :
                           Kept(m.payload, n) => n =< Len(Cargo(m))
<1>1. PICK s : s = m.payload OBVIOUS
<1>2. s \in Seq(Byte) /\ Cargo(m) \in Seq(Byte) BY <1>1, PartsType
<1>3. Len(s) \in Nat /\ Len(Cargo(m)) \in Nat BY <1>2
<1>4. CASE m.v2
  <2>1. Cargo(m) = Trim(s) BY <1>1, <1>4 DEF Cargo
  <2>2. PICK c \in 0..Len(s) :
          /\ Kept(s, c) /\ \A n \in 0..Len(s) : Kept(s, n) => n =< c
          /\ Len(Trim(s)) = c
          /\ \A i \in 1..c : Trim(s)[i] = s[i]
    BY <1>2, TrimIs
  <2> QED BY <1>1, <1>2, <1>3, <1>4, <2>1, <2>2
<1>5. CASE ~m.v2
  <2>1. Cargo(m) = s BY <1>1, <1>5 DEF Cargo
  <2> QED BY <1>1, <1>2, <1>3, <1>5, <2>1
<1> QED BY <1>4, <1>5

\* A payload that does not end in zero arrives as it is.
LEMMA CargoWhole ==
    ASSUME NEW m \in Message, Len(m.payload) >= 1, m.payload[Len(m.payload)] # 0
    PROVE  /\ Len(Cargo(m)) = Len(m.payload)
           /\ \A i \in 1..Len(m.payload) : Cargo(m)[i] = m.payload[i]
<1>1. PICK n \in Nat : n = Len(m.payload) BY CargoIs
<1>2. n \in n..Len(m.payload) /\ n \in 0..Len(m.payload) BY <1>1
<1>3. Kept(m.payload, n) BY <1>1, <1>2 DEF Kept
<1>4. m.v2 => n =< Len(Cargo(m)) BY <1>2, <1>3, CargoIs
<1>5. Len(Cargo(m)) = n BY <1>1, <1>4, CargoIs
<1> QED BY <1>1, <1>5, CargoIs

\* Of two fields v2 cuts the second one when it is zero, and zero-extension
\* restores it.
LEMMA CargoPair ==
    ASSUME NEW m \in Message, Len(m.payload) = PAYLOAD_LEN
    PROVE  /\ Len(Cargo(m)) =< PAYLOAD_LEN
           /\ \A i \in 1..PAYLOAD_LEN : ZeroExtended(Cargo(m))[i] = m.payload[i]
           /\ Len(Cargo(m)) < PAYLOAD_LEN <=> m.v2 /\ m.payload[2] = 0
           /\ Cargo(m)[1] = m.payload[1]
           /\ ~ (m.v2 /\ m.payload[2] = 0) => Cargo(m)[2] = m.payload[2]
<1>1. PICK s, c : s = m.payload /\ c = Len(Cargo(m)) OBVIOUS
<1>2. Len(s) = 2 /\ c \in Nat /\ c =< 2 /\ PAYLOAD_LEN = 2
  BY <1>1, CargoIs DEF PAYLOAD_LEN
<1>3. m.v2 => 1 =< c
  <2>1. 1 \in 0..Len(s) /\ Kept(s, 1) BY <1>2 DEF Kept
  <2> QED BY <1>1, <2>1, CargoIs
<1>4. ~m.v2 => c = 2 BY <1>1, <1>2, CargoIs
<1>5. m.v2 /\ s[2] = 0 => c = 1
  <2> SUFFICES ASSUME m.v2, s[2] = 0, c = 2 PROVE FALSE BY <1>2, <1>3
  <2>1. Kept(s, c) BY <1>1, CargoIs
  <2>2. PICK i \in 2..2 : s[i] # 0 BY <1>2, <2>1 DEF Kept
  <2> QED BY <2>2
<1>6. m.v2 /\ s[2] # 0 => c = 2
  <2> SUFFICES ASSUME m.v2, s[2] # 0 PROVE c = 2 OBVIOUS
  <2>1. 2 \in 0..Len(s) /\ 2 \in 2..Len(s) BY <1>2
  <2>2. Kept(s, 2) BY <2>1 DEF Kept
  <2>3. 2 =< c BY <1>1, <2>1, <2>2, CargoIs
  <2> QED BY <1>2, <2>3
<1>7. c = IF m.v2 /\ s[2] = 0 THEN 1 ELSE 2
  BY <1>4, <1>5, <1>6, PartsType
<1>8. 1 \in 1..c BY <1>7
<1>9. Cargo(m)[1] = s[1] BY <1>1, <1>8, CargoIs
<1>10. ~ (m.v2 /\ s[2] = 0) => Cargo(m)[2] = s[2]
  <2>1. ~ (m.v2 /\ s[2] = 0) => 2 \in 1..c BY <1>7
  <2> QED BY <1>1, <2>1, CargoIs
<1>11. ASSUME NEW i \in 1..PAYLOAD_LEN PROVE ZeroExtended(Cargo(m))[i] = s[i]
  <2>1. ZeroExtended(Cargo(m))[i] = IF i =< c THEN Cargo(m)[i] ELSE 0
    BY <1>1 DEF ZeroExtended
  <2>2. i = 1 \/ i = 2 BY <1>2
  <2>3. CASE i = 1 BY <1>7, <1>9, <2>1, <2>3
  <2>4. CASE i = 2 BY <1>7, <1>10, <2>1, <2>4
  <2> QED BY <2>2, <2>3, <2>4
<1> QED BY <1>1, <1>2, <1>7, <1>9, <1>10, <1>11

LEMMA Numbers ==
    /\ HEARTBEAT = 0 /\ SYS_TIME = 2 /\ GPS_RAW = 24 /\ ATTITUDE = 30 /\ LOCAL_NED = 32
    /\ GLOBAL_INT = 33 /\ COMMAND_ACK = 77 /\ EKF_STATUS = 193
    /\ Known = {HEARTBEAT, SYS_TIME, GPS_RAW, ATTITUDE, LOCAL_NED, GLOBAL_INT,
                COMMAND_ACK, EKF_STATUS}
    /\ PAYLOAD_LEN = 2 /\ HEARTBEAT_LEN = 3
    /\ Outputs = {"Attitude", "EkfLocal", "GpsRaw", "EkfStatus", "SysTime"}
  BY DEF HEARTBEAT, SYS_TIME, GPS_RAW, ATTITUDE, LOCAL_NED, GLOBAL_INT, COMMAND_ACK,
         EKF_STATUS, Known, CrcExtra, PAYLOAD_LEN, HEARTBEAT_LEN, Outputs

\* The output of a message, and the messages without one.
LEMMA FedOutput ==
    ASSUME NEW m, NEW o
    PROVE  /\ m.msg = ATTITUDE => (Feeds(m, o) <=> o = "Attitude")
           /\ m.msg \in {LOCAL_NED, GLOBAL_INT} => (Feeds(m, o) <=> o = "EkfLocal")
           /\ m.msg = GPS_RAW => (Feeds(m, o) <=> o = "GpsRaw")
           /\ m.msg = EKF_STATUS => (Feeds(m, o) <=> o = "EkfStatus")
           /\ m.msg = SYS_TIME => (Feeds(m, o) <=> o = "SysTime")
           /\ m.msg \notin {ATTITUDE, LOCAL_NED, GLOBAL_INT, GPS_RAW, EKF_STATUS, SYS_TIME}
                => ~Feeds(m, o)
  BY Numbers DEF Feeds

\* The outputs after this message.
GivesItsValue(m) ==
    \A o \in Outputs :
        IF Feeds(m, o) /\ Usable(m) THEN tlm'[o].value = Value(m) ELSE tlm'[o] = tlm[o]

LEMMA UnfedValues ==
    ASSUME NEW m, UNCHANGED tlm, ~Usable(m) \/ \A o \in Outputs : ~Feeds(m, o)
    PROVE  GivesItsValue(m)
  BY DEF GivesItsValue

LEMMA FedValues ==
    ASSUME OutputsExist, NEW m, NEW out \in Outputs, NEW c, Put(out, c), Usable(m),
           c.value = Value(m), \A o \in Outputs : Feeds(m, o) <=> o = out
    PROVE  GivesItsValue(m)
<1> SUFFICES ASSUME NEW o \in Outputs
             PROVE IF Feeds(m, o) /\ Usable(m) THEN tlm'[o].value = Value(m)
                                                ELSE tlm'[o] = tlm[o]
  BY DEF GivesItsValue
<1>1. DOMAIN tlm = Outputs /\ tlm' = [tlm EXCEPT ![out] = c] BY DEF OutputsExist, Put
<1>2. CASE o = out
  <2>1. tlm'[o] = c BY <1>1, <1>2
  <2> QED BY <1>2, <2>1
<1>3. CASE o # out
  <2>1. tlm'[o] = tlm[o] BY <1>1, <1>3
  <2> QED BY <1>3, <2>1
<1> QED BY <1>2, <1>3

LEMMA ContentValue ==
    ASSUME NEW v, NEW code PROVE Fresh(v).value = v /\ Unfit(code, v).value = v
  BY DEF Fresh, Unfit

\* A message of two fields or more, of those that are zero-extended.
LEMMA ExtendedOrLong ==
    ASSUME NEW m \in Message, Regular(m),
           m.msg \in {ATTITUDE, LOCAL_NED, GLOBAL_INT, SYS_TIME}
    PROVE  \/ /\ Len(m.payload) = PAYLOAD_LEN /\ Len(Cargo(m)) =< PAYLOAD_LEN
              /\ ~ (Len(Cargo(m)) > PAYLOAD_LEN)
              /\ \A i \in 1..PAYLOAD_LEN : ZeroExtended(Cargo(m))[i] = m.payload[i]
           \/ Len(m.payload) # PAYLOAD_LEN /\ Len(Cargo(m)) > PAYLOAD_LEN
<1>1. PICK n \in Nat, c \in Nat : n = Len(m.payload) /\ c = Len(Cargo(m)) BY CargoIs
<1>2. PAYLOAD_LEN = 2 /\ n >= 2 BY <1>1, Numbers DEF Regular
<1>3. CASE n = 2
  <2>1. Len(m.payload) = PAYLOAD_LEN BY <1>1, <1>2, <1>3
  <2>2. /\ Len(Cargo(m)) =< PAYLOAD_LEN
        /\ \A i \in 1..PAYLOAD_LEN : ZeroExtended(Cargo(m))[i] = m.payload[i]
    BY <2>1, CargoPair
  <2>3. ~ (Len(Cargo(m)) > PAYLOAD_LEN) BY <1>1, <1>2, <2>2
  <2> QED BY <2>1, <2>2, <2>3
<1>4. CASE n > 2
  <2>1. m.payload[Len(m.payload)] # 0 BY <1>1, <1>2, <1>4, Numbers DEF Regular
  <2>2. c = n BY <1>1, <1>4, <2>1, CargoWhole
  <2>3. n # PAYLOAD_LEN /\ c > PAYLOAD_LEN BY <1>4, <2>2 DEF PAYLOAD_LEN
  <2> QED BY <1>1, <2>3
<1>5. n = 2 \/ n > 2 BY <1>2
<1> QED BY <1>3, <1>4, <1>5

LEMMA FinitePair ==
    ASSUME NEW m \in Message, Len(m.payload) = PAYLOAD_LEN
    PROVE  ValuesFinite(ZeroExtended(Cargo(m)))
             <=> \A i \in DOMAIN m.payload : m.payload[i] # NaN
<1>1. DOMAIN m.payload = 1..PAYLOAD_LEN
  <2>1. m.payload \in Seq(Byte) BY CargoIs
  <2> QED BY <2>1
<1>2. \A i \in 1..PAYLOAD_LEN : ZeroExtended(Cargo(m))[i] = m.payload[i] BY CargoPair
<1> QED BY <1>1, <1>2 DEF ValuesFinite

\* A telemetry message that arrives whole gives its output its value when it is
\* usable, and leaves all values alone otherwise.
LEMMA TelemetryEffect ==
    ASSUME OutputsExist, NEW m \in Message, Regular(m), NEW p, p.MsgId = m.msg,
           p.Payload = Cargo(m), HandleTelemetry(p),
           m.msg \in Known \ {HEARTBEAT, COMMAND_ACK}
    PROVE  GivesItsValue(m)
<1>o. /\ "Attitude" \in Outputs /\ "EkfLocal" \in Outputs /\ "GpsRaw" \in Outputs
      /\ "EkfStatus" \in Outputs /\ "SysTime" \in Outputs /\ PAYLOAD_LEN = 2
  BY Numbers
<1>n. PICK n \in Nat, c \in Nat : n = Len(m.payload) /\ c = Len(Cargo(m)) BY CargoIs
<1>b. 1 \in 1..PAYLOAD_LEN /\ 2 \in 1..PAYLOAD_LEN BY <1>o
<1>g. ASSUME NEW out \in Outputs, NEW new, \A o \in Outputs : Feeds(m, o) <=> o = out,
             new.value = Value(m),
             IF Usable(m) THEN Put(out, new) ELSE UNCHANGED tlm
      PROVE  GivesItsValue(m)
  <2>1. CASE Usable(m) BY <1>g, <2>1, FedValues
  <2>2. CASE ~Usable(m) BY <1>g, <2>2, UnfedValues
  <2> QED BY <2>1, <2>2
<1>1. CASE m.msg = ATTITUDE
  <2>1. PublishAttitude(p) BY <1>1, Numbers DEF HandleTelemetry
  <2>2. \A o \in Outputs : Feeds(m, o) <=> o = "Attitude" BY <1>1, FedOutput
  <2>3. Fresh(m.payload[2]).value = Value(m) BY <1>1, ContentValue, Numbers DEF Value
  <2>4. CASE Len(m.payload) = PAYLOAD_LEN
    <3>1. ~ (Len(p.Payload) > PAYLOAD_LEN) BY <1>1, <2>4, ExtendedOrLong
    <3>2. ZeroExtended(p.Payload)[2] = m.payload[2] BY <1>b, <2>4, CargoPair
    <3>3. Usable(m) <=> ValuesFinite(ZeroExtended(p.Payload))
      BY <1>1, <2>4, FinitePair, Numbers DEF Usable
    <3>4. IF Usable(m) THEN Put("Attitude", Fresh(m.payload[2])) ELSE UNCHANGED tlm
      BY <2>1, <3>1, <3>2, <3>3, Zenon DEF PublishAttitude
    <3> QED BY <1>g, <1>o, <2>2, <2>3, <3>4
  <2>5. CASE Len(m.payload) # PAYLOAD_LEN
    <3>1. Len(p.Payload) > PAYLOAD_LEN BY <1>1, <2>5, ExtendedOrLong
    <3>2. UNCHANGED tlm BY <2>1, <3>1 DEF PublishAttitude
    <3> QED BY <2>5, <3>2, UnfedValues DEF Usable
  <2> QED BY <2>4, <2>5
<1>2. CASE m.msg = LOCAL_NED
  <2>1. PublishEkfLocal(p) BY <1>2, Numbers DEF HandleTelemetry
  <2>2. \A o \in Outputs : Feeds(m, o) <=> o = "EkfLocal" BY <1>2, FedOutput
  <2>3. Fresh(m.payload[2]).value = Value(m) BY <1>2, ContentValue, Numbers DEF Value
  <2>4. CASE Len(m.payload) = PAYLOAD_LEN
    <3>1. ~ (Len(p.Payload) > PAYLOAD_LEN) BY <1>2, <2>4, ExtendedOrLong
    <3>2. ZeroExtended(p.Payload)[2] = m.payload[2] BY <1>b, <2>4, CargoPair
    <3>3. Usable(m) <=> ValuesFinite(ZeroExtended(p.Payload))
      BY <1>2, <2>4, FinitePair, Numbers DEF Usable
    <3>4. IF Usable(m) THEN Put("EkfLocal", Fresh(m.payload[2])) ELSE UNCHANGED tlm
      BY <2>1, <3>1, <3>2, <3>3, Zenon DEF PublishEkfLocal
    <3> QED BY <1>g, <1>o, <2>2, <2>3, <3>4
  <2>5. CASE Len(m.payload) # PAYLOAD_LEN
    <3>1. Len(p.Payload) > PAYLOAD_LEN BY <1>2, <2>5, ExtendedOrLong
    <3>2. UNCHANGED tlm BY <2>1, <3>1 DEF PublishEkfLocal
    <3> QED BY <2>5, <3>2, UnfedValues DEF Usable
  <2> QED BY <2>4, <2>5
<1>3. CASE m.msg = GLOBAL_INT
  <2>1. PublishGlobalPositionAsLocal(p) BY <1>3, Numbers DEF HandleTelemetry
  <2>2. \A o \in Outputs : Feeds(m, o) <=> o = "EkfLocal" BY <1>3, FedOutput
  <2>3. Fresh(m.payload[2]).value = Value(m) BY <1>3, ContentValue, Numbers DEF Value
  <2>4. CASE Len(m.payload) = PAYLOAD_LEN
    <3>1. ~ (Len(p.Payload) > PAYLOAD_LEN) BY <1>3, <2>4, ExtendedOrLong
    <3>2. ZeroExtended(p.Payload)[2] = m.payload[2] BY <1>b, <2>4, CargoPair
    <3>3. Usable(m) BY <1>3, <2>4, Numbers DEF Usable
    <3>4. Put("EkfLocal", Fresh(m.payload[2]))
      BY <2>1, <3>1, <3>2, Zenon DEF PublishGlobalPositionAsLocal
    <3> QED BY <1>g, <1>o, <2>2, <2>3, <3>3, <3>4
  <2>5. CASE Len(m.payload) # PAYLOAD_LEN
    <3>1. Len(p.Payload) > PAYLOAD_LEN BY <1>3, <2>5, ExtendedOrLong
    <3>2. UNCHANGED tlm BY <2>1, <3>1 DEF PublishGlobalPositionAsLocal
    <3> QED BY <2>5, <3>2, UnfedValues DEF Usable
  <2> QED BY <2>4, <2>5
<1>4. CASE m.msg = SYS_TIME
  <2>1. HandleSysTime(p) BY <1>4, Numbers DEF HandleTelemetry
  <2>2. \A o \in Outputs : Feeds(m, o) <=> o = "SysTime" BY <1>4, FedOutput
  <2>3. Fresh(m.payload[1]).value = Value(m) BY <1>4, ContentValue, Numbers DEF Value
  <2>4. CASE Len(m.payload) = PAYLOAD_LEN
    <3>1. ~ (Len(p.Payload) > PAYLOAD_LEN) BY <1>4, <2>4, ExtendedOrLong
    <3>2. ZeroExtended(p.Payload)[1] = m.payload[1] BY <1>b, <2>4, CargoPair
    <3>3. Usable(m) <=> m.payload[1] # 0 BY <1>4, <2>4, Numbers DEF Usable
    <3>4. IF Usable(m) THEN Put("SysTime", Fresh(m.payload[1])) ELSE UNCHANGED tlm
      BY <2>1, <3>1, <3>2, <3>3, Zenon DEF HandleSysTime
    <3> QED BY <1>g, <1>o, <2>2, <2>3, <3>4
  <2>5. CASE Len(m.payload) # PAYLOAD_LEN
    <3>1. Len(p.Payload) > PAYLOAD_LEN BY <1>4, <2>5, ExtendedOrLong
    <3>2. UNCHANGED tlm BY <2>1, <3>1 DEF HandleSysTime
    <3> QED BY <2>5, <3>2, UnfedValues DEF Usable
  <2> QED BY <2>4, <2>5
<1>5. ASSUME m.msg \in {GPS_RAW, EKF_STATUS}
      PROVE  /\ Usable(m) <=> ~ (Len(p.Payload) < PAYLOAD_LEN)
             /\ Usable(m) => p.Payload[1] = m.payload[1] /\ p.Payload[2] = m.payload[2]
  <2>1. n =< 2 BY <1>5, <1>n, <1>o DEF Regular
  <2>2. CASE n = 2
    <3>1. Len(m.payload) = PAYLOAD_LEN BY <1>n, <1>o, <2>2
    <3>2. Usable(m) <=> ~ (m.v2 /\ m.payload[2] = 0)
      BY <1>5, <3>1, Numbers DEF Usable
    <3> QED BY <3>1, <3>2, CargoPair
  <2>3. CASE n # 2
    <3>1. Len(p.Payload) < PAYLOAD_LEN
      <4>1. c =< n BY <1>n, CargoIs
      <4>2. c < PAYLOAD_LEN BY <2>1, <2>3, <4>1 DEF PAYLOAD_LEN
      <4> QED BY <1>n, <4>2
    <3>2. Len(m.payload) # PAYLOAD_LEN BY <1>n, <1>o, <2>3
    <3> QED BY <3>1, <3>2 DEF Usable
  <2> QED BY <2>2, <2>3
<1>6. CASE m.msg = GPS_RAW
  <2>1. PublishGpsRaw(p) BY <1>6, Numbers DEF HandleTelemetry
  <2>2. \A o \in Outputs : Feeds(m, o) <=> o = "GpsRaw" BY <1>6, FedOutput
  <2>3. /\ Fresh(m.payload[1]).value = Value(m)
        /\ Unfit("GPS_NO_FIX", m.payload[1]).value = Value(m)
    BY <1>6, ContentValue, Numbers DEF Value
  <2>4. CASE Usable(m)
    <3>1. Put("GpsRaw", Fresh(m.payload[1])) \/ Put("GpsRaw", Unfit("GPS_NO_FIX", m.payload[1]))
      BY <1>5, <1>6, <2>1, <2>4, Zenon DEF PublishGpsRaw
    <3> QED BY <1>g, <1>o, <2>2, <2>3, <2>4, <3>1
  <2>5. CASE ~Usable(m)
    <3>1. UNCHANGED tlm BY <1>5, <1>6, <2>1, <2>5 DEF PublishGpsRaw
    <3> QED BY <2>5, <3>1, UnfedValues
  <2> QED BY <2>4, <2>5
<1>7. CASE m.msg = EKF_STATUS
  <2>1. PublishEkfStatus(p) BY <1>7, Numbers DEF HandleTelemetry
  <2>2. \A o \in Outputs : Feeds(m, o) <=> o = "EkfStatus" BY <1>7, FedOutput
  <2>3. /\ Fresh(m.payload[2]).value = m.payload[2] /\ Unfit("EKF_UNHEALTHY", 0).value = 0
        /\ Value(m) = m.payload[2]
    BY <1>7, ContentValue, Numbers DEF Value
  <2>4. CASE Usable(m)
    <3>1. p.Payload[2] = m.payload[2] /\ ~ (Len(p.Payload) < PAYLOAD_LEN)
      BY <1>5, <1>7, <2>4
    <3>2. CASE m.payload[2] # 0
      <4>1. Put("EkfStatus", Fresh(m.payload[2]))
        BY <2>1, <3>1, <3>2 DEF PublishEkfStatus
      <4> QED BY <1>g, <1>o, <2>2, <2>3, <2>4, <4>1
    <3>3. CASE m.payload[2] = 0
      <4>1. Put("EkfStatus", Unfit("EKF_UNHEALTHY", 0))
        BY <2>1, <3>1, <3>3 DEF PublishEkfStatus
      <4> QED BY <1>g, <1>o, <2>2, <2>3, <2>4, <3>3, <4>1
    <3> QED BY <3>2, <3>3
  <2>5. CASE ~Usable(m)
    <3>1. UNCHANGED tlm BY <1>5, <1>7, <2>1, <2>5 DEF PublishEkfStatus
    <3> QED BY <2>5, <3>1, UnfedValues
  <2> QED BY <2>4, <2>5
<1> QED BY <1>1, <1>2, <1>3, <1>4, <1>6, <1>7, Numbers

\* A heartbeat of full length from the FC, as it counts after it.
FromFC(m, fc) == Heartbeat(m) /\ m.sys = fc

\* A whole frame gives its output its value, and a heartbeat of the FC sets the
\* armed flag; any other leaves both, and the choice of the FC, alone.
LEMMA FrameEffect ==
    ASSUME OutputsExist, NEW m \in Message, Regular(m), NEW p, p.MsgId = m.msg,
           p.SysId = m.sys, p.Payload = Cargo(m), NEW high, HandleFrameComplete(p, high),
           m.msg \in Known => GoodFrame(p, high)
    PROVE  /\ GivesItsValue(m)
           /\ FromFC(m, TargetSystemId') => IsArmed' = Armed(m)
           /\ ~FromFC(m, TargetSystemId') => UNCHANGED <<IsArmed, TargetSystemId>>
<1>1. CASE m.msg \notin Known
  <2>1. UNCHANGED <<lock, tlm>> BY <1>1 DEF HandleFrameComplete
  <2>2. \A o \in Outputs : ~Feeds(m, o) BY <1>1, FedOutput, Numbers
  <2>3. ~Heartbeat(m) BY <1>1, Numbers DEF Heartbeat
  <2> QED BY <2>1, <2>2, <2>3, UnfedValues DEF lock, FromFC
<1>2. CASE m.msg = HEARTBEAT
  <2>1. \A o \in Outputs : ~Feeds(m, o) BY <1>2, FedOutput, Numbers
  <2>2. PICK n \in Nat, c \in Nat : n = Len(m.payload) /\ c = Len(Cargo(m)) BY CargoIs
  <2>3. CASE Heartbeat(m)
    <3>1. n = 3 /\ HEARTBEAT_LEN = 3 /\ PAYLOAD_LEN = 2
      BY <2>2, <2>3, Numbers DEF Heartbeat
    <3>2. m.payload[Len(m.payload)] # 0
      <4>1. n > PAYLOAD_LEN BY <3>1 DEF PAYLOAD_LEN
      <4>2. m.msg \in Known BY <1>2, Numbers
      <4> QED BY <2>2, <4>1, <4>2 DEF Regular
    <3>3. c = 3 /\ Cargo(m)[2] = m.payload[2]
      <4>1. Len(m.payload) >= 1 BY <2>2, <3>1
      <4>2. 2 \in 1..Len(m.payload) BY <2>2, <3>1
      <4> QED BY <2>2, <3>1, <3>2, <4>1, <4>2, CargoWhole
    <3>4. ~ (Len(p.Payload) < HEARTBEAT_LEN)
      <4>1. ~ (c < HEARTBEAT_LEN) BY <3>3 DEF HEARTBEAT_LEN
      <4> QED BY <2>2, <4>1
    <3>5. HandleHeartbeat(p)
      <4>1. m.msg \in Known BY <1>2, Numbers
      <4> QED BY <1>2, <3>4, <4>1 DEF HandleFrameComplete
    <3>6. UNCHANGED tlm BY <3>5 DEF HandleHeartbeat
    <3>7. CASE m.sys = TargetSystemId'
      <4>1. IsArmed' = (Cargo(m)[2] >= 128)
        BY <3>5, <3>7, Zenon DEF HandleHeartbeat, UpdateFromHeartbeat
      <4>2. (Cargo(m)[2] >= 128) = Armed(m)
        <5>1. PICK b : b = m.payload[2] OBVIOUS
        <5>2. Armed(m) <=> b >= 128 BY <2>3, <5>1 DEF Armed
        <5>3. (b >= 128) \in BOOLEAN /\ Armed(m) \in BOOLEAN BY DEF Armed, Heartbeat
        <5> QED BY <3>3, <5>1, <5>2, <5>3
      <4> QED BY <2>1, <2>3, <3>6, <3>7, <4>1, <4>2, UnfedValues DEF FromFC
    <3>8. CASE m.sys # TargetSystemId'
      <4>1. UNCHANGED IsArmed BY <3>5, <3>8 DEF HandleHeartbeat
      <4>2. UNCHANGED TargetSystemId BY <3>5, <3>8 DEF HandleHeartbeat
      <4> QED BY <2>1, <3>6, <3>8, <4>1, <4>2, UnfedValues DEF FromFC
    <3> QED BY <3>7, <3>8
  <2>4. CASE ~Heartbeat(m)
    <3>1. n # 3 /\ n =< 3
      <4>1. n # HEARTBEAT_LEN /\ n =< HEARTBEAT_LEN
        BY <1>2, <2>2, <2>4 DEF Heartbeat, Regular
      <4> QED BY <4>1 DEF HEARTBEAT_LEN
    <3>2. c =< n BY <2>2, CargoIs
    <3>3. Len(p.Payload) < HEARTBEAT_LEN
      <4>1. c < HEARTBEAT_LEN BY <3>1, <3>2 DEF HEARTBEAT_LEN
      <4> QED BY <2>2, <4>1
    <3>4. UNCHANGED <<lock, tlm>> BY <1>2, <3>3 DEF HandleFrameComplete
    <3> QED BY <2>1, <2>4, <3>4, UnfedValues DEF lock, FromFC
  <2> QED BY <2>3, <2>4
<1>3. CASE m.msg \in Known \ {HEARTBEAT}
  <2>1. ~Heartbeat(m) BY <1>3 DEF Heartbeat
  <2>2. CASE m.msg = COMMAND_ACK
    <3>1. HandleCommandAck(p) BY <1>3, <2>2 DEF HandleFrameComplete
    <3>2. UNCHANGED <<lock, tlm>> BY <3>1 DEF HandleCommandAck
    <3>3. \A o \in Outputs : ~Feeds(m, o) BY <2>2, FedOutput, Numbers
    <3> QED BY <2>1, <3>2, <3>3, UnfedValues DEF lock, FromFC
  <2>3. CASE m.msg # COMMAND_ACK
    <3>1. HandleTelemetry(p) BY <1>3, <2>3 DEF HandleFrameComplete
    <3>2. UNCHANGED lock BY <3>1 DEF HandleTelemetry
    <3>3. GivesItsValue(m) BY <1>3, <2>3, <3>1, TelemetryEffect
    <3> QED BY <2>1, <3>2, <3>3 DEF lock, FromFC
  <2> QED BY <2>2, <2>3
<1> QED BY <1>1, <1>2, <1>3

------------------------------------------------------------------------------
(* An undamaged line *)

\* Of the first n messages, those since the port was opened have had their
\* effect.
Meant(m, o) == Feeds(m, o) /\ Usable(m)

Shows(n) ==
    /\ \A o \in Outputs, i \in (since + 1)..n :
         Meant(sent[i], o) /\ (\A j \in (i + 1)..n : ~Meant(sent[j], o)) =>
           tlm[o].value = Value(sent[i])
    /\ \A i \in (since + 1)..n :
         /\ FromFC(sent[i], TargetSystemId)
         /\ \A j \in (i + 1)..n : ~FromFC(sent[j], TargetSystemId)
         => IsArmed = Armed(sent[i])

\* The parser has read k bytes of a frame, the others are on the line.
InFrame(m, k) ==
    /\ wire = SubSeq(Bytes(m), k + 1, Len(Bytes(m)))
    /\ IF k = 0 THEN parser = ResetParser ELSE Reading(parser, m, k)

BetweenFrames == wire = << >> /\ parser = ResetParser /\ Shows(Len(sent))
WithinFrame ==
    /\ since < Len(sent)
    /\ \E k \in 0..(Len(Bytes(sent[Len(sent)])) - 1) : InFrame(sent[Len(sent)], k)
    /\ Shows(Len(sent) - 1)

CleanInv ==
    /\ since \in Nat /\ since =< Len(sent)
    /\ \A i \in 1..Len(sent) : Regular(sent[i])
    /\ SerialFd /\ ~damaged => BetweenFrames \/ WithinFrame

\* Before the last byte of the frame the parser waits for more.
LEMMA BeforeTheEnd ==
    ASSUME NEW m \in Message, NEW p, NEW k, Reading(p, m, k)
    PROVE  k + 1 =< Len(Bytes(m))
<1> PICK n \in Nat : n = Len(Cargo(m)) BY Sizes
<1>1. Place(p, m, k) /\ p.Payload \in Seq(Byte) BY DEF Reading, ParserOK, Parsers
<1>2. Len(Bytes(m)) = HeaderEnd(m) + n + 2 BY BytesAt
<1>3. /\ Flags(m) \in Nat /\ HeaderEnd(m) \in Nat /\ HeaderEnd(m) >= Flags(m) + 6
      /\ m.v2 => HeaderEnd(m) = 10
  BY Sizes
<1>4. PICK j \in Nat, e \in Nat, f \in Nat :
        j = Len(p.Payload) /\ e = HeaderEnd(m) /\ f = Flags(m)
  BY <1>1, <1>3
<1>5. \/ k \in {1, 2, 3} \/ k \in {f + 2, f + 3, f + 4, f + 5}
      \/ e = 10 /\ k \in {8, 9}
      \/ k = e + j /\ j < n
      \/ k = e + n \/ k = e + n + 1
  BY <1>1, <1>3, <1>4 DEF Place
<1>6. e >= f + 6 BY <1>3, <1>4
<1>7. k + 1 =< e + n + 2
  <2>1. CASE k \in {1, 2, 3} BY <1>6, <2>1
  <2>2. CASE k \in {f + 2, f + 3, f + 4, f + 5} BY <1>6, <2>2
  <2>3. CASE e = 10 /\ k \in {8, 9} BY <2>3
  <2>4. CASE k = e + j /\ j < n BY <2>4
  <2>5. CASE k = e + n \/ k = e + n + 1 BY <2>5
  <2> QED BY <1>5, <2>1, <2>2, <2>3, <2>4, <2>5
<1> QED BY <1>2, <1>4, <1>7

LEMMA FrameByte ==
    ASSUME NEW m \in Message, NEW k \in Nat, k < Len(Bytes(m)), InFrame(m, k)
    PROVE  /\ wire # << >> /\ Head(wire) = Bytes(m)[k + 1]
           /\ Tail(wire) = SubSeq(Bytes(m), (k + 1) + 1, Len(Bytes(m)))
<1> PICK b, n : b = Bytes(m) /\ n = Len(Bytes(m)) OBVIOUS
<1>1. b \in Seq(Byte) /\ n = Len(b) /\ n \in Nat BY BytesType
<1>2. k + 1 \in 1..Len(b) /\ n \in (k + 1)..Len(b) BY <1>1
<1>3. wire = SubSeq(b, k + 1, n) BY DEF InFrame
<1>4. Len(SubSeq(b, k + 1, n)) # 0
  <2>1. \A i \in (k + 1)..n : b[i] \in Byte BY <1>1
  <2>2. Len(SubSeq(b, k + 1, n)) = IF k + 1 =< n THEN (n - (k + 1)) + 1 ELSE 0
    <3>1. k + 1 \in Int /\ n \in Int BY <1>1
    <3>2. Len(SubSeq(b, k + 1, n)) = IF k + 1 =< n THEN n - (k + 1) + 1 ELSE 0
      BY <2>1, <3>1, SubSeqProperties
    <3> QED BY <1>1, <3>2
  <2> QED BY <1>1, <1>2, <2>2
<1>5. wire # << >> BY <1>3, <1>4
<1> QED BY <1>1, <1>2, <1>3, <1>5, HeadTailOfSubSeq

\* A byte of the frame leads one place on, or completes it.
LEMMA NextByte ==
    ASSUME NEW m \in Message, NEW k \in Nat, k < Len(Bytes(m)), InFrame(m, k),
           ProcessReceivedByte(Head(wire)), wire' = Tail(wire)
    PROVE  \/ k + 1 < Len(Bytes(m)) /\ InFrame(m, k + 1)' /\ UNCHANGED <<lock, tlm>>
           \/ /\ wire' = << >> /\ parser' = ResetParser
              /\ parser.MsgId = m.msg /\ parser.SysId = m.sys /\ parser.Payload = Cargo(m)
              /\ HandleFrameComplete(parser, Head(wire))
              /\ m.msg \in Known => GoodFrame(parser, Head(wire))
<1>1. /\ Head(wire) = Bytes(m)[k + 1]
      /\ wire' = SubSeq(Bytes(m), (k + 1) + 1, Len(Bytes(m)))
  BY FrameByte
<1>l. Len(Bytes(m)) \in Nat BY BytesType
<1>2. ASSUME parser.State # "GOT_CRC2", Reading(ParseByte(parser, Bytes(m)[k + 1]), m, k + 1)
      PROVE  k + 1 < Len(Bytes(m)) /\ InFrame(m, k + 1)' /\ UNCHANGED <<lock, tlm>>
  <2>1. /\ parser' = ParseByte(parser, Bytes(m)[k + 1])
        /\ UNCHANGED <<lock, tlm>>
    BY <1>1, <1>2 DEF ProcessReceivedByte
  <2>2. (k + 1) + 1 =< Len(Bytes(m)) BY <1>2, BeforeTheEnd
  <2>3. k + 1 # 0 /\ k + 1 < Len(Bytes(m)) BY <1>l, <2>2
  <2>4. Reading(parser', m, k + 1) BY <1>2, <2>1
  <2>5. InFrame(m, k + 1)' BY <1>1, <2>3, <2>4 DEF InFrame
  <2> QED BY <2>1, <2>3, <2>5
<1>3. CASE k = 0
  <2>1. parser = ResetParser /\ parser.State # "GOT_CRC2"
    BY <1>3 DEF InFrame, ResetParser
  <2>2. Reading(ParseByte(parser, Bytes(m)[k + 1]), m, k + 1)
    <3>1. k + 1 = 1 BY <1>3
    <3> QED BY <2>1, <3>1, FirstReads
  <2> QED BY <1>2, <2>1, <2>2
<1>4. CASE k # 0
  <2>1. Reading(parser, m, k) BY <1>4 DEF InFrame
  <2>2. CASE parser.State # "GOT_CRC2" BY <1>2, <2>1, <2>2, NextReads
  <2>3. CASE parser.State = "GOT_CRC2"
    <3>1. /\ k + 1 = Len(Bytes(m))
          /\ parser.MsgId = m.msg /\ parser.SysId = m.sys /\ parser.Payload = Cargo(m)
          /\ m.msg \in Known => GoodFrame(parser, Bytes(m)[k + 1])
      BY <2>1, <2>3, LastReads
    <3>2. wire' = << >>
      <4>1. Len(Bytes(m)) < (k + 1) + 1 /\ Len(Bytes(m)) \in Int /\ (k + 1) + 1 \in Int
        BY <1>l, <3>1
      <4> QED BY <1>1, <4>1, SubSeqEmpty
    <3>3. HandleFrameComplete(parser, Head(wire)) /\ parser' = ResetParser
      BY <2>3 DEF ProcessReceivedByte
    <3> QED BY <1>1, <3>1, <3>2, <3>3
  <2> QED BY <2>2, <2>3
<1> QED BY <1>3, <1>4

\* While nothing happens to the outputs, what they show stays.
LEMMA StillShows ==
    ASSUME NEW n, Shows(n), UNCHANGED <<since, TargetSystemId, IsArmed>>,
           \A i \in 1..n : sent'[i] = sent[i], since \in Nat, n \in Nat,
           \A o \in Outputs : tlm'[o].value = tlm[o].value
    PROVE  Shows(n)'
<1>1. \A i \in (since + 1)..n : i \in 1..n /\ \A j \in (i + 1)..n : j \in 1..n OBVIOUS
<1> QED BY <1>1 DEF Shows

\* The effect of the last frame.
LEMMA ShowsFrame ==
    ASSUME NEW n \in Nat \ {0}, since \in Nat, Shows(n - 1), NEW m, m = sent[n],
           UNCHANGED <<since, sent>>, GivesItsValue(m),
           FromFC(m, TargetSystemId') => IsArmed' = Armed(m),
           ~FromFC(m, TargetSystemId') => UNCHANGED <<IsArmed, TargetSystemId>>
    PROVE  Shows(n)'
<1>1. ASSUME NEW i \in (since + 1)..n, i # n
      PROVE  /\ i \in (since + 1)..(n - 1) /\ n \in (i + 1)..n
             /\ \A j \in (i + 1)..(n - 1) : j \in (i + 1)..n
  BY <1>1
<1>2. ASSUME NEW o \in Outputs, NEW i \in (since + 1)..n, Meant(sent[i], o),
             \A j \in (i + 1)..n : ~Meant(sent[j], o)
      PROVE  tlm'[o].value = Value(sent[i])
  <2>1. tlm'[o].value = IF Meant(m, o) THEN Value(m) ELSE tlm[o].value
    BY DEF GivesItsValue, Meant
  <2>2. CASE i = n BY <1>2, <2>1, <2>2
  <2>3. CASE i # n
    <3>1. ~Meant(m, o) BY <1>1, <1>2, <2>3
    <3>2. tlm[o].value = Value(sent[i]) BY <1>1, <1>2, <2>3 DEF Shows
    <3> QED BY <2>1, <3>1, <3>2
  <2> QED BY <2>2, <2>3
<1>3. ASSUME NEW i \in (since + 1)..n, FromFC(sent[i], TargetSystemId'),
             \A j \in (i + 1)..n : ~FromFC(sent[j], TargetSystemId')
      PROVE  IsArmed' = Armed(sent[i])
  <2>1. CASE i = n BY <1>3, <2>1
  <2>2. CASE i # n
    <3>1. ~FromFC(m, TargetSystemId') BY <1>1, <1>3, <2>2
    <3>2. UNCHANGED <<IsArmed, TargetSystemId>> BY <3>1
    <3>3. IsArmed = Armed(sent[i]) BY <1>1, <1>3, <2>2, <3>2 DEF Shows
    <3> QED BY <3>2, <3>3
  <2> QED BY <2>1, <2>2
<1>4. sent' = sent /\ since' = since OBVIOUS
<1> QED BY <1>2, <1>3, <1>4 DEF Shows

LEMMA SentSoFar ==
    ASSUME NEW n, n = Len(sent)
    PROVE  /\ Len(sent') = n /\ Shows(n)' => Shows(Len(sent))'
           /\ Len(sent') = n + 1 /\ Shows(n)' /\ n \in Nat => Shows(Len(sent) - 1)'
<1>1. ASSUME Len(sent') = n, Shows(n)' PROVE Shows(Len(sent))'
  BY <1>1, Zenon DEF Shows
<1>2. ASSUME Len(sent') = n + 1, Shows(n)', n \in Nat PROVE Shows(Len(sent) - 1)'
  <2>1. Len(sent') - 1 = n BY <1>2
  <2> QED BY <1>2, <2>1, Zenon DEF Shows
<1> QED BY <1>1, <1>2

\* A step that touches neither the line nor what the outputs show.
LEMMA StillClean ==
    ASSUME CleanInv, LineInv, UNCHANGED <<wire, parser, sent, since, TargetSystemId, IsArmed>>,
           \A o \in Outputs : tlm'[o].value = tlm[o].value,
           SerialFd' /\ ~damaged' => SerialFd /\ ~damaged
    PROVE  CleanInv'
<1> PICK n \in Nat : n = Len(sent) BY DEF LineInv
<1>1. since \in Nat /\ sent' = sent /\ Len(sent') = n BY DEF CleanInv
<1>2. CASE ~ (SerialFd' /\ ~damaged') BY <1>2 DEF CleanInv
<1>3. CASE BetweenFrames
  <2>1. Shows(n) BY <1>3 DEF BetweenFrames
  <2>2. Shows(n)' BY <1>1, <2>1, StillShows
  <2>3. BetweenFrames' BY <1>1, <1>3, <2>2, SentSoFar DEF BetweenFrames
  <2> QED BY <2>3 DEF CleanInv
<1>4. CASE WithinFrame
  <2>1. since < n /\ Shows(n - 1) BY <1>4 DEF WithinFrame
  <2>2. n - 1 \in Nat BY <1>1, <2>1
  <2>3. Shows(n - 1)' BY <1>1, <2>1, <2>2, StillShows
  <2>4. PICK m, k : m = sent[n] /\ k \in 0..(Len(Bytes(m)) - 1) /\ InFrame(m, k)
    BY <1>4 DEF WithinFrame
  <2>5. InFrame(m, k)' BY <2>4 DEF InFrame
  <2>6. WithinFrame'
    <3>1. Shows(Len(sent) - 1)' BY <1>1, <2>3, Zenon DEF Shows
    <3>2. since' < Len(sent') /\ m = sent'[Len(sent')] BY <1>1, <2>1, <2>4
    <3> QED BY <2>4, <2>5, <3>1, <3>2 DEF WithinFrame
  <2> QED BY <2>6 DEF CleanInv
<1> QED BY <1>2, <1>3, <1>4 DEF CleanInv

LEMMA OpenedClean ==
    ASSUME CleanInv, LineInv, Opened, UNCHANGED sent PROVE CleanInv'
<1> PICK n \in Nat : n = Len(sent) BY DEF LineInv
<1>1. /\ wire' = << >> /\ parser' = ResetParser /\ since' = n /\ Len(sent') = n
  BY DEF Opened
<1>2. Shows(n)'
  <2>1. (n + 1)..n = {} OBVIOUS
  <2> QED BY <1>1, <2>1 DEF Shows
<1>3. BetweenFrames' BY <1>1, <1>2, SentSoFar DEF BetweenFrames
<1>4. since' \in Nat /\ since' =< Len(sent') BY <1>1
<1> QED BY <1>3, <1>4 DEF CleanInv

LEMMA SendClean ==
    ASSUME CleanInv, LineInv, RegularTraffic, NEW script \in Traffic, Send(script)
    PROVE  CleanInv'
<1> PICK n \in Nat : n = Len(sent) BY DEF LineInv
<1>1. script \in Seq(Message) /\ n < Len(script) BY TrafficAssumption DEF Send
<1>2. n + 1 \in 1..Len(script) BY <1>1
<1>3. PICK m \in Message : m = script[n + 1] BY <1>1, <1>2
<1>4. Regular(m) BY <1>2, <1>3 DEF RegularTraffic
<1>5. /\ wire = << >> /\ wire' = Bytes(m) /\ sent' = Append(sent, m)
      /\ UNCHANGED <<parser, SerialFd, damaged, since, TargetSystemId, IsArmed, tlm>>
  BY <1>3 DEF Send, link, lock
<1>6. /\ sent' \in Seq(Message) /\ Len(sent') = n + 1
      /\ \A i \in 1..n : sent'[i] = sent[i]
      /\ sent'[n + 1] = m
  BY <1>3, <1>5, AppendProperties DEF LineInv
<1>7. \A i \in 1..Len(sent') : Regular(sent'[i])
  <2> SUFFICES ASSUME NEW i \in 1..Len(sent') PROVE Regular(sent'[i]) OBVIOUS
  <2>1. CASE i = n + 1 BY <1>4, <1>6, <2>1
  <2>2. CASE i # n + 1
    <3>1. i \in 1..n BY <1>6, <2>2
    <3> QED BY <1>6, <3>1 DEF CleanInv
  <2> QED BY <2>1, <2>2
<1>8. since' \in Nat /\ since' =< Len(sent') /\ since' < Len(sent')
  <2>1. since \in Nat /\ since =< n BY DEF CleanInv
  <2> QED BY <1>5, <1>6, <2>1
<1>9. CASE BetweenFrames
  <2>1. Shows(n) /\ parser = ResetParser BY <1>9 DEF BetweenFrames
  <2>2. Shows(n)' BY <1>5, <1>6, <1>8, <2>1, StillShows
  <2>3. Shows(Len(sent) - 1)' BY <1>6, <2>2, SentSoFar
  <2>4. 0 \in 0..(Len(Bytes(m)) - 1)
    <3>1. Len(Bytes(m)) \in Nat /\ Len(Bytes(m)) >= 1 BY BytesAt, Sizes
    <3> QED BY <3>1
  <2>5. InFrame(m, 0)'
    <3>1. Bytes(m) \in Seq(Byte) /\ 0 + 1 = 1 BY BytesType
    <3>2. wire' = SubSeq(Bytes(m), 0 + 1, Len(Bytes(m))) BY <1>5, <3>1, SubSeqFull
    <3>3. parser' = ResetParser BY <1>5, <2>1
    <3> QED BY <3>2, <3>3 DEF InFrame
  <2>6. sent'[Len(sent')] = m BY <1>6
  <2>7. WithinFrame' BY <1>8, <2>3, <2>4, <2>5, <2>6 DEF WithinFrame
  <2> QED BY <1>7, <1>8, <2>7 DEF CleanInv
<1>10. ~WithinFrame
  <2> SUFFICES ASSUME WithinFrame PROVE FALSE OBVIOUS
  <2>1. since < n BY DEF WithinFrame
  <2>2. n \in 1..n
    <3>1. since \in Nat BY DEF CleanInv
    <3> QED BY <2>1, <3>1
  <2>3. sent[n] \in Message BY <2>2 DEF LineInv
  <2>4. PICK k \in 0..(Len(Bytes(sent[n])) - 1) : InFrame(sent[n], k) BY DEF WithinFrame
  <2>5. k \in Nat /\ k < Len(Bytes(sent[n]))
    <3>1. Len(Bytes(sent[n])) \in Nat BY <2>3, BytesType
    <3> QED BY <2>4, <3>1
  <2> QED BY <1>5, <2>3, <2>4, <2>5, FrameByte
<1>11. CASE ~BetweenFrames
  <2>1. ~ (SerialFd' /\ ~damaged') BY <1>5, <1>10, <1>11 DEF CleanInv
  <2> QED BY <1>7, <1>8, <2>1 DEF CleanInv
<1> QED BY <1>9, <1>11

LEMMA ReceivedClean ==
    ASSUME CleanInv, LineInv, OutputsExist, NEW elapsed, HandleReceivedBytes(elapsed)
    PROVE  CleanInv'
<1> PICK n \in Nat : n = Len(sent) BY DEF LineInv
<1>1. /\ wire # << >> /\ wire' = Tail(wire) /\ ProcessReceivedByte(Head(wire))
      /\ UNCHANGED <<SerialFd, damaged, sent, since>>
  BY DEF HandleReceivedBytes, history
<1>2. since' \in Nat /\ since' =< Len(sent') /\ \A i \in 1..Len(sent') : Regular(sent'[i])
  BY <1>1 DEF CleanInv
<1>3. CASE ~WithinFrame
  <2>1. ~ (SerialFd' /\ ~damaged') BY <1>1, <1>3 DEF CleanInv, BetweenFrames
  <2> QED BY <1>2, <2>1 DEF CleanInv
<1>4. CASE WithinFrame
  <2>1. since \in Nat /\ since < n /\ n \in 1..n
    <3>1. since \in Nat BY DEF CleanInv
    <3> QED BY <1>4, <3>1 DEF WithinFrame
  <2>2. PICK m \in Message : m = sent[n] BY <2>1 DEF LineInv
  <2>3. Regular(m) BY <2>1, <2>2 DEF CleanInv
  <2>4. Len(Bytes(m)) \in Nat BY BytesType
  <2>5. PICK k \in 0..(Len(Bytes(m)) - 1) : InFrame(m, k) BY <1>4, <2>2 DEF WithinFrame
  <2>6. k \in Nat /\ k < Len(Bytes(m)) BY <2>4, <2>5
  <2>7. Shows(n - 1) BY <1>4 DEF WithinFrame
  <2>8. n - 1 \in Nat /\ n # 0 BY <2>1
  <2>9. CASE k + 1 < Len(Bytes(m)) /\ InFrame(m, k + 1)' /\ UNCHANGED <<lock, tlm>>
    <3>1. UNCHANGED <<TargetSystemId, IsArmed, tlm>> BY <2>9 DEF lock
    <3>2. Shows(n - 1)' BY <1>1, <2>1, <2>7, <2>8, <3>1, StillShows
    <3>3. Shows(Len(sent) - 1)' BY <1>1, <3>2, Zenon DEF Shows
    <3>4. k + 1 \in 0..(Len(Bytes(m)) - 1) BY <2>4, <2>6, <2>9
    <3>5. sent'[Len(sent')] = m /\ since' < Len(sent') BY <1>1, <2>1, <2>2
    <3>6. WithinFrame' BY <2>9, <3>3, <3>4, <3>5 DEF WithinFrame
    <3> QED BY <1>2, <3>6 DEF CleanInv
  <2>10. CASE /\ wire' = << >> /\ parser' = ResetParser
              /\ parser.MsgId = m.msg /\ parser.SysId = m.sys /\ parser.Payload = Cargo(m)
              /\ HandleFrameComplete(parser, Head(wire))
              /\ m.msg \in Known => GoodFrame(parser, Head(wire))
    <3>1. /\ GivesItsValue(m)
          /\ FromFC(m, TargetSystemId') => IsArmed' = Armed(m)
          /\ ~FromFC(m, TargetSystemId') => UNCHANGED <<IsArmed, TargetSystemId>>
      BY <2>3, <2>10, FrameEffect
    <3>2. Shows(n)' BY <1>1, <2>1, <2>2, <2>7, <2>8, <3>1, ShowsFrame
    <3>3. Len(sent') = n BY <1>1
    <3>4. BetweenFrames' BY <2>10, <3>2, <3>3, SentSoFar DEF BetweenFrames
    <3> QED BY <1>2, <3>4 DEF CleanInv
  <2> QED BY <1>1, <2>5, <2>6, <2>9, <2>10, NextByte
<1> QED BY <1>3, <1>4

LEMMA InitClean == Init => CleanInv
<1> SUFFICES ASSUME Init PROVE CleanInv OBVIOUS
<1>1. SerialFd = FALSE /\ since = 0 /\ sent = << >> BY DEF Init
<1>2. Len(sent) = 0 /\ 1..0 = {} BY <1>1
<1> QED BY <1>1, <1>2 DEF CleanInv

LEMMA NextClean ==
    ASSUME RegularTraffic
    PROVE  SilenceInv /\ OutputsExist /\ LineInv /\ CleanInv /\ [Next]_vars => CleanInv'
<1> SUFFICES ASSUME SilenceInv, OutputsExist, LineInv, CleanInv, [Next]_vars
             PROVE  CleanInv'
  OBVIOUS
<1>c. ASSUME ~SerialFd' \/ damaged', UNCHANGED <<sent, since>> PROVE CleanInv'
  BY <1>c DEF CleanInv
<1>s. ASSUME UNCHANGED <<wire, parser, sent, since, lock, tlm, damaged, SerialFd>>
      PROVE  CleanInv'
  BY <1>s, StillClean DEF lock
<1>1. ASSUME NEW elapsed \in 0..MaxGap, HandleReceivedBytes(elapsed) PROVE CleanInv'
  BY <1>1, ReceivedClean
<1>2. CASE ServiceQuiet
  <2>1. UNCHANGED <<wire, parser, sent, since, lock, damaged, SerialFd>>
    BY <1>2 DEF ServiceQuiet, history
  <2>2. UNCHANGED tlm \/ MarkOutputsStale BY <1>2 DEF ServiceQuiet, GoStale
  <2>3. \A o \in Outputs : tlm'[o].value = tlm[o].value BY <2>2, StaleNow
  <2> QED BY <2>1, <2>3, StillClean DEF lock
<1>3. CASE ServiceReadError BY <1>3, <1>c DEF ServiceReadError
<1>4. ASSUME NEW opens \in BOOLEAN, ServiceClosed(opens) PROVE CleanInv'
  <2>1. ~SerialFd /\ UNCHANGED sent BY <1>4 DEF ServiceClosed
  <2>2. CASE Opened BY <2>1, <2>2, OpenedClean
  <2>3. CASE NotOpened("DISCONNECTED") BY <1>c, <2>1, <2>3 DEF NotOpened
  <2>4. CASE UNCHANGED <<SerialFd, since>> BY <1>c, <2>1, <2>4
  <2> QED BY <1>4, <2>2, <2>3, <2>4 DEF ServiceClosed
<1>5. ASSUME NEW opens \in BOOLEAN, ProcessSerialReconnectCmd(opens) PROVE CleanInv'
  <2>1. UNCHANGED sent BY <1>5 DEF ProcessSerialReconnectCmd
  <2>2. CASE Opened BY <2>1, <2>2, OpenedClean
  <2>3. CASE NotOpened(LinkState) BY <1>c, <2>1, <2>3 DEF NotOpened
  <2> QED BY <1>5, <2>2, <2>3 DEF ProcessSerialReconnectCmd
<1>6. CASE Restart BY <1>6, <1>c DEF Restart
<1>7. CASE ProcessParserResetCmd
  <2>1. /\ parser' = ResetParser /\ damaged' = (damaged \/ parser.State # "WAIT_STX")
        /\ UNCHANGED <<wire, sent, since, lock, tlm, SerialFd>>
    BY <1>7 DEF ProcessParserResetCmd, link
  <2>2. CASE parser.State # "WAIT_STX"
    <3>1. damaged' BY <2>1, <2>2
    <3> QED BY <1>c, <2>1, <3>1
  <2>3. CASE parser.State = "WAIT_STX" /\ (~SerialFd \/ damaged)
    BY <1>c, <2>1, <2>3
  <2>4. CASE parser.State = "WAIT_STX" /\ SerialFd /\ ~damaged
    <3>1. damaged' = damaged BY <2>1, <2>4 DEF LineInv
    <3>2. parser = ResetParser
      <4>1. CASE BetweenFrames BY <4>1 DEF BetweenFrames
      <4>2. CASE WithinFrame
        <5>1. PICK m, k : InFrame(m, k) BY <4>2 DEF WithinFrame
        <5>2. ~Reading(parser, m, k) BY <2>4 DEF Reading, Place
        <5> QED BY <5>1, <5>2 DEF InFrame
      <4> QED BY <2>4, <4>1, <4>2 DEF CleanInv
    <3> QED BY <1>s, <2>1, <3>1, <3>2
  <2> QED BY <2>2, <2>3, <2>4
<1>8. ASSUME NEW script \in Traffic, Send(script) PROVE CleanInv' BY <1>8, SendClean
<1>9. ASSUME NEW bytes, LineFault(bytes) PROVE CleanInv' BY <1>9, <1>c DEF LineFault
<1>10. CASE UNCHANGED vars BY <1>10, <1>s DEF vars, link, history
<1> QED BY <1>1, <1>2, <1>3, <1>4, <1>5, <1>6, <1>7, <1>8, <1>9, <1>10
      DEF Next, LoseByte, DamageByte, AddByte

\* On an undamaged line every frame is understood, whatever messages of MAVLink's
\* lengths are sent in whatever order, v1 or v2, full or cut, and whatever commands,
\* restarts and reopenings come between them: once all bytes are read each output
\* shows the last usable message for it, and the armed flag is the FC's last one
\* (ProcessReceivedByte, HandleFrameComplete, BL-76).
THEOREM FramesUnderstood == ASSUME RegularTraffic PROVE Spec => []LastFrameShown
<1>1. SilenceInv /\ OutputsExist /\ LineInv /\ CleanInv => LastFrameShown
  <2> SUFFICES ASSUME LineInv, CleanInv, SerialFd, ~damaged, wire = << >>
               PROVE  /\ parser = ResetParser
                      /\ \A o \in Outputs :
                           \A m \in LastOf(LAMBDA n : Feeds(n, o) /\ Usable(n)) :
                             tlm[o].value = Value(m)
                      /\ \A m \in LastOf(LAMBDA n : Heartbeat(n) /\ n.sys = TargetSystemId) :
                           IsArmed = Armed(m)
    BY DEF LastFrameShown
  <2>n. PICK n \in Nat : n = Len(sent) BY DEF LineInv
  <2>s. since \in Nat BY DEF CleanInv
  <2>1. ~WithinFrame
    <3> SUFFICES ASSUME WithinFrame PROVE FALSE OBVIOUS
    <3>1. n \in 1..n BY <2>n, <2>s DEF WithinFrame
    <3>2. PICK m \in Message : m = sent[n] BY <2>n, <3>1 DEF LineInv
    <3>3. PICK k \in 0..(Len(Bytes(m)) - 1) : InFrame(m, k) BY <2>n, <3>2 DEF WithinFrame
    <3>4. Len(Bytes(m)) \in Nat BY BytesType
    <3>5. k \in Nat /\ k < Len(Bytes(m)) BY <3>3, <3>4
    <3> QED BY <3>3, <3>5, FrameByte
  <2>2. parser = ResetParser /\ Shows(n) BY <2>n, <2>1 DEF CleanInv, BetweenFrames
  <2>g. ASSUME NEW is, is \subseteq (since + 1)..n, is # {},
               NEW i, i = CHOOSE j \in is : \A l \in is : l =< j
        PROVE  i \in is /\ \A j \in (i + 1)..n : j \notin is
    <3>1. is \subseteq Nat /\ \A j \in is : j =< n BY <2>n, <2>s, <2>g
    <3>2. i \in is /\ \A j \in is : j =< i BY <2>n, <2>g, <3>1, GreatestOf
    <3> QED BY <3>1, <3>2
  <2>3. ASSUME NEW o \in Outputs, NEW m \in LastOf(LAMBDA l : Feeds(l, o) /\ Usable(l))
        PROVE  tlm[o].value = Value(m)
    <3>1. PICK is : is = {i \in (since + 1)..n : Feeds(sent[i], o) /\ Usable(sent[i])}
      OBVIOUS
    <3>2. m \in IF is = {} THEN {} ELSE {sent[CHOOSE i \in is : \A j \in is : j =< i]}
      BY <2>n, <2>3, <3>1 DEF LastOf
    <3>3. is # {} /\ m = sent[CHOOSE i \in is : \A j \in is : j =< i] BY <3>2
    <3>4. PICK i \in is : m = sent[i] /\ \A j \in (i + 1)..n : j \notin is
      <4>1. is \subseteq (since + 1)..n BY <3>1
      <4>2. PICK i : i = CHOOSE l \in is : \A j \in is : j =< l OBVIOUS
      <4>3. i \in is /\ \A j \in (i + 1)..n : j \notin is BY <2>g, <3>3, <4>1, <4>2
      <4> QED BY <3>3, <4>2, <4>3
    <3>5. i \in (since + 1)..n /\ Meant(sent[i], o) BY <3>1, <3>4 DEF Meant
    <3>6. \A j \in (i + 1)..n : ~Meant(sent[j], o)
      <4>1. \A j \in (i + 1)..n : j \in (since + 1)..n BY <2>n, <2>s, <3>5
      <4> QED BY <3>1, <3>4, <4>1 DEF Meant
    <3> QED BY <2>2, <3>4, <3>5, <3>6 DEF Shows
  <2>4. ASSUME NEW m \in LastOf(LAMBDA l : Heartbeat(l) /\ l.sys = TargetSystemId)
        PROVE  IsArmed = Armed(m)
    <3>1. PICK is : is = {i \in (since + 1)..n : Heartbeat(sent[i]) /\ sent[i].sys = TargetSystemId}
      OBVIOUS
    <3>2. m \in IF is = {} THEN {} ELSE {sent[CHOOSE i \in is : \A j \in is : j =< i]}
      BY <2>n, <2>4, <3>1 DEF LastOf
    <3>3. is # {} /\ m = sent[CHOOSE i \in is : \A j \in is : j =< i] BY <3>2
    <3>4. PICK i \in is : m = sent[i] /\ \A j \in (i + 1)..n : j \notin is
      <4>1. is \subseteq (since + 1)..n BY <3>1
      <4>2. PICK i : i = CHOOSE l \in is : \A j \in is : j =< l OBVIOUS
      <4>3. i \in is /\ \A j \in (i + 1)..n : j \notin is BY <2>g, <3>3, <4>1, <4>2
      <4> QED BY <3>3, <4>2, <4>3
    <3>5. i \in (since + 1)..n /\ FromFC(sent[i], TargetSystemId)
      BY <3>1, <3>4 DEF FromFC
    <3>6. \A j \in (i + 1)..n : ~FromFC(sent[j], TargetSystemId)
      <4>1. \A j \in (i + 1)..n : j \in (since + 1)..n BY <2>n, <2>s, <3>5
      <4> QED BY <3>1, <3>4, <4>1 DEF FromFC
    <3> QED BY <2>2, <3>4, <3>5, <3>6 DEF Shows
  <2> QED BY <2>2, <2>3, <2>4
<1> QED BY InitSilence, NextSilence, InitLine, NextLine, InitClean, NextClean, <1>1,
           PTL DEF Spec

------------------------------------------------------------------------------
(* A damaged line *)

\* NothingInvented, message by message.
Genuine ==
    /\ TargetSystemId # 0 => \E i \in 1..Len(sent) :
         /\ sent[i].msg = HEARTBEAT /\ sent[i].sys = TargetSystemId
         /\ FlightController(sent[i].payload[1])
    /\ IsArmed => \E i \in 1..Len(sent) : Armed(sent[i]) /\ sent[i].sys = TargetSystemId
    /\ \A o \in Outputs : tlm[o].Valid =>
         \E i \in 1..Len(sent) : Feeds(sent[i], o) /\ Value(sent[i]) = tlm[o].value

\* Only an FC's heartbeat is taken for the FC's.
LEMMA LockedOn ==
    ASSUME NEW m \in Message, NEW p, p.MsgId = m.msg, p.SysId = m.sys,
           p.Payload = Cargo(m), NEW high, HandleFrameComplete(p, high),
           TargetSystemId' # TargetSystemId
    PROVE  /\ m.msg = HEARTBEAT /\ m.sys = TargetSystemId'
           /\ FlightController(m.payload[1])
<1>1. p.MsgId = HEARTBEAT /\ ~ (Len(p.Payload) < HEARTBEAT_LEN) /\ HandleHeartbeat(p)
  BY DEF HandleFrameComplete, HandleCommandAck, HandleTelemetry, lock
<1>2. TargetSystemId' = p.SysId /\ FlightController(p.Payload[1])
  BY <1>1 DEF HandleHeartbeat
<1>3. PICK c \in Nat : c = Len(Cargo(m)) BY CargoIs
<1>4. c >= 3 BY <1>1, <1>3 DEF HEARTBEAT_LEN
<1>5. 1 \in 1..Len(Cargo(m)) BY <1>3, <1>4
<1>6. Cargo(m)[1] = m.payload[1] BY <1>5, CargoIs
<1> QED BY <1>1, <1>2, <1>6

\* The effect of a frame that was sent, whenever it was.
LEMMA GenuineFrame ==
    ASSUME OutputsExist, Genuine, UNCHANGED sent,
           NEW i \in 1..Len(sent), NEW m \in Message, m = sent[i], Regular(m),
           NEW p, p.MsgId = m.msg, p.SysId = m.sys, p.Payload = Cargo(m),
           NEW high, HandleFrameComplete(p, high), m.msg \in Known => GoodFrame(p, high)
    PROVE  Genuine'
<1>1. /\ GivesItsValue(m)
      /\ FromFC(m, TargetSystemId') => IsArmed' = Armed(m)
      /\ ~FromFC(m, TargetSystemId') => UNCHANGED <<IsArmed, TargetSystemId>>
  BY FrameEffect
<1>2. ASSUME TargetSystemId' # 0
      PROVE  \E j \in 1..Len(sent) :
               /\ sent[j].msg = HEARTBEAT /\ sent[j].sys = TargetSystemId'
               /\ FlightController(sent[j].payload[1])
  <2>1. CASE TargetSystemId' = TargetSystemId BY <1>2, <2>1 DEF Genuine
  <2>2. CASE TargetSystemId' # TargetSystemId BY <2>2, LockedOn
  <2> QED BY <2>1, <2>2
<1>3. ASSUME IsArmed'
      PROVE  \E j \in 1..Len(sent) : Armed(sent[j]) /\ sent[j].sys = TargetSystemId'
  <2>1. CASE FromFC(m, TargetSystemId')
    <3>1. Armed(m) /\ m.sys = TargetSystemId' BY <1>1, <1>3, <2>1 DEF FromFC
    <3> QED BY <3>1
  <2>2. CASE ~FromFC(m, TargetSystemId') BY <1>1, <1>3, <2>2 DEF Genuine
  <2> QED BY <2>1, <2>2
<1>4. ASSUME NEW o \in Outputs, tlm'[o].Valid
      PROVE  \E j \in 1..Len(sent) : Feeds(sent[j], o) /\ Value(sent[j]) = tlm'[o].value
  <2>1. IF Feeds(m, o) /\ Usable(m) THEN tlm'[o].value = Value(m) ELSE tlm'[o] = tlm[o]
    BY <1>1 DEF GivesItsValue
  <2>2. CASE Feeds(m, o) /\ Usable(m) BY <2>1, <2>2
  <2>3. CASE ~ (Feeds(m, o) /\ Usable(m)) BY <1>4, <2>1, <2>3 DEF Genuine
  <2> QED BY <2>2, <2>3
<1> QED BY <1>2, <1>3, <1>4 DEF Genuine

LEMMA GenuineByte ==
    ASSUME OutputsExist, LineInv, CleanInv, Genuine, OnlySentPasses,
           NEW elapsed, HandleReceivedBytes(elapsed)
    PROVE  Genuine'
<1>1. /\ SerialFd /\ wire # << >> /\ ProcessReceivedByte(Head(wire)) /\ UNCHANGED sent
  BY DEF HandleReceivedBytes, history
<1>2. CASE UNCHANGED <<lock, tlm>> BY <1>1, <1>2 DEF Genuine, lock
<1>3. CASE Intact(Head(wire))
  <2>1. PICK i \in 1..Len(sent) :
          /\ parser.MsgId = sent[i].msg /\ parser.SysId = sent[i].sys
          /\ parser.Payload = IF sent[i].v2 THEN Trim(sent[i].payload) ELSE sent[i].payload
    BY <1>1, <1>3 DEF OnlySentPasses
  <2>2. PICK m \in Message : m = sent[i] BY DEF LineInv
  <2>3. Regular(m) /\ parser.Payload = Cargo(m) BY <2>1, <2>2 DEF CleanInv, Cargo
  <2>4. parser.State = "GOT_CRC2" /\ GoodFrame(parser, Head(wire)) BY <1>3 DEF Intact
  <2>5. HandleFrameComplete(parser, Head(wire)) BY <1>1, <2>4 DEF ProcessReceivedByte
  <2> QED BY <1>1, <2>1, <2>2, <2>3, <2>4, <2>5, GenuineFrame
<1>4. CASE ~Intact(Head(wire))
  <2>1. CASE parser.State # "GOT_CRC2" BY <1>1, <1>2, <2>1 DEF ProcessReceivedByte
  <2>2. CASE parser.State = "GOT_CRC2"
    <3>1. HandleFrameComplete(parser, Head(wire)) BY <1>1, <2>2 DEF ProcessReceivedByte
    <3>2. parser.MsgId \notin Known \/ ~GoodFrame(parser, Head(wire))
      BY <1>4, <2>2 DEF Intact
    <3>3. UNCHANGED <<lock, tlm>> BY <3>1, <3>2 DEF HandleFrameComplete
    <3> QED BY <1>2, <3>3
  <2> QED BY <2>1, <2>2
<1> QED BY <1>3, <1>4

LEMMA NextGenuine ==
    OutputsExist /\ LineInv /\ CleanInv /\ Genuine /\ OnlySentPasses /\ [Next]_vars => Genuine'
<1> SUFFICES ASSUME OutputsExist, LineInv, CleanInv, Genuine, OnlySentPasses, [Next]_vars
             PROVE  Genuine'
  OBVIOUS
<1>s. ASSUME UNCHANGED <<lock, sent>>,
             \A o \in Outputs : tlm'[o].value = tlm[o].value /\ tlm'[o].Valid = tlm[o].Valid
      PROVE  Genuine'
  BY <1>s DEF Genuine, lock
<1>t. ASSUME UNCHANGED <<lock, sent, tlm>> PROVE Genuine' BY <1>t DEF Genuine, lock
<1>1. ASSUME NEW elapsed \in 0..MaxGap, HandleReceivedBytes(elapsed) PROVE Genuine'
  BY <1>1, GenuineByte
<1>2. CASE ServiceQuiet
  <2>1. UNCHANGED <<lock, sent>> BY <1>2 DEF ServiceQuiet, history
  <2>2. UNCHANGED tlm \/ MarkOutputsStale BY <1>2 DEF ServiceQuiet, GoStale
  <2> QED BY <1>s, <2>1, <2>2, StaleNow
<1>3. CASE ServiceReadError BY <1>3, <1>s, StaleNow DEF ServiceReadError
<1>4. ASSUME NEW opens \in BOOLEAN, ServiceClosed(opens) PROVE Genuine'
  BY <1>4, <1>t DEF ServiceClosed
<1>5. ASSUME NEW opens \in BOOLEAN, ProcessSerialReconnectCmd(opens) PROVE Genuine'
  BY <1>5, <1>t DEF ProcessSerialReconnectCmd
<1>6. CASE Restart
  BY <1>6 DEF Restart, Genuine, NoOutput
<1>7. CASE ProcessParserResetCmd BY <1>7, <1>t DEF ProcessParserResetCmd
<1>8. ASSUME NEW script \in Traffic, Send(script) PROVE Genuine'
  <2>1. PICK m \in Message : sent' = Append(sent, m)
    <3>1. script \in Seq(Message) /\ Len(sent) < Len(script) /\ Len(sent) \in Nat
      BY <1>8, TrafficAssumption DEF Send, LineInv
    <3>2. script[Len(sent) + 1] \in Message BY <3>1
    <3> QED BY <1>8, <3>2 DEF Send
  <2>2. UNCHANGED <<lock, tlm>> BY <1>8 DEF Send
  <2>3. \A i \in 1..Len(sent) : i \in 1..Len(sent') /\ sent'[i] = sent[i]
    BY <2>1, AppendProperties DEF LineInv
  <2> QED BY <2>2, <2>3 DEF Genuine, lock
<1>9. ASSUME NEW bytes, LineFault(bytes) PROVE Genuine' BY <1>9, <1>t DEF LineFault
<1>10. CASE UNCHANGED vars BY <1>10, <1>t DEF vars, history
<1> QED BY <1>1, <1>2, <1>3, <1>4, <1>5, <1>6, <1>7, <1>8, <1>9, <1>10
      DEF Next, LoseByte, DamageByte, AddByte

\* Nothing is invented, for any number of bytes lost, damaged or added, as long as
\* the checksum lets pass only what was sent: no field that HandleFrameComplete looks
\* at, and no state of the parser, gets by it (ProcessReceivedByte, BL-77).
THEOREM NothingIsInvented ==
    ASSUME RegularTraffic PROVE Spec /\ []OnlySentPasses => []NothingInvented
<1> DEFINE Inv == SilenceInv /\ OutputsExist /\ LineInv /\ CleanInv /\ Genuine
<1>1. Init => Inv
  <2>1. Init => Genuine BY DEF Init, Genuine, NoOutput
  <2> QED BY <2>1, InitSilence, InitLine, InitClean
<1>2. Inv /\ OnlySentPasses /\ [Next]_vars => Inv'
  BY NextSilence, NextLine, NextClean, NextGenuine
<1>3. Inv => NothingInvented
  <2> SUFFICES ASSUME Genuine PROVE NothingInvented OBVIOUS
  <2>1. \A i \in 1..Len(sent) : sent[i] \in {sent[j] : j \in 1..Len(sent)} OBVIOUS
  <2> QED BY <2>1 DEF Genuine, NothingInvented
<1> QED BY <1>1, <1>2, <1>3, PTL DEF Spec
==============================================================================
