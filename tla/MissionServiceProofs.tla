------------------------ MODULE MissionServiceProofs -------------------------
(****************************************************************************)
(* Proofs about MissionService, for any routes, missions, retries, lateness *)
(* and number of faults, unless a theorem says otherwise.                   *)
(*                                                                          *)
(* 1. Upload and readback exclude each other (Exclusion).                   *)
(* 2. Types (TypeCorrect).                                                  *)
(* 3. What is read back is a mission (ReadbackTrue).  The invariant says    *)
(*    that one request or answer at most is under way for the readback, and *)
(*    that what has been received is a beginning of the FC's mission.       *)
(* 4. A success is true (SuccessStored), unless the upload was mixed up     *)
(*    with the answers to an earlier one or to MISSION_CLEAR_ALL.  The      *)
(*    invariant follows the one question or answer of the upload that is    *)
(*    under way.                                                            *)
(****************************************************************************)
EXTENDS MissionService, SequenceTheorems, TLAPS

\* The steps that leave both state machines where they are.
LEMMA Untouched ==
    ASSUME UploadExcludesReadback, intruded' = intruded,
           UNCHANGED <<MissionUploadState, MissionDownloadState>>
    PROVE  UploadExcludesReadback'
  BY DEF UploadExcludesReadback

\* SetLinkState starts a readback only when both state machines are idle.
LEMMA ConnectIsSafe ==
    ASSUME UploadExcludesReadback, NEW before, NEW frames, Connect(before, frames),
           intruded' = intruded, MissionUploadState' = MissionUploadState
    PROVE  UploadExcludesReadback'
  <1>1. CASE MissionDownloadState' = MissionDownloadState
    BY <1>1 DEF UploadExcludesReadback
  <1>2. CASE MissionUploadState = "IDLE"
    BY <1>2 DEF UploadExcludesReadback
  <1>3. QED
    BY <1>1, <1>2 DEF Connect, download

\* For every length of route, number of retries, timing of the FC and number of
\* faults: upload and readback exclude each other unless a MISSION_QUERY comes
\* during an upload (StartMissionUpload, SetLinkState, ServiceSerial, MISSION_ACK
\* handler).  The invariant is inductive as it stands.
THEOREM Exclusion == Spec => []UploadExcludesReadback
  <1>1. Init => UploadExcludesReadback
    BY DEF Init, UploadExcludesReadback
  <1>2. UploadExcludesReadback /\ [Next]_vars => UploadExcludesReadback'
    <2> SUFFICES ASSUME UploadExcludesReadback, [Next]_vars
                 PROVE  UploadExcludesReadback'
      OBVIOUS
    <2>1. ASSUME NEW op, NEW index, NEW wps, StartMissionUpload(op, index, wps)
          PROVE  UploadExcludesReadback'
      BY <2>1 DEF StartMissionUpload, download, UploadExcludesReadback
    <2>2. CASE CheckMissionUploadTimeout
      <3>1. MissionUploadState = "IDLE" => MissionUploadState' = "IDLE"
        BY <2>2 DEF CheckMissionUploadTimeout, ClearDelayOver, RetryUpload, UploadFailed
      <3>2. MissionDownloadState' = MissionDownloadState /\ intruded' = intruded
        BY <2>2 DEF CheckMissionUploadTimeout, ClearDelayOver, RetryUpload,
                    UploadFailed, download, history
      <3>3. QED
        BY <3>1, <3>2 DEF UploadExcludesReadback
    <2>3. CASE MissionQuery
      BY <2>3 DEF MissionQuery, upload, UploadExcludesReadback
    <2>4. CASE CheckMissionDownloadTimeout
      BY <2>4 DEF CheckMissionDownloadTimeout, UploadExcludesReadback
    <2>5. CASE RetryReadback
      BY <2>5 DEF RetryReadback, upload, UploadExcludesReadback
    <2>6. ASSUME NEW resume, LinkAlive(resume)
          PROVE  UploadExcludesReadback'
      BY <2>6, ConnectIsSafe DEF LinkAlive, history
    <2>7. CASE LinkStale \/ ReadError \/ ReconnectFails
      BY <2>7, Untouched DEF LinkStale, ReadError, ReconnectFails, upload, download,
                             history
    <2>8. CASE Reconnect
      BY <2>8, ConnectIsSafe DEF Reconnect, upload, history
    <2>9. ASSUME NEW ok, ProcessSerialReconnectCmd(ok)
          PROVE  UploadExcludesReadback'
      <3>1. intruded' = intruded /\ MissionUploadState' = MissionUploadState
        BY <2>9 DEF ProcessSerialReconnectCmd, upload
      <3>2. CASE ok
        BY <2>9, <3>1, <3>2, ConnectIsSafe DEF ProcessSerialReconnectCmd
      <3>3. CASE ~ok
        BY <2>9, <3>1, <3>3, Untouched DEF ProcessSerialReconnectCmd, download
      <3>4. QED
        BY <3>2, <3>3
    <2>10. CASE OnMissionRequestInt \/ OnMissionRequest
      BY <2>10, Untouched DEF OnMissionRequestInt, OnMissionRequest, upload, download, history
    <2>11. CASE OnMissionAck
      <3>1. intruded' = intruded
        BY <2>11 DEF OnMissionAck
      <3>2. \/ MissionUploadState' = "IDLE"
            \/ UNCHANGED <<MissionUploadState, MissionDownloadState>>
        BY <2>11 DEF OnMissionAck, upload, download
      <3>3. QED
        BY <3>1, <3>2, Untouched DEF UploadExcludesReadback
    <2>12. CASE OnMissionCount
      <3>1. intruded' = intruded /\ MissionUploadState' = MissionUploadState
        BY <2>12 DEF OnMissionCount, upload, history
      <3>2. MissionDownloadState = "IDLE" => MissionDownloadState' = "IDLE"
        BY <2>12 DEF OnMissionCount, download
      <3>3. QED
        BY <3>1, <3>2 DEF UploadExcludesReadback
    <2>13. CASE OnMissionItem
      <3>1. intruded' = intruded /\ MissionUploadState' = MissionUploadState
        BY <2>13 DEF OnMissionItem, upload, history
      <3>2. MissionDownloadState = "IDLE" => MissionDownloadState' = "IDLE"
        BY <2>13 DEF OnMissionItem, download
      <3>3. QED
        BY <3>1, <3>2 DEF UploadExcludesReadback
    <2>14. CASE FcStep
      BY <2>14, Untouched DEF FcStep, upload, download
    <2>15. CASE FcRefuses \/ FcDies \/ FcReboots \/ LoseToFc \/ LoseFromFc
      BY <2>15, Untouched DEF FcRefuses, FcDies, FcReboots, LoseToFc, LoseFromFc,
                              upload, download, history
    <2>16. CASE Restart
      BY <2>16 DEF Restart, UploadExcludesReadback
    <2>17. CASE UNCHANGED vars
      BY <2>17, Untouched DEF vars, upload, download, history
    <2>18. QED
      BY <2>1, <2>2, <2>3, <2>4, <2>5, <2>6, <2>7, <2>8, <2>9, <2>10, <2>11,
         <2>12, <2>13, <2>14, <2>15, <2>16, <2>17 DEF Next, RouteUpdate, Receive
  <1>3. QED
    BY <1>1, <1>2, PTL DEF Spec

------------------------------------------------------------------------------
(* The serial line *)

LEMMA Limits ==
    /\ MaxWaypoints \in Nat \ {0} /\ MaxRetries \in Nat /\ MaxLate \in Nat
    /\ Legacy \in [Waypoints -> Waypoints]
    /\ Routes \subseteq Seq(Waypoints) /\ FcMissions \subseteq Seq(Waypoints)
  BY WaypointsAssumption, RoutesAssumption, LimitsAssumption

\* m is now the last frame on the line to the FC.
Put(m) ==
    /\ toFc' \in Seq(Frame)
    /\ Len(toFc') = Len(toFc) + 1 /\ toFc'[Len(toFc) + 1] = m
    /\ \A i \in 1..Len(toFc) : toFc'[i] = toFc[i]

\* One frame handed to the port is the last one on the line, or is dropped.
LEMMA SentOne ==
    ASSUME toFc \in Seq(Frame), NEW m \in Frame, Send(<<m>>)
    PROVE  toFc' = toFc \/ (open /\ Put(m))
  <1>1. <<m>> \in Seq(Frame) /\ Len(<<m>>) = 1 /\ <<m>>[1] = m
    OBVIOUS
  <1>2. PICK ms \in Seq(Frame) : ms = <<m>>
    BY <1>1
  <1>3. /\ toFc \o ms \in Seq(Frame)
        /\ Len(toFc \o ms) = Len(toFc) + Len(ms)
        /\ \A i \in 1..Len(toFc) + Len(ms) :
               (toFc \o ms)[i] = IF i <= Len(toFc) THEN toFc[i] ELSE ms[i - Len(toFc)]
    BY <1>2, ConcatProperties
  <1>4. toFc' = IF open THEN toFc \o ms ELSE toFc
    BY <1>2 DEF Send
  <1>5. Len(toFc) \in Nat
    OBVIOUS
  <1>6. Len(ms) = 1 /\ ms[1] = m
    BY <1>1, <1>2
  <1>7. QED
    BY <1>3, <1>4, <1>5, <1>6 DEF Put

LEMMA AppendedOne ==
    ASSUME toFc \in Seq(Frame), NEW m \in Frame, toFc' = Append(toFc, m)
    PROVE  Put(m)
  BY AppendProperties DEF Put

\* So is a pair of frames.
LEMMA SentTwo ==
    ASSUME toFc \in Seq(Frame), NEW l \in Frame, NEW m \in Frame, Send(<<l, m>>)
    PROVE  /\ toFc' \in Seq(Frame)
           /\ \/ toFc' = toFc
              \/ /\ open /\ Len(toFc') = Len(toFc) + 2
                 /\ toFc'[Len(toFc) + 1] = l /\ toFc'[Len(toFc) + 2] = m
                 /\ \A i \in 1..Len(toFc) : toFc'[i] = toFc[i]
  <1>1. <<l, m>> \in Seq(Frame) /\ Len(<<l, m>>) = 2 /\ <<l, m>>[1] = l /\ <<l, m>>[2] = m
    OBVIOUS
  <1>2. PICK ms \in Seq(Frame) : ms = <<l, m>>
    BY <1>1
  <1>3. /\ toFc \o ms \in Seq(Frame)
        /\ Len(toFc \o ms) = Len(toFc) + Len(ms)
        /\ \A i \in 1..Len(toFc) + Len(ms) :
               (toFc \o ms)[i] = IF i <= Len(toFc) THEN toFc[i] ELSE ms[i - Len(toFc)]
    BY <1>2, ConcatProperties
  <1>4. toFc' = IF open THEN toFc \o ms ELSE toFc
    BY <1>2 DEF Send
  <1>5. Len(toFc) \in Nat
    OBVIOUS
  <1>6. Len(ms) = 2 /\ ms[1] = l /\ ms[2] = m
    BY <1>1, <1>2
  <1>7. QED
    BY <1>3, <1>4, <1>5, <1>6

\* The answer of the FC is behind what is on its way already.
LEMMA Answered ==
    ASSUME fromFc \in Seq(Frame), NEW m \in Frame, Answer(<<m>>)
    PROVE  /\ fromFc' \in Seq(Frame)
           /\ Len(fromFc') = Len(fromFc) + 1 /\ fromFc'[Len(fromFc) + 1] = m
           /\ \A i \in 1..Len(fromFc) : fromFc'[i] = fromFc[i]
  <1>1. <<m>> \in Seq(Frame) /\ Len(<<m>>) = 1 /\ <<m>>[1] = m
    OBVIOUS
  <1>2. PICK ms \in Seq(Frame) : ms = <<m>>
    BY <1>1
  <1>3. /\ fromFc \o ms \in Seq(Frame)
        /\ Len(fromFc \o ms) = Len(fromFc) + Len(ms)
        /\ \A i \in 1..Len(fromFc) + Len(ms) :
               (fromFc \o ms)[i] = IF i <= Len(fromFc) THEN fromFc[i]
                                   ELSE ms[i - Len(fromFc)]
    BY <1>2, ConcatProperties
  <1>4. fromFc' = fromFc \o ms
    BY <1>2 DEF Answer
  <1>5. Len(fromFc) \in Nat
    OBVIOUS
  <1>6. Len(ms) = 1 /\ ms[1] = m
    BY <1>1, <1>2
  <1>7. QED
    BY <1>3, <1>4, <1>5, <1>6

LEMMA NoAnswer ==
    ASSUME fromFc \in Seq(Frame), Answer(<< >>)
    PROVE  fromFc' = fromFc
  BY ConcatEmptySeq DEF Answer

\* A frame that is taken from the line, or lost, is the first one.
LEMMA Taken ==
    ASSUME NEW q \in Seq(Frame), q # << >>
    PROVE  /\ Head(q) = q[1] /\ Head(q) \in Frame
           /\ Tail(q) \in Seq(Frame) /\ Len(q) \in Nat \ {0}
           /\ Len(Tail(q)) = Len(q) - 1
           /\ \A i \in 1..Len(Tail(q)) : i + 1 \in 1..Len(q) /\ Tail(q)[i] = q[i + 1]
  <1>1. Head(q) = q[1] /\ Len(q) \in Nat \ {0}
    BY EmptySeq
  <1>2. /\ Head(q) \in Frame /\ Tail(q) \in Seq(Frame) /\ Len(Tail(q)) = Len(q) - 1
        /\ \A i \in 1..Len(Tail(q)) : Tail(q)[i] = q[i + 1]
    BY HeadTailProperties
  <1>3. QED
    BY <1>1, <1>2

LEMMA PlainIsFrame ==
    ASSUME NEW type \in {"CLEAR_ALL", "COUNT", "REQUEST_LIST", "REQUEST", "REQUEST_INT",
                        "ITEM", "ACK", "CLEAR_ACK"},
           NEW n \in Nat
    PROVE  /\ Plain(type, n) \in Frame
           /\ Plain(type, n).type = type /\ Plain(type, n).n = n
  BY DEF Plain, Message, Frame

LEMMA MessageIsFrame ==
    ASSUME NEW type \in {"CLEAR_ALL", "COUNT", "REQUEST_LIST", "REQUEST", "REQUEST_INT",
                        "ITEM", "ACK", "CLEAR_ACK"},
           NEW n \in Nat, NEW wp \in Waypoints
    PROVE  /\ Message(type, n, wp) \in Frame
           /\ Message(type, n, wp).type = type /\ Message(type, n, wp).n = n
           /\ Message(type, n, wp).wp = wp
  BY DEF Message, Frame

\* A cut route is a route that fits.
LEMMA ClampFits ==
    ASSUME NEW S, NEW route \in Seq(S)
    PROVE  /\ Clamp(route) \in Seq(S)
           /\ Len(Clamp(route)) = IF Len(route) < MaxWaypoints THEN Len(route)
                                  ELSE MaxWaypoints
           /\ \A i \in 1..Len(Clamp(route)) : Clamp(route)[i] = route[i]
  <1>1. PICK n \in Nat : n = IF Len(route) < MaxWaypoints THEN Len(route) ELSE MaxWaypoints
    BY Limits
  <1>2. \A i \in 1..n : route[i] \in S
    BY <1>1, Limits
  <1>3. /\ SubSeq(route, 1, n) \in Seq(S)
        /\ Len(SubSeq(route, 1, n)) = IF 1 <= n THEN n - 1 + 1 ELSE 0
        /\ \A i \in 1..n - 1 + 1 : SubSeq(route, 1, n)[i] = route[1 + i - 1]
    BY <1>2, SubSeqProperties
  <1>4. Clamp(route) = SubSeq(route, 1, n)
    BY <1>1 DEF Clamp
  <1>5. QED
    BY <1>1, <1>3, <1>4, Limits

LEMMA WithoutFits ==
    ASSUME NEW S, NEW route \in Seq(S), NEW index \in Nat, index < Len(route)
    PROVE  Without(route, index) \in Seq(S) /\ Len(Without(route, index)) =< Len(route)
  <1>1. Len(route) \in Nat
    OBVIOUS
  <1>2. (\A i \in 1..index : route[i] \in S) /\ (\A i \in (index + 2)..Len(route) : route[i] \in S)
    BY <1>1
  <1>3. /\ SubSeq(route, 1, index) \in Seq(S)
        /\ Len(SubSeq(route, 1, index)) = IF 1 <= index THEN index - 1 + 1 ELSE 0
    BY <1>2, SubSeqProperties
  <1>4. /\ SubSeq(route, index + 2, Len(route)) \in Seq(S)
        /\ Len(SubSeq(route, index + 2, Len(route)))
             = IF index + 2 <= Len(route) THEN Len(route) - (index + 2) + 1 ELSE 0
    BY <1>1, <1>2, SubSeqProperties
  <1>5. PICK a \in Seq(S), b \in Seq(S) :
            a = SubSeq(route, 1, index) /\ b = SubSeq(route, index + 2, Len(route))
    BY <1>3, <1>4
  <1>6. a \o b \in Seq(S) /\ Len(a \o b) = Len(a) + Len(b)
    BY ConcatProperties
  <1>7. Len(a) = index /\ Len(b) =< Len(route) - index
    BY <1>1, <1>3, <1>4, <1>5
  <1>8. Without(route, index) = a \o b
    BY <1>5 DEF Without
  <1>9. Len(b) \in Nat
    OBVIOUS
  <1>10. QED
    BY <1>1, <1>6, <1>7, <1>8, <1>9

\* Every operation of the ground makes a route that the bridge can hold.
LEMMA NewRouteFits ==
    ASSUME active \in Seq(Waypoints), Len(active) =< MaxWaypoints,
           NEW op, NEW index \in Nat, NEW wps \in Seq(Waypoints),
           op = "DELETE" => index < Len(active),
           op = "MODIFY" => index < Len(active) /\ wps # << >>
    PROVE  NewRoute(op, index, wps) \in Seq(Waypoints)
           /\ Len(NewRoute(op, index, wps)) =< MaxWaypoints
  <1>1. CASE op = "ADD"
    <2>1. PICK r \in Seq(Waypoints) : r = active \o wps
      BY ConcatProperties
    <2>2. Clamp(r) \in Seq(Waypoints) /\ Len(Clamp(r)) =< MaxWaypoints
      BY ClampFits, Limits
    <2>3. QED
      BY <1>1, <2>1, <2>2 DEF NewRoute
  <1>2. CASE op = "DELETE"
    BY <1>2, WithoutFits, Limits DEF NewRoute
  <1>3. CASE op = "MODIFY"
    <2>1. wps[1] \in Waypoints /\ index + 1 \in 1..Len(active)
      BY <1>3, EmptySeq
    <2>2. [active EXCEPT ![index + 1] = wps[1]] \in Seq(Waypoints)
          /\ Len([active EXCEPT ![index + 1] = wps[1]]) = Len(active)
      BY <2>1, ExceptSeq
    <2>3. QED
      BY <1>3, <2>2 DEF NewRoute
  <1>4. CASE op \notin {"ADD", "DELETE", "MODIFY"}
    <2>1. Clamp(wps) \in Seq(Waypoints) /\ Len(Clamp(wps)) =< MaxWaypoints
      BY ClampFits, Limits
    <2>2. QED
      BY <1>4, <2>1 DEF NewRoute
  <1>5. QED
    BY <1>1, <1>2, <1>3, <1>4

------------------------------------------------------------------------------
(* Types *)

UploadType ==
    /\ MissionUploadState \in {"IDLE", "CLEARING", "ACTIVE"}
    /\ pending \in Seq(Waypoints) /\ Len(pending) =< MaxWaypoints
    /\ active \in Seq(Waypoints) /\ Len(active) =< MaxWaypoints
    /\ MissionUploadRetry \in 0..MaxRetries
    /\ LastUploadResult \in {"NONE", "SUCCESS", "NAK", "TIMEOUT"}
    /\ ActiveResumeIndex \in Nat
    /\ mistaken \in BOOLEAN /\ overtaken \in BOOLEAN

DownloadType ==
    /\ MissionDownloadState \in {"IDLE", "WAIT_COUNT", "WAIT_ITEM"}
    /\ MissionDownloadSeq \in Nat /\ MissionDownloadExpectedCount \in Nat
    /\ buffer \in [1..MaxWaypoints -> Waypoints \cup {None}]
    /\ MissionReadbackPending \in BOOLEAN
    /\ readback \in Seq(Seq(Waypoints \cup {None}))
    /\ crossed \in BOOLEAN

FcType ==
    /\ fc \in [mission : Seq(Waypoints), items : Seq(Waypoints), want : Nat,
               alive : BOOLEAN]
    /\ fcPast \subseteq Seq(Waypoints)

\* The items that the bridge sends carry a waypoint.
LineType ==
    /\ toFc \in Seq(Frame) /\ fromFc \in Seq(Frame)
    /\ \A i \in 1..Len(toFc) : toFc[i].type = "ITEM" => toFc[i].wp \in Waypoints

LinkType ==
    /\ LinkState \in {"DISCONNECTED", "CONNECTED", "DEGRADED"} /\ open \in BOOLEAN
    /\ intruded \in BOOLEAN
    /\ used \in [updates : Nat, queries : Nat, faults : Nat]

TypeInv == UploadType /\ DownloadType /\ FcType /\ LineType /\ LinkType

LEMMA TypeInit == Init => TypeInv
  <1> SUFFICES ASSUME Init PROVE TypeInv
    OBVIOUS
  <1>1. UploadType
    <2>1. mistaken \in BOOLEAN /\ overtaken \in BOOLEAN
      BY DEF Init
    <2>2. QED
      BY <2>1, Limits DEF Init, UploadType
  <1>2. DownloadType
    <2>1. buffer \in [1..MaxWaypoints -> Waypoints \cup {None}]
      BY DEF Init
    <2>2. readback \in Seq(Seq(Waypoints \cup {None}))
      BY EmptySeq DEF Init
    <2>3. QED
      BY <2>1, <2>2 DEF Init, DownloadType
  <1>3. FcType
    <2>1. PICK m \in FcMissions :
              /\ fc = [mission |-> m, items |-> << >>, want |-> 0, alive |-> TRUE]
              /\ fcPast = {Clamp(m)}
      BY DEF Init
    <2>2. m \in Seq(Waypoints)
      BY Limits
    <2>3. Clamp(m) \in Seq(Waypoints)
      BY <2>2, ClampFits
    <2>4. QED
      BY <2>1, <2>2, <2>3 DEF FcType
  <1>4. LineType
    BY DEF Init, LineType
  <1>5. LinkType
    BY DEF Init, LinkType
  <1>6. QED
    BY <1>1, <1>2, <1>3, <1>4, <1>5 DEF TypeInv

LEMMA UploadTypeStep == TypeInv /\ [Next]_vars => UploadType'
  <1> SUFFICES ASSUME TypeInv, [Next]_vars PROVE UploadType'
    OBVIOUS
  <1> USE DEF TypeInv
  <1>0. ASSUME UNCHANGED upload PROVE UploadType'
    BY <1>0 DEF UploadType, upload
  <1>1. ASSUME NEW op \in {"ADD", "REPLACE", "DELETE", "MODIFY"}, NEW index \in Nat,
               NEW wps \in Seq(Waypoints), op = "MODIFY" => wps # << >>,
               StartMissionUpload(op, index, wps)
        PROVE  UploadType'
    <2>1. op \in {"DELETE", "MODIFY"} => index < Len(active)
      BY <1>1 DEF StartMissionUpload
    <2>2. NewRoute(op, index, wps) \in Seq(Waypoints)
          /\ Len(NewRoute(op, index, wps)) =< MaxWaypoints
      BY <1>1, <2>1, NewRouteFits DEF UploadType
    <2>3. pending' = NewRoute(op, index, wps)
      BY <1>1 DEF StartMissionUpload
    <2>4. /\ MissionUploadState' = "CLEARING" /\ MissionUploadRetry' = 0
          /\ LastUploadResult' = LastUploadResult /\ active' = active
      BY <1>1 DEF StartMissionUpload
    <2>5. ActiveResumeIndex' \in Nat
      BY <1>1 DEF StartMissionUpload, UploadType
    <2>6. mistaken' \in BOOLEAN /\ overtaken' \in BOOLEAN
      BY <1>1 DEF StartMissionUpload
    <2>7. QED
      BY <2>2, <2>3, <2>4, <2>5, <2>6, Limits DEF UploadType
  <1>2. CASE CheckMissionUploadTimeout
    <2>1. overtaken' \in BOOLEAN
      BY <1>2 DEF CheckMissionUploadTimeout, ClearDelayOver, RetryUpload, UploadFailed,
                  ExchangeUnderWay, UploadType
    <2>2. mistaken' = mistaken
      BY <1>2 DEF CheckMissionUploadTimeout, ClearDelayOver, RetryUpload, UploadFailed
    <2>3. QED
      BY <1>2, <2>1, <2>2, Limits DEF CheckMissionUploadTimeout, ClearDelayOver,
                                      RetryUpload, UploadFailed, UploadType
  <1>3. ASSUME NEW resume \in Nat, LinkAlive(resume) PROVE UploadType'
    BY <1>3 DEF LinkAlive, UploadType
  <1>4. CASE Restart
    BY <1>4, Limits DEF Restart, UploadType
  <1>5. CASE OnMissionAck
    BY <1>5 DEF OnMissionAck, UploadType, upload
  <1>6. CASE \/ MissionQuery \/ CheckMissionDownloadTimeout \/ RetryReadback
             \/ LinkStale \/ ReadError \/ Reconnect \/ ReconnectFails
             \/ \E ok \in BOOLEAN : ProcessSerialReconnectCmd(ok)
    BY <1>0, <1>6 DEF MissionQuery, CheckMissionDownloadTimeout, RetryReadback, LinkStale,
                ReadError, Reconnect, ReconnectFails, ProcessSerialReconnectCmd
  <1>7. CASE OnMissionRequestInt \/ OnMissionRequest \/ OnMissionCount \/ OnMissionItem
    BY <1>0, <1>7 DEF OnMissionRequestInt, OnMissionRequest, OnMissionCount, OnMissionItem
  <1>8. CASE FcStep \/ FcRefuses \/ FcDies \/ FcReboots \/ LoseToFc \/ LoseFromFc
    BY <1>0, <1>8 DEF FcStep, FcRefuses, FcDies, FcReboots, LoseToFc, LoseFromFc
  <1>9. CASE RouteUpdate
    <2>1. Routes \subseteq Seq(Waypoints) /\ << >> \in Seq(Waypoints)
          /\ 0..(MaxWaypoints - 1) \subseteq Nat
      BY Limits
    <2>2. ASSUME NEW op \in {"ADD", "REPLACE"}, NEW wps \in Routes,
                 StartMissionUpload(op, 0, wps)
          PROVE  UploadType'
      BY <1>1, <2>1, <2>2
    <2>3. ASSUME NEW index \in 0..(MaxWaypoints - 1),
                 StartMissionUpload("DELETE", index, << >>)
          PROVE  UploadType'
      BY <1>1, <2>1, <2>3
    <2>4. ASSUME NEW index \in 0..(MaxWaypoints - 1), NEW wps \in Routes, wps # << >>,
                 StartMissionUpload("MODIFY", index, wps)
          PROVE  UploadType'
      BY <1>1, <2>1, <2>4
    <2>5. QED
      BY <1>9, <2>2, <2>3, <2>4 DEF RouteUpdate
  <1>10. CASE \E resume \in {ActiveResumeIndex} \cup 0..(MaxWaypoints - 1) : LinkAlive(resume)
    <2>1. {ActiveResumeIndex} \cup 0..(MaxWaypoints - 1) \subseteq Nat
      BY Limits DEF UploadType
    <2>2. QED
      BY <1>3, <1>10, <2>1
  <1>11. CASE UNCHANGED vars
    BY <1>0, <1>11 DEF vars
  <1>12. QED
    BY <1>2, <1>4, <1>5, <1>6, <1>7, <1>8, <1>9, <1>10, <1>11 DEF Next, Receive

\* What is published is one route, the part of the buffer that was filled.
LEMMA FilledFits ==
    ASSUME NEW S, NEW count \in Nat, NEW items \in [1..MaxWaypoints -> S]
    PROVE  \E r \in Seq(S) :
               /\ r = [i \in 1..(IF count < MaxWaypoints THEN count ELSE MaxWaypoints) |->
                          items[i]]
               /\ Len(r) = IF count < MaxWaypoints THEN count ELSE MaxWaypoints
               /\ \A i \in 1..Len(r) : r[i] = items[i]
  <1>1. PICK n \in Nat : n = IF count < MaxWaypoints THEN count ELSE MaxWaypoints
    BY Limits
  <1>2. PICK r : r = [i \in 1..n |-> items[i]]
    OBVIOUS
  <1>3. n =< MaxWaypoints
    BY <1>1, Limits
  <1>4. r \in [1..n -> S]
    BY <1>2, <1>3, Limits
  <1>5. r \in Seq(S)
    BY <1>4, SeqDef
  <1>6. Len(r) = n /\ \A i \in 1..n : r[i] = items[i]
    BY <1>2, <1>4, <1>5
  <1>7. QED
    BY <1>1, <1>2, <1>5, <1>6

LEMMA PublishedFits ==
    ASSUME NEW S, NEW count \in Nat, NEW items \in [1..MaxWaypoints -> S],
           PublishFcMissionReadback(count, items)
    PROVE  readback' \in Seq(Seq(S))
  <1>1. PICK r \in Seq(S) :
            /\ r = [i \in 1..(IF count < MaxWaypoints THEN count ELSE MaxWaypoints) |->
                       items[i]]
            /\ Len(r) = IF count < MaxWaypoints THEN count ELSE MaxWaypoints
            /\ \A i \in 1..Len(r) : r[i] = items[i]
    BY FilledFits
  <1>2. readback' = <<r>>
    BY <1>1 DEF PublishFcMissionReadback
  <1>3. QED
    BY <1>2

LEMMA DownloadTypeStep == TypeInv /\ [Next]_vars => DownloadType'
  <1> SUFFICES ASSUME TypeInv, [Next]_vars PROVE DownloadType'
    OBVIOUS
  <1> USE DEF TypeInv
  <1>0. ASSUME UNCHANGED download PROVE DownloadType'
    BY <1>0 DEF DownloadType, download
  <1>1. ASSUME RequestList, MissionReadbackPending' \in BOOLEAN PROVE DownloadType'
    <2>1. crossed' \in BOOLEAN
      BY <1>1 DEF RequestList, DownloadType
    <2>2. QED
      BY <1>1, <2>1 DEF RequestList, DownloadType
  <1>2. ASSUME NEW before, NEW frames, Connect(before, frames) PROVE DownloadType'
    <2>1. \/ UNCHANGED download
          \/ StartFcMissionReadback
          \/ /\ MissionReadbackPending' = FALSE
             /\ UNCHANGED <<MissionDownloadState, MissionDownloadSeq,
                            MissionDownloadExpectedCount, buffer, readback, crossed>>
      BY <1>2 DEF Connect
    <2>2. QED
      BY <1>0, <1>1, <2>1 DEF StartFcMissionReadback, DownloadType
  <1>3. CASE MissionQuery
    <2>1. MissionReadbackPending' = MissionReadbackPending
      BY <1>3 DEF MissionQuery
    <2>2. QED
      BY <1>1, <1>3, <2>1 DEF MissionQuery, DownloadType
  <1>4. CASE CheckMissionDownloadTimeout
    <2>1. MissionReadbackPending' \in BOOLEAN
      BY <1>4 DEF CheckMissionDownloadTimeout, DownloadType
    <2>2. QED
      BY <1>4, <2>1 DEF CheckMissionDownloadTimeout, DownloadType
  <1>5. CASE RetryReadback
    BY <1>1, <1>5 DEF RetryReadback, StartFcMissionReadback
  <1>6. CASE \/ \E resume : LinkAlive(resume)
             \/ Reconnect
             \/ \E ok \in BOOLEAN : ProcessSerialReconnectCmd(ok)
    BY <1>0, <1>2, <1>6 DEF LinkAlive, Reconnect, ProcessSerialReconnectCmd
  <1>7. CASE ReadError \/ ReconnectFails
    BY <1>7 DEF ReadError, ReconnectFails, DownloadType
  <1>8. CASE Restart
    BY <1>8 DEF Restart, DownloadType
  <1>9. CASE OnMissionAck
    <2>1. UNCHANGED download \/ StartFcMissionReadback
      BY <1>9 DEF OnMissionAck
    <2>2. QED
      BY <1>0, <1>1, <2>1 DEF StartFcMissionReadback
  <1>10. CASE OnMissionCount
    <2>1. fromFc # << >>
      BY <1>10 DEF OnMissionCount, Received
    <2>2. Head(fromFc) \in Frame
      BY <2>1, Taken DEF LineType
    <2>3. Head(fromFc).n \in Nat
      BY <2>2 DEF Frame
    <2>4. CASE UNCHANGED download
      BY <1>0, <2>4
    <2>5. CASE /\ MissionDownloadState' = "IDLE" /\ MissionDownloadExpectedCount' = 0
               /\ PublishFcMissionReadback(0, buffer)
               /\ UNCHANGED <<MissionDownloadSeq, buffer, MissionReadbackPending, crossed>>
      <3>1. readback' \in Seq(Seq(Waypoints \cup {None}))
        BY <2>5, PublishedFits DEF DownloadType
      <3>2. QED
        BY <2>5, <3>1 DEF DownloadType
    <2>6. CASE /\ MissionDownloadState' = "WAIT_ITEM" /\ MissionDownloadSeq' = 0
               /\ MissionDownloadExpectedCount' = Head(fromFc).n
               /\ UNCHANGED <<buffer, MissionReadbackPending, readback, crossed>>
      BY <2>3, <2>6 DEF DownloadType
    <2>7. QED
      BY <1>10, <2>4, <2>5, <2>6 DEF OnMissionCount
  <1>11. CASE OnMissionItem
    <2>1. fromFc # << >>
      BY <1>11 DEF OnMissionItem, Received
    <2>2. Head(fromFc) \in Frame
      BY <2>1, Taken DEF LineType
    <2>3. Head(fromFc).wp \in Waypoints \cup {None}
      BY <2>2 DEF Frame
    <2>4. CASE UNCHANGED download
      BY <1>0, <2>4
    <2>5. CASE MissionDownloadState = "WAIT_ITEM"
      <3>1. /\ buffer' = Stored(Head(fromFc).wp)
            /\ MissionDownloadSeq' = MissionDownloadSeq + 1
            /\ MissionDownloadExpectedCount' = MissionDownloadExpectedCount
            /\ MissionReadbackPending' = MissionReadbackPending /\ crossed' = crossed
            /\ \/ /\ MissionDownloadState' = "IDLE"
                  /\ PublishFcMissionReadback(MissionDownloadExpectedCount, buffer')
               \/ UNCHANGED <<MissionDownloadState, readback>>
        BY <1>11, <2>5 DEF OnMissionItem
      <3>2. buffer' \in [1..MaxWaypoints -> Waypoints \cup {None}]
        BY <2>3, <3>1 DEF Stored, DownloadType
      <3>3. readback' \in Seq(Seq(Waypoints \cup {None}))
        BY <3>1, <3>2, PublishedFits DEF DownloadType
      <3>4. QED
        BY <3>1, <3>2, <3>3 DEF DownloadType
    <2>6. QED
      BY <1>11, <2>4, <2>5 DEF OnMissionItem
  <1>12. CASE RouteUpdate \/ CheckMissionUploadTimeout \/ LinkStale
             \/ OnMissionRequestInt \/ OnMissionRequest
    BY <1>0, <1>12 DEF RouteUpdate, StartMissionUpload, CheckMissionUploadTimeout,
                       ClearDelayOver, RetryUpload, UploadFailed, LinkStale,
                       OnMissionRequestInt, OnMissionRequest
  <1>13. CASE FcStep \/ FcRefuses \/ FcDies \/ FcReboots \/ LoseToFc \/ LoseFromFc
    BY <1>0, <1>13 DEF FcStep, FcRefuses, FcDies, FcReboots, LoseToFc, LoseFromFc
  <1>14. CASE UNCHANGED vars
    BY <1>0, <1>14 DEF vars
  <1>15. QED
    BY <1>3, <1>4, <1>5, <1>6, <1>7, <1>8, <1>9, <1>10, <1>11, <1>12, <1>13, <1>14
       DEF Next, Receive

LEMMA LinkTypeStep == TypeInv /\ [Next]_vars => LinkType'
  <1> SUFFICES ASSUME TypeInv, [Next]_vars PROVE LinkType'
    OBVIOUS
  <1> USE DEF TypeInv
  <1>1. ASSUME NEW what \in {"updates", "queries", "faults"}, Spend(what)
        PROVE  used' \in [updates : Nat, queries : Nat, faults : Nat]
    BY <1>1 DEF Spend, LinkType
  <1>2. CASE RouteUpdate
    BY <1>1, <1>2 DEF RouteUpdate, StartMissionUpload, line, LinkType
  <1>3. CASE MissionQuery
    <2>1. intruded' \in BOOLEAN
      BY <1>3 DEF MissionQuery, LinkType
    <2>2. QED
      BY <1>1, <1>3, <2>1 DEF MissionQuery, line, LinkType
  <1>4. CASE ReadError \/ Restart
    BY <1>1, <1>4 DEF ReadError, Restart, LinkType
  <1>5. CASE \E ok \in BOOLEAN : ProcessSerialReconnectCmd(ok)
    BY <1>1, <1>5 DEF ProcessSerialReconnectCmd, Connect, LinkType
  <1>6. CASE \/ \E resume : LinkAlive(resume)
             \/ Reconnect \/ ReconnectFails \/ LinkStale
    BY <1>6 DEF LinkAlive, Reconnect, ReconnectFails, LinkStale, Connect, history, LinkType
  <1>7. CASE CheckMissionUploadTimeout \/ CheckMissionDownloadTimeout \/ RetryReadback
    BY <1>7 DEF CheckMissionUploadTimeout, ClearDelayOver, RetryUpload, UploadFailed,
                CheckMissionDownloadTimeout, RetryReadback, line, history, LinkType
  <1>8. CASE Receive
    BY <1>8 DEF Receive, OnMissionRequestInt, OnMissionRequest, OnMissionAck, OnMissionCount, OnMissionItem,
                line, history, LinkType
  <1>9. CASE FcStep \/ FcReboots
    BY <1>9 DEF FcStep, FcReboots, line, history, LinkType
  <1>10. CASE FcRefuses \/ FcDies \/ LoseToFc \/ LoseFromFc
    BY <1>1, <1>10 DEF FcRefuses, FcDies, LoseToFc, LoseFromFc, line, LinkType
  <1>11. CASE UNCHANGED vars
    BY <1>11 DEF vars, line, history, LinkType
  <1>12. QED
    BY <1>2, <1>3, <1>4, <1>5, <1>6, <1>7, <1>8, <1>9, <1>10, <1>11 DEF Next

LEMMA FcTypeStep == TypeInv /\ [Next]_vars => FcType'
  <1> SUFFICES ASSUME TypeInv, [Next]_vars PROVE FcType'
    OBVIOUS
  <1> USE DEF TypeInv
  <1>0. ASSUME UNCHANGED <<fc, fcPast>> PROVE FcType'
    BY <1>0 DEF FcType
  <1>1. << >> \in Seq(Waypoints)
    OBVIOUS
  <1>2. CASE FcStep
    <2>1. toFc # << >>
      BY <1>2 DEF FcStep
    <2>2. PICK m \in Frame : m = Head(toFc) /\ m = toFc[1] /\ 1 \in 1..Len(toFc)
      BY <2>1, Taken DEF LineType
    <2>3. m.n \in Nat /\ (m.type = "ITEM" => m.wp \in Waypoints)
      BY <2>2 DEF LineType, Frame
    <2>4. ASSUME NEW mission \in Seq(Waypoints), Holds(mission) PROVE FcType'
      <3>1. Clamp(mission) \in Seq(Waypoints)
        BY ClampFits
      <3>2. QED
        BY <1>1, <2>4, <3>1 DEF Holds, FcType
    <2>5. m.type = "ITEM" => Append(fc.items, m.wp) \in Seq(Waypoints)
      BY <2>3 DEF FcType
    <2>6. \/ Holds(<< >>)
          \/ m.type = "ITEM" /\ Holds(Append(fc.items, m.wp))
          \/ fcPast' = fcPast /\ fc' = [fc EXCEPT !.items = << >>, !.want = m.n]
          \/ /\ m.type = "ITEM" /\ fcPast' = fcPast
             /\ fc' = [fc EXCEPT !.items = Append(@, m.wp)]
          \/ UNCHANGED <<fc, fcPast>>
      BY <1>2, <2>2 DEF FcStep
    <2>7. CASE fcPast' = fcPast /\ fc' = [fc EXCEPT !.items = << >>, !.want = m.n]
      BY <2>3, <1>1, <2>7 DEF FcType
    <2>8. CASE /\ m.type = "ITEM" /\ fcPast' = fcPast
               /\ fc' = [fc EXCEPT !.items = Append(@, m.wp)]
      BY <2>5, <2>8 DEF FcType
    <2>9. QED
      BY <1>0, <2>4, <1>1, <2>5, <2>6, <2>7, <2>8
  <1>3. CASE FcRefuses
    BY <1>3, <1>1 DEF FcRefuses, FcType
  <1>4. CASE FcDies
    BY <1>4 DEF FcDies, FcType
  <1>5. CASE FcReboots
    BY <1>5, <1>1 DEF FcReboots, history, FcType
  <1>6. CASE \/ RouteUpdate \/ CheckMissionUploadTimeout \/ MissionQuery
             \/ CheckMissionDownloadTimeout \/ RetryReadback
             \/ \E resume : LinkAlive(resume)
             \/ LinkStale \/ ReadError \/ Restart \/ Reconnect \/ ReconnectFails
             \/ \E ok \in BOOLEAN : ProcessSerialReconnectCmd(ok)
    BY <1>0, <1>6 DEF RouteUpdate, StartMissionUpload, CheckMissionUploadTimeout,
         ClearDelayOver, RetryUpload, UploadFailed, MissionQuery,
         CheckMissionDownloadTimeout, RetryReadback, LinkAlive, LinkStale, ReadError,
         Restart, Reconnect, ReconnectFails, ProcessSerialReconnectCmd, history
  <1>7. CASE Receive \/ LoseToFc \/ LoseFromFc
    BY <1>0, <1>7 DEF Receive, OnMissionRequestInt, OnMissionRequest, OnMissionAck, OnMissionCount,
         OnMissionItem, LoseToFc, LoseFromFc, history
  <1>8. CASE UNCHANGED vars
    BY <1>0, <1>8 DEF vars, history
  <1>9. QED
    BY <1>2, <1>3, <1>4, <1>5, <1>6, <1>7, <1>8 DEF Next

\* What a step may do to the line from the FC: the FC answers with one frame,
\* or the first one is taken or lost, or all of them.
FromStep ==
    \/ fromFc' = fromFc \/ fromFc' = << >>
    \/ fromFc # << >> /\ fromFc' = Tail(fromFc)
    \/ \E m \in Frame : Answer(<<m>>)

LEMMA FromFcStep == TypeInv /\ [Next]_vars => FromStep
  <1> SUFFICES ASSUME TypeInv, [Next]_vars PROVE FromStep
    OBVIOUS
  <1> USE DEF TypeInv
  <1>1. CASE FcStep
    <2>1. toFc # << >>
      BY <1>1 DEF FcStep
    <2>2. PICK m \in Frame : m = Head(toFc)
      BY <2>1, Taken DEF LineType
    <2>3. m.n \in Nat /\ m.n + 1 \in Nat /\ Len(fc.mission) \in Nat
      BY <2>2 DEF Frame, FcType
    <2>4. Answer(<< >>) => fromFc' = fromFc
      BY NoAnswer DEF LineType
    <2>5. /\ Plain("ACK", 0) \in Frame /\ Plain("CLEAR_ACK", 0) \in Frame
          /\ \A n \in {0, m.n + 1} : /\ Plain("REQUEST", n) \in Frame
                                   /\ Plain("REQUEST_INT", n) \in Frame
          /\ Plain("COUNT", Len(fc.mission)) \in Frame
      BY <2>3, PlainIsFrame
    <2>6. m.n < Len(fc.mission) => Message("ITEM", m.n, fc.mission[m.n + 1]) \in Frame
      <3> SUFFICES ASSUME m.n < Len(fc.mission)
                   PROVE  Message("ITEM", m.n, fc.mission[m.n + 1]) \in Frame
        OBVIOUS
      <3>1. m.n + 1 \in 1..Len(fc.mission)
        BY <2>3
      <3>2. fc.mission[m.n + 1] \in Waypoints
        BY <3>1 DEF FcType
      <3>3. QED
        BY <2>3, <3>2, MessageIsFrame
    <2>7. \/ Answer(<<Plain("ACK", 0)>>) \/ Answer(<<Plain("CLEAR_ACK", 0)>>)
          \/ Answer(<< >>)
          \/ \E n \in {0, m.n + 1} : AsksFor(n)
          \/ Answer(<<Plain("COUNT", Len(fc.mission))>>)
          \/ m.n < Len(fc.mission) /\ Answer(<<Message("ITEM", m.n, fc.mission[m.n + 1])>>)
          \/ fromFc' = fromFc
      BY <1>1, <2>2, Zenon DEF FcStep
    <2>8. ASSUME NEW n \in {0, m.n + 1}, AsksFor(n) PROVE FromStep
      BY <2>5, <2>8 DEF AsksFor, FromStep
    <2>9. QED
      BY <2>4, <2>5, <2>6, <2>7, <2>8 DEF FromStep
  <1>2. CASE FcRefuses
    BY <1>2, PlainIsFrame DEF FcRefuses, FromStep
  <1>3. CASE Receive \/ LoseFromFc
    BY <1>3 DEF Receive, OnMissionRequestInt, OnMissionRequest, OnMissionAck, OnMissionCount, OnMissionItem,
         Received, LoseFromFc, FromStep
  <1>4. CASE \/ RouteUpdate \/ CheckMissionUploadTimeout \/ MissionQuery
             \/ CheckMissionDownloadTimeout \/ RetryReadback
             \/ \E resume : LinkAlive(resume)
             \/ LinkStale \/ ReadError \/ Restart \/ Reconnect \/ ReconnectFails
             \/ \E ok \in BOOLEAN : ProcessSerialReconnectCmd(ok)
    BY <1>4 DEF RouteUpdate, StartMissionUpload, CheckMissionUploadTimeout,
         ClearDelayOver, RetryUpload, UploadFailed, MissionQuery,
         CheckMissionDownloadTimeout, RetryReadback, LinkAlive, LinkStale, ReadError,
         Restart, Reconnect, ReconnectFails, ProcessSerialReconnectCmd, FromStep
  <1>5. CASE FcDies \/ FcReboots \/ LoseToFc \/ UNCHANGED vars
    BY <1>5 DEF FcDies, FcReboots, LoseToFc, vars, FromStep
  <1>6. QED
    BY <1>1, <1>2, <1>3, <1>4, <1>5 DEF Next

LEMMA FromTypeStep == TypeInv /\ [Next]_vars => fromFc' \in Seq(Frame)
  <1> SUFFICES ASSUME TypeInv, [Next]_vars PROVE fromFc' \in Seq(Frame)
    OBVIOUS
  <1>1. fromFc \in Seq(Frame)
    BY DEF TypeInv, LineType
  <1>2. FromStep
    BY FromFcStep
  <1>3. (fromFc # << >> => Tail(fromFc) \in Seq(Frame)) /\ << >> \in Seq(Frame)
    BY <1>1, Taken
  <1>4. QED
    BY <1>1, <1>2, <1>3, Answered DEF FromStep

\* What SetLinkState(CONNECTED) does to the readback and the line.
LEMMA ConnectCases ==
    ASSUME TypeInv, NEW before, Connect(before, toFc)
    PROVE  \/ toFc' = toFc /\ UNCHANGED download
           \/ /\ MissionUploadState = "IDLE" /\ MissionDownloadState = "IDLE"
              /\ RequestList /\ Put(Plain("REQUEST_LIST", 0))
           \/ /\ toFc' = toFc
              /\ UNCHANGED <<MissionDownloadState, MissionDownloadSeq,
                             MissionDownloadExpectedCount, buffer, readback, crossed>>
  <1>1. Plain("REQUEST_LIST", 0) \in Frame
    BY PlainIsFrame
  <1>2. toFc' = Append(toFc, Plain("REQUEST_LIST", 0)) => Put(Plain("REQUEST_LIST", 0))
    BY <1>1, AppendedOne DEF TypeInv, LineType
  <1>3. QED
    BY <1>2 DEF Connect, StartFcMissionReadback

\* What a step may do to the line to the FC.
ToStep ==
    \/ toFc' = toFc \/ toFc' = << >>
    \/ toFc # << >> /\ toFc' = Tail(toFc)
    \/ \E m \in Frame : Put(m) /\ (m.type = "ITEM" => m.wp \in Waypoints)
    \/ \E l, m \in Frame : l.type # "ITEM" /\ m.type # "ITEM" /\ Send(<<l, m>>)

LEMMA ToFcStep == TypeInv /\ [Next]_vars => ToStep
  <1> SUFFICES ASSUME TypeInv, [Next]_vars PROVE ToStep
    OBVIOUS
  <1> USE DEF TypeInv
  <1>1. ASSUME NEW m \in Frame, m.type = "ITEM" => m.wp \in Waypoints, Send(<<m>>)
        PROVE  ToStep
    BY <1>1, SentOne DEF ToStep, LineType
  <1>2. ASSUME NEW type \in {"CLEAR_ALL", "COUNT", "REQUEST_LIST", "REQUEST_INT", "ACK"},
               NEW n \in Nat, Send(<<Plain(type, n)>>)
        PROVE  ToStep
    <2>1. Plain(type, n) \in Frame /\ Plain(type, n).type = type
      BY PlainIsFrame
    <2>2. QED
      BY <1>1, <1>2, <2>1
  <1>3. ASSUME NEW before, Connect(before, toFc)
        PROVE  ToStep
    <2>1. Plain("REQUEST_LIST", 0) \in Frame /\ Plain("REQUEST_LIST", 0).type # "ITEM"
      BY PlainIsFrame
    <2>2. toFc' = toFc \/ Put(Plain("REQUEST_LIST", 0))
      BY <1>3, ConnectCases
    <2>3. QED
      BY <2>1, <2>2 DEF ToStep
  <1>4. Len(pending) \in Nat /\ 0 \in Nat
    BY DEF UploadType
  <1>5. CASE RouteUpdate
    <2>1. Send(<<Plain("CLEAR_ALL", 0)>>)
      BY <1>5 DEF RouteUpdate, StartMissionUpload
    <2>2. QED
      BY <1>2, <1>4, <2>1
  <1>6. CASE CheckMissionUploadTimeout
    <2>1. CASE ClearDelayOver
      BY <1>2, <1>4, <2>1 DEF ClearDelayOver
    <2>2. CASE RetryUpload
      <3>1. Send(<<Plain("CLEAR_ALL", 0), Plain("COUNT", Len(pending))>>)
        BY <2>2 DEF RetryUpload
      <3>2. /\ Plain("CLEAR_ALL", 0) \in Frame /\ Plain("CLEAR_ALL", 0).type # "ITEM"
            /\ Plain("COUNT", Len(pending)) \in Frame
            /\ Plain("COUNT", Len(pending)).type # "ITEM"
        BY <1>4, PlainIsFrame
      <3>3. QED
        BY <3>1, <3>2 DEF ToStep
    <2>3. CASE UploadFailed
      BY <2>3 DEF UploadFailed, ToStep
    <2>4. QED
      BY <1>6, <2>1, <2>2, <2>3 DEF CheckMissionUploadTimeout
  <1>7. CASE MissionQuery \/ RetryReadback
    BY <1>2, <1>4, <1>7 DEF MissionQuery, RetryReadback
  <1>8. CASE \E resume : LinkAlive(resume)
    BY <1>3, <1>8 DEF LinkAlive
  <1>9. CASE Reconnect
    BY <1>3, <1>9 DEF Reconnect
  <1>10. CASE \E ok \in BOOLEAN : ProcessSerialReconnectCmd(ok)
    BY <1>3, <1>10 DEF ProcessSerialReconnectCmd, ToStep
  <1>11. CASE OnMissionRequestInt \/ OnMissionRequest
    <2>1. fromFc # << >>
      BY <1>11 DEF OnMissionRequestInt, OnMissionRequest, Received
    <2>2. Head(fromFc) \in Frame
      BY <2>1, Taken DEF LineType
    <2>3. PICK n \in Nat : n = Head(fromFc).n
      BY <2>2 DEF Frame
    <2>4. CASE toFc' = toFc
      BY <2>4 DEF ToStep
    <2>5. ASSUME n < Len(pending), NEW wp \in {pending[n + 1], Legacy[pending[n + 1]]},
                 Send(<<Message("ITEM", n, wp)>>)
          PROVE  ToStep
      <3>1. n + 1 \in 1..Len(pending)
        BY <1>4, <2>5
      <3>2. wp \in Waypoints
        BY <2>5, <3>1, Limits DEF UploadType
      <3>3. Message("ITEM", n, wp) \in Frame /\ Message("ITEM", n, wp).wp \in Waypoints
        BY <3>2, MessageIsFrame
      <3>4. QED
        BY <1>1, <2>5, <3>3
    <2>6. QED
      BY <1>11, <2>3, <2>4, <2>5 DEF OnMissionRequestInt, OnMissionRequest
  <1>12. CASE OnMissionAck
    BY <1>2, <1>4, <1>12 DEF OnMissionAck, ToStep
  <1>13. CASE OnMissionCount
    BY <1>2, <1>4, <1>13 DEF OnMissionCount, ToStep
  <1>14. CASE OnMissionItem
    <2>1. MissionDownloadSeq + 1 \in Nat
      BY DEF DownloadType
    <2>2. \/ toFc' = toFc
          \/ Send(<<Plain("ACK", 0)>>)
          \/ MissionDownloadSeq' = MissionDownloadSeq + 1
             /\ Send(<<Plain("REQUEST_INT", MissionDownloadSeq')>>)
      BY <1>14 DEF OnMissionItem
    <2>3. QED
      BY <1>2, <1>4, <2>1, <2>2 DEF ToStep
  <1>15. CASE FcStep \/ FcRefuses \/ LoseToFc
    BY <1>15 DEF FcStep, FcRefuses, LoseToFc, ToStep
  <1>16. CASE \/ CheckMissionDownloadTimeout \/ LinkStale \/ ReadError \/ Restart
              \/ ReconnectFails \/ FcDies \/ FcReboots \/ LoseFromFc \/ UNCHANGED vars
    BY <1>16 DEF CheckMissionDownloadTimeout, LinkStale, ReadError, Restart,
         ReconnectFails, FcDies, FcReboots, LoseFromFc, vars, ToStep
  <1>17. QED
    BY <1>5, <1>6, <1>7, <1>8, <1>9, <1>10, <1>11, <1>12, <1>13, <1>14, <1>15, <1>16
       DEF Next, Receive

LEMMA LineTypeStep == TypeInv /\ [Next]_vars => LineType'
  <1> SUFFICES ASSUME TypeInv, [Next]_vars PROVE LineType'
    OBVIOUS
  <1>1. toFc \in Seq(Frame)
        /\ \A i \in 1..Len(toFc) : toFc[i].type = "ITEM" => toFc[i].wp \in Waypoints
    BY DEF TypeInv, LineType
  <1>2. /\ toFc' \in Seq(Frame)
        /\ \A i \in 1..Len(toFc') : toFc'[i].type = "ITEM" => toFc'[i].wp \in Waypoints
    <2>1. CASE toFc' = toFc
      BY <1>1, <2>1
    <2>2. CASE toFc' = << >>
      BY <2>2
    <2>3. CASE toFc # << >> /\ toFc' = Tail(toFc)
      <3>1. PICK q : q = Tail(toFc)
        OBVIOUS
      <3>2. q \in Seq(Frame) /\ \A i \in 1..Len(q) : i + 1 \in 1..Len(toFc) /\ q[i] = toFc[i + 1]
        BY <1>1, <2>3, <3>1, Taken
      <3>3. QED
        BY <1>1, <2>3, <3>1, <3>2
    <2>4. ASSUME NEW m \in Frame, Put(m), m.type = "ITEM" => m.wp \in Waypoints
          PROVE  /\ toFc' \in Seq(Frame)
                 /\ \A i \in 1..Len(toFc') :
                        toFc'[i].type = "ITEM" => toFc'[i].wp \in Waypoints
      <3>1. \A i \in 1..Len(toFc') : i \in 1..Len(toFc) \/ i = Len(toFc) + 1
        BY <1>1, <2>4 DEF Put
      <3>2. QED
        BY <1>1, <2>4, <3>1 DEF Put
    <2>5. ASSUME NEW l \in Frame, NEW m \in Frame, l.type # "ITEM", m.type # "ITEM",
                 Send(<<l, m>>)
          PROVE  /\ toFc' \in Seq(Frame)
                 /\ \A i \in 1..Len(toFc') :
                        toFc'[i].type = "ITEM" => toFc'[i].wp \in Waypoints
      <3>1. CASE toFc' = toFc
        BY <1>1, <3>1
      <3>2. CASE toFc' # toFc
        <4>1. /\ toFc' \in Seq(Frame) /\ Len(toFc') = Len(toFc) + 2
              /\ toFc'[Len(toFc) + 1] = l /\ toFc'[Len(toFc) + 2] = m
              /\ \A i \in 1..Len(toFc) : toFc'[i] = toFc[i]
          BY <1>1, <2>5, <3>2, SentTwo
        <4>2. \A i \in 1..Len(toFc') :
                  i \in 1..Len(toFc) \/ i = Len(toFc) + 1 \/ i = Len(toFc) + 2
          BY <1>1, <4>1
        <4>3. QED
          BY <1>1, <2>5, <4>1, <4>2
      <3>3. QED
        BY <3>1, <3>2
    <2>6. ToStep
      BY ToFcStep
    <2>7. QED
      BY <2>1, <2>2, <2>3, <2>4, <2>5, <2>6 DEF ToStep
  <1>3. QED
    BY <1>2, FromTypeStep DEF LineType

LEMMA TypeAlways == Spec => []TypeInv
  <1>1. TypeInv /\ [Next]_vars => TypeInv'
    BY UploadTypeStep, DownloadTypeStep, FcTypeStep, LineTypeStep, LinkTypeStep DEF TypeInv
  <1>2. QED
    BY TypeInit, <1>1, PTL DEF Spec

\* For every length of route, number of retries, lateness of the FC and number
\* of faults, every variable keeps its type, and the routes the bridge holds fit
\* in their arrays: pending and active after every ADD, DELETE, MODIFY and REPLACE
\* (StartMissionUpload), the buffer of the readback whatever count the FC
\* announces.  The type of the line has to say that an ITEM carries a waypoint, for
\* the mission of the FC is made of what it received.
THEOREM TypeCorrect == Spec => []TypeOK
  <1>1. TypeInv => TypeOK
    BY DEF TypeInv, UploadType, DownloadType, FcType, LineType, LinkType, TypeOK
  <1>2. QED
    BY TypeAlways, <1>1, PTL

------------------------------------------------------------------------------
(* The readback *)

\* The bridge waits for the FC's count: nothing is behind its request, and once
\* the count is on its way nothing else is, and the FC still holds that many
\* waypoints.
ListIsLast ==
    \A i \in 1..Len(toFc) : toFc[i].type = "REQUEST_LIST" => i = Len(toFc)

CountIsTrue ==
    \A i \in 1..Len(fromFc) :
        fromFc[i].type = "COUNT" =>
            /\ i = Len(fromFc) /\ toFc = << >>
            /\ fromFc[i].n = Len(fc.mission)

\* The bridge waits for an item: what it has is a beginning of the FC's mission,
\* and the one request or the one item on its way is for the next waypoint.
ItemsInOrder ==
    /\ MissionDownloadExpectedCount = Len(fc.mission)
    /\ MissionDownloadSeq < MissionDownloadExpectedCount
    /\ \A k \in 1..MaxWaypoints : k =< MissionDownloadSeq => buffer[k] = fc.mission[k]
    /\ Len(toFc) =< 1
    /\ \A i \in 1..Len(toFc) :
           toFc[i].type = "REQUEST_INT" /\ toFc[i].n = MissionDownloadSeq
    /\ \A i \in 1..Len(fromFc) :
           /\ fromFc[i].type # "COUNT"
           /\ fromFc[i].type = "ITEM" =>
                  /\ i = Len(fromFc) /\ toFc = << >>
                  /\ fromFc[i].wp = fc.mission[MissionDownloadSeq + 1]

Waiting ==
    ~intruded /\ ~crossed =>
        /\ MissionDownloadState = "WAIT_COUNT" => ListIsLast /\ CountIsTrue
        /\ MissionDownloadState = "WAIT_ITEM" => ItemsInOrder

\* Nothing is said of an idle readback.
LEMMA IdleWaits ==
    ASSUME MissionDownloadState' = "IDLE"
    PROVE  Waiting'
  BY DEF Waiting

\* A readback that starts with no other one under way.
LEMMA StartWaits ==
    ASSUME TypeInv, RequestList,
           toFc' = toFc \/ Put(Plain("REQUEST_LIST", 0)),
           \/ fromFc' = fromFc \/ fromFc' = << >>
           \/ fromFc # << >> /\ fromFc' = Tail(fromFc)
    PROVE  Waiting'
  <1> SUFFICES ASSUME ~crossed' PROVE ListIsLast' /\ CountIsTrue'
    BY DEF Waiting, RequestList
  <1>1. toFc \in Seq(Frame) /\ fromFc \in Seq(Frame) /\ Len(toFc) \in Nat
    BY DEF TypeInv, LineType
  <1>2. /\ \A i \in 1..Len(toFc) : toFc[i].type # "REQUEST_LIST"
        /\ \A i \in 1..Len(fromFc) : fromFc[i].type # "COUNT"
    <2>1. DOMAIN toFc = 1..Len(toFc) /\ DOMAIN fromFc = 1..Len(fromFc)
      BY <1>1, LenProperties
    <2>2. ~ListAwaited
      BY DEF RequestList
    <2>3. QED
      BY <2>1, <2>2 DEF ListAwaited
  <1>3. ListIsLast'
    BY <1>1, <1>2 DEF ListIsLast, Put
  <1>4. \A i \in 1..Len(fromFc') : fromFc'[i].type # "COUNT"
    <2>1. CASE fromFc # << >> /\ fromFc' = Tail(fromFc)
      <3>1. PICK q : q = Tail(fromFc)
        OBVIOUS
      <3>2. \A i \in 1..Len(q) : i + 1 \in 1..Len(fromFc) /\ q[i] = fromFc[i + 1]
        BY <1>1, <2>1, <3>1, Taken
      <3>3. QED
        BY <1>2, <2>1, <3>1, <3>2
    <2>2. CASE fromFc' = fromFc \/ fromFc' = << >>
      BY <1>2, <2>2
    <2>3. QED
      BY <2>1, <2>2
  <1>5. QED
    BY <1>3, <1>4 DEF CountIsTrue

\* Frames that are taken or lost disturb no readback.
LEMMA ShrinkWaits ==
    ASSUME TypeInv, Waiting, intruded' = intruded, crossed' = crossed,
           MissionDownloadState' = MissionDownloadState,
           MissionDownloadSeq' = MissionDownloadSeq,
           MissionDownloadExpectedCount' = MissionDownloadExpectedCount,
           buffer' = buffer, fc'.mission = fc.mission,
           toFc' = toFc \/ toFc' = << >> \/ (toFc # << >> /\ toFc' = Tail(toFc)),
           \/ fromFc' = fromFc \/ fromFc' = << >>
           \/ fromFc # << >> /\ fromFc' = Tail(fromFc)
    PROVE  Waiting'
  <1>1. toFc \in Seq(Frame) /\ fromFc \in Seq(Frame) /\ Len(toFc) \in Nat
        /\ Len(fromFc) \in Nat
    BY DEF TypeInv, LineType
  <1>2. PICK d \in 0..1 :
            /\ toFc' = << >> \/ Len(toFc') = Len(toFc) - d
            /\ \A i \in 1..Len(toFc') :
                   /\ i + d \in 1..Len(toFc) /\ toFc'[i] = toFc[i + d]
                   /\ i + d = Len(toFc) => i = Len(toFc')
    <2>1. CASE toFc' = toFc
      BY <1>1, <2>1
    <2>2. CASE toFc' = << >>
      BY <1>1, <2>2
    <2>3. CASE toFc # << >> /\ toFc' = Tail(toFc)
      <3>1. PICK q : q = Tail(toFc)
        OBVIOUS
      <3>2. /\ Len(q) = Len(toFc) - 1
            /\ \A i \in 1..Len(q) : i + 1 \in 1..Len(toFc) /\ q[i] = toFc[i + 1]
        BY <1>1, <2>3, <3>1, Taken
      <3>3. /\ Len(toFc') = Len(toFc) - 1
            /\ \A i \in 1..Len(toFc') :
                   /\ i + 1 \in 1..Len(toFc) /\ toFc'[i] = toFc[i + 1]
                   /\ i + 1 = Len(toFc) => i = Len(toFc')
        <4>1. toFc' = q /\ Len(toFc) \in Nat
          BY <1>1, <2>3, <3>1
        <4>2. QED
          BY <3>2, <4>1
      <3>4. 1 \in 0..1
        OBVIOUS
      <3>5. QED
        BY <3>3, <3>4
    <2>4. QED
      BY <2>1, <2>2, <2>3
  <1>3. PICK e \in 0..1 :
            \A i \in 1..Len(fromFc') :
                /\ i + e \in 1..Len(fromFc) /\ fromFc'[i] = fromFc[i + e]
                /\ i + e = Len(fromFc) => i = Len(fromFc')
    <2>1. CASE fromFc' = fromFc
      BY <1>1, <2>1
    <2>2. CASE fromFc' = << >>
      BY <1>1, <2>2
    <2>3. CASE fromFc # << >> /\ fromFc' = Tail(fromFc)
      <3>1. PICK q : q = Tail(fromFc)
        OBVIOUS
      <3>2. /\ Len(q) = Len(fromFc) - 1
            /\ \A i \in 1..Len(q) : i + 1 \in 1..Len(fromFc) /\ q[i] = fromFc[i + 1]
        BY <1>1, <2>3, <3>1, Taken
      <3>3. /\ Len(fromFc') = Len(fromFc) - 1
            /\ \A i \in 1..Len(fromFc') :
                   /\ i + 1 \in 1..Len(fromFc) /\ fromFc'[i] = fromFc[i + 1]
                   /\ i + 1 = Len(fromFc) => i = Len(fromFc')
        <4>1. fromFc' = q /\ Len(fromFc) \in Nat
          BY <1>1, <2>3, <3>1
        <4>2. QED
          BY <3>2, <4>1
      <3>4. 1 \in 0..1
        OBVIOUS
      <3>5. QED
        BY <3>3, <3>4
    <2>4. QED
      BY <2>1, <2>2, <2>3
  <1>4. toFc = << >> => toFc' = << >>
    BY <1>1, <1>2
  <1>5. ListIsLast => ListIsLast'
    BY <1>2 DEF ListIsLast
  <1>6. CountIsTrue => CountIsTrue'
    BY <1>3, <1>4 DEF CountIsTrue
  <1>7. ItemsInOrder => ItemsInOrder'
    <2> SUFFICES ASSUME ItemsInOrder PROVE ItemsInOrder'
      OBVIOUS
    <2>1. Len(toFc') =< 1
      BY <1>1, <1>2 DEF ItemsInOrder
    <2>2. \A i \in 1..Len(toFc') :
              toFc'[i].type = "REQUEST_INT" /\ toFc'[i].n = MissionDownloadSeq'
      BY <1>2 DEF ItemsInOrder
    <2>3. \A i \in 1..Len(fromFc') :
              /\ fromFc'[i].type # "COUNT"
              /\ fromFc'[i].type = "ITEM" =>
                     /\ i = Len(fromFc') /\ toFc' = << >>
                     /\ fromFc'[i].wp = fc'.mission[MissionDownloadSeq' + 1]
      BY <1>3, <1>4 DEF ItemsInOrder
    <2>4. QED
      BY <2>1, <2>2, <2>3 DEF ItemsInOrder
  <1>8. QED
    BY <1>5, <1>6, <1>7 DEF Waiting

LEMMA ConnectWaits ==
    ASSUME TypeInv, Waiting, NEW before, Connect(before, toFc),
           intruded' = intruded, fc' = fc, fromFc' = fromFc \/ fromFc' = << >>
    PROVE  Waiting'
  <1>1. CASE /\ toFc' = toFc
             /\ UNCHANGED <<MissionDownloadState, MissionDownloadSeq,
                            MissionDownloadExpectedCount, buffer, readback, crossed>>
    BY <1>1, ShrinkWaits
  <1>2. CASE RequestList /\ Put(Plain("REQUEST_LIST", 0))
    BY <1>2, StartWaits
  <1>3. QED
    BY <1>1, <1>2, ConnectCases DEF download

\* What the FC does with the frame that it reads.
LEMMA FcAnswers ==
    ASSUME TypeInv, FcStep
    PROVE  /\ toFc # << >> /\ toFc' = Tail(toFc)
           /\ Head(toFc).type \in {"REQUEST_INT", "REQUEST_LIST"} => fc' = fc
           /\ \/ fromFc' = fromFc
              \/ \E x \in Frame :
                     /\ Answer(<<x>>)
                     /\ x.type = "COUNT" => /\ Head(toFc).type = "REQUEST_LIST"
                                            /\ x.n = Len(fc.mission)
                     /\ x.type = "ITEM" => /\ Head(toFc).type = "REQUEST_INT"
                                           /\ Head(toFc).n < Len(fc.mission)
                                           /\ x.wp = fc.mission[Head(toFc).n + 1]
  <1> USE DEF TypeInv
  <1>1. toFc # << >> /\ toFc' = Tail(toFc)
    BY DEF FcStep
  <1>2. PICK m \in Frame : m = Head(toFc)
    BY <1>1, Taken DEF LineType
  <1>3. m.n \in Nat /\ m.n + 1 \in Nat /\ Len(fc.mission) \in Nat /\ 0 \in Nat
    BY <1>2 DEF Frame, FcType
  <1>4. Answer(<< >>) => fromFc' = fromFc
    BY NoAnswer DEF LineType
  <1>5. m.type \in {"REQUEST_INT", "REQUEST_LIST"} => fc' = fc
    BY <1>2 DEF FcStep
  <1>6. \/ fromFc' = fromFc
        \/ Answer(<<Plain("ACK", 0)>>)
        \/ Answer(<<Plain("CLEAR_ACK", 0)>>)
        \/ \E n \in {0, m.n + 1} : AsksFor(n)
        \/ m.type = "REQUEST_LIST" /\ Answer(<<Plain("COUNT", Len(fc.mission))>>)
        \/ /\ m.type = "REQUEST_INT" /\ m.n < Len(fc.mission)
           /\ Answer(<<Message("ITEM", m.n, fc.mission[m.n + 1])>>)
    BY <1>2, <1>4, Zenon DEF FcStep
  <1>7. ASSUME NEW type \in {"ACK", "CLEAR_ACK", "REQUEST", "REQUEST_INT"}, NEW n \in Nat,
               Answer(<<Plain(type, n)>>)
        PROVE  \E x \in Frame : Answer(<<x>>) /\ x.type \notin {"COUNT", "ITEM"}
    <2>1. Plain(type, n) \in Frame /\ Plain(type, n).type \notin {"COUNT", "ITEM"}
      BY PlainIsFrame
    <2>2. QED
      BY <1>7, <2>1
  <1>8. CASE m.type = "REQUEST_LIST" /\ Answer(<<Plain("COUNT", Len(fc.mission))>>)
    <2>1. /\ Plain("COUNT", Len(fc.mission)) \in Frame
          /\ Plain("COUNT", Len(fc.mission)).type = "COUNT"
          /\ Plain("COUNT", Len(fc.mission)).n = Len(fc.mission)
      BY <1>3, PlainIsFrame
    <2>2. \E x \in Frame : Answer(<<x>>) /\ x.type = "COUNT" /\ x.n = Len(fc.mission)
      BY <1>8, <2>1
    <2>3. QED
      BY <1>1, <1>2, <1>5, <1>8, <2>2
  <1>9. CASE /\ m.type = "REQUEST_INT" /\ m.n < Len(fc.mission)
             /\ Answer(<<Message("ITEM", m.n, fc.mission[m.n + 1])>>)
    <2>1. m.n + 1 \in 1..Len(fc.mission)
      BY <1>3, <1>9
    <2>2. fc.mission[m.n + 1] \in Waypoints
      BY <2>1 DEF FcType
    <2>3. /\ Message("ITEM", m.n, fc.mission[m.n + 1]) \in Frame
          /\ Message("ITEM", m.n, fc.mission[m.n + 1]).type = "ITEM"
          /\ Message("ITEM", m.n, fc.mission[m.n + 1]).wp = fc.mission[m.n + 1]
      BY <1>3, <2>2, MessageIsFrame
    <2>4. \E x \in Frame :
              Answer(<<x>>) /\ x.type = "ITEM" /\ x.wp = fc.mission[m.n + 1]
      BY <1>9, <2>3
    <2>5. QED
      BY <1>1, <1>2, <1>5, <1>9, <2>4
  <1>10. CASE \E n \in {0, m.n + 1} : AsksFor(n)
    <2>1. \E x \in Frame : Answer(<<x>>) /\ x.type \notin {"COUNT", "ITEM"}
      BY <1>3, <1>7, <1>10 DEF AsksFor
    <2>2. QED
      BY <1>1, <1>2, <1>5, <2>1
  <1>11. QED
    BY <1>1, <1>2, <1>3, <1>5, <1>6, <1>7, <1>8, <1>9, <1>10

LEMMA FcWaits ==
    ASSUME TypeInv, Waiting, FcStep
    PROVE  Waiting'
  <1>1. toFc \in Seq(Frame) /\ fromFc \in Seq(Frame) /\ Len(fromFc) \in Nat
    BY DEF TypeInv, LineType
  <1>2. /\ toFc # << >> /\ toFc' = Tail(toFc)
        /\ Head(toFc).type \in {"REQUEST_INT", "REQUEST_LIST"} => fc' = fc
    BY FcAnswers
  <1>3. PICK m \in Frame : m = Head(toFc)
    BY <1>1, <1>2, Taken
  <1>4. /\ m = toFc[1] /\ Len(toFc) \in Nat \ {0} /\ Len(toFc') = Len(toFc) - 1
        /\ \A i \in 1..Len(toFc') : i + 1 \in 1..Len(toFc) /\ toFc'[i] = toFc[i + 1]
    <2>1. PICK q : q = Tail(toFc)
      OBVIOUS
    <2>2. /\ Head(toFc) = toFc[1] /\ Len(toFc) \in Nat \ {0} /\ Len(q) = Len(toFc) - 1
          /\ \A i \in 1..Len(q) : i + 1 \in 1..Len(toFc) /\ q[i] = toFc[i + 1]
      BY <1>1, <1>2, <2>1, Taken
    <2>3. toFc' = q
      BY <1>2, <2>1
    <2>4. QED
      BY <1>3, <2>2, <2>3
  <1>5. UNCHANGED <<intruded, crossed, MissionDownloadState, MissionDownloadSeq,
                    MissionDownloadExpectedCount, buffer>>
    BY DEF FcStep, download
  <1>6. ASSUME ~intruded, ~crossed, MissionDownloadState = "WAIT_COUNT"
        PROVE  ListIsLast' /\ CountIsTrue'
    <2>1. ListIsLast /\ CountIsTrue
      BY <1>6 DEF Waiting
    <2>2. ListIsLast'
      BY <1>4, <2>1 DEF ListIsLast
    <2>3. \A i \in 1..Len(fromFc) : fromFc[i].type # "COUNT"
      BY <1>2, <2>1 DEF CountIsTrue
    <2>4. CASE fromFc' = fromFc
      <3>1. \A i \in 1..Len(fromFc') : fromFc'[i].type # "COUNT"
        BY <2>3, <2>4
      <3>2. QED
        BY <2>2, <3>1 DEF CountIsTrue
    <2>5. ASSUME NEW x \in Frame, Answer(<<x>>),
                 x.type = "COUNT" => m.type = "REQUEST_LIST" /\ x.n = Len(fc.mission)
          PROVE  CountIsTrue'
      <3>1. /\ Len(fromFc') = Len(fromFc) + 1 /\ fromFc'[Len(fromFc) + 1] = x
            /\ \A i \in 1..Len(fromFc) : fromFc'[i] = fromFc[i]
        BY <1>1, <2>5, Answered
      <3>2. CASE x.type # "COUNT"
        <4>1. \A i \in 1..Len(fromFc') : fromFc'[i].type # "COUNT"
          BY <1>1, <2>3, <3>1, <3>2
        <4>2. QED
          BY <4>1 DEF CountIsTrue
      <3>3. CASE m.type = "REQUEST_LIST" /\ x.n = Len(fc.mission)
        <4>1. Len(toFc) = 1
          BY <1>4, <2>1, <3>3 DEF ListIsLast
        <4>2. Len(toFc') = 0 /\ toFc' \in Seq(Frame)
          BY <1>1, <1>2, <1>4, <4>1, Taken
        <4>3. toFc' = << >>
          BY <4>2, EmptySeq
        <4>4. fc' = fc
          BY <1>2, <1>3, <3>3
        <4>5. \A i \in 1..Len(fromFc') :
                  fromFc'[i].type = "COUNT" => i = Len(fromFc')
          BY <1>1, <2>3, <3>1
        <4>6. fromFc'[Len(fromFc')].n = Len(fc'.mission)
          BY <1>1, <3>1, <3>3, <4>4
        <4>7. QED
          BY <4>3, <4>5, <4>6 DEF CountIsTrue
      <3>4. QED
        BY <2>5, <3>2, <3>3
    <2>6. QED
      BY <1>3, <2>2, <2>4, <2>5, FcAnswers
  <1>7. ASSUME ~intruded, ~crossed, MissionDownloadState = "WAIT_ITEM"
        PROVE  ItemsInOrder'
    <2>1. ItemsInOrder
      BY <1>7 DEF Waiting
    <2>2. m.type = "REQUEST_INT" /\ m.n = MissionDownloadSeq /\ fc' = fc
      BY <1>2, <1>3, <1>4, <2>1 DEF ItemsInOrder
    <2>3. Len(toFc') = 0 /\ toFc' \in Seq(Frame)
      BY <1>1, <1>2, <1>4, <2>1, Taken DEF ItemsInOrder
    <2>4. toFc' = << >>
      BY <2>3, EmptySeq
    <2>5. \A i \in 1..Len(fromFc) : fromFc[i].type \notin {"COUNT", "ITEM"}
      BY <1>2, <2>1 DEF ItemsInOrder
    <2>6. \A i \in 1..Len(fromFc') :
              /\ fromFc'[i].type # "COUNT"
              /\ fromFc'[i].type = "ITEM" =>
                     /\ i = Len(fromFc') /\ toFc' = << >>
                     /\ fromFc'[i].wp = fc'.mission[MissionDownloadSeq' + 1]
      <3>1. CASE fromFc' = fromFc
        BY <2>5, <3>1
      <3>2. ASSUME NEW x \in Frame, Answer(<<x>>), x.type # "COUNT",
                   x.type = "ITEM" => x.wp = fc.mission[MissionDownloadSeq + 1]
            PROVE  \A i \in 1..Len(fromFc') :
                       /\ fromFc'[i].type # "COUNT"
                       /\ fromFc'[i].type = "ITEM" =>
                              /\ i = Len(fromFc') /\ toFc' = << >>
                              /\ fromFc'[i].wp = fc'.mission[MissionDownloadSeq' + 1]
        <4>1. /\ Len(fromFc') = Len(fromFc) + 1 /\ fromFc'[Len(fromFc) + 1] = x
              /\ \A i \in 1..Len(fromFc) : fromFc'[i] = fromFc[i]
          BY <1>1, <3>2, Answered
        <4>2. fc'.mission[MissionDownloadSeq' + 1] = fc.mission[MissionDownloadSeq + 1]
          BY <1>5, <2>2
        <4>3. QED
          BY <1>1, <2>4, <2>5, <3>2, <4>1, <4>2
      <3>3. QED
        BY <1>3, <2>2, <3>1, <3>2, FcAnswers
    <2>7. /\ MissionDownloadExpectedCount' = Len(fc'.mission)
          /\ MissionDownloadSeq' < MissionDownloadExpectedCount'
          /\ \A k \in 1..MaxWaypoints :
                 k =< MissionDownloadSeq' => buffer'[k] = fc'.mission[k]
      BY <1>5, <2>1, <2>2 DEF ItemsInOrder
    <2>8. QED
      BY <2>3, <2>6, <2>7 DEF ItemsInOrder
  <1>8. QED
    BY <1>5, <1>6, <1>7 DEF Waiting

\* The count of the FC is all that was on its way.
LEMMA CountWaits ==
    ASSUME TypeInv, Waiting, OnMissionCount
    PROVE  Waiting'
  <1>1. toFc \in Seq(Frame) /\ fromFc \in Seq(Frame) /\ Len(fromFc) \in Nat
    BY DEF TypeInv, LineType
  <1>2. fromFc # << >> /\ Head(fromFc).type = "COUNT" /\ fromFc' = Tail(fromFc)
        /\ intruded' = intruded /\ fc' = fc
    BY DEF OnMissionCount, Received, history
  <1>3. CASE UNCHANGED download /\ toFc' = toFc
    BY <1>2, <1>3, ShrinkWaits DEF download
  <1>4. CASE MissionDownloadState' = "IDLE"
    BY <1>4, IdleWaits
  <1>5. CASE /\ MissionDownloadState = "WAIT_COUNT" /\ Head(fromFc).n # 0
             /\ MissionDownloadState' = "WAIT_ITEM" /\ MissionDownloadSeq' = 0
             /\ MissionDownloadExpectedCount' = Head(fromFc).n
             /\ Send(<<Plain("REQUEST_INT", 0)>>)
             /\ UNCHANGED <<buffer, MissionReadbackPending, readback, crossed>>
    <2> SUFFICES ASSUME ~intruded, ~crossed PROVE ItemsInOrder'
      BY <1>2, <1>5 DEF Waiting
    <2>1. CountIsTrue
      BY <1>5 DEF Waiting
    <2>2. Head(fromFc) = fromFc[1] /\ 1 \in 1..Len(fromFc)
      BY <1>1, <1>2, Taken
    <2>3. Len(fromFc) = 1 /\ toFc = << >> /\ Head(fromFc).n = Len(fc.mission)
      BY <1>2, <2>1, <2>2 DEF CountIsTrue
    <2>4. fromFc' = << >>
      <3>1. Tail(fromFc) \in Seq(Frame) /\ Len(Tail(fromFc)) = 0
        BY <1>1, <1>2, <2>3, Taken
      <3>2. QED
        BY <1>2, <3>1, EmptySeq
    <2>5. /\ Plain("REQUEST_INT", 0) \in Frame /\ Plain("REQUEST_INT", 0).type = "REQUEST_INT"
          /\ Plain("REQUEST_INT", 0).n = 0
      BY PlainIsFrame
    <2>6. toFc' = toFc \/ Put(Plain("REQUEST_INT", 0))
      BY <1>1, <1>5, <2>5, SentOne
    <2>7. /\ Len(toFc') =< 1
          /\ \A i \in 1..Len(toFc') : toFc'[i].type = "REQUEST_INT" /\ toFc'[i].n = 0
      <3>1. Len(toFc) = 0
        BY <2>3
      <3>2. CASE toFc' = toFc
        BY <3>1, <3>2
      <3>3. CASE Put(Plain("REQUEST_INT", 0))
        <4>1. Len(toFc') = 1 /\ toFc'[1] = Plain("REQUEST_INT", 0)
          BY <3>1, <3>3 DEF Put
        <4>2. QED
          BY <2>5, <4>1
      <3>4. QED
        BY <2>6, <3>2, <3>3
    <2>8. Len(fc.mission) \in Nat
      BY DEF TypeInv, FcType
    <2>9. /\ MissionDownloadExpectedCount' = Len(fc'.mission)
          /\ MissionDownloadSeq' < MissionDownloadExpectedCount'
      BY <1>2, <1>5, <2>3, <2>8
    <2>10. \A k \in 1..MaxWaypoints :
               k =< MissionDownloadSeq' => buffer'[k] = fc'.mission[k]
      BY <1>5, Limits
    <2>11. QED
      BY <1>5, <2>4, <2>7, <2>9, <2>10 DEF ItemsInOrder
  <1>6. QED
    BY <1>3, <1>4, <1>5 DEF OnMissionCount

\* An item is the next waypoint, and is all that was on its way.
LEMMA ItemIsNext ==
    ASSUME TypeInv, Waiting, OnMissionItem, ~intruded, ~crossed,
           MissionDownloadState = "WAIT_ITEM"
    PROVE  /\ toFc = << >> /\ fromFc' = << >>
           /\ \A k \in 1..MaxWaypoints :
                  k =< MissionDownloadSeq + 1 => buffer'[k] = fc.mission[k]
  <1>1. fromFc \in Seq(Frame) /\ fromFc # << >> /\ fromFc' = Tail(fromFc)
        /\ Head(fromFc).type = "ITEM"
    BY DEF TypeInv, LineType, OnMissionItem, Received
  <1>2. ItemsInOrder
    BY DEF Waiting
  <1>3. Head(fromFc) = fromFc[1] /\ 1 \in 1..Len(fromFc)
    BY <1>1, Taken
  <1>4. Len(fromFc) = 1 /\ toFc = << >>
        /\ Head(fromFc).wp = fc.mission[MissionDownloadSeq + 1]
    BY <1>1, <1>2, <1>3 DEF ItemsInOrder
  <1>5. fromFc' = << >>
    <2>1. Tail(fromFc) \in Seq(Frame) /\ Len(Tail(fromFc)) = 0
      BY <1>1, <1>4, Taken
    <2>2. QED
      BY <1>1, <2>1, EmptySeq
  <1>6. \A k \in 1..MaxWaypoints :
            k =< MissionDownloadSeq + 1 => buffer'[k] = fc.mission[k]
    <2>1. buffer' = Stored(Head(fromFc).wp)
      BY DEF OnMissionItem
    <2>2. MissionDownloadSeq \in Nat
          /\ buffer \in [1..MaxWaypoints -> Waypoints \cup {None}]
      BY DEF TypeInv, DownloadType
    <2>3. \A k \in 1..MaxWaypoints : k =< MissionDownloadSeq => buffer[k] = fc.mission[k]
      BY <1>2 DEF ItemsInOrder
    <2>4. PICK wp : wp = fc.mission[MissionDownloadSeq + 1]
      OBVIOUS
    <2>5. buffer' = Stored(wp)
      BY <1>4, <2>1, <2>4
    <2>6. CASE MissionDownloadSeq < MaxWaypoints
      <3>1. buffer' = [buffer EXCEPT ![MissionDownloadSeq + 1] = wp]
        BY <2>5, <2>6 DEF Stored
      <3>2. QED
        BY <2>2, <2>3, <2>4, <2>6, <3>1, Limits
    <2>7. CASE ~(MissionDownloadSeq < MaxWaypoints)
      <3>1. buffer' = buffer
        BY <2>5, <2>7 DEF Stored
      <3>2. QED
        BY <2>2, <2>3, <2>7, <3>1, Limits
    <2>8. QED
      BY <2>6, <2>7
  <1>7. QED
    BY <1>4, <1>5, <1>6

LEMMA ItemWaits ==
    ASSUME TypeInv, Waiting, OnMissionItem
    PROVE  Waiting'
  <1>1. toFc \in Seq(Frame) /\ fromFc \in Seq(Frame)
    BY DEF TypeInv, LineType
  <1>2. fromFc # << >> /\ fromFc' = Tail(fromFc) /\ intruded' = intruded /\ fc' = fc
    BY DEF OnMissionItem, Received, history
  <1>3. CASE UNCHANGED download /\ toFc' = toFc
    BY <1>2, <1>3, ShrinkWaits DEF download
  <1>4. CASE MissionDownloadState' = "IDLE"
    BY <1>4, IdleWaits
  <1>5. CASE /\ MissionDownloadState = "WAIT_ITEM"
             /\ MissionDownloadSeq' = MissionDownloadSeq + 1
             /\ ~(MissionDownloadSeq' >= MissionDownloadExpectedCount)
             /\ Send(<<Plain("REQUEST_INT", MissionDownloadSeq')>>)
             /\ UNCHANGED <<MissionDownloadState, readback,
                            MissionDownloadExpectedCount, crossed>>
    <2> SUFFICES ASSUME ~intruded, ~crossed PROVE ItemsInOrder'
      BY <1>2, <1>5 DEF Waiting
    <2>1. /\ toFc = << >> /\ fromFc' = << >>
          /\ \A k \in 1..MaxWaypoints :
                 k =< MissionDownloadSeq + 1 => buffer'[k] = fc.mission[k]
      BY <1>5, ItemIsNext
    <2>2. MissionDownloadExpectedCount = Len(fc.mission)
      BY <1>5 DEF Waiting, ItemsInOrder
    <2>3. PICK n \in Nat : n = MissionDownloadSeq'
      BY <1>5 DEF TypeInv, DownloadType
    <2>4. /\ Plain("REQUEST_INT", n) \in Frame /\ Plain("REQUEST_INT", n).type = "REQUEST_INT"
          /\ Plain("REQUEST_INT", n).n = n
      BY PlainIsFrame
    <2>5. toFc' = toFc \/ Put(Plain("REQUEST_INT", n))
      BY <1>1, <1>5, <2>3, <2>4, SentOne
    <2>6. /\ Len(toFc') =< 1
          /\ \A i \in 1..Len(toFc') :
                 toFc'[i].type = "REQUEST_INT" /\ toFc'[i].n = MissionDownloadSeq'
      <3>1. Len(toFc) = 0
        BY <2>1
      <3>2. CASE toFc' = toFc
        BY <3>1, <3>2
      <3>3. CASE Put(Plain("REQUEST_INT", n))
        <4>1. Len(toFc') = 1 /\ toFc'[1] = Plain("REQUEST_INT", n)
          BY <3>1, <3>3 DEF Put
        <4>2. QED
          BY <2>3, <2>4, <4>1
      <3>4. QED
        BY <2>5, <3>2, <3>3
    <2>7. MissionDownloadExpectedCount \in Nat /\ MissionDownloadSeq \in Nat
      BY DEF TypeInv, DownloadType
    <2>8. /\ MissionDownloadExpectedCount' = Len(fc'.mission)
          /\ MissionDownloadSeq' < MissionDownloadExpectedCount'
      BY <1>2, <1>5, <2>2, <2>7
    <2>9. \A k \in 1..MaxWaypoints :
              k =< MissionDownloadSeq' => buffer'[k] = fc'.mission[k]
      BY <1>2, <1>5, <2>1
    <2>10. QED
      BY <2>1, <2>6, <2>8, <2>9 DEF ItemsInOrder
  <1>6. QED
    BY <1>3, <1>4, <1>5 DEF OnMissionItem

LEMMA WaitingStep ==
    ASSUME TypeInv, UploadExcludesReadback, Waiting, [Next]_vars
    PROVE  Waiting'
  <1>0. toFc \in Seq(Frame) /\ fromFc \in Seq(Frame)
    BY DEF TypeInv, LineType
  <1>1. CASE RouteUpdate
    <2>1. MissionDownloadState' = "IDLE"
      BY <1>1 DEF RouteUpdate, StartMissionUpload, download
    <2>2. QED
      BY <2>1, IdleWaits
  <1>2. CASE CheckMissionUploadTimeout
    <2>1. /\ MissionUploadState # "IDLE" /\ intruded' = intruded
          /\ MissionDownloadState' = MissionDownloadState
      BY <1>2 DEF CheckMissionUploadTimeout, ClearDelayOver, RetryUpload, UploadFailed,
                  download, history
    <2>2. QED
      BY <2>1 DEF UploadExcludesReadback, TypeInv, DownloadType, Waiting
  <1>3. ASSUME RequestList, Send(<<Plain("REQUEST_LIST", 0)>>),
               fromFc' = fromFc \/ (fromFc # << >> /\ fromFc' = Tail(fromFc))
        PROVE  Waiting'
    <2>1. toFc' = toFc \/ Put(Plain("REQUEST_LIST", 0))
      BY <1>0, <1>3, SentOne, PlainIsFrame
    <2>2. QED
      BY <1>3, <2>1, StartWaits
  <1>4. CASE MissionQuery \/ RetryReadback
    BY <1>3, <1>4 DEF MissionQuery, RetryReadback, StartFcMissionReadback
  <1>5. CASE CheckMissionDownloadTimeout \/ Restart
    BY <1>5, IdleWaits DEF CheckMissionDownloadTimeout, Restart
  <1>6. CASE \E resume : LinkAlive(resume)
    BY <1>6, ConnectWaits DEF LinkAlive, history
  <1>7. CASE Reconnect
    BY <1>7, ConnectWaits DEF Reconnect, history
  <1>8. CASE \E ok \in BOOLEAN : ProcessSerialReconnectCmd(ok)
    <2>1. PICK ok \in BOOLEAN : ProcessSerialReconnectCmd(ok)
      BY <1>8
    <2>2. fromFc' = << >> /\ intruded' = intruded /\ fc' = fc
      BY <2>1 DEF ProcessSerialReconnectCmd
    <2>3. CASE ok
      BY <2>1, <2>2, <2>3, ConnectWaits DEF ProcessSerialReconnectCmd
    <2>4. CASE ~ok
      <3>1. toFc' = << >> /\ UNCHANGED download
        BY <2>1, <2>4 DEF ProcessSerialReconnectCmd
      <3>2. QED
        BY <2>2, <3>1, ShrinkWaits DEF download
    <2>5. QED
      BY <2>3, <2>4
  <1>9. CASE LinkStale \/ ReadError \/ ReconnectFails
    <2>1. /\ UNCHANGED <<MissionDownloadState, MissionDownloadSeq,
                         MissionDownloadExpectedCount, buffer, crossed, intruded, fc>>
          /\ toFc' = toFc \/ toFc' = << >>
          /\ fromFc' = fromFc \/ fromFc' = << >>
      BY <1>9 DEF LinkStale, ReadError, ReconnectFails, download, history
    <2>2. QED
      BY <2>1, ShrinkWaits
  <1>10. CASE OnMissionRequestInt \/ OnMissionRequest
    <2>1. /\ fromFc # << >> /\ fromFc' = Tail(fromFc) /\ UNCHANGED download
          /\ UNCHANGED <<intruded, fc>>
      BY <1>10 DEF OnMissionRequestInt, OnMissionRequest, Received, history
    <2>2. CASE MissionUploadState # "IDLE"
      BY <2>1, <2>2 DEF UploadExcludesReadback, TypeInv, DownloadType, Waiting, download
    <2>3. CASE MissionUploadState = "IDLE"
      <3>1. toFc' = toFc
        BY <1>10, <2>3 DEF OnMissionRequestInt, OnMissionRequest
      <3>2. QED
        BY <2>1, <3>1, ShrinkWaits DEF download
    <2>4. QED
      BY <2>2, <2>3
  <1>11. CASE OnMissionAck
    <2>1. /\ fromFc # << >> /\ fromFc' = Tail(fromFc) /\ intruded' = intruded
          /\ fc' = fc
      BY <1>11 DEF OnMissionAck, Received
    <2>2. CASE UNCHANGED download /\ toFc' = toFc
      BY <2>1, <2>2, ShrinkWaits DEF download
    <2>3. CASE RequestList /\ Send(<<Plain("REQUEST_LIST", 0)>>)
      BY <1>3, <2>1, <2>3
    <2>4. QED
      BY <1>11, <2>2, <2>3 DEF OnMissionAck, StartFcMissionReadback
  <1>12. CASE OnMissionCount
    BY <1>12, CountWaits
  <1>13. CASE OnMissionItem
    BY <1>13, ItemWaits
  <1>14. CASE FcStep
    BY <1>14, FcWaits
  <1>15. CASE FcRefuses
    <2>1. /\ toFc # << >> /\ Head(toFc).type = "ITEM" /\ toFc' = Tail(toFc)
          /\ Answer(<<Plain("ACK", 1)>>) /\ fc'.mission = fc.mission
          /\ UNCHANGED <<intruded, download>>
      BY <1>15 DEF FcRefuses, TypeInv, FcType
    <2>2. Head(toFc) = toFc[1] /\ 1 \in 1..Len(toFc)
      BY <1>0, <2>1, Taken
    <2>3. UNCHANGED <<MissionDownloadState, MissionDownloadSeq,
                      MissionDownloadExpectedCount, buffer, crossed>>
      BY <2>1 DEF download
    <2>4. MissionDownloadState = "WAIT_ITEM" => intruded \/ crossed
      BY <2>1, <2>2 DEF Waiting, ItemsInOrder
    <2>5. ASSUME ~intruded, ~crossed, MissionDownloadState = "WAIT_COUNT"
          PROVE  ListIsLast' /\ CountIsTrue'
      <3>1. ListIsLast /\ CountIsTrue
        BY <2>5 DEF Waiting
      <3>2. ListIsLast'
        <4>1. PICK q : q = Tail(toFc)
          OBVIOUS
        <4>2. /\ Len(q) = Len(toFc) - 1 /\ Len(toFc) \in Nat
              /\ \A i \in 1..Len(q) : i + 1 \in 1..Len(toFc) /\ q[i] = toFc[i + 1]
          BY <1>0, <2>1, <4>1, Taken
        <4>3. toFc' = q
          BY <2>1, <4>1
        <4>4. QED
          BY <3>1, <4>2, <4>3 DEF ListIsLast
      <3>3. \A i \in 1..Len(fromFc) : fromFc[i].type # "COUNT"
        BY <2>1, <3>1 DEF CountIsTrue
      <3>4. Plain("ACK", 1) \in Frame /\ Plain("ACK", 1).type = "ACK"
        BY PlainIsFrame
      <3>5. PICK x \in Frame : x = Plain("ACK", 1)
        BY <3>4
      <3>6. /\ Len(fromFc') = Len(fromFc) + 1 /\ fromFc'[Len(fromFc) + 1] = x
            /\ \A i \in 1..Len(fromFc) : fromFc'[i] = fromFc[i]
        BY <1>0, <2>1, <3>5, Answered
      <3>7. \A i \in 1..Len(fromFc') : fromFc'[i].type # "COUNT"
        <4>1. Len(fromFc) \in Nat /\ x.type = "ACK"
          BY <1>0, <3>4, <3>5
        <4>2. QED
          BY <3>3, <3>6, <4>1
      <3>8. QED
        BY <3>2, <3>7 DEF CountIsTrue
    <2>6. QED
      BY <2>1, <2>3, <2>4, <2>5 DEF Waiting
  <1>16. CASE FcDies \/ FcReboots
    <2>1. fc'.mission = fc.mission /\ UNCHANGED <<download, toFc, fromFc, intruded>>
      BY <1>16 DEF FcDies, FcReboots, history, TypeInv, FcType
    <2>2. QED
      BY <2>1, ShrinkWaits DEF download
  <1>17. CASE LoseToFc \/ LoseFromFc
    <2>1. /\ UNCHANGED <<download, fc, intruded>>
          /\ toFc' = toFc \/ (toFc # << >> /\ toFc' = Tail(toFc))
          /\ fromFc' = fromFc \/ (fromFc # << >> /\ fromFc' = Tail(fromFc))
      BY <1>17 DEF LoseToFc, LoseFromFc
    <2>2. QED
      BY <2>1, ShrinkWaits DEF download
  <1>18. CASE UNCHANGED vars
    BY <1>18, ShrinkWaits DEF vars, download, history
  <1>19. QED
    BY <1>1, <1>2, <1>4, <1>5, <1>6, <1>7, <1>8, <1>9, <1>10, <1>11, <1>12, <1>13,
       <1>14, <1>15, <1>16, <1>17, <1>18 DEF Next, Receive

\* What was published is a mission of the past, and the present mission is one.
Held ==
    /\ Clamp(fc.mission) \in fcPast
    /\ ~intruded /\ ~crossed => \A i \in 1..Len(readback) : readback[i] \in fcPast

\* The last item completes the mission.
LEMMA ItemHeld ==
    ASSUME TypeInv, TypeInv', Waiting, Held, OnMissionItem
    PROVE  Held'
  <1>1. fc' = fc /\ fcPast' = fcPast /\ intruded' = intruded /\ crossed' = crossed
    BY DEF OnMissionItem, history, download
  <1>2. CASE readback' = readback
    BY <1>1, <1>2 DEF Held
  <1>3. CASE /\ MissionDownloadState = "WAIT_ITEM"
             /\ MissionDownloadSeq' = MissionDownloadSeq + 1
             /\ MissionDownloadSeq' >= MissionDownloadExpectedCount
             /\ PublishFcMissionReadback(MissionDownloadExpectedCount, buffer')
    <2> SUFFICES ASSUME ~intruded, ~crossed
                 PROVE  \A i \in 1..Len(readback') : readback'[i] \in fcPast
      BY <1>1 DEF Held
    <2>1. /\ MissionDownloadExpectedCount = Len(fc.mission)
          /\ MissionDownloadSeq < MissionDownloadExpectedCount
      BY <1>3 DEF Waiting, ItemsInOrder
    <2>2. \A k \in 1..MaxWaypoints :
              k =< MissionDownloadSeq + 1 => buffer'[k] = fc.mission[k]
      BY <1>3, ItemIsNext
    <2>3. PICK items \in [1..MaxWaypoints -> Waypoints \cup {None}] : items = buffer'
      BY DEF TypeInv, DownloadType
    <2>4. PICK count \in Nat : count = MissionDownloadExpectedCount
      BY DEF TypeInv, DownloadType
    <2>5. PICK r \in Seq(Waypoints \cup {None}) :
              /\ r = [i \in 1..(IF count < MaxWaypoints THEN count ELSE MaxWaypoints) |->
                         items[i]]
              /\ Len(r) = IF count < MaxWaypoints THEN count ELSE MaxWaypoints
              /\ \A i \in 1..Len(r) : r[i] = items[i]
      BY FilledFits
    <2>6. readback' = <<r>>
      BY <1>3, <2>3, <2>4, <2>5 DEF PublishFcMissionReadback
    <2>7. PICK mission \in Seq(Waypoints) : mission = fc.mission
      BY DEF TypeInv, FcType
    <2>8. /\ Clamp(mission) \in Seq(Waypoints)
          /\ Len(Clamp(mission)) = IF Len(mission) < MaxWaypoints THEN Len(mission)
                                   ELSE MaxWaypoints
          /\ \A i \in 1..Len(Clamp(mission)) : Clamp(mission)[i] = mission[i]
      BY ClampFits
    <2>9. Len(mission) = count /\ count =< MissionDownloadSeq + 1
      BY <1>3, <2>1, <2>4, <2>7
    <2>10. MissionDownloadSeq \in Nat
      BY DEF TypeInv, DownloadType
    <2>11. PICK c \in Seq(Waypoints) : c = Clamp(mission)
      BY <2>8
    <2>12. /\ Len(r) = Len(c) /\ Len(r) =< count /\ Len(r) =< MaxWaypoints
           /\ Len(r) \in Nat
      BY <2>5, <2>8, <2>9, <2>11, Limits
    <2>13. ASSUME NEW i \in 1..Len(r) PROVE r[i] = c[i]
      <3>1. i \in 1..MaxWaypoints /\ i =< MissionDownloadSeq + 1
        BY <2>9, <2>10, <2>12, Limits
      <3>2. items[i] = mission[i]
        BY <2>2, <2>3, <2>7, <3>1
      <3>3. r[i] = items[i]
        BY <2>5
      <3>4. c[i] = mission[i]
        BY <2>8, <2>11, <2>12
      <3>5. QED
        BY <3>2, <3>3, <3>4
    <2>14. c \in Seq(Waypoints \cup {None})
      BY SeqMonotonic
    <2>15. r = c
      BY <2>12, <2>13, <2>14, SeqEqual
    <2>16. c \in fcPast
      BY <2>7, <2>11 DEF Held
    <2>17. QED
      <3>1. \A i \in 1..Len(readback') : i = 1
        BY <2>6
      <3>2. readback'[1] \in fcPast
        BY <2>6, <2>15, <2>16
      <3>3. QED
        BY <3>1, <3>2
  <1>4. QED
    BY <1>2, <1>3 DEF OnMissionItem, download

\* A count of 0 is an empty mission.
LEMMA CountHeld ==
    ASSUME TypeInv, Waiting, Held, OnMissionCount
    PROVE  Held'
  <1>1. fc' = fc /\ fcPast' = fcPast /\ intruded' = intruded /\ crossed' = crossed
    BY DEF OnMissionCount, history, download
  <1>2. CASE readback' = readback
    BY <1>1, <1>2 DEF Held
  <1>3. CASE /\ MissionDownloadState = "WAIT_COUNT" /\ Head(fromFc).n = 0
             /\ PublishFcMissionReadback(0, buffer)
    <2> SUFFICES ASSUME ~intruded, ~crossed
                 PROVE  \A i \in 1..Len(readback') : readback'[i] \in fcPast
      BY <1>1 DEF Held
    <2>1. fromFc # << >> /\ fromFc \in Seq(Frame) /\ Head(fromFc).type = "COUNT"
      BY DEF OnMissionCount, Received, TypeInv, LineType
    <2>2. Head(fromFc) = fromFc[1] /\ 1 \in 1..Len(fromFc)
      BY <2>1, Taken
    <2>3. PICK mission \in Seq(Waypoints) : mission = fc.mission
      BY DEF TypeInv, FcType
    <2>4. Len(mission) = 0
      BY <1>3, <2>1, <2>2, <2>3 DEF Waiting, CountIsTrue
    <2>5. Clamp(mission) \in Seq(Waypoints) /\ Len(Clamp(mission)) = 0
      <3>1. /\ Clamp(mission) \in Seq(Waypoints)
            /\ Len(Clamp(mission)) = IF Len(mission) < MaxWaypoints THEN Len(mission)
                                     ELSE MaxWaypoints
        BY ClampFits
      <3>2. QED
        BY <2>4, <3>1, Limits
    <2>6. Clamp(mission) = << >>
      BY <2>5, EmptySeq
    <2>7. PICK r \in Seq(Waypoints \cup {None}) :
              /\ r = [i \in 1..(IF 0 < MaxWaypoints THEN 0 ELSE MaxWaypoints) |-> buffer[i]]
              /\ Len(r) = IF 0 < MaxWaypoints THEN 0 ELSE MaxWaypoints
      <3>1. PICK count \in Nat : count = 0
        OBVIOUS
      <3>2. buffer \in [1..MaxWaypoints -> Waypoints \cup {None}]
        BY DEF TypeInv, DownloadType
      <3>3. \E r \in Seq(Waypoints \cup {None}) :
                /\ r = [i \in 1..(IF count < MaxWaypoints THEN count ELSE MaxWaypoints) |->
                           buffer[i]]
                /\ Len(r) = IF count < MaxWaypoints THEN count ELSE MaxWaypoints
                /\ \A i \in 1..Len(r) : r[i] = buffer[i]
        BY <3>2, FilledFits
      <3>4. QED
        BY <3>1, <3>3
    <2>8. readback' = <<r>>
      BY <1>3, <2>7 DEF PublishFcMissionReadback
    <2>9. Len(r) = 0
      BY <2>7, Limits
    <2>10. r = << >>
      BY <2>9, EmptySeq
    <2>11. << >> \in fcPast
      BY <2>3, <2>6 DEF Held
    <2>12. QED
      <3>1. \A i \in 1..Len(readback') : i = 1
        BY <2>8
      <3>2. readback'[1] \in fcPast
        BY <2>8, <2>10, <2>11
      <3>3. QED
        BY <3>1, <3>2
  <1>4. QED
    BY <1>2, <1>3 DEF OnMissionCount, download

LEMMA HeldStep ==
    ASSUME TypeInv, TypeInv', Waiting, Held, [Next]_vars
    PROVE  Held'
  <1>1. ASSUME fc'.mission = fc.mission, fcPast' = fcPast, readback' = readback,
               intruded \in BOOLEAN, crossed \in BOOLEAN,
               intruded => intruded', crossed => crossed'
        PROVE  Held'
    BY <1>1 DEF Held
  <1>2. intruded \in BOOLEAN /\ crossed \in BOOLEAN
    BY DEF TypeInv, LinkType, DownloadType
  <1>3. ASSUME RequestList PROVE readback' = readback /\ (crossed => crossed')
    BY <1>2, <1>3 DEF RequestList
  <1>4. ASSUME NEW before, Connect(before, toFc)
        PROVE  readback' = readback /\ (crossed => crossed')
    BY <1>3, <1>4, ConnectCases DEF download
  <1>5. CASE RouteUpdate \/ CheckMissionUploadTimeout
    BY <1>1, <1>2, <1>5 DEF RouteUpdate, StartMissionUpload, CheckMissionUploadTimeout,
       ClearDelayOver, RetryUpload, UploadFailed, download, history
  <1>6. CASE MissionQuery
    BY <1>1, <1>2, <1>3, <1>6 DEF MissionQuery
  <1>7. CASE RetryReadback
    BY <1>1, <1>2, <1>3, <1>7 DEF RetryReadback, StartFcMissionReadback, history
  <1>8. CASE CheckMissionDownloadTimeout \/ LinkStale \/ ReadError \/ Restart \/ ReconnectFails
    BY <1>1, <1>2, <1>8 DEF CheckMissionDownloadTimeout, LinkStale, ReadError, Restart,
       ReconnectFails, download, history
  <1>9. CASE \E resume : LinkAlive(resume)
    BY <1>1, <1>2, <1>4, <1>9 DEF LinkAlive, history
  <1>10. CASE Reconnect
    BY <1>1, <1>2, <1>4, <1>10 DEF Reconnect, history
  <1>11. CASE \E ok \in BOOLEAN : ProcessSerialReconnectCmd(ok)
    BY <1>1, <1>2, <1>4, <1>11 DEF ProcessSerialReconnectCmd, download
  <1>12. CASE OnMissionRequestInt \/ OnMissionRequest
    BY <1>1, <1>2, <1>12 DEF OnMissionRequestInt, OnMissionRequest, download, history
  <1>13. CASE OnMissionAck
    <2>1. readback' = readback /\ (crossed => crossed')
      BY <1>2, <1>3, <1>13 DEF OnMissionAck, StartFcMissionReadback, download
    <2>2. QED
      BY <1>1, <1>2, <1>13, <2>1 DEF OnMissionAck
  <1>14. CASE OnMissionCount
    BY <1>14, CountHeld
  <1>15. CASE OnMissionItem
    BY <1>15, ItemHeld
  <1>16. CASE FcStep
    <2>1. readback' = readback /\ intruded' = intruded /\ crossed' = crossed
      BY <1>16 DEF FcStep, download
    <2>2. ASSUME NEW mission, Holds(mission) PROVE Held'
      <3>1. fc'.mission = mission
        BY <2>2 DEF Holds, TypeInv, FcType
      <3>2. fcPast' = fcPast \cup {Clamp(mission)}
        BY <2>2 DEF Holds
      <3>3. QED
        BY <2>1, <3>1, <3>2 DEF Held
    <2>3. \/ \E mission : Holds(mission)
          \/ fcPast' = fcPast /\ fc'.mission = fc.mission
      BY <1>16 DEF FcStep, TypeInv, FcType
    <2>4. QED
      BY <1>1, <1>2, <2>1, <2>2, <2>3
  <1>17. CASE FcRefuses \/ FcDies \/ FcReboots \/ LoseToFc \/ LoseFromFc
    <2>1. fc'.mission = fc.mission
      BY <1>17 DEF FcRefuses, FcDies, FcReboots, LoseToFc, LoseFromFc, TypeInv, FcType
    <2>2. QED
      BY <1>1, <1>2, <1>17, <2>1 DEF FcRefuses, FcDies, FcReboots, LoseToFc, LoseFromFc,
                                     download, history
  <1>18. CASE UNCHANGED vars
    BY <1>1, <1>2, <1>18 DEF vars, download, history
  <1>19. QED
    BY <1>5, <1>6, <1>7, <1>8, <1>9, <1>10, <1>11, <1>12, <1>13, <1>14, <1>15, <1>16,
       <1>17, <1>18 DEF Next, Receive

LEMMA ReadbackInit == Init => Waiting /\ Held
  <1> SUFFICES ASSUME Init PROVE Waiting /\ Held
    OBVIOUS
  <1>1. Waiting
    BY DEF Init, Waiting
  <1>2. PICK m \in FcMissions :
            /\ fc = [mission |-> m, items |-> << >>, want |-> 0, alive |-> TRUE]
            /\ fcPast = {Clamp(m)}
    BY DEF Init
  <1>3. readback = << >>
    BY DEF Init
  <1>4. QED
    BY <1>1, <1>2, <1>3 DEF Held

\* Whatever the FC, the line and the ground do, what the bridge publishes as the
\* FC's mission is a whole mission that the FC has held, unless a MISSION_QUERY
\* came during an upload or a readback began before the request that started
\* the one before was answered (StartFcMissionReadback, MISSION_COUNT and
\* MISSION_ITEM handlers).  Items are stored by arrival; that this is right takes
\* Waiting: there is never more than one request or one answer on the line for
\* the readback that is running, and what was received is a beginning of the
\* FC's mission, for uploads are excluded while it runs.
THEOREM ReadbackTrue == Spec => []ReadbackIsAMission
  <1>1. Spec => [](Waiting /\ Held)
    <2>1. TypeInv /\ TypeInv' /\ UploadExcludesReadback /\ Waiting /\ Held /\ [Next]_vars
            => Waiting' /\ Held'
      BY WaitingStep, HeldStep
    <2>2. QED
      BY TypeAlways, Exclusion, ReadbackInit, <2>1, PTL DEF Spec
  <1>2. Held => ReadbackIsAMission
    BY DEF Held, ReadbackIsAMission
  <1>3. QED
    BY <1>1, <1>2, PTL

------------------------------------------------------------------------------
(* The upload *)

UploadFrames == {"CLEAR_ALL", "COUNT", "ITEM"}
Requests     == {"REQUEST", "REQUEST_INT"}

\* An upload has one question to the FC or one answer of it under way, and a
\* MISSION_CLEAR_ALL is never behind it.
OneExchange ==
    /\ \A i, j \in 1..Len(toFc) :
           toFc[i].type \in Asking /\ toFc[j].type \in Asking => i = j
    /\ \A i, j \in 1..Len(fromFc) :
           fromFc[i].type \in Answering /\ fromFc[j].type \in Answering => i = j
    /\ \A i \in 1..Len(toFc), j \in 1..Len(fromFc) :
           ~(toFc[i].type \in Asking /\ fromFc[j].type \in Answering)
    /\ \A i, j \in 1..Len(toFc) :
           toFc[i].type = "CLEAR_ALL" /\ toFc[j].type \in Asking =>
               i < j /\ toFc[j].type = "COUNT"
    /\ \A i \in 1..Len(toFc), j \in 1..Len(fromFc) :
           ~(toFc[i].type = "CLEAR_ALL" /\ fromFc[j].type \in Answering)

\* The FC takes in the pending route, unless it has forgotten the upload.
FcFollows ==
    fc.want # 0 =>
        /\ fc.want = Len(pending) /\ Len(fc.items) < fc.want
        /\ \A k \in 1..Len(fc.items) : fc.items[k] \in {pending[k], Legacy[pending[k]]}

Transfer ==
    /\ \A i \in 1..Len(toFc) : toFc[i].type = "COUNT" => toFc[i].n = Len(pending)
    /\ \A i \in 1..Len(toFc) :
           toFc[i].type = "ITEM" =>
               /\ toFc[i].n < Len(pending)
               /\ toFc[i].wp \in {pending[toFc[i].n + 1], Legacy[pending[toFc[i].n + 1]]}
               /\ FcFollows
    /\ \A i \in 1..Len(fromFc) : fromFc[i].type \in Requests => FcFollows
    /\ \A i \in 1..Len(fromFc) :
           fromFc[i].type = "ACK" /\ fromFc[i].n = 0 => StoredAs(fc.mission, pending)

StaysStored ==
    /\ StoredAs(fc.mission, active)
    /\ \A i \in 1..Len(toFc) : toFc[i].type \notin UploadFrames

StoreInv ==
    /\ MissionUploadState = "ACTIVE" /\ ~overtaken => OneExchange /\ Transfer
    /\ UploadSucceeded /\ ~mistaken /\ ~overtaken => StaysStored

\* The frames on the two lines are those that were there, d and e places on, and
\* new ones that are not of an upload.
LEMMA ExchangeShifts ==
    ASSUME OneExchange, NEW d \in 0..1, NEW e \in 0..1,
           toFc \in Seq(Frame), fromFc \in Seq(Frame),
           toFc' \in Seq(Frame), fromFc' \in Seq(Frame),
           \A i \in 1..Len(toFc') :
               \/ toFc'[i].type \notin UploadFrames
               \/ i + d \in 1..Len(toFc) /\ toFc'[i] = toFc[i + d],
           \A i \in 1..Len(fromFc') :
               \/ fromFc'[i].type \notin Answering
               \/ i + e \in 1..Len(fromFc) /\ fromFc'[i] = fromFc[i + e]
    PROVE  OneExchange'
  <1>1. \A i, j \in 1..Len(toFc') :
            toFc'[i].type \in Asking /\ toFc'[j].type \in Asking => i = j
    <2> SUFFICES ASSUME NEW i \in 1..Len(toFc'), NEW j \in 1..Len(toFc'),
                        toFc'[i].type \in Asking, toFc'[j].type \in Asking
                 PROVE  i = j
      OBVIOUS
    <2>1. i + d \in 1..Len(toFc) /\ toFc[i + d].type \in Asking
      BY DEF Asking, UploadFrames
    <2>2. j + d \in 1..Len(toFc) /\ toFc[j + d].type \in Asking
      BY DEF Asking, UploadFrames
    <2>3. i + d = j + d
      BY <2>1, <2>2 DEF OneExchange
    <2>4. QED
      BY <2>3
  <1>2. \A i, j \in 1..Len(fromFc') :
            fromFc'[i].type \in Answering /\ fromFc'[j].type \in Answering => i = j
    <2> SUFFICES ASSUME NEW i \in 1..Len(fromFc'), NEW j \in 1..Len(fromFc'),
                        fromFc'[i].type \in Answering, fromFc'[j].type \in Answering
                 PROVE  i = j
      OBVIOUS
    <2>1. i + e \in 1..Len(fromFc) /\ fromFc[i + e].type \in Answering
      BY DEF Answering
    <2>2. j + e \in 1..Len(fromFc) /\ fromFc[j + e].type \in Answering
      BY DEF Answering
    <2>3. i + e = j + e
      BY <2>1, <2>2 DEF OneExchange
    <2>4. QED
      BY <2>3
  <1>3. \A i \in 1..Len(toFc'), j \in 1..Len(fromFc') :
            ~(toFc'[i].type \in Asking /\ fromFc'[j].type \in Answering)
    <2> SUFFICES ASSUME NEW i \in 1..Len(toFc'), NEW j \in 1..Len(fromFc'),
                        toFc'[i].type \in Asking, fromFc'[j].type \in Answering
                 PROVE  FALSE
      OBVIOUS
    <2>1. i + d \in 1..Len(toFc) /\ toFc[i + d].type \in Asking
      BY DEF Asking, UploadFrames
    <2>2. j + e \in 1..Len(fromFc) /\ fromFc[j + e].type \in Answering
      OBVIOUS
    <2>3. QED
      BY <2>1, <2>2 DEF OneExchange
  <1>4. \A i, j \in 1..Len(toFc') :
            toFc'[i].type = "CLEAR_ALL" /\ toFc'[j].type \in Asking =>
                i < j /\ toFc'[j].type = "COUNT"
    <2> SUFFICES ASSUME NEW i \in 1..Len(toFc'), NEW j \in 1..Len(toFc'),
                        toFc'[i].type = "CLEAR_ALL", toFc'[j].type \in Asking
                 PROVE  i < j /\ toFc'[j].type = "COUNT"
      OBVIOUS
    <2>1. i + d \in 1..Len(toFc) /\ toFc[i + d].type = "CLEAR_ALL"
      BY DEF UploadFrames
    <2>2. /\ j + d \in 1..Len(toFc) /\ toFc[j + d].type \in Asking
          /\ toFc'[j] = toFc[j + d]
      BY DEF Asking, UploadFrames
    <2>3. i + d < j + d /\ toFc[j + d].type = "COUNT"
      BY <2>1, <2>2 DEF OneExchange
    <2>4. QED
      BY <2>2, <2>3
  <1>5. \A i \in 1..Len(toFc'), j \in 1..Len(fromFc') :
            ~(toFc'[i].type = "CLEAR_ALL" /\ fromFc'[j].type \in Answering)
    <2> SUFFICES ASSUME NEW i \in 1..Len(toFc'), NEW j \in 1..Len(fromFc'),
                        toFc'[i].type = "CLEAR_ALL", fromFc'[j].type \in Answering
                 PROVE  FALSE
      OBVIOUS
    <2>1. i + d \in 1..Len(toFc) /\ toFc[i + d].type = "CLEAR_ALL"
      BY DEF UploadFrames
    <2>2. j + e \in 1..Len(fromFc) /\ fromFc[j + e].type \in Answering
      OBVIOUS
    <2>3. QED
      BY <2>1, <2>2 DEF OneExchange
  <1>6. QED
    BY <1>1, <1>2, <1>3, <1>4, <1>5 DEF OneExchange

LEMMA NoUploadFrame ==
    ASSUME StoreInv,
           UNCHANGED <<MissionUploadState, LastUploadResult, active, pending>>,
           UNCHANGED <<mistaken, overtaken>>,
           fc'.mission = fc.mission, FcFollows => FcFollows',
           NEW d \in 0..1, NEW e \in 0..1,
           toFc \in Seq(Frame), fromFc \in Seq(Frame),
           toFc' \in Seq(Frame), fromFc' \in Seq(Frame),
           \A i \in 1..Len(toFc') :
               \/ toFc'[i].type \notin UploadFrames
               \/ i + d \in 1..Len(toFc) /\ toFc'[i] = toFc[i + d],
           \A i \in 1..Len(fromFc') :
               \/ fromFc'[i].type \notin Answering
               \/ i + e \in 1..Len(fromFc) /\ fromFc'[i] = fromFc[i + e]
    PROVE  StoreInv'
  <1>1. UNCHANGED <<MissionUploadState, LastUploadResult, active, pending,
                    mistaken, overtaken>>
    OBVIOUS
  <1>2. OneExchange => OneExchange'
    BY ExchangeShifts
  <1>3. Transfer => Transfer'
    <2> SUFFICES ASSUME Transfer PROVE Transfer'
      OBVIOUS
    <2>1. \A i \in 1..Len(toFc') : toFc'[i].type = "COUNT" => toFc'[i].n = Len(pending')
      BY <1>1 DEF Transfer, UploadFrames
    <2>2. \A i \in 1..Len(toFc') :
              toFc'[i].type = "ITEM" =>
                  /\ toFc'[i].n < Len(pending')
                  /\ toFc'[i].wp \in {pending'[toFc'[i].n + 1],
                                     Legacy[pending'[toFc'[i].n + 1]]}
                  /\ FcFollows'
      BY <1>1 DEF Transfer, UploadFrames
    <2>3. \A i \in 1..Len(fromFc') : fromFc'[i].type \in Requests => FcFollows'
      BY DEF Transfer, Answering, Requests
    <2>4. \A i \in 1..Len(fromFc') :
              fromFc'[i].type = "ACK" /\ fromFc'[i].n = 0 =>
                  StoredAs(fc'.mission, pending')
      BY <1>1 DEF Transfer, Answering
    <2>5. QED
      BY <2>1, <2>2, <2>3, <2>4 DEF Transfer
  <1>4. StaysStored => StaysStored'
    BY <1>1 DEF StaysStored, UploadFrames
  <1>5. QED
    BY <1>1, <1>2, <1>3, <1>4 DEF StoreInv, UploadSucceeded

\* Nothing is said of an upload that is being cleared, has failed or had to do
\* with the answers to an earlier one.
LEMMA NoClaim ==
    ASSUME MissionUploadState' # "ACTIVE" \/ overtaken',
           \/ MissionUploadState' # "IDLE" \/ LastUploadResult' # "SUCCESS"
           \/ mistaken' \/ overtaken'
    PROVE  StoreInv'
  BY DEF StoreInv, UploadSucceeded

\* How a line may change without a new frame of an upload: it stays, is cut, or
\* grows by a frame of a readback.
LEMMA ToShift ==
    ASSUME toFc \in Seq(Frame),
           \/ toFc' = toFc \/ toFc' = << >> \/ (toFc # << >> /\ toFc' = Tail(toFc))
           \/ \E m \in Frame : Put(m) /\ m.type \notin UploadFrames
    PROVE  /\ toFc' \in Seq(Frame)
           /\ \E d \in 0..1 : \A i \in 1..Len(toFc') :
                  \/ toFc'[i].type \notin UploadFrames
                  \/ i + d \in 1..Len(toFc) /\ toFc'[i] = toFc[i + d]
  <1>1. 0 \in 0..1 /\ 1 \in 0..1 /\ Len(toFc) \in Nat
    OBVIOUS
  <1>2. CASE toFc' = toFc
    <2>1. \A i \in 1..Len(toFc') : i + 0 \in 1..Len(toFc) /\ toFc'[i] = toFc[i + 0]
      BY <1>2
    <2>2. QED
      BY <1>1, <1>2, <2>1
  <1>3. CASE toFc' = << >>
    <2>1. \A i \in 1..Len(toFc') : i + 0 \in 1..Len(toFc) /\ toFc'[i] = toFc[i + 0]
      BY <1>3
    <2>2. QED
      BY <1>1, <1>3, <2>1
  <1>4. CASE toFc # << >> /\ toFc' = Tail(toFc)
    <2>1. PICK q : q = Tail(toFc)
      OBVIOUS
    <2>2. q \in Seq(Frame) /\ \A i \in 1..Len(q) : i + 1 \in 1..Len(toFc) /\ q[i] = toFc[i + 1]
      BY <1>4, <2>1, Taken
    <2>3. toFc' = q
      BY <1>4, <2>1
    <2>4. QED
      BY <1>1, <2>2, <2>3
  <1>5. ASSUME NEW m \in Frame, Put(m), m.type \notin UploadFrames
        PROVE  /\ toFc' \in Seq(Frame)
               /\ \A i \in 1..Len(toFc') :
                      \/ toFc'[i].type \notin UploadFrames
                      \/ i + 0 \in 1..Len(toFc) /\ toFc'[i] = toFc[i + 0]
    BY <1>1, <1>5 DEF Put
  <1>6. QED
    BY <1>1, <1>2, <1>3, <1>4, <1>5

LEMMA FromShift ==
    ASSUME fromFc \in Seq(Frame),
           \/ fromFc' = fromFc \/ fromFc' = << >>
           \/ fromFc # << >> /\ fromFc' = Tail(fromFc)
           \/ \E x \in Frame : Answer(<<x>>) /\ x.type \notin Answering
    PROVE  /\ fromFc' \in Seq(Frame)
           /\ \E e \in 0..1 : \A i \in 1..Len(fromFc') :
                  \/ fromFc'[i].type \notin Answering
                  \/ i + e \in 1..Len(fromFc) /\ fromFc'[i] = fromFc[i + e]
  <1>1. 0 \in 0..1 /\ 1 \in 0..1 /\ Len(fromFc) \in Nat
    OBVIOUS
  <1>2. CASE fromFc' = fromFc
    <2>1. \A i \in 1..Len(fromFc') :
              i + 0 \in 1..Len(fromFc) /\ fromFc'[i] = fromFc[i + 0]
      BY <1>2
    <2>2. QED
      BY <1>1, <1>2, <2>1
  <1>3. CASE fromFc' = << >>
    <2>1. \A i \in 1..Len(fromFc') :
              i + 0 \in 1..Len(fromFc) /\ fromFc'[i] = fromFc[i + 0]
      BY <1>3
    <2>2. QED
      BY <1>1, <1>3, <2>1
  <1>4. CASE fromFc # << >> /\ fromFc' = Tail(fromFc)
    <2>1. PICK q : q = Tail(fromFc)
      OBVIOUS
    <2>2. /\ q \in Seq(Frame)
          /\ \A i \in 1..Len(q) : i + 1 \in 1..Len(fromFc) /\ q[i] = fromFc[i + 1]
      BY <1>4, <2>1, Taken
    <2>3. fromFc' = q
      BY <1>4, <2>1
    <2>4. QED
      BY <1>1, <2>2, <2>3
  <1>5. ASSUME NEW x \in Frame, Answer(<<x>>), x.type \notin Answering
        PROVE  /\ fromFc' \in Seq(Frame)
               /\ \A i \in 1..Len(fromFc') :
                      \/ fromFc'[i].type \notin Answering
                      \/ i + 0 \in 1..Len(fromFc) /\ fromFc'[i] = fromFc[i + 0]
    <2>1. /\ fromFc' \in Seq(Frame)
          /\ Len(fromFc') = Len(fromFc) + 1 /\ fromFc'[Len(fromFc) + 1] = x
          /\ \A i \in 1..Len(fromFc) : fromFc'[i] = fromFc[i]
      BY <1>5, Answered
    <2>2. QED
      BY <1>1, <1>5, <2>1
  <1>6. QED
    BY <1>1, <1>2, <1>3, <1>4, <1>5

\* So such a step disturbs no upload.
LEMMA KeepsStored ==
    ASSUME TypeInv, StoreInv,
           UNCHANGED <<MissionUploadState, LastUploadResult, active, pending>>,
           UNCHANGED <<mistaken, overtaken>>,
           fc'.mission = fc.mission, FcFollows => FcFollows',
           \/ toFc' = toFc \/ toFc' = << >> \/ (toFc # << >> /\ toFc' = Tail(toFc))
           \/ \E m \in Frame : Put(m) /\ m.type \notin UploadFrames,
           \/ fromFc' = fromFc \/ fromFc' = << >>
           \/ fromFc # << >> /\ fromFc' = Tail(fromFc)
           \/ \E x \in Frame : Answer(<<x>>) /\ x.type \notin Answering
    PROVE  StoreInv'
  <1>1. toFc \in Seq(Frame) /\ fromFc \in Seq(Frame)
    BY DEF TypeInv, LineType
  <1>2. PICK d \in 0..1 :
            \A i \in 1..Len(toFc') :
                \/ toFc'[i].type \notin UploadFrames
                \/ i + d \in 1..Len(toFc) /\ toFc'[i] = toFc[i + d]
    BY <1>1, ToShift
  <1>3. PICK e \in 0..1 :
            \A i \in 1..Len(fromFc') :
                \/ fromFc'[i].type \notin Answering
                \/ i + e \in 1..Len(fromFc) /\ fromFc'[i] = fromFc[i + e]
    BY <1>1, FromShift
  <1>4. toFc' \in Seq(Frame) /\ fromFc' \in Seq(Frame)
    BY <1>1, ToShift, FromShift
  <1>5. QED
    BY <1>1, <1>2, <1>3, <1>4, NoUploadFrame

\* The timers start an exchange behind no other one, or the upload is overtaken.
LEMMA TimerStored ==
    ASSUME TypeInv, TypeInv', StoreInv, CheckMissionUploadTimeout
    PROVE  StoreInv'
  <1>1. /\ toFc \in Seq(Frame) /\ Len(toFc) \in Nat /\ Len(pending) \in Nat /\ 0 \in Nat
        /\ toFc' \in Seq(Frame) /\ Len(toFc') \in Nat
    BY DEF TypeInv, LineType, UploadType
  <1>2. PICK m \in Frame : m = Plain("COUNT", Len(pending)) /\ m.type = "COUNT"
                           /\ m.n = Len(pending)
    BY <1>1, PlainIsFrame
  <1>3. PICK l \in Frame : l = Plain("CLEAR_ALL", 0) /\ l.type = "CLEAR_ALL"
    BY <1>1, PlainIsFrame
  <1>4. ASSUME ~ExchangeUnderWay
        PROVE  /\ \A i \in 1..Len(toFc) : toFc[i].type \notin Asking
               /\ \A i \in 1..Len(fromFc) : fromFc[i].type \notin Answering
    BY <1>4 DEF ExchangeUnderWay
  <1>5. ASSUME ~ExchangeUnderWay, MissionUploadState' = "ACTIVE", pending' = pending,
               fromFc' = fromFc,
               \A i \in 1..Len(toFc') : toFc'[i].type \notin Asking
                                       \/ (i = Len(toFc') /\ toFc'[i] = m)
        PROVE  StoreInv'
    <2>1. \A i \in 1..Len(fromFc') : fromFc'[i].type \notin Answering
      BY <1>4, <1>5
    <2>2. \A i \in 1..Len(toFc') :
              /\ toFc'[i].type # "ITEM"
              /\ toFc'[i].type \in Asking =>
                     i = Len(toFc') /\ toFc'[i] = m /\ toFc'[i].type = "COUNT"
      BY <1>2, <1>5 DEF Asking
    <2>3. \A i, j \in 1..Len(toFc') :
              toFc'[i].type = "CLEAR_ALL" /\ toFc'[j].type \in Asking =>
                  i < j /\ toFc'[j].type = "COUNT"
      <3> SUFFICES ASSUME NEW i \in 1..Len(toFc'), NEW j \in 1..Len(toFc'),
                          toFc'[i].type = "CLEAR_ALL", toFc'[j].type \in Asking
                   PROVE  i < j /\ toFc'[j].type = "COUNT"
        OBVIOUS
      <3>1. j = Len(toFc') /\ toFc'[j].type = "COUNT"
        BY <2>2
      <3>2. i # j
        BY <3>1
      <3>3. QED
        BY <1>1, <3>1, <3>2
    <2>4. OneExchange'
      BY <2>1, <2>2, <2>3 DEF OneExchange
    <2>5. \A i \in 1..Len(toFc') : toFc'[i].type = "COUNT" => toFc'[i].n = Len(pending')
      BY <1>2, <1>5, <2>2 DEF Asking
    <2>6. Transfer'
      BY <2>1, <2>2, <2>5 DEF Transfer, Answering, Requests
    <2>7. QED
      BY <1>5, <2>4, <2>6 DEF StoreInv, UploadSucceeded
  <1>6. CASE ClearDelayOver
    <2>1. /\ MissionUploadState' = "ACTIVE" /\ pending' = pending /\ fromFc' = fromFc
          /\ Send(<<m>>) /\ overtaken' = ExchangeUnderWay
      BY <1>2, <1>6 DEF ClearDelayOver
    <2>2. CASE ExchangeUnderWay
      BY <2>1, <2>2, NoClaim
    <2>3. CASE ~ExchangeUnderWay
      <3>1. toFc' = toFc \/ Put(m)
        BY <1>1, <2>1, SentOne
      <3>2. ASSUME Put(m), NEW i \in 1..Len(toFc')
            PROVE  toFc'[i].type \notin Asking \/ (i = Len(toFc') /\ toFc'[i] = m)
        <4>1. i \in 1..Len(toFc) \/ i = Len(toFc')
          BY <1>1, <3>2 DEF Put
        <4>2. QED
          BY <1>1, <1>4, <2>3, <3>2, <4>1 DEF Put
      <3>3. QED
        BY <1>4, <1>5, <2>1, <2>3, <3>1, <3>2
    <2>4. QED
      BY <2>2, <2>3
  <1>7. CASE RetryUpload
    <2>1. /\ MissionUploadState' = "ACTIVE" /\ pending' = pending /\ fromFc' = fromFc
          /\ Send(<<l, m>>) /\ (ExchangeUnderWay => overtaken')
      BY <1>2, <1>3, <1>7 DEF RetryUpload
    <2>2. CASE ExchangeUnderWay
      BY <2>1, <2>2, NoClaim
    <2>3. CASE ~ExchangeUnderWay
      <3>1. \/ toFc' = toFc
            \/ /\ Len(toFc') = Len(toFc) + 2
               /\ toFc'[Len(toFc) + 1] = l /\ toFc'[Len(toFc) + 2] = m
               /\ \A i \in 1..Len(toFc) : toFc'[i] = toFc[i]
        BY <1>1, <2>1, SentTwo
      <3>2. ASSUME Len(toFc') = Len(toFc) + 2,
                   toFc'[Len(toFc) + 1] = l, toFc'[Len(toFc) + 2] = m,
                   \A i \in 1..Len(toFc) : toFc'[i] = toFc[i],
                   NEW i \in 1..Len(toFc')
            PROVE  toFc'[i].type \notin Asking \/ (i = Len(toFc') /\ toFc'[i] = m)
        <4>1. i \in 1..Len(toFc) \/ i = Len(toFc) + 1 \/ i = Len(toFc')
          BY <1>1, <3>2
        <4>2. CASE i \in 1..Len(toFc)
          BY <1>4, <2>3, <3>2, <4>2
        <4>3. CASE i = Len(toFc) + 1
          BY <1>3, <3>2, <4>3 DEF Asking
        <4>4. QED
          BY <3>2, <4>1, <4>2, <4>3
      <3>3. QED
        BY <1>4, <1>5, <2>1, <2>3, <3>1, <3>2
    <2>4. QED
      BY <2>2, <2>3
  <1>8. CASE UploadFailed
    BY <1>8, NoClaim DEF UploadFailed
  <1>9. QED
    BY <1>6, <1>7, <1>8 DEF CheckMissionUploadTimeout

\* The item that the FC asked for takes the place of its request.
LEMMA ItemStored ==
    ASSUME TypeInv, StoreInv, MissionUploadState = "ACTIVE", ~overtaken,
           OnMissionRequestInt \/ OnMissionRequest,
           NEW n \in Nat, n = Head(fromFc).n, n < Len(pending),
           NEW m \in Frame, m.type = "ITEM", m.n = n,
           m.wp \in {pending[n + 1], Legacy[pending[n + 1]]}, Put(m)
    PROVE  StoreInv'
  <1>1. toFc \in Seq(Frame) /\ fromFc \in Seq(Frame) /\ Len(toFc) \in Nat
    BY DEF TypeInv, LineType
  <1>2. /\ fromFc # << >> /\ Head(fromFc).type \in Requests /\ fromFc' = Tail(fromFc)
        /\ UNCHANGED <<MissionUploadState, LastUploadResult, active, pending, fc>>
    BY DEF OnMissionRequestInt, OnMissionRequest, Received, upload, Requests
  <1>3. OneExchange /\ Transfer
    BY DEF StoreInv
  <1>4. /\ fromFc[1].type \in Requests /\ Len(fromFc) \in Nat \ {0}
        /\ \A i \in 1..Len(fromFc') : i + 1 \in 1..Len(fromFc) /\ fromFc'[i] = fromFc[i + 1]
    <2>1. PICK q : q = Tail(fromFc)
      OBVIOUS
    <2>2. /\ Head(fromFc) = fromFc[1] /\ Len(fromFc) \in Nat \ {0}
          /\ \A i \in 1..Len(q) : i + 1 \in 1..Len(fromFc) /\ q[i] = fromFc[i + 1]
      BY <1>1, <1>2, <2>1, Taken
    <2>3. fromFc' = q
      BY <1>2, <2>1
    <2>4. QED
      BY <1>2, <2>2, <2>3
  <1>5. FcFollows /\ 1 \in 1..Len(fromFc) /\ fromFc[1].type \in Answering
    BY <1>3, <1>4 DEF Transfer, Answering, Requests
  <1>6. \A i \in 1..Len(toFc) : toFc[i].type \notin Asking /\ toFc[i].type # "CLEAR_ALL"
    BY <1>3, <1>5 DEF OneExchange
  <1>7. \A i \in 1..Len(fromFc') : fromFc'[i].type \notin Answering
    <2> SUFFICES ASSUME NEW i \in 1..Len(fromFc'), fromFc'[i].type \in Answering
                 PROVE  FALSE
      OBVIOUS
    <2>1. i + 1 \in 1..Len(fromFc) /\ fromFc[i + 1].type \in Answering
      BY <1>4
    <2>2. i + 1 = 1
      BY <1>3, <1>5, <2>1 DEF OneExchange
    <2>3. QED
      BY <2>2
  <1>8. \A i \in 1..Len(toFc') :
            \/ toFc'[i].type \notin UploadFrames
            \/ i = Len(toFc) + 1 /\ toFc'[i] = m
    <2> SUFFICES ASSUME NEW i \in 1..Len(toFc'), i # Len(toFc) + 1
                 PROVE  toFc'[i].type \notin UploadFrames
      BY DEF Put
    <2>1. i \in 1..Len(toFc) /\ toFc'[i] = toFc[i]
      BY <1>1 DEF Put
    <2>2. QED
      BY <1>6, <2>1 DEF UploadFrames, Asking
  <1>9. FcFollows'
    BY <1>2, <1>5 DEF FcFollows
  <1>10. OneExchange'
    BY <1>7, <1>8 DEF OneExchange, Asking, UploadFrames
  <1>11. Transfer'
    BY <1>2, <1>7, <1>8, <1>9 DEF Transfer, Answering, Requests, UploadFrames
  <1>12. QED
    BY <1>2, <1>10, <1>11 DEF StoreInv, UploadSucceeded

\* The acknowledgement that ends an upload: the FC has the whole pending route and
\* nothing is under way that would change it.
LEMMA AckStored ==
    ASSUME TypeInv, StoreInv, OnMissionAck
    PROVE  StoreInv'
  <1>1. toFc \in Seq(Frame) /\ fromFc \in Seq(Frame)
    BY DEF TypeInv, LineType
  <1>2. /\ fromFc # << >> /\ Head(fromFc).type \in {"ACK", "CLEAR_ACK"}
        /\ fromFc' = Tail(fromFc) /\ fc' = fc
    BY DEF OnMissionAck, Received
  <1>3. CASE UNCHANGED upload /\ toFc' = toFc
    <2>1. FcFollows => FcFollows'
      BY <1>2, <1>3 DEF FcFollows, upload
    <2>2. QED
      BY <1>2, <1>3, <2>1, KeepsStored DEF upload
  <1>4. CASE LastUploadResult' = "NAK" /\ MissionUploadState' = "IDLE"
    BY <1>4, NoClaim
  <1>5. ASSUME MissionUploadState' = "IDLE", Head(fromFc).type = "CLEAR_ACK", mistaken'
        PROVE  StoreInv'
    BY <1>5, NoClaim
  <1>6. ASSUME MissionUploadState' = "IDLE", overtaken' = overtaken, overtaken
        PROVE  StoreInv'
    BY <1>6, NoClaim
  <1>7. ASSUME MissionUploadState = "ACTIVE", Head(fromFc).n = 0, ~overtaken,
               Head(fromFc).type = "ACK",
               MissionUploadState' = "IDLE", active' = pending,
               toFc' = toFc \/ Send(<<Plain("REQUEST_LIST", 0)>>)
        PROVE  StoreInv'
    <2>1. OneExchange /\ Transfer
      BY <1>7 DEF StoreInv
    <2>2. Head(fromFc) = fromFc[1] /\ 1 \in 1..Len(fromFc)
      BY <1>1, <1>2, Taken
    <2>3. StoredAs(fc.mission, pending)
      BY <1>2, <1>7, <2>1, <2>2 DEF Transfer
    <2>4. fromFc[1].type \in Answering
      BY <1>7, <2>2 DEF Answering
    <2>5. \A i \in 1..Len(toFc) : toFc[i].type \notin UploadFrames
      BY <2>1, <2>2, <2>4 DEF OneExchange, UploadFrames, Asking
    <2>6. PICK m \in Frame : m = Plain("REQUEST_LIST", 0) /\ m.type = "REQUEST_LIST"
      BY PlainIsFrame
    <2>7. toFc' = toFc \/ Put(m)
      BY <1>1, <1>7, <2>6, SentOne
    <2>8. \A i \in 1..Len(toFc') : toFc'[i].type \notin UploadFrames
      <3>1. Len(toFc) \in Nat
        BY <1>1
      <3>2. QED
        BY <2>5, <2>6, <2>7, <3>1 DEF Put, UploadFrames
    <2>9. StaysStored'
      BY <1>2, <1>7, <2>3, <2>8 DEF StaysStored
    <2>10. QED
      BY <1>7, <2>9 DEF StoreInv, UploadSucceeded
  <1>8. CASE /\ MissionUploadState = "ACTIVE" /\ Head(fromFc).n = 0
             /\ MissionUploadState' = "IDLE" /\ active' = pending
             /\ mistaken' = (Head(fromFc).type = "CLEAR_ACK")
             /\ overtaken' = overtaken
             /\ toFc' = toFc \/ Send(<<Plain("REQUEST_LIST", 0)>>)
    BY <1>2, <1>5, <1>6, <1>7, <1>8
  <1>9. QED
    BY <1>3, <1>4, <1>8 DEF OnMissionAck, StartFcMissionReadback

\* A frame that is not of an upload changes no mission of the FC and is not
\* answered as one.
LEMMA FcReads ==
    ASSUME TypeInv, FcStep, Head(toFc).type \notin UploadFrames
    PROVE  /\ fc' = fc
           /\ fromFc' = fromFc \/ \E x \in Frame : Answer(<<x>>) /\ x.type \notin Answering
  <1>1. toFc # << >> /\ Head(toFc) \in Frame
    BY Taken DEF FcStep, TypeInv, LineType
  <1>2. Head(toFc).type \in {"REQUEST_LIST", "REQUEST", "REQUEST_INT", "ACK", "CLEAR_ACK"}
    BY <1>1 DEF Frame, UploadFrames
  <1>3. PICK m \in Frame : m = Head(toFc)
    BY <1>1
  <1>4. m.n \in Nat /\ Len(fc.mission) \in Nat
    BY DEF TypeInv, FcType, Frame
  <1>5. \/ UNCHANGED <<fc, fromFc>>
        \/ fc' = fc /\ Answer(<<Plain("COUNT", Len(fc.mission))>>)
        \/ /\ fc' = fc /\ m.n < Len(fc.mission)
           /\ Answer(<<Message("ITEM", m.n, fc.mission[m.n + 1])>>)
    BY <1>2, <1>3 DEF FcStep
  <1>6. Plain("COUNT", Len(fc.mission)) \in Frame
        /\ Plain("COUNT", Len(fc.mission)).type \notin Answering
    BY <1>4, PlainIsFrame DEF Answering
  <1>7. ASSUME m.n < Len(fc.mission)
        PROVE  /\ Message("ITEM", m.n, fc.mission[m.n + 1]) \in Frame
               /\ Message("ITEM", m.n, fc.mission[m.n + 1]).type \notin Answering
    <2>1. m.n + 1 \in 1..Len(fc.mission)
      BY <1>4, <1>7
    <2>2. fc.mission[m.n + 1] \in Waypoints
      BY <2>1 DEF TypeInv, FcType
    <2>3. QED
      BY <1>4, <2>2, MessageIsFrame DEF Answering
  <1>8. QED
    BY <1>5, <1>6, <1>7

\* An item that fits is the next one of the pending route; the last one makes the
\* mission of the FC equal to it.
LEMMA FcTakesItem ==
    ASSUME TypeInv, FcFollows, NEW m \in Frame, m.type = "ITEM",
           m.wp \in Waypoints, m.n = Len(fc.items),
           m.n < Len(pending), m.wp \in {pending[m.n + 1], Legacy[pending[m.n + 1]]}
    PROVE  /\ m.n + 1 < fc.want /\ fc' = [fc EXCEPT !.items = Append(@, m.wp)]
                /\ pending' = pending => FcFollows'
           /\ m.n + 1 = fc.want => StoredAs(Append(fc.items, m.wp), pending)
  <1>1. /\ fc.items \in Seq(Waypoints) /\ fc.want \in Nat /\ pending \in Seq(Waypoints)
        /\ m.n \in Nat /\ Len(pending) \in Nat
    BY DEF TypeInv, FcType, UploadType, Frame
  <1>2. PICK s \in Seq(Waypoints) : s = Append(fc.items, m.wp)
    BY <1>1, AppendProperties
  <1>3. /\ Len(s) = Len(fc.items) + 1 /\ s[Len(fc.items) + 1] = m.wp
        /\ \A k \in 1..Len(fc.items) : s[k] = fc.items[k]
    BY <1>1, <1>2, AppendProperties
  <1>4. ASSUME fc.want # 0
        PROVE  /\ fc.want = Len(pending)
               /\ \A k \in 1..Len(s) : s[k] \in {pending[k], Legacy[pending[k]]}
    <2>1. /\ fc.want = Len(pending)
          /\ \A k \in 1..Len(fc.items) : fc.items[k] \in {pending[k], Legacy[pending[k]]}
      BY <1>4 DEF FcFollows
    <2>2. \A k \in 1..Len(s) : k \in 1..Len(fc.items) \/ k = m.n + 1
      BY <1>1, <1>3
    <2>3. QED
      BY <1>3, <2>1, <2>2
  <1>5. ASSUME m.n + 1 < fc.want, fc' = [fc EXCEPT !.items = Append(@, m.wp)],
               pending' = pending
        PROVE  FcFollows'
    <2>1. fc'.items = s /\ fc'.want = fc.want
      BY <1>2, <1>5 DEF TypeInv, FcType
    <2>2. fc.want # 0
      BY <1>1, <1>5
    <2>3. Len(s) < fc.want
      BY <1>1, <1>3, <1>5
    <2>4. QED
      BY <1>4, <1>5, <2>1, <2>2, <2>3 DEF FcFollows
  <1>6. ASSUME m.n + 1 = fc.want
        PROVE  StoredAs(Append(fc.items, m.wp), pending)
    <2>1. fc.want # 0
      BY <1>1, <1>6
    <2>2. /\ Len(s) = Len(pending)
          /\ \A k \in 1..Len(s) : s[k] \in {pending[k], Legacy[pending[k]]}
      BY <1>1, <1>3, <1>4, <1>6, <2>1
    <2>3. StoredAs(s, pending)
      BY <2>2 DEF StoredAs
    <2>4. QED
      BY <1>2, <2>3
  <1>7. QED
    BY <1>5, <1>6

\* The question at the head of the line is the only one, and its answer is then
\* the only one on its way.
LEMMA FcExchanges ==
    ASSUME TypeInv, OneExchange, toFc # << >>, Head(toFc).type \in Asking,
           toFc' = Tail(toFc), NEW x \in Frame, Answer(<<x>>)
    PROVE  /\ \A i \in 1..Len(toFc') : toFc'[i].type \notin UploadFrames
           /\ \A i \in 1..Len(fromFc') : fromFc'[i].type \in Answering => fromFc'[i] = x
           /\ OneExchange'
  <1>1. toFc \in Seq(Frame) /\ fromFc \in Seq(Frame) /\ Len(fromFc) \in Nat
    BY DEF TypeInv, LineType
  <1>2. PICK q : q = Tail(toFc)
    OBVIOUS
  <1>3. /\ Head(toFc) = toFc[1] /\ 1 \in 1..Len(toFc)
        /\ \A i \in 1..Len(q) : i + 1 \in 1..Len(toFc) /\ q[i] = toFc[i + 1]
    BY <1>1, <1>2, Taken
  <1>4. toFc' = q
    BY <1>2
  <1>5. /\ Len(fromFc') = Len(fromFc) + 1 /\ fromFc'[Len(fromFc) + 1] = x
        /\ \A i \in 1..Len(fromFc) : fromFc'[i] = fromFc[i]
    BY <1>1, Answered
  <1>6. \A i \in 1..Len(toFc') : toFc'[i].type \notin UploadFrames
    <2> SUFFICES ASSUME NEW i \in 1..Len(q), q[i].type \in UploadFrames
                 PROVE  FALSE
      BY <1>4
    <2>1. i + 1 \in 1..Len(toFc) /\ toFc[i + 1].type \in UploadFrames
      BY <1>3
    <2>2. CASE toFc[i + 1].type \in Asking
      <3>1. i + 1 = 1
        BY <1>3, <2>1, <2>2 DEF OneExchange
      <3>2. QED
        BY <3>1
    <2>3. CASE toFc[i + 1].type = "CLEAR_ALL"
      <3>1. i + 1 < 1
        BY <1>3, <2>1, <2>3 DEF OneExchange
      <3>2. QED
        BY <3>1
    <2>4. QED
      BY <2>1, <2>2, <2>3 DEF UploadFrames, Asking
  <1>7. \A i \in 1..Len(fromFc) : fromFc[i].type \notin Answering
    BY <1>3 DEF OneExchange
  <1>8. \A i \in 1..Len(fromFc') :
            fromFc'[i].type \in Answering => i = Len(fromFc) + 1 /\ fromFc'[i] = x
    <2> SUFFICES ASSUME NEW i \in 1..Len(fromFc'), fromFc'[i].type \in Answering
                 PROVE  i = Len(fromFc) + 1 /\ fromFc'[i] = x
      OBVIOUS
    <2>1. i \in 1..Len(fromFc) \/ i = Len(fromFc) + 1
      BY <1>1, <1>5
    <2>2. i \notin 1..Len(fromFc)
      <3> SUFFICES ASSUME i \in 1..Len(fromFc)
                   PROVE  FALSE
        OBVIOUS
      <3>1. fromFc'[i] = fromFc[i] /\ fromFc[i].type \notin Answering
        BY <1>5, <1>7
      <3>2. QED
        BY <3>1
    <2>3. QED
      BY <1>5, <2>1, <2>2
  <1>9. OneExchange'
    BY <1>6, <1>8 DEF OneExchange, Asking, UploadFrames
  <1>10. QED
    BY <1>6, <1>8, <1>9

LEMMA AnswerStored ==
    ASSUME TypeInv, StoreInv, MissionUploadState = "ACTIVE", ~overtaken, UNCHANGED upload,
           toFc # << >>, Head(toFc).type \in Asking, toFc' = Tail(toFc),
           NEW x \in Frame, Answer(<<x>>), x.type \in Requests => FcFollows',
           x.type = "ACK" /\ x.n = 0 => StoredAs(fc'.mission, pending)
    PROVE  StoreInv'
  <1>1. OneExchange
    BY DEF StoreInv
  <1>2. /\ \A i \in 1..Len(toFc') : toFc'[i].type \notin UploadFrames
        /\ \A i \in 1..Len(fromFc') : fromFc'[i].type \in Answering => fromFc'[i] = x
        /\ OneExchange'
    BY <1>1, FcExchanges
  <1>3. MissionUploadState' = "ACTIVE" /\ pending' = pending
    BY DEF upload
  <1>4. Transfer'
    BY <1>2, <1>3 DEF Transfer, UploadFrames, Answering, Requests
  <1>5. QED
    BY <1>2, <1>3, <1>4 DEF StoreInv, UploadSucceeded

\* A request for an item, of either kind, follows from what the FC then has.
LEMMA RequestAnswers ==
    ASSUME TypeInv, StoreInv, MissionUploadState = "ACTIVE", ~overtaken, UNCHANGED upload,
           toFc # << >>, Head(toFc).type \in Asking, toFc' = Tail(toFc),
           NEW n \in Nat, AsksFor(n), FcFollows'
    PROVE  StoreInv'
  <1>1. ASSUME NEW type \in Requests, Answer(<<Plain(type, n)>>)
        PROVE  StoreInv'
    <2>1. PICK x \in Frame : x = Plain(type, n) /\ x.type \in Requests
      BY <1>1, PlainIsFrame DEF Requests
    <2>2. Answer(<<x>>) /\ x.type # "ACK"
      BY <1>1, <2>1 DEF Requests
    <2>3. QED
      BY <2>1, <2>2, AnswerStored
  <1>2. QED
    BY <1>1 DEF AsksFor, Requests

\* What the FC does during an upload with the frame that it reads.
LEMMA FcActive ==
    ASSUME TypeInv, StoreInv, MissionUploadState = "ACTIVE", ~overtaken, FcStep,
           Head(toFc).type \in UploadFrames
    PROVE  StoreInv'
  <1>1. toFc \in Seq(Frame) /\ fromFc \in Seq(Frame) /\ toFc # << >> /\ toFc' = Tail(toFc)
        /\ UNCHANGED upload
    BY DEF TypeInv, LineType, FcStep
  <1>2. PICK m \in Frame : m = Head(toFc) /\ m = toFc[1] /\ 1 \in 1..Len(toFc)
    BY <1>1, Taken
  <1>3. OneExchange /\ Transfer
    BY DEF StoreInv
  <1>4. m.n \in Nat /\ m.type \in UploadFrames
    BY <1>2 DEF Frame
  <1>5. CASE UNCHANGED <<fc, fromFc>>
    <2>1. FcFollows => FcFollows'
      BY <1>1, <1>5 DEF FcFollows, upload
    <2>2. QED
      BY <1>1, <1>5, <2>1, KeepsStored DEF upload
  <1>6. CASE /\ m.type = "CLEAR_ALL"
             /\ Answer(<<Plain("CLEAR_ACK", 0)>>) \/ Answer(<< >>)
    <2>1. /\ fromFc' \in Seq(Frame)
          /\ \A i \in 1..Len(fromFc') :
                 \/ fromFc'[i].type \notin Answering
                 \/ i + 0 \in 1..Len(fromFc) /\ fromFc'[i] = fromFc[i + 0]
      <3>1. CASE fromFc' = fromFc
        BY <1>1, <3>1
      <3>2. ASSUME NEW x \in Frame, x.type = "CLEAR_ACK", Answer(<<x>>)
            PROVE  /\ fromFc' \in Seq(Frame)
                   /\ \A i \in 1..Len(fromFc') :
                          \/ fromFc'[i].type \notin Answering
                          \/ i + 0 \in 1..Len(fromFc) /\ fromFc'[i] = fromFc[i + 0]
        <4>1. /\ fromFc' \in Seq(Frame) /\ Len(fromFc) \in Nat
              /\ Len(fromFc') = Len(fromFc) + 1 /\ fromFc'[Len(fromFc) + 1] = x
              /\ \A i \in 1..Len(fromFc) : fromFc'[i] = fromFc[i]
          BY <1>1, <3>2, Answered
        <4>2. \A i \in 1..Len(fromFc') : i \in 1..Len(fromFc) \/ i = Len(fromFc) + 1
          BY <4>1
        <4>3. QED
          BY <3>2, <4>1, <4>2 DEF Answering
      <3>3. Plain("CLEAR_ACK", 0) \in Frame /\ Plain("CLEAR_ACK", 0).type = "CLEAR_ACK"
        BY PlainIsFrame
      <3>4. QED
        BY <1>1, <1>6, <3>1, <3>2, <3>3, NoAnswer
    <2>2. PICK q : q = Tail(toFc)
      OBVIOUS
    <2>3. /\ q \in Seq(Frame)
          /\ \A i \in 1..Len(q) : i + 1 \in 1..Len(toFc) /\ q[i] = toFc[i + 1]
      BY <1>1, <2>2, Taken
    <2>4. toFc' = q
      BY <1>1, <2>2
    <2>5. /\ \A i \in 1..Len(toFc') : i + 1 \in 1..Len(toFc) /\ toFc'[i] = toFc[i + 1]
          /\ toFc' \in Seq(Frame) /\ 0 \in 0..1 /\ 1 \in 0..1
      BY <1>1, <2>3, <2>4
    <2>6. OneExchange'
      BY <1>1, <1>3, <2>1, <2>5, ExchangeShifts
    <2>7. \A i \in 1..Len(fromFc) : fromFc[i].type \notin Answering
      BY <1>2, <1>3, <1>6 DEF OneExchange
    <2>8. \A i \in 1..Len(toFc) : toFc[i].type # "ITEM"
      BY <1>2, <1>3, <1>6 DEF OneExchange, Asking
    <2>9. pending' = pending
      BY <1>1 DEF upload
    <2>10. \A i \in 1..Len(fromFc') : fromFc'[i].type \notin Answering
      BY <2>1, <2>7
    <2>11. Transfer'
      BY <1>3, <2>5, <2>8, <2>9, <2>10 DEF Transfer, Answering, Requests
    <2>12. QED
      BY <1>1, <2>6, <2>11 DEF StoreInv, UploadSucceeded, upload
  <1>7. CASE m.type = "COUNT" /\ m.n = 0 /\ Holds(<< >>) /\ Answer(<<Plain("ACK", 0)>>)
    <2>1. pending \in Seq(Waypoints) /\ Len(pending) = 0
      BY <1>2, <1>3, <1>7 DEF Transfer, TypeInv, UploadType
    <2>2. StoredAs(fc'.mission, pending)
      <3>1. fc'.mission = << >>
        BY <1>7 DEF Holds, TypeInv, FcType
      <3>2. QED
        BY <2>1, <3>1 DEF StoredAs
    <2>3. PICK x \in Frame : x = Plain("ACK", 0) /\ x.type = "ACK"
      BY PlainIsFrame
    <2>4. Answer(<<x>>) /\ Head(toFc).type \in Asking
      BY <1>2, <1>7, <2>3 DEF Asking
    <2>5. QED
      BY <1>1, <2>2, <2>3, <2>4, AnswerStored DEF Requests
  <1>8. CASE /\ m.type = "COUNT" /\ m.n # 0
             /\ fc' = [fc EXCEPT !.items = << >>, !.want = m.n]
             /\ AsksFor(0)
    <2>1. m.n = Len(pending)
      BY <1>2, <1>3, <1>8 DEF Transfer
    <2>2. fc'.items = << >> /\ fc'.want = m.n
      BY <1>8 DEF TypeInv, FcType
    <2>3. pending' = pending
      BY <1>1 DEF upload
    <2>4. Len(fc'.items) = 0
      BY <2>2
    <2>5. FcFollows'
      BY <1>4, <1>8, <2>1, <2>2, <2>3, <2>4 DEF FcFollows
    <2>6. Head(toFc).type \in Asking
      BY <1>2, <1>8 DEF Asking
    <2>7. QED
      BY <1>1, <1>8, <2>5, <2>6, RequestAnswers
  <1>9. ASSUME m.type = "ITEM"
        PROVE  FcFollows /\ m.wp \in Waypoints /\ m.n < Len(pending)
               /\ m.wp \in {pending[m.n + 1], Legacy[pending[m.n + 1]]}
               /\ Head(toFc).type \in Asking
    BY <1>2, <1>3, <1>9 DEF Transfer, TypeInv, LineType, Asking
  <1>10. CASE /\ m.type = "ITEM" /\ m.n = Len(fc.items) /\ m.n + 1 < fc.want
              /\ fc' = [fc EXCEPT !.items = Append(@, m.wp)]
              /\ AsksFor(m.n + 1)
    <2>1. FcFollows'
      BY <1>1, <1>9, <1>10, FcTakesItem DEF upload
    <2>2. m.n + 1 \in Nat
      BY <1>4
    <2>3. QED
      BY <1>1, <1>9, <1>10, <2>1, <2>2, RequestAnswers
  <1>11. CASE /\ m.type = "ITEM" /\ m.n = Len(fc.items) /\ m.n + 1 = fc.want
              /\ Holds(Append(fc.items, m.wp)) /\ Answer(<<Plain("ACK", 0)>>)
    <2>1. StoredAs(Append(fc.items, m.wp), pending)
      BY <1>9, <1>11, FcTakesItem
    <2>2. StoredAs(fc'.mission, pending)
      <3>1. fc'.mission = Append(fc.items, m.wp)
        BY <1>11 DEF Holds, TypeInv, FcType
      <3>2. QED
        BY <2>1, <3>1
    <2>3. PICK x \in Frame : x = Plain("ACK", 0) /\ x.type = "ACK"
      BY PlainIsFrame
    <2>4. Answer(<<x>>)
      BY <1>11, <2>3
    <2>5. QED
      BY <1>1, <1>9, <1>11, <2>2, <2>3, <2>4, AnswerStored DEF Requests
  <1>12. \/ UNCHANGED <<fc, fromFc>>
         \/ /\ m.type = "CLEAR_ALL"
            /\ Answer(<<Plain("CLEAR_ACK", 0)>>) \/ Answer(<< >>)
         \/ m.type = "COUNT" /\ m.n = 0 /\ Holds(<< >>) /\ Answer(<<Plain("ACK", 0)>>)
         \/ /\ m.type = "COUNT" /\ m.n # 0
            /\ fc' = [fc EXCEPT !.items = << >>, !.want = m.n]
            /\ AsksFor(0)
         \/ /\ m.type = "ITEM" /\ m.n = Len(fc.items) /\ m.n + 1 < fc.want
            /\ fc' = [fc EXCEPT !.items = Append(@, m.wp)]
            /\ AsksFor(m.n + 1)
         \/ /\ m.type = "ITEM" /\ m.n = Len(fc.items) /\ m.n + 1 = fc.want
            /\ Holds(Append(fc.items, m.wp)) /\ Answer(<<Plain("ACK", 0)>>)
    BY <1>2, <1>4 DEF FcStep, UploadFrames
  <1>13. QED
    BY <1>5, <1>6, <1>7, <1>8, <1>10, <1>11, <1>12

LEMMA FcStored ==
    ASSUME TypeInv, StoreInv, FcStep
    PROVE  StoreInv'
  <1>1. toFc \in Seq(Frame) /\ toFc # << >> /\ toFc' = Tail(toFc) /\ UNCHANGED upload
    BY DEF TypeInv, LineType, FcStep
  <1>2. CASE Head(toFc).type \notin UploadFrames
    <2>1. fc' = fc
          /\ (fromFc' = fromFc \/ \E x \in Frame : Answer(<<x>>) /\ x.type \notin Answering)
      BY <1>2, FcReads
    <2>2. FcFollows => FcFollows'
      BY <1>1, <2>1 DEF FcFollows, upload
    <2>3. QED
      BY <1>1, <2>1, <2>2, KeepsStored DEF upload
  <1>3. CASE /\ Head(toFc).type \in UploadFrames
             /\ MissionUploadState = "ACTIVE" /\ ~overtaken
    BY <1>3, FcActive
  <1>4. CASE /\ Head(toFc).type \in UploadFrames
             /\ MissionUploadState # "ACTIVE" \/ overtaken
    <2>1. Head(toFc) = toFc[1] /\ 1 \in 1..Len(toFc)
      BY <1>1, Taken
    <2>2. ~(UploadSucceeded /\ ~mistaken /\ ~overtaken)
      BY <1>4, <2>1 DEF StoreInv, StaysStored
    <2>3. QED
      BY <1>1, <1>4, <2>2, NoClaim DEF upload, UploadSucceeded
  <1>5. QED
    BY <1>2, <1>3, <1>4

LEMMA RefusalStored ==
    ASSUME TypeInv, StoreInv, FcRefuses
    PROVE  StoreInv'
  <1>1. /\ toFc \in Seq(Frame) /\ toFc # << >> /\ toFc' = Tail(toFc) /\ UNCHANGED upload
        /\ Head(toFc).type = "ITEM" /\ Answer(<<Plain("ACK", 1)>>)
    BY DEF FcRefuses, TypeInv, LineType
  <1>2. CASE MissionUploadState = "ACTIVE" /\ ~overtaken
    <2>1. PICK x \in Frame : x = Plain("ACK", 1) /\ x.type = "ACK" /\ x.n = 1
      BY PlainIsFrame
    <2>2. Answer(<<x>>) /\ Head(toFc).type \in Asking
      BY <1>1, <2>1 DEF Asking
    <2>3. QED
      BY <1>1, <1>2, <2>1, <2>2, AnswerStored DEF Requests
  <1>3. CASE MissionUploadState # "ACTIVE" \/ overtaken
    <2>1. Head(toFc) = toFc[1] /\ 1 \in 1..Len(toFc)
      BY <1>1, Taken
    <2>2. ~(UploadSucceeded /\ ~mistaken /\ ~overtaken)
      BY <1>1, <2>1 DEF StoreInv, StaysStored, UploadFrames
    <2>3. QED
      BY <1>1, <1>3, <2>2, NoClaim DEF upload, UploadSucceeded
  <1>4. QED
    BY <1>2, <1>3

\* The steps of a readback and of the link leave the FC and the upload alone.
LEMMA ReadbackStored ==
    ASSUME TypeInv, StoreInv, fc' = fc,
           UNCHANGED <<MissionUploadState, LastUploadResult, active, pending>>,
           UNCHANGED <<mistaken, overtaken>>,
           fromFc' = fromFc \/ fromFc' = << >> \/ (fromFc # << >> /\ fromFc' = Tail(fromFc)),
           \/ toFc' = toFc \/ toFc' = << >> \/ (toFc # << >> /\ toFc' = Tail(toFc))
           \/ \E type \in {"REQUEST_LIST", "REQUEST_INT", "ACK"}, n \in Nat :
                  Send(<<Plain(type, n)>>) \/ Put(Plain(type, n))
    PROVE  StoreInv'
  <1>1. FcFollows => FcFollows'
    BY DEF FcFollows
  <1>2. ASSUME NEW type \in {"REQUEST_LIST", "REQUEST_INT", "ACK"}, NEW n \in Nat,
               Send(<<Plain(type, n)>>) \/ Put(Plain(type, n))
        PROVE  toFc' = toFc \/ \E m \in Frame : Put(m) /\ m.type \notin UploadFrames
    <2>1. PICK m \in Frame : m = Plain(type, n) /\ m.type \notin UploadFrames
      BY PlainIsFrame DEF UploadFrames
    <2>2. toFc' = toFc \/ Put(m)
      BY <1>2, <2>1, SentOne DEF TypeInv, LineType
    <2>3. QED
      BY <2>1, <2>2
  <1>3. \/ toFc' = toFc \/ toFc' = << >> \/ (toFc # << >> /\ toFc' = Tail(toFc))
        \/ \E m \in Frame : Put(m) /\ m.type \notin UploadFrames
    BY <1>2
  <1>4. QED
    BY <1>1, <1>3, KeepsStored

LEMMA ConnectStored ==
    ASSUME TypeInv, StoreInv, NEW before, Connect(before, toFc), fc' = fc,
           UNCHANGED <<MissionUploadState, LastUploadResult, active, pending>>,
           UNCHANGED <<mistaken, overtaken>>,
           fromFc' = fromFc \/ fromFc' = << >>
    PROVE  StoreInv'
  <1>1. toFc' = toFc \/ Put(Plain("REQUEST_LIST", 0))
    BY ConnectCases
  <1>2. 0 \in Nat /\ "REQUEST_LIST" \in {"REQUEST_LIST", "REQUEST_INT", "ACK"}
    OBVIOUS
  <1>3. QED
    BY <1>1, <1>2, ReadbackStored

LEMMA RequestStored ==
    ASSUME TypeInv, StoreInv, OnMissionRequestInt \/ OnMissionRequest
    PROVE  StoreInv'
  <1>1. /\ fromFc # << >> /\ fromFc' = Tail(fromFc) /\ fc' = fc /\ UNCHANGED upload
        /\ toFc \in Seq(Frame) /\ fromFc \in Seq(Frame)
    BY DEF OnMissionRequestInt, OnMissionRequest, Received, TypeInv, LineType
  <1>2. Head(fromFc) \in Frame
    BY <1>1, Taken
  <1>3. PICK n \in Nat : n = Head(fromFc).n
    BY <1>2 DEF Frame
  <1>4. CASE toFc' = toFc
    BY <1>1, <1>4, ReadbackStored DEF upload
  <1>5. ASSUME MissionUploadState = "ACTIVE", n < Len(pending),
               NEW wp \in {pending[n + 1], Legacy[pending[n + 1]]},
               Send(<<Message("ITEM", n, wp)>>)
        PROVE  StoreInv'
    <2>1. n + 1 \in 1..Len(pending)
      BY <1>5 DEF TypeInv, UploadType
    <2>2. wp \in Waypoints
      BY <1>5, <2>1, Limits DEF TypeInv, UploadType
    <2>3. PICK m \in Frame : /\ m = Message("ITEM", n, wp)
                             /\ m.type = "ITEM" /\ m.n = n /\ m.wp = wp
      BY <2>2, MessageIsFrame
    <2>4. toFc' = toFc \/ Put(m)
      BY <1>1, <1>5, <2>3, SentOne
    <2>5. CASE overtaken
      BY <1>1, <1>5, <2>5, NoClaim DEF upload
    <2>6. QED
      BY <1>3, <1>4, <1>5, <2>3, <2>4, <2>5, ItemStored
  <1>6. QED
    BY <1>3, <1>4, <1>5 DEF OnMissionRequestInt, OnMissionRequest

LEMMA StoreStep ==
    ASSUME TypeInv, TypeInv', StoreInv, [Next]_vars
    PROVE  StoreInv'
  <1>1. CASE RouteUpdate
    <2>1. MissionUploadState' = "CLEARING"
      BY <1>1 DEF RouteUpdate, StartMissionUpload
    <2>2. QED
      BY <2>1, NoClaim
  <1>2. CASE CheckMissionUploadTimeout
    BY <1>2, TimerStored
  <1>3. CASE MissionQuery \/ RetryReadback
    BY <1>3, ReadbackStored DEF MissionQuery, RetryReadback, upload
  <1>4. CASE Restart
    BY <1>4, NoClaim DEF Restart
  <1>5. CASE \E resume : LinkAlive(resume)
    BY <1>5, ConnectStored DEF LinkAlive
  <1>6. CASE Reconnect
    BY <1>6, ConnectStored DEF Reconnect, upload
  <1>7. CASE \E ok \in BOOLEAN : ProcessSerialReconnectCmd(ok)
    <2>1. PICK ok \in BOOLEAN : ProcessSerialReconnectCmd(ok)
      BY <1>7
    <2>2. /\ fromFc' = << >> /\ fc' = fc
          /\ UNCHANGED <<MissionUploadState, LastUploadResult, active, pending,
                         mistaken, overtaken>>
      BY <2>1 DEF ProcessSerialReconnectCmd, upload
    <2>3. CASE ok
      BY <2>1, <2>2, <2>3, ConnectStored DEF ProcessSerialReconnectCmd
    <2>4. CASE ~ok
      BY <2>1, <2>2, <2>4, ReadbackStored DEF ProcessSerialReconnectCmd
    <2>5. QED
      BY <2>3, <2>4
  <1>8. CASE \/ CheckMissionDownloadTimeout \/ LinkStale \/ ReadError \/ ReconnectFails
             \/ LoseToFc \/ LoseFromFc \/ UNCHANGED vars
    BY <1>8, ReadbackStored DEF CheckMissionDownloadTimeout, LinkStale, ReadError,
       ReconnectFails, LoseToFc, LoseFromFc, vars, upload
  <1>9. CASE OnMissionRequestInt \/ OnMissionRequest
    BY <1>9, RequestStored
  <1>10. CASE OnMissionAck
    BY <1>10, AckStored
  <1>11. CASE OnMissionCount
    BY <1>11, ReadbackStored DEF OnMissionCount, Received, upload
  <1>12. CASE OnMissionItem
    <2>1. MissionDownloadSeq + 1 \in Nat
      BY DEF TypeInv, DownloadType
    <2>2. /\ \/ toFc' = toFc
             \/ Send(<<Plain("ACK", 0)>>)
             \/ Send(<<Plain("REQUEST_INT", MissionDownloadSeq + 1)>>)
          /\ fromFc # << >> /\ fromFc' = Tail(fromFc) /\ fc' = fc
          /\ UNCHANGED <<MissionUploadState, LastUploadResult, active, pending,
                         mistaken, overtaken>>
      BY <1>12 DEF OnMissionItem, Received, upload
    <2>3. QED
      BY <2>1, <2>2, ReadbackStored
  <1>13. CASE FcStep
    BY <1>13, FcStored
  <1>14. CASE FcRefuses
    BY <1>14, RefusalStored
  <1>15. CASE FcDies \/ FcReboots
    <2>1. /\ fc'.mission = fc.mission /\ UNCHANGED <<toFc, fromFc, upload>>
          /\ fc'.want = 0 \/ (fc'.want = fc.want /\ fc'.items = fc.items)
      BY <1>15 DEF FcDies, FcReboots, TypeInv, FcType
    <2>2. FcFollows => FcFollows'
      BY <2>1 DEF FcFollows, upload
    <2>3. QED
      BY <2>1, <2>2, KeepsStored DEF upload
  <1>16. QED
    BY <1>1, <1>2, <1>3, <1>4, <1>5, <1>6, <1>7, <1>8, <1>9, <1>10, <1>11, <1>12,
       <1>13, <1>14, <1>15 DEF Next, Receive

LEMMA StoreInit == Init => StoreInv
  BY DEF Init, StoreInv, UploadSucceeded

\* Whatever is lost, late, refused, broken or restarted, whichever request the FC
\* uses for an item and whether or not it acknowledges MISSION_CLEAR_ALL: a success
\* that the bridge reports means that the FC holds the route the bridge calls
\* active, if it was not the answer to MISSION_CLEAR_ALL that ended the upload and
\* no attempt of it began amid the messages of an earlier one (MISSION_REQUEST,
\* MISSION_REQUEST_INT and MISSION_ACK handlers, CheckMissionUploadTimeout).  The
\* invariant says that such an upload has one question or one answer under way,
\* and that what the FC has taken in so far is a beginning of the route; without
\* it the acknowledgement could be that of an earlier attempt.  No assumption is
\* made about the FC: both premises are about what happened in this upload.
THEOREM SuccessStored == Spec => []SuccessMeansStored
  <1>1. TypeInv /\ TypeInv' /\ StoreInv /\ [Next]_vars => StoreInv'
    BY StoreStep
  <1>2. StoreInv => SuccessMeansStored
    BY DEF StoreInv, StaysStored, SuccessMeansStored
  <1>3. QED
    BY TypeAlways, StoreInit, <1>1, <1>2, PTL DEF Spec
==============================================================================
