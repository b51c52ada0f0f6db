---------------------------- MODULE LoraTdmProofs ----------------------------
(****************************************************************************)
(* lora_tdm_app, for every value of its limits.                             *)
(*                                                                          *)
(* The link: LinkInv ties the number of silent cycles to the time they can  *)
(* have taken.  The readback: RouteInv ties the page being sent to the      *)
(* waypoints sent before it.  The feedback: FeedbackInv says what every     *)
(* status in the pipe and every command on its way still stands for.        *)
(****************************************************************************)
EXTENDS LoraTdm, SequenceTheorems, TLAPS

------------------------------------------------------------------------------
(* The link *)

\* The parts of TypeOK the link's arithmetic rests on.
LinkType ==
    /\ NoAckCount \in Nat
    /\ ackAge \in Nat
    /\ quiet \in Nat
    /\ LinkState \in {DISCONNECTED, CONNECTED, DEGRADED}

\* A counter that is not saturated accounts for the silence, up to the cycle
\* in which the last ACK came.
SilenceCounted ==
    /\ NoAckCount < NoAckLimit => quiet =< 3 * NoAckCount + 3
    /\ heard /\ ~resetSince /\ NoAckCount < NoAckLimit =>
           ackAge =< 3 * NoAckCount + 3

\* CONNECTED is never kept beyond the threshold.
ConnectedIsBelow == LinkState = CONNECTED => NoAckCount < LINK_LOSS_THRESHOLD

\* An ACK of this cycle is no older than the window.
AckIsNow ==
    phase = "rx" /\ AckReceivedThisCycle =>
        heard /\ ~resetSince /\ NoAckCount = 0 /\ quiet = 0 /\ ackAge = 0

LinkInv == LinkType /\ SilenceCounted /\ ConnectedIsBelow /\ AckIsNow /\ LossIsReported

\* Counting up to a limit stays in the numbers and never overtakes.
LEMMA UpToBounds ==
    ASSUME NEW limit \in Nat, NEW n \in Nat
    PROVE  UpTo(limit, n) \in Nat /\ UpTo(limit, n) =< n
                                  /\ UpTo(limit, n) =< limit
                                  /\ (UpTo(limit, n) < limit => UpTo(limit, n) = n)
    BY DEF UpTo

LEMMA LimitsAreNumbers ==
    /\ OldestAck \in Nat /\ LongQuiet \in Nat /\ Sleep = 2
    /\ LongQuiet = 3 * LINK_LOSS_THRESHOLD + 1
    /\ OldestAck = LINK_TIMEOUT + 4
    /\ 3 * LINK_LOSS_THRESHOLD < LINK_TIMEOUT
    /\ LINK_LOSS_THRESHOLD =< NoAckLimit
    BY LinkAssumption DEF OldestAck, LongQuiet, Sleep, CycleTicks

LEMMA LinkInit == Init => LinkInv
    BY LinkAssumption DEF Init, LinkInv, LinkType, SilenceCounted,
       ConnectedIsBelow, AckIsNow, LossIsReported, DISCONNECTED, CONNECTED,
       DEGRADED, Sleep

\* The step that matters: one more silent cycle takes three ticks at most.
LEMMA CycleKeepsLink ==
    ASSUME LinkInv, NEW listened \in 0..1, EndOfCycle(listened)
    PROVE  LinkInv'
<1> DEFINE T == LINK_LOSS_THRESHOLD
<1>1. /\ NoAckCount \in Nat /\ ackAge \in Nat /\ quiet \in Nat
      /\ T \in Nat /\ T > 0 /\ LINK_TIMEOUT \in Nat /\ NoAckLimit \in Nat
      /\ listened \in Nat /\ listened =< 1
    BY LinkAssumption DEF LinkInv, LinkType
<1>2. /\ NoAckCount' = IF AckReceivedThisCycle THEN NoAckCount
                                               ELSE UpTo(NoAckLimit, NoAckCount + 1)
      /\ LinkState' = NewLinkState(Elapsed(listened), NoAckCount')
      /\ ackAge' = IF heard THEN UpTo(OldestAck, ackAge + listened + 2) ELSE 0
      /\ quiet' = UpTo(LongQuiet, quiet + listened + 2)
      /\ heard' = heard /\ wrapped' = wrapped /\ resetSince' = resetSince
      /\ phase = "rx" /\ phase' = "drain"
    BY DEF EndOfCycle, Sleep
<1>3. /\ UpTo(NoAckLimit, NoAckCount + 1) \in Nat
      /\ UpTo(NoAckLimit, NoAckCount + 1) < NoAckLimit
            => UpTo(NoAckLimit, NoAckCount + 1) = NoAckCount + 1
    BY <1>1, UpToBounds
<1>4. /\ UpTo(LongQuiet, quiet + listened + 2) \in Nat
      /\ UpTo(LongQuiet, quiet + listened + 2) =< quiet + listened + 2
    BY <1>1, UpToBounds, LimitsAreNumbers
<1>5. /\ UpTo(OldestAck, ackAge + listened + 2) \in Nat
      /\ UpTo(OldestAck, ackAge + listened + 2) =< ackAge + listened + 2
    BY <1>1, UpToBounds, LimitsAreNumbers
<1>6. LinkType'
    BY <1>1, <1>2, <1>3, <1>4, <1>5
       DEF LinkType, NewLinkState, DISCONNECTED, CONNECTED, DEGRADED
<1>7. SilenceCounted'
    <2>1. CASE AckReceivedThisCycle
        BY <1>1, <1>2, <1>4, <1>5, <2>1 DEF SilenceCounted, LinkInv, AckIsNow
    <2>2. CASE ~AckReceivedThisCycle
        BY <1>1, <1>2, <1>3, <1>4, <1>5, <2>2 DEF SilenceCounted, LinkInv
    <2> QED BY <2>1, <2>2
<1>8. ConnectedIsBelow'
    BY <1>1, <1>2, <1>3, <1>6 DEF ConnectedIsBelow, NewLinkState, TooSilent,
       LinkType, DISCONNECTED, CONNECTED, DEGRADED
<1>9. AckIsNow'
    BY <1>2 DEF AckIsNow
<1>10. LossIsReported'
    BY <1>1, <1>2, <1>5 DEF LossIsReported, NewLinkState, Elapsed, Sleep
<1> QED BY <1>6, <1>7, <1>8, <1>9, <1>10 DEF LinkInv

LEMMA LinkStep == LinkInv /\ [Next]_vars => LinkInv'
<1> SUFFICES ASSUME LinkInv, [Next]_vars PROVE LinkInv'
    OBVIOUS
<1> USE DEF LinkInv, LinkType, SilenceCounted, ConnectedIsBelow, AckIsNow,
            LossIsReported
<1>1. CASE LoadState
    <2>1. /\ quiet' = UpTo(LongQuiet, 2) /\ phase' = "drain"
          /\ UNCHANGED <<NoAckCount, LinkState, heard, ackAge, wrapped, resetSince>>
        BY <1>1 DEF LoadState, Sleep
    <2>2. quiet' \in Nat /\ quiet' =< 2
        BY <2>1, UpToBounds, LimitsAreNumbers
    <2> QED BY <2>1, <2>2
<1>2. CASE Restart
    BY <1>2, LinkAssumption DEF Restart, Cleared, DISCONNECTED, CONNECTED,
       DEGRADED, Sleep
<1>3. CASE UplinkStatus
    BY <1>3 DEF UplinkStatus, link
<1>4. CASE \E n \in RouteCounts : ProcessRouteSnapshot(n)
    BY <1>4 DEF ProcessRouteSnapshot, link
<1>5. CASE \E v2, saved \in BOOLEAN : SetDownlinkProtocol(v2, saved)
    BY <1>5 DEF SetDownlinkProtocol, link
<1>6. CASE ResetCounters
    BY <1>6, LinkAssumption DEF ResetCounters
<1>7. CASE \E opened \in BOOLEAN : Reopen(opened)
    BY <1>7 DEF Reopen, link
<1>8. CASE \E written \in BOOLEAN : RunTx(written)
    BY <1>8 DEF RunTx, OpenWindow, link
<1>9. CASE ReceiveAck
    BY <1>9, LinkAssumption DEF ReceiveAck, Sleep
<1>10. CASE ReceiveBadCommand
    BY <1>10 DEF ReceiveBadCommand, link
<1>11. CASE ReadError
    BY <1>11 DEF ReadError, link
<1>12. CASE \E n \in {newest, newest + 1} : ReceiveCommand(n)
    BY <1>12 DEF ReceiveCommand, link
<1>13. CASE \E listened \in 0..1 : EndOfCycle(listened)
    BY <1>13, CycleKeepsLink
<1>14. CASE ClockWraps
    BY <1>14 DEF ClockWraps
<1>15. CASE \E answer \in Answers, recorded \in BOOLEAN : UplinkHandles(answer, recorded)
    BY <1>15 DEF UplinkHandles, link
<1>16. CASE UplinkExecuted \/ UplinkRepeats
    BY <1>16 DEF UplinkExecuted, UplinkRepeats, link
<1>17. CASE UNCHANGED vars
    BY <1>17 DEF vars, link
<1> QED BY <1>1, <1>2, <1>3, <1>4, <1>5, <1>6, <1>7, <1>8, <1>9, <1>10, <1>11,
           <1>12, <1>13, <1>14, <1>15, <1>16, <1>17 DEF Next

LEMMA LinkAlways == Spec => []LinkInv
    BY LinkInit, LinkStep, PTL DEF Spec

\* SilenceIsNoticed holds for every threshold and counter width: a link
\* judged CONNECTED has been silent for less than the threshold's cycles, in
\* spite of clock wraps, counter resets and restarts (UpdateLinkState).
THEOREM SilenceNoticed == Spec => []SilenceIsNoticed
<1>1. LinkInv => SilenceIsNoticed
    BY LinkAssumption DEF LinkInv, LinkType, SilenceCounted, ConnectedIsBelow,
       SilenceIsNoticed, CycleTicks
<1> QED BY <1>1, LinkAlways, PTL

\* LossIsReported holds for every timeout (UpdateLinkState).
THEOREM LossReported == Spec => []LossIsReported
<1>1. LinkInv => LossIsReported
    BY DEF LinkInv
<1> QED BY <1>1, LinkAlways, PTL

\* DegradedBeforeLost holds for every threshold and timeout that satisfy
\* LinkAssumption, 30 cycles and 5 s among them: three ticks per cycle leave
\* room for DEGRADED (BL-88).
THEOREM WarnedBeforeLost == Spec => DegradedBeforeLost
<1> DEFINE Warned == heard' /\ LinkState' = DISCONNECTED /\ ~resetSince =>
                         LinkState \in {DEGRADED, DISCONNECTED}
<1>1. ASSUME LinkInv, [Next]_vars PROVE [Warned]_vars
    <2>1. CASE \E listened \in 0..1 : EndOfCycle(listened)
        <3>1. PICK listened \in 0..1 : EndOfCycle(listened)
            BY <2>1
        <3>2. SUFFICES ASSUME heard, LinkState' = DISCONNECTED, ~resetSince,
                              LinkState = CONNECTED
                       PROVE  FALSE
            BY <1>1, <3>1 DEF EndOfCycle, LinkInv, LinkType
        <3>3. NoAckCount < LINK_LOSS_THRESHOLD /\ ackAge =< 3 * NoAckCount + 3
            BY <1>1, <3>2, LinkAssumption DEF LinkInv, LinkType, SilenceCounted,
               ConnectedIsBelow
        <3>4. ackAge + listened =< LINK_TIMEOUT
            BY <1>1, <3>3, LinkAssumption, LimitsAreNumbers DEF LinkInv, LinkType
        <3>5. Elapsed(listened) =< LINK_TIMEOUT
            BY <3>4, LinkAssumption DEF Elapsed
        <3>6. NewLinkState(Elapsed(listened), NoAckCount') # DISCONNECTED
            BY <3>5, <1>1, LinkAssumption DEF NewLinkState, DISCONNECTED,
               CONNECTED, DEGRADED, Elapsed, LinkInv, LinkType
        <3> QED BY <3>1, <3>2, <3>6 DEF EndOfCycle
    <2>2. CASE Restart
        BY <2>2 DEF Restart, Cleared
    <2>3. CASE LinkState' = LinkState
        BY <2>3
    <2>4. LinkState' = LinkState \/ Restart \/ \E listened \in 0..1 : EndOfCycle(listened)
        BY <1>1 DEF Next, vars, link, LoadState, UplinkStatus,
           ProcessRouteSnapshot, SetDownlinkProtocol, ResetCounters, Reopen,
           RunTx, ReceiveAck, ReceiveBadCommand, ReadError, ReceiveCommand,
           ClockWraps, UplinkHandles, UplinkExecuted, UplinkRepeats
    <2> QED BY <2>1, <2>2, <2>3, <2>4
<1> QED BY <1>1, LinkAlways, PTL DEF Spec, DegradedBeforeLost

------------------------------------------------------------------------------
(* The readback *)

RouteState == [pending : BOOLEAN, count : 0..ROUTE_MAX_WAYPOINTS, page : Nat,
               pages : Nat, sent : Seq(Nat)]

\* The page being sent is one of the snapshot's, and the pages before it are
\* full.
RouteInv ==
    /\ route \in RouteState
    /\ route.pages = TotalPages(route.count)
    /\ route.pending => route.page < route.pages
    /\ EveryWaypointOnce

\* Rounding up: the last page has a waypoint, and is the last one needed.
LEMMA PagesCoverRoute ==
    ASSUME NEW count \in Nat
    PROVE  /\ TotalPages(count) \in Nat
           /\ TotalPages(count) = 0 <=> count = 0
           /\ count > 0 =>
                /\ (TotalPages(count) - 1) * WAYPOINTS_PER_PAGE < count
                /\ count =< TotalPages(count) * WAYPOINTS_PER_PAGE
<1> DEFINE W == WAYPOINTS_PER_PAGE
           n == count + W - 1
           p == n \div W
<1>1. W \in Nat \ {0}
    BY RouteAssumption
<1>2. CASE count = 0
    BY <1>2 DEF TotalPages
<1>3. CASE count > 0
    <2>1. n \in Nat /\ n >= W
        BY <1>1, <1>3
    <2>2. p \in Nat /\ n % W \in 0..(W - 1) /\ n = W * p + (n % W)
        <3> HIDE DEF n, W
        <3> QED BY <1>1, <2>1
    <2>3. TotalPages(count) = p
        BY <1>3 DEF TotalPages
    <2> DEFINE m == W * p
               r == n % W
    <2>4. m \in Int /\ (p - 1) * W = m - W /\ p * W = m
        <3> HIDE DEF p
        <3> QED BY <1>1, <2>2
    <2>5. count + W - 1 = m + r /\ r \in Nat /\ r =< W - 1
        <3> HIDE DEF p
        <3> QED BY <1>1, <2>2
    <2>6. m - W < count /\ count =< m
        <3> HIDE DEF m, r, W
        <3> QED BY <1>1, <2>4, <2>5
    <2>7. p # 0
        <3>1. p = 0 => m = 0
            <4> HIDE DEF p
            <4> QED BY <1>1
        <3> HIDE DEF m, p
        <3> QED BY <3>1, <2>6, <1>3
    <2> HIDE DEF m, p, W
    <2> QED BY <1>3, <2>2, <2>3, <2>4, <2>6, <2>7 DEF W
<1> QED BY <1>2, <1>3

\* Pages before the last one start, and end, inside the route.
LEMMA PageStarts ==
    ASSUME NEW count \in Nat, NEW page \in Nat, page < TotalPages(count)
    PROVE  page * WAYPOINTS_PER_PAGE \in Nat /\ page * WAYPOINTS_PER_PAGE < count
<1> DEFINE W == WAYPOINTS_PER_PAGE
           P == TotalPages(count)
<1>1. W \in Nat \ {0} /\ P \in Nat
    BY RouteAssumption, PagesCoverRoute
<1>2. (P - 1) * W < count
    BY PagesCoverRoute
<1>3. page * W =< (P - 1) * W
    <2>1. page =< P - 1
        BY <1>1
    <2> HIDE DEF P, W
    <2> QED BY <1>1, <2>1
<1>4. page * W \in Nat /\ (P - 1) * W \in Int
    BY <1>1
<1> HIDE DEF P, W
<1> QED BY <1>2, <1>3, <1>4 DEF W

\* One more page after those sent.
LEMMA PageExtends ==
    ASSUME NEW m \in Nat, NEW k \in Nat,
           NEW s \in Seq(Nat), s = [i \in 1..m |-> i],
           NEW t \in Seq(Nat), t = [i \in 1..k |-> m + i]
    PROVE  /\ s \o t \in Seq(Nat)
           /\ Len(s \o t) = m + k
           /\ s \o t = [i \in 1..(m + k) |-> i]
<1>1. Len(s) = m /\ Len(t) = k
    OBVIOUS
<1>2. s \o t \in Seq(Nat) /\ Len(s \o t) = m + k
    BY <1>1
<1>3. \A i \in 1..(m + k) : (s \o t)[i] = i
    BY <1>1
<1> QED BY <1>2, <1>3

\* What sending a page leaves of the readback's state.
LEMMA RouteEnds ==
    ASSUME NEW q \in Seq(Nat), route \in RouteState,
           route' = [route EXCEPT !.pending = FALSE, !.page = 0, !.sent = q]
    PROVE  /\ route' \in RouteState /\ route'.sent = q /\ route'.pending = FALSE
           /\ route'.count = route.count /\ route'.pages = route.pages
    BY DEF RouteState

LEMMA RouteGoesOn ==
    ASSUME NEW q \in Seq(Nat), NEW p \in Nat, route \in RouteState, route.pending,
           route' = [route EXCEPT !.page = p, !.sent = q]
    PROVE  /\ route' \in RouteState /\ route'.sent = q /\ route'.pending = TRUE
           /\ route'.page = p
           /\ route'.count = route.count /\ route'.pages = route.pages
    BY DEF RouteState

LEMMA PageSentKeepsRoute ==
    ASSUME RouteInv, route.pending, route' = PageSent
    PROVE  RouteInv'
<1> DEFINE W == WAYPOINTS_PER_PAGE
           count == route.count
           page == route.page
           P == TotalPages(count)
           start == page * W
           k == UpTo(W, count - start)
<1>1. /\ W \in Nat \ {0} /\ count \in Nat /\ page \in Nat /\ P \in Nat
      /\ page < P /\ route.pages = P
    BY RouteAssumption, PagesCoverRoute DEF RouteInv, RouteState
<1>2. start \in Nat /\ start < count
    BY <1>1, PageStarts
<1>3. route.sent \in Seq(Nat) /\ route.sent = [i \in 1..start |-> i]
    BY DEF RouteInv, EveryWaypointOnce, RouteState
<1>4. k \in Nat
    <2> HIDE DEF start, W, count
    <2> QED BY <1>1, <1>2 DEF UpTo
<1>5. Page = [i \in 1..k |-> start + i]
    <2>1. ~(start >= count)
        BY <1>1, <1>2
    <2> QED BY <2>1 DEF Page
<1>6. Page \in Seq(Nat)
    <2> HIDE DEF start, k
    <2> QED BY <1>2, <1>4, <1>5
<1>7. /\ route.sent \o Page \in Seq(Nat)
      /\ Len(route.sent \o Page) = start + k
      /\ route.sent \o Page = [i \in 1..(start + k) |-> i]
    <2> HIDE DEF start, k
    <2> QED BY <1>2, <1>3, <1>4, <1>5, <1>6, PageExtends
<1>8. CASE page + 1 >= P
    <2>1. route' = [route EXCEPT !.pending = FALSE, !.page = 0,
                                 !.sent = @ \o Page]
        BY <1>1, <1>8 DEF PageSent
    <2>2. count =< start + W
        <3>1. P = page + 1 /\ count > 0
            BY <1>1, <1>2, <1>8
        <3>2. count =< (page + 1) * W
            BY <1>1, <3>1, PagesCoverRoute
        <3>3. (page + 1) * W = start + W
            <4> HIDE DEF page, W
            <4> QED BY <1>1
        <3> QED BY <3>2, <3>3
    <2>3. start + k = count
        <3> HIDE DEF start, W, count
        <3> QED BY <1>1, <1>2, <2>2 DEF UpTo
    <2>4. /\ route' \in RouteState
          /\ route'.sent = route.sent \o Page
          /\ route'.pending = FALSE
          /\ route'.count = count /\ route'.pages = route.pages
        <3> DEFINE q == route.sent \o Page
        <3>1. q \in Seq(Nat)
            BY <1>7
        <3> HIDE DEF q, start, k, P
        <3>2. route' = [route EXCEPT !.pending = FALSE, !.page = 0, !.sent = q]
            BY <2>1 DEF q
        <3>3. route'.sent = q /\ route' \in RouteState /\ route'.pending = FALSE
              /\ route'.count = count /\ route'.pages = route.pages
            BY <3>1, <3>2, RouteEnds DEF RouteInv
        <3> QED BY <3>3 DEF q
    <2> HIDE DEF start, k
    <2> QED BY <1>1, <1>7, <2>3, <2>4 DEF RouteInv, EveryWaypointOnce
<1>9. CASE page + 1 < P
    <2>1. route' = [route EXCEPT !.page = @ + 1, !.sent = @ \o Page]
        BY <1>1, <1>9 DEF PageSent
    <2>2. (page + 1) * W < count /\ (page + 1) * W = start + W
        <3>1. (page + 1) * W < count
            <4> HIDE DEF P
            <4> QED BY <1>1, <1>9, PageStarts DEF P
        <3>2. (page + 1) * W = start + W
            <4> HIDE DEF page, W
            <4> QED BY <1>1
        <3> QED BY <3>1, <3>2
    <2>3. start + k = (page + 1) * W
        <3> HIDE DEF start, W, count, page
        <3> QED BY <1>1, <1>2, <2>2 DEF UpTo
    <2>4. /\ route' \in RouteState
          /\ route'.sent = route.sent \o Page
          /\ route'.pending = TRUE
          /\ route'.page = page + 1
          /\ route'.count = count /\ route'.pages = route.pages
        <3> DEFINE q == route.sent \o Page
        <3>1. q \in Seq(Nat)
            BY <1>7
        <3> HIDE DEF q, start, k, P
        <3>2. route' = [route EXCEPT !.page = page + 1, !.sent = q]
            BY <2>1 DEF q
        <3>3. route'.sent = q /\ route' \in RouteState /\ route'.pending = TRUE
              /\ route'.page = page + 1
              /\ route'.count = count /\ route'.pages = route.pages
            <4>1. route \in RouteState /\ page + 1 \in Nat
                BY <1>1 DEF RouteInv
            <4> HIDE DEF page
            <4> QED BY <3>1, <3>2, <4>1, RouteGoesOn
        <3> QED BY <3>3 DEF q
    <2> HIDE DEF start, k
    <2> QED BY <1>1, <1>7, <1>9, <2>3, <2>4 DEF RouteInv, EveryWaypointOnce
<1> QED BY <1>1, <1>8, <1>9

\* A snapshot starts a readback from its first page.
LEMMA SnapshotStartsRoute ==
    ASSUME NEW n \in RouteCounts, ProcessRouteSnapshot(n)
    PROVE  RouteInv'
<1> DEFINE count == SnapshotCount(n)
<1>1. count \in 0..ROUTE_MAX_WAYPOINTS /\ count \in Nat
    BY RouteAssumption DEF SnapshotCount, UpTo
<1>2. /\ TotalPages(count) \in Nat
      /\ TotalPages(count) = 0 <=> count = 0
    BY <1>1, PagesCoverRoute
<1>3. route' = [pending |-> TotalPages(count) > 0, count |-> count, page |-> 0,
                pages |-> TotalPages(count), sent |-> << >>]
    BY DEF ProcessRouteSnapshot
<1> HIDE DEF count
<1>4. route' \in RouteState
    BY <1>1, <1>2, <1>3 DEF RouteState
<1>5. 0 * WAYPOINTS_PER_PAGE = 0
    BY RouteAssumption
<1>6. EveryWaypointOnce'
    <2>1. /\ route'.sent = << >> /\ route'.count = count /\ route'.page = 0
          /\ route'.pending = (TotalPages(count) > 0)
        BY <1>3
    <2>2. Len(route'.sent) = 0 /\ route'.sent = [i \in 1..0 |-> i]
        BY <2>1
    <2>3. route'.pending <=> count # 0
        <3>1. TotalPages(count) > 0 <=> count # 0
            BY <1>1, <1>2
        <3> QED BY <2>1, <3>1, Zenon
    <2> QED BY <2>1, <2>2, <2>3, <1>5 DEF EveryWaypointOnce
<1> QED BY <1>2, <1>3, <1>4, <1>6 DEF RouteInv

LEMMA NoRouteIsRoute ==
    route = NoRoute => RouteInv
BY RouteAssumption DEF NoRoute, RouteInv, RouteState, EveryWaypointOnce, TotalPages

LEMMA RouteStep == RouteInv /\ [Next]_vars => RouteInv'
<1> SUFFICES ASSUME RouteInv, [Next]_vars PROVE RouteInv'
    OBVIOUS
<1>1. CASE UNCHANGED route
    BY <1>1 DEF RouteInv, EveryWaypointOnce
<1>2. CASE Restart
    BY <1>2, RouteAssumption DEF Restart, Cleared, NoRoute, RouteInv, RouteState,
       EveryWaypointOnce, TotalPages
<1>3. CASE \E n \in RouteCounts : ProcessRouteSnapshot(n)
    BY <1>3, SnapshotStartsRoute
<1>4. CASE \E written \in BOOLEAN : RunTx(written)
    <2>1. UNCHANGED route \/ (route.pending /\ route' = PageSent)
        BY <1>4 DEF RunTx
    <2> QED BY <1>1, <2>1, PageSentKeepsRoute
<1>5. CASE LoadState \/ UplinkStatus \/ ResetCounters \/ ReceiveAck
            \/ ReceiveBadCommand \/ ReadError \/ ClockWraps \/ UplinkExecuted
            \/ UplinkRepeats \/ UNCHANGED vars
    BY <1>1, <1>5 DEF LoadState, UplinkStatus, ResetCounters, ReceiveAck,
       ReceiveBadCommand, ReadError, ClockWraps, UplinkExecuted, UplinkRepeats, vars
<1>6. CASE \/ \E v2, saved \in BOOLEAN : SetDownlinkProtocol(v2, saved)
           \/ \E opened \in BOOLEAN : Reopen(opened)
           \/ \E n \in {newest, newest + 1} : ReceiveCommand(n)
           \/ \E listened \in 0..1 : EndOfCycle(listened)
           \/ \E answer \in Answers, recorded \in BOOLEAN : UplinkHandles(answer, recorded)
    BY <1>1, <1>6 DEF SetDownlinkProtocol, Reopen, ReceiveCommand, EndOfCycle,
       UplinkHandles
<1> QED BY <1>2, <1>3, <1>4, <1>5, <1>6 DEF Next

LEMMA RouteAlways == Spec => []RouteInv
<1>1. Init => RouteInv
    BY NoRouteIsRoute DEF Init
<1> QED BY <1>1, RouteStep, PTL DEF Spec

\* EveryWaypointOnce holds for every page size and every route the table can
\* hold, whatever the writes, protocol switches and new snapshots in between
\* (BuildDl2Frame, RunTx, ProcessRouteSnapshot).
THEOREM ReadbackInOrder == Spec => []EveryWaypointOnce
<1>1. RouteInv => EveryWaypointOnce
    BY DEF RouteInv
<1> QED BY <1>1, RouteAlways, PTL

------------------------------------------------------------------------------
(* The feedback: the inductive invariant *)

Results == Verdicts \cup {"NONE", "DUPLICATE", "EXECUTED_OK"}
Status  == [res : Results, accepted : Nat]

FeedbackType ==
    /\ accepted \in Nat
    /\ newest \in Nat
    /\ result \in Results
    /\ last \in [num : Nat, res : Verdicts \cup {"NONE"}]
    /\ pipe \in Seq(Status)
    /\ toUplink \in Seq(Nat)

NoVerdictAfter(i) == \A j \in (i + 1)..Len(pipe) : pipe[j].res \notin Verdicts

\* What uplink_app repeats is no verdict, or its last one.
ResultIsLast == result \in Verdicts => result = last.res

\* Unless it was lost, uplink_app's last verdict is the last one in the pipe,
\* or is shown already.
VerdictOnItsWay ==
    ~lost =>
        /\ \A i \in 1..Len(pipe) :
             pipe[i].res \in Verdicts /\ NoVerdictAfter(i) => pipe[i].res = last.res
        /\ NoVerdictAfter(0) /\ PendingUplinkFeedback \in VerdictCodes =>
             last.res \in Verdicts /\ PendingUplinkFeedback = FeedbackCode[last.res]

\* The newest status carries the number accepted last.
AcceptedOnItsWay ==
    ~lost =>
        /\ pipe # << >> => pipe[Len(pipe)].accepted = accepted
        /\ pipe = << >> /\ PendingUplinkFeedback \in VerdictCodes =>
             UplinkLastAcceptedSequence = accepted

\* Commands wait in the order of their numbers.
CommandsInOrder ==
    /\ \A i, j \in 1..Len(toUplink) : i =< j => toUplink[i] =< toUplink[j]
    /\ toUplink # << >> => toUplink[Len(toUplink)] = newest

\* After a ROUTED verdict only copies of that command, or newer ones, are on
\* their way.
RoutedIsNewest ==
    last.res = "ROUTED" =>
        /\ accepted =< last.num
        /\ \A i \in 1..Len(toUplink) : last.num =< toUplink[i]
        /\ toUplink = << >> => last.num = newest

FeedbackInv ==
    /\ FeedbackType /\ ResultIsLast /\ VerdictOnItsWay /\ AcceptedOnItsWay
    /\ CommandsInOrder /\ RoutedIsNewest

\* Which results have a code, and which codes are shown without one.
LEMMA Codes ==
    /\ "DUPLICATE" \notin Verdicts /\ "NONE" \notin Verdicts
    /\ "EXECUTED_OK" \notin Verdicts
    /\ "REJECT_SEQUENCE" \in Verdicts
    /\ "OK" \notin VerdictCodes /\ "CRC_FAIL" \notin VerdictCodes
    /\ \A v \in Verdicts : FeedbackCode[v] \in VerdictCodes
    /\ \A v \in Verdicts : FeedbackCode[v] = "APPLIED" => v = "ROUTED"
    /\ Answers \subseteq Verdicts
<1>1. Verdicts = {"REJECT_SEQUENCE", "REJECT_STATE", "FAILED", "REJECT_VERSION",
                  "REJECT_CLASS", "REJECT_LENGTH", "ROUTE_MISS", "REJECT_ROUTE",
                  "REJECT_CHECKSUM", "REJECT_VIEWPOINT", "REJECT_COUNTER",
                  "REJECT_FLIGHT_MODE", "ROUTED"}
    BY DEF Verdicts, FeedbackCode
<1>2. \A v \in Verdicts : FeedbackCode[v] \notin {"OK", "CRC_FAIL"}
    BY <1>1 DEF FeedbackCode
<1>3. \A v \in Verdicts : FeedbackCode[v] = "APPLIED" => v = "ROUTED"
    BY <1>1 DEF FeedbackCode
<1> QED BY <1>1, <1>2, <1>3, AnswersAssumption DEF VerdictCodes

\* A status that is published says what uplink_app's last verdict was, or
\* leaves it what it was; one that is dropped is noted.
LEMMA PublishKeepsFeedback ==
    ASSUME FeedbackInv, NEW res \in Results, NEW acc \in Nat, Publish(res, acc),
           accepted' = acc, UNCHANGED feedback,
           res \in Verdicts => last'.res = res,
           res \notin Verdicts => last' = last /\ acc = accepted
    PROVE  pipe' \in Seq(Status) /\ VerdictOnItsWay' /\ AcceptedOnItsWay'
<1> DEFINE s == [res |-> res, accepted |-> acc]
<1>1. pipe \in Seq(Status) /\ s \in Status
    BY DEF FeedbackInv, FeedbackType, Status
<1>2. CASE phase # "off" /\ Len(pipe) < MsgLimit
    <2>1. pipe' = Append(pipe, s) /\ lost' = (lost /\ res \notin Verdicts)
        BY <1>2 DEF Publish
    <2>2. /\ pipe' \in Seq(Status) /\ Len(pipe') = Len(pipe) + 1 /\ Len(pipe) \in Nat
          /\ \A i \in 1..Len(pipe) : pipe'[i] = pipe[i]
          /\ pipe'[Len(pipe) + 1] = s
        BY <1>1, <2>1
    <2>3. s.res = res /\ s.accepted = acc
        OBVIOUS
    <2> HIDE DEF s
    <2>4. AcceptedOnItsWay'
        BY <2>2, <2>3 DEF AcceptedOnItsWay
    <2>5. CASE res \in Verdicts
        <3>1. \A i \in 1..Len(pipe') : NoVerdictAfter(i)' => i = Len(pipe) + 1
            BY <2>2, <2>3, <2>5 DEF NoVerdictAfter
        <3>2. ~NoVerdictAfter(0)'
            BY <2>2, <2>3, <2>5 DEF NoVerdictAfter
        <3> QED BY <2>2, <2>3, <2>4, <2>5, <3>1, <3>2 DEF VerdictOnItsWay
    <2>6. CASE res \notin Verdicts
        <3>1. (lost' <=> lost) /\ last' = last
            BY <2>1, <2>6
        <3>2. /\ NoVerdictAfter(0)' => NoVerdictAfter(0)
              /\ \A i \in 1..Len(pipe) : NoVerdictAfter(i)' => NoVerdictAfter(i)
            BY <2>2 DEF NoVerdictAfter
        <3>3. \A i \in 1..Len(pipe') : i \in 1..Len(pipe) \/ pipe'[i].res = res
            BY <2>2, <2>3
        <3> QED BY <2>2, <2>4, <2>6, <3>1, <3>2, <3>3
                DEF VerdictOnItsWay, FeedbackInv, feedback
    <2> QED BY <2>2, <2>4, <2>5, <2>6
<1>3. CASE ~(phase # "off" /\ Len(pipe) < MsgLimit)
    <2>1. pipe' = pipe /\ lost' = (lost \/ res \in Verdicts)
        BY <1>3 DEF Publish
    <2> QED BY <1>1, <2>1
            DEF FeedbackInv, VerdictOnItsWay, AcceptedOnItsWay, NoVerdictAfter, feedback
<1> QED BY <1>2, <1>3

\* Reading a status shows its verdict, if it is one.
LEMMA StatusKeepsFeedback ==
    ASSUME FeedbackInv, UplinkStatus
    PROVE  FeedbackInv'
<1>1. /\ pipe \in Seq(Status) /\ pipe # << >>
      /\ pipe' = Tail(pipe)
      /\ PendingUplinkFeedback' = NewFeedback(pipe[1].res)
      /\ UplinkLastAcceptedSequence' = pipe[1].accepted
      /\ UNCHANGED <<lost, toUplink, accepted, result, last, newest>>
    BY DEF FeedbackInv, FeedbackType, UplinkStatus, uplink
<1>2. /\ pipe' \in Seq(Status) /\ Len(pipe) \in Nat \ {0}
      /\ Len(pipe') = Len(pipe) - 1
      /\ \A i \in 1..Len(pipe') : pipe'[i] = pipe[i + 1]
    BY <1>1
<1>3. AcceptedOnItsWay'
    <2>1. pipe' # << >> => Len(pipe') \in 1..Len(pipe') /\ Len(pipe') + 1 = Len(pipe)
        BY <1>2
    <2>2. pipe' = << >> => Len(pipe) = 1
        BY <1>2
    <2> QED BY <1>1, <1>2, <2>1, <2>2 DEF AcceptedOnItsWay, FeedbackInv
<1>4. \A i \in 0..Len(pipe') : NoVerdictAfter(i)' => NoVerdictAfter(i + 1)
    <2> SUFFICES ASSUME NEW i \in 0..Len(pipe'), NoVerdictAfter(i)',
                        NEW j \in ((i + 1) + 1)..Len(pipe)
                 PROVE  pipe[j].res \notin Verdicts
        BY DEF NoVerdictAfter
    <2>1. j - 1 \in (i + 1)..Len(pipe') /\ j - 1 \in 1..Len(pipe') /\ (j - 1) + 1 = j
        BY <1>2
    <2> QED BY <1>2, <2>1 DEF NoVerdictAfter
<1>5. VerdictOnItsWay'
    <2> SUFFICES ASSUME ~lost PROVE VerdictOnItsWay'
        BY <1>1 DEF VerdictOnItsWay
    <2>1. ASSUME NEW i \in 1..Len(pipe'), pipe'[i].res \in Verdicts, NoVerdictAfter(i)'
          PROVE  pipe'[i].res = last'.res
        <3>1. /\ i + 1 \in 1..Len(pipe) /\ pipe'[i] = pipe[i + 1]
              /\ NoVerdictAfter(i + 1)
            BY <1>2, <1>4, <2>1
        <3> QED BY <1>1, <2>1, <3>1 DEF FeedbackInv, VerdictOnItsWay
    <2>2. ASSUME NoVerdictAfter(0)', PendingUplinkFeedback' \in VerdictCodes
          PROVE  last'.res \in Verdicts /\ PendingUplinkFeedback' = FeedbackCode[last'.res]
        <3>1. NoVerdictAfter(1) /\ 1 \in 1..Len(pipe)
            BY <1>2, <1>4, <2>2
        <3>2. CASE pipe[1].res \in Verdicts
            BY <1>1, <3>1, <3>2 DEF FeedbackInv, VerdictOnItsWay, NewFeedback
        <3>3. CASE pipe[1].res \notin Verdicts
            <4>1. NoVerdictAfter(0)
                BY <1>2, <3>1, <3>3 DEF NoVerdictAfter
            <4> QED BY <1>1, <2>2, <3>3, <4>1
                    DEF FeedbackInv, VerdictOnItsWay, NewFeedback
        <3> QED BY <3>2, <3>3
    <2> QED BY <2>1, <2>2 DEF VerdictOnItsWay
<1> QED BY <1>1, <1>2, <1>3, <1>5
        DEF FeedbackInv, FeedbackType, ResultIsLast, CommandsInOrder, RoutedIsNewest

\* uplink_app judges the command that waited longest.
LEMMA HandlesKeepsFeedback ==
    ASSUME FeedbackInv, NEW answer \in Answers, NEW recorded \in BOOLEAN,
           UplinkHandles(answer, recorded)
    PROVE  FeedbackInv'
<1> DEFINE n   == toUplink[1]
           res == IF accepted > 0 /\ n = accepted THEN "DUPLICATE"
                  ELSE IF n < accepted THEN "REJECT_SEQUENCE"
                  ELSE answer
<1>1. /\ toUplink \in Seq(Nat) /\ toUplink # << >>
      /\ toUplink' = Tail(toUplink)
      /\ accepted \in Nat
      /\ result' = res
      /\ accepted' = IF res = "ROUTED" /\ recorded THEN n ELSE accepted
      /\ last' = IF res \in Verdicts THEN [num |-> n, res |-> res] ELSE last
      /\ Publish(res, accepted')
      /\ UNCHANGED feedback /\ UNCHANGED newest
    BY DEF UplinkHandles, FeedbackInv, FeedbackType
<1>2. n \in Nat /\ res \in Results /\ accepted' \in Nat
    BY <1>1, Codes DEF Results
<1>3. res \notin Verdicts => n = accepted /\ accepted' = accepted /\ last' = last
    BY <1>1, Codes
<1>4. res \in Verdicts => last'.res = res /\ last'.num = n
    BY <1>1
<1>5. pipe' \in Seq(Status) /\ VerdictOnItsWay' /\ AcceptedOnItsWay'
    <2> HIDE DEF res
    <2> QED BY <1>1, <1>2, <1>3, <1>4, PublishKeepsFeedback
<1>6. FeedbackType' /\ ResultIsLast'
    <2> last' \in [num : Nat, res : Verdicts \cup {"NONE"}]
        <3> HIDE DEF res
        <3> QED BY <1>1, <1>2 DEF FeedbackInv, FeedbackType
    <2> HIDE DEF res
    <2> QED BY <1>1, <1>2, <1>3, <1>4, <1>5
            DEF FeedbackInv, FeedbackType, ResultIsLast
<1>7. /\ toUplink' \in Seq(Nat) /\ Len(toUplink) \in Nat \ {0}
      /\ Len(toUplink') = Len(toUplink) - 1
      /\ \A i \in 1..Len(toUplink') : toUplink'[i] = toUplink[i + 1]
    BY <1>1
<1>8. CommandsInOrder'
    <2>1. ASSUME NEW i \in 1..Len(toUplink'), NEW j \in 1..Len(toUplink'), i =< j
          PROVE  toUplink'[i] =< toUplink'[j]
        <3>1. /\ i + 1 \in 1..Len(toUplink) /\ j + 1 \in 1..Len(toUplink)
              /\ i + 1 =< j + 1
            BY <1>7, <2>1
        <3>2. toUplink[i + 1] =< toUplink[j + 1]
            BY <3>1 DEF FeedbackInv, CommandsInOrder
        <3> QED BY <1>7, <3>2
    <2>2. toUplink' # << >> => toUplink'[Len(toUplink')] = newest'
        BY <1>1, <1>7 DEF FeedbackInv, CommandsInOrder
    <2> QED BY <2>1, <2>2 DEF CommandsInOrder
<1>9. RoutedIsNewest'
    <2>1. /\ \A i \in 1..Len(toUplink') : n =< toUplink'[i]
          /\ toUplink' = << >> => n = newest
        <3>1. 1 \in 1..Len(toUplink)
              /\ \A i \in 1..Len(toUplink') : i + 1 \in 1..Len(toUplink)
            BY <1>7
        <3>2. toUplink' = << >> => Len(toUplink) = 1
            BY <1>7
        <3> QED BY <1>1, <1>7, <3>1, <3>2 DEF FeedbackInv, CommandsInOrder
    <2>2. CASE res \in Verdicts
        <3>1. res = "ROUTED" => accepted' =< n
            BY <1>1, <1>2, Codes
        <3> HIDE DEF res, n
        <3> QED BY <1>1, <1>4, <2>1, <2>2, <3>1 DEF RoutedIsNewest
    <2>3. CASE res \notin Verdicts
        <3>1. last.res = "ROUTED" => last.num = n
            <4>1. 1 \in 1..Len(toUplink) /\ last.num \in Nat
                BY <1>7 DEF FeedbackInv, FeedbackType
            <4> QED BY <1>1, <1>2, <1>3, <2>3, <4>1 DEF FeedbackInv, RoutedIsNewest
        <3> HIDE DEF res, n
        <3> QED BY <1>1, <1>3, <2>1, <2>3, <3>1 DEF FeedbackInv, RoutedIsNewest
    <2> QED BY <2>2, <2>3
<1> QED BY <1>5, <1>6, <1>8, <1>9 DEF FeedbackInv

\* A command is forwarded: a copy of the last one, or the next.
LEMMA CommandKeepsFeedback ==
    ASSUME FeedbackInv, NEW n \in {newest, newest + 1}, ReceiveCommand(n)
    PROVE  FeedbackInv'
<1>1. /\ toUplink \in Seq(Nat) /\ newest \in Nat /\ n \in Nat /\ newest =< n
      /\ toUplink' = Append(toUplink, n) /\ newest' = n
      /\ PendingUplinkFeedback' = "OK"
      /\ UNCHANGED <<UplinkLastAcceptedSequence, pipe, lost, accepted, result, last>>
    BY DEF ReceiveCommand, FeedbackInv, FeedbackType, bus, uplink
<1>2. /\ toUplink' \in Seq(Nat) /\ Len(toUplink) \in Nat
      /\ Len(toUplink') = Len(toUplink) + 1
      /\ \A i \in 1..Len(toUplink) : toUplink'[i] = toUplink[i]
      /\ toUplink'[Len(toUplink) + 1] = n
    BY <1>1
<1>3. \A i \in 1..Len(toUplink) : toUplink[i] =< newest
    <2>1. \A i \in 1..Len(toUplink) : i =< Len(toUplink) /\ Len(toUplink) \in 1..Len(toUplink)
        BY <1>2
    <2> QED BY <1>1, <2>1 DEF FeedbackInv, CommandsInOrder
<1>4. \A i \in 1..Len(toUplink) : toUplink[i] \in Nat /\ toUplink[i] =< n
    BY <1>1, <1>3
<1>5. CommandsInOrder'
    <2>1. \A i, j \in 1..Len(toUplink') : i =< j => toUplink'[i] =< toUplink'[j]
        BY <1>1, <1>2, <1>4 DEF FeedbackInv, CommandsInOrder
    <2> QED BY <1>1, <1>2, <2>1 DEF CommandsInOrder
<1>6. RoutedIsNewest'
    <2>1. last.num \in Nat
        BY DEF FeedbackInv, FeedbackType
    <2>2. last.res = "ROUTED" => last.num =< newest
        <3>1. toUplink # << >> => Len(toUplink) \in 1..Len(toUplink)
            BY <1>2
        <3> QED BY <1>1, <2>1, <3>1 DEF FeedbackInv, RoutedIsNewest, CommandsInOrder
    <2>3. last.res = "ROUTED" => last.num =< n
        BY <1>1, <2>1, <2>2
    <2> QED BY <1>1, <1>2, <2>3 DEF FeedbackInv, RoutedIsNewest
<1> QED BY <1>1, <1>2, <1>5, <1>6, Codes
        DEF FeedbackInv, FeedbackType, ResultIsLast, VerdictOnItsWay,
            AcceptedOnItsWay, NoVerdictAfter

LEMMA FeedbackInit == Init => FeedbackInv
<1> SUFFICES ASSUME Init PROVE FeedbackInv
    OBVIOUS
<1>1. accepted \in Nat /\ last \in [num : Nat, res : Verdicts \cup {"NONE"}]
    BY BoundsAssumption DEF Init
<1> QED BY <1>1, Codes DEF Init, FeedbackInv, FeedbackType, Results, ResultIsLast,
        VerdictOnItsWay, AcceptedOnItsWay, CommandsInOrder, RoutedIsNewest

LEMMA FeedbackStep == FeedbackInv /\ [Next]_vars => FeedbackInv'
<1> SUFFICES ASSUME FeedbackInv, [Next]_vars PROVE FeedbackInv'
    OBVIOUS
<1>1. CASE UNCHANGED <<feedback, bus, toUplink, uplink, newest>>
    BY <1>1 DEF FeedbackInv, FeedbackType, ResultIsLast, VerdictOnItsWay,
       AcceptedOnItsWay, NoVerdictAfter, CommandsInOrder, RoutedIsNewest,
       feedback, bus, uplink
<1>2. CASE Restart
    BY <1>2, Codes DEF Restart, Cleared, uplink, FeedbackInv, FeedbackType,
       ResultIsLast, VerdictOnItsWay, AcceptedOnItsWay, CommandsInOrder,
       RoutedIsNewest
<1>3. CASE UplinkStatus
    BY <1>3, StatusKeepsFeedback
<1>4. CASE ReceiveBadCommand
    BY <1>4, Codes DEF ReceiveBadCommand, bus, uplink, FeedbackInv, FeedbackType,
       ResultIsLast, VerdictOnItsWay, AcceptedOnItsWay, NoVerdictAfter,
       CommandsInOrder, RoutedIsNewest
<1>5. CASE \E n \in {newest, newest + 1} : ReceiveCommand(n)
    BY <1>5, CommandKeepsFeedback
<1>6. CASE \E answer \in Answers, recorded \in BOOLEAN : UplinkHandles(answer, recorded)
    BY <1>6, HandlesKeepsFeedback
<1>7. CASE UplinkExecuted
    <2>1. /\ result' = "EXECUTED_OK" /\ Publish("EXECUTED_OK", accepted)
          /\ accepted \in Nat /\ "EXECUTED_OK" \in Results
          /\ UNCHANGED <<feedback, toUplink, accepted, last, newest>>
        BY <1>7 DEF UplinkExecuted, FeedbackInv, FeedbackType, Results
    <2>2. pipe' \in Seq(Status) /\ VerdictOnItsWay' /\ AcceptedOnItsWay'
        BY <2>1, Codes, PublishKeepsFeedback
    <2> QED BY <2>1, <2>2, Codes DEF FeedbackInv, FeedbackType, ResultIsLast,
            CommandsInOrder, RoutedIsNewest
<1>8. CASE UplinkRepeats
    <2>1. /\ Publish(result, accepted) /\ accepted \in Nat /\ result \in Results
          /\ UNCHANGED <<feedback, toUplink, accepted, result, last, newest>>
        BY <1>8 DEF UplinkRepeats, FeedbackInv, FeedbackType, uplink
    <2>2. pipe' \in Seq(Status) /\ VerdictOnItsWay' /\ AcceptedOnItsWay'
        BY <2>1, PublishKeepsFeedback DEF FeedbackInv, ResultIsLast
    <2> QED BY <2>1, <2>2 DEF FeedbackInv, FeedbackType, ResultIsLast,
            CommandsInOrder, RoutedIsNewest
<1>9. CASE LoadState \/ ResetCounters \/ ReceiveAck \/ ReadError \/ ClockWraps
    BY <1>1, <1>9 DEF LoadState, ResetCounters, ReceiveAck, ReadError, ClockWraps
<1>10. CASE \/ \E n \in RouteCounts : ProcessRouteSnapshot(n)
            \/ \E v2, saved \in BOOLEAN : SetDownlinkProtocol(v2, saved)
            \/ \E opened \in BOOLEAN : Reopen(opened)
            \/ \E written \in BOOLEAN : RunTx(written)
            \/ \E listened \in 0..1 : EndOfCycle(listened)
    BY <1>1, <1>10 DEF ProcessRouteSnapshot, SetDownlinkProtocol, Reopen, RunTx,
       EndOfCycle
<1>11. CASE UNCHANGED vars
    BY <1>1, <1>11 DEF vars
<1> QED BY <1>2, <1>3, <1>4, <1>5, <1>6, <1>7, <1>8, <1>9, <1>10, <1>11 DEF Next

LEMMA FeedbackAlways == Spec => []FeedbackInv
    BY FeedbackInit, FeedbackStep, PTL DEF Spec

\* FeedbackIsTrue holds for every pipe depth, every number of copies and every
\* verdict uplink_app may give: what the ground is shown once nothing is under
\* way is the last verdict, and "applied" is about the last command received
\* (ProcessCommandPacket, UPLINK_STATUS_MID).
THEOREM FeedbackTrue == Spec => []FeedbackIsTrue
<1>1. FeedbackInv => FeedbackIsTrue
    <2> SUFFICES ASSUME FeedbackInv, Settled, PendingUplinkFeedback \in VerdictCodes
                 PROVE  /\ last.res \in Verdicts
                        /\ PendingUplinkFeedback = FeedbackCode[last.res]
                        /\ PendingUplinkFeedback = "APPLIED" => last.num = newest
                        /\ UplinkLastAcceptedSequence = accepted
        BY DEF FeedbackIsTrue
    <2>1. pipe = << >> /\ toUplink = << >> /\ ~lost
        BY DEF Settled
    <2>2. last.res \in Verdicts /\ PendingUplinkFeedback = FeedbackCode[last.res]
        BY <2>1 DEF FeedbackInv, VerdictOnItsWay, NoVerdictAfter
    <2>3. PendingUplinkFeedback = "APPLIED" => last.num = newest
        BY <2>1, <2>2, Codes DEF FeedbackInv, RoutedIsNewest
    <2>4. UplinkLastAcceptedSequence = accepted
        BY <2>1 DEF FeedbackInv, AcceptedOnItsWay
    <2> QED BY <2>2, <2>3, <2>4
<1> QED BY <1>1, FeedbackAlways, PTL

------------------------------------------------------------------------------
(* The type invariant *)

FlagType ==
    /\ phase \in Phases
    /\ LoRaFd \in BOOLEAN
    /\ AckReceivedThisCycle \in BOOLEAN
    /\ LinkState \in {DISCONNECTED, CONNECTED, DEGRADED}
    /\ heard \in BOOLEAN /\ wrapped \in BOOLEAN /\ resetSince \in BOOLEAN
    /\ UseV2Downlink \in BOOLEAN
    /\ file \in SUBSET BOOLEAN

CounterType ==
    /\ openAge \in 0..REOPEN_BACKOFF
    /\ NoAckCount \in 0..NoAckLimit
    /\ ackAge \in 0..OldestAck
    /\ quiet \in 0..LongQuiet
    /\ inputs \in 0..MaxInputs

\* What is shown, and how much can wait.
QueueType ==
    /\ PendingUplinkFeedback \in VerdictCodes \cup {"OK", "CRC_FAIL"}
    /\ UplinkLastAcceptedSequence \in Nat
    /\ Len(pipe) =< MsgLimit
    /\ Len(toUplink) =< MaxWaiting

LEMMA CountersHaveLimits ==
    /\ REOPEN_BACKOFF \in Nat /\ NoAckLimit \in Nat /\ OldestAck \in Nat
    /\ LongQuiet \in Nat /\ MaxInputs \in Nat /\ Sleep = 2
BY LinkAssumption, BoundsAssumption, LimitsAreNumbers

LEMMA UpToRange ==
    ASSUME NEW limit \in Nat, NEW n \in Nat
    PROVE  UpTo(limit, n) \in 0..limit
BY DEF UpTo

LEMMA TypeInit == Init => FlagType /\ CounterType /\ QueueType
<1> SUFFICES ASSUME Init PROVE FlagType /\ CounterType /\ QueueType
    OBVIOUS
<1>1. FlagType
    BY DEF Init, FlagType, Phases
<1>2. CounterType
    BY CountersHaveLimits DEF Init, CounterType
<1>3. QueueType
    BY BoundsAssumption DEF Init, QueueType
<1> QED BY <1>1, <1>2, <1>3

LEMMA FlagStep == FlagType /\ [Next]_vars => FlagType'
<1> SUFFICES ASSUME FlagType, [Next]_vars PROVE FlagType'
    OBVIOUS
<1> USE DEF FlagType, Phases, link, config
<1>1. CASE LoadState
    <2>1. phase' = "drain" /\ UseV2Downlink' \in BOOLEAN
        BY <1>1 DEF LoadState
    <2> QED BY <1>1, <2>1 DEF LoadState
<1>2. CASE Restart
    BY <1>2 DEF Restart, Cleared
<1>3. CASE UplinkStatus
    BY <1>3 DEF UplinkStatus
<1>4. CASE \E n \in RouteCounts : ProcessRouteSnapshot(n)
    BY <1>4 DEF ProcessRouteSnapshot
<1>5. CASE \E v2, saved \in BOOLEAN : SetDownlinkProtocol(v2, saved)
    BY <1>5 DEF SetDownlinkProtocol, SaveState
<1>6. CASE ResetCounters
    BY <1>6 DEF ResetCounters
<1>7. CASE \E opened \in BOOLEAN : Reopen(opened)
    BY <1>7 DEF Reopen
<1>8. CASE \E written \in BOOLEAN : RunTx(written)
    BY <1>8 DEF RunTx, OpenWindow
<1>9. CASE ReceiveAck
    BY <1>9 DEF ReceiveAck
<1>10. CASE ReceiveBadCommand
    BY <1>10 DEF ReceiveBadCommand
<1>11. CASE ReadError
    BY <1>11 DEF ReadError
<1>12. CASE \E n \in {newest, newest + 1} : ReceiveCommand(n)
    BY <1>12 DEF ReceiveCommand
<1>13. CASE \E listened \in 0..1 : EndOfCycle(listened)
    <2>1. \A e, c : NewLinkState(e, c) \in {DISCONNECTED, CONNECTED, DEGRADED}
        BY DEF NewLinkState
    <2> QED BY <1>13, <2>1 DEF EndOfCycle
<1>14. CASE ClockWraps
    BY <1>14 DEF ClockWraps
<1>15. CASE \E answer \in Answers, recorded \in BOOLEAN : UplinkHandles(answer, recorded)
    BY <1>15 DEF UplinkHandles
<1>16. CASE UplinkExecuted \/ UplinkRepeats
    BY <1>16 DEF UplinkExecuted, UplinkRepeats
<1>17. CASE UNCHANGED vars
    BY <1>17 DEF vars
<1> QED BY <1>1, <1>2, <1>3, <1>4, <1>5, <1>6, <1>7, <1>8, <1>9, <1>10, <1>11,
           <1>12, <1>13, <1>14, <1>15, <1>16, <1>17 DEF Next

LEMMA CounterStep == CounterType /\ [Next]_vars => CounterType'
<1> SUFFICES ASSUME CounterType, [Next]_vars PROVE CounterType'
    OBVIOUS
<1> USE CountersHaveLimits DEF CounterType, Input, link
<1>1. CASE LoadState
    <2>1. UpTo(LongQuiet, Sleep) \in 0..LongQuiet
        BY UpToRange
    <2> QED BY <1>1, <2>1 DEF LoadState
<1>2. CASE Restart
    BY <1>2 DEF Restart, Cleared
<1>3. CASE UplinkStatus
    BY <1>3 DEF UplinkStatus
<1>4. CASE \E n \in RouteCounts : ProcessRouteSnapshot(n)
    BY <1>4 DEF ProcessRouteSnapshot
<1>5. CASE \E v2, saved \in BOOLEAN : SetDownlinkProtocol(v2, saved)
    BY <1>5 DEF SetDownlinkProtocol
<1>6. CASE ResetCounters
    BY <1>6 DEF ResetCounters
<1>7. CASE \E opened \in BOOLEAN : Reopen(opened)
    BY <1>7 DEF Reopen
<1>8. CASE \E written \in BOOLEAN : RunTx(written)
    BY <1>8 DEF RunTx, OpenWindow
<1>9. CASE ReceiveAck
    BY <1>9 DEF ReceiveAck
<1>10. CASE ReceiveBadCommand
    BY <1>10 DEF ReceiveBadCommand
<1>11. CASE ReadError
    BY <1>11 DEF ReadError
<1>12. CASE \E n \in {newest, newest + 1} : ReceiveCommand(n)
    BY <1>12 DEF ReceiveCommand
<1>13. CASE \E listened \in 0..1 : EndOfCycle(listened)
    <2>1. PICK listened \in 0..1 : EndOfCycle(listened)
        BY <1>13
    <2>2. /\ UpTo(NoAckLimit, NoAckCount + 1) \in 0..NoAckLimit
          /\ UpTo(OldestAck, ackAge + listened + Sleep) \in 0..OldestAck
          /\ UpTo(LongQuiet, quiet + listened + Sleep) \in 0..LongQuiet
          /\ UpTo(REOPEN_BACKOFF, openAge + listened + Sleep) \in 0..REOPEN_BACKOFF
        <3>1. /\ NoAckCount + 1 \in Nat
              /\ ackAge + listened + Sleep \in Nat
              /\ quiet + listened + Sleep \in Nat
              /\ openAge + listened + Sleep \in Nat
            OBVIOUS
        <3> QED BY <3>1, UpToRange
    <2> QED BY <2>1, <2>2 DEF EndOfCycle
<1>14. CASE ClockWraps
    BY <1>14 DEF ClockWraps
<1>15. CASE \E answer \in Answers, recorded \in BOOLEAN : UplinkHandles(answer, recorded)
    BY <1>15 DEF UplinkHandles
<1>16. CASE UplinkExecuted \/ UplinkRepeats
    BY <1>16 DEF UplinkExecuted, UplinkRepeats
<1>17. CASE UNCHANGED vars
    BY <1>17 DEF vars
<1> QED BY <1>1, <1>2, <1>3, <1>4, <1>5, <1>6, <1>7, <1>8, <1>9, <1>10, <1>11,
           <1>12, <1>13, <1>14, <1>15, <1>16, <1>17 DEF Next

\* Publish is the only way into the pipe.
LEMMA PublishFits ==
    ASSUME NEW res \in Results, NEW acc \in Nat, pipe \in Seq(Status),
           Len(pipe) =< MsgLimit, Publish(res, acc)
    PROVE  Len(pipe') =< MsgLimit
<1>1. [res |-> res, accepted |-> acc] \in Status
    BY DEF Status
<1>2. CASE phase # "off" /\ Len(pipe) < MsgLimit
    BY <1>1, <1>2, BoundsAssumption DEF Publish
<1>3. CASE ~(phase # "off" /\ Len(pipe) < MsgLimit)
    BY <1>3 DEF Publish
<1> QED BY <1>2, <1>3

LEMMA QueueStep == QueueType /\ FeedbackInv /\ [Next]_vars => QueueType'
<1> SUFFICES ASSUME QueueType, FeedbackInv, [Next]_vars PROVE QueueType'
    OBVIOUS
<1> USE BoundsAssumption DEF QueueType
<1>1. CASE UNCHANGED <<feedback, pipe, toUplink>>
    BY <1>1 DEF feedback
<1>2. CASE Restart
    BY <1>2 DEF Restart, Cleared
<1>3. CASE UplinkStatus
    <2>1. /\ pipe \in Seq(Status) /\ pipe # << >> /\ pipe' = Tail(pipe)
          /\ PendingUplinkFeedback' = NewFeedback(pipe[1].res)
          /\ UplinkLastAcceptedSequence' = pipe[1].accepted
          /\ UNCHANGED toUplink
        BY <1>3 DEF UplinkStatus, FeedbackInv, FeedbackType
    <2>2. pipe[1] \in Status /\ Len(Tail(pipe)) = Len(pipe) - 1 /\ Len(pipe) \in Nat
        BY <2>1
    <2>3. NewFeedback(pipe[1].res) \in VerdictCodes \cup {"OK", "CRC_FAIL"}
        BY Codes DEF NewFeedback
    <2>4. pipe[1].accepted \in Nat
        BY <2>2 DEF Status
    <2> QED BY <2>1, <2>2, <2>3, <2>4
<1>4. CASE ReceiveBadCommand
    BY <1>4 DEF ReceiveBadCommand, bus
<1>5. CASE \E n \in {newest, newest + 1} : ReceiveCommand(n)
    <2> PICK n \in {newest, newest + 1} : ReceiveCommand(n)
        BY <1>5
    <2>1. n \in Nat /\ toUplink \in Seq(Nat)
        BY DEF FeedbackInv, FeedbackType
    <2>2. /\ PendingUplinkFeedback' = "OK" /\ Len(toUplink) < MaxWaiting
          /\ toUplink' = Append(toUplink, n)
          /\ UNCHANGED <<UplinkLastAcceptedSequence, pipe>>
        BY DEF ReceiveCommand, bus
    <2> QED BY <2>1, <2>2
<1>6. CASE \E answer \in Answers, recorded \in BOOLEAN : UplinkHandles(answer, recorded)
    <2> PICK answer \in Answers, recorded \in BOOLEAN : UplinkHandles(answer, recorded)
        BY <1>6
    <2>1. accepted' \in Nat /\ result' \in Results
        BY HandlesKeepsFeedback DEF FeedbackInv, FeedbackType
    <2>2. /\ toUplink \in Seq(Nat) /\ toUplink # << >> /\ toUplink' = Tail(toUplink)
          /\ pipe \in Seq(Status)
          /\ Publish(result', accepted') /\ UNCHANGED feedback
        BY DEF UplinkHandles, FeedbackInv, FeedbackType
    <2>3. Len(toUplink') = Len(toUplink) - 1 /\ Len(toUplink) \in Nat
        BY <2>2
    <2>4. Len(pipe') =< MsgLimit
        BY <2>1, <2>2, PublishFits
    <2> QED BY <2>2, <2>3, <2>4 DEF feedback
<1>7. CASE UplinkExecuted
    <2>1. "EXECUTED_OK" \in Results /\ accepted \in Nat /\ pipe \in Seq(Status)
        BY DEF Results, FeedbackInv, FeedbackType
    <2>2. Len(pipe') =< MsgLimit
        BY <1>7, <2>1, PublishFits DEF UplinkExecuted
    <2> QED BY <1>7, <2>2 DEF UplinkExecuted, feedback
<1>8. CASE UplinkRepeats
    <2>1. result \in Results /\ accepted \in Nat /\ pipe \in Seq(Status)
        BY DEF FeedbackInv, FeedbackType
    <2>2. Len(pipe') =< MsgLimit
        BY <1>8, <2>1, PublishFits DEF UplinkRepeats
    <2> QED BY <1>8, <2>2 DEF UplinkRepeats, feedback
<1>9. CASE LoadState \/ ResetCounters \/ ReceiveAck \/ ReadError \/ ClockWraps
    BY <1>1, <1>9 DEF LoadState, ResetCounters, ReceiveAck, ReadError, ClockWraps, bus
<1>10. CASE \/ \E n \in RouteCounts : ProcessRouteSnapshot(n)
            \/ \E v2, saved \in BOOLEAN : SetDownlinkProtocol(v2, saved)
            \/ \E opened \in BOOLEAN : Reopen(opened)
            \/ \E written \in BOOLEAN : RunTx(written)
            \/ \E listened \in 0..1 : EndOfCycle(listened)
    BY <1>1, <1>10 DEF ProcessRouteSnapshot, SetDownlinkProtocol, Reopen, RunTx,
       EndOfCycle, bus
<1>11. CASE UNCHANGED vars
    BY <1>1, <1>11 DEF vars, bus
<1> QED BY <1>2, <1>3, <1>4, <1>5, <1>6, <1>7, <1>8, <1>9, <1>10, <1>11 DEF Next

\* TypeOK holds for every limit: counters saturate, queues never overflow, and
\* the page being sent starts inside RouteWaypoints (LORA_TDM_APP_Data_t).
THEOREM TypeCorrect == Spec => []TypeOK
<1>1. FlagType /\ CounterType /\ QueueType /\ RouteInv => TypeOK
    <2> SUFFICES ASSUME FlagType, CounterType, QueueType, RouteInv PROVE TypeOK
        OBVIOUS
    <2>1. route.count \in 0..ROUTE_MAX_WAYPOINTS
        BY DEF RouteInv, RouteState
    <2>2. route.pending => route.page * WAYPOINTS_PER_PAGE < route.count
        BY PageStarts DEF RouteInv, RouteState
    <2> QED BY <2>1, <2>2 DEF TypeOK, FlagType, CounterType, QueueType
<1> QED BY <1>1, TypeInit, FlagStep, CounterStep, QueueStep, RouteAlways, FeedbackAlways, PTL DEF Spec
==============================================================================
