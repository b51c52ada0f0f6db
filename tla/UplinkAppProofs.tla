--------------------------- MODULE UplinkAppProofs ---------------------------
(****************************************************************************)
(* Proofs about uplink_app for every size of the sequence space, every set  *)
(* of commands and every bound.                                             *)
(****************************************************************************)
EXTENDS UplinkApp, TLAPS

------------------------------------------------------------------------------
(* Remainders with a symbolic modulus *)

\* Division with remainder.
LEMMA DivMod ==
    ASSUME NEW n \in Nat, NEW m \in Nat \ {0}
    PROVE  /\ n \div m \in Nat
           /\ n % m \in 0..(m - 1)
           /\ n = m * (n \div m) + (n % m)
<1>1. n \div m \in Nat OBVIOUS
<1>2. n % m \in 0..(m - 1) OBVIOUS
<1>3. n = m * (n \div m) + (n % m) OBVIOUS
<1> QED BY <1>1, <1>2, <1>3

\* A multiple of m strictly between -m and 2m is 0 or m.
LEMMA SmallMultiple ==
    ASSUME NEW m \in Nat \ {0}, NEW d \in Int, -m < m * d, m * d < 2 * m
    PROVE  m * d = 0 \/ m * d = m
<1>1. CASE d = 0 BY <1>1
<1>2. CASE d = 1 BY <1>2
<1>3. CASE d >= 2
  <2>1. m * d >= m * 2 BY <1>3
  <2> QED BY <2>1
<1>4. CASE d =< -1
  <2>1. m * d =< -m BY <1>4
  <2> QED BY <2>1
<1> QED BY <1>1, <1>2, <1>3, <1>4

\* The remainders of two numbers less than m apart differ by their distance, or
\* by their distance less m.
LEMMA ModDistance ==
    ASSUME NEW m \in Nat \ {0}, NEW u \in Nat, NEW v \in Nat, v < u, u - v < m
    PROVE  /\ u % m \in 0..(m - 1)
           /\ v % m \in 0..(m - 1)
           /\ \/ (u % m) - (v % m) = u - v
              \/ (u % m) - (v % m) = u - v - m
<1> DEFINE d == (u \div m) - (v \div m)
<1>1. /\ u \div m \in Nat /\ (u % m) \in 0..(m - 1)
      /\ u = m * (u \div m) + (u % m)
  BY DivMod
<1>2. /\ v \div m \in Nat /\ (v % m) \in 0..(m - 1)
      /\ v = m * (v \div m) + (v % m)
  BY DivMod
<1>3. d \in Int BY <1>1, <1>2
<1>4. m * d = m * (u \div m) - m * (v \div m) BY <1>1, <1>2
<1>5. m * d \in Int BY <1>3
<1>6. u - v = m * d + ((u % m) - (v % m))
  <2> DEFINE a == m * (u \div m)
             b == m * (v \div m)
             e == m * d
  <2>1. a \in Nat /\ b \in Nat BY <1>1, <1>2
  <2>2. u = a + (u % m) /\ v = b + (v % m) /\ e = a - b BY <1>1, <1>2, <1>4
  <2> HIDE DEF a, b, d, e
  <2>3. (u % m) \in Int /\ (v % m) \in Int BY <1>1, <1>2
  <2>4. u - v = e + ((u % m) - (v % m)) BY <2>1, <2>2, <2>3
  <2> QED BY <2>4 DEF e
<1>7. -m < m * d /\ m * d < 2 * m
  <2> DEFINE e == m * d
  <2> HIDE DEF e, d
  <2> QED BY <1>1, <1>2, <1>5, <1>6 DEF e
<1>8. m * d = 0 \/ m * d = m BY <1>3, <1>7, SmallMultiple
<1> HIDE DEF d
<1> QED BY <1>1, <1>2, <1>6, <1>8

\* Incrementing a wrapped counter wraps the incremented count.
LEMMA ModIncrement ==
    ASSUME NEW m \in Nat \ {0}, NEW n \in Nat
    PROVE  ((n % m) + 1) % m = (n + 1) % m
<1>1. CASE m = 1
  <2>1. /\ ((n % m) + 1) % m \in 0..(m - 1) /\ (n + 1) % m \in 0..(m - 1)
    BY DivMod
  <2> QED BY <1>1, <2>1
<1>2. CASE m > 1
  <2> DEFINE r == n % m
             t == (n + 1) % m
  <2>1. r \in 0..(m - 1) /\ t \in 0..(m - 1) /\ (t - r = 1 \/ t - r = 1 - m)
    <3> DEFINE k == n + 1
    <3>1. k \in Nat /\ n < k /\ k - n < m /\ k - n = 1 BY <1>2
    <3>2. /\ k % m \in 0..(m - 1) /\ n % m \in 0..(m - 1)
          /\ \/ (k % m) - (n % m) = k - n
             \/ (k % m) - (n % m) = k - n - m
      <4> HIDE DEF k
      <4> QED BY <3>1, ModDistance
    <3>3. (k % m) - (n % m) = 1 \/ (k % m) - (n % m) = 1 - m
      <4> HIDE DEF k
      <4> QED BY <3>1, <3>2
    <3> QED BY <3>2, <3>3
  <2>2. ASSUME r + 1 < m PROVE (r + 1) % m = r + 1
    <3> HIDE DEF r
    <3>1. r + 1 \in 0..(m - 1) BY <2>1, <2>2
    <3> QED BY <3>1
  <2>3. m % m = 0 OBVIOUS
  <2> HIDE DEF r, t
  <2>4. CASE t - r = 1
    BY <2>1, <2>2, <2>4 DEF r, t
  <2>5. CASE t - r = 1 - m
    <3>1. t = 0 /\ r + 1 = m BY <2>1, <2>5
    <3> QED BY <2>3, <3>1 DEF r, t
  <2> QED BY <2>1, <2>4, <2>5
<1> QED BY <1>1, <1>2

\* A number and the same number a turn later have the same remainder.
LEMMA ModPeriod ==
    ASSUME NEW m \in Nat \ {0}, NEW n \in Nat
    PROVE  (n + m) % m = n % m
<1> DEFINE k == n + m
           d == (k \div m) - (n \div m) - 1
<1>1. /\ k \div m \in Nat /\ (k % m) \in 0..(m - 1) /\ k = m * (k \div m) + (k % m)
  <2>1. k \in Nat OBVIOUS
  <2> HIDE DEF k
  <2> QED BY <2>1, DivMod
<1>2. /\ n \div m \in Nat /\ (n % m) \in 0..(m - 1) /\ n = m * (n \div m) + (n % m)
  BY DivMod
<1>3. d \in Int /\ m * d \in Int BY <1>1, <1>2
<1>4. m * d = m * (k \div m) - m * (n \div m) - m BY <1>1, <1>2
<1>5. m * d = (n % m) - (k % m)
  <2> DEFINE a == m * (k \div m)
             b == m * (n \div m)
  <2>1. a \in Nat /\ b \in Nat BY <1>1, <1>2
  <2>2. k = a + (k % m) /\ n = b + (n % m) /\ m * d = a - b - m /\ k = n + m
    BY <1>1, <1>2, <1>4
  <2>3. k \in Nat /\ (k % m) \in Int /\ (n % m) \in Int BY <1>1, <1>2
  <2> HIDE DEF a, b, d, k
  <2> QED BY <2>1, <2>2, <2>3, <1>3
<1>6. -m < m * d /\ m * d < m
  <2> HIDE DEF d, k
  <2> QED BY <1>1, <1>2, <1>3, <1>5
<1>7. m * d = 0
  <2> HIDE DEF d, k
  <2>1. m * d < 2 * m BY <1>3, <1>6
  <2> QED BY <1>3, <1>6, <2>1, SmallMultiple
<1> HIDE DEF d
<1> QED BY <1>1, <1>2, <1>5, <1>7

------------------------------------------------------------------------------
(* Sequence numbers *)

\* The wire values of two numbers less than a turn apart differ by their
\* distance, or by their distance less one turn.
LEMMA WireDistance ==
    ASSUME NEW u \in Nat, NEW v \in Nat, v < u, u - v < SeqMod
    PROVE  /\ Wire(u) \in 0..(SeqMod - 1)
           /\ Wire(v) \in 0..(SeqMod - 1)
           /\ \/ Wire(u) - Wire(v) = u - v
              \/ Wire(u) - Wire(v) = u - v - SeqMod
<1>1. SeqMod \in Nat \ {0} BY HalfAssumption DEF SeqMod
<1> QED BY <1>1, ModDistance DEF Wire

\* CheckSequence recognises an old copy: a number at most MaxDelay behind the
\* last accepted one is never NEW.
LEMMA OldIsNotNew ==
    ASSUME NEW num \in Nat, LastAccepted \in Nat, AcceptedCount \in Nat,
           AcceptedCount > 0,
           num =< LastAccepted, LastAccepted - num =< MaxDelay
    PROVE  CheckSequence(num) # "NEW"
<1>1. CASE num = LastAccepted
  BY <1>1 DEF CheckSequence
<1>2. CASE num < LastAccepted
  <2>1. LastAccepted - num =< Half BY DelayAssumption, HalfAssumption
  <2>2. LastAccepted - num < SeqMod BY <2>1, HalfAssumption DEF SeqMod
  <2>3. /\ Wire(LastAccepted) \in 0..(SeqMod - 1)
        /\ Wire(num) \in 0..(SeqMod - 1)
        /\ \/ Wire(LastAccepted) - Wire(num) = LastAccepted - num
           \/ Wire(LastAccepted) - Wire(num) = LastAccepted - num - SeqMod
    BY <1>2, <2>2, WireDistance
  <2> DEFINE w == Wire(num)
             l == Wire(LastAccepted)
  <2>4. Diff(w, l) >= Half
    <3> HIDE DEF w, l
    <3> QED BY <2>1, <2>3, <1>2, HalfAssumption DEF Diff, SeqMod, w, l
  <2>5. ~(Diff(w, l) < Half)
    <3>1. Diff(w, l) \in Int BY <2>3, HalfAssumption DEF Diff, SeqMod
    <3> QED BY <2>4, <3>1, HalfAssumption
  <2> QED BY <2>5 DEF CheckSequence
<1> QED BY <1>1, <1>2

\* ... and a number ahead of it by less than half the sequence space is NEW.
LEMMA AheadIsNew ==
    ASSUME NEW num \in Nat, LastAccepted \in Nat,
           num > LastAccepted, num < LastAccepted + Half
    PROVE  CheckSequence(num) = "NEW"
<1>1. num - LastAccepted < Half BY HalfAssumption
<1>2. num - LastAccepted < SeqMod BY <1>1, HalfAssumption DEF SeqMod
<1>3. /\ Wire(num) \in 0..(SeqMod - 1)
      /\ Wire(LastAccepted) \in 0..(SeqMod - 1)
      /\ \/ Wire(num) - Wire(LastAccepted) = num - LastAccepted
         \/ Wire(num) - Wire(LastAccepted) = num - LastAccepted - SeqMod
  BY <1>2, WireDistance
<1> DEFINE w == Wire(num)
           l == Wire(LastAccepted)
<1>4. w # l /\ Diff(w, l) < Half
  <2> HIDE DEF w, l
  <2> QED BY <1>1, <1>3, HalfAssumption DEF Diff, SeqMod, w, l
<1> QED BY <1>4 DEF CheckSequence

------------------------------------------------------------------------------
(* Type correctness *)

\* The uint8 counters stay in their range.
LEMMA U8Range ==
    ASSUME NEW n \in Nat
    PROVE  U8(n) \in 0..(CounterMod - 1)
  BY CounterAssumption, DivMod DEF U8

\* Every way of counting a handled message keeps the counters typed.
LEMMA StatsType ==
    ASSUME stats \in Stats
    PROVE  /\ Zeroed \in Stats
           /\ CountDuplicate \in Stats
           /\ CountRouted \in Stats
           /\ [stats EXCEPT !.Err = U8(@ + 1)] \in Stats
           /\ \A result, errors : errors \in Nat => CountRefusal(result, errors) \in Stats
<1>1. Zeroed \in Stats BY CounterAssumption DEF Zeroed, Stats
<1>2. CountDuplicate \in Stats BY DEF CountDuplicate, Stats
<1>3. stats.Cmd + 1 \in Nat /\ stats.Err + 1 \in Nat
  BY CounterAssumption DEF Stats
<1>4. CountRouted \in Stats
  <2>1. U8(stats.Cmd + 1) \in 0..(CounterMod - 1) BY <1>3, U8Range
  <2> QED BY <2>1 DEF CountRouted, Stats
<1>5. [stats EXCEPT !.Err = U8(@ + 1)] \in Stats
  <2>1. U8(stats.Err + 1) \in 0..(CounterMod - 1) BY <1>3, U8Range
  <2> QED BY <2>1 DEF Stats
<1>6. ASSUME NEW result, NEW errors \in Nat
      PROVE  CountRefusal(result, errors) \in Stats
  <2>1. stats.Err + errors \in Nat BY CounterAssumption DEF Stats
  <2>2. U8(stats.Err + errors) \in 0..(CounterMod - 1) BY <2>1, U8Range
  <2> DEFINE e == U8(stats.Err + errors)
             s == [stats EXCEPT !.Err = e]
  <2>3. s \in Stats BY <2>2 DEF Stats
  <2>4. [s EXCEPT !.RoutingFailure = @ + 1] \in Stats
        /\ [s EXCEPT !.Rejected = @ + 1] \in Stats
    <3> HIDE DEF s
    <3> QED BY <2>3 DEF Stats
  <2> QED BY <2>3, <2>4 DEF CountRefusal
<1> QED BY <1>1, <1>2, <1>4, <1>5, <1>6

\* The gate's answers are results the telemetry can carry.
LEMMA VerdictType ==
    ASSUME NEW c \in Content
    PROVE  /\ Verdict(c) \in Results
           /\ SendFailure(c) \in Results
           /\ ErrorsOf(c) \in Nat
           /\ ResolveRouteTarget(c.cls) \in Targets
<1>1. ValidateProxyCommand(c) \in Results \cup {"ACCEPT"}
  BY DEF ValidateProxyCommand, Results
<1>2. ParsePayload(c) \in Results BY DEF ParsePayload, Results
<1>3. Verdict(c) \in Results BY <1>1, <1>2 DEF Verdict, Results
<1>4. SendFailure(c) \in Results BY DEF SendFailure, Results
<1>5. ErrorsOf(c) \in Nat BY DEF ErrorsOf
<1>6. ResolveRouteTarget(c.cls) \in Targets BY DEF ResolveRouteTarget, Targets
<1> QED BY <1>3, <1>4, <1>5, <1>6

LEMMA InitType == Init => TypeOK
<1> SUFFICES ASSUME Init PROVE TypeOK OBVIOUS
<1>1. Zeroed \in Stats BY CounterAssumption DEF Zeroed, Stats
<1>2. BootStatus \in Status
  BY DEF BootStatus, Status, Classes, Results, Targets
<1>3. phase \in Phases /\ CfsHealthState \in NOMINAL..FAILED /\ file \in File
  BY DEF Init, Phases, NOMINAL, FAILED, File
<1>4. executed \in Seq(Nat) /\ resets \in Seq(Nat) BY DEF Init
<1>5. inFlight \in SUBSET Command /\ sent \in SUBSET Command BY DEF Init
<1> QED BY <1>1, <1>2, <1>3, <1>4, <1>5 DEF Init, TypeOK

\* A refused uplink keeps the types.
LEMMA RefuseType ==
    ASSUME TypeOK, NEW c \in sent, NEW result \in Results, NEW errors \in Nat,
           Refuse(c, result, errors)
    PROVE  TypeOK'
<1>1. stats \in Stats /\ status \in Status BY DEF TypeOK
<1>2. c.num \in Nat /\ c.body \in Content BY DEF TypeOK, Command
<1>3. stats' \in Stats BY <1>1, StatsType DEF Refuse
<1>4. status' \in Status
  <2>1. ResolveRouteTarget(c.body.cls) \in Targets BY <1>2, VerdictType
  <2>2. c.body.cls \in Classes BY <1>2 DEF Content
  <2> QED BY <1>1, <1>2, <2>1, <2>2 DEF Refuse, Status, Targets
<1>5. handled' \in Nat BY DEF Refuse, TypeOK
<1>6. UNCHANGED <<phase, AcceptedCount, LastAccepted, CfsHealthState,
                  CfsHealthReceived, file, inFlight, sent, newest, executed,
                  resets, rollback>>
  BY DEF Refuse, ground
<1> QED BY <1>3, <1>4, <1>5, <1>6 DEF TypeOK

LEMMA NextType == TypeOK /\ [Next]_vars => TypeOK'
<1> SUFFICES ASSUME TypeOK, [Next]_vars PROVE TypeOK' OBVIOUS
<1>s. stats \in Stats /\ status \in Status BY DEF TypeOK
<1>c. ASSUME NEW c \in sent PROVE c.num \in Nat /\ c.body \in Content
  BY DEF TypeOK, Command
<1>1. CASE LoadState
  BY <1>1 DEF LoadState, RestoreReplay, TypeOK, Phases, File, ground
<1>2. ASSUME NEW ok \in BOOLEAN, BootSave(ok) PROVE TypeOK'
  <2>1. file' \in File BY <1>2 DEF BootSave, SaveState, TypeOK, File
  <2>2. phase' \in Phases BY <1>2 DEF BootSave, Phases
  <2> QED BY <1>2, <2>1, <2>2
          DEF BootSave, TypeOK, memory, ground, history
<1>3. CASE Crash
  <2>1. Zeroed \in Stats BY <1>s, StatsType
  <2>2. BootStatus \in Status
    BY DEF BootStatus, Status, Classes, Results, Targets
  <2>3. phase' \in Phases /\ inFlight' \in SUBSET Command /\ CfsHealthState' \in NOMINAL..FAILED
    BY <1>3 DEF Crash, ClearMemory, Phases, NOMINAL, FAILED
  <2> QED BY <1>3, <2>1, <2>2, <2>3 DEF Crash, ClearMemory, TypeOK, ground
<1>4. CASE FileCorrupted
  <2>1. file' \in File BY <1>4 DEF FileCorrupted, TypeOK, File
  <2> QED BY <1>4, <2>1 DEF FileCorrupted, TypeOK, memory, ground, history
<1>5. ASSUME NEW body \in Templates, GroundSend(body) PROVE TypeOK'
  <2>1. NextNumber \in Nat BY DEF NextNumber, TypeOK
  <2>2. [num |-> NextNumber, body |-> body] \in Command
    BY <2>1, TemplatesAssumption DEF Command
  <2>3. sent' \in SUBSET Command /\ newest' \in Nat
    BY <1>5, <2>1, <2>2 DEF GroundSend, TypeOK
  <2> QED BY <1>5, <2>3 DEF GroundSend, TypeOK, memory, history
<1>6. ASSUME NEW health \in HealthStates, HealthMessage(health) PROVE TypeOK'
  BY <1>6, HealthAssumption DEF HealthMessage, TypeOK, ground, history
<1>7. ASSUME NEW c \in sent, NEW ok \in BOOLEAN, ProcessExecResult(c, ok)
      PROVE  TypeOK'
  <2>1. status' \in Status BY <1>7, <1>s DEF ProcessExecResult, Status, Results
  <2> QED BY <1>7, <2>1 DEF ProcessExecResult, TypeOK, ground, history
<1>8. CASE Noop
  <2>1. stats' \in Stats BY <1>8, <1>s, StatsType DEF Noop, CountRouted
  <2>2. handled' \in Nat BY <1>8 DEF Noop, TypeOK
  <2> QED BY <1>8, <2>1, <2>2 DEF Noop, TypeOK, ground
<1>9. CASE DispatchError
  <2>1. stats' \in Stats BY <1>9, <1>s, StatsType DEF DispatchError
  <2> QED BY <1>9, <2>1 DEF DispatchError, TypeOK, ground, history
<1>10. CASE ResetCounters
  <2>1. stats' \in Stats BY <1>10, <1>s, StatsType DEF ResetCounters
  <2>2. status' \in Status
    BY <1>10, <1>s DEF ResetCounters, Status, Classes, Results, Targets
  <2> QED BY <1>10, <2>1, <2>2
          DEF ResetCounters, ResetReplayState, TypeOK, ground
<1>11. ASSUME NEW c \in sent, ProcessUplink(c) PROVE TypeOK'
  <2>1. CASE DuplicateUplink(c)
    <3>1. stats' \in Stats BY <2>1, <1>s, StatsType DEF DuplicateUplink
    <3>2. status' \in Status
      BY <2>1, <1>s, <1>c DEF DuplicateUplink, Status, Content, Results
    <3>3. handled' \in Nat BY <2>1 DEF DuplicateUplink, TypeOK
    <3> QED BY <2>1, <3>1, <3>2, <3>3 DEF DuplicateUplink, TypeOK, ground
  <2>2. CASE ReplayedUplink(c)
    <3>1. "REJECT_SEQUENCE" \in Results BY DEF Results
    <3> QED BY <2>2, <3>1, RefuseType DEF ReplayedUplink
  <2>3. CASE RefusedUplink(c)
    BY <2>3, <1>c, VerdictType, RefuseType DEF RefusedUplink
  <2>4. CASE TransmitFailed(c)
    BY <2>4, <1>c, VerdictType, RefuseType DEF TransmitFailed
  <2>5. CASE LocalReset(c)
    <3>1. stats' \in Stats BY <2>5, <1>s, StatsType DEF LocalReset
    <3>2. status' \in Status
      BY <2>5, <1>s, <1>c DEF LocalReset, Status, Content, Results
    <3>3. resets' \in Seq(Nat) BY <2>5, <1>c DEF LocalReset, TypeOK
    <3> QED BY <2>5, <3>1, <3>2, <3>3 DEF LocalReset, TypeOK, ground
  <2>6. CASE Transmit(c)
    <3>1. executed' \in Seq(Nat) BY <2>6, <1>c DEF Transmit, TypeOK
    <3>2. inFlight' \in SUBSET Command BY <2>6 DEF Transmit, TypeOK
    <3>3. phase' \in Phases BY <2>6 DEF Transmit, Phases
    <3> QED BY <2>6, <3>1, <3>2, <3>3 DEF Transmit, TypeOK, memory, ground
  <2> QED BY <1>11, <2>1, <2>2, <2>3, <2>4, <2>5, <2>6 DEF ProcessUplink
<1>12. ASSUME NEW ok \in BOOLEAN, Accept(ok) PROVE TypeOK'
  <2> PICK c \in inFlight : Accept(ok)!(c)
    BY <1>12 DEF Accept
  <2>1. c.num \in Nat /\ c.body \in Content BY DEF TypeOK, Command
  <2>2. stats' \in Stats BY <1>s, StatsType
  <2>3. c.body.cls \in Classes /\ ResolveRouteTarget(c.body.cls) \in Targets
    BY <2>1, VerdictType DEF Content
  <2>4. status' \in Status BY <2>1, <2>3 DEF Status, Results
  <2>5. file' \in File BY <2>1 DEF SaveState, TypeOK, File
  <2>6. phase' \in Phases /\ inFlight' \in SUBSET Command BY DEF Phases
  <2> QED BY <2>1, <2>2, <2>4, <2>5, <2>6 DEF TypeOK, ground
<1>13. CASE UNCHANGED vars
  BY <1>13 DEF vars, memory, ground, history, TypeOK
<1> QED BY <1>1, <1>2, <1>3, <1>4, <1>5, <1>6, <1>7, <1>8, <1>9, <1>10, <1>11,
           <1>12, <1>13 DEF Next

\* Type correctness of uplink_app: in particular CmdCounter and ErrCounter keep
\* the width they have in the code, and every answer is a defined result.
THEOREM TypeCorrect == Spec => []TypeOK
<1>1. Init => TypeOK BY InitType
<1>2. TypeOK /\ [Next]_vars => TypeOK' BY NextType
<1> QED BY <1>1, <1>2, PTL DEF Spec

------------------------------------------------------------------------------
(* Replay protection *)

Last(seq) == seq[Len(seq)]

\* The inductive invariant behind ExecutedInOrder.  Order alone is not
\* inductive: that a copy of an old command is refused depends on what
\* CheckSequence compares it with, so the invariant says that a session knows
\* the last published command (as long as no boot found an outdated file), and
\* that between publication and record that command is the one in flight.  The
\* bounds by newest place every copy at most MaxDelay behind LastAccepted.
NumbersBounded ==
    /\ \A c \in sent : c.num =< newest
    /\ \A i \in 1..Len(executed) : executed[i] =< newest

SessionRemembers ==
    phase \in {"loaded", "counted", "run"} /\ ~rollback /\ executed # << >>
        => AcceptedCount > 0 /\ LastAccepted = Last(executed)

PublishedInFlight ==
    phase = "routed" =>
        /\ executed # << >>
        /\ \A c \in inFlight : c.num = Last(executed)

ReplayInv ==
    /\ NumbersBounded
    /\ ExecutedInOrder
    /\ SessionRemembers
    /\ PublishedInFlight

LEMMA InitReplay == Init => ReplayInv
  BY DEF Init, ReplayInv, NumbersBounded, ExecutedInOrder, SessionRemembers,
         PublishedInFlight

\* Only ProcessUplink can publish, and only a number above all published ones.
LEMMA TransmitReplay ==
    ASSUME TypeOK, ReplayInv, NEW c \in sent, Transmit(c)
    PROVE  ReplayInv'
<1>1. c.num \in Nat BY DEF TypeOK, Command
<1>2. executed' = Append(executed, c.num) /\ phase' = "routed" /\ inFlight' = {c}
      /\ UNCHANGED <<sent, newest, rollback>>
  BY DEF Transmit, ground
<1>3. executed \in Seq(Nat) BY DEF TypeOK
<1>4. Len(executed') = Len(executed) + 1 /\ Len(executed) \in Nat
  BY <1>2, <1>3
<1>5. \A i \in 1..Len(executed') :
          executed'[i] = IF i =< Len(executed) THEN executed[i] ELSE c.num
  BY <1>2, <1>3
<1>6. NumbersBounded'
  BY <1>1, <1>2, <1>4, <1>5 DEF ReplayInv, NumbersBounded, TypeOK
<1>7. ASSUME ~rollback, executed # << >> PROVE Last(executed) < c.num
  <2>1. AcceptedCount > 0 /\ LastAccepted = Last(executed)
    BY <1>7 DEF ReplayInv, SessionRemembers, Transmit, Arrives
  <2>2. Len(executed) \in 1..Len(executed) BY <1>3, <1>7
  <2>3. LastAccepted =< newest
    BY <2>1, <2>2 DEF Last, ReplayInv, NumbersBounded
  <2>4. c.num + MaxDelay >= newest /\ CheckSequence(c.num) = "NEW"
    BY DEF Transmit, Arrives
  <2>5. LastAccepted \in Nat /\ AcceptedCount \in Nat /\ newest \in Nat BY DEF TypeOK
  <2>6. LastAccepted - c.num =< MaxDelay
    BY <1>1, <2>3, <2>4, <2>5, DelayAssumption
  <2>7. ~(c.num =< LastAccepted)
    BY <1>1, <2>1, <2>4, <2>5, <2>6, OldIsNotNew
  <2> QED BY <1>1, <2>1, <2>5, <2>7
<1>8. ASSUME ~rollback, NEW i \in 1..Len(executed) PROVE executed[i] < c.num
  <2>1. executed # << >> BY <1>8, <1>3
  <2>2. Last(executed) < c.num BY <1>7, <1>8, <2>1
  <2>3. executed[i] =< Last(executed)
    <3>1. CASE i = Len(executed)
      BY <3>1, <1>3, <1>8 DEF Last
    <3>2. CASE i < Len(executed)
      BY <3>2, <1>3, <1>4, <1>8 DEF Last, ReplayInv, ExecutedInOrder
    <3> QED BY <3>1, <3>2, <1>4
  <2>4. executed[i] \in Nat /\ Last(executed) \in Nat BY <1>3, <1>4, <2>1 DEF Last
  <2> QED BY <1>1, <2>2, <2>3, <2>4
<1>9. ExecutedInOrder'
  <2> SUFFICES ASSUME ~rollback, NEW i \in 1..Len(executed'),
                      NEW j \in 1..Len(executed'), i < j
               PROVE  executed'[i] < executed'[j]
    BY <1>2 DEF ExecutedInOrder
  <2>1. CASE j =< Len(executed)
    BY <2>1, <1>4, <1>5 DEF ReplayInv, ExecutedInOrder
  <2>2. CASE j > Len(executed)
    BY <2>2, <1>4, <1>5, <1>8
  <2> QED BY <2>1, <2>2, <1>4
<1>10. SessionRemembers' BY <1>2 DEF SessionRemembers
<1>11. PublishedInFlight'
  <2>1. executed' # << >> BY <1>2, <1>3, <1>4
  <2>2. Last(executed)' = c.num
    <3>1. Len(executed') \in 1..Len(executed') BY <1>4
    <3> QED BY <1>4, <1>5, <3>1 DEF Last
  <2> QED BY <1>2, <2>1, <2>2 DEF PublishedInFlight
<1> QED BY <1>6, <1>9, <1>10, <1>11 DEF ReplayInv

\* Steps that publish nothing and leave the session's memory of what was
\* accepted alone.
LEMMA QuietReplay ==
    ASSUME ReplayInv, phase' = phase,
           UNCHANGED <<AcceptedCount, LastAccepted, inFlight, sent, newest,
                       executed, rollback>>
    PROVE  ReplayInv'
  BY DEF ReplayInv, NumbersBounded, ExecutedInOrder, SessionRemembers,
         PublishedInFlight, Last

LEMMA NextReplay == TypeOK /\ ReplayInv /\ [Next]_vars => ReplayInv'
<1> SUFFICES ASSUME TypeOK, ReplayInv, [Next]_vars PROVE ReplayInv' OBVIOUS
<1>1. CASE LoadState
  <2>1. UNCHANGED <<sent, newest, executed>> /\ phase' = "loaded"
    BY <1>1 DEF LoadState, ground
  <2>2. rollback' = FALSE => rollback = FALSE
    BY <1>1 DEF LoadState, TypeOK
  <2>3. ASSUME ~rollback', executed # << >>
        PROVE  AcceptedCount' > 0 /\ LastAccepted' = Last(executed)
    <3>1. file.valid /\ file.num = Last(executed)
      BY <1>1, <2>3 DEF LoadState, FileIsBehind, Last
    <3> QED BY <1>1, <3>1 DEF LoadState, RestoreReplay
  <2>4. NumbersBounded' /\ ExecutedInOrder'
    BY <1>1, <2>1 DEF LoadState, ReplayInv, NumbersBounded, ExecutedInOrder
  <2>5. SessionRemembers' BY <2>1, <2>3 DEF SessionRemembers, Last
  <2>6. PublishedInFlight' BY <2>1 DEF PublishedInFlight
  <2> QED BY <2>4, <2>5, <2>6 DEF ReplayInv
<1>2. ASSUME NEW ok \in BOOLEAN, BootSave(ok) PROVE ReplayInv'
  BY <1>2 DEF BootSave, memory, ground, history, ReplayInv, NumbersBounded,
              ExecutedInOrder, SessionRemembers, PublishedInFlight, Last
<1>3. CASE Crash
  BY <1>3 DEF Crash, ground, ReplayInv, NumbersBounded, ExecutedInOrder,
              SessionRemembers, PublishedInFlight
<1>4. CASE FileCorrupted
  BY <1>4, QuietReplay DEF FileCorrupted, memory, ground, history
<1>5. ASSUME NEW body \in Templates, GroundSend(body) PROVE ReplayInv'
  <2>1. newest \in Nat /\ NextNumber \in Nat /\ newest =< NextNumber
    BY DEF NextNumber, TypeOK
  <2>2. /\ newest' = NextNumber
        /\ sent' = sent \cup {[num |-> NextNumber, body |-> body]}
        /\ UNCHANGED <<phase, AcceptedCount, LastAccepted, inFlight, executed,
                       rollback>>
    BY <1>5 DEF GroundSend, memory, history
  <2>3. \A c \in sent : c.num \in Nat BY DEF TypeOK, Command
  <2>4. \A i \in 1..Len(executed) : executed[i] \in Nat BY DEF TypeOK
  <2>5. NumbersBounded'
    BY <2>1, <2>2, <2>3, <2>4 DEF ReplayInv, NumbersBounded
  <2> QED BY <2>2, <2>5 DEF ReplayInv, ExecutedInOrder, SessionRemembers,
                            PublishedInFlight, Last
<1>6. ASSUME NEW health \in HealthStates, HealthMessage(health) PROVE ReplayInv'
  BY <1>6, QuietReplay DEF HealthMessage, ground, history
<1>7. ASSUME NEW c \in sent, NEW ok \in BOOLEAN, ProcessExecResult(c, ok)
      PROVE  ReplayInv'
  BY <1>7, QuietReplay DEF ProcessExecResult, ground, history
<1>8. CASE Noop BY <1>8, QuietReplay DEF Noop, ground
<1>9. CASE DispatchError BY <1>9, QuietReplay DEF DispatchError, ground, history
<1>10. CASE ResetCounters
  BY <1>10, QuietReplay DEF ResetCounters, ResetReplayState, ground
<1>11. ASSUME NEW c \in sent, ProcessUplink(c) PROVE ReplayInv'
  <2>1. CASE DuplicateUplink(c)
    BY <2>1, QuietReplay DEF DuplicateUplink, ground
  <2>2. CASE ReplayedUplink(c) \/ RefusedUplink(c) \/ TransmitFailed(c)
    BY <2>2, QuietReplay
       DEF ReplayedUplink, RefusedUplink, TransmitFailed, Refuse, ground
  <2>3. CASE LocalReset(c) BY <2>3, QuietReplay DEF LocalReset, ground
  <2>4. CASE Transmit(c) BY <2>4, TransmitReplay
  <2> QED BY <1>11, <2>1, <2>2, <2>3, <2>4 DEF ProcessUplink
<1>12. ASSUME NEW ok \in BOOLEAN, Accept(ok) PROVE ReplayInv'
  <2> PICK c \in inFlight : Accept(ok)!(c)
    BY <1>12 DEF Accept
  <2>1. c.num = Last(executed) BY DEF ReplayInv, PublishedInFlight
  <2>2. AcceptedCount' > 0 BY DEF TypeOK
  <2>3. UNCHANGED <<sent, newest, executed, rollback>> BY DEF ground
  <2>4. NumbersBounded' /\ ExecutedInOrder'
    BY <2>3 DEF ReplayInv, NumbersBounded, ExecutedInOrder
  <2>5. SessionRemembers' BY <2>1, <2>2, <2>3 DEF SessionRemembers, Last
  <2>6. PublishedInFlight' BY DEF PublishedInFlight
  <2> QED BY <2>4, <2>5, <2>6 DEF ReplayInv
<1>13. CASE UNCHANGED vars
  BY <1>13, QuietReplay DEF vars, memory, ground, history
<1> QED BY <1>1, <1>2, <1>3, <1>4, <1>5, <1>6, <1>7, <1>8, <1>9, <1>10, <1>11,
           <1>12, <1>13 DEF Next

LEMMA ReplayInvariant == Spec => [](TypeOK /\ ReplayInv)
<1>1. Init => TypeOK /\ ReplayInv BY InitType, InitReplay
<1>2. TypeOK /\ ReplayInv /\ [Next]_vars => (TypeOK /\ ReplayInv)'
  BY NextType, NextReplay
<1> QED BY <1>1, <1>2, PTL DEF Spec

\* Replay protection, for every sequence space and every amount of crashes,
\* delayed copies, failed saves and counter resets: while every boot finds the
\* last published command in the file, commands are published in the ground's
\* order and none twice.
THEOREM ReplayProtection == Spec => []ExecutedInOrder
<1>1. TypeOK /\ ReplayInv => ExecutedInOrder BY DEF ReplayInv
<1> QED BY <1>1, ReplayInvariant, PTL

\* The modular comparison of CheckSequence never refuses a command that is
\* ahead by less than half the sequence space, on either side of the wrap.
THEOREM FreshIsNew == Spec => []FreshCommandIsNew
<1>1. TypeOK => FreshCommandIsNew
  <2> SUFFICES ASSUME TypeOK, NEW c \in sent, c.num > LastAccepted,
                      c.num < LastAccepted + Half
               PROVE  CheckSequence(c.num) = "NEW"
    BY DEF FreshCommandIsNew
  <2>1. c.num \in Nat /\ LastAccepted \in Nat BY DEF TypeOK, Command
  <2> QED BY <2>1, AheadIsNew
<1> QED BY <1>1, TypeCorrect, PTL

------------------------------------------------------------------------------
(* The gate *)

\* The intervention path stays open in every health state.
THEOREM GroundKeepsControl == Spec => []InterventionPathOpen
<1>1. TypeOK => InterventionPathOpen
  BY DEF TypeOK, InterventionPathOpen, Intervention, Verdict,
         ValidateProxyCommand, ResolveRouteTarget, Blocked, Refused, Exempt,
         IsAuthorized, RequiredLevel, RequestToken, ParsePayload
<1> QED BY <1>1, TypeCorrect, PTL

\* A verdict of ROUTED implies the policy, for the health the verdict used.
LEMMA RoutedIsAllowed ==
    ASSUME TypeOK, NEW c \in sent, Verdict(c.body) = "ROUTED"
    PROVE  /\ CfsHealthReceived
           /\ ~Blocked(c.body, CfsHealthState)
           /\ IsAuthorized(c.body)
           /\ c.body.payload # "EMPTY" \/ c.body.cls # "FLIGHT_MODE"
  BY DEF Verdict, ValidateProxyCommand, ParsePayload

\* Nothing else runs while a command is in flight, so the health that let it
\* through is still the health of the state.
InFlightOnlyRouted == phase # "routed" => inFlight = {}

LEMMA NextGate ==
    TypeOK /\ InFlightOnlyRouted /\ PublishedIsAllowed /\ [Next]_vars
        => (InFlightOnlyRouted /\ PublishedIsAllowed)'
<1> SUFFICES ASSUME TypeOK, InFlightOnlyRouted, PublishedIsAllowed, [Next]_vars
             PROVE  InFlightOnlyRouted' /\ PublishedIsAllowed'
  OBVIOUS
<1>1. ASSUME NEW c \in sent, Transmit(c)
      PROVE  InFlightOnlyRouted' /\ PublishedIsAllowed'
  <2>1. /\ inFlight' = {c} /\ phase' = "routed"
        /\ UNCHANGED <<CfsHealthState, CfsHealthReceived>>
        /\ Verdict(c.body) = "ROUTED"
    BY <1>1 DEF Transmit, memory
  <2>2. /\ CfsHealthReceived
        /\ ~Blocked(c.body, CfsHealthState)
        /\ IsAuthorized(c.body)
        /\ c.body.payload # "EMPTY" \/ c.body.cls # "FLIGHT_MODE"
    BY <2>1, RoutedIsAllowed
  <2>3. c.body \in Content /\ CfsHealthState \in NOMINAL..FAILED
    BY DEF TypeOK, Command
  <2>4. ~c.body.force =>
              /\ CfsHealthState \in {RECOVERY, FAILED} =>
                    c.body.cls \in {"RECOVERY", "DIAGNOSTIC", "FLIGHT_MODE"}
              /\ CfsHealthState # NOMINAL /\ c.body.cls = "FLIGHT_MODE" =>
                    c.body.sub # "WAYPOINT"
    BY <2>2, <2>3 DEF Blocked, Refused, Exempt, NOMINAL, DEGRADED, RECOVERY, FAILED
  <2>5. c.body.cls \in {"RECOVERY", "MODE", "COUNTER_MGMT", "FLIGHT_MODE"} =>
              c.body.auth = 3 /\ c.body.token
    BY <2>2, <2>3 DEF IsAuthorized, RequiredLevel, RequestToken, Content
  <2> QED BY <2>1, <2>2, <2>4, <2>5 DEF InFlightOnlyRouted, PublishedIsAllowed
<1>2. ASSUME inFlight' = {} PROVE InFlightOnlyRouted' /\ PublishedIsAllowed'
  BY <1>2 DEF InFlightOnlyRouted, PublishedIsAllowed
<1>3. ASSUME phase # "routed", UNCHANGED inFlight
      PROVE  InFlightOnlyRouted' /\ PublishedIsAllowed'
  BY <1>2, <1>3 DEF InFlightOnlyRouted
<1>4. CASE LoadState BY <1>3, <1>4 DEF LoadState
<1>5. ASSUME NEW ok \in BOOLEAN, BootSave(ok)
      PROVE  InFlightOnlyRouted' /\ PublishedIsAllowed'
  BY <1>3, <1>5 DEF BootSave
<1>6. CASE Crash BY <1>2, <1>6 DEF Crash
<1>7. CASE FileCorrupted BY <1>3, <1>7 DEF FileCorrupted
<1>8. ASSUME NEW body \in Templates, GroundSend(body)
      PROVE  InFlightOnlyRouted' /\ PublishedIsAllowed'
  BY <1>8 DEF GroundSend, memory, InFlightOnlyRouted, PublishedIsAllowed
<1>9. ASSUME NEW health \in HealthStates, HealthMessage(health)
      PROVE  InFlightOnlyRouted' /\ PublishedIsAllowed'
  BY <1>3, <1>9 DEF HealthMessage
<1>10. ASSUME NEW c \in sent, NEW ok \in BOOLEAN, ProcessExecResult(c, ok)
       PROVE  InFlightOnlyRouted' /\ PublishedIsAllowed'
  BY <1>3, <1>10 DEF ProcessExecResult
<1>11. CASE Noop BY <1>3, <1>11 DEF Noop
<1>12. CASE DispatchError BY <1>3, <1>12 DEF DispatchError
<1>13. CASE ResetCounters BY <1>3, <1>13 DEF ResetCounters
<1>14. ASSUME NEW c \in sent, ProcessUplink(c)
       PROVE  InFlightOnlyRouted' /\ PublishedIsAllowed'
  BY <1>1, <1>3, <1>14 DEF ProcessUplink, DuplicateUplink, ReplayedUplink,
     RefusedUplink, TransmitFailed, LocalReset, Refuse, Arrives
<1>15. ASSUME NEW ok \in BOOLEAN, Accept(ok)
       PROVE  InFlightOnlyRouted' /\ PublishedIsAllowed'
  BY <1>2, <1>15 DEF Accept
<1>16. CASE UNCHANGED vars
  BY <1>16 DEF vars, memory, InFlightOnlyRouted, PublishedIsAllowed
<1> QED BY <1>4, <1>5, <1>6, <1>7, <1>8, <1>9, <1>10, <1>11, <1>12, <1>13,
           <1>14, <1>15, <1>16 DEF Next

\* Whatever is published fits the vehicle's health and is authorised, for
\* every content the ground can send and every order of health messages.
THEOREM GateIsSafe == Spec => []PublishedIsAllowed
<1>1. Init => InFlightOnlyRouted /\ PublishedIsAllowed
  BY DEF Init, InFlightOnlyRouted, PublishedIsAllowed
<1> QED BY <1>1, NextGate, TypeCorrect, PTL DEF Spec

------------------------------------------------------------------------------
(* Duplicates *)

Published(num) == \E i \in 1..Len(executed) : executed[i] = num

\* What memory and file say was accepted was published, or is the 0 that stands
\* for nothing: Init saves the record also before the first command, and the
\* session after it takes AcceptedCount = 1 from that file.  No command of the
\* ground has the number 0.
RecordsTrue ==
    /\ \A c \in sent : c.num # 0
    /\ LastAccepted # 0 => Published(LastAccepted)
    /\ file.num # 0 => Published(file.num)
    /\ \A c \in inFlight : Published(c.num)

LEMMA QuietRecords ==
    ASSUME RecordsTrue,
           UNCHANGED <<LastAccepted, inFlight, sent, executed>>,
           file'.num \in {file.num, LastAccepted}
    PROVE  RecordsTrue'
  BY DEF RecordsTrue, Published

LEMMA NextRecords == TypeOK /\ RecordsTrue /\ [Next]_vars => RecordsTrue'
<1> SUFFICES ASSUME TypeOK, RecordsTrue, [Next]_vars PROVE RecordsTrue' OBVIOUS
<1>1. CASE LoadState
  <2>1. /\ LastAccepted' \in {LastAccepted, file.num}
        /\ UNCHANGED <<sent, inFlight, file, executed>>
    BY <1>1 DEF LoadState, RestoreReplay, ground
  <2> QED BY <2>1 DEF RecordsTrue, Published
<1>2. ASSUME NEW ok \in BOOLEAN, BootSave(ok) PROVE RecordsTrue'
  BY <1>2, QuietRecords DEF BootSave, SaveState, memory, ground, history
<1>3. CASE Crash
  <2>1. /\ LastAccepted' = 0 /\ inFlight' = {} /\ UNCHANGED <<sent, file, executed>>
    BY <1>3 DEF Crash, ClearMemory, ground
  <2> QED BY <2>1 DEF RecordsTrue, Published
<1>4. CASE FileCorrupted
  BY <1>4, QuietRecords DEF FileCorrupted, memory, ground, history, TypeOK, File
<1>5. ASSUME NEW body \in Templates, GroundSend(body) PROVE RecordsTrue'
  <2>1. NextNumber # 0 BY DEF NextNumber, TypeOK
  <2>2. /\ sent' = sent \cup {[num |-> NextNumber, body |-> body]}
        /\ UNCHANGED <<LastAccepted, inFlight, file, executed>>
    BY <1>5 DEF GroundSend, memory, history
  <2> QED BY <2>1, <2>2 DEF RecordsTrue, Published
<1>6. ASSUME NEW health \in HealthStates, HealthMessage(health) PROVE RecordsTrue'
  BY <1>6, QuietRecords DEF HealthMessage, ground, history
<1>7. ASSUME NEW c \in sent, NEW ok \in BOOLEAN, ProcessExecResult(c, ok)
      PROVE  RecordsTrue'
  BY <1>7, QuietRecords DEF ProcessExecResult, ground, history
<1>8. CASE Noop \/ DispatchError \/ ResetCounters
  BY <1>8, QuietRecords DEF Noop, DispatchError, ResetCounters, ResetReplayState, ground,
                            history
<1>9. ASSUME NEW c \in sent, ProcessUplink(c) PROVE RecordsTrue'
  <2>1. CASE Transmit(c)
    <3>1. /\ executed' = Append(executed, c.num) /\ inFlight' = {c}
          /\ UNCHANGED <<LastAccepted, file, sent>>
      BY <2>1 DEF Transmit, memory, ground
    <3>2. executed \in Seq(Nat) /\ c.num \in Nat BY DEF TypeOK, Command
    <3>3. /\ Len(executed') = Len(executed) + 1 /\ executed'[Len(executed) + 1] = c.num
          /\ \A i \in 1..Len(executed) : executed'[i] = executed[i]
          /\ Len(executed) \in Nat
      BY <3>1, <3>2
    <3>4. Published(c.num)' BY <3>1, <3>3 DEF Published
    <3>5. \A num : Published(num) => \E i \in 1..Len(executed') : executed'[i] = num
      BY <3>3 DEF Published
    <3> QED BY <3>1, <3>4, <3>5 DEF RecordsTrue, Published
  <2>2. CASE ~Transmit(c)
    BY <1>9, <2>2, QuietRecords
       DEF ProcessUplink, DuplicateUplink, ReplayedUplink, RefusedUplink, TransmitFailed,
           Refuse, LocalReset, ground
  <2> QED BY <2>1, <2>2
<1>10. ASSUME NEW ok \in BOOLEAN, Accept(ok) PROVE RecordsTrue'
  <2> PICK c \in inFlight : Accept(ok)!(c)
    BY <1>10 DEF Accept
  <2>1. /\ LastAccepted' = c.num /\ inFlight' = {} /\ file'.num \in {file.num, c.num}
        /\ UNCHANGED <<sent, executed>>
    BY DEF SaveState, ground
  <2> QED BY <2>1 DEF RecordsTrue, Published
<1>11. CASE UNCHANGED vars
  BY <1>11, QuietRecords DEF vars, memory, ground, history
<1> QED BY <1>1, <1>2, <1>3, <1>4, <1>5, <1>6, <1>7, <1>8, <1>9, <1>10, <1>11 DEF Next

\* Less than a turn apart, numbers that look the same are the same.
LEMMA SameOnWire ==
    ASSUME NEW u \in Nat, NEW v \in Nat, u - v < SeqMod, v - u < SeqMod, Wire(u) = Wire(v)
    PROVE  u = v
<1>1. SeqMod \in Nat \ {0} BY HalfAssumption DEF SeqMod
<1>2. Wire(u) \in 0..(SeqMod - 1) /\ Wire(v) \in 0..(SeqMod - 1) BY <1>1, DivMod DEF Wire
<1>3. ASSUME v < u PROVE FALSE
  <2>1. Wire(u) - Wire(v) = u - v \/ Wire(u) - Wire(v) = u - v - SeqMod
    BY <1>3, WireDistance
  <2>2. Wire(u) - Wire(v) = 0 BY <1>2
  <2> QED BY <1>1, <1>3, <2>1, <2>2
<1>4. ASSUME u < v PROVE FALSE
  <2>1. Wire(v) - Wire(u) = v - u \/ Wire(v) - Wire(u) = v - u - SeqMod
    BY <1>4, WireDistance
  <2>2. Wire(v) - Wire(u) = 0 BY <1>2
  <2> QED BY <1>1, <1>4, <2>1, <2>2
<1> QED BY <1>3, <1>4

\* For every sequence space, and also after rollbacks, lost files and failed saves:
\* DUPLICATE is only said of a command that was published (DUPLICATE branch of
\* ProcessUplink), while the ground is less than a turn ahead of the session.  The
\* invariant is needed because the number that CheckSequence compares with comes
\* from the file, which Init writes without an acceptance too.
THEOREM DuplicateIsTrue == Spec => []DuplicateWasExecuted
<1>1. Init => RecordsTrue BY DEF Init, RecordsTrue
<1>2. TypeOK /\ ReplayInv /\ RecordsTrue => DuplicateWasExecuted
  <2> SUFFICES ASSUME TypeOK, ReplayInv, RecordsTrue, NEW c \in sent,
                      c.num + MaxDelay >= newest, newest < LastAccepted + SeqMod,
                      CheckSequence(c.num) = "DUPLICATE"
               PROVE  \E i \in 1..Len(executed) : executed[i] = c.num
    BY DEF DuplicateWasExecuted
  <2>1. c.num \in Nat /\ LastAccepted \in Nat /\ newest \in Nat /\ AcceptedCount \in Nat
    BY DEF TypeOK, Command
  <2>2. Wire(c.num) = Wire(LastAccepted) BY DEF CheckSequence
  <2>3. c.num =< newest BY DEF ReplayInv, NumbersBounded
  <2>4. CASE LastAccepted =< newest
    <3>1. /\ c.num - LastAccepted < SeqMod
          /\ LastAccepted - c.num < SeqMod
      BY <2>1, <2>3, <2>4, DelayAssumption, HalfAssumption DEF SeqMod
    <3>2. c.num = LastAccepted BY <2>1, <2>2, <3>1, SameOnWire
    <3> QED BY <3>2 DEF RecordsTrue, Published
  <2>5. CASE LastAccepted > newest
    <3>1. LastAccepted # 0 BY <2>1, <2>5
    <3>2. PICK i \in 1..Len(executed) : executed[i] = LastAccepted
      BY <3>1 DEF RecordsTrue, Published
    <3> QED BY <2>1, <2>5, <3>2 DEF ReplayInv, NumbersBounded
  <2> QED BY <2>1, <2>4, <2>5
<1>3. TypeOK /\ RecordsTrue /\ [Next]_vars => RecordsTrue' BY NextRecords
<1> QED BY <1>1, <1>2, <1>3, ReplayInvariant, PTL DEF Spec

------------------------------------------------------------------------------
(* What the file records is final *)

\* The inductive invariant behind SavedIsNeverRepeated.  The property compares
\* with the file and CheckSequence with memory, so the invariant keeps memory at
\* least as new as a readable file while the app runs, says that a session which
\* accepts anything as new knows no number above 0, and keeps the command that
\* is published but not yet recorded above both.
SavedInv ==
    /\ AcceptedCount = 0 => LastAccepted = 0
    /\ phase # "off" /\ file.valid => file.num =< LastAccepted
    /\ phase = "routed" => \A c \in inFlight : c.num > LastAccepted

\* The property of one step.
SavedStep ==
    file.valid =>
        /\ file'.valid => file'.num >= file.num
        /\ executed' # executed => executed'[Len(executed')] > file.num

\* A copy that CheckSequence takes for new is newer than all the session knows,
\* whatever that session restored.
LEMMA NewIsAbove ==
    ASSUME TypeOK, NumbersBounded, RecordsTrue, SavedInv, NEW c \in sent, Arrives(c),
           CheckSequence(c.num) = "NEW"
    PROVE  c.num > LastAccepted
<1>1. c.num \in Nat /\ LastAccepted \in Nat /\ AcceptedCount \in Nat /\ newest \in Nat
  BY DEF TypeOK, Command
<1>2. CASE AcceptedCount = 0
  BY <1>1, <1>2 DEF SavedInv, RecordsTrue
<1>3. CASE AcceptedCount > 0
  <2>1. LastAccepted =< newest
    <3>1. CASE LastAccepted = 0 BY <1>1, <3>1
    <3>2. CASE LastAccepted # 0
      <4>1. PICK i \in 1..Len(executed) : executed[i] = LastAccepted
        BY <3>2 DEF RecordsTrue, Published
      <4> QED BY <4>1 DEF NumbersBounded
    <3> QED BY <3>1, <3>2
  <2>2. LastAccepted - c.num =< MaxDelay
    BY <1>1, <2>1, DelayAssumption DEF Arrives
  <2>3. ~(c.num =< LastAccepted)
    BY <1>1, <1>3, <2>2, OldIsNotNew
  <2> QED BY <1>1, <2>3
<1> QED BY <1>1, <1>2, <1>3

\* Steps that leave the session's memory, the file and the histories alone.
LEMMA QuietSaved ==
    ASSUME TypeOK, SavedInv, phase' = phase,
           UNCHANGED <<AcceptedCount, LastAccepted, file, inFlight, executed>>
    PROVE  SavedInv' /\ SavedStep
<1>1. file.num \in Nat BY DEF TypeOK, File
<1> QED BY <1>1 DEF SavedInv, SavedStep

LEMMA NextSaved ==
    TypeOK /\ NumbersBounded /\ RecordsTrue /\ SavedInv /\ [Next]_vars
        => SavedInv' /\ SavedStep
<1> SUFFICES ASSUME TypeOK, NumbersBounded, RecordsTrue, SavedInv, [Next]_vars
             PROVE  SavedInv' /\ SavedStep
  OBVIOUS
<1>t. /\ file.num \in Nat /\ LastAccepted \in Nat /\ AcceptedCount \in Nat
      /\ file \in File
  BY DEF TypeOK, File
<1>1. CASE LoadState
  BY <1>1, <1>t DEF LoadState, RestoreReplay, SavedInv, SavedStep
<1>2. ASSUME NEW ok \in BOOLEAN, BootSave(ok) PROVE SavedInv' /\ SavedStep
  <2>1. /\ phase # "off" /\ phase' # "off" /\ phase' # "routed"
        /\ UNCHANGED <<AcceptedCount, LastAccepted, inFlight, executed>>
        /\ file' = IF ok THEN [valid |-> TRUE, num |-> LastAccepted] ELSE file
    BY <1>2 DEF BootSave, SaveState, memory, history
  <2>2. file' = file \/ file'.num = LastAccepted BY <2>1
  <2>3. file.valid => file.num =< LastAccepted BY <2>1 DEF SavedInv
  <2> QED BY <1>t, <2>1, <2>2, <2>3 DEF SavedInv, SavedStep
<1>3. CASE Crash
  BY <1>3, <1>t DEF Crash, ClearMemory, SavedInv, SavedStep
<1>4. CASE FileCorrupted
  <2>1. /\ ~file'.valid /\ phase' = phase
        /\ UNCHANGED <<AcceptedCount, LastAccepted, inFlight, executed>>
    BY <1>4, <1>t DEF FileCorrupted, memory, history, File
  <2> QED BY <2>1 DEF SavedInv, SavedStep
<1>5. ASSUME NEW body \in Templates, GroundSend(body) PROVE SavedInv' /\ SavedStep
  BY <1>5, QuietSaved DEF GroundSend, memory, history
<1>6. ASSUME NEW health \in HealthStates, HealthMessage(health)
      PROVE  SavedInv' /\ SavedStep
  BY <1>6, QuietSaved DEF HealthMessage, history
<1>7. ASSUME NEW c \in sent, NEW ok \in BOOLEAN, ProcessExecResult(c, ok)
      PROVE  SavedInv' /\ SavedStep
  BY <1>7, QuietSaved DEF ProcessExecResult, history
<1>8. CASE Noop \/ DispatchError \/ ResetCounters
  BY <1>8, QuietSaved DEF Noop, DispatchError, ResetCounters, ResetReplayState, history
<1>9. ASSUME NEW c \in sent, ProcessUplink(c) PROVE SavedInv' /\ SavedStep
  <2>1. CASE Transmit(c)
    <3>1. /\ executed' = Append(executed, c.num) /\ inFlight' = {c}
          /\ phase = "run" /\ phase' = "routed"
          /\ UNCHANGED <<AcceptedCount, LastAccepted, file>>
          /\ CheckSequence(c.num) = "NEW" /\ Arrives(c)
      BY <2>1 DEF Transmit, Arrives, memory
    <3>2. c.num > LastAccepted BY <3>1, NewIsAbove
    <3>3. c.num \in Nat /\ executed \in Seq(Nat) BY DEF TypeOK, Command
    <3>4. executed'[Len(executed')] = c.num BY <3>1, <3>3
    <3>5. file.valid => file.num =< LastAccepted BY <3>1 DEF SavedInv
    <3>6. SavedInv' BY <3>1, <3>2, <3>5 DEF SavedInv
    <3>7. SavedStep BY <1>t, <3>1, <3>2, <3>3, <3>4, <3>5 DEF SavedStep
    <3> QED BY <3>6, <3>7
  <2>2. CASE ~Transmit(c)
    BY <1>9, <2>2, QuietSaved
       DEF ProcessUplink, DuplicateUplink, ReplayedUplink, RefusedUplink, TransmitFailed,
           Refuse, LocalReset
  <2> QED BY <2>1, <2>2
<1>10. ASSUME NEW ok \in BOOLEAN, Accept(ok) PROVE SavedInv' /\ SavedStep
  <2> PICK c \in inFlight : Accept(ok)!(c)
    BY <1>10 DEF Accept
  <2>1. /\ phase = "routed" /\ phase' = "run" /\ inFlight' = {}
        /\ AcceptedCount' = AcceptedCount + 1 /\ LastAccepted' = c.num
        /\ executed' = executed
        /\ file' = IF ok THEN [valid |-> TRUE, num |-> c.num] ELSE file
    BY DEF SaveState
  <2>2. c.num \in Nat BY DEF TypeOK, Command
  <2>3. c.num > LastAccepted /\ (file.valid => file.num =< LastAccepted)
    BY <2>1 DEF SavedInv
  <2>4. file' = file \/ file'.num = c.num BY <2>1
  <2> QED BY <1>t, <2>1, <2>2, <2>3, <2>4 DEF SavedInv, SavedStep
<1>11. CASE UNCHANGED vars
  BY <1>11, QuietSaved DEF vars, memory, history
<1> QED BY <1>1, <1>2, <1>3, <1>4, <1>5, <1>6, <1>7, <1>8, <1>9, <1>10, <1>11 DEF Next

\* For every sequence space and however the app was restarted - before the save of
\* a published command, between the saves of Init, after failed saves, with the
\* file lost -: a number the file holds is only replaced by a later one, and no
\* command as old as that number is published again (SaveState, LoadState,
\* CheckSequence).
THEOREM SavedIsFinal == Spec => SavedIsNeverRepeated
<1>1. Init => RecordsTrue /\ SavedInv BY DEF Init, RecordsTrue, SavedInv
<1>2. TypeOK /\ ReplayInv => NumbersBounded BY DEF ReplayInv
<1>3. TypeOK /\ RecordsTrue /\ [Next]_vars => RecordsTrue' BY NextRecords
<1>4. TypeOK /\ NumbersBounded /\ RecordsTrue /\ SavedInv /\ [Next]_vars
        => SavedInv' /\ SavedStep
  BY NextSaved
<1>5. SavedStep <=> (file.valid =>
          /\ file'.valid => file'.num >= file.num
          /\ executed' # executed => executed'[Len(executed')] > file.num)
  BY DEF SavedStep
<1> QED BY <1>1, <1>2, <1>3, <1>4, <1>5, ReplayInvariant, PTL
        DEF Spec, SavedIsNeverRepeated

------------------------------------------------------------------------------
(* Counters *)

\* A handled message that is counted once keeps the sum of the counters right,
\* whether or not CmdCounter wraps.
LEMMA OneMoreCounted ==
    ASSUME NEW m \in Nat \ {0}, NEW cmd \in 0..(m - 1), NEW rest \in Nat, NEW n \in Nat,
           (cmd + rest) % m = n % m
    PROVE  /\ (((cmd + 1) % m) + rest) % m = (n + 1) % m
           /\ (cmd + (rest + 1)) % m = (n + 1) % m
<1>1. (cmd + rest + 1) % m = (n + 1) % m
  <2> DEFINE k == cmd + rest
  <2>1. k \in Nat /\ k % m = n % m OBVIOUS
  <2>2. ((k % m) + 1) % m = (k + 1) % m /\ ((n % m) + 1) % m = (n + 1) % m
    <3> HIDE DEF k
    <3> QED BY <2>1, ModIncrement
  <2> HIDE DEF k
  <2>3. (k + 1) % m = (n + 1) % m BY <2>1, <2>2
  <2> QED BY <2>3 DEF k
<1>2. CASE cmd + 1 < m
  <2>1. (cmd + 1) % m = cmd + 1 BY <1>2
  <2>2. (cmd + 1) + rest = cmd + rest + 1 /\ cmd + (rest + 1) = cmd + rest + 1 OBVIOUS
  <2> QED BY <1>1, <2>1, <2>2
<1>3. CASE cmd + 1 = m
  <2>1. (cmd + 1) % m = 0
    <3>1. m % m = 0 OBVIOUS
    <3> QED BY <1>3, <3>1
  <2>2. 0 + rest = rest /\ cmd + rest + 1 = rest + m /\ cmd + (rest + 1) = cmd + rest + 1
    BY <1>3
  <2>3. (rest + m) % m = rest % m BY ModPeriod
  <2> QED BY <1>1, <2>1, <2>2, <2>3
<1> QED BY <1>2, <1>3

\* For every width of CmdCounter and any number of messages, resets and crashes:
\* each return of ProcessUplink counts once (CountRefusal, CountDuplicate, the
\* acceptance record), and NOOP too.  The statement is inductive as it stands; what
\* it takes is that CmdCounter's wrap adds a multiple of the modulus.
THEOREM UplinksCounted == Spec => []EveryUplinkCounted
<1>1. Init => EveryUplinkCounted
  BY CounterAssumption DEF Init, EveryUplinkCounted, Zeroed
<1>2. TypeOK /\ EveryUplinkCounted /\ [Next]_vars => EveryUplinkCounted'
  <2> SUFFICES ASSUME TypeOK, EveryUplinkCounted, [Next]_vars
               PROVE  EveryUplinkCounted'
    OBVIOUS
  <2> DEFINE rest == stats.Rejected + stats.Duplicate + stats.RoutingFailure
             sum  == stats.Cmd + rest
  <2>1. /\ stats \in Stats /\ stats.Cmd \in 0..(CounterMod - 1) /\ rest \in Nat
        /\ stats.Rejected \in Nat /\ stats.Duplicate \in Nat /\ stats.RoutingFailure \in Nat
        /\ handled \in Nat /\ CounterMod \in Nat \ {0}
    BY CounterAssumption DEF TypeOK, Stats
  <2>2. sum = stats.Cmd + stats.Rejected + stats.Duplicate + stats.RoutingFailure
    BY <2>1
  <2>3. sum % CounterMod = handled % CounterMod
    BY <2>1, <2>2 DEF EveryUplinkCounted
  <2>4. ASSUME NEW cmd \in 0..(CounterMod - 1), NEW r \in Nat, stats'.Cmd = cmd,
               stats'.Rejected \in Nat, stats'.Duplicate \in Nat,
               stats'.RoutingFailure \in Nat,
               r = stats'.Rejected + stats'.Duplicate + stats'.RoutingFailure,
               (cmd + r) % CounterMod = handled' % CounterMod
        PROVE  EveryUplinkCounted'
    <3>1. stats'.Cmd + stats'.Rejected + stats'.Duplicate + stats'.RoutingFailure = cmd + r
      BY <2>4
    <3> QED BY <2>4, <3>1 DEF EveryUplinkCounted
  <2>5. /\ (U8(stats.Cmd + 1) + rest) % CounterMod = (handled + 1) % CounterMod
        /\ (stats.Cmd + (rest + 1)) % CounterMod = (handled + 1) % CounterMod
    <3> HIDE DEF rest
    <3> QED BY <2>1, <2>3, OneMoreCounted DEF U8
  <2>6. CASE UNCHANGED <<stats, handled>>
    BY <2>6 DEF EveryUplinkCounted
  <2>7. CASE stats' = Zeroed /\ handled' = 0
    BY <2>1, <2>7 DEF EveryUplinkCounted, Zeroed
  <2>8. ASSUME NEW result, NEW errors, stats' = CountRefusal(result, errors),
               handled' = handled + 1
        PROVE  EveryUplinkCounted'
    <3>1. /\ stats'.Cmd = stats.Cmd
          /\ stats'.Rejected \in Nat /\ stats'.Duplicate \in Nat /\ stats'.RoutingFailure \in Nat
          /\ rest + 1 = stats'.Rejected + stats'.Duplicate + stats'.RoutingFailure
          /\ rest + 1 \in Nat
      BY <2>1, <2>8 DEF CountRefusal, Stats
    <3> HIDE DEF rest
    <3> QED BY <2>1, <2>4, <2>5, <2>8, <3>1
  <2>9. ASSUME stats' = CountDuplicate, handled' = handled + 1
        PROVE  EveryUplinkCounted'
    <3>1. /\ stats'.Cmd = stats.Cmd
          /\ stats'.Rejected \in Nat /\ stats'.Duplicate \in Nat /\ stats'.RoutingFailure \in Nat
          /\ rest + 1 = stats'.Rejected + stats'.Duplicate + stats'.RoutingFailure
          /\ rest + 1 \in Nat
      BY <2>1, <2>9 DEF CountDuplicate, Stats
    <3> HIDE DEF rest
    <3> QED BY <2>1, <2>4, <2>5, <2>9, <3>1
  <2>10. ASSUME stats' = [stats EXCEPT !.Cmd = U8(@ + 1)], handled' = handled + 1
         PROVE  EveryUplinkCounted'
    <3>1. U8(stats.Cmd + 1) \in 0..(CounterMod - 1)
      BY <2>1, U8Range
    <3>2. /\ stats'.Cmd = U8(stats.Cmd + 1)
          /\ stats'.Rejected \in Nat /\ stats'.Duplicate \in Nat /\ stats'.RoutingFailure \in Nat
          /\ rest = stats'.Rejected + stats'.Duplicate + stats'.RoutingFailure
      BY <2>1, <2>10 DEF Stats
    <3> HIDE DEF rest
    <3> QED BY <2>1, <2>4, <2>5, <2>10, <3>1, <3>2
  <2>11. CASE DispatchError
    <3>1. /\ stats'.Cmd = stats.Cmd /\ stats'.Rejected = stats.Rejected
          /\ stats'.Duplicate = stats.Duplicate
          /\ stats'.RoutingFailure = stats.RoutingFailure /\ handled' = handled
      BY <2>1, <2>11 DEF DispatchError, history, Stats
    <3> QED BY <3>1 DEF EveryUplinkCounted
  <2>12. CASE \/ LoadState \/ FileCorrupted
              \/ \E ok \in BOOLEAN : BootSave(ok)
              \/ \E body \in Templates : GroundSend(body)
              \/ \E health \in HealthStates : HealthMessage(health)
              \/ \E c \in sent, ok \in BOOLEAN : ProcessExecResult(c, ok)
              \/ UNCHANGED vars
    BY <2>6, <2>12 DEF LoadState, FileCorrupted, BootSave, GroundSend, HealthMessage,
       ProcessExecResult, vars, memory, history
  <2>13. CASE Crash \/ ResetCounters
    BY <2>7, <2>13 DEF Crash, ClearMemory, ResetCounters
  <2>14. CASE Noop
    BY <2>10, <2>14 DEF Noop
  <2>15. ASSUME NEW c \in sent, ProcessUplink(c) PROVE EveryUplinkCounted'
    <3>1. CASE DuplicateUplink(c) BY <2>9, <3>1 DEF DuplicateUplink
    <3>2. CASE ReplayedUplink(c) \/ RefusedUplink(c) \/ TransmitFailed(c)
      BY <2>8, <3>2 DEF ReplayedUplink, RefusedUplink, TransmitFailed, Refuse
    <3>3. CASE LocalReset(c) BY <2>7, <3>3 DEF LocalReset
    <3>4. CASE Transmit(c) BY <2>6, <3>4 DEF Transmit, memory
    <3> QED BY <2>15, <3>1, <3>2, <3>3, <3>4 DEF ProcessUplink
  <2>16. ASSUME NEW ok \in BOOLEAN, Accept(ok) PROVE EveryUplinkCounted'
    BY <2>10, <2>16 DEF Accept, CountRouted
  <2> QED BY <2>11, <2>12, <2>13, <2>14, <2>15, <2>16 DEF Next
<1> QED BY <1>1, <1>2, TypeCorrect, PTL DEF Spec
==============================================================================
