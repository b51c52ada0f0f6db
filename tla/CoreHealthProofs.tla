-------------------------- MODULE CoreHealthProofs ---------------------------
(****************************************************************************)
(* Proofs about the health state of cfs_core_app for every number of apps   *)
(* and estimates and all timeouts, across wraps of the clock, crashes and   *)
(* failed saves.                                                            *)
(*                                                                          *)
(* Neither promise about the health is inductive: what keeps NOMINAL and    *)
(* FAILED from coming too early is that a timer that runs is never older    *)
(* than the time the history has counted, and that a new session, whatever  *)
(* its state file says, has received nothing yet when it evaluates first.   *)
(*                                                                          *)
(* The promises about restarts count evaluations: each one in which an app  *)
(* is passed over restarts another app, whose own deadline then keeps it    *)
(* from being the cause again.  They hold until the clock nears its end.    *)
(*                                                                          *)
(* That the health returns needs to know what the last tick brought: inputs *)
(* heard in it are not lost in this one, so the wait for NOMINAL runs on.   *)
(* After a restart of the bridge that is so once its counter has caught up  *)
(* with the cached numbers (Calm).                                          *)
(****************************************************************************)
EXTENDS CoreHealth, FiniteSetTheorems, WellFoundedInduction, TLAPS

------------------------------------------------------------------------------
(* The clock *)

LEMMA ClockRange == TimeMod \in Nat \ {0} /\ TimeMod >= 2 /\ Ticks = 0..(TimeMod - 1)
  BY TimesAssumption DEF Ticks

\* A multiple of m strictly between -m and 2m is 0 or m.
LEMMA SmallMultiple ==
    ASSUME NEW m \in Nat \ {0}, NEW d \in Int, -m < m * d, m * d < 2 * m
    PROVE  m * d = 0 \/ m * d = m
<1>1. CASE d = 0 BY <1>1
<1>2. CASE d = 1 BY <1>2
<1>3. CASE d >= 2
  <2>1. m * d >= m * 2 BY <1>3
  <2> QED BY <2>1
<1>4. CASE d =< -1
  <2>1. m * d =< -m BY <1>4
  <2> QED BY <2>1
<1> QED BY <1>1, <1>2, <1>3, <1>4

\* Remainders of numbers below twice the modulus.
LEMMA SmallRemainder ==
    ASSUME NEW m \in Nat \ {0}, NEW x \in 0..(2 * m - 1)
    PROVE  x % m = IF x < m THEN x ELSE x - m
<1>1. CASE x < m
  <2>1. x \in 0..(m - 1) BY <1>1
  <2> QED BY <1>1, <2>1
<1>2. CASE x >= m
  <2> DEFINE q == x \div m
             s == x % m
             d == q - 1
             e == m * d
  <2>1. q \in Nat /\ s \in 0..(m - 1) /\ x = m * q + s
    <3>1. x \in Nat OBVIOUS
    <3> QED BY <3>1
  <2>2. d \in Int /\ e \in Int
    <3>1. d \in Int BY <2>1
    <3> HIDE DEF d
    <3> QED BY <3>1
  <2>3. e = m * q - m BY <2>1
  <2>4. e = x - m - s
    <3> DEFINE f == m * q
    <3>1. f \in Int BY <2>1
    <3>2. x = f + s /\ e = f - m BY <2>1, <2>3
    <3> HIDE DEF e, f, q, s
    <3> QED BY <2>1, <3>1, <3>2
  <2>5. -m < e /\ e < m
    <3> HIDE DEF e, q, s
    <3> QED BY <1>2, <2>1, <2>4
  <2>6. e = 0 \/ e = m
    <3>1. -m < m * d /\ m * d < 2 * m
      <4> HIDE DEF d
      <4> QED BY <2>2, <2>5
    <3> HIDE DEF d
    <3> QED BY <2>2, <3>1, SmallMultiple
  <2> HIDE DEF e, s
  <2>7. s = x - m BY <2>1, <2>4, <2>5, <2>6
  <2> QED BY <1>2, <2>7 DEF s
<1> QED BY <1>1, <1>2

LEMMA ElapsedIs ==
    ASSUME now \in Ticks, NEW t \in Ticks
    PROVE  Elapsed(t) = IF now >= t THEN now - t ELSE now + TimeMod - t
<1> DEFINE x == now + TimeMod - t
<1>1. x \in 0..(2 * TimeMod - 1) BY ClockRange
<1>2. Elapsed(t) = x % TimeMod BY DEF Elapsed
<1>3. x % TimeMod = IF x < TimeMod THEN x ELSE x - TimeMod
  <2> HIDE DEF x
  <2> QED BY <1>1, ClockRange, SmallRemainder
<1> QED BY <1>2, <1>3, ClockRange

LEMMA SoonerIs ==
    ASSUME now \in Ticks
    PROVE  Sooner(now) \in Ticks /\ Sooner(now) = IF now + 1 < TimeMod THEN now + 1 ELSE 0
<1> DEFINE x == now + 1
<1>1. x \in 0..(2 * TimeMod - 1) BY ClockRange
<1>2. Sooner(now) = x % TimeMod BY DEF Sooner
<1> HIDE DEF x
<1>3. x % TimeMod = IF x < TimeMod THEN x ELSE x - TimeMod
  BY <1>1, ClockRange, SmallRemainder
<1> QED BY <1>2, <1>3, ClockRange DEF x

\* With every tick a timer is one tick older, or it has come round to zero.
LEMMA TickElapsed ==
    ASSUME now \in Ticks, NEW t \in Ticks, now' = Sooner(now)
    PROVE  Elapsed(t) \in Nat /\ Elapsed(t)' \in Nat /\ Elapsed(t)' =< Elapsed(t) + 1
<1>1. now' \in Ticks /\ now' = IF now + 1 < TimeMod THEN now + 1 ELSE 0 BY SoonerIs
<1>2. Elapsed(t) = IF now >= t THEN now - t ELSE now + TimeMod - t BY ElapsedIs
<1>3. Elapsed(t)' = IF now' >= t THEN now' - t ELSE now' + TimeMod - t
  <2>1. now' + TimeMod - t \in 0..(2 * TimeMod - 1) BY <1>1, ClockRange
  <2> DEFINE x == now' + TimeMod - t
  <2>2. Elapsed(t)' = x % TimeMod BY DEF Elapsed
  <2>3. x % TimeMod = IF x < TimeMod THEN x ELSE x - TimeMod
    <3>1. x \in 0..(2 * TimeMod - 1) BY <2>1
    <3> HIDE DEF x
    <3> QED BY <3>1, ClockRange, SmallRemainder
  <2> QED BY <1>1, <2>2, <2>3, ClockRange
<1> QED BY <1>1, <1>2, <1>3, ClockRange

------------------------------------------------------------------------------
(* Type correctness *)

InputType == [Inputs -> [received : BOOLEAN, age : Nat, usable : BOOLEAN]]

LEMMA IndexOf ==
    ASSUME NEW a \in AppSet
    PROVE  Index(a) \in 1..Len(Apps) /\ Apps[Index(a)] = a
<1>1. \E k \in 1..Len(Apps) : Apps[k] = a BY DEF AppSet
<1> QED BY <1>1 DEF Index

LEMMA TimeoutType == ASSUME NEW i \in Inputs PROVE Timeout[i] \in Nat
  BY TimesAssumption

\* What CheckAppRestarts makes of the deadlines.
LEMMA DeadlineType ==
    ASSUME TypeOK, NEW lost, NEW a \in AppSet
    PROVE  NextDeadline(lost, Index(a)) \in Ticks
<1>1. NextRestartMs[Apps[Index(a)]] \in Ticks BY IndexOf DEF TypeOK
<1>2. (now + Interval) % TimeMod \in Ticks
  <2>1. now + Interval \in Nat BY TimesAssumption DEF TypeOK, Ticks
  <2> QED BY <2>1, ClockRange
<1>3. 0 \in Ticks BY ClockRange
<1>4. Apps[Index(a)] = a BY IndexOf
<1> QED BY <1>1, <1>2, <1>3, <1>4 DEF NextDeadline, Deadline

LEMMA CountType ==
    ASSUME NEW n \in Nat PROVE Least(n + 1, CountCap) \in Nat
  BY BoundsAssumption DEF Least

LEMMA DerivedType ==
    ASSUME TypeOK, NEW lost
    PROVE  /\ Derived(lost) \in Health
           /\ RecoveryStart(lost) \in Ticks /\ EligibleSince(lost) \in Ticks
<1>1. 0 \in Ticks BY ClockRange
<1> QED BY <1>1 DEF Derived, RecoveryStart, EligibleSince, TypeOK, Health, NOMINAL,
      DEGRADED, RECOVERY, FAILED

FileType == [valid : BOOLEAN, health : Health, count : [AppSet -> Nat]]

LEMMA SavedType ==
    ASSUME NEW h \in Health, NEW c \in [AppSet -> Nat]
    PROVE  [valid |-> TRUE, health |-> h, count |-> c] \in FileType
  BY DEF FileType

\* What UpdateHealth assigns.
EvaluatedType ==
    /\ LastHealthState \in Health /\ published \in Health
    /\ RecoveryStartMs \in Ticks /\ NominalEligibleSince \in Ticks
    /\ LastPublishTimeMs \in Ticks
    /\ NextRestartMs \in [AppSet -> Ticks] /\ RestartCount \in [AppSet -> Nat]
    /\ file \in FileType
    /\ restarting \in BOOLEAN /\ turn \in BOOLEAN
    /\ clear \in Nat /\ down \in Nat
    /\ waiting \in [AppSet -> Nat] /\ since \in [AppSet -> Nat]

LEMMA UpdateHealthType ==
    ASSUME TypeOK, NEW in, NEW ok \in BOOLEAN, UpdateHealth(in, ok)
    PROVE  EvaluatedType'
<1> DEFINE lost == Lost(in)
<1>0. CheckAppRestarts(lost) /\ Remember(lost) BY DEF UpdateHealth
<1>1. NextRestartMs' \in [AppSet -> Ticks]
  <2>1. NextRestartMs' = [a \in AppSet |-> NextDeadline(lost, Index(a))]
    BY <1>0 DEF CheckAppRestarts
  <2> HIDE DEF lost
  <2> QED BY <2>1, DeadlineType
<1>2. RestartCount' \in [AppSet -> Nat] /\ restarting' \in BOOLEAN
  <2>1. RestartCount' = [a \in AppSet |-> IF Index(a) \in Restarted(lost)
                           THEN Least(RestartCount[a] + 1, CountCap) ELSE RestartCount[a]]
    BY <1>0 DEF CheckAppRestarts
  <2>2. restarting' \in BOOLEAN BY <1>0 DEF CheckAppRestarts, TypeOK
  <2>3. \A a \in AppSet : RestartCount[a] \in Nat BY DEF TypeOK
  <2> HIDE DEF lost
  <2> QED BY <2>1, <2>2, <2>3, CountType
<1>3. /\ LastHealthState' \in Health /\ published' \in Health
      /\ RecoveryStartMs' \in Ticks /\ NominalEligibleSince' \in Ticks
      /\ LastPublishTimeMs' \in Ticks /\ turn' \in BOOLEAN
  <2>1. /\ LastHealthState' = Derived(lost) /\ published' = Derived(lost)
        /\ RecoveryStartMs' = RecoveryStart(lost)
        /\ NominalEligibleSince' \in {0, EligibleSince(lost)}
        /\ LastPublishTimeMs' = now /\ turn' = TRUE
    BY DEF UpdateHealth
  <2>2. 0 \in Ticks /\ now \in Ticks BY ClockRange DEF TypeOK
  <2> HIDE DEF lost
  <2> QED BY <2>1, <2>2, DerivedType
<1>4. file' \in FileType
  <2>1. \/ file' = file
        \/ file' = [valid |-> TRUE, health |-> LastHealthState, count |-> RestartCount']
        \/ file' = [valid |-> TRUE, health |-> LastHealthState', count |-> RestartCount']
    BY DEF UpdateHealth, SaveState
  <2>2. LastHealthState \in Health /\ file \in FileType BY DEF TypeOK, FileType
  <2> QED BY <1>2, <1>3, <2>1, <2>2, SavedType
<1>5. clear' \in Nat /\ down' \in Nat BY <1>0 DEF Remember, TypeOK
<1>6. waiting' \in [AppSet -> Nat] /\ since' \in [AppSet -> Nat]
  BY <1>0 DEF Remember, TypeOK
<1> QED BY <1>1, <1>2, <1>3, <1>4, <1>5, <1>6 DEF EvaluatedType

LEMMA ArrivalType ==
    ASSUME TypeOK, NEW f \in Feeds, NEW kind
    PROVE  [input EXCEPT ![f] = Arrival(f, kind)] \in InputType
<1>1. input \in InputType /\ f \in Inputs BY DEF TypeOK, InputType, Inputs
<1>2. input[f] \in [received : BOOLEAN, age : Nat, usable : BOOLEAN] BY <1>1 DEF InputType
<1>3. Arrival(f, kind) \in [received : BOOLEAN, age : Nat, usable : BOOLEAN]
  <2> DEFINE taken == kind # "future" /\ (input[f].received => ahead[f] = 0)
             cache == IF taken THEN [received |-> TRUE, age |-> 0, usable |-> kind = "good"]
                               ELSE input[f]
  <2>1. cache \in [received : BOOLEAN, age : Nat, usable : BOOLEAN] BY <1>2
  <2>2. Arrival(f, kind) = IF kind = "nonfinite" THEN [cache EXCEPT !.usable = FALSE] ELSE cache
    BY DEF Arrival
  <2> HIDE DEF cache
  <2> QED BY <2>1, <2>2
<1> QED BY <1>1, <1>3 DEF InputType

LEMMA CountedType == ASSUME TypeOK PROVE Counted \in [Feeds -> Nat]
  BY DEF TypeOK, Counted

\* An evaluation as part of a handler.
LEMMA EvaluationType ==
    ASSUME TypeOK, NEW in \in InputType, NEW ok \in BOOLEAN, UpdateHealth(in, ok),
           UNCHANGED <<phase, now>>, ahead' \in [Feeds -> Nat], heard' \subseteq Inputs,
           good' \in Nat
    PROVE  TypeOK'
<1>1. EvaluatedType' BY UpdateHealthType
<1>2. input' \in InputType BY DEF UpdateHealth
<1>3. phase' \in {"off", "run"} /\ now' \in Ticks BY DEF TypeOK
<1> QED BY <1>1, <1>2, <1>3 DEF EvaluatedType, TypeOK, FileType, InputType

LEMMA InitType == Init => TypeOK
<1> SUFFICES ASSUME Init PROVE TypeOK OBVIOUS
<1>1. 0 \in Ticks /\ Start \in Ticks BY ClockRange, TimesAssumption
<1>2. input \in InputType
  BY TimeoutType DEF Init, NotReceived, InputType
<1>3. NOMINAL \in Health BY DEF Health, NOMINAL, FAILED
<1>4. file \in FileType
  BY <1>3 DEF Init, FileType
<1>5. Interval \in Nat BY TimesAssumption
<1> QED BY <1>1, <1>2, <1>3, <1>4, <1>5 DEF Init, TypeOK, FileType, InputType

LEMMA TickType == ASSUME TypeOK, Tick PROVE TypeOK'
<1>1. now' \in Ticks BY SoonerIs DEF Tick, TypeOK
<1>2. input' \in InputType
  <2>1. input' = [i \in Inputs |->
                    [input[i] EXCEPT !.age = Least(input[i].age + 1, Timeout[i] + 1)]]
    BY DEF Tick
  <2>2. ASSUME NEW i \in Inputs
        PROVE  [input[i] EXCEPT !.age = Least(input[i].age + 1, Timeout[i] + 1)]
                 \in [received : BOOLEAN, age : Nat, usable : BOOLEAN]
    <3>1. input[i] \in [received : BOOLEAN, age : Nat, usable : BOOLEAN] BY DEF TypeOK
    <3>2. Least(input[i].age + 1, Timeout[i] + 1) \in Nat
      BY <3>1, TimeoutType DEF Least
    <3> QED BY <3>1, <3>2
  <2> QED BY <2>1, <2>2 DEF InputType
<1>3. /\ good' \in Nat /\ clear' \in Nat /\ down' \in Nat
  BY TimesAssumption, BoundsAssumption DEF Tick, TypeOK, Least, Patience
<1>4. waiting' \in [AppSet -> Nat]
  <2>1. Slack \in Nat
    <3>1. Len(Apps) \in Nat /\ PublishPeriod \in Nat BY AppsAssumption, TimesAssumption
    <3> QED BY <3>1 DEF Slack
  <2>2. Interval + Slack + 1 \in Nat BY <2>1, TimesAssumption
  <2> QED BY <2>2 DEF Tick, TypeOK, Least
<1>5. since' \in [AppSet -> Nat] BY TimesAssumption DEF Tick, TypeOK, Least
<1>6. turn' \in BOOLEAN /\ heard' \subseteq Inputs BY DEF Tick
<1> QED BY <1>1, <1>2, <1>3, <1>4, <1>5, <1>6 DEF Tick, TypeOK, InputType, timers

LEMMA NextType == TypeOK /\ [Next]_vars => TypeOK'
<1> SUFFICES ASSUME TypeOK, [Next]_vars PROVE TypeOK' OBVIOUS
<1>s. SaveResults \subseteq BOOLEAN BY BoundsAssumption
<1>i. input \in InputType /\ ahead \in [Feeds -> Nat] /\ good \in Nat /\ heard \subseteq Inputs
  BY DEF TypeOK, InputType
<1>1. ASSUME NEW ok \in SaveResults, NEW f \in Feeds, NEW kind \in Kinds,
             FeedMessage(f, kind, ok)
      PROVE  TypeOK'
  <2>1. ok \in BOOLEAN /\ f \in Inputs BY <1>s DEF Inputs
  <2>2. ahead' \in [Feeds -> Nat] /\ heard' \subseteq Inputs /\ good' \in Nat
    BY <1>1, <1>i, <2>1, CountedType DEF FeedMessage
  <2> QED BY <1>1, <2>1, <2>2, ArrivalType, EvaluationType DEF FeedMessage
<1>2. ASSUME NEW ok \in SaveResults, NEW a \in AppSet, NEW fresh \in BOOLEAN,
             AppHk(a, fresh, ok)
      PROVE  TypeOK'
  <2> DEFINE in == [input EXCEPT ![a] =
                      [received |-> TRUE, age |-> IF fresh THEN 0 ELSE Timeout[a] + 1,
                       usable |-> TRUE]]
  <2>1. ok \in BOOLEAN /\ a \in Inputs BY <1>s DEF Inputs
  <2>2. ahead' \in [Feeds -> Nat] /\ heard' \subseteq Inputs /\ good' \in Nat
    BY <1>2, <1>i, <2>1 DEF AppHk
  <2>3. in \in InputType BY <1>i, <2>1, TimeoutType DEF InputType
  <2>4. UpdateHealth(in, ok) /\ UNCHANGED <<phase, now>> BY <1>2 DEF AppHk
  <2> HIDE DEF in
  <2> QED BY <2>1, <2>2, <2>3, <2>4, EvaluationType
<1>3. ASSUME NEW ok \in SaveResults, NEW gps \in BOOLEAN, OtherMessage(gps, ok)
      PROVE  TypeOK'
  <2>1. ok \in BOOLEAN BY <1>s
  <2>2. ahead' \in [Feeds -> Nat] /\ heard' \subseteq Inputs /\ good' \in Nat
    BY <1>3, <1>i, CountedType DEF OtherMessage
  <2> QED BY <1>3, <1>i, <2>1, <2>2, EvaluationType DEF OtherMessage
<1>4. ASSUME NEW ok \in SaveResults, ServicePrototype(ok) PROVE TypeOK'
  <2>1. ok \in BOOLEAN BY <1>s
  <2>2. ahead' \in [Feeds -> Nat] /\ heard' \subseteq Inputs /\ good' \in Nat
    BY <1>4, <1>i DEF ServicePrototype
  <2>3. CASE UpdateHealth(input, ok)
    BY <1>4, <1>i, <2>1, <2>2, <2>3, EvaluationType DEF ServicePrototype
  <2>4. CASE /\ turn' = TRUE
             /\ UNCHANGED <<input, LastHealthState, timers, RestartCount, file,
                            published, restarting, clear, down, waiting, since>>
    BY <1>4, <2>4 DEF ServicePrototype, TypeOK, timers
  <2> QED BY <1>4, <2>3, <2>4 DEF ServicePrototype
<1>5. ASSUME NEW ok \in SaveResults, ResetCounter(ok) PROVE TypeOK'
  <2>1. 0 \in Ticks BY ClockRange
  <2>2. RestartCount' \in [AppSet -> Nat] /\ NextRestartMs' \in [AppSet -> Ticks]
        /\ waiting' \in [AppSet -> Nat]
    BY <1>5, <2>1 DEF ResetCounter
  <2>3. file' \in FileType
    <3>1. LastHealthState \in Health /\ file \in FileType BY DEF TypeOK, FileType
    <3> QED BY <1>5, <2>2, <3>1, SavedType DEF ResetCounter, SaveState
  <2> QED BY <1>5, <2>1, <2>2, <2>3 DEF ResetCounter, TypeOK, FileType
<1>6. CASE RestartBridge
  BY <1>6 DEF RestartBridge, TypeOK, timers, history
<1>7. CASE BridgeRestarts
  <2>1. ahead' \in [Feeds -> Nat]
    BY <1>7, BoundsAssumption DEF BridgeRestarts
  <2> QED BY <1>7, <2>1 DEF BridgeRestarts, TypeOK, timers, history
<1>8. CASE Tick BY <1>8, TickType
<1>9. CASE Crash
  BY <1>9 DEF Crash, TypeOK, timers, history, SILENT
<1>10. CASE LoadState
  <2>1. 0 \in Ticks BY ClockRange
  <2>2. input' \in InputType BY <1>10, TimeoutType DEF LoadState, NotReceived, InputType
  <2>3. LastHealthState' \in Health /\ RestartCount' \in [AppSet -> Nat]
    <3>1. file \in FileType BY DEF TypeOK, FileType
    <3>2. file.health \in Health /\ file.count \in [AppSet -> Nat] BY <3>1 DEF FileType
    <3> QED BY <1>10, <3>2 DEF LoadState, Health, NOMINAL, FAILED
  <2> QED BY <1>10, <2>1, <2>2, <2>3 DEF LoadState, TypeOK, InputType
<1>11. CASE UNCHANGED vars BY <1>11 DEF vars, TypeOK, timers, history
<1> QED BY <1>1, <1>2, <1>3, <1>4, <1>5, <1>6, <1>7, <1>8, <1>9, <1>10, <1>11 DEF Next

\* Type correctness: all timers stay values of the uint32 clock, and what the
\* state file and SYSTEM_HEALTH_MID hold is a health state.
THEOREM TypeCorrect == Spec => []TypeOK
  BY InitType, NextType, PTL DEF Spec

------------------------------------------------------------------------------
(* NOMINAL is earned, FAILED is escalated *)

\* A timer that runs is not older than what the history has counted.
TimersAreYoung ==
    /\ NominalEligibleSince # 0 =>
         clear >= Stability \/ Elapsed(NominalEligibleSince) =< clear
    /\ RecoveryStartMs # 0 =>
         down >= Escalation \/ Elapsed(RecoveryStartMs) =< down

\* Until it has published, a session has received nothing; afterwards what it
\* has published is what it goes on from.
FirstEvaluation ==
    /\ phase = "off" => published = SILENT
    /\ phase = "run" /\ published = SILENT => \A i \in Inputs : ~input[i].received
    /\ published # SILENT => LastHealthState = published

HealthInv == TimersAreYoung /\ FirstEvaluation /\ NominalIsEarned /\ FailedIsEscalated

LEMMA InitHealth == Init => HealthInv
  BY DEF Init, HealthInv, TimersAreYoung, FirstEvaluation, NominalIsEarned,
     FailedIsEscalated, SILENT, NOMINAL, FAILED

\* There are two inputs at least: a single message leaves one of them lost.
LEMMA OneIsMissing ==
    ASSUME \A i \in Inputs : ~input[i].received, NEW j, NEW x
    PROVE  Lost([input EXCEPT ![j] = x]) # {} /\ Lost(input) # {}
<1>1. PICK f \in Feeds : TRUE BY AppsAssumption
<1>2. Apps[1] \in AppSet
  <2>1. Len(Apps) \in Nat /\ Len(Apps) >= 1 BY AppsAssumption
  <2> QED BY <2>1 DEF AppSet
<1>3. f \in Inputs /\ Apps[1] \in Inputs /\ f # Apps[1]
  BY <1>2, AppsAssumption DEF Inputs
<1>4. PICK i \in Inputs : i # j BY <1>3
<1>5. [input EXCEPT ![j] = x][i] = input[i] /\ ~input[i].received BY <1>4
<1>6. i \in Lost([input EXCEPT ![j] = x]) /\ i \in Lost(input)
  BY <1>5 DEF Lost, TimedOut
<1> QED BY <1>6

\* An evaluation; no input has arrived before the first one but this one.
LEMMA EvaluationHealth ==
    ASSUME TypeOK, HealthInv, phase = "run", NEW in, NEW ok, UpdateHealth(in, ok),
           published = SILENT => Lost(in) # {},
           UNCHANGED <<phase, now>>
    PROVE  HealthInv'
<1> DEFINE lost == Lost(in)
<1>0. /\ LastHealthState' = Derived(lost) /\ published' = Derived(lost)
      /\ RecoveryStartMs' = RecoveryStart(lost)
      /\ NominalEligibleSince' = IF Derived(lost) = NOMINAL THEN 0 ELSE EligibleSince(lost)
      /\ clear' = IF lost = {} THEN clear ELSE 0
      /\ down' = IF Bridge \in lost THEN down ELSE 0
  BY DEF UpdateHealth, Remember
<1>t. now \in Ticks /\ clear \in Nat /\ down \in Nat
      /\ Stability \in Nat \ {0} /\ Escalation \in Nat \ {0}
  BY TimesAssumption DEF TypeOK
<1>n. Elapsed(now) = 0 BY <1>t, ElapsedIs, ClockRange
<1>d. Derived(lost) \in Health /\ SILENT \notin Health
  <2> HIDE DEF lost
  <2> QED BY DerivedType DEF Health, SILENT, NOMINAL, FAILED
<1>e. published = SILENT => lost # {} OBVIOUS
<1> HIDE DEF lost
<1>1. FirstEvaluation' BY <1>0, <1>d DEF FirstEvaluation
<1>2. TimersAreYoung'
  <2>1. ASSUME NominalEligibleSince' # 0
        PROVE  clear' >= Stability \/ Elapsed(NominalEligibleSince)' =< clear'
    <3>1. lost = {} /\ NominalEligibleSince' = EligibleSince(lost)
      BY <1>0, <2>1 DEF EligibleSince
    <3>2. clear' = clear BY <1>0, <3>1
    <3>3. Elapsed(NominalEligibleSince)' = Elapsed(NominalEligibleSince') BY DEF Elapsed
    <3>4. CASE NominalEligibleSince = 0
      <4>1. NominalEligibleSince' = now BY <2>1, <3>1, <3>4 DEF EligibleSince
      <4> QED BY <1>n, <1>t, <3>2, <3>3, <4>1
    <3>5. CASE NominalEligibleSince # 0
      <4>1. NominalEligibleSince' = NominalEligibleSince
        BY <2>1, <3>1, <3>5 DEF EligibleSince
      <4> QED BY <3>2, <3>3, <3>5, <4>1 DEF HealthInv, TimersAreYoung
    <3> QED BY <3>4, <3>5
  <2>2. ASSUME RecoveryStartMs' # 0
        PROVE  down' >= Escalation \/ Elapsed(RecoveryStartMs)' =< down'
    <3>1. Bridge \in lost BY <1>0, <2>2 DEF RecoveryStart
    <3>2. down' = down BY <1>0, <3>1
    <3>3. Elapsed(RecoveryStartMs)' = Elapsed(RecoveryStartMs') BY DEF Elapsed
    <3>4. CASE RecoveryStartMs = 0
      <4>1. RecoveryStartMs' = now BY <1>0, <3>1, <3>4 DEF RecoveryStart
      <4> QED BY <1>n, <1>t, <3>2, <3>3, <4>1
    <3>5. CASE RecoveryStartMs # 0
      <4>1. RecoveryStartMs' = RecoveryStartMs BY <1>0, <3>1, <3>5 DEF RecoveryStart
      <4> QED BY <3>2, <3>3, <3>5, <4>1 DEF HealthInv, TimersAreYoung
    <3> QED BY <3>4, <3>5
  <2> QED BY <2>1, <2>2 DEF TimersAreYoung
<1>3. NominalIsEarned'
  <2> SUFFICES ASSUME Derived(lost) = NOMINAL PROVE clear' >= Stability
    BY <1>0 DEF NominalIsEarned
  <2>1. lost = {} /\ Bridge \notin lost
        /\ (LastHealthState = NOMINAL \/ Elapsed(EligibleSince(lost)) >= Stability)
    BY DEF Derived, NOMINAL, DEGRADED, RECOVERY, FAILED
  <2>2. clear' = clear BY <1>0, <2>1
  <2>3. CASE LastHealthState = NOMINAL
    BY <1>e, <2>1, <2>2, <2>3 DEF HealthInv, FirstEvaluation, NominalIsEarned
  <2>4. CASE LastHealthState # NOMINAL
    <3>1. Elapsed(EligibleSince(lost)) >= Stability BY <2>1, <2>4
    <3>2. NominalEligibleSince # 0 /\ EligibleSince(lost) = NominalEligibleSince
      BY <1>n, <1>t, <2>1, <2>4, <3>1 DEF EligibleSince
    <3>3. Elapsed(NominalEligibleSince) \in Nat
      BY <1>t, ElapsedIs, ClockRange DEF TypeOK
    <3> QED BY <1>t, <2>2, <3>1, <3>2, <3>3 DEF HealthInv, TimersAreYoung
  <2> QED BY <2>3, <2>4
<1>4. FailedIsEscalated'
  <2> SUFFICES ASSUME Derived(lost) = FAILED PROVE down' >= Escalation
    BY <1>0 DEF FailedIsEscalated
  <2>1. Bridge \in lost /\ Elapsed(RecoveryStart(lost)) >= Escalation
    BY DEF Derived, NOMINAL, DEGRADED, RECOVERY, FAILED
  <2>2. down' = down BY <1>0, <2>1
  <2>3. RecoveryStartMs # 0 /\ RecoveryStart(lost) = RecoveryStartMs
    BY <1>n, <1>t, <2>1 DEF RecoveryStart
  <2>4. Elapsed(RecoveryStartMs) \in Nat BY <1>t, ElapsedIs, ClockRange DEF TypeOK
  <2> QED BY <1>t, <2>1, <2>2, <2>3, <2>4 DEF HealthInv, TimersAreYoung
<1> QED BY <1>1, <1>2, <1>3, <1>4 DEF HealthInv

\* A tick: the timers grow by one at most, and the history by one up to its cap.
LEMMA TickHealth == ASSUME TypeOK, HealthInv, Tick PROVE HealthInv'
<1>t. /\ now \in Ticks /\ clear \in Nat /\ down \in Nat
      /\ NominalEligibleSince \in Ticks /\ RecoveryStartMs \in Ticks
      /\ Stability \in Nat \ {0} /\ Escalation \in Nat \ {0}
  BY TimesAssumption DEF TypeOK
<1>0. /\ now' = Sooner(now) /\ UNCHANGED <<phase, LastHealthState, published>>
      /\ UNCHANGED <<NominalEligibleSince, RecoveryStartMs>>
      /\ clear' = Least(clear + 1, Stability) /\ down' = Least(down + 1, Escalation)
  BY DEF Tick, timers
<1>1. clear' >= Stability \/ clear' = clear + 1 BY <1>0, <1>t DEF Least
<1>2. down' >= Escalation \/ down' = down + 1 BY <1>0, <1>t DEF Least
<1>3. TimersAreYoung'
  <2>1. ASSUME NEW t \in Ticks
        PROVE  Elapsed(t) \in Nat /\ Elapsed(t)' \in Nat /\ Elapsed(t)' =< Elapsed(t) + 1
    BY <1>0, <1>t, TickElapsed
  <2>2. Elapsed(NominalEligibleSince)' =< Elapsed(NominalEligibleSince) + 1
        /\ Elapsed(NominalEligibleSince) \in Nat /\ Elapsed(NominalEligibleSince)' \in Nat
    BY <1>0, <1>t, <2>1 DEF Elapsed
  <2>3. Elapsed(RecoveryStartMs)' =< Elapsed(RecoveryStartMs) + 1
        /\ Elapsed(RecoveryStartMs) \in Nat /\ Elapsed(RecoveryStartMs)' \in Nat
    BY <1>0, <1>t, <2>1 DEF Elapsed
  <2>4. NominalEligibleSince' # 0 =>
          clear' >= Stability \/ Elapsed(NominalEligibleSince)' =< clear'
    BY <1>0, <1>1, <1>t, <2>2 DEF HealthInv, TimersAreYoung, Least
  <2>5. RecoveryStartMs' # 0 =>
          down' >= Escalation \/ Elapsed(RecoveryStartMs)' =< down'
    BY <1>0, <1>2, <1>t, <2>3 DEF HealthInv, TimersAreYoung, Least
  <2> QED BY <2>4, <2>5 DEF TimersAreYoung
<1>4. FirstEvaluation'
  <2>1. \A i \in Inputs : input'[i].received = input[i].received
    BY DEF Tick, TypeOK
  <2> QED BY <1>0, <2>1 DEF HealthInv, FirstEvaluation
<1>5. NominalIsEarned' /\ FailedIsEscalated'
  BY <1>0, <1>t DEF HealthInv, NominalIsEarned, FailedIsEscalated, Least
<1> QED BY <1>3, <1>4, <1>5 DEF HealthInv

LEMMA NextHealth == TypeOK /\ HealthInv /\ [Next]_vars => HealthInv'
<1> SUFFICES ASSUME TypeOK, HealthInv, [Next]_vars PROVE HealthInv' OBVIOUS
<1>f. phase = "run" /\ published = SILENT => \A i \in Inputs : ~input[i].received
  BY DEF HealthInv, FirstEvaluation
\* Steps that leave the health alone.
<1>u. ASSUME UNCHANGED <<phase, now, input, LastHealthState, published,
                         NominalEligibleSince, clear, down>>,
             RecoveryStartMs' \in {0, RecoveryStartMs}
      PROVE  HealthInv'
  BY <1>u DEF HealthInv, TimersAreYoung, FirstEvaluation, NominalIsEarned,
     FailedIsEscalated, Elapsed
<1>1. ASSUME NEW ok \in SaveResults, NEW f \in Feeds, NEW kind \in Kinds,
             FeedMessage(f, kind, ok)
      PROVE  HealthInv'
  <2>1. /\ phase = "run" /\ UNCHANGED <<phase, now>>
        /\ UpdateHealth([input EXCEPT ![f] = Arrival(f, kind)], ok)
    BY <1>1 DEF FeedMessage
  <2>2. published = SILENT => Lost([input EXCEPT ![f] = Arrival(f, kind)]) # {}
    BY <1>f, <2>1, OneIsMissing
  <2> QED BY <2>1, <2>2, EvaluationHealth
<1>2. ASSUME NEW ok \in SaveResults, NEW a \in AppSet, NEW fresh \in BOOLEAN,
             AppHk(a, fresh, ok)
      PROVE  HealthInv'
  <2> DEFINE x == [received |-> TRUE, age |-> IF fresh THEN 0 ELSE Timeout[a] + 1,
                   usable |-> TRUE]
  <2>1. /\ phase = "run" /\ UNCHANGED <<phase, now>>
        /\ UpdateHealth([input EXCEPT ![a] = x], ok)
    BY <1>2 DEF AppHk
  <2> HIDE DEF x
  <2>2. published = SILENT => Lost([input EXCEPT ![a] = x]) # {}
    BY <1>f, <2>1, OneIsMissing
  <2> QED BY <2>1, <2>2, EvaluationHealth
<1>3. ASSUME NEW ok, UpdateHealth(input, ok), phase = "run", UNCHANGED <<phase, now>>
      PROVE  HealthInv'
  <2>1. published = SILENT => Lost(input) # {} BY <1>3, <1>f, OneIsMissing
  <2> QED BY <1>3, <2>1, EvaluationHealth
<1>4. ASSUME NEW ok \in SaveResults, NEW gps \in BOOLEAN, OtherMessage(gps, ok)
      PROVE  HealthInv'
  BY <1>3, <1>4 DEF OtherMessage
<1>5. ASSUME NEW ok \in SaveResults, ServicePrototype(ok) PROVE HealthInv'
  BY <1>3, <1>5, <1>u DEF ServicePrototype, timers
<1>6. ASSUME NEW ok \in SaveResults, ResetCounter(ok) PROVE HealthInv'
  BY <1>6, <1>u DEF ResetCounter
<1>7. CASE RestartBridge \/ BridgeRestarts
  BY <1>7, <1>u DEF RestartBridge, BridgeRestarts, timers, history
<1>8. CASE Tick BY <1>8, TickHealth
<1>9. CASE Crash
  BY <1>9 DEF Crash, timers, history, HealthInv, TimersAreYoung, FirstEvaluation,
     NominalIsEarned, FailedIsEscalated, Elapsed, SILENT, NOMINAL, FAILED
<1>10. CASE LoadState
  <2>1. published' = SILENT /\ phase' = "run" /\ \A i \in Inputs : ~input'[i].received
    BY <1>10 DEF LoadState, NotReceived, HealthInv, FirstEvaluation
  <2>2. NominalEligibleSince' = 0 /\ RecoveryStartMs' = 0 BY <1>10 DEF LoadState
  <2> QED BY <2>1, <2>2 DEF HealthInv, TimersAreYoung, FirstEvaluation,
       NominalIsEarned, FailedIsEscalated, SILENT, NOMINAL, FAILED
<1>11. CASE UNCHANGED vars BY <1>11, <1>u DEF vars, timers, history
<1> QED BY <1>1, <1>2, <1>4, <1>5, <1>6, <1>7, <1>8, <1>9, <1>10, <1>11 DEF Next

LEMMA HealthAlways == Spec => []HealthInv
<1>1. TypeOK /\ HealthInv /\ [Next]_vars => (TypeOK /\ HealthInv)'
  BY NextType, NextHealth
<1> QED BY InitType, InitHealth, <1>1, PTL DEF Spec

\* NOMINAL is never published before Stability ticks without a fault have been
\* counted by the session that publishes it, although the state file restores
\* NOMINAL, the clock wraps and saves fail (UpdateHealth, LoadState).
THEOREM NominalEarned == Spec => []NominalIsEarned
<1>1. HealthInv => NominalIsEarned BY DEF HealthInv
<1> QED BY HealthAlways, <1>1, PTL

\* FAILED, on which uplink_app blocks nearly all commands, is never published
\* before the bridge was lost in every evaluation of Escalation ticks, although
\* the ground resets the counters meanwhile (UpdateHealth).
THEOREM FailedEscalated == Spec => []FailedIsEscalated
<1>1. HealthInv => FailedIsEscalated BY DEF HealthInv
<1> QED BY HealthAlways, <1>1, PTL

------------------------------------------------------------------------------
(* Restarts *)

\* The clock does not come near its end; when a deadline wraps, the promises
\* about restarts do not hold.
NoWrap == Start =< LastTick /\ LastTick + Interval < TimeMod

\* There is time for an evaluation per app between two restarts of an app; when
\* there is not, the first app can use all of them.
EvaluatedOften == Len(Apps) * PublishPeriod < Interval

\* A deadline lies in the future when it is set, and an app that has one was
\* not restarted for as long as the deadline allows.
Spaced(a) ==
    /\ since[a] =< Interval
    /\ NextRestartMs[a] =< now + Interval
    /\ NextRestartMs[a] # 0 =>
         since[a] = Interval \/ now + Interval =< NextRestartMs[a] + since[a]

SpacedInv == now \in Start..LastTick /\ \A a \in AppSet : Spaced(a)

LEMMA NewDeadline ==
    ASSUME NoWrap, SpacedInv
    PROVE  (now + Interval) % TimeMod = now + Interval /\ now \in Nat \ {0}
<1>1. PICK x : x = now + Interval OBVIOUS
<1>2. /\ Start \in Nat \ {0} /\ LastTick \in Nat /\ Interval \in Nat
      /\ now \in Start..LastTick /\ LastTick + Interval < TimeMod
  BY TimesAssumption, ClockRange DEF NoWrap, SpacedInv
<1>3. x \in 0..(2 * TimeMod - 1) /\ x < TimeMod BY <1>1, <1>2, ClockRange
<1>4. x % TimeMod = x BY <1>3, ClockRange, SmallRemainder
<1> QED BY <1>1, <1>2, <1>4

LEMMA IndexBack ==
    ASSUME NEW k \in 1..Len(Apps)
    PROVE  Apps[k] \in AppSet /\ Index(Apps[k]) = k
<1>1. Apps[k] \in AppSet BY DEF AppSet
<1>2. Index(Apps[k]) \in 1..Len(Apps) /\ Apps[Index(Apps[k])] = Apps[k] BY <1>1, IndexOf
<1> QED BY <1>1, <1>2, AppsAssumption

\* What is due has a deadline in the past, and was not restarted lately.
LEMMA DueIs ==
    ASSUME TypeOK, NoWrap, SpacedInv, NEW lost, NEW k \in Due(lost)
    PROVE  /\ k \in 1..Len(Apps) /\ Apps[k] \in AppSet /\ Apps[k] \in lost \cap Present
           /\ NextRestartMs[Apps[k]] # 0 /\ NextRestartMs[Apps[k]] =< now
           /\ since[Apps[k]] = Interval
<1>1. /\ k \in 1..Len(Apps) /\ Apps[k] \in lost \cap Present /\ now >= Deadline(Apps[k])
  BY DEF Due
<1>2. Apps[k] \in AppSet BY <1>1 DEF AppSet
<1>3. PICK b \in AppSet : b = Apps[k] BY <1>2
<1>4. /\ NextRestartMs[b] \in Nat /\ since[b] \in Nat /\ now \in Nat
      /\ Interval \in Nat \ {0}
  BY TimesAssumption DEF TypeOK, Ticks
<1>5. now < now + Interval BY <1>4
<1>6. NextRestartMs[b] # 0
  BY <1>1, <1>3, <1>4, <1>5, NewDeadline DEF Deadline
<1>7. NextRestartMs[b] =< now BY <1>1, <1>3, <1>4, <1>6 DEF Deadline
<1>8. since[b] = Interval BY <1>4, <1>6, <1>7 DEF SpacedInv, Spaced
<1> QED BY <1>1, <1>2, <1>3, <1>6, <1>7, <1>8

\* When something is due, something is restarted.
LEMMA FirstIsRestarted ==
    ASSUME NEW lost, NEW k \in Due(lost)
    PROVE  \E j \in Restarted(lost) : j =< k
<1> DEFINE R == {r \in Nat \X Nat : r[1] < r[2]}
<1>1. IsWellFoundedOn(R, Nat)
  <2>1. OpToRel(<, Nat) = R BY DEF OpToRel
  <2> HIDE DEF R
  <2> QED BY <2>1, NatLessThanWellFounded
<1>2. Due(lost) \subseteq Nat BY DEF Due
<1>3. PICK j \in Due(lost) : \A i \in Due(lost) : ~ (<<i, j>> \in R)
  <2> HIDE DEF R
  <2> QED BY <1>1, <1>2, WFMin
<1>4. \A i \in Due(lost) : ~ (i < j) BY <1>2, <1>3
<1>5. \A i \in Due(lost) : j =< i BY <1>2, <1>4
<1> QED BY <1>5 DEF Restarted

\* The four ways in which an evaluation treats the deadline of an app.
LEMMA EvaluatedDeadline ==
    ASSUME TypeOK, NoWrap, SpacedInv, NEW lost, CheckAppRestarts(lost), Remember(lost),
           NEW a \in AppSet
    PROVE  \/ /\ \E j \in Restarted(lost) : j < Index(a)
              /\ Index(a) \notin Restarted(lost)
              /\ NextRestartMs'[a] = NextRestartMs[a]
              /\ waiting'[a] \in {0, waiting[a]} /\ since'[a] = since[a]
           \/ /\ a \notin lost /\ Index(a) \notin Restarted(lost)
              /\ NextRestartMs'[a] = 0 /\ waiting'[a] = 0 /\ since'[a] = since[a]
           \/ /\ Index(a) \in Restarted(lost)
              /\ NextRestartMs'[a] = now + Interval /\ waiting'[a] = 0 /\ since'[a] = 0
           \/ /\ a \in lost /\ Index(a) \notin Restarted(lost)
              /\ a \in Present => Index(a) \notin Due(lost)
              /\ NextRestartMs'[a] = Deadline(a)
              /\ waiting'[a] = waiting[a] /\ since'[a] = since[a]
<1>1. Apps[Index(a)] = a /\ Index(a) \in 1..Len(Apps) BY IndexOf
<1>2. /\ NextRestartMs'[a] = NextDeadline(lost, Index(a))
      /\ waiting'[a] = IF a \notin lost \/ Index(a) \in Restarted(lost) THEN 0 ELSE waiting[a]
      /\ since'[a] = IF Index(a) \in Restarted(lost) THEN 0 ELSE since[a]
  BY DEF CheckAppRestarts, Remember
<1>3. (now + Interval) % TimeMod = now + Interval BY NewDeadline
<1>4. CASE Skipped(lost, Index(a))
  <2>1. PICK j \in Restarted(lost) : j < Index(a) BY <1>4 DEF Skipped
  <2>2. Index(a) \notin Restarted(lost)
    <3>1. j \in Due(lost) /\ j \in 1..Len(Apps) BY <2>1 DEF Restarted, Due
    <3> QED BY <1>1, <2>1, <3>1 DEF Restarted
  <2> QED BY <1>1, <1>2, <1>4, <2>1, <2>2 DEF NextDeadline
<1>5. CASE ~Skipped(lost, Index(a)) /\ a \notin lost
  <2>1. Index(a) \notin Restarted(lost) BY <1>1, <1>5 DEF Restarted, Due
  <2> QED BY <1>1, <1>2, <1>5, <2>1 DEF NextDeadline
<1>6. CASE ~Skipped(lost, Index(a)) /\ Index(a) \in Restarted(lost)
  <2>1. a \in lost BY <1>1, <1>6 DEF Restarted, Due
  <2> QED BY <1>1, <1>2, <1>3, <1>6, <2>1 DEF NextDeadline
<1>7. CASE ~Skipped(lost, Index(a)) /\ a \in lost /\ Index(a) \notin Restarted(lost)
  <2>1. Index(a) \notin Due(lost)
    <3> SUFFICES ASSUME Index(a) \in Due(lost) PROVE FALSE OBVIOUS
    <3>1. PICK j \in Restarted(lost) : j =< Index(a) BY FirstIsRestarted
    <3>2. j \in 1..Len(Apps) BY <3>1 DEF Restarted, Due
    <3>3. j # Index(a) BY <1>7, <3>1
    <3>4. j < Index(a) BY <1>1, <3>1, <3>2, <3>3
    <3> QED BY <1>7, <3>1, <3>4 DEF Skipped
  <2> QED BY <1>1, <1>2, <1>7, <2>1 DEF NextDeadline
<1> QED BY <1>4, <1>5, <1>6, <1>7

\* The clock of a step of the application, and of a tick.
LEMMA TickNow ==
    ASSUME TypeOK, NoWrap, SpacedInv, Tick
    PROVE  now' = now + 1 /\ now' \in Start..LastTick
<1>1. now \in Start..LastTick /\ now # LastTick BY DEF SpacedInv, Tick
<1>2. Start \in Nat /\ LastTick \in Nat /\ Interval \in Nat /\ LastTick + Interval < TimeMod
      /\ TimeMod \in Nat
  BY TimesAssumption, ClockRange DEF NoWrap
<1>3. now + 1 < TimeMod BY <1>1, <1>2
<1>4. now' = now + 1 BY <1>3, SoonerIs DEF Tick, TypeOK
<1> QED BY <1>1, <1>2, <1>4

LEMMA InitSpaced == ASSUME NoWrap, Init PROVE SpacedInv
<1>1. Start \in Start..LastTick /\ Interval \in Nat /\ Start \in Nat
  BY TimesAssumption DEF NoWrap
<1> QED BY <1>1 DEF Init, SpacedInv, Spaced

LEMMA EvaluationSpaced ==
    ASSUME TypeOK, NoWrap, SpacedInv, NEW in, NEW ok, UpdateHealth(in, ok), now' = now
    PROVE  SpacedInv'
<1>1. PICK lost : lost = Lost(in) OBVIOUS
<1>2. CheckAppRestarts(lost) /\ Remember(lost) BY <1>1 DEF UpdateHealth
<1>3. ASSUME NEW a \in AppSet PROVE Spaced(a)'
  <2>1. /\ NextRestartMs[a] \in Nat /\ since[a] \in Nat /\ now \in Nat \ {0}
        /\ Interval \in Nat \ {0} /\ Spaced(a)
    BY TimesAssumption, NewDeadline DEF TypeOK, Ticks, SpacedInv
  <2>2. Deadline(a) = IF NextRestartMs[a] = 0 THEN now + Interval ELSE NextRestartMs[a]
    BY NewDeadline DEF Deadline
  <2>3. \/ NextRestartMs'[a] = NextRestartMs[a] /\ since'[a] = since[a]
        \/ NextRestartMs'[a] = 0 /\ since'[a] = since[a]
        \/ NextRestartMs'[a] = now + Interval /\ since'[a] = 0
        \/ NextRestartMs'[a] = Deadline(a) /\ since'[a] = since[a]
    BY <1>2, EvaluatedDeadline
  <2> QED BY <2>1, <2>2, <2>3 DEF Spaced
<1> QED BY <1>3 DEF SpacedInv

LEMMA NextSpaced == ASSUME TypeOK, NoWrap, SpacedInv, [Next]_vars PROVE SpacedInv'
<1>u. ASSUME UNCHANGED <<now, since>>, \A a \in AppSet : NextRestartMs'[a] \in {0, NextRestartMs[a]}
      PROVE  SpacedInv'
  <2>1. ASSUME NEW a \in AppSet PROVE Spaced(a)'
    <3>1. NextRestartMs'[a] \in {0, NextRestartMs[a]} /\ Spaced(a) BY <1>u, <2>1 DEF SpacedInv
    <3>2. now \in Nat /\ Interval \in Nat BY TimesAssumption DEF TypeOK, Ticks
    <3> QED BY <1>u, <3>1, <3>2 DEF Spaced
  <2> QED BY <1>u, <2>1 DEF SpacedInv
<1>1. ASSUME NEW ok, NEW f, NEW kind, FeedMessage(f, kind, ok) PROVE SpacedInv'
  <2>1. UpdateHealth([input EXCEPT ![f] = Arrival(f, kind)], ok) /\ now' = now
    BY <1>1 DEF FeedMessage
  <2> QED BY <2>1, EvaluationSpaced
<1>2. ASSUME NEW ok, NEW a, NEW fresh, AppHk(a, fresh, ok) PROVE SpacedInv'
  <2>1. now' = now /\ \E in : UpdateHealth(in, ok) BY <1>2 DEF AppHk
  <2> QED BY <2>1, EvaluationSpaced
<1>3. ASSUME NEW ok, NEW gps, OtherMessage(gps, ok) PROVE SpacedInv'
  BY <1>3, EvaluationSpaced DEF OtherMessage
<1>4. ASSUME NEW ok, ServicePrototype(ok) PROVE SpacedInv'
  <2>1. CASE UpdateHealth(input, ok) BY <1>4, <2>1, EvaluationSpaced DEF ServicePrototype
  <2>2. CASE UNCHANGED <<timers, since>> BY <1>4, <1>u, <2>2 DEF ServicePrototype, timers
  <2> QED BY <1>4, <2>1, <2>2 DEF ServicePrototype
<1>5. ASSUME NEW ok, ResetCounter(ok) PROVE SpacedInv'
  BY <1>5, <1>u DEF ResetCounter
<1>6. CASE RestartBridge \/ BridgeRestarts \/ Crash \/ UNCHANGED vars
  BY <1>6, <1>u DEF RestartBridge, BridgeRestarts, Crash, vars, timers, history
<1>7. CASE LoadState BY <1>7, <1>u DEF LoadState
<1>8. CASE Tick
  <2>1. now' = now + 1 /\ now' \in Start..LastTick BY <1>8, TickNow
  <2>2. ASSUME NEW a \in AppSet PROVE Spaced(a)'
    <3>1. /\ since'[a] = Least(since[a] + 1, Interval) /\ NextRestartMs' = NextRestartMs
      BY <1>8 DEF Tick, timers
    <3>2. /\ NextRestartMs[a] \in Nat /\ since[a] \in Nat /\ now \in Nat
          /\ Interval \in Nat /\ Spaced(a)
      BY TimesAssumption DEF TypeOK, Ticks, SpacedInv
    <3> QED BY <2>1, <3>1, <3>2 DEF Spaced, Least
  <2> QED BY <2>1, <2>2 DEF SpacedInv
<1> QED BY <1>1, <1>2, <1>3, <1>4, <1>5, <1>6, <1>7, <1>8 DEF Next

\* Only an evaluation counts a restart.
LEMMA OnlyAfterInterval ==
    ASSUME TypeOK, NoWrap, SpacedInv, [Next]_vars, phase = "run", NEW a \in AppSet,
           RestartCount'[a] > RestartCount[a]
    PROVE  since[a] >= Interval
<1>t. RestartCount[a] \in Nat /\ Interval \in Nat BY TimesAssumption DEF TypeOK
<1>1. ASSUME NEW in, NEW ok, UpdateHealth(in, ok) PROVE since[a] >= Interval
  <2>1. PICK lost : lost = Lost(in) OBVIOUS
  <2>2. CheckAppRestarts(lost) BY <1>1, <2>1 DEF UpdateHealth
  <2>3. Index(a) \in Restarted(lost) BY <1>t, <2>2 DEF CheckAppRestarts
  <2>4. Index(a) \in Due(lost) /\ Apps[Index(a)] = a BY <2>3, IndexOf DEF Restarted
  <2>5. since[a] = Interval BY <2>4, DueIs
  <2> QED BY <1>t, <2>5
<1>2. CASE RestartCount' = RestartCount BY <1>2, <1>t
<1>3. ASSUME NEW ok, ResetCounter(ok) PROVE FALSE
  BY <1>3, <1>t DEF ResetCounter
<1>4. CASE RestartBridge \/ BridgeRestarts \/ Tick \/ Crash \/ UNCHANGED vars
  BY <1>2, <1>4 DEF RestartBridge, BridgeRestarts, Tick, Crash, vars
<1>5. ASSUME NEW ok, ServicePrototype(ok) PROVE since[a] >= Interval
  BY <1>1, <1>2, <1>5 DEF ServicePrototype
<1>6. ASSUME NEW ok, NEW f, NEW kind, FeedMessage(f, kind, ok) PROVE since[a] >= Interval
  BY <1>1, <1>6 DEF FeedMessage
<1>7. ASSUME NEW ok, NEW b, NEW fresh, AppHk(b, fresh, ok) PROVE since[a] >= Interval
  BY <1>1, <1>7 DEF AppHk
<1>8. ASSUME NEW ok, NEW gps, OtherMessage(gps, ok) PROVE since[a] >= Interval
  BY <1>1, <1>8 DEF OtherMessage
<1>9. ~LoadState BY DEF LoadState
<1> QED BY <1>3, <1>4, <1>5, <1>6, <1>7, <1>8, <1>9 DEF Next

\* However often the housekeeping of an app comes and goes, the ground resets
\* the counters, saves fail and cfs_core_app dies, two automatic restarts of an
\* app are Interval ticks apart, until the clock comes near its end
\* (CheckAppRestarts, ProcessRecoveryCommand).
THEOREM RestartsSpaced == ASSUME NoWrap PROVE Spec => RestartCooldown
<1>1. Init => TypeOK /\ SpacedInv BY InitType, InitSpaced
<1>2. TypeOK /\ SpacedInv /\ [Next]_vars => (TypeOK /\ SpacedInv)'
  BY NextType, NextSpaced
<1>3. TypeOK /\ SpacedInv /\ [Next]_vars =>
        [\A a \in AppSet :
            (phase = "run" /\ RestartCount'[a] > RestartCount[a]) => since[a] >= Interval]_vars
  BY OnlyAfterInterval
<1> QED BY <1>1, <1>2, <1>3, PTL DEF Spec, RestartCooldown

------------------------------------------------------------------------------
(* No app is starved *)

\* The apps above a which were restarted in the last w ticks, s being since.
Above(s, a, w) == {j \in 1..(Index(a) - 1) : s[Apps[j]] =< w}

\* The evaluations these restarts used up, in ticks.
Used(s, a, w) == PublishPeriod * Cardinality(Above(s, a, w))

\* Evaluations follow one another: L is the last one, 0 in a session that has
\* not evaluated yet, for which no deadline runs.
LoopInv ==
    /\ LastPublishTimeMs =< now
    /\ \A a \in AppSet : waiting[a] + Start =< now
    /\ phase = "run" =>
         IF LastPublishTimeMs = 0
           THEN \A a \in AppSet : /\ NextRestartMs[a] = 0
                                  /\ waiting[a] =< PublishPeriod
                                  /\ turn => waiting[a] < PublishPeriod
           ELSE /\ now - LastPublishTimeMs =< PublishPeriod
                /\ turn => now - LastPublishTimeMs < PublishPeriod

\* An app without a deadline waits for an evaluation in which none above it is
\* restarted; with a deadline it waits until that is over and then again for
\* such an evaluation.  Each restart above uses up one evaluation, and an app
\* above uses up one at most because its own deadline is Interval away then.
Waits(a) ==
    IF NextRestartMs[a] = 0
      THEN waiting[a] =< Used(since, a, waiting[a]) + (now - LastPublishTimeMs)
      ELSE /\ waiting[a] + NextRestartMs[a] =< now + Interval + Len(Apps) * PublishPeriod
           /\ NextRestartMs[a] =< LastPublishTimeMs =>
                LastPublishTimeMs - NextRestartMs[a]
                   =< Used(since, a, now - NextRestartMs[a])

WaitInv == phase = "run" /\ LastPublishTimeMs # 0 => \A a \in Present : Waits(a)

LEMMA TimesMonotone ==
    ASSUME NEW p \in Nat, NEW c \in Nat, NEW d \in Nat, c =< d
    PROVE  p * c \in Nat /\ p * d \in Nat /\ p * c =< p * d /\ p * (c + 1) = p * c + p
<1>1. PICK e \in Nat : d = c + e
  <2>1. d - c \in Nat /\ d = c + (d - c) OBVIOUS
  <2> QED BY <2>1
<1>2. p * d = p * c + p * e BY <1>1
<1>3. p * c \in Nat /\ p * e \in Nat /\ p * d \in Nat OBVIOUS
<1>4. p * (c + 1) = p * c + p OBVIOUS
<1> QED BY <1>2, <1>3, <1>4

LEMMA AboveFinite ==
    ASSUME NEW s, NEW a \in AppSet, NEW w
    PROVE  /\ IsFiniteSet(Above(s, a, w)) /\ Cardinality(Above(s, a, w)) \in Nat
           /\ Cardinality(Above(s, a, w)) + 1 =< Len(Apps)
<1>1. PICK n : n = Index(a) - 1 OBVIOUS
<1>2. Index(a) \in 1..Len(Apps) /\ Len(Apps) \in Nat BY IndexOf, AppsAssumption
<1>3. n \in Nat /\ n + 1 =< Len(Apps) BY <1>1, <1>2
<1>4. IsFiniteSet(1..n) /\ Cardinality(1..n) = n BY <1>3, FS_Interval
<1>5. Above(s, a, w) \in SUBSET (1..n) BY <1>1 DEF Above
<1>6. IsFiniteSet(Above(s, a, w)) /\ Cardinality(Above(s, a, w)) =< n
  BY <1>4, <1>5, FS_Subset
<1>7. Cardinality(Above(s, a, w)) \in Nat BY <1>6, FS_CardinalityType
<1> QED BY <1>2, <1>3, <1>6, <1>7

LEMMA UsedType ==
    ASSUME NEW s, NEW a \in AppSet, NEW w
    PROVE  /\ Used(s, a, w) \in Nat /\ Len(Apps) * PublishPeriod \in Nat
           /\ PublishPeriod \in Nat \ {0}
           /\ Used(s, a, w) + PublishPeriod =< Len(Apps) * PublishPeriod
<1>1. PICK c : c = Cardinality(Above(s, a, w)) OBVIOUS
<1>2. c \in Nat /\ c + 1 \in Nat /\ c + 1 =< Len(Apps) /\ Len(Apps) \in Nat
  BY <1>1, AboveFinite, AppsAssumption
<1>3. PublishPeriod \in Nat \ {0} BY TimesAssumption
<1>4. PublishPeriod * (c + 1) =< PublishPeriod * Len(Apps)
      /\ PublishPeriod * Len(Apps) \in Nat
  BY <1>2, <1>3, TimesMonotone
<1>5. PublishPeriod * (c + 1) = PublishPeriod * c + PublishPeriod
      /\ PublishPeriod * c \in Nat
  BY <1>2, <1>3, TimesMonotone
<1>6. Len(Apps) * PublishPeriod = PublishPeriod * Len(Apps) BY <1>2, <1>3
<1> QED BY <1>1, <1>3, <1>4, <1>5, <1>6 DEF Used

\* With time, and as the wait grows, no restart is forgotten.
LEMMA UsedGrows ==
    ASSUME NEW s, NEW t, NEW a \in AppSet, NEW w, NEW v,
           \A j \in 1..(Index(a) - 1) : s[Apps[j]] =< w => t[Apps[j]] =< v
    PROVE  Used(s, a, w) =< Used(t, a, v)
<1>1. Above(s, a, w) \in SUBSET Above(t, a, v) BY DEF Above
<1>2. PICK c, d : c = Cardinality(Above(s, a, w)) /\ d = Cardinality(Above(t, a, v)) OBVIOUS
<1>3. c \in Nat /\ d \in Nat /\ c =< d BY <1>1, <1>2, AboveFinite, FS_Subset
<1>4. PublishPeriod \in Nat BY TimesAssumption
<1>5. PublishPeriod * c =< PublishPeriod * d BY <1>3, <1>4, TimesMonotone
<1> QED BY <1>2, <1>5 DEF Used

\* A restart that was not among them makes one evaluation more.
LEMMA UsedByAnother ==
    ASSUME NEW s, NEW t, NEW a \in AppSet, NEW w, NEW k \in 1..(Index(a) - 1),
           ~ (s[Apps[k]] =< w), t[Apps[k]] =< w,
           \A j \in 1..(Index(a) - 1) : s[Apps[j]] =< w => t[Apps[j]] =< w
    PROVE  Used(s, a, w) + PublishPeriod =< Used(t, a, w)
<1>1. Above(s, a, w) \cup {k} \in SUBSET Above(t, a, w) /\ k \notin Above(s, a, w)
  BY DEF Above
<1>2. PICK c, d : c = Cardinality(Above(s, a, w)) /\ d = Cardinality(Above(t, a, w)) OBVIOUS
<1>3. Cardinality(Above(s, a, w) \cup {k}) = c + 1
  BY <1>1, <1>2, AboveFinite, FS_AddElement
<1>4. c \in Nat /\ d \in Nat /\ c + 1 =< d
  BY <1>1, <1>2, <1>3, AboveFinite, FS_Subset
<1>5. PublishPeriod \in Nat BY TimesAssumption
<1>6. PublishPeriod * (c + 1) =< PublishPeriod * d
      /\ PublishPeriod * (c + 1) = PublishPeriod * c + PublishPeriod
  <2>1. c + 1 \in Nat BY <1>4
  <2> QED BY <1>4, <1>5, <2>1, TimesMonotone
<1> QED BY <1>2, <1>6 DEF Used

\* What the cases of an evaluation have in common.
LEMMA WaitTypes ==
    ASSUME TypeOK, NoWrap, EvaluatedOften, SpacedInv, LoopInv, NEW a \in AppSet
    PROVE  /\ now \in Nat \ {0} /\ Start \in Nat \ {0}
           /\ LastPublishTimeMs \in Nat /\ LastPublishTimeMs =< now
           /\ NextRestartMs[a] \in Nat /\ waiting[a] \in Nat /\ since[a] \in Nat
           /\ Interval \in Nat \ {0} /\ PublishPeriod \in Nat \ {0}
           /\ Len(Apps) * PublishPeriod \in Nat
           /\ PublishPeriod =< Len(Apps) * PublishPeriod
           /\ Len(Apps) * PublishPeriod < Interval
           /\ waiting[a] + Start =< now
<1>1. Used(since, a, 0) + PublishPeriod =< Len(Apps) * PublishPeriod
      /\ Used(since, a, 0) \in Nat /\ Len(Apps) * PublishPeriod \in Nat
      /\ PublishPeriod \in Nat \ {0}
  BY UsedType
<1>2. PublishPeriod =< Len(Apps) * PublishPeriod
  <2>1. PICK m : m = Len(Apps) * PublishPeriod OBVIOUS
  <2> QED BY <1>1, <2>1
<1> QED BY <1>1, <1>2, TimesAssumption, NewDeadline DEF TypeOK, Ticks, LoopInv, EvaluatedOften

\* The first evaluation of a session restarts nothing.
LEMMA FirstWaits ==
    ASSUME TypeOK, NoWrap, EvaluatedOften, SpacedInv, LoopInv, phase = "run",
           LastPublishTimeMs = 0, NEW lost, CheckAppRestarts(lost), Remember(lost),
           LastPublishTimeMs' = now, now' = now, NEW a \in AppSet
    PROVE  Waits(a)'
<1>t. /\ now \in Nat \ {0} /\ NextRestartMs[a] \in Nat /\ waiting[a] \in Nat
      /\ Interval \in Nat \ {0} /\ PublishPeriod \in Nat \ {0}
      /\ Len(Apps) * PublishPeriod \in Nat /\ PublishPeriod =< Len(Apps) * PublishPeriod
  BY WaitTypes
<1>1. Due(lost) = {} /\ Restarted(lost) = {}
  <2>1. ASSUME NEW k \in Due(lost) PROVE FALSE
    BY DueIs DEF LoopInv
  <2> QED BY <2>1 DEF Restarted
<1>2. NextRestartMs[a] = 0 /\ waiting[a] =< PublishPeriod BY DEF LoopInv
<1>3. Deadline(a) = now + Interval BY <1>2, NewDeadline DEF Deadline
<1>4. \/ NextRestartMs'[a] = 0 /\ waiting'[a] = 0
      \/ NextRestartMs'[a] = now + Interval /\ waiting'[a] = waiting[a]
  BY <1>1, <1>3, EvaluatedDeadline
<1>5. CASE NextRestartMs'[a] = 0 /\ waiting'[a] = 0
  <2>1. Used(since', a, 0) \in Nat BY UsedType
  <2> QED BY <1>5, <1>t, <2>1 DEF Waits
<1>6. CASE NextRestartMs'[a] = now + Interval /\ waiting'[a] = waiting[a]
  <2>1. PICK m : m = Len(Apps) * PublishPeriod OBVIOUS
  <2>2. waiting[a] + (now + Interval) =< now + Interval + m BY <1>t, <1>2, <2>1
  <2>3. now + Interval # 0 /\ ~ (now + Interval =< now) BY <1>t
  <2> QED BY <1>6, <2>1, <2>2, <2>3 DEF Waits
<1> QED BY <1>4, <1>5, <1>6

\* An app that is skipped because one above it is restarted.  For w ticks no
\* app above it was restarted twice, so this one is new.
LEMMA SkippedUsed ==
    ASSUME TypeOK, NoWrap, EvaluatedOften, SpacedInv, NEW lost,
           CheckAppRestarts(lost), Remember(lost),
           NEW a \in AppSet, NEW k \in Restarted(lost), k < Index(a),
           NEW w \in Nat, w < Interval
    PROVE  Used(since, a, w) + PublishPeriod =< Used(since', a, w)
<1>1. /\ k \in 1..Len(Apps) /\ Apps[k] \in AppSet /\ since[Apps[k]] = Interval
  <2>1. k \in Due(lost) BY DEF Restarted
  <2> QED BY <2>1, DueIs
<1>2. Index(a) \in 1..Len(Apps) BY IndexOf
<1>3. k \in 1..(Index(a) - 1) BY <1>1, <1>2
<1>4. since' = [b \in AppSet |-> IF Index(b) \in Restarted(lost) THEN 0 ELSE since[b]]
  BY DEF Remember
<1>5. since'[Apps[k]] = 0 BY <1>1, <1>4, IndexBack
<1>6. ASSUME NEW j \in 1..(Index(a) - 1), since[Apps[j]] =< w PROVE since'[Apps[j]] =< w
  <2>1. j \in 1..Len(Apps) BY <1>2
  <2>2. Apps[j] \in AppSet BY <2>1, IndexBack
  <2> QED BY <1>4, <1>6, <2>2
<1>7. ~ (since[Apps[k]] =< w) /\ since'[Apps[k]] =< w
  <2>1. Interval \in Nat BY TimesAssumption
  <2> QED BY <1>1, <1>5, <2>1
<1> QED BY <1>3, <1>6, <1>7, UsedByAnother

LEMMA SkippedWaits ==
    ASSUME TypeOK, NoWrap, EvaluatedOften, SpacedInv, LoopInv, phase = "run",
           LastPublishTimeMs # 0, NEW lost, CheckAppRestarts(lost), Remember(lost),
           LastPublishTimeMs' = now, now' = now, NEW a \in AppSet, Waits(a),
           NEW k \in Restarted(lost), k < Index(a),
           NextRestartMs'[a] = NextRestartMs[a], waiting'[a] \in {0, waiting[a]}
    PROVE  Waits(a)'
<1>t. /\ now \in Nat \ {0} /\ NextRestartMs[a] \in Nat /\ waiting[a] \in Nat
      /\ Interval \in Nat \ {0} /\ PublishPeriod \in Nat \ {0}
      /\ LastPublishTimeMs \in Nat /\ LastPublishTimeMs =< now
      /\ Len(Apps) * PublishPeriod \in Nat /\ PublishPeriod =< Len(Apps) * PublishPeriod
      /\ Len(Apps) * PublishPeriod < Interval
  BY WaitTypes
<1>l. now - LastPublishTimeMs =< PublishPeriod BY DEF LoopInv
<1>m. PICK m : m = Len(Apps) * PublishPeriod OBVIOUS
<1>1. CASE NextRestartMs[a] = 0
  <2>1. CASE waiting'[a] = 0
    <3>1. Used(since', a, 0) \in Nat BY UsedType
    <3> QED BY <1>1, <1>t, <2>1, <3>1 DEF Waits
  <2>2. CASE waiting'[a] = waiting[a]
    <3>1. PICK w, u, v : /\ w = waiting[a] /\ u = Used(since, a, waiting[a])
                         /\ v = Used(since', a, waiting[a])
      OBVIOUS
    <3>2. u \in Nat /\ u + PublishPeriod =< m BY <1>m, <3>1, UsedType
    <3>3. w =< u + (now - LastPublishTimeMs) BY <1>1, <3>1 DEF Waits
    <3>4. w =< u + PublishPeriod /\ w < Interval BY <1>l, <1>m, <1>t, <3>1, <3>2, <3>3
    <3>5. v \in Nat /\ u + PublishPeriod =< v BY <1>t, <3>1, <3>4, SkippedUsed, UsedType
    <3>6. w =< v + (now - now) BY <1>t, <3>1, <3>2, <3>4, <3>5
    <3> QED BY <1>1, <2>2, <3>1, <3>6 DEF Waits
  <2> QED BY <2>1, <2>2
<1>2. CASE NextRestartMs[a] # 0
  <2>1. waiting'[a] + NextRestartMs[a] =< now + Interval + m
    <3>1. waiting[a] + NextRestartMs[a] =< now + Interval + m BY <1>2, <1>m DEF Waits
    <3> QED BY <1>m, <1>t, <3>1
  <2>2. ASSUME NextRestartMs[a] =< now
        PROVE  now - NextRestartMs[a] =< Used(since', a, now - NextRestartMs[a])
    <3>1. PICK e, u, v : /\ e = now - NextRestartMs[a] /\ u = Used(since, a, e)
                         /\ v = Used(since', a, e)
      OBVIOUS
    <3>2. u \in Nat /\ u + PublishPeriod =< m /\ v \in Nat BY <1>m, <3>1, UsedType
    <3>3. e \in Nat BY <1>t, <2>2, <3>1
    <3>4. e =< u + PublishPeriod
      <4>1. CASE NextRestartMs[a] =< LastPublishTimeMs
        <5>1. LastPublishTimeMs - NextRestartMs[a] =< u BY <1>2, <3>1, <4>1 DEF Waits
        <5>2. PICK d : d = LastPublishTimeMs - NextRestartMs[a] OBVIOUS
        <5>3. d \in Nat /\ e = (now - LastPublishTimeMs) + d BY <1>t, <3>1, <4>1, <5>2
        <5>4. d =< u BY <5>1, <5>2
        <5> QED BY <1>l, <1>t, <3>2, <5>3, <5>4
      <4>2. CASE ~ (NextRestartMs[a] =< LastPublishTimeMs)
        BY <1>l, <1>t, <3>1, <3>2, <4>2
      <4> QED BY <4>1, <4>2
    <3>5. e < Interval BY <1>m, <1>t, <3>2, <3>3, <3>4
    <3>6. u + PublishPeriod =< v BY <3>1, <3>3, <3>5, SkippedUsed
    <3>7. e =< v BY <1>t, <3>2, <3>3, <3>4, <3>6
    <3> QED BY <3>1, <3>7
  <2> QED BY <1>2, <1>m, <2>1, <2>2 DEF Waits
<1> QED BY <1>1, <1>2

LEMMA EvaluationWaits ==
    ASSUME TypeOK, NoWrap, EvaluatedOften, SpacedInv, LoopInv, WaitInv, phase = "run",
           NEW in, NEW ok, UpdateHealth(in, ok), UNCHANGED <<phase, now>>
    PROVE  LoopInv' /\ WaitInv'
<1>1. PICK lost : lost = Lost(in) OBVIOUS
<1>2. CheckAppRestarts(lost) /\ Remember(lost) /\ LastPublishTimeMs' = now
  BY <1>1 DEF UpdateHealth
<1>t. now \in Nat \ {0} /\ PublishPeriod \in Nat \ {0}
  BY TimesAssumption, NewDeadline
<1>3. LoopInv'
  <2>1. ASSUME NEW a \in AppSet PROVE waiting'[a] + Start =< now'
    <3>1. waiting'[a] \in {0, waiting[a]} BY <1>2 DEF Remember
    <3>2. waiting[a] + Start =< now /\ waiting[a] \in Nat /\ Start \in Nat BY WaitTypes
    <3> QED BY <1>t, <3>1, <3>2
  <2> QED BY <1>2, <1>t, <2>1 DEF LoopInv
<1>4. ASSUME NEW a \in Present PROVE Waits(a)'
  <2>a. a \in AppSet BY AppsAssumption
  <2>1. CASE LastPublishTimeMs = 0 BY <1>2, <2>1, <2>a, FirstWaits
  <2>2. CASE LastPublishTimeMs # 0
    <3>0. Waits(a) BY <2>2 DEF WaitInv
    <3>t. /\ NextRestartMs[a] \in Nat /\ waiting[a] \in Nat /\ Interval \in Nat \ {0}
          /\ LastPublishTimeMs \in Nat /\ LastPublishTimeMs =< now
          /\ Len(Apps) * PublishPeriod \in Nat
      BY <2>a, WaitTypes
    <3>m. PICK m : m = Len(Apps) * PublishPeriod OBVIOUS
    \* It has a new deadline, or none, and does not wait any more.
    <3>z. ASSUME NextRestartMs'[a] \in {0, now + Interval}, waiting'[a] = 0 PROVE Waits(a)'
      <4>1. Used(since', a, 0) \in Nat BY <2>a, UsedType
      <4>2. now + Interval # 0 /\ ~ (now + Interval =< now) BY <1>t, <3>t
      <4>3. 0 + (now + Interval) =< now + Interval + m BY <1>t, <3>t, <3>m
      <4>4. 0 =< Used(since', a, 0) + (now - now) BY <1>t, <4>1
      <4> QED BY <1>2, <3>m, <3>z, <4>2, <4>3, <4>4 DEF Waits
    <3>1. CASE /\ \E j \in Restarted(lost) : j < Index(a)
               /\ NextRestartMs'[a] = NextRestartMs[a]
               /\ waiting'[a] \in {0, waiting[a]}
      BY <1>2, <2>2, <2>a, <3>0, <3>1, SkippedWaits
    <3>2. CASE NextRestartMs'[a] \in {0, now + Interval} /\ waiting'[a] = 0
      BY <3>2, <3>z
    <3>3. CASE /\ a \in lost /\ Index(a) \notin Due(lost)
               /\ NextRestartMs'[a] = Deadline(a) /\ waiting'[a] = waiting[a]
      <4>1. Index(a) \in 1..Len(Apps) /\ Apps[Index(a)] = a BY <2>a, IndexOf
      <4>2. ~ (now >= Deadline(a)) BY <3>3, <4>1 DEF Due
      <4>3. CASE NextRestartMs[a] = 0
        <5>1. Deadline(a) = now + Interval BY <4>3, NewDeadline DEF Deadline
        <5>2. PICK u : u = Used(since, a, waiting[a]) OBVIOUS
        <5>3. u \in Nat /\ u + PublishPeriod =< m BY <2>a, <3>m, <5>2, UsedType
        <5>4. waiting[a] =< u + (now - LastPublishTimeMs) BY <3>0, <4>3, <5>2 DEF Waits
        <5>5. now - LastPublishTimeMs =< PublishPeriod BY <2>2 DEF LoopInv
        <5>6. waiting[a] + (now + Interval) =< now + Interval + m
          BY <1>t, <3>m, <3>t, <5>3, <5>4, <5>5
        <5>7. now + Interval # 0 /\ ~ (now + Interval =< now) BY <1>t, <3>t
        <5> QED BY <1>2, <3>3, <3>m, <5>1, <5>6, <5>7 DEF Waits
      <4>4. CASE NextRestartMs[a] # 0
        <5>1. Deadline(a) = NextRestartMs[a] BY <4>4 DEF Deadline
        <5>2. ~ (NextRestartMs[a] =< now) BY <1>t, <3>t, <4>2, <5>1
        <5>3. waiting[a] + NextRestartMs[a] =< now + Interval + m
          BY <3>0, <3>m, <4>4 DEF Waits
        <5> QED BY <1>2, <3>3, <3>m, <4>4, <5>1, <5>2, <5>3 DEF Waits
      <4> QED BY <4>3, <4>4
    <3> QED BY <1>2, <2>a, <3>1, <3>2, <3>3, EvaluatedDeadline
  <2> QED BY <2>1, <2>2
<1> QED BY <1>3, <1>4 DEF WaitInv

LEMMA TickWaits ==
    ASSUME TypeOK, NoWrap, EvaluatedOften, SpacedInv, LoopInv, WaitInv, Tick
    PROVE  LoopInv' /\ WaitInv'
<1>0. /\ now' = now + 1 /\ phase' = phase /\ NextRestartMs' = NextRestartMs
      /\ LastPublishTimeMs' = LastPublishTimeMs
      /\ turn' = FALSE /\ (phase = "run" => turn)
  BY TickNow DEF Tick, timers
<1>t. now \in Nat \ {0} /\ LastPublishTimeMs \in Nat /\ PublishPeriod \in Nat \ {0}
  BY TimesAssumption, NewDeadline DEF TypeOK, Ticks
<1>1. ASSUME NEW a \in AppSet
      PROVE  /\ waiting'[a] = 0 \/ waiting'[a] = waiting[a] + 1
                \/ (waiting'[a] =< waiting[a] + 1 /\ waiting'[a] > Interval)
             /\ waiting'[a] \in Nat /\ waiting'[a] =< waiting[a] + 1 /\ waiting[a] \in Nat
             /\ since'[a] = Least(since[a] + 1, Interval)
  <2>1. PICK s : s = Slack OBVIOUS
  <2>2. s \in Nat
    <3>1. Len(Apps) \in Nat /\ PublishPeriod \in Nat BY AppsAssumption, TimesAssumption
    <3> QED BY <2>1, <3>1 DEF Slack
  <2>3. waiting[a] \in Nat /\ Interval \in Nat BY WaitTypes
  <2>4. waiting'[a] \in {0, Least(waiting[a] + 1, Interval + s + 1)}
        /\ since'[a] = Least(since[a] + 1, Interval)
    BY <2>1 DEF Tick
  <2> QED BY <2>2, <2>3, <2>4 DEF Least
<1>2. LoopInv'
  <2>1. ASSUME NEW a \in AppSet
        PROVE  waiting'[a] + Start =< now' /\ (waiting[a] < PublishPeriod => waiting'[a] =< PublishPeriod)
    BY <1>0, <1>1, <1>t, WaitTypes
  <2> QED BY <1>0, <1>t, <2>1 DEF LoopInv
<1>3. ASSUME phase = "run", LastPublishTimeMs # 0, NEW a \in Present PROVE Waits(a)'
  <2>a. a \in AppSet /\ Waits(a) BY <1>3, AppsAssumption DEF WaitInv
  <2>t. /\ NextRestartMs[a] \in Nat /\ waiting[a] \in Nat /\ Interval \in Nat \ {0}
        /\ LastPublishTimeMs =< now /\ Len(Apps) * PublishPeriod \in Nat
    BY <2>a, WaitTypes
  <2>m. PICK m : m = Len(Apps) * PublishPeriod OBVIOUS
  <2>s. ASSUME NEW j \in 1..(Index(a) - 1)
        PROVE  since[Apps[j]] \in Nat /\ since'[Apps[j]] = Least(since[Apps[j]] + 1, Interval)
    <3>1. Index(a) \in 1..Len(Apps) BY <2>a, IndexOf
    <3>2. j \in 1..Len(Apps) BY <3>1
    <3>3. Apps[j] \in AppSet BY <3>2, IndexBack
    <3> QED BY <1>1, <3>3 DEF TypeOK
  <2>1. CASE NextRestartMs[a] = 0
    <3>1. CASE waiting'[a] = 0
      <4>1. Used(since', a, 0) \in Nat BY <2>a, UsedType
      <4>2. 0 =< Used(since', a, 0) + ((now + 1) - LastPublishTimeMs) BY <1>t, <2>t, <4>1
      <4>3. waiting'[a] =< Used(since', a, waiting'[a]) + (now' - LastPublishTimeMs')
        BY <1>0, <3>1, <4>2
      <4>4. NextRestartMs'[a] = 0 BY <1>0, <2>1
      <4> QED BY <4>3, <4>4 DEF Waits
    <3>2. CASE waiting'[a] # 0
      <4>1. PICK u, v : u = Used(since, a, waiting[a]) /\ v = Used(since', a, waiting'[a])
        OBVIOUS
      <4>2. u \in Nat /\ v \in Nat BY <2>a, <4>1, UsedType
      <4>3. ASSUME NEW j \in 1..(Index(a) - 1), since[Apps[j]] =< waiting[a]
            PROVE  since'[Apps[j]] =< waiting'[a]
        BY <1>1, <2>a, <2>s, <2>t, <3>2, <4>3 DEF Least
      <4>4. u =< v BY <2>a, <4>1, <4>3, UsedGrows
      <4>5. waiting[a] =< u + (now - LastPublishTimeMs) BY <2>1, <2>a, <4>1 DEF Waits
      <4>6. waiting'[a] =< v + ((now + 1) - LastPublishTimeMs)
        BY <1>1, <1>t, <2>a, <2>t, <4>2, <4>4, <4>5
      <4>7. waiting'[a] =< Used(since', a, waiting'[a]) + (now' - LastPublishTimeMs')
        BY <1>0, <4>1, <4>6
      <4>8. NextRestartMs'[a] = 0 BY <1>0, <2>1
      <4> QED BY <4>7, <4>8 DEF Waits
    <3> QED BY <3>1, <3>2
  <2>2. CASE NextRestartMs[a] # 0
    <3>1. waiting'[a] + NextRestartMs[a] =< now + 1 + Interval + m
      <4>1. waiting[a] + NextRestartMs[a] =< now + Interval + m BY <2>2, <2>a, <2>m DEF Waits
      <4> QED BY <1>1, <1>t, <2>a, <2>m, <2>t, <4>1
    <3>2. ASSUME NextRestartMs[a] =< LastPublishTimeMs
          PROVE  LastPublishTimeMs - NextRestartMs[a]
                   =< Used(since', a, (now + 1) - NextRestartMs[a])
      <4>1. PICK e, f : e = now - NextRestartMs[a] /\ f = (now + 1) - NextRestartMs[a]
        OBVIOUS
      <4>2. e \in Nat /\ f = e + 1 BY <1>t, <2>t, <3>2, <4>1
      <4>3. PICK u, v : u = Used(since, a, e) /\ v = Used(since', a, f) OBVIOUS
      <4>4. u \in Nat /\ v \in Nat BY <2>a, <4>3, UsedType
      <4>5. ASSUME NEW j \in 1..(Index(a) - 1), since[Apps[j]] =< e
            PROVE  since'[Apps[j]] =< f
        BY <2>s, <2>t, <4>2, <4>5 DEF Least
      <4>6. u =< v BY <2>a, <4>3, <4>5, UsedGrows
      <4>7. LastPublishTimeMs - NextRestartMs[a] =< u
        BY <2>2, <2>a, <3>2, <4>1, <4>3 DEF Waits
      <4>8. LastPublishTimeMs - NextRestartMs[a] =< v BY <1>t, <2>t, <4>4, <4>6, <4>7
      <4> QED BY <4>1, <4>3, <4>8
    <3>3. /\ waiting'[a] + NextRestartMs'[a] =< now' + Interval + Len(Apps) * PublishPeriod
          /\ NextRestartMs'[a] # 0
      BY <1>0, <2>2, <2>m, <3>1
    <3>4. NextRestartMs'[a] =< LastPublishTimeMs' =>
            LastPublishTimeMs' - NextRestartMs'[a] =< Used(since', a, now' - NextRestartMs'[a])
      BY <1>0, <3>2
    <3> QED BY <3>3, <3>4 DEF Waits
  <2> QED BY <2>1, <2>2
<1> QED BY <1>0, <1>2, <1>3 DEF WaitInv

LEMMA NextWaits ==
    ASSUME TypeOK, TypeOK', NoWrap, EvaluatedOften, SpacedInv, SpacedInv', LoopInv, WaitInv,
           [Next]_vars
    PROVE  LoopInv' /\ WaitInv'
<1>t. now \in Nat \ {0} /\ Start \in Nat \ {0} /\ PublishPeriod \in Nat \ {0}
      /\ LastPublishTimeMs \in Ticks
  BY TimesAssumption, NewDeadline DEF TypeOK
<1>u. ASSUME UNCHANGED <<phase, now, NextRestartMs, LastPublishTimeMs, waiting, since, turn>>
      PROVE  LoopInv' /\ WaitInv'
  BY <1>u DEF LoopInv, WaitInv, Waits
<1>1. ASSUME NEW ok, NEW f, NEW kind, FeedMessage(f, kind, ok) PROVE LoopInv' /\ WaitInv'
  <2>1. /\ phase = "run" /\ UNCHANGED <<phase, now>>
        /\ UpdateHealth([input EXCEPT ![f] = Arrival(f, kind)], ok)
    BY <1>1 DEF FeedMessage
  <2> QED BY <2>1, EvaluationWaits
<1>2. ASSUME NEW ok, NEW a, NEW fresh, AppHk(a, fresh, ok) PROVE LoopInv' /\ WaitInv'
  <2>1. phase = "run" /\ UNCHANGED <<phase, now>> /\ \E in : UpdateHealth(in, ok)
    BY <1>2 DEF AppHk
  <2> QED BY <2>1, EvaluationWaits
<1>3. ASSUME NEW ok, NEW gps, OtherMessage(gps, ok) PROVE LoopInv' /\ WaitInv'
  BY <1>3, EvaluationWaits DEF OtherMessage
<1>4. ASSUME NEW ok, ServicePrototype(ok) PROVE LoopInv' /\ WaitInv'
  <2>0. phase = "run" /\ UNCHANGED <<phase, now>> BY <1>4 DEF ServicePrototype
  <2>1. CASE UpdateHealth(input, ok) BY <2>0, <2>1, EvaluationWaits
  <2>2. CASE /\ Elapsed(LastPublishTimeMs) < PublishPeriod
             /\ UNCHANGED <<NextRestartMs, LastPublishTimeMs, waiting, since>>
    <3>1. now - LastPublishTimeMs < PublishPeriod
      BY <2>2, ElapsedIs DEF TypeOK, LoopInv
    <3>2. LoopInv'
      <4>1. ASSUME NEW a \in AppSet, LastPublishTimeMs = 0 PROVE waiting[a] < PublishPeriod
        <5>1. waiting[a] + Start =< now /\ waiting[a] \in Nat BY DEF LoopInv, TypeOK
        <5> QED BY <1>t, <3>1, <4>1, <5>1
      <4> QED BY <2>0, <2>2, <3>1, <4>1 DEF LoopInv
    <3> QED BY <2>0, <2>2, <3>2 DEF WaitInv, Waits
  <2> QED BY <1>4, <2>1, <2>2 DEF ServicePrototype, timers
<1>5. ASSUME NEW ok, ResetCounter(ok) PROVE LoopInv' /\ WaitInv'
  <2>1. /\ UNCHANGED <<phase, now, LastPublishTimeMs, turn>>
        /\ \A a \in AppSet : NextRestartMs'[a] = 0 /\ waiting'[a] = 0
    BY <1>5 DEF ResetCounter
  <2>2. LoopInv'
    <3>1. 0 + Start =< now BY TimesAssumption DEF SpacedInv
    <3> QED BY <1>t, <2>1, <3>1 DEF LoopInv
  <2>3. ASSUME NEW a \in Present PROVE Waits(a)'
    <3>1. a \in AppSet BY AppsAssumption
    <3>2. Used(since', a, 0) \in Nat BY <3>1, UsedType
    <3>3. now \in Nat /\ LastPublishTimeMs \in Nat /\ LastPublishTimeMs =< now
      BY DEF TypeOK, Ticks, LoopInv
    <3>4. 0 =< Used(since', a, 0) + (now - LastPublishTimeMs) BY <3>2, <3>3
    <3> QED BY <2>1, <3>1, <3>4 DEF Waits
  <2> QED BY <2>2, <2>3 DEF WaitInv
<1>6. CASE RestartBridge \/ BridgeRestarts \/ UNCHANGED vars
  BY <1>6, <1>u DEF RestartBridge, BridgeRestarts, vars, timers, history
<1>7. CASE Crash
  BY <1>7 DEF Crash, LoopInv, WaitInv, timers, history
<1>8. CASE LoadState
  <2>1. /\ now' = now /\ LastPublishTimeMs' = 0
        /\ \A a \in AppSet : NextRestartMs'[a] = 0 /\ waiting'[a] = 0
    BY <1>8 DEF LoadState
  <2>2. 0 + Start =< now BY TimesAssumption DEF SpacedInv
  <2> QED BY <1>t, <2>1, <2>2 DEF LoopInv, WaitInv
<1>9. CASE Tick BY <1>9, TickWaits
<1> QED BY <1>1, <1>2, <1>3, <1>4, <1>5, <1>6, <1>7, <1>8, <1>9 DEF Next

LEMMA InitWaits == ASSUME NoWrap, Init PROVE LoopInv /\ WaitInv
<1>1. Start \in Nat \ {0} BY TimesAssumption
<1> QED BY <1>1 DEF Init, LoopInv, WaitInv

LEMMA WaitIsBounded ==
    ASSUME TypeOK, NoWrap, EvaluatedOften, SpacedInv, LoopInv, WaitInv
    PROVE  RestartNotStarved
<1> SUFFICES ASSUME NEW a \in Present, phase = "run" PROVE waiting[a] =< Interval + Slack
  BY DEF RestartNotStarved
<1>a. a \in AppSet BY AppsAssumption
<1>t. /\ now \in Nat /\ NextRestartMs[a] \in Nat /\ waiting[a] \in Nat
      /\ Interval \in Nat \ {0} /\ PublishPeriod \in Nat \ {0}
      /\ LastPublishTimeMs \in Nat /\ LastPublishTimeMs =< now
      /\ Len(Apps) * PublishPeriod \in Nat /\ PublishPeriod =< Len(Apps) * PublishPeriod
  BY <1>a, WaitTypes
<1>m. PICK m : m = Len(Apps) * PublishPeriod OBVIOUS
<1>s. Slack = 2 * m
  <2>1. Len(Apps) \in Nat BY AppsAssumption
  <2>2. 2 * Len(Apps) * PublishPeriod = 2 * (Len(Apps) * PublishPeriod) BY <1>t, <2>1
  <2> QED BY <1>m, <2>2 DEF Slack
<1>1. CASE LastPublishTimeMs = 0
  <2>1. waiting[a] =< PublishPeriod BY <1>1, <1>a DEF LoopInv
  <2> QED BY <1>m, <1>s, <1>t, <2>1
<1>2. CASE LastPublishTimeMs # 0
  <2>1. Waits(a) /\ now - LastPublishTimeMs =< PublishPeriod BY <1>2 DEF WaitInv, LoopInv
  <2>2. CASE NextRestartMs[a] = 0
    <3>1. PICK u : u = Used(since, a, waiting[a]) OBVIOUS
    <3>2. u \in Nat /\ u + PublishPeriod =< m BY <1>a, <1>m, <3>1, UsedType
    <3>3. waiting[a] =< u + (now - LastPublishTimeMs) BY <2>1, <2>2, <3>1 DEF Waits
    <3> QED BY <1>m, <1>s, <1>t, <2>1, <3>2, <3>3
  <2>3. CASE NextRestartMs[a] # 0
    <3>1. waiting[a] + NextRestartMs[a] =< now + Interval + m BY <1>m, <2>1, <2>3 DEF Waits
    <3>2. now - NextRestartMs[a] =< m
      <4>1. PICK u : u = Used(since, a, now - NextRestartMs[a]) OBVIOUS
      <4>2. u \in Nat /\ u + PublishPeriod =< m BY <1>a, <1>m, <4>1, UsedType
      <4>3. CASE NextRestartMs[a] =< LastPublishTimeMs
        <5>1. LastPublishTimeMs - NextRestartMs[a] =< u BY <2>1, <2>3, <4>1, <4>3 DEF Waits
        <5> QED BY <1>m, <1>t, <2>1, <4>2, <5>1
      <4>4. CASE ~ (NextRestartMs[a] =< LastPublishTimeMs)
        BY <1>m, <1>t, <2>1, <4>4
      <4> QED BY <4>3, <4>4
    <3> QED BY <1>m, <1>s, <1>t, <3>1, <3>2
  <2> QED BY <2>2, <2>3
<1> QED BY <1>1, <1>2

\* An app that stays lost is restarted every Interval ticks but for the
\* evaluations in which apps of higher precedence are, whatever arrives, is
\* lost or reset meanwhile (CheckAppRestarts, ServicePrototype).
THEOREM NoAppStarves == ASSUME NoWrap, EvaluatedOften PROVE Spec => []RestartNotStarved
<1> DEFINE Inv == TypeOK /\ SpacedInv /\ LoopInv /\ WaitInv
<1>1. Init => Inv BY InitType, InitSpaced, InitWaits
<1>2. Inv /\ [Next]_vars => Inv' BY NextType, NextSpaced, NextWaits
<1>3. Inv => RestartNotStarved BY WaitIsBounded
<1> QED BY <1>1, <1>2, <1>3, PTL DEF Spec

------------------------------------------------------------------------------
(* The health returns *)

\* A tick is no timeout, and the clock does not pass 0, which
\* NominalEligibleSince takes for unset.
Undisturbed ==
    /\ \A i \in Inputs : Timeout[i] >= 1
    /\ Start =< LastTick

\* The clock of a session, whose wait for NOMINAL began in its past.
ClockInv ==
    /\ now \in Start..LastTick
    /\ NominalEligibleSince =< now

\* The bridge's counter has caught up with a cached number, or will have done so
\* as many estimates before MaxAhead as the feed sent in good ticks.
AheadInv ==
    /\ ahead \in [Feeds -> 0..MaxAhead]
    /\ good >= 1 => \A f \in Feeds :
         \/ ahead[f] = 0
         \/ ahead[f] + (good - 1) + (IF f \in heard THEN 1 ELSE 0) =< MaxAhead

\* Good ticks in which every counter had caught up.
Calm == IF good > MaxAhead THEN good - MaxAhead ELSE 0

\* Who sent a message in a calm tick was heard in it, and all in the last one.
HeardInv ==
    /\ Calm >= 1 => \A i \in heard :
           input[i].received /\ input[i].usable /\ input[i].age = 0
    /\ Calm >= 2 => \A i \in Inputs :
           input[i].received /\ input[i].usable /\ input[i].age =< 1

\* The wait for NOMINAL runs, or is over; so it is once all inputs were good.
Returning ==
    /\ published = LastHealthState
    /\ NominalEligibleSince # 0 \/ LastHealthState = NOMINAL

ReturnInv ==
    /\ Calm >= 2 \/ (Calm >= 1 /\ heard = Inputs) => Returning
    /\ Calm >= 2 =>
         \/ published = NOMINAL
         \/ Calm =< now - NominalEligibleSince + 1
         \/ now - NominalEligibleSince >= Stability
    /\ Calm >= Stability + 1 /\ heard # {} => published = NOMINAL
    /\ Calm >= Stability + 2 => published = NOMINAL

GoodInv == ClockInv /\ AheadInv /\ (phase = "run" => HeardInv /\ ReturnInv)

LEMMA ReturnTypes ==
    ASSUME TypeOK, Undisturbed, ClockInv
    PROVE  /\ now \in Nat \ {0} /\ now < TimeMod /\ TimeMod \in Nat
           /\ NominalEligibleSince \in Nat /\ NominalEligibleSince =< now
           /\ good \in Nat /\ Stability \in Nat \ {0} /\ now \in Ticks
           /\ NominalEligibleSince \in Ticks
<1>1. Start \in Nat \ {0} /\ LastTick \in Nat /\ TimeMod \in Nat /\ Stability \in Nat \ {0}
  BY TimesAssumption
<1>2. now \in Ticks /\ NominalEligibleSince \in Ticks /\ good \in Nat BY DEF TypeOK
<1>3. now \in Start..LastTick /\ NominalEligibleSince =< now BY DEF ClockInv
<1> QED BY <1>1, <1>2, <1>3 DEF Ticks

\* An evaluation that finds nothing lost.
LEMMA NothingLost ==
    ASSUME TypeOK, Undisturbed, ClockInv
    PROVE  \/ Derived({}) = NOMINAL
           \/ /\ LastHealthState # NOMINAL
              /\ EligibleSince({}) = IF NominalEligibleSince = 0 THEN now
                                                                 ELSE NominalEligibleSince
              /\ now - EligibleSince({}) < Stability
<1>1. CASE LastHealthState = NOMINAL BY <1>1 DEF Derived
<1>2. CASE LastHealthState # NOMINAL
  <2>1. EligibleSince({}) = IF NominalEligibleSince = 0 THEN now ELSE NominalEligibleSince
    BY <1>2 DEF EligibleSince
  <2>2. EligibleSince({}) \in Ticks /\ EligibleSince({}) =< now
    BY <2>1, ReturnTypes
  <2>3. Elapsed(EligibleSince({})) = now - EligibleSince({})
    BY <2>2, ReturnTypes, ElapsedIs DEF Ticks
  <2>4. Elapsed(EligibleSince({})) >= Stability => Derived({}) = NOMINAL
    BY DEF Derived
  <2>5. now - EligibleSince({}) \in Int BY <2>2, ReturnTypes DEF Ticks
  <2> QED BY <1>2, <2>1, <2>3, <2>4, <2>5, ReturnTypes
<1> QED BY <1>1, <1>2

\* Inputs that were heard in this tick or the last are not lost.
LEMMA HeardIsNotLost ==
    ASSUME TypeOK, Undisturbed, NEW in \in InputType,
           \A i \in Inputs : in[i].received /\ in[i].usable /\ in[i].age =< 1
    PROVE  Lost(in) = {}
<1>1. ASSUME NEW i \in Inputs PROVE ~TimedOut(in[i], i)
  <2>1. Timeout[i] \in Nat /\ Timeout[i] >= 1 BY TimeoutType DEF Undisturbed
  <2>2. in[i].age \in Nat BY DEF InputType
  <2> QED BY <2>1, <2>2 DEF TimedOut
<1> QED BY <1>1 DEF Lost

LEMMA CalmIs ==
    ASSUME good \in Nat
    PROVE  /\ Calm \in Nat /\ MaxAhead \in Nat
           /\ Calm >= 1 => good = Calm + MaxAhead
           /\ Calm = 0 => good =< MaxAhead
BY BoundsAssumption DEF Calm

LEMMA EvaluationReturns ==
    ASSUME TypeOK, Undisturbed, GoodInv, phase = "run",
           NEW in \in InputType, NEW ok, UpdateHealth(in, ok), UNCHANGED <<phase, now>>,
           AheadInv', good \in Nat, good' \in Nat, Calm' \in {0, Calm},
           Calm' >= 1 => \A i \in heard' : in[i].received /\ in[i].usable /\ in[i].age = 0,
           Calm' >= 2 => \A i \in Inputs : in[i].received /\ in[i].usable /\ in[i].age =< 1
    PROVE  GoodInv'
<1>1. PICK lost : lost = Lost(in) OBVIOUS
<1>2. /\ LastHealthState' = Derived(lost) /\ published' = Derived(lost) /\ input' = in
      /\ NominalEligibleSince' = IF Derived(lost) = NOMINAL THEN 0 ELSE EligibleSince(lost)
  BY <1>1 DEF UpdateHealth
<1>3. ClockInv /\ HeardInv /\ ReturnInv BY DEF GoodInv
<1>t. /\ now \in Nat \ {0} /\ now < TimeMod /\ TimeMod \in Nat
      /\ NominalEligibleSince \in Nat /\ NominalEligibleSince =< now
      /\ Calm \in Nat /\ Calm' \in Nat /\ Stability \in Nat \ {0}
  BY <1>3, ReturnTypes, CalmIs
<1>4. ClockInv'
  <2>1. EligibleSince(lost) =< now BY <1>t DEF EligibleSince
  <2>2. NominalEligibleSince' =< now' BY <1>2, <1>t, <2>1
  <2> QED BY <1>3, <2>2 DEF ClockInv
<1>5. HeardInv' BY <1>2 DEF HeardInv
<1>6. Calm' >= 2 \/ (Calm' >= 1 /\ heard' = Inputs) => lost = {}
  <2>1. Calm' >= 1 /\ heard' = Inputs =>
          \A i \in Inputs : in[i].received /\ in[i].usable /\ in[i].age =< 1
    OBVIOUS
  <2> QED BY <1>1, <2>1, HeardIsNotLost
<1>7. lost = {} =>
        \/ Derived(lost) = NOMINAL
        \/ /\ LastHealthState # NOMINAL
           /\ NominalEligibleSince' = IF NominalEligibleSince = 0 THEN now
                                                                  ELSE NominalEligibleSince
           /\ now - NominalEligibleSince' < Stability
  BY <1>2, <1>3, NothingLost
<1>8. lost = {} => Returning' BY <1>2, <1>7, <1>t DEF Returning
<1>9. ASSUME Calm' >= 2
      PROVE  \/ published' = NOMINAL
             \/ /\ Calm' =< now' - NominalEligibleSince' + 1
                /\ now' - NominalEligibleSince' < Stability
  <2>1. Calm' = Calm /\ Calm >= 2 /\ lost = {} BY <1>6, <1>9, <1>t
  <2>2. Returning BY <1>3, <2>1 DEF ReturnInv
  <2>3. CASE Derived(lost) = NOMINAL BY <1>2, <2>3
  <2>4. CASE Derived(lost) # NOMINAL
    <3>1. published # NOMINAL /\ NominalEligibleSince # 0
      BY <1>7, <2>1, <2>2, <2>4 DEF Returning
    <3>2. NominalEligibleSince' = NominalEligibleSince
          /\ now - NominalEligibleSince < Stability
      BY <1>7, <2>1, <2>4, <3>1
    <3>3. \/ Calm =< now - NominalEligibleSince + 1
          \/ now - NominalEligibleSince >= Stability
      BY <1>3, <2>1, <3>1 DEF ReturnInv
    <3> QED BY <1>t, <2>1, <3>2, <3>3
  <2> QED BY <2>3, <2>4
<1>10. ReturnInv'
  <2>1. Calm' >= 2 =>
          \/ published' = NOMINAL
          \/ Calm' =< now' - NominalEligibleSince' + 1
          \/ now' - NominalEligibleSince' >= Stability
    BY <1>9
  <2>2. Calm' >= Stability + 1 => published' = NOMINAL
    <3> SUFFICES ASSUME Calm' >= Stability + 1, published' # NOMINAL PROVE FALSE OBVIOUS
    <3>1. Calm' >= 2 BY <1>t
    <3>2. EligibleSince(lost) \in Nat BY <1>t DEF EligibleSince
    <3>3. PICK d \in Int : d = now' - NominalEligibleSince' BY <1>2, <1>t, <3>2
    <3>4. Calm' =< d + 1 /\ d < Stability BY <1>9, <3>1, <3>3
    <3> QED BY <1>t, <3>4
  <2>3. Calm' >= Stability + 2 => Calm' >= Stability + 1 BY <1>t
  <2> QED BY <1>6, <1>8, <2>1, <2>2, <2>3 DEF ReturnInv
<1> QED BY <1>4, <1>5, <1>10 DEF GoodInv

\* An estimate brings the bridge's counter one nearer to every cached number.
LEMMA NextAhead == ASSUME TypeOK, AheadInv, [Next]_vars PROVE AheadInv'
<1>t. /\ good \in Nat /\ MaxAhead \in Nat /\ heard \subseteq Inputs
      /\ ahead \in [Feeds -> 0..MaxAhead]
  BY BoundsAssumption DEF TypeOK, AheadInv
<1>c. /\ Counted \in [Feeds -> 0..MaxAhead]
      /\ \A f \in Feeds : /\ Counted[f] =< ahead[f]
                          /\ ahead[f] # 0 => Counted[f] + 1 = ahead[f]
                          /\ ahead[f] = 0 => Counted[f] = 0
  BY <1>t DEF Counted
<1>1. ASSUME good' \in {0, good}, ahead' \in [Feeds -> 0..MaxAhead],
             \A f \in Feeds :
                \/ ahead[f] = 0 /\ ahead'[f] = 0
                \/ ahead'[f] =< ahead[f] /\ (f \in heard' => f \in heard)
                \/ ahead'[f] + 1 = ahead[f]
      PROVE  AheadInv'
  <2>1. ASSUME good' >= 1, NEW f \in Feeds
        PROVE  \/ ahead'[f] = 0
               \/ ahead'[f] + (good' - 1) + (IF f \in heard' THEN 1 ELSE 0) =< MaxAhead
    <3>1. good' = good /\ good >= 1 BY <1>1, <2>1
    <3>2. \/ ahead[f] = 0
          \/ ahead[f] + (good - 1) + (IF f \in heard THEN 1 ELSE 0) =< MaxAhead
      BY <2>1, <3>1 DEF AheadInv
    <3>3. ahead[f] \in 0..MaxAhead /\ ahead'[f] \in 0..MaxAhead BY <1>1, <1>t, <2>1
    <3>4. \/ ahead[f] = 0 /\ ahead'[f] = 0
          \/ ahead'[f] =< ahead[f] /\ (f \in heard' => f \in heard)
          \/ ahead'[f] + 1 = ahead[f]
      BY <1>1, <2>1
    <3> QED BY <1>t, <3>1, <3>2, <3>3, <3>4
  <2> QED BY <1>1, <2>1 DEF AheadInv
<1>2. ASSUME NEW ok \in SaveResults, NEW f \in Feeds, NEW kind \in Kinds,
             FeedMessage(f, kind, ok)
      PROVE  AheadInv'
  <2>1. /\ ahead' = Counted /\ heard' = heard \cup {f} /\ good' \in {0, good}
    BY <1>2 DEF FeedMessage
  <2>2. \A g \in Feeds : \/ ahead[g] = 0 /\ ahead'[g] = 0
                         \/ ahead'[g] + 1 = ahead[g]
    BY <1>c, <2>1
  <2> QED BY <1>1, <1>c, <2>1, <2>2
<1>3. ASSUME NEW ok \in SaveResults, NEW a \in AppSet, NEW fresh \in BOOLEAN,
             AppHk(a, fresh, ok)
      PROVE  AheadInv'
  <2>1. /\ ahead' = ahead /\ heard' = heard \cup {a} /\ good' \in {0, good}
    BY <1>3 DEF AppHk
  <2>2. a \notin Feeds BY AppsAssumption
  <2>3. \A f \in Feeds : ahead'[f] =< ahead[f] /\ (f \in heard' => f \in heard)
    BY <1>t, <2>1, <2>2
  <2> QED BY <1>1, <1>t, <2>1, <2>3
<1>4. ASSUME NEW ok \in SaveResults, NEW gps \in BOOLEAN, OtherMessage(gps, ok)
      PROVE  AheadInv'
  <2>1. ahead' \in {Counted, ahead} /\ heard' = heard /\ good' = good
    BY <1>4 DEF OtherMessage
  <2>2. \A f \in Feeds : ahead'[f] =< ahead[f] /\ (f \in heard' => f \in heard)
    BY <1>c, <1>t, <2>1
  <2> QED BY <1>1, <1>c, <1>t, <2>1, <2>2
<1>5. ASSUME UNCHANGED <<ahead, heard, good>> PROVE AheadInv'
  BY <1>5 DEF AheadInv
<1>6. ASSUME NEW ok \in SaveResults, ServicePrototype(ok) \/ ResetCounter(ok)
      PROVE  AheadInv'
  BY <1>5, <1>6 DEF ServicePrototype, ResetCounter
<1>7. CASE RestartBridge \/ Crash BY <1>5, <1>7 DEF RestartBridge, Crash, history
<1>8. CASE BridgeRestarts
  BY <1>8 DEF BridgeRestarts, AheadInv
<1>9. CASE Tick
  <2>1. /\ ahead' = ahead /\ heard' = {}
        /\ good' = IF heard = Inputs THEN Least(good + 1, Patience) ELSE 0
    BY <1>9 DEF Tick
  <2>2. ASSUME good' >= 1, NEW f \in Feeds
        PROVE  \/ ahead[f] = 0
               \/ ahead[f] + (good' - 1) =< MaxAhead
    <3>1. Stability \in Nat BY TimesAssumption
    <3>2. good' =< good + 1 /\ good' \in Nat /\ f \in heard
      BY <1>t, <2>1, <2>2, <3>1 DEF Least, Patience, Inputs
    <3>3. ahead[f] \in 0..MaxAhead BY <1>t, <2>2
    <3>4. CASE good = 0 BY <1>t, <3>2, <3>3, <3>4
    <3>5. CASE good >= 1
      <4>1. ahead[f] = 0 \/ ahead[f] + (good - 1) + 1 =< MaxAhead
        BY <2>2, <3>2, <3>5 DEF AheadInv
      <4> QED BY <1>t, <3>2, <3>3, <4>1
    <3> QED BY <1>t, <3>4, <3>5
  <2>3. \A f \in Feeds : f \notin heard' BY <2>1
  <2>4. good' \in Nat
    BY <1>t, <2>1, TimesAssumption DEF Least, Patience
  <2>5. \A f \in Feeds : ahead[f] \in Nat BY <1>t
  <2> QED BY <1>t, <2>1, <2>2, <2>3, <2>4, <2>5 DEF AheadInv
<1>10. CASE LoadState BY <1>10, <1>t DEF LoadState, AheadInv
<1>11. CASE UNCHANGED vars BY <1>5, <1>11 DEF vars, history
<1> QED BY <1>2, <1>3, <1>4, <1>6, <1>7, <1>8, <1>9, <1>10, <1>11 DEF Next

LEMMA TickReturns ==
    ASSUME TypeOK, Undisturbed, GoodInv, AheadInv', Tick
    PROVE  GoodInv'
<1>1. /\ now # LastTick /\ now' = Sooner(now) /\ heard' = {}
      /\ good' = IF heard = Inputs THEN Least(good + 1, Patience) ELSE 0
      /\ UNCHANGED <<phase, ahead, LastHealthState, NominalEligibleSince, published>>
  BY DEF Tick, timers
<1>2. ClockInv BY DEF GoodInv
<1>t. /\ now \in Nat \ {0} /\ now < TimeMod /\ TimeMod \in Nat /\ now \in Ticks
      /\ NominalEligibleSince \in Nat /\ NominalEligibleSince =< now
      /\ good \in Nat /\ Stability \in Nat \ {0}
      /\ Calm \in Nat /\ MaxAhead \in Nat
  BY <1>2, ReturnTypes, CalmIs
<1>3. now' = now + 1 /\ now' \in Start..LastTick
  <2>1. now \in Start..LastTick BY <1>2 DEF ClockInv
  <2>2. Start \in Nat /\ LastTick \in Nat /\ LastTick < TimeMod BY TimesAssumption
  <2>3. now + 1 < TimeMod BY <1>1, <1>t, <2>1, <2>2
  <2> QED BY <1>1, <1>t, <2>1, <2>2, <2>3, SoonerIs
<1>4. ClockInv' BY <1>1, <1>2, <1>3, <1>t DEF ClockInv
<1>5. Inputs # {} BY AppsAssumption DEF Inputs
<1>6. /\ Calm' \in Nat
      /\ Calm' >= 1 => heard = Inputs /\ Calm' =< Calm + 1 /\ Calm' =< Stability + 2
  BY <1>1, <1>t DEF Least, Patience, Calm
<1>7. ASSUME phase' = "run" PROVE HeardInv' /\ ReturnInv'
  <2>1. HeardInv /\ ReturnInv BY <1>1, <1>7 DEF GoodInv
  <2>2. ASSUME Calm' >= 2, NEW i \in Inputs
        PROVE  input'[i].received /\ input'[i].usable /\ input'[i].age =< 1
    <3>1. Calm >= 1 /\ heard = Inputs BY <1>6, <1>t, <2>2
    <3>2. input[i].received /\ input[i].usable /\ input[i].age = 0
      BY <2>1, <2>2, <3>1 DEF HeardInv
    <3>3. input'[i] = [input[i] EXCEPT !.age = Least(@ + 1, Timeout[i] + 1)]
      BY <2>2 DEF Tick
    <3>4. input[i] \in [received : BOOLEAN, age : Nat, usable : BOOLEAN]
      BY <2>2 DEF TypeOK
    <3>5. Least(0 + 1, Timeout[i] + 1) =< 1 BY <2>2, TimeoutType DEF Least
    <3> QED BY <3>2, <3>3, <3>4, <3>5
  <2>3. HeardInv' BY <1>1, <2>2 DEF HeardInv
  <2>4. ASSUME Calm' >= 2
        PROVE  /\ Returning'
               /\ \/ published' = NOMINAL
                  \/ Calm' =< now' - NominalEligibleSince' + 1
                  \/ now' - NominalEligibleSince' >= Stability
    <3>1. Calm >= 1 /\ heard = Inputs /\ Calm' =< Calm + 1 BY <1>6, <1>t, <2>4
    <3>2. Returning BY <2>1, <3>1 DEF ReturnInv
    <3>3. Returning' BY <1>1, <3>2 DEF Returning
    <3>4. CASE Calm >= 2
      <4>1. \/ published = NOMINAL
            \/ Calm =< now - NominalEligibleSince + 1
            \/ now - NominalEligibleSince >= Stability
        BY <2>1, <3>4 DEF ReturnInv
      <4> QED BY <1>1, <1>3, <1>6, <1>t, <3>1, <3>3, <4>1
    <3>5. CASE Calm = 1
      BY <1>1, <1>3, <1>6, <1>t, <3>1, <3>3, <3>5
    <3> QED BY <1>t, <3>1, <3>3, <3>4, <3>5
  <2>5. Calm' >= Stability + 2 => published' = NOMINAL
    <3> SUFFICES ASSUME Calm' >= Stability + 2 PROVE published' = NOMINAL OBVIOUS
    <3>1. Calm >= Stability + 1 /\ heard # {} BY <1>5, <1>6, <1>t
    <3> QED BY <1>1, <2>1, <3>1 DEF ReturnInv
  <2>6. ReturnInv' BY <1>1, <1>5, <2>4, <2>5 DEF ReturnInv
  <2> QED BY <2>3, <2>6
<1> QED BY <1>1, <1>4, <1>7 DEF GoodInv

LEMMA NextReturns ==
    ASSUME TypeOK, HealthInv, Undisturbed, GoodInv, [Next]_vars
    PROVE  GoodInv'
<1>a. AheadInv' BY NextAhead DEF GoodInv
<1>c. /\ phase = "run" => HeardInv
      /\ good \in Nat /\ heard \subseteq Inputs /\ input \in InputType
      /\ Calm \in Nat /\ MaxAhead \in Nat
  BY CalmIs DEF GoodInv, TypeOK, InputType
\* Steps that leave inputs, timer and health alone.
<1>u. ASSUME UNCHANGED <<phase, now, input, LastHealthState, published,
                         NominalEligibleSince, heard, good>>
      PROVE  GoodInv'
  BY <1>a, <1>u DEF GoodInv, ClockInv, HeardInv, ReturnInv, Returning, Calm
<1>e. ASSUME NEW ok, UpdateHealth(input, ok), phase = "run",
             UNCHANGED <<phase, now, heard, good>>
      PROVE  GoodInv'
  <2>1. Calm' = Calm BY <1>e DEF Calm
  <2> QED BY <1>a, <1>c, <1>e, <2>1, EvaluationReturns DEF HeardInv
\* A good message is the newest that its input has had.
<1>m. ASSUME NEW ok, NEW i \in Inputs, NEW x, NEW fine \in BOOLEAN,
             [input EXCEPT ![i] = x] \in InputType,
             fine /\ Calm >= 1 => x.received /\ x.usable /\ x.age = 0,
             UpdateHealth([input EXCEPT ![i] = x], ok), phase = "run",
             UNCHANGED <<phase, now>>,
             heard' = heard \cup {i}, good' = IF fine THEN good ELSE 0
      PROVE  GoodInv'
  <2>1. PICK in : in = [input EXCEPT ![i] = x] OBVIOUS
  <2>2. in[i] = x /\ \A j \in Inputs : j # i => in[j] = input[j] BY <1>c, <2>1 DEF InputType
  <2>3. (Calm' >= 1 => Calm' = Calm /\ fine) /\ good' \in Nat /\ Calm' \in {0, Calm}
    BY <1>c, <1>m DEF Calm
  <2>4. Calm' >= 2 => Calm' >= 1 BY <1>c, <2>3
  <2>5. Calm' >= 1 => \A j \in heard' : in[j].received /\ in[j].usable /\ in[j].age = 0
    BY <1>c, <1>m, <2>2, <2>3 DEF HeardInv
  <2>6. Calm' >= 2 => \A j \in Inputs : in[j].received /\ in[j].usable /\ in[j].age =< 1
    <3> SUFFICES ASSUME Calm' >= 2, NEW j \in Inputs
                 PROVE  in[j].received /\ in[j].usable /\ in[j].age =< 1
      OBVIOUS
    <3>1. Calm >= 2 /\ fine BY <2>3, <2>4
    <3>2. CASE j = i BY <1>c, <1>m, <2>2, <3>1, <3>2
    <3>3. CASE j # i BY <1>c, <1>m, <2>2, <3>1, <3>3 DEF HeardInv
    <3> QED BY <3>2, <3>3
  <2>7. in \in InputType /\ UpdateHealth(in, ok) BY <1>m, <2>1
  <2> QED BY <1>a, <1>c, <1>m, <2>3, <2>5, <2>6, <2>7, EvaluationReturns
<1>1. ASSUME NEW ok \in SaveResults, NEW f \in Feeds, NEW kind \in Kinds,
             FeedMessage(f, kind, ok)
      PROVE  GoodInv'
  <2>1. PICK x : x = Arrival(f, kind) OBVIOUS
  <2>2. PICK fine \in BOOLEAN : fine = (kind = "good") OBVIOUS
  <2>6. Calm >= 1 => ahead[f] = 0
    <3> SUFFICES ASSUME Calm >= 1 PROVE ahead[f] = 0 OBVIOUS
    <3>1. good = Calm + MaxAhead /\ good >= 1 BY <1>c, CalmIs
    <3>2. f \notin heard BY <1>1 DEF FeedMessage
    <3>3. ahead[f] \in Nat BY DEF TypeOK
    <3>4. ahead[f] = 0 \/ ahead[f] + (good - 1) =< MaxAhead
      BY <1>c, <3>1, <3>2, <3>3 DEF GoodInv, AheadInv
    <3> QED BY <1>c, <3>1, <3>3, <3>4
  <2>3. fine /\ Calm >= 1 => x.received /\ x.usable /\ x.age = 0
    BY <1>c, <2>1, <2>2, <2>6 DEF Arrival
  <2>4. /\ UpdateHealth([input EXCEPT ![f] = x], ok) /\ phase = "run"
        /\ UNCHANGED <<phase, now>>
        /\ heard' = heard \cup {f} /\ good' = IF fine THEN good ELSE 0
    BY <1>1, <1>c, <2>1, <2>2 DEF FeedMessage
  <2>5. [input EXCEPT ![f] = x] \in InputType /\ f \in Inputs
    BY <2>1, ArrivalType DEF Inputs
  <2> QED BY <1>m, <2>3, <2>4, <2>5
<1>2. ASSUME NEW ok \in SaveResults, NEW a \in AppSet, NEW fresh \in BOOLEAN,
             AppHk(a, fresh, ok)
      PROVE  GoodInv'
  <2>1. PICK x : x = [received |-> TRUE, age |-> IF fresh THEN 0 ELSE Timeout[a] + 1,
                      usable |-> TRUE]
    OBVIOUS
  <2>2. a \in Inputs /\ Timeout[a] \in Nat BY TimeoutType DEF Inputs
  <2>3. x \in [received : BOOLEAN, age : Nat, usable : BOOLEAN] BY <2>1, <2>2
  <2>4. [input EXCEPT ![a] = x] \in InputType BY <1>c, <2>2, <2>3 DEF InputType
  <2>5. /\ UpdateHealth([input EXCEPT ![a] = x], ok) /\ phase = "run"
        /\ UNCHANGED <<phase, now>>
        /\ heard' = heard \cup {a} /\ good' = IF fresh THEN good ELSE 0
    BY <1>2, <1>c, <2>1 DEF AppHk
  <2>6. fresh => x.received /\ x.usable /\ x.age = 0 BY <2>1
  <2> QED BY <1>m, <2>2, <2>4, <2>5, <2>6
<1>3. ASSUME NEW ok \in SaveResults, NEW gps \in BOOLEAN, OtherMessage(gps, ok)
      PROVE  GoodInv'
  BY <1>3, <1>c, <1>e DEF OtherMessage
<1>4. ASSUME NEW ok \in SaveResults, ServicePrototype(ok) PROVE GoodInv'
  BY <1>4, <1>c, <1>e, <1>u DEF ServicePrototype, timers
<1>5. ASSUME NEW ok \in SaveResults, ResetCounter(ok) PROVE GoodInv'
  BY <1>5, <1>u DEF ResetCounter
<1>6. CASE RestartBridge
  BY <1>6, <1>u DEF RestartBridge, timers, history
<1>7. CASE BridgeRestarts
  <2>1. /\ UNCHANGED <<phase, now, NominalEligibleSince>> /\ good' = 0
    BY <1>7 DEF BridgeRestarts, timers
  <2>2. Calm' = 0 /\ Stability \in Nat BY <1>c, <2>1, TimesAssumption DEF Calm
  <2>3. HeardInv' /\ ReturnInv' BY <2>2 DEF HeardInv, ReturnInv
  <2> QED BY <1>a, <2>1, <2>3 DEF GoodInv, ClockInv
<1>8. CASE Tick BY <1>8, <1>a, TickReturns
<1>9. CASE Crash
  BY <1>9, <1>a DEF Crash, timers, GoodInv, ClockInv
<1>10. CASE LoadState
  <2>1. now \in Nat BY ReturnTypes DEF GoodInv
  <2>2. ClockInv' BY <1>10, <2>1 DEF LoadState, GoodInv, ClockInv
  <2>3. Calm' = 0 /\ Stability \in Nat BY <1>10, <1>c, TimesAssumption DEF LoadState, Calm
  <2>4. HeardInv' BY <2>3 DEF HeardInv
  <2>5. ReturnInv' BY <2>3 DEF ReturnInv
  <2> QED BY <1>a, <2>2, <2>4, <2>5 DEF GoodInv
<1>11. CASE UNCHANGED vars BY <1>11, <1>u DEF vars, timers, history
<1> QED BY <1>1, <1>2, <1>3, <1>4, <1>5, <1>6, <1>7, <1>8, <1>9, <1>10, <1>11 DEF Next

\* Once every input sends good messages in every tick, the vehicle is NOMINAL
\* after Stability ticks, whatever was published, restored or reset before, and
\* however messages, evaluations and restarts interleave (UpdateHealth); when the
\* bridge was restarted it takes as many ticks more as its last session had sent
\* estimates (UpdateStateCache refuses those of the new one meanwhile).
THEOREM NominalReturns == ASSUME Undisturbed PROVE Spec => []HealthReturns
<1> DEFINE Inv == TypeOK /\ HealthInv /\ GoodInv
<1>1. Init => Inv
  <2>1. ASSUME Init PROVE GoodInv
    <3>1. Start \in Nat /\ LastTick \in Nat BY TimesAssumption
    <3>2. MaxAhead \in Nat BY BoundsAssumption
    <3> QED BY <2>1, <3>1, <3>2 DEF Init, GoodInv, ClockInv, AheadInv, Undisturbed
  <2> QED BY <2>1, InitType, InitHealth
<1>2. Inv /\ [Next]_vars => Inv' BY NextType, NextHealth, NextReturns
<1>3. Inv => HealthReturns
  <2> SUFFICES ASSUME Inv, good >= Patience, phase = "run" PROVE published = NOMINAL
    BY DEF HealthReturns
  <2>1. good \in Nat /\ Stability \in Nat /\ MaxAhead \in Nat
    BY TimesAssumption, BoundsAssumption DEF TypeOK
  <2>2. Calm >= Stability + 2 BY <2>1 DEF Calm, Patience
  <2> QED BY <2>2 DEF GoodInv, ReturnInv
<1> QED BY <1>1, <1>2, <1>3, PTL DEF Spec
==============================================================================
