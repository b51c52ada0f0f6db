----------------------------- MODULE CoreHealth ------------------------------
(****************************************************************************)
(* cfs_core_app: the health of the vehicle and the restarts of the apps.    *)
(*                                                                          *)
(* cfs_core_app caches what the other apps report: housekeeping of the      *)
(* bridge, uplink and LoRa apps and the estimates of the flight controller. *)
(* Every such message, and every publish period of a quiet pipe, makes it   *)
(* evaluate all inputs (UpdateHealth): it restarts an app that fell silent  *)
(* (CheckAppRestarts), derives NOMINAL, DEGRADED, RECOVERY or FAILED,       *)
(* saves a change of that state and publishes SYSTEM_HEALTH_MID, on which   *)
(* uplink_app gates commands (module UplinkApp).                            *)
(*                                                                          *)
(* Time is counted in ticks; the clock is a uint32 of milliseconds in the   *)
(* code and wraps at TimeMod here.  An input is kept as its age, up to the  *)
(* first age that counts as expired: the code only asks whether it is.  The *)
(* sequence number of a cached estimate is kept as its distance ahead of    *)
(* the bridge's counter, which is 0 while that counter only grows.  Fault   *)
(* codes, statistics and telemetry fields are abstracted.                   *)
(****************************************************************************)
EXTENDS Naturals, Sequences

CONSTANTS
    Feeds,          \* flight controller estimates that the health depends on
    Apps,           \* watched apps in order of precedence, the bridge first
    Present,        \* those of them CFE_ES_GetAppIDByName finds
    Timeout,        \* age from which each feed and app counts as lost
    Interval,       \* ticks between two restarts of an app, 5 s
    Escalation,     \* ticks in RECOVERY until FAILED, 30 s
    Stability,      \* ticks without a fault until NOMINAL, 10 s
    PublishPeriod,  \* ticks between evaluations of a quiet pipe
    TimeMod,        \* values of the clock, 2^32 in the code
    Start, LastTick, \* bound: the clock runs from Start to LastTick
    Kinds,          \* kinds of estimates the bridge may send: see Arrival
    SaveResults,    \* may a save fail? {TRUE, FALSE}, or {TRUE} if never
    MaxAhead,       \* bound: estimates the bridge had sent before a restart
    CountCap        \* bound: restarts counted per app

NOMINAL  == 0
DEGRADED == 1
RECOVERY == 2
FAILED   == 3
SILENT   == 4     \* nothing published yet by this session
Health   == NOMINAL..FAILED

AppSet == {Apps[k] : k \in 1..Len(Apps)}
Bridge == Apps[1]
Inputs == Feeds \cup AppSet

ASSUME AppsAssumption ==
    /\ Apps \in Seq(AppSet) /\ Apps # << >> /\ Present \subseteq AppSet
    /\ \A j, k \in 1..Len(Apps) : Apps[j] = Apps[k] => j = k
    /\ Feeds \cap AppSet = {} /\ Feeds # {}
ASSUME TimesAssumption ==
    /\ Timeout \in [Inputs -> Nat]
    /\ Interval \in Nat \ {0} /\ Escalation \in Nat \ {0}
    /\ Stability \in Nat \ {0} /\ PublishPeriod \in Nat \ {0}
    /\ TimeMod \in Nat /\ Interval < TimeMod /\ Escalation < TimeMod
    /\ Stability < TimeMod /\ PublishPeriod < TimeMod
    /\ Start \in 1..(TimeMod - 1) /\ LastTick \in 0..(TimeMod - 1)
ASSUME BoundsAssumption ==
    /\ Kinds \subseteq {"good", "invalid", "nonfinite", "future"}
    /\ SaveResults \subseteq BOOLEAN
    /\ MaxAhead \in Nat /\ CountCap \in Nat

VARIABLES
    phase,                \* "off" or "run"
    now,                  \* CFS_CORE_APP_GetTimeMs
    input,                \* cache of each feed and app: Received, age, usable
    ahead,                \* of each feed: cached Seq minus the bridge's counter
    LastHealthState,
    RecoveryStartMs,      \* 0 when unset, as the timers below
    NominalEligibleSince,
    NextRestartMs,        \* of each app
    RestartCount,         \* of each app
    LastPublishTimeMs,
    file,                 \* the state file: readable?, health, restart counts
    published,            \* health in the last SYSTEM_HEALTH_MID, or SILENT
    restarting,           \* the bridge restart is under way in cFE ES
    heard,                \* inputs that sent a message in this tick
    turn,                 \* the main loop took a turn in this tick
    clear,                \* history: ticks since an evaluation found a fault
    down,                 \* history: ticks since an evaluation found the bridge alive
    waiting,              \* history: ticks each app is lost without a restart
    since,                \* history: ticks since each app's automatic restart
    good                  \* history: ticks in a row all inputs sent good messages,
                          \* since the bridge's last restart

timers  == <<RecoveryStartMs, NominalEligibleSince, NextRestartMs,
             LastPublishTimeMs>>
history == <<clear, down, waiting, since, good>>
vars == <<phase, now, input, ahead, LastHealthState, timers, RestartCount, file,
          published, restarting, heard, turn, history>>

Least(m, n) == IF m < n THEN m ELSE n
Sooner(n) == (n + 1) % TimeMod
Elapsed(t) == (now + TimeMod - t) % TimeMod

\* Slack of a restart behind its deadline: an app waits twice for an evaluation
\* in which no app above it is restarted, first to be given the deadline and
\* then when the deadline is over.
Slack == 2 * Len(Apps) * PublishPeriod

\* Good ticks after which nothing is left to wait for: a restarted bridge is not
\* heard until its counter has caught up, and two ticks pass until every input
\* is known to be good and the wait for stability runs.
Patience == Stability + 2 + MaxAhead

------------------------------------------------------------------------------
(* Evaluation *)

NotReceived(i) == [received |-> FALSE, age |-> Timeout[i] + 1, usable |-> FALSE]

\* StateExpired or Valid = 0 or Stale for a feed, the HK timeout for an app.
TimedOut(in, i) == ~in.received \/ in.age > Timeout[i] \/ ~in.usable

Lost(in) == {i \in Inputs : TimedOut(in[i], i)}

\* CheckAppRestarts: the deadline an app has in this evaluation; the first app
\* past its deadline is restarted and the apps after it are not looked at.
Deadline(a) ==
    IF NextRestartMs[a] = 0 THEN (now + Interval) % TimeMod ELSE NextRestartMs[a]

Due(lost) == {k \in 1..Len(Apps) : /\ Apps[k] \in lost \cap Present
                                   /\ now >= Deadline(Apps[k])}

Restarted(lost) == {k \in Due(lost) : \A j \in Due(lost) : k =< j}

\* Mutant: the lower apps wait for as long as the bridge is lost.
SkippedWhileBridgeLost(lost, k) == k > 1 /\ Bridge \in lost

Skipped(lost, k) == \E j \in Restarted(lost) : j < k

\* Mutant: the deadline is not moved when the app is restarted.
NextDeadlineKept(lost, k) ==
    IF Skipped(lost, k) THEN NextRestartMs[Apps[k]]
    ELSE IF Apps[k] \notin lost THEN 0
    ELSE Deadline(Apps[k])

NextDeadline(lost, k) ==
    IF Skipped(lost, k) THEN NextRestartMs[Apps[k]]
    ELSE IF Apps[k] \notin lost THEN 0
    ELSE IF k \in Restarted(lost) THEN (now + Interval) % TimeMod
    ELSE Deadline(Apps[k])

Index(a) == CHOOSE k \in 1..Len(Apps) : Apps[k] = a

CheckAppRestarts(lost) ==
    /\ NextRestartMs' = [a \in AppSet |-> NextDeadline(lost, Index(a))]
    /\ RestartCount' = [a \in AppSet |->
           IF Index(a) \in Restarted(lost) THEN Least(RestartCount[a] + 1, CountCap)
                                           ELSE RestartCount[a]]
    /\ restarting' = (restarting \/ 1 \in Restarted(lost))

\* Mutant: the start of a recovery is not forgotten when the bridge is back.
RecoveryStartKept(lost) ==
    IF Bridge \in lost /\ RecoveryStartMs = 0 THEN now ELSE RecoveryStartMs

\* Mutants: only a lost bridge restarts the wait, and every evaluation does.
EligibleSinceBridge(lost) ==
    IF Bridge \in lost \/ LastHealthState = NOMINAL THEN 0
    ELSE IF NominalEligibleSince = 0 THEN now ELSE NominalEligibleSince
EligibleSinceNow(lost) == IF lost # {} \/ LastHealthState = NOMINAL THEN 0 ELSE now

\* The health state that an evaluation derives, and its two timers.
RecoveryStart(lost) ==
    IF Bridge \notin lost THEN 0
    ELSE IF RecoveryStartMs = 0 THEN now ELSE RecoveryStartMs

EligibleSince(lost) ==
    IF lost # {} \/ LastHealthState = NOMINAL THEN 0
    ELSE IF NominalEligibleSince = 0 THEN now ELSE NominalEligibleSince

Derived(lost) ==
    IF Bridge \in lost
      THEN IF Elapsed(RecoveryStart(lost)) >= Escalation THEN FAILED ELSE RECOVERY
    ELSE IF lost # {} THEN DEGRADED
    ELSE IF \/ LastHealthState = NOMINAL
            \/ Elapsed(EligibleSince(lost)) >= Stability
         THEN NOMINAL
    ELSE DEGRADED

\* SaveState replaces the file by rename, so a failure keeps the old one.
SaveState(ok, health, count) ==
    file' = IF ok THEN [valid |-> TRUE, health |-> health, count |-> count] ELSE file

\* What the history remembers of an evaluation.
Remember(lost) ==
    /\ clear' = IF lost = {} THEN clear ELSE 0
    /\ down' = IF Bridge \in lost THEN down ELSE 0
    /\ waiting' = [a \in AppSet |->
           IF a \notin lost \/ Index(a) \in Restarted(lost) THEN 0 ELSE waiting[a]]
    /\ since' = [a \in AppSet |-> IF Index(a) \in Restarted(lost) THEN 0 ELSE since[a]]

\* UpdateHealth, past the publish period, on the inputs as they are after the
\* message.  A restart and a change of state are each followed by a save: when
\* the second fails the first may have succeeded.
UpdateHealth(in, ok) ==
    LET lost == Lost(in)
    IN  /\ input' = in
        /\ CheckAppRestarts(lost)
        /\ RecoveryStartMs' = RecoveryStart(lost)
        /\ NominalEligibleSince' = IF Derived(lost) = NOMINAL THEN 0
                                                              ELSE EligibleSince(lost)
        /\ LastHealthState' = Derived(lost)
        /\ \/ /\ Restarted(lost) # {} /\ (LastHealthState' # LastHealthState => ~ok)
              /\ \E first \in SaveResults : SaveState(first, LastHealthState, RestartCount')
           \/ /\ LastHealthState' # LastHealthState /\ ok
              /\ SaveState(ok, LastHealthState', RestartCount')
           \/ /\ Restarted(lost) = {} /\ (LastHealthState' # LastHealthState => ~ok)
              /\ UNCHANGED file
        /\ published' = Derived(lost)
        /\ LastPublishTimeMs' = now
        /\ turn' = TRUE
        /\ Remember(lost)

------------------------------------------------------------------------------
(* Messages *)

\* Every estimate the bridge sends carries the next value of one counter.
Counted == [f \in Feeds |-> IF ahead[f] = 0 THEN 0 ELSE ahead[f] - 1]

\* UpdateStateCache, then the check for non-finite fields, which also marks
\* the cache of an estimate that was not taken.
Arrival(f, kind) ==
    LET taken == kind # "future" /\ (input[f].received => ahead[f] = 0)
        cache == IF taken THEN [received |-> TRUE, age |-> 0, usable |-> kind = "good"]
                          ELSE input[f]
    IN  IF kind = "nonfinite" THEN [cache EXCEPT !.usable = FALSE] ELSE cache

FeedMessage(f, kind, ok) ==
    /\ phase = "run" /\ f \notin heard
    /\ ahead' = Counted
    /\ heard' = heard \cup {f}
    /\ good' = IF kind = "good" THEN good ELSE 0
    /\ UpdateHealth([input EXCEPT ![f] = Arrival(f, kind)], ok)
    /\ UNCHANGED <<phase, now>>

\* Housekeeping of an app.  That of the bridge carries the time of the last
\* byte from the flight controller: fresh, or older than the timeout.
AppHk(a, fresh, ok) ==
    /\ phase = "run" /\ a \notin heard
    /\ a # Bridge => fresh
    /\ heard' = heard \cup {a}
    /\ good' = IF fresh THEN good ELSE 0
    /\ UpdateHealth([input EXCEPT ![a] =
           [received |-> TRUE, age |-> IF fresh THEN 0 ELSE Timeout[a] + 1,
            usable |-> TRUE]], ok)
    /\ UNCHANGED <<phase, now, ahead>>

\* GPS, routes and mission readbacks do not enter the health, but they are
\* evaluated like the rest; GPS estimates use the bridge's counter too.
OtherMessage(gps, ok) ==
    /\ phase = "run"
    /\ ahead' = IF gps THEN Counted ELSE ahead
    /\ UpdateHealth(input, ok)
    /\ UNCHANGED <<phase, now, heard, good>>

\* ServicePrototype: the pipe was quiet for a poll timeout.
ServicePrototype(ok) ==
    /\ phase = "run"
    /\ IF Elapsed(LastPublishTimeMs) < PublishPeriod
         THEN /\ turn' = TRUE
              /\ UNCHANGED <<input, LastHealthState, timers, RestartCount, file,
                             published, restarting, clear, down, waiting, since>>
         ELSE UpdateHealth(input, ok)
    /\ UNCHANGED <<phase, now, ahead, heard, good>>

\* ProcessRecoveryCommand.
ResetCounter(ok) ==
    /\ phase = "run"
    /\ RecoveryStartMs' = 0
    /\ NextRestartMs' = [a \in AppSet |-> 0]
    /\ RestartCount' = [a \in AppSet |-> 0]
    /\ SaveState(ok, LastHealthState, RestartCount')
    /\ waiting' = [a \in AppSet |-> 0]
    /\ UNCHANGED <<phase, now, input, ahead, LastHealthState,
                   NominalEligibleSince, LastPublishTimeMs, published,
                   restarting, heard, turn, clear, down, since, good>>

RestartBridge ==
    /\ phase = "run" /\ Bridge \in Present /\ ~restarting
    /\ restarting' = TRUE
    /\ UNCHANGED <<phase, now, input, ahead, LastHealthState, timers,
                   RestartCount, file, published, heard, turn, history>>

------------------------------------------------------------------------------
(* The other apps, time and crashes *)

\* The bridge comes up again and its counter starts over, so that each cached
\* number is ahead of it by what the last session had sent.
BridgeRestarts ==
    /\ restarting
    /\ restarting' = FALSE
    /\ ahead' \in [Feeds -> 0..MaxAhead]
    /\ \A f \in Feeds : ~input[f].received => ahead'[f] = 0
    /\ good' = 0
    /\ UNCHANGED <<phase, now, input, LastHealthState, timers, RestartCount,
                   file, published, heard, turn, clear, down, waiting, since>>

\* A tick passes once the main loop took a turn: it blocks for a poll timeout
\* at most, which is shorter than a tick.
Tick ==
    /\ now # LastTick
    /\ phase = "run" => turn
    /\ now' = Sooner(now)
    /\ input' = [i \in Inputs |-> [input[i] EXCEPT !.age = Least(@ + 1, Timeout[i] + 1)]]
    /\ turn' = FALSE
    /\ heard' = {}
    /\ good' = IF heard = Inputs THEN Least(good + 1, Patience) ELSE 0
    /\ clear' = Least(clear + 1, Stability)
    /\ down' = Least(down + 1, Escalation)
    /\ waiting' = [a \in AppSet |->
           IF TimedOut(input[a], a) THEN Least(waiting[a] + 1, Interval + Slack + 1)
                                    ELSE 0]
    /\ since' = [a \in AppSet |-> Least(since[a] + 1, Interval)]
    /\ UNCHANGED <<phase, ahead, LastHealthState, timers, RestartCount, file,
                   published, restarting>>

\* cfs_core_app dies; cFE ES starts it again.
Crash ==
    /\ phase = "run"
    /\ phase' = "off"
    /\ published' = SILENT
    /\ UNCHANGED <<now, input, ahead, LastHealthState, timers, RestartCount, file,
                   restarting, heard, turn, history>>

\* CFS_CORE_APP_Init: the memset, then LoadState.
LoadState ==
    /\ phase = "off"
    /\ phase' = "run"
    /\ input' = [i \in Inputs |-> NotReceived(i)]
    /\ ahead' = [f \in Feeds |-> 0]
    /\ LastHealthState' = IF file.valid THEN file.health ELSE NOMINAL
    /\ RestartCount' = IF file.valid THEN file.count ELSE [a \in AppSet |-> 0]
    /\ RecoveryStartMs' = 0
    /\ NominalEligibleSince' = 0
    /\ NextRestartMs' = [a \in AppSet |-> 0]
    /\ LastPublishTimeMs' = 0
    /\ clear' = 0 /\ down' = 0 /\ good' = 0
    /\ waiting' = [a \in AppSet |-> 0]
    /\ UNCHANGED <<now, file, published, restarting, heard, turn, since>>

Init ==
    /\ phase = "off"
    /\ now = Start
    /\ input = [i \in Inputs |-> NotReceived(i)]
    /\ ahead = [f \in Feeds |-> 0]
    /\ LastHealthState = NOMINAL
    /\ RecoveryStartMs = 0 /\ NominalEligibleSince = 0 /\ LastPublishTimeMs = 0
    /\ NextRestartMs = [a \in AppSet |-> 0]
    /\ RestartCount = [a \in AppSet |-> 0]
    /\ file = [valid |-> FALSE, health |-> NOMINAL, count |-> [a \in AppSet |-> 0]]
    /\ published = SILENT
    /\ restarting = FALSE
    /\ heard = {} /\ turn = FALSE
    /\ clear = 0 /\ down = 0 /\ good = 0
    /\ waiting = [a \in AppSet |-> 0]
    /\ since = [a \in AppSet |-> Interval]

Next ==
    \/ \E ok \in SaveResults :
           \/ \E f \in Feeds, kind \in Kinds : FeedMessage(f, kind, ok)
           \/ \E a \in AppSet, fresh \in BOOLEAN : AppHk(a, fresh, ok)
           \/ \E gps \in BOOLEAN : OtherMessage(gps, ok)
           \/ ServicePrototype(ok)
           \/ ResetCounter(ok)
    \/ RestartBridge
    \/ BridgeRestarts
    \/ Tick
    \/ Crash
    \/ LoadState

Spec == Init /\ [][Next]_vars

------------------------------------------------------------------------------
(* Properties *)

Ticks == 0..(TimeMod - 1)

\* Type invariant.
TypeOK ==
    /\ phase \in {"off", "run"}
    /\ now \in Ticks
    /\ input \in [Inputs -> [received : BOOLEAN, age : Nat, usable : BOOLEAN]]
    /\ ahead \in [Feeds -> Nat]
    /\ LastHealthState \in Health
    /\ RecoveryStartMs \in Ticks /\ NominalEligibleSince \in Ticks
    /\ LastPublishTimeMs \in Ticks
    /\ NextRestartMs \in [AppSet -> Ticks]
    /\ RestartCount \in [AppSet -> Nat]
    /\ file \in [valid : BOOLEAN, health : Health, count : [AppSet -> Nat]]
    /\ published \in Health \cup {SILENT}
    /\ restarting \in BOOLEAN /\ turn \in BOOLEAN
    /\ heard \subseteq Inputs
    /\ clear \in Nat /\ down \in Nat /\ good \in Nat
    /\ waiting \in [AppSet -> Nat] /\ since \in [AppSet -> Nat]

\* NOMINAL is earned: it is published only when for Stability ticks no
\* evaluation found any input lost, also in the session after a crash, which
\* starts from the NOMINAL the state file restored (UpdateHealth, LoadState).
NominalIsEarned == published = NOMINAL => clear >= Stability

\* FAILED means that every evaluation for Escalation ticks found the bridge
\* lost: an interruption, however short, a counter reset by the ground or a
\* restart of cfs_core_app start the wait again (RecoveryStartMs).
FailedIsEscalated == published = FAILED => down >= Escalation

\* An app is not restarted automatically twice within Interval ticks, whatever
\* the ground resets and however often its housekeeping comes and goes
\* (CheckAppRestarts).
RestartCooldown ==
    [][\A a \in AppSet :
          (phase = "run" /\ RestartCount'[a] > RestartCount[a]) => since[a] >= Interval]_vars

\* No app that stays lost goes without a restart for long, because apps above
\* it are lost and restarted too or because of the fault that is reported
\* (CheckAppRestarts is independent of the chain in UpdateHealth).
RestartNotStarved ==
    \A a \in Present : phase = "run" => waiting[a] =< Interval + Slack

\* Once every input is good again, the vehicle is NOMINAL after Stability
\* ticks and the wait for the counter of a restarted bridge, and does not wait
\* for anything else: what was cached, restored or reset before does not matter
\* (UpdateHealth, UpdateStateCache).
HealthReturns == (good >= Patience /\ phase = "run") => published = NOMINAL

\* The same within Stability ticks (and the two of Patience), also after the
\* bridge was restarted, as RT-HEALTH-002 in tests/TEST_CASES.md expects of a
\* link that was lost and is back.  The code refutes it: UpdateStateCache drops
\* every estimate until the bridge's counter has passed the cached number.
HealthReturnsInTime ==
    (good >= Stability + 2 /\ phase = "run") => published = NOMINAL
==============================================================================
