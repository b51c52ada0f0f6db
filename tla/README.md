# TLA+ models of the cFS telemetry apps

This directory models the flight software of the repository: the cFS
applications that carry ground commands to the flight controller (FC) of a drone
and watch over its health. It holds TLA+ modules translated from the C sources,
TLC configurations that check them on small instances, and TLAPS proofs for
every size of the instance. `PROJECT.json` lists the parts, the runs, the source
lines of every definition, the disagreements found and the hazards the
properties are aimed at.

## 1. The system

| App | State it keeps | Operations | Talks to |
|---|---|---|---|
| `uplink_app` | last accepted sequence number, last known vehicle health, counters, result of the last command, boot accounting; a state file with number, boot count, survival mark and streak | `ProcessUplink` (sequence, envelope, health gate, authorisation, forward, record), `ProcessExecResult`, NOOP, counter reset, boot accounting, survival mark | receives commands from the radio app, `SYSTEM_HEALTH_MID` from `cfs_core_app`, `EXEC_RESULT_MID` from the apps that carry commands out; publishes VIEWPOINT, RECOVERY and MODE to `cfs_core_app`, CONFIG to `cfs_core_app`, bridge and radio app (its scope says which one acts), DIAGNOSTIC to `cfs_core_app` and the radio app (its target says which), ROUTE_UPDATE to the bridge and to the route cache of `cfs_core_app`, FLIGHT_MODE to the bridge, COUNTER_MGMT to each app |
| `cfs_core_app` | caches of every input with their age, health state and its timers, restart deadlines and counts, configuration, mode, route cache; a state file with health and restart counts | `ProcessStateMessage`, `UpdateHealth`, `CheckAppRestarts`, recovery, configuration, mode and diagnostic commands | reads housekeeping of the other apps and the FC's estimates; restarts apps through cFE ES; publishes `SYSTEM_HEALTH_MID` |
| `mavlink_bridge_app` | serial port and link state, MAVLink parser, mission upload and readback state machines, active route, flight mode commands | `ServiceSerial` (parse, timeouts, reconnect), `StartMissionUpload`, `MissionQuery`, `SetFlightMode`, serial reconnect | MAVLink v2 with the FC; publishes estimates and `FC_MISSION_READBACK` |
| `lora_tdm_app` | serial port, silent cycles and time of the last ACK, link state, feedback for the ground, route being read back, downlink protocol (in a state file) | `RunCycle`: empty the pipe, reopen, `RunTx`, `RunRxWindow`, `UpdateLinkState` | ground station over a half-duplex radio; hands commands to `uplink_app` and reads its status; gets route snapshots from `cfs_core_app` |

The ground's scripts build the payloads and frames that the models take as
inputs. Camera configuration, shared headers and the legacy image app are listed in
`PROJECT.json` and have no state worth a model.

Each app is one thread: a main loop that takes one message from its software bus
pipe, or finds it empty for a poll period and services its timers. What is hard
is between the apps and around them:

* a command is published first and its number saved afterwards, so a restart may
  fall in between, and a save may fail; every command is transmitted four times
  and copies come late; the number is a `uint16` that wraps;
* health is judged at every message, from inputs of any mix of ages, with timers
  on a `uint32` clock, and by an app that is itself restarted with the state its
  file holds;
* a restart of one app changes what the others see: it numbers its messages from
  1 again, forgets its route, leaves frames on the serial line;
* upload and readback of the FC's mission use the same MAVLink messages, the
  acknowledgement says nothing of what it acknowledges, and timeouts start the
  protocol over while old answers may still be under way;
* the radio app learns what became of a command from a status that is repeated,
  overwritten and, when its pipe is full, dropped; and it judges the link by a
  count of cycles and by a clock that wraps;
* a command that was let pass is on its way through the pipes of up to three apps,
  each of which may be full, restarted or busy, and its effect, its save and its
  answer can each fail alone;
* both serial lines lose, damage and add bytes, and a parser that keeps its state
  from one read to the next has to find the next frame again;
* some duties are only served when a pipe is quiet.

What makes each part correct:

* `uplink_app`: commands take effect once and in the ground's order; the gate
  refuses what the vehicle's state forbids and never shuts the ground out;
  every command is accounted for; a boot loop is reported when there is one.
* `cfs_core_app`: NOMINAL and FAILED are earned by an uninterrupted wait; health
  returns when everything works; a silent app is restarted, not too often, and
  none waits behind another for ever.
* bridge: a success means that the FC holds the route; what is read back is what
  the FC holds; uploads end; the two state machines stay out of each other's way.
  Nothing is shown that nobody sent: no FC, no armed flag, no value made of noise.
* radio: what it tells the ground about a command is `uplink_app`'s verdict on it;
  silence is noticed, first as DEGRADED and then as DISCONNECTED; a route is read
  back whole. Commands are forwarded as they were sent, and noise does not keep it
  deaf.
* all together: a command has one answer, it arrives, and OK means that the command
  took effect; a configuration is always legal and survives a restart; the route the
  ground is shown is the FC's.

## 2. Modules and their correspondence to the code

| Module | Models |
|---|---|
| `UplinkApp` | the command gate of `uplink_app`: `uplink_app_cmds.c`, the parsers and forwarders and the state file of `uplink_app_utils.c`, `TaskPipe`, `Init` |
| `UplinkBoot` | boot counting and boot-loop report of `uplink_app`, with the main loop's polling |
| `CoreHealth` | caches, health states and automatic restarts of `cfs_core_app` |
| `MissionService` | mission upload and readback of `mavlink_bridge_app`, its serial line and the FC |
| `LoraTdm` | cycle, link state, command feedback and route readback of `lora_tdm_app` |
| `BridgeLink` | the byte parser of `mavlink_bridge_app`, its target, telemetry outputs and port |
| `CommandExec` | what becomes of a command behind the gate: pipes, the handlers of `cfs_core_app`, bridge and radio app, their configurations and files, the answers |
| `ConfigStore` | abstract: what an app promises about its configuration |
| `LoraFrames` | the bytes of the radio link in both directions: `RunRxWindow`, the frame parsers and builders, the caches |
| `MCUplinkApp`, `MCCoreHealth`, `MCMissionService`, `MCBridgeLink`, `MCCommandExec`, `MCLoraFrames` | values of the constants for TLC |
| `UplinkAppProofs`, `UplinkBootProofs`, `CoreHealthProofs`, `MissionServiceProofs`, `LoraTdmProofs`, `BridgeLinkProofs`, `CommandExecProofs`, `LoraFramesProofs` | theorems, each about the module it is named after |

The modules meet at their borders: `LoraFrames` ends where a command is handed to
`uplink_app`, `UplinkApp` where it is published, `CommandExec` where the FC has been
written to or a readback arrives; `MissionService` and `BridgeLink` share the bridge's
serial line, one with whole mission frames, the other with bytes.

Variables carry the names of the fields of the C structures. Definitions are
mapped to lines in `PROJECT.json`. Definitions whose name extends that of
another (`CheckSequencePlain`, `ClampNone`, ...) and are commented "Mutant" are
deliberately wrong variants that show that the properties can fail; no
specification uses them.

### UplinkApp

A command has a number that never wraps (`num`) and a content. The code sees the
number through `Wire`, which wraps from `2 * Half - 1` to 1 and skips 0 as the
ground does; `CheckSequence` compares wire numbers only. With unwrapped numbers in the
history variables a property can tell a new command from a copy that is one turn
older. `ProcessUplink` is split by its returns: `DuplicateUplink`,
`ReplayedUplink`, `RefusedUplink` (the reason is `Verdict`, in the order of the
code's checks), `TransmitFailed`, `LocalReset`, and `Transmit` followed by
`Accept`. The split into `Transmit` and `Accept` is the one place inside the
handler where a process death matters. `Init` is likewise split at its saves
(`LoadState`, of which `RestoreReplay` is what concerns the replay protection, and `BootSave`). `SaveState(ok)` writes a temporary file and renames
it, so that a failed save leaves the old file. Payload bytes are abstracted to
how far the class's parser gets (`ParsePayload`).

### UplinkBoot

The fields of the same state file that count boots. `IncrementBootCount` and
`ProcessBootMarker` are separate steps because each saves. `MessageArrives`
makes the pipe busy; `TaskPipe` takes the message; only when there is none does
`ServicePrototype` run, which ages the session and sets the mark.

### CoreHealth

Every input is kept as its age, up to the age at which it counts as lost.
`UpdateHealth` is one operator, used by each action that triggers it:
`CheckAppRestarts`, then the fault chain, then the state with its two timers
(`RecoveryStart`, `EligibleSince`), the save on change, and the publication. The
clock is a number modulo `TimeMod`, in which 0 also means "timer not set" as in
the code. `turn` makes a clock tick wait until the evaluation that the publish
period asks for has run. A restarted bridge numbers its estimates from 1 again: `ahead` is how far each cached
number is ahead of the bridge's counter, and an estimate is refused until it has been passed. `clear`, `down`, `good`, `waiting` and `since` are
history: how long no fault was seen, the bridge was lost, all inputs were good (counted anew when the bridge comes up),
an app has been lost, and the last restart of an app is past.

### MissionService

The two state machines of the bridge with their retries; `Receive` has one
disjunct per MAVLink message. The serial line is two sequences of frames.
The FC is external and modelled from the MAVLink mission protocol as the bridge
uses it: it drops its mission on MISSION_CLEAR_ALL, which it acknowledges or
not, asks for one item after the other with MISSION_REQUEST_INT or with the older MISSION_REQUEST
(`AsksFor`), acknowledges the last, answers
a list request. The bridge answers MISSION_REQUEST_INT with the whole waypoint and MISSION_REQUEST
with the legacy MISSION_ITEM, which has no parameters, no flag for the current item, and a latitude and
longitude rounded to a float: `Legacy` says what is left of each waypoint. It may refuse an item, reboot or die. A timeout may fire when
at most `MaxLate` frames are under way. `ReadError`, `ReconnectFails`, `Reconnect`,
`ProcessSerialReconnectCmd` and `LinkStale` are the life of the port; `Restart`
is a restart of the app, which clears its memory and leaves what is on the line.
An answer to MISSION_CLEAR_ALL is a MISSION_ACK like any other for the code; `CLEAR_ACK` marks it for the
properties only. Two history variables mark the uploads whose success may be false: `mistaken`, the answer to
MISSION_CLEAR_ALL was taken for that to the upload, and `overtaken`, the upload or a retry of it began while a question or
an answer of an earlier attempt was under way. Two more mark the readbacks whose result nobody should trust:
`intruded`, a MISSION_QUERY during an upload, and `crossed`, a readback that began
before the request that started the one before was answered.
FC missions may be longer than the bridge can hold.

### LoraTdm

`phase` walks through the parts of `RunCycle`; the pipe is read only in `drain`,
frames from the ground are taken only in `rx`. Time is counted in ticks of
50 ms; a cycle sleeps two and listens for none or one. The code's time stamps
are kept as ages, up to where the code makes no difference any more, and a wrap of
the `uint32` clock as `wrapped`: until the next ACK the elapsed time is then 0.
`uplink_app` appears with what its status says: `UplinkHandles` (verdict, or
DUPLICATE, or a counter reset of its own that is ROUTED and not recorded),
`UplinkExecuted`, `UplinkRepeats`; its own checks are in `UplinkApp`. `pipe` holds
`MsgLimit` statuses and `Publish` drops the rest. `newest`, `last`, `lost`, `quiet`,
`resetSince` and `route.sent` are history. An ACK counts whichever frame it
echoes, as in the code, so the frame numbers are left out.

### BridgeLink

`wire` is a sequence of bytes. `Bytes` is what a MAVLink sender makes of a message,
with the v2 cutting of trailing zeros; `ParseByte` is `ProcessReceivedByte` state by state, and
`HandleFrameComplete` the switch over message ids, in the order of the code's checks. The
checksum covers the same bytes as the code's, in the same order, but is a
polynomial modulo 2^16 that TLC evaluates quickly; `ComputeFrameCrc` takes the v2 flags for zero as
the code does. A payload has one byte for each field that is looked at, and one value,
`NaN`, stands for the non-finite floats. `HandleReceivedBytes`,
`ServiceQuiet`, `ServiceReadError` and `ServiceClosed` are the returns of `ServiceSerial`;
`ProcessParserResetCmd`, `ProcessSerialReconnectCmd` and `Restart` come at any byte.
`LoseByte`, `DamageByte` and `AddByte` are the line. `sent`, `since`, `damaged`, `quiet` and
`good` are history: what was sent, how much of it an opening of the port
discarded, whether the line was at fault, and how long there were no bytes and no good
frame. `wait`, the age of `LastReconnectAttemptMs`, goes on while the port is open. An
attempt to open the port takes no time; a tick passes only in a turn of the main loop in
which nothing was read.

### CommandExec

The composition of the four apps from the gate on. `bus.queue` holds one pipe per
app; `CFE_SB_TransmitMsg` drops what does not fit and succeeds. `RouteUplink` and
`RefuseUplink` are `ProcessUplink` as seen from outside (its checks are in `UplinkApp`);
each app takes the head of its pipe when it gets round to it, and one action is
the whole handler, with its save and its answer. A handler's result (`CoreConfigResult`,
`BridgeConfigResult`, `LoraConfigResult`) is the chain of the code's checks in its order;
the three differ in what they do with a command for another app. A save, a
write to the FC and a transmission may fail; an app may be restarted, by a RECOVERY
command or by itself, and loses its pipe and its memory. `FcHeard`,
`StreamTimer` and `RequestTelemetryStreams` are the periodic part of the bridge.

A ROUTE_UPDATE leaves the bridge's pipe when the upload begins (`BridgeRouteUpdate`; `NewRoute` has all
four operations) or is refused because the link is down, a readback is running or the index is wrong. From then on
`upload` holds the route, while every other command, restart and message goes on: the FC clears or
stores its mission (`FcMission`), a later ROUTE_UPDATE takes the place of the upload, it ends well, or
wrongly so (`UploadSucceeds` does not ask what the FC has), or fails; a success starts a readback, as does a
link that comes up (`LinkUp`), and a readback is published, times out and is started again. The frames
in between, and MISSION_QUERY, are in `MissionService`. Of a flight mode the model
knows which frames were written (`wrote`), and not what the FC made of them: the code does not know it either.
`excused` names what was undone behind the ground's back: a failed save, a lost
file, an app's own command, a restart that forgets the mode, an upload that failed and was not followed by a readback.

Each app refines `ConfigStore` with its `ActiveConfig` and its file: `Core`, `Bridge` and `Lora` are
instances of it, and `ConfigStores` their conjunction.

### LoraFrames

`RunTx` builds one frame from the caches and opens the window; `ReadByte` is
one turn of the window's loop, with its overflow, its first byte, its length byte
and its two ends of a frame; `EndWindow` may come at any byte. `Bytes`, `Ack` and
`Ack2` are what the ground's scripts and decoder put on the air. Text fields are one character
wide and hexadecimal digits are the characters from 48 on; checksums as in `BridgeLink`.
`ProxyCrc` is the checksum of the command that is forwarded, over other bytes in another
order than that of the frame. Frame numbers have two widths, `U32` in the app
and `U16` in binary frames.

## 3. Runs

| Run | Checks | Result |
|---|---|---|
| `MCUplinkSequence` | `ExecutedInOrder`, `FreshCommandIsNew`, `DuplicateWasExecuted`, `SavedIsNeverRepeated` (action property) | hold |
| `MCUplinkGate` | `EveryUplinkCounted`, `InterventionPathOpen`, `PublishedIsAllowed` | hold |
| `MCUplinkBoot` | `StreakIsTrue` | holds |
| `MCCoreHealth` | `NominalIsEarned`, `FailedIsEscalated`, `HealthReturns` | hold |
| `MCCoreRestart` | `RestartNotStarved`, `RestartCooldown` | hold |
| `MCMission` | `TypeOK`, `UploadExcludesReadback`, `SuccessMeansStored`, `ReadbackIsAMission`, `UploadEnds` (liveness) | hold |
| `MCLora` | `FeedbackIsTrue`, `SilenceIsNoticed`, `LossIsReported`, `EveryWaypointOnce`, `DegradedBeforeLost` | hold |
| `MCBridgeLink` | `TypeOK`, `NothingInvented`, `OnlySentPasses`, `LastFrameShown`, `SilenceIsNoticed` | hold |
| `MCCommandExec` | `AnsweredOnce`, `OkMeansDone`, `RouteCacheIsMission`, `ConfigStores` (refinement), `AnswerArrives`, `StreamsFollowConfig` (liveness) | hold |
| `MCLoraFrames` | `TypeOK`, `ForwardedWereSent`, `CleanLineDelivers`, `SeqFailIsReal`, `PositionIsHonest`, `NoiseIsOvercome` (liveness) | hold |
| `MCBridgeGarbage` | `GarbageIsNoticed` | violated |
| `MCUplinkBootStarved` | `SurvivalMarked` (liveness) | violated |

What the runs show, in words: commands are executed in the ground's order and none twice while the state file is
up to date, and whatever crashes and fails, nothing that the file has recorded is executed again
(`SavedIsNeverRepeated`); health is earned, and returns; what the bridge calls stored is stored, but for what an
ambiguous acknowledgement can do. The bridge never invents an FC, an armed flag or
a value, whatever a line does to one byte (`NothingInvented`), because the checksum then lets
only frames pass that were sent (`OnlySentPasses`), and on a good line
misses none (`LastFrameShown`). The answer to a command is one (`AnsweredOnce`), comes
(`AnswerArrives`) and is true (`OkMeansDone`; of a flight mode: it was transmitted), and the ground's view of the route is
the FC's once nothing is under way (`RouteCacheIsMission`), whatever uploads, readbacks and route updates overtook one another. What the radio app forwards was sent, in order and
once (`ForwardedWereSent`), all of it on a good line (`CleanLineDelivers`), and noise is
overcome in the end (`NoiseIsOvercome`).

Where a type invariant is proved it is not checked again in a run (`UplinkApp`,
`UplinkBoot`, `CoreHealth`, `CommandExec`, `LoraTdm`).

Five more configurations are kept beside the runs. Four are violated, and section 5 says by what: `MCUplinkRetransmit`
(module `MCUplinkApp`), `MCCoreReturn` (`MCCoreHealth`, `HealthReturnsInTime`), `MCMissionClearAck`
and `MCMissionQueries` (`MCMissionService`, `AcceptedMeansStored` and `QueriedMissionIsReal`).
`MCMissionLate` (`MCMissionService`) has the invariants of `MCMission` and timeouts that fire while a message is under
way; they hold.

To run one: `tlc -workers 2 -config MCMission.cfg MCMissionService` (module
names in `PROJECT.json`). Each takes less than four minutes.

### Bounds

* `MCUplinkSequence`: a sequence space of 6 numbers (`Half = 3`) and commands
  1 to 7, without 6, which is 0 on the wire,
  so that the wire number wraps and comes round to the one it started with. Copies are up to
  `MaxDelay = Half` numbers late; for copies that are later still no modular comparison can work.
  Three executions are enough to have an older, a last and a new command.
* `MCUplinkGate`: all classes, each with the fields that can make it fail, in
  NOMINAL, DEGRADED and FAILED (the gate treats RECOVERY as FAILED). Two commands,
  because the gate itself keeps no state from one to the next; counters modulo 2
  wrap at the second.
* `MCUplinkBoot`: threshold 3, cap 4, boot count modulo 5 and 8 boots: below, at
  and above each of these.
* `MCCoreHealth`, `MCCoreRestart`: two apps, one estimate, waits of two and three
  ticks and eight ticks of time, nine in `MCCoreRestart`: long enough to fail, recover and
  fail again, and for the three steps of lost, restarted and due again. A restart may come
  later than its deadline by `Slack`, two publish periods for each app: an app waits once
  to be given a deadline and once when it is over, each time until no app above it is
  restarted instead. `MCCoreHealth` has seven
  ticks and `MaxAhead = 2`: a restarted bridge has up to two numbers to catch up with, so that
  its estimates are refused until they have been passed; `Patience` is the time for that.
* `MCMission`: routes of at most two waypoints, FC missions of none, two and
  three (one more than fits), one retry, two route updates, a query, and one fault (a lost frame, a
  refusal, a dying or rebooting FC, a break of the line, a reconnection or a restart), in any order. One waypoint is
  different as a MISSION_ITEM. `MaxLate = 0` says that a timeout fires with nothing under way; `MCMissionLate` has a late
  message, with one route update, and the proofs any number.

* `MCLora`: a threshold of two cycles and a timeout of seven ticks, the smallest
  that `LinkAssumption` allows for it, so that all three link states and both
  orders of count and time are reached; routes of none and of four waypoints, one
  more than fit, in pages of two; two statuses in the pipe; `uplink_app` starts with
  nothing accepted or with number 2, so that the ground's numbering may be behind.
  Four inputs (commands, copies, snapshots, settings, resets, faults, clock
  wraps, restarts) in any order; ACKs and repeated statuses are not counted.
* `MCBridgeLink`: two frames, the second of any of 25 kinds (every message id, v1 and v2, cut, too
  long, too short, not finite, from a camera), or two for the same output; one
  fault, command or restart at any byte. Noise is 0 or 253, the start of a v2
  frame, so that the parser can be led astray into the frame that follows. One fault is
  what a checksum can be expected to catch. The timeouts are 2 ticks.
* `MCBridgeGarbage`: three bytes of noise, no frame, at most a tick between two
  bytes. Deadlock is not checked in the two runs of `BridgeLink`, whose traffic ends
  and whose port may be lost for good.
* `MCCommandExec`: 24 scripts of two commands, chosen so that each class, each
  result of each configuration handler and each pair that could disturb one
  another occurs, among them two uploads of which the second may find the first under way, or a readback; times from 1 to 5; pipes of two messages, so that a third is
  lost; one fault, restart, lost link, readback that times out or local command. It has 424,060 states and takes
  three minutes. With two commands there is an answer that
  comes after a later command, which is what `Correlates` is about.
* `MCLoraFrames`: frame numbers of 1 and 2 bits, so that both widths wrap; payloads of
  none to four bytes, some of which look like the start of a frame or like a newline; a buffer of
  16 bytes, like that of the code one more than a multiple of an ACK2's length (see
  section 5), into which the longest binary frame fits and a text line of the
  same payload does not; one fault, setting or FC message; positions below, in and
  above the range.

### Fairness

* `LoopSpec`: the main loop goes on (`CFE_SB_ReceiveBuffer` blocks for one poll
  period at most) and a boot finishes: weak fairness of `Boot` and of
  `TaskPipe \/ Service`. This is what the code guarantees, and it is not enough for the survival mark:
  `MCUplinkBootStarved`.
* `LiveSpec`: `ServiceSerial` runs in every turn of the bridge's main loop, also
  when messages keep coming, so frames are read and timeouts noticed: weak
  fairness of `Receive` and the two timeout checks. `FcStep` is fair too; it has no
  effect once the FC has died. Nothing is assumed of reconnects, queries or
  route updates.

* `CommandExec`: weak fairness of each app's service of its pipe (each main loop
  takes the next message without a condition), of the FC's heartbeat, of the timer of the
  stream requests and of the request itself, which `ServiceSerial` makes in every
  turn once the timer is over; and of the end of an upload, which `UploadEnds` of `MissionService` shows of its
  timeouts. A port that is closed delays these until it is open again, which is taken for granted here. Nothing is assumed of the ground, of restarts or of a
  write that succeeds: failures are bounded by `MaxEvents` instead.
* `LoraFrames`: the cycle goes on (weak fairness of `Cycle`). A window may end before a
  byte that has arrived is read, but bytes that are there while a window is open are
  read in its loop, and the ground acknowledges the frames it gets: strong fairness of
  `ReadByte` and of `GroundAck`, the latter an assumption about the ground.

Fairness takes no state away, so that the invariants of a run with a liveness property are checked of all its states. Deadlock is checked in all runs but the two of
`BridgeLink`.

## 4. Proofs

TLAPS checks the following for every value of the constants that satisfies the
`ASSUME`s of the modules: any sequence space with `MaxDelay <= Half`, any
counters, routes, retries and bounds, so also for the sizes the code has.

* **`ReplayProtection`** (`UplinkAppProofs`):
  `ExecutedInOrder`, which alone is not
  inductive, since a step sees only the last accepted number. `ReplayInv` adds:
  no number, in memory, in the file or in a history, is larger than the ground's
  newest (`NumbersBounded`); a running session's `LastAccepted` is the last entry
  of the history unless some boot restored less (`SessionRemembers`); between
  publication and record the command in flight is that entry
  (`PublishedInFlight`). The step that matters is `Transmit`: a number that is
  not larger than `LastAccepted`, and not more than `MaxDelay` behind the newest,
  has a wire distance in the half that `CheckSequence` refuses
  (`OldIsNotNew`).
* **`SavedIsFinal`**: the action property `SavedIsNeverRepeated`, which has no such condition: crashes between
  publication and save, failed saves, deaths inside `Init` and lost files are all in. `SavedInv` says that a session
  that runs knows at least the number that the file holds (`RestoreReplay`), and `NewIsAbove` that what
  `CheckSequence` takes for new is newer than that. Together with `ReplayProtection` it says exactly what a crash or a
  failed save can cost: the commands since the last save, no others.
* **`FreshIsNew`**: `FreshCommandIsNew`, by the same arithmetic in the other
  direction (`AheadIsNew`).
* **`GroundKeepsControl`, `GateIsSafe`**: `InterventionPathOpen` and
  `PublishedIsAllowed`, the latter with `InFlightOnlyRouted`: the health the gate
  looked at cannot change while a command is between gate and record.
* **`StreakCorrect`** (`UplinkBootProofs`): `StreakIsTrue`. `BootInv` says at each
  of the four phases of a session what memory and file hold of the sessions
  before it (`FileTrue` while the app is down).
* **`DuplicateIsTrue`, `UplinksCounted`**: `DuplicateWasExecuted` and `EveryUplinkCounted`. The
  first needs that `LastAccepted`, in memory and in the file, is a number that was published, which
  a save of `Init` without any acceptance could spoil, and `AheadIsNew`. The second is inductive
  as it stands, with `ModPeriod` for the wrap of `CmdCounter`.
* **`Exclusion`** (`MissionServiceProofs`): `UploadExcludesReadback`, inductive as
  it stands, for each of the ways a readback or an upload starts.
* **`ReadbackTrue`**: `ReadbackIsAMission`. Items are stored by arrival, so it has to be shown that
  only one request or one answer of the running readback is ever under way, that the answer is
  the item asked for, and that the FC cannot change its mission meanwhile, for which
  `Exclusion` is used: no frame of an upload is on the line when a readback starts.
* **`SuccessStored`**: `SuccessMeansStored`, with no hypothesis on the FC, which may answer late, ask with either
  request, and acknowledge MISSION_CLEAR_ALL or not. The property itself excepts the two cases in which the code cannot know
  better, `mistaken` and `overtaken`; TLC finds a false success for either (section 5, item 3). `StoreInv` says that an active
  upload that has not overtaken another has one question or one answer under way (`OneExchange`), that what the FC
  has taken in is a beginning of the pending route, each waypoint as it is or as its MISSION_ITEM (`Transfer`), and that after a
  success no frame of an upload is left that could change the mission (`StaysStored`).
* **`SilenceNoticed`, `LossReported`, `WarnedBeforeLost`** (`LoraTdmProofs`):
  `SilenceIsNoticed`, `LossIsReported` and the action property
  `DegradedBeforeLost`. `LinkInv` says that a counter that is not saturated
  accounts for the silence: at most three ticks per counted cycle, and three for
  the cycle of the last ACK (`SilenceCounted`); that CONNECTED is kept only
  below the threshold; and that an ACK of the running window has age 0. The
  assumption is `3 * LINK_LOSS_THRESHOLD < LINK_TIMEOUT` in ticks: 90 and 100 for
  the code's 30 cycles and 5 s. With the 50 cycles it had before BL-88 it is false.
* **`ReadbackInOrder`, `FeedbackTrue`**: `EveryWaypointOnce` and `FeedbackIsTrue`. `RouteInv` says
  that the page being sent is one of the snapshot's and all pages before it are full, for which the
  rounding in `TotalPages` must be exact (`PagesCoverRoute`). `FeedbackInv` says of each
  status still in the pipe, and of each command still on its way to `uplink_app`, what the
  feedback will be when it has been taken (`VerdictOnItsWay`, `AcceptedOnItsWay`,
  `RoutedIsNewest`): a status about an older command cannot bring APPLIED back.
* **`SilenceNoticed`** (`BridgeLinkProofs`): `SilenceIsNoticed`, for all timeouts and whatever the line
  does. `SilenceInv` adds that the port has never been silent for less time than the history says, and
  that a closed port whose state is still CONNECTED, which a failed SERIAL_RECONNECT
  leaves behind, has been quiet for less than the stale timeout and the time since the last
  attempt: the next attempt ends it. The proof first failed in a model that let
  ticks pass in failed commands without ageing `wait`.
* **`FramesUnderstood`**: `LastFrameShown`, for any messages, v1 or v2, in any order and number, and any
  commands, restarts and reopenings between them. `CleanInv` says that on an undamaged line
  either no frame is under way, and the outputs show all messages so far (`Shows`), or the parser has read
  the first k bytes of the last one, has them in its fields (`Reading`), and the others are on
  the line. `FirstReads`, `NextReads` and `LastReads` follow a frame through the states of the parser, its bytes
  given by `BytesAt`; `SameBytes` shows that parser and sender add up the same bytes, so that nothing
  need be known of the checksum; `FrameEffect` says what a whole message does, by message id, with the
  zero-extension of `CargoPair` undoing what v2 cuts. Hypothesis (`RegularTraffic`, true of the run's
  messages and evaluated there): messages have the length MAVLink gives them. It is
  needed: the code takes a v1 ATTITUDE that is too short for a cut one, and a GPS, EKF or
  heartbeat message that is too long as it is.
* **`NominalEarned`, `FailedEscalated`** (`CoreHealthProofs`): `NominalIsEarned` and
  `FailedIsEscalated`, for any set of apps and estimates, any timeouts and any width of
  the clock. Neither is inductive. `HealthInv` adds that a timer that runs is not older
  than the time the history has counted (`TimersAreYoung`, where the modular subtraction
  of the code has to be shown to give the true difference), and that a session that has
  not evaluated yet has received nothing, so that its first evaluation finds something
  lost whatever state the file restored (`FirstEvaluation`).
* **`RestartsSpaced`, `NoAppStarves`**: `RestartCooldown` and `RestartNotStarved`, for any number of
  apps. Both hold until the clock nears its end (`NoWrap`: the last moment plus `Interval` is still a
  clock value, 49 days for the code), beyond which a deadline is compared across the wrap (section 5).
  `NoAppStarves` further assumes that all apps can be evaluated once within an
  interval (`EvaluatedOften`: `Len(Apps) * PublishPeriod < Interval`, in the code 3 * 1 s and 5 s). An app is
  passed over only in an evaluation that restarts an app above it; that app has then a deadline
  `Interval` away and cannot be the cause again before all others had their turn. `WaitInv`
  counts these evaluations: the time an app has waited behind its deadline is at most one publish
  period for each app above it that was restarted since (`Used`).
* **`NominalReturns`**: `HealthReturns`, for any numbers that a restarted bridge has to catch up with: `Patience` is
  `Stability + 2 + MaxAhead` ticks. Hypotheses (`Undisturbed`): a tick is no timeout, and the clock
  does not pass 0, which `NominalEligibleSince` takes for unset. `AheadInv` says that a good tick takes the bridge's counter
  one step closer to the cached number, so that nothing is refused after `MaxAhead` of them (`Calm` counts the good ticks since then).
  `GoodInv` says that an input heard in a
  calm tick is not lost in it, nor in the next (`HeardInv`), and that from the second calm tick on the wait for
  NOMINAL has been running at least since the first, or is over (`ReturnInv`). The first calm tick
  says nothing yet: a message of before may count as heard in it.
* **`ConfigIsStored`** (`CommandExecProofs`): the refinement. Each of the three apps implements
  `ConfigStore`, for any commands, ranges and pipes. `ConfigInv` says that what is in use
  and what is saved is legal; it is needed because a restart takes the file as it is. Every
  step is a change of one parameter to a legal value, a save, a loss of the
  file, a restart or a stutter of each of the three stores (`AllStep`).
* **`AnswersOnce`, `OkTrue`, `CacheIsMission`**: `AnsweredOnce`, `OkMeansDone` and
  `RouteCacheIsMission`. `Mail` says that commands wait in each pipe in the order of their
  numbers, and that an app that has answered a command has none left that is not newer. `OkInv` says
  that an OK that still waits for `uplink_app` is already true of the last accepted command, if
  it is about that command, and that no later step but an excused one makes it false; for a flight mode, true means
  that all its frames were written. `CacheInv` says, of every state in which the bridge has nothing under way (`Settled`) and no
  REPLACE waits for it, that the last route on its way to `cfs_core_app`, or else the one it holds, is the
  FC's: a REPLACE that the bridge refuses, or that another takes the place of, has a readback after it or an upload that failed.
* **`DeliveryCorrect`, `ForwardedCorrect`** (`LoraFramesProofs`): `CleanLineDelivers`, and
  `ForwardedWereSent` on a line without faults, also in the midst of a frame, for any buffer, payloads,
  widths of the numbers, traffic, settings, number of windows, and ends of a window at any byte. `CleanInv` looks at the buffer and
  the bytes still under way together (`Held`): they are nothing, or one acknowledgement, or the
  command sent last, or what is left of a text too long for the buffer, and the receiver's mode
  and target are those that belong to the bytes it has (`Reads`). `TextRead` and `BinaryRead` follow a
  frame of either format through the receiver; `UpUnderstood` and `Up2Understood` show that parsing undoes
  what the ground's scripts write: hexadecimal digits, words and checksums over the same bytes
  (`HexIs`, `HexCrcIs`, `SameChecksum`). Hypothesis (`RegularTraffic`, true of the run's commands and
  evaluated there): no command has a longer payload than `uplink_app` takes. It is needed: a longer one is
  refused as damaged, and the ground is told so.
* **`NothingIsInvented`**: `NothingInvented`, on a line that loses, damages and adds as many bytes as it
  likes, at any places, as long as the checksum lets only frames pass that were sent. That
  hypothesis, `[]OnlySentPasses`, is a property of its own, which the run checks for one
  fault; the theorem shows that the code depends on nothing else: not on where the parser began to
  read, what a reset or a reopened port left in its fields, or which frames came before. `Genuine` says
  that the target, the armed flag and each valid output can be traced to a message on the line;
  `GenuineFrame` keeps it over a frame that counts, with `GivesItsValue` (what a whole message does to
  its output, from the proof of `LastFrameShown`) for the values. `RegularTraffic` is assumed as there.
* **`SeqFailCorrect`, `PositionCorrect`**: `SeqFailIsReal` and the action property `PositionIsHonest`. The
  first needs that the frame to be acknowledged is the one sent last, in both widths of its number
  (`DownIsLast`), and that an acknowledgement is read whole (`CleanInv`); the second is inductive as it stands.
* **`TypeCorrect`** of all modules. In `LoraFrames` it includes that `RxLineBuf` is never written past its
  end and that the length waited for fits in it. In `MissionService` it includes that no
  route or readback is longer than its array. In `BridgeLink` it includes that a payload
  never outgrows the length it was announced with, nor `Payload` (`ParserOK`, one case for each state of
  the parser). There the type of a frame's bytes needs that of its
  checksum, a recursive function; that it is defined and a 16-bit number for every sequence of bytes is
  shown by a least counterexample (`LeastOf`, `AllUpTo`), which takes the place of the induction
  theorems that these provers cannot use.

`UplinkAppProofs` begins with what the provers lack about `%`: uniqueness of quotient and
remainder, the remainders of sums and distances, and the period; the other modules
prove the few such facts that they need themselves.

Only model-checked:

* liveness (`UploadEnds`, `AnswerArrives`, `StreamsFollowConfig`,
  `NoiseIsOvercome`), which is out of the prover's reach;
* `OnlySentPasses` of `BridgeLink`, and `ForwardedWereSent` of `LoraFrames` when bytes were damaged: they are
  true of one fault only, since two may agree with a checksum by chance, and of one because of what
  the checksum happens to tell apart in the frames of the run. `NothingInvented` is proved from the first.

## 5. Where code and documents disagree

Two disagreements have a run that shows them and are listed with their lines in `PROJECT.json` under `findings`.

* `MCBridgeGarbage`: any byte
  renews `LastRxTimestampMs` (`mavlink_bridge_app_utils.c:2080`), so that bytes that are no
  frames keep a link CONNECTED and its outputs not stale, although the comment above that line
  names exactly this as the fault that BL-84 removes.
* `MCUplinkBootStarved`: the survival mark is serviced only when the pipe is quiet for a poll period
  (`uplink_app.c:33`), and every message that `cfs_core_app` receives makes it publish to that pipe.
  `notes/mission_app_runtime_spec.md:821-822` says that the mark is saved once when 120 s
  are reached. The fairness is that of the main loop (`LoopSpec`); with a pipe that is quiet again and again the mark would come.

Four configurations show others:

1. A COUNTER_MGMT reset of `uplink_app` itself returns before its number is
   recorded (`uplink_app_cmds.c:455`): each of the four copies is carried out. The comment
   at lines 126-129 calls copies 2 to 4 "이미 수락된 명령의 중복 도착" (duplicate arrivals of a
   command already accepted). `MCUplinkRetransmit`.
2. After a restart of the bridge its estimates, numbered from 1 again, are refused
   as regressions (`cfs_core_app_utils.c:56`); the vehicle stays DEGRADED with every input
   good for as long as the session before lasted. `tests/TEST_CASES.md:953` expects
   `health 1->0` after 10 s of stability when the link is back. `MCCoreReturn`; `HealthReturns` bounds the wait by the numbers to
   catch up with.
3. A retry clears the FC's mission while the upload is ACTIVE
   (`mavlink_bridge_app_utils.c:681`); if the FC acknowledges that, the upload is reported as a success
   with no route stored. `notes/mavlink_bridge_app_behavior_spec.md:129` allows that
   acknowledgement and :273 says that ACCEPTED means that the FC took the items. It takes one lost frame:
   `MCMissionClearAck`. This is why `SuccessMeansStored` has the premise `~mistaken`.
4. A MISSION_QUERY starts a readback over while messages of the running one are under way
   (`mavlink_bridge_app_utils.c:810`), and items are stored by arrival (:1885). With two queries the FC
   answers the request for item 0 twice, and `<<b, b>>` is published for its mission `<<b, c>>`;
   `notes/mavlink_bridge_app_behavior_spec.md:283-284` says that what is published is the mission
   stored in the FC. This is why `ReadbackIsAMission` has the premise `~crossed`. `MCMissionQueries`.

Further observations, which the models show when a configuration is changed:

* A death after the publication and before the save, or a failed save, makes the
  next session accept the same number again, although `tests/TEST_CASES.md:1088`
  expects an old number to be refused after a restart too. This is why `ExecutedInOrder` has the
  premise `~rollback`; without it `MCUplinkSequence` fails.
* The answer of a target app is compared with the last *accepted* number only
  (`uplink_app_cmds.c:514`) and replaces the result of a newer command that was
  refused, or of a counter reset of `uplink_app` itself. This is why `OkMeansDone` speaks
  of the last command that was accepted and not of the one the status is about.
* A death between the two saves of `Init` loses the survival mark of the session
  before: `StreakIsTrue` needs its premise `clean`.
* Restarts are not limited to three as `README.md:58-59` of the repository says: in
  `MCCoreRestart` `RestartCount` exceeds 3 with a larger `CountCap` and `LastTick`.
* A restart deadline that wraps past 2^32 ms is compared with a plain `>=`:
  `RestartCooldown` fails with `TimeMod = 16`, `Start = 10`, `LastTick = 4`. It is the case that
  `NoWrap` excludes in `RestartsSpaced`.
* With a publish period as long as the restart interval the bridge is due at every
  evaluation and the apps after it are never reached: `RestartNotStarved` fails
  with `PublishPeriod = Interval = 2`, `LastTick = 16`, `SaveResults = {TRUE}`. It is the case
  that `EvaluatedOften` excludes in `NoAppStarves`.
* A lost serial link does not end an upload, whose timeouts go on when the port is
  open again (`notes/mavlink_bridge_app_behavior_spec.md:241` says it does).
* MISSION_QUERY starts a readback without looking at the upload
  (`mavlink_bridge_app_utils.c:793`), although the comment at 526-529 of that file says that the two
  exclude each other. This is why `UploadExcludesReadback` and
  `ReadbackIsAMission` have the premise `~intruded`; without it `MCMission` fails.
* A verdict that finds the radio app's pipe full is never shown if an execution
  result follows: `FeedbackIsTrue` needs its premise `~lost`.
* A copy of an accepted command sets the feedback back to OK, and the DUPLICATE
  that answers it does not bring APPLIED back, although the comment at
  `lora_tdm_app.c:318-324` says that a verdict is kept until the next command.
* A link that has not been heard since the start is CONNECTED for the threshold's cycles and
  then DEGRADED, never DISCONNECTED;
  `notes/lora_tdm_app_behavior_spec.md:386` says that it starts DISCONNECTED.
* ResetCounters clears the count of silent cycles: a DEGRADED link is reported as
  restored without an ACK.
* `lora_tdm_app` subscribes to `FC_SYS_TIME_MID`, but `ProcessCommandPacket` counts it as an
  unknown message, so the time block of the downlink is never filled (`FcSysTime` of
  `LoraFrames`), although `notes/lora_tdm_app_behavior_spec.md:78` and
  `notes/mission_app_runtime_spec.md:170` list it as an input.
* DIAGNOSTIC, COUNTER_MGMT, ROUTE_UPDATE and a CONFIG whose scope no app knows are never
  answered with EXEC_RESULT: the ground stays at ROUTED (`Answers` of `CommandExec`).
* A configuration that could not be saved is answered as OK and is gone after a
  restart; the mode (`CurrentModeState`) is not saved at all.
* `cfs_core_app` counts every CONFIG for another app as an error and overwrites
  `LastConfigResult` with BAD_SCOPE.
* `cfs_core_app` caches a REPLACE before the FC has it. If the bridge refuses it because a readback is running, that
  readback corrects the cache; if the upload fails, by a NAK or after the last retry, nothing does until the
  next readback, and the ground reads back a route the FC does not hold (`Settled` needs `"upload"` not
  in `excused`). Only an upload that succeeds starts a readback (`mavlink_bridge_app_utils.c:1801-1806`). After a restart
  of `cfs_core_app` its cache is empty until the next readback.
* A waypoint that the FC asks for with MISSION_REQUEST loses its parameters, the flag for the current item and
  the last digits of its position (`SendMissionItem`); the success that follows is no different
  (`StoredAs` of `MissionService`).
* EXECUTED_OK of SET_FLIGHT_MODE says that the frames were written, as the comment at
  `mavlink_bridge_app_utils.c:1098-1099` has it; a mode that the FC denies is shown as executed, since its COMMAND_ACK is not
  connected with the command.
* After a restart of the bridge an ADD is built on an empty route and replaces the FC's mission.
* The comment at `mavlink_bridge_app_utils.c:2264` says that a new stream interval is
  requested in the next loop; it is requested when the retry time is over.
* SET_FLIGHT_MODE is written, and answered as OK, also when no FC has been heard yet
  (target 0). `PreviousConfig` is kept and never used.
* `MarkOutputsStale` changes the structures in memory only: each Publish function sets
  Stale to 0 before it transmits, so no message on the bus ever says that it is stale.
* Telemetry is taken from any system, not only from the one that was locked on.
* GPS_RAW_INT, EKF_STATUS_REPORT and COMMAND_ACK are not zero-extended as BL-76 did for the
  others: a v2 COMMAND_ACK with result 0, or an EKF status with flags 0, is refused for
  its length, and EKF_UNHEALTHY cannot be reported for a v2 sender (`Usable` of
  `BridgeLink`).
* A SERIAL_RECONNECT command that fails to open the port leaves `LinkState` as it was until the
  next periodic attempt.
* A v1 UP line that is longer than 255 characters overflows `RxLineBuf` and is never
  delivered (`Fits` of `LoraFrames`).
* After a noise byte the receive window collects up to 255 bytes of good frames as a
  line and drops them with the byte that does not fit. It finds the start of a frame
  again because 256 and the 5 bytes of an ACK2 have no common factor: with
  `LINE_BUF_LEN = 15` `NoiseIsOvercome` fails.
* Opening the radio port again keeps the half frame that was received before.

## 6. Not modelled, and why

* The ground's decoder (`bridge/lora_downlink_decoder.py`) beyond its acknowledgement: its
  framing of the byte stream and the assembly of route pages. Reading it: two
  readbacks of the same length can be mixed when the first page of the second is lost.
* The heartbeat the bridge sends as a companion computer, housekeeping, command counters
  other than those of `uplink_app`, event texts: nothing depends on them.
* The CRC polynomials themselves: the models use another checksum over the same bytes.
* The start-up script, the build, the camera's configuration and the legacy image app.
* The FC's own clock, which decides whether an estimate is from the future; the
  model takes that as a kind of message.
* cFE, OSAL and the file system, except as the source of failed saves, restarts and
  unreadable files.

## 7. Plan

1. Abstract specifications: at-most-once, in-order execution of numbered commands,
   implemented by `UplinkApp` while no boot restores less than was executed; and a
   route store, implemented by `MissionService` and used by `CommandExec` for its uploads and readbacks.
2. Compositions: `LoraFrames` and `UplinkApp`, so that the four copies and their delay come from
   the radio; `CoreHealth` and `UplinkApp`, the gate with the health it really gets.
3. The ground's decoder: framing and the assembly of route pages.
