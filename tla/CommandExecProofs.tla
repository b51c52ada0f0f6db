-------------------------- MODULE CommandExecProofs --------------------------
(****************************************************************************)
(* Proofs about CommandExec, for any commands, ranges, depth of the pipes   *)
(* and number of faults.                                                    *)
(*                                                                          *)
(* 1. Each app implements ConfigStore (ConfigIsStored).  A case split: a    *)
(*    step changes the configuration of one app at most, and in one of the  *)
(*    ways ConfigStore allows.                                              *)
(* 2. Types (TypeCorrect).                                                  *)
(* 3. No command is answered twice (AnswersOnce).  The invariant, Mail,     *)
(*    says that commands wait in every pipe in the order of their numbers,  *)
(*    and that the app that answered a command has none left that is not    *)
(*    newer.                                                                *)
(* 4. EXECUTED_OK is true (OkTrue).  An OK on its way or shown is about     *)
(*    what was done - of FLIGHT_MODE: transmitted - and, by Mail, nothing   *)
(*    is left in the pipes to undo it.                                      *)
(* 5. The route of cfs_core_app is the FC's (CacheIsMission).  When the     *)
(*    bridge has settled and no REPLACE waits for it, the last route on its *)
(*    way to cfs_core_app is the FC's mission.                              *)
(****************************************************************************)
EXTENDS CommandExec, TLAPS

ConfigInv ==
    /\ active = [a \in Apps |-> active[a]]
    /\ file = [a \in Apps |-> file[a]]
    /\ \A a \in Apps : active[a] \in Legal(a)
    /\ \A a \in Apps : file[a] \in Legal(a) \cup {NoFile}

\* The steps of ConfigStore, for the app a.
Stutters(a) == active'[a] = active[a] /\ file'[a] = file[a]
Changes(a) ==
    /\ active'[a] \in Legal(a)
    /\ \E p \in DOMAIN active[a] :
         \A q \in DOMAIN active[a] \ {p} : active'[a][q] = active[a][q]
    /\ file'[a] \in {active'[a], file[a]}
Saves(a)    == file'[a] = active[a] /\ active'[a] = active[a]
Damages(a)  == file'[a] = NoFile /\ active'[a] = active[a]
Restarts(a) == active'[a] = LoadState(a) /\ file'[a] = file[a]

StoreStep(a) ==
    Stutters(a) \/ Changes(a) \/ Saves(a) \/ Damages(a) \/ Restarts(a)

Functions ==
    active' = [a \in Apps |-> active'[a]] /\ file' = [a \in Apps |-> file'[a]]

AllStep == Functions /\ \A a \in Apps : StoreStep(a)

------------------------------------------------------------------------------
(* Configurations *)

LEMMA ParamsOf ==
    /\ Params["core"] = CoreParams /\ Params["bridge"] = BridgeParams
    /\ Params["lora"] = LoraParams
    /\ Scope["core"] = 1 /\ Scope["bridge"] = 2 /\ Scope["lora"] = 3
  BY DEF Params, Apps, Scope

\* One legal value put in a legal configuration leaves it legal.
LEMMA CandidateLegal ==
    ASSUME ConfigInv, NEW a \in Apps, NEW p \in Params[a], NEW v \in Nat, InRange(a, p, v)
    PROVE  /\ [active[a] EXCEPT ![p] = v] \in Legal(a)
           /\ DOMAIN active[a] = Params[a]
           /\ \A q \in DOMAIN active[a] \ {p} : [active[a] EXCEPT ![p] = v][q] = active[a][q]
<1>1. /\ active[a] \in [Params[a] -> Nat]
      /\ \A q \in Params[a] : InRange(a, q, active[a][q])
  BY DEF ConfigInv, Legal
<1>2. [active[a] EXCEPT ![p] = v] \in [Params[a] -> Nat] BY <1>1
<1>3. \A q \in Params[a] : InRange(a, q, [active[a] EXCEPT ![p] = v][q])
  <2> TAKE q \in Params[a]
  <2>1. CASE q = p BY <1>1, <2>1
  <2>2. CASE q # p BY <1>1, <2>2
  <2> QED BY <2>1, <2>2
<1> QED BY <1>1, <1>2, <1>3 DEF Legal

\* What is accepted is a known parameter and a legal value.
LEMMA CoreAccepts ==
    ASSUME NEW c, CoreConfigResult(c) = "OK"
    PROVE  c.param \in Params["core"] /\ c.value \in Nat /\ InRange("core", c.param, c.value)
<1>1. c.param \in CoreParams /\ c.value \in MS_MIN..MS_MAX BY DEF CoreConfigResult
<1> QED BY <1>1, ParamsOf, ConfigAssumption DEF InRange

LEMMA BridgeAccepts ==
    ASSUME NEW c, BridgeConfigResult(c) = "OK"
    PROVE  /\ c.param \in Params["bridge"] /\ c.value \in Nat
           /\ InRange("bridge", c.param, c.value)
<1>1. c.param \in BridgeParams /\ InRange("bridge", c.param, c.value)
  BY DEF BridgeConfigResult
<1> QED BY <1>1, ParamsOf, ConfigAssumption DEF InRange

LEMMA LoraAccepts ==
    ASSUME NEW c, LoraConfigResult(c) = "OK"
    PROVE  c.param \in Params["lora"] /\ c.value \in Nat /\ InRange("lora", c.param, c.value)
<1>1. c.param \in LoraParams /\ c.value \in {0, 1} BY DEF LoraConfigResult
<1> QED BY <1>1, ParamsOf DEF InRange

------------------------------------------------------------------------------
(* Steps *)

LEMMA Untouched ==
    ASSUME ConfigInv, UNCHANGED <<active, file>>
    PROVE  AllStep
  BY DEF AllStep, Functions, ConfigInv, StoreStep, Stutters

\* A step that touches the app b alone.
LEMMA Elsewhere ==
    ASSUME ConfigInv, NEW b \in Apps, NEW x, NEW y, StoreStep(b),
           active' = [active EXCEPT ![b] = x], file' = [file EXCEPT ![b] = y] \/ file' = file
    PROVE  AllStep
<1>1. \A a \in Apps : a # b => Stutters(a) BY DEF Stutters, ConfigInv
<1>2. Functions BY DEF Functions, ConfigInv
<1> QED BY <1>1, <1>2 DEF AllStep, StoreStep

\* ActiveConfig of an app changes and is saved, or not.
LEMMA Activation ==
    ASSUME ConfigInv, NEW a \in Apps, NEW p \in Params[a], NEW v \in Nat, InRange(a, p, v),
           active' = [active EXCEPT ![a] = [active[a] EXCEPT ![p] = v]],
           NEW saved \in BOOLEAN,
           file' = IF saved THEN [file EXCEPT ![a] = active'[a]] ELSE file
    PROVE  AllStep
<1>1. active'[a] = [active[a] EXCEPT ![p] = v] BY DEF ConfigInv
<1>2. file'[a] \in {active'[a], file[a]} BY DEF ConfigInv
<1>3. Changes(a)
  BY <1>1, <1>2, CandidateLegal DEF Changes
<1>4. StoreStep(a) BY <1>3 DEF StoreStep
<1>5. file' = [file EXCEPT ![a] = active'[a]] \/ file' = file OBVIOUS
<1> QED BY <1>4, <1>5, Elsewhere

LEMMA CoreConfigStep ==
    ASSUME ConfigInv, NEW saved \in BOOLEAN, CoreConfig(saved)
    PROVE  AllStep
<1> DEFINE c == Msg("core")
<1>a. "core" \in Apps BY DEF Apps
<1>1. CASE CoreConfigResult(c) = "OK"
  <2>1. Activate("core", c, saved) BY <1>1 DEF CoreConfig
  <2>2. /\ active' = [active EXCEPT !["core"] = [active["core"] EXCEPT ![c.param] = c.value]]
        /\ file' = IF saved THEN [file EXCEPT !["core"] = active'["core"]] ELSE file
    BY <2>1 DEF Activate, Candidate, SaveState
  <2>3. c.param \in Params["core"] /\ c.value \in Nat /\ InRange("core", c.param, c.value)
    BY <1>1, CoreAccepts
  <2> HIDE DEF c
  <2> QED BY <1>a, <2>2, <2>3, Activation
<1>2. CASE CoreConfigResult(c) # "OK"
  <2>1. UNCHANGED <<active, file>> BY <1>2 DEF CoreConfig, RejectConfig, NoSave
  <2> QED BY <2>1, Untouched
<1> QED BY <1>1, <1>2

LEMMA BridgeConfigStep ==
    ASSUME ConfigInv, NEW saved \in BOOLEAN, BridgeConfig(saved)
    PROVE  AllStep
<1> DEFINE c == Msg("bridge")
<1>a. "bridge" \in Apps BY DEF Apps
<1>1. CASE BridgeConfigResult(c) = "OK"
  <2>1. Activate("bridge", c, saved) BY <1>1 DEF BridgeConfig
  <2>2. /\ active' = [active EXCEPT !["bridge"] = [active["bridge"] EXCEPT ![c.param] = c.value]]
        /\ file' = IF saved THEN [file EXCEPT !["bridge"] = active'["bridge"]] ELSE file
    BY <2>1 DEF Activate, Candidate, SaveState
  <2>3. /\ c.param \in Params["bridge"] /\ c.value \in Nat
        /\ InRange("bridge", c.param, c.value)
    BY <1>1, BridgeAccepts
  <2> HIDE DEF c
  <2> QED BY <1>a, <2>2, <2>3, Activation
<1>2. CASE BridgeConfigResult(c) # "OK"
  <2>1. UNCHANGED <<active, file>> BY <1>2 DEF BridgeConfig, RejectConfig, NoSave
  <2> QED BY <2>1, Untouched
<1> QED BY <1>1, <1>2

LEMMA LoraConfigStep ==
    ASSUME ConfigInv, NEW saved \in BOOLEAN, LoraConfig(saved)
    PROVE  AllStep
<1> DEFINE c == Msg("lora")
<1>a. "lora" \in Apps BY DEF Apps
<1>1. CASE LoraConfigResult(c) = "OK"
  <2>1. /\ active' = [active EXCEPT !["lora"] = [active["lora"] EXCEPT ![c.param] = c.value]]
        /\ file' = IF saved THEN [file EXCEPT !["lora"] = active'["lora"]] ELSE file
    BY <1>1 DEF LoraConfig, Candidate, SaveState
  <2>2. c.param \in Params["lora"] /\ c.value \in Nat /\ InRange("lora", c.param, c.value)
    BY <1>1, LoraAccepts
  <2> HIDE DEF c
  <2> QED BY <1>a, <2>1, <2>2, Activation
<1>2. CASE LoraConfigResult(c) # "OK"
  <2>1. UNCHANGED <<active, file>> BY <1>2 DEF LoraConfig, NoSave
  <2> QED BY <2>1, Untouched
<1> QED BY <1>1, <1>2

LEMMA ProtocolStep ==
    ASSUME ConfigInv, NEW v \in {0, 1}, NEW saved \in BOOLEAN, SetDownlinkProtocol(v, saved)
    PROVE  AllStep
<1>1. "lora" \in Apps /\ "DOWNLINK_PROTOCOL" \in Params["lora"]
  BY ParamsOf DEF Apps, LoraParams
<1>2. InRange("lora", "DOWNLINK_PROTOCOL", v) BY DEF InRange
<1>3. /\ active' = [active EXCEPT !["lora"] =
                      [active["lora"] EXCEPT !["DOWNLINK_PROTOCOL"] = v]]
      /\ file' = IF saved THEN [file EXCEPT !["lora"] = active'["lora"]] ELSE file
  BY DEF SetDownlinkProtocol
<1> QED BY <1>1, <1>2, <1>3, Activation

\* RESET_COUNTER of cfs_core_app saves the configuration along.
LEMMA ResetStep ==
    ASSUME ConfigInv, NEW saved \in BOOLEAN, CoreRecoveryReset(saved)
    PROVE  AllStep
<1>1. "core" \in Apps BY DEF Apps
<1>2. /\ active' = active
      /\ file' = IF saved THEN [file EXCEPT !["core"] = active'["core"]] ELSE file
  BY DEF CoreRecoveryReset, SaveState
<1>3. active' = [active EXCEPT !["core"] = active["core"]] BY <1>2 DEF ConfigInv
<1>4. Saves("core") \/ Stutters("core")
  BY <1>1, <1>2 DEF Saves, Stutters, ConfigInv
<1>5. file' = [file EXCEPT !["core"] = active["core"]] \/ file' = file BY <1>2
<1> QED BY <1>1, <1>3, <1>4, <1>5, Elsewhere DEF StoreStep

LEMMA RestartStep ==
    ASSUME ConfigInv, NEW a \in Apps, active' = [active EXCEPT ![a] = LoadState(a)],
           UNCHANGED file
    PROVE  AllStep
<1>1. Restarts(a) BY DEF Restarts, ConfigInv
<1> QED BY <1>1, Elsewhere DEF StoreStep

LEMMA DamageStep ==
    ASSUME ConfigInv, NEW a \in Apps, DamageFile(a)
    PROVE  AllStep
<1>1. file' = [file EXCEPT ![a] = NoFile] /\ active' = active BY DEF DamageFile
<1>2. Damages(a) BY <1>1 DEF Damages, ConfigInv
<1>3. active' = [active EXCEPT ![a] = active[a]] BY <1>1 DEF ConfigInv
<1> QED BY <1>1, <1>2, <1>3, Elsewhere DEF StoreStep

\* The mission is uploaded and read back beside all this.
LEMMA MissionAside ==
    ASSUME MissionStep
    PROVE  Aside /\ (UNCHANGED events \/ Event)
  BY DEF MissionStep, UploadEnds, FcHeard, LinkUp, LinkLost, FcMission, UploadSucceeds,
     UploadFails, ReadbackDone, ReadbackTimeout, RetryReadback

\* Every step of the system is a step of each store, or none.
LEMMA NextStores == ConfigInv /\ [Next]_vars => AllStep
<1> SUFFICES ASSUME ConfigInv, [Next]_vars PROVE AllStep OBVIOUS
<1>1. CASE UplinkStep
  <2>1. UNCHANGED <<active, file>>
    BY <1>1 DEF UplinkStep, RouteUplink, RefuseUplink, Received, ProcessExecResult, config
  <2> QED BY <2>1, Untouched
<1>2. CASE CoreStep
  <2>1. ASSUME NEW ok \in BOOLEAN, CoreRecoveryRestart(ok) \/ CoreRecoveryBridge(ok)
        PROVE  UNCHANGED <<active, file>>
    BY <2>1 DEF CoreRecoveryRestart, CoreRecoveryBridge, config
  <2>2. ASSUME \/ CoreRecoveryUnknown \/ CoreViewpoint \/ CoreMode \/ CoreDiagnostic
               \/ CoreRouteUpdate \/ CoreReadback \/ HandleQuietly("core")
        PROVE  UNCHANGED <<active, file>>
    BY <2>2 DEF CoreRecoveryUnknown, CoreViewpoint, CoreMode, CoreDiagnostic,
       CoreRouteUpdate, CoreReadback, HandleQuietly, CoreOnly, config
  <2> QED BY <1>2, <2>1, <2>2, CoreConfigStep, ResetStep, Untouched DEF CoreStep
<1>3. CASE BridgeStep
  <2>1. ASSUME NEW current \in BOOLEAN, BridgeRouteUpdate(current)
        PROVE  UNCHANGED <<active, file>>
    BY <2>1 DEF BridgeRouteUpdate, config
  <2>2. ASSUME NEW n \in 0..2, BridgeFlightMode(n) PROVE UNCHANGED <<active, file>>
    BY <2>2 DEF BridgeFlightMode, config
  <2>3. ASSUME HandleQuietly("bridge") PROVE UNCHANGED <<active, file>>
    BY <2>3 DEF HandleQuietly, CoreOnly, config
  <2> QED BY <1>3, <2>1, <2>2, <2>3, BridgeConfigStep, Untouched DEF BridgeStep
<1>4. CASE LoraStep
  <2>1. ASSUME LoraDiagnostic \/ LoraRouteSnapshot \/ HandleQuietly("lora")
        PROVE  UNCHANGED <<active, file>>
    BY <2>1 DEF LoraDiagnostic, LoraRouteSnapshot, HandleQuietly, CoreOnly, config
  <2> QED BY <1>4, <2>1, LoraConfigStep, Untouched DEF LoraStep
<1>5. CASE MissionStep
  <2>1. UNCHANGED <<active, file>> BY <1>5, MissionAside DEF Aside, config
  <2> QED BY <2>1, Untouched
<1>6. CASE StreamTimer \/ StreamStep \/ FcReboot
  <2>1. UNCHANGED <<active, file>>
    BY <1>6 DEF StreamTimer, StreamStep, RequestTelemetryStreams, FcReboot, config
  <2> QED BY <2>1, Untouched
<1>7. CASE Restart
  <2>1. CASE RestartUplink
    <3>1. UNCHANGED <<active, file>> BY <2>1 DEF RestartUplink, config
    <3> QED BY <3>1, Untouched
  <2>2. CASE RestartCore BY <2>2, RestartStep DEF RestartCore, Apps
  <2>3. CASE RestartBridge BY <2>3, RestartStep DEF RestartBridge, Apps
  <2>4. CASE RestartLora BY <2>4, RestartStep DEF RestartLora, Apps
  <2> QED BY <1>7, <2>1, <2>2, <2>3, <2>4 DEF Restart
<1>8. ASSUME NEW a \in Apps, DamageFile(a) PROVE AllStep BY <1>8, DamageStep
<1>9. ASSUME NEW v \in {0, 1}, NEW saved \in BOOLEAN, SetDownlinkProtocol(v, saved)
      PROVE  AllStep
  BY <1>9, ProtocolStep
<1>10. CASE UNCHANGED vars
  <2>1. UNCHANGED <<active, file>> BY <1>10 DEF vars, config
  <2> QED BY <2>1, Untouched
<1> QED BY <1>1, <1>2, <1>3, <1>4, <1>5, <1>6, <1>7, <1>8, <1>9, <1>10 DEF Next

------------------------------------------------------------------------------
(* The invariant and the refinement *)

LEMMA InitConfig == Init => ConfigInv
<1> SUFFICES ASSUME Init PROVE ConfigInv OBVIOUS
<1>1. active = DefaultConfig /\ file = [a \in Apps |-> NoFile] BY DEF Init
<1>2. DefaultConfig = [a \in Apps |-> DefaultConfig[a]] BY ConfigAssumption
<1> QED BY <1>1, <1>2, ConfigAssumption DEF ConfigInv

LEMMA StepConfig == ConfigInv /\ AllStep => ConfigInv'
<1> SUFFICES ASSUME ConfigInv, AllStep PROVE ConfigInv' OBVIOUS
<1>1. ASSUME NEW a \in Apps
      PROVE  active'[a] \in Legal(a) /\ file'[a] \in Legal(a) \cup {NoFile}
  <2>1. /\ active[a] \in Legal(a) /\ file[a] \in Legal(a) \cup {NoFile}
        /\ DefaultConfig[a] \in Legal(a)
    BY ConfigAssumption DEF ConfigInv
  <2>2. StoreStep(a) BY DEF AllStep
  <2> QED BY <2>1, <2>2
      DEF StoreStep, Stutters, Changes, Saves, Damages, Restarts, LoadState
<1> QED BY <1>1 DEF ConfigInv, AllStep, Functions

\* The configuration in use and the saved one are legal at all times.
LEMMA ConfigAlways == Spec => []ConfigInv
<1>1. ConfigInv /\ [Next]_vars => ConfigInv' BY NextStores, StepConfig
<1> QED BY InitConfig, <1>1, PTL DEF Spec

LEMMA CoreStores == ConfigInv /\ [Next]_vars => [Core!Next]_(Core!store)
<1> SUFFICES ASSUME ConfigInv, [Next]_vars PROVE [Core!Next]_(Core!store) OBVIOUS
<1>1. StoreStep("core") BY NextStores DEF AllStep, Apps
<1> QED BY <1>1 DEF StoreStep, Stutters, Changes, Saves, Damages, Restarts, LoadState,
      Core!Next, Core!Change, Core!OneParameter, Core!Save, Core!Damage, Core!Restart,
      Core!store

LEMMA BridgeStores == ConfigInv /\ [Next]_vars => [Bridge!Next]_(Bridge!store)
<1> SUFFICES ASSUME ConfigInv, [Next]_vars PROVE [Bridge!Next]_(Bridge!store) OBVIOUS
<1>1. StoreStep("bridge") BY NextStores DEF AllStep, Apps
<1> QED BY <1>1 DEF StoreStep, Stutters, Changes, Saves, Damages, Restarts, LoadState,
      Bridge!Next, Bridge!Change, Bridge!OneParameter, Bridge!Save, Bridge!Damage,
      Bridge!Restart, Bridge!store

LEMMA LoraStores == ConfigInv /\ [Next]_vars => [Lora!Next]_(Lora!store)
<1> SUFFICES ASSUME ConfigInv, [Next]_vars PROVE [Lora!Next]_(Lora!store) OBVIOUS
<1>1. StoreStep("lora") BY NextStores DEF AllStep, Apps
<1> QED BY <1>1 DEF StoreStep, Stutters, Changes, Saves, Damages, Restarts, LoadState,
      Lora!Next, Lora!Change, Lora!OneParameter, Lora!Save, Lora!Damage, Lora!Restart,
      Lora!store

LEMMA StoresInit == Init => Core!Init /\ Bridge!Init /\ Lora!Init
  BY DEF Init, Core!Init, Bridge!Init, Lora!Init, Apps

\* Whatever is commanded, saved, damaged or restarted, each of the three apps
\* implements ConfigStore: it works with a legal configuration, changes one
\* parameter at a time and comes back with what it saved last
\* (ProcessConfigCommand, SaveState and LoadState).
THEOREM ConfigIsStored == Spec => ConfigStores
  BY ConfigAlways, CoreStores, BridgeStores, LoraStores, StoresInit, PTL
     DEF Spec, ConfigStores, Core!Spec, Bridge!Spec, Lora!Spec

------------------------------------------------------------------------------
(* Type correctness *)

TypeEvents == events \in 0..MaxEvents
TypeRestarting == restarting \subseteq Restartable

TypeUplink ==
    /\ commands \in Seq(Sendable) /\ Len(commands) =< MaxCommands
    /\ LastRxSequence \in 0..Len(commands) /\ LastAcceptedSequence \in 0..Len(commands)
    /\ LastCommandResult \in Results

\* Records have the fields that EXCEPT replaces.
TypePend ==
    /\ pend = [a \in {"core", "bridge"} |->
                 [Pending |-> pend[a].Pending, Previous |-> pend[a].Previous,
                  State |-> pend[a].State, LastResult |-> pend[a].LastResult]]
    /\ \A a \in {"core", "bridge"} : pend[a].Pending \in [Params[a] -> Nat]

TypeCore ==
    /\ core = [mode |-> core.mode, route |-> core.route, routeValid |-> core.routeValid,
               viewpoint |-> core.viewpoint]
    /\ core.mode \in {"NORMAL", "RECOVERY"}

TypeFc ==
    /\ fc = [intervals |-> fc.intervals, mission |-> fc.mission]
    /\ fc.intervals \in [Intervals -> Nat]

\* There is no readback while the mission is uploaded.
TypeMission ==
    /\ readback \in {"IDLE", "RUNNING"}
    /\ readback = "RUNNING" => upload = NoUpload

\* How much each part of a step may do to the parts of the type invariant.
LEMMA NextEvents == TypeEvents /\ [Next]_vars => TypeEvents'
<1> SUFFICES ASSUME TypeEvents, [Next]_vars PROVE TypeEvents' OBVIOUS
<1> USE BoundsAssumption DEF TypeEvents
<1>1. Event => events' \in 0..MaxEvents BY DEF Event
<1>2. \A ok \in BOOLEAN : Tried(ok) => events' \in 0..MaxEvents BY <1>1 DEF Tried
<1>3. CASE UplinkStep
  BY <1>2, <1>3 DEF UplinkStep, RouteUplink, RefuseUplink, ProcessExecResult
<1>4. CASE CoreStep
  BY <1>2, <1>4 DEF CoreStep, CoreConfig, CoreRecoveryReset, CoreRecoveryRestart,
     CoreRecoveryBridge, CoreRecoveryUnknown, CoreViewpoint, CoreMode, CoreDiagnostic,
     CoreRouteUpdate, CoreReadback, HandleQuietly, CoreOnly, Activate, RejectConfig,
     SaveState, NoSave
<1>5. CASE BridgeStep
  BY <1>2, <1>5 DEF BridgeStep, BridgeConfig, BridgeRouteUpdate, BridgeFlightMode,
     HandleQuietly, CoreOnly, Activate, RejectConfig, SaveState, NoSave
<1>6. CASE LoraStep
  BY <1>2, <1>6 DEF LoraStep, LoraConfig, LoraDiagnostic, LoraRouteSnapshot,
     HandleQuietly, CoreOnly, SaveState, NoSave
<1>7. CASE StreamTimer \/ StreamStep \/ FcReboot \/ MissionStep
  BY <1>1, <1>2, <1>7, MissionAside DEF StreamTimer, StreamStep, RequestTelemetryStreams,
     FcReboot
<1>8. CASE Restart
  BY <1>1, <1>8 DEF Restart, RestartUplink, RestartCore, RestartBridge, RestartLora, Asked
<1>9. CASE \/ \E a \in Apps : DamageFile(a)
           \/ \E v \in {0, 1}, saved \in BOOLEAN : SetDownlinkProtocol(v, saved)
  BY <1>1, <1>9 DEF DamageFile, SetDownlinkProtocol
<1>10. CASE UNCHANGED vars BY <1>10 DEF vars
<1> QED BY <1>3, <1>4, <1>5, <1>6, <1>7, <1>8, <1>9, <1>10 DEF Next

LEMMA ReceivedType ==
    ASSUME TypeUplink, NEW c \in Sendable, Received(c)
    PROVE  /\ commands' \in Seq(Sendable) /\ Len(commands') = Len(commands) + 1
           /\ Len(commands') =< MaxCommands /\ LastRxSequence' = Len(commands')
  BY BoundsAssumption DEF TypeUplink, Received, Next1

LEMMA UplinkType == TypeUplink /\ UplinkStep => TypeUplink'
<1> SUFFICES ASSUME TypeUplink, UplinkStep PROVE TypeUplink' OBVIOUS
<1>1. CASE ProcessExecResult
  BY <1>1 DEF TypeUplink, ProcessExecResult, Results
<1>2. ASSUME NEW script \in Scripts, Sends(script),
             \/ RouteUplink(script[Next1])
             \/ \E pass, sent \in BOOLEAN : RefuseUplink(script[Next1], pass, sent)
      PROVE  TypeUplink'
  <2>1. script \in Seq(Sendable) BY ScriptsAssumption
  <2>2. Next1 \in 1..Len(script) BY <1>2, <2>1 DEF Sends, Next1, TypeUplink
  <2>3. script[Next1] \in Sendable BY <2>1, <2>2
  <2>4. Received(script[Next1]) BY <1>2 DEF RouteUplink, RefuseUplink
  <2>5. LastAcceptedSequence' \in {LastAcceptedSequence, Next1}
    BY <1>2 DEF RouteUplink, RefuseUplink
  <2>6. LastCommandResult' \in Results BY <1>2 DEF RouteUplink, RefuseUplink, Results
  <2> QED BY <2>3, <2>4, <2>5, <2>6, ReceivedType DEF TypeUplink, Next1
<1> QED BY <1>1, <1>2 DEF UplinkStep

LEMMA NextUplink == TypeUplink /\ [Next]_vars => TypeUplink'
<1> SUFFICES ASSUME TypeUplink, [Next]_vars PROVE TypeUplink' OBVIOUS
<1>1. CASE UplinkStep BY <1>1, UplinkType
<1>2. CASE RestartUplink BY <1>2 DEF RestartUplink, TypeUplink, Results
<1>3. CASE UNCHANGED <<commands, uplink>> BY <1>3 DEF TypeUplink, uplink
<1>4. CASE CoreStep
  <2>1. UNCHANGED <<commands, uplink>>
    BY <1>4 DEF CoreStep, CoreConfig, CoreRecoveryReset, CoreRecoveryRestart,
       CoreRecoveryBridge, CoreRecoveryUnknown, CoreViewpoint, CoreMode, CoreDiagnostic,
       CoreRouteUpdate, CoreReadback, HandleQuietly, CoreOnly, Stay, uplink
  <2> QED BY <2>1, <1>3
<1>5. CASE BridgeStep
  <2>1. UNCHANGED <<commands, uplink>>
    BY <1>5 DEF BridgeStep, BridgeConfig, BridgeRouteUpdate, BridgeFlightMode,
       HandleQuietly, CoreOnly, Stay, uplink
  <2> QED BY <2>1, <1>3
<1>6. CASE LoraStep
  <2>1. UNCHANGED <<commands, uplink>>
    BY <1>6 DEF LoraStep, LoraConfig, LoraDiagnostic, LoraRouteSnapshot, HandleQuietly,
       CoreOnly, Stay, uplink
  <2> QED BY <2>1, <1>3
<1>7. CASE StreamTimer \/ StreamStep \/ FcReboot \/ MissionStep
  <2>1. UNCHANGED <<commands, uplink>>
    BY <1>7, MissionAside DEF StreamTimer, StreamStep, RequestTelemetryStreams, FcReboot,
       Aside, uplink
  <2> QED BY <2>1, <1>3
<1>8. CASE RestartCore \/ RestartBridge \/ RestartLora
  <2>1. UNCHANGED <<commands, uplink>>
    BY <1>8 DEF RestartCore, RestartBridge, RestartLora, uplink
  <2> QED BY <2>1, <1>3
<1>9. CASE \/ \E a \in Apps : DamageFile(a)
           \/ \E v \in {0, 1}, saved \in BOOLEAN : SetDownlinkProtocol(v, saved)
  <2>1. UNCHANGED <<commands, uplink>>
    BY <1>9 DEF DamageFile, SetDownlinkProtocol, Stay, uplink
  <2> QED BY <2>1, <1>3
<1>10. CASE UNCHANGED vars BY <1>3, <1>10 DEF vars
<1> QED BY <1>1, <1>2, <1>4, <1>5, <1>6, <1>7, <1>8, <1>9, <1>10 DEF Next, Restart

LEMMA NextRestarting == TypeRestarting /\ [Next]_vars => TypeRestarting'
<1> SUFFICES ASSUME TypeRestarting, [Next]_vars PROVE TypeRestarting' OBVIOUS
<1> USE DEF TypeRestarting
<1>1. CASE UplinkStep
  BY <1>1 DEF UplinkStep, RouteUplink, RefuseUplink, Received, ProcessExecResult
<1>2. CASE CoreStep
  BY <1>2 DEF CoreStep, CoreConfig, CoreRecoveryReset, CoreRecoveryRestart,
     CoreRecoveryBridge, CoreRecoveryUnknown, CoreViewpoint, CoreMode, CoreDiagnostic,
     CoreRouteUpdate, CoreReadback, HandleQuietly, CoreOnly
<1>3. CASE BridgeStep \/ LoraStep
  BY <1>3 DEF BridgeStep, BridgeConfig, BridgeRouteUpdate, BridgeFlightMode, LoraStep,
     LoraConfig, LoraDiagnostic, LoraRouteSnapshot, HandleQuietly, CoreOnly
<1>4. CASE StreamTimer \/ StreamStep \/ FcReboot \/ MissionStep
  BY <1>4, MissionAside DEF StreamTimer, StreamStep, RequestTelemetryStreams, FcReboot, Aside
<1>5. CASE Restart
  BY <1>5 DEF Restart, RestartUplink, RestartCore, RestartBridge, RestartLora, Asked
<1>6. CASE \/ \E a \in Apps : DamageFile(a)
           \/ \E v \in {0, 1}, saved \in BOOLEAN : SetDownlinkProtocol(v, saved)
  BY <1>6 DEF DamageFile, SetDownlinkProtocol
<1>7. CASE UNCHANGED vars BY <1>7 DEF vars
<1> QED BY <1>1, <1>2, <1>3, <1>4, <1>5, <1>6, <1>7 DEF Next

\* PendingConfig, filled in by a command that is then accepted or not.
LEMMA PendStep ==
    ASSUME TypePend, NEW a \in {"core", "bridge"},
           NEW x \in [Params[a] -> Nat], NEW y, NEW s, NEW r,
           \/ pend' = [pend EXCEPT ![a] = [Pending |-> x, Previous |-> y, State |-> s,
                                           LastResult |-> r]]
           \/ pend' = [pend EXCEPT ![a].Pending = x, ![a].State = s, ![a].LastResult = r]
    PROVE  TypePend'
  BY DEF TypePend

LEMMA CandidateType ==
    ASSUME ConfigInv, NEW a \in Apps, NEW c, c.value \in Nat
    PROVE  active[a] \in [Params[a] -> Nat] /\ Candidate(a, c) \in [Params[a] -> Nat]
<1>1. active[a] \in [Params[a] -> Nat] BY DEF ConfigInv, Legal
<1> QED BY <1>1 DEF Candidate

LEMMA CorePend ==
    ASSUME ConfigInv, TypePend, NEW saved \in BOOLEAN, CoreConfig(saved)
    PROVE  TypePend'
<1> DEFINE c == Msg("core")
<1>a. "core" \in Apps /\ "core" \in {"core", "bridge"} BY DEF Apps
<1>b. active["core"] \in [Params["core"] -> Nat] BY <1>a DEF ConfigInv, Legal
<1>c. pend["core"].Pending \in [Params["core"] -> Nat] BY DEF TypePend
<1>1. CASE CoreConfigResult(c) = "OK"
  <2>1. c.value \in Nat BY <1>1, CoreAccepts
  <2>2. Candidate("core", c) \in [Params["core"] -> Nat] BY <1>a, <2>1, CandidateType
  <2>3. pend' = [pend EXCEPT !["core"] = [Pending |-> Candidate("core", c),
                   Previous |-> active["core"], State |-> "IDLE", LastResult |-> "OK"]]
    BY <1>1 DEF CoreConfig, Activate
  <2> QED BY <1>a, <2>2, <2>3, PendStep
<1>2. CASE CoreConfigResult(c) # "OK"
  <2> DEFINE x == IF CoreConfigResult(c) = "BAD_PARAM" THEN active["core"]
                  ELSE IF CoreConfigResult(c) = "BAD_VALUE" /\ c.value \in MS_MIN..MS_MAX
                    THEN Candidate("core", c)
                  ELSE pend["core"].Pending
  <2>1. c.value \in MS_MIN..MS_MAX => c.value \in Nat BY ConfigAssumption
  <2>2. x \in [Params["core"] -> Nat] BY <1>a, <1>b, <1>c, <2>1, CandidateType
  <2>3. pend' = [pend EXCEPT !["core"].Pending = x, !["core"].State = "REJECTED",
                             !["core"].LastResult = CoreConfigResult(c)]
    BY <1>2 DEF CoreConfig, RejectConfig
  <2> HIDE DEF x
  <2> QED BY <1>a, <2>2, <2>3, PendStep
<1> QED BY <1>1, <1>2

LEMMA BridgePend ==
    ASSUME ConfigInv, TypePend, NEW saved \in BOOLEAN, BridgeConfig(saved)
    PROVE  TypePend'
<1> DEFINE c == Msg("bridge")
<1>a. "bridge" \in Apps /\ "bridge" \in {"core", "bridge"} BY DEF Apps
<1>b. active["bridge"] \in [Params["bridge"] -> Nat] BY <1>a DEF ConfigInv, Legal
<1>c. pend["bridge"].Pending \in [Params["bridge"] -> Nat] BY DEF TypePend
<1>d. InRange("bridge", c.param, c.value) => c.value \in Nat
  BY ConfigAssumption DEF InRange
<1>1. CASE BridgeConfigResult(c) = "OK"
  <2>1. c.value \in Nat BY <1>1, BridgeAccepts
  <2>2. Candidate("bridge", c) \in [Params["bridge"] -> Nat] BY <1>a, <2>1, CandidateType
  <2>3. pend' = [pend EXCEPT !["bridge"] = [Pending |-> Candidate("bridge", c),
                   Previous |-> active["bridge"], State |-> "IDLE", LastResult |-> "OK"]]
    BY <1>1 DEF BridgeConfig, Activate
  <2> QED BY <1>a, <2>2, <2>3, PendStep
<1>2. CASE BridgeConfigResult(c) = "IGNORED"
  BY <1>2 DEF BridgeConfig, TypePend
<1>3. CASE BridgeConfigResult(c) \notin {"OK", "IGNORED"}
  <2> DEFINE x == IF BridgeConfigResult(c) = "BAD_VALUE" /\ InRange("bridge", c.param, c.value)
                    THEN Candidate("bridge", c)
                  ELSE IF BridgeConfigResult(c) \in {"BAD_PARAM", "BAD_VALUE"}
                    THEN active["bridge"]
                  ELSE pend["bridge"].Pending
  <2>1. x \in [Params["bridge"] -> Nat] BY <1>a, <1>b, <1>c, <1>d, CandidateType
  <2>2. pend' = [pend EXCEPT !["bridge"].Pending = x, !["bridge"].State = "REJECTED",
                             !["bridge"].LastResult = BridgeConfigResult(c)]
    BY <1>3 DEF BridgeConfig, RejectConfig
  <2> HIDE DEF x
  <2> QED BY <1>a, <2>1, <2>2, PendStep
<1> QED BY <1>1, <1>2, <1>3

LEMMA NextPend == ConfigInv /\ TypePend /\ [Next]_vars => TypePend'
<1> SUFFICES ASSUME ConfigInv, TypePend, [Next]_vars PROVE TypePend' OBVIOUS
<1>u. UNCHANGED pend => TypePend' BY DEF TypePend
<1>1. CASE UplinkStep
  BY <1>u, <1>1 DEF UplinkStep, RouteUplink, RefuseUplink, Received, ProcessExecResult, config
<1>2. CASE CoreStep
  BY <1>u, <1>2, CorePend DEF CoreStep, CoreRecoveryReset, CoreRecoveryRestart,
     CoreRecoveryBridge, CoreRecoveryUnknown, CoreViewpoint, CoreMode, CoreDiagnostic,
     CoreRouteUpdate, CoreReadback, HandleQuietly, CoreOnly, config
<1>3. CASE BridgeStep
  BY <1>u, <1>3, BridgePend DEF BridgeStep, BridgeRouteUpdate, BridgeFlightMode,
     HandleQuietly, CoreOnly, config
<1>4. CASE LoraStep
  BY <1>u, <1>4 DEF LoraStep, LoraConfig, LoraDiagnostic, LoraRouteSnapshot, HandleQuietly,
     CoreOnly, config
<1>5. CASE StreamTimer \/ StreamStep \/ FcReboot \/ MissionStep
  BY <1>u, <1>5, MissionAside
     DEF StreamTimer, StreamStep, RequestTelemetryStreams, FcReboot, Aside, config
<1>6. CASE Restart
  <2>1. \A a \in {"core", "bridge"} : DefaultConfig[a] \in [Params[a] -> Nat]
    BY ConfigAssumption DEF Legal, Apps
  <2>2. CASE RestartCore
    BY <2>1, <2>2, PendStep DEF RestartCore, PendingStart
  <2>3. CASE RestartBridge
    BY <2>1, <2>3, PendStep DEF RestartBridge, PendingStart
  <2> QED BY <1>u, <1>6, <2>2, <2>3 DEF Restart, RestartUplink, RestartLora, config
<1>7. CASE \/ \E a \in Apps : DamageFile(a)
           \/ \E v \in {0, 1}, saved \in BOOLEAN : SetDownlinkProtocol(v, saved)
  BY <1>u, <1>7 DEF DamageFile, SetDownlinkProtocol
<1>8. CASE UNCHANGED vars BY <1>u, <1>8 DEF vars, config
<1> QED BY <1>1, <1>2, <1>3, <1>4, <1>5, <1>6, <1>7, <1>8 DEF Next

LEMMA NextCore == TypeCore /\ [Next]_vars => TypeCore'
<1> SUFFICES ASSUME TypeCore, [Next]_vars PROVE TypeCore' OBVIOUS
<1>u. UNCHANGED core => TypeCore' BY DEF TypeCore
<1>1. CASE UplinkStep
  BY <1>u, <1>1 DEF UplinkStep, RouteUplink, RefuseUplink, Received, ProcessExecResult
<1>2. CASE CoreStep
  <2>1. CASE CoreViewpoint BY <2>1 DEF CoreViewpoint, TypeCore
  <2>2. CASE CoreMode BY <2>2 DEF CoreMode, TypeCore
  <2>3. CASE CoreRouteUpdate \/ CoreReadback
    BY <2>3 DEF CoreRouteUpdate, CoreReadback, ConfirmRoute, SetRouteCache, TypeCore
  <2> QED BY <1>u, <1>2, <2>1, <2>2, <2>3 DEF CoreStep, CoreConfig, CoreRecoveryReset,
     CoreRecoveryRestart, CoreRecoveryBridge, CoreRecoveryUnknown, CoreDiagnostic,
     HandleQuietly
<1>3. CASE BridgeStep \/ LoraStep
  BY <1>u, <1>3 DEF BridgeStep, BridgeConfig, BridgeRouteUpdate, BridgeFlightMode, LoraStep,
     LoraConfig, LoraDiagnostic, LoraRouteSnapshot, HandleQuietly
<1>4. CASE StreamTimer \/ StreamStep \/ FcReboot \/ MissionStep
  BY <1>u, <1>4, MissionAside
     DEF StreamTimer, StreamStep, RequestTelemetryStreams, FcReboot, Aside
<1>5. CASE Restart
  <2>1. CASE RestartCore BY <2>1 DEF RestartCore, CoreStart, TypeCore
  <2> QED BY <1>u, <1>5, <2>1 DEF Restart, RestartUplink, RestartBridge, RestartLora
<1>6. CASE \/ \E a \in Apps : DamageFile(a)
           \/ \E v \in {0, 1}, saved \in BOOLEAN : SetDownlinkProtocol(v, saved)
  BY <1>u, <1>6 DEF DamageFile, SetDownlinkProtocol
<1>7. CASE UNCHANGED vars BY <1>u, <1>7 DEF vars
<1> QED BY <1>1, <1>2, <1>3, <1>4, <1>5, <1>6, <1>7 DEF Next

LEMMA NextFc == ConfigInv /\ TypeFc /\ [Next]_vars => TypeFc'
<1> SUFFICES ASSUME ConfigInv, TypeFc, [Next]_vars PROVE TypeFc' OBVIOUS
<1>u. UNCHANGED fc => TypeFc' BY DEF TypeFc
<1>1. CASE UplinkStep
  BY <1>u, <1>1 DEF UplinkStep, RouteUplink, RefuseUplink, Received, ProcessExecResult
<1>2. CASE CoreStep
  BY <1>u, <1>2 DEF CoreStep, CoreConfig, CoreRecoveryReset, CoreRecoveryRestart,
     CoreRecoveryBridge, CoreRecoveryUnknown, CoreViewpoint, CoreMode, CoreDiagnostic,
     CoreRouteUpdate, CoreReadback, HandleQuietly, CoreOnly, Stay
<1>3. CASE BridgeStep
  BY <1>u, <1>3 DEF BridgeStep, BridgeConfig, BridgeFlightMode, BridgeRouteUpdate,
     HandleQuietly, CoreOnly, Stay
<1>4. CASE LoraStep
  BY <1>u, <1>4 DEF LoraStep, LoraConfig, LoraDiagnostic, LoraRouteSnapshot, HandleQuietly,
     CoreOnly, Stay
<1>5. CASE StreamStep
  <2>1. \A s \in Intervals : active["bridge"][s] \in Nat
    BY ParamsOf DEF ConfigInv, Legal, Apps, BridgeParams
  <2>2. PICK n \in 0..Len(Streams) : RequestTelemetryStreams(n) BY <1>5 DEF StreamStep
  <2>3. fc' = [fc EXCEPT !.intervals =
                 [s \in Intervals |-> IF \E i \in 1..n : Streams[i] = s
                                        THEN active["bridge"][s] ELSE fc.intervals[s]]]
    BY <2>2 DEF RequestTelemetryStreams
  <2> QED BY <2>1, <2>3 DEF TypeFc
<1>6. CASE FcReboot BY <1>6 DEF FcReboot, FcStart, TypeFc
<1>7. CASE StreamTimer BY <1>u, <1>7 DEF StreamTimer
<1>m. CASE MissionStep
  <2>1. CASE FcMission BY <2>1 DEF FcMission, TypeFc
  <2> QED BY <1>u, <1>m, <2>1 DEF MissionStep, UploadEnds, FcHeard, LinkUp, LinkLost,
     UploadSucceeds, UploadFails, ReadbackDone, ReadbackTimeout, RetryReadback
<1>8. CASE Restart
  BY <1>u, <1>8 DEF Restart, RestartUplink, RestartCore, RestartBridge, RestartLora
<1>9. CASE \/ \E a \in Apps : DamageFile(a)
           \/ \E v \in {0, 1}, saved \in BOOLEAN : SetDownlinkProtocol(v, saved)
  BY <1>u, <1>9 DEF DamageFile, SetDownlinkProtocol, Stay
<1>10. CASE UNCHANGED vars BY <1>u, <1>10 DEF vars
<1> QED BY <1>1, <1>2, <1>3, <1>4, <1>5, <1>6, <1>7, <1>m, <1>8, <1>9, <1>10 DEF Next

LEMMA NextMission == TypeMission /\ [Next]_vars => TypeMission'
<1> SUFFICES ASSUME TypeMission, [Next]_vars PROVE TypeMission' OBVIOUS
<1>u. UNCHANGED mission => TypeMission' BY DEF TypeMission, mission
<1>b. UNCHANGED bridge => TypeMission' BY <1>u DEF bridge
<1>1. CASE UplinkStep
  BY <1>b, <1>1 DEF UplinkStep, RouteUplink, RefuseUplink, Received, ProcessExecResult
<1>2. CASE CoreStep
  BY <1>b, <1>2 DEF CoreStep, CoreConfig, CoreRecoveryReset, CoreRecoveryRestart,
     CoreRecoveryBridge, CoreRecoveryUnknown, CoreViewpoint, CoreMode, CoreDiagnostic,
     CoreRouteUpdate, CoreReadback, HandleQuietly, CoreOnly, Stay
<1>3. CASE BridgeStep
  <2>1. ASSUME NEW current \in BOOLEAN, BridgeRouteUpdate(current) PROVE TypeMission'
    BY <2>1 DEF BridgeRouteUpdate, Uploadable, TypeMission
  <2> QED BY <1>b, <1>3, <2>1 DEF BridgeStep, BridgeConfig, BridgeFlightMode,
     HandleQuietly, CoreOnly, Stay
<1>4. CASE LoraStep
  BY <1>b, <1>4 DEF LoraStep, LoraConfig, LoraDiagnostic, LoraRouteSnapshot, HandleQuietly,
     CoreOnly, Stay
<1>5. CASE MissionStep
  <2>1. CASE LinkUp BY <2>1 DEF LinkUp, TypeMission
  <2>2. CASE UploadEnds BY <2>2 DEF UploadEnds, UploadSucceeds, UploadFails, TypeMission
  <2>3. CASE ReadbackDone \/ ReadbackTimeout \/ RetryReadback
    BY <2>3 DEF ReadbackDone, ReadbackTimeout, RetryReadback, TypeMission
  <2>4. CASE FcHeard \/ FcMission BY <1>u, <2>4 DEF FcHeard, FcMission
  <2>5. ASSUME NEW closed \in BOOLEAN, LinkLost(closed) PROVE TypeMission'
    BY <2>5 DEF LinkLost, TypeMission
  <2> QED BY <1>5, <2>1, <2>2, <2>3, <2>4, <2>5 DEF MissionStep
<1>6. CASE StreamTimer \/ StreamStep \/ FcReboot
  BY <1>u, <1>6 DEF StreamTimer, StreamStep, RequestTelemetryStreams, FcReboot, bridge
<1>7. CASE Restart
  <2>1. CASE RestartBridge BY <2>1 DEF RestartBridge, TypeMission
  <2> QED BY <1>b, <1>7, <2>1 DEF Restart, RestartUplink, RestartCore, RestartLora
<1>8. CASE \/ \E a \in Apps : DamageFile(a)
           \/ \E v \in {0, 1}, saved \in BOOLEAN : SetDownlinkProtocol(v, saved)
  BY <1>b, <1>8 DEF DamageFile, SetDownlinkProtocol, Stay
<1>9. CASE UNCHANGED vars BY <1>b, <1>9 DEF vars
<1> QED BY <1>1, <1>2, <1>3, <1>4, <1>5, <1>6, <1>7, <1>8, <1>9 DEF Next

TypeInv ==
    /\ ConfigInv /\ TypeEvents /\ TypeRestarting /\ TypeUplink
    /\ TypePend /\ TypeCore /\ TypeFc /\ TypeMission

LEMMA InitType == Init => TypeInv
<1> SUFFICES ASSUME Init PROVE TypeInv OBVIOUS
<1>1. TypeEvents /\ TypeRestarting
  BY BoundsAssumption DEF Init, TypeEvents, TypeRestarting
<1>2. TypeUplink BY BoundsAssumption DEF Init, TypeUplink, Results
<1>3. \A a \in {"core", "bridge"} : DefaultConfig[a] \in [Params[a] -> Nat]
  BY ConfigAssumption DEF Legal, Apps
<1>4. TypePend BY <1>3 DEF Init, TypePend, PendingStart
<1>5. TypeCore /\ TypeFc /\ TypeMission
  BY DEF Init, TypeCore, CoreStart, TypeFc, FcStart, TypeMission
<1> QED BY <1>1, <1>2, <1>4, <1>5, InitConfig DEF TypeInv

LEMMA NextType == TypeInv /\ [Next]_vars => TypeInv'
  BY NextStores, StepConfig, NextEvents, NextRestarting, NextUplink, NextPend, NextCore,
     NextFc, NextMission DEF TypeInv

LEMMA TypeInvOK == TypeInv => TypeOK
<1> SUFFICES ASSUME TypeInv PROVE TypeOK OBVIOUS
<1>1. \A a \in Apps : /\ active[a] \in [Params[a] -> Nat]
                      /\ file[a] # NoFile => file[a] \in [Params[a] -> Nat]
  BY DEF TypeInv, ConfigInv, Legal
<1> QED BY <1>1 DEF TypeInv, TypeOK, TypeEvents, TypeRestarting, TypeUplink, TypePend,
      TypeCore, TypeFc, TypeMission

\* Types, for all commands that may be sent: a status is never about a command
\* that was not sent, and every configuration in use, pending or in a file has
\* exactly the parameters of its app.
THEOREM TypeCorrect == Spec => []TypeOK
  BY InitType, NextType, TypeInvOK, PTL DEF Spec

------------------------------------------------------------------------------
(* The software bus *)

IsQueue(s) == \E S : s \in Seq(S)

BusShape(b) ==
    /\ b = [queue |-> b.queue, lost |-> b.lost, answered |-> b.answered]
    /\ b.queue = [p \in Pipes |-> b.queue[p]]
    /\ \A p \in Pipes : IsQueue(b.queue[p])
    /\ b.answered \in [1..MaxCommands -> Nat]

LEMMA QueueAppend ==
    ASSUME NEW s, IsQueue(s), NEW m
    PROVE  /\ IsQueue(Append(s, m)) /\ Len(s) \in Nat
           /\ Len(Append(s, m)) = Len(s) + 1
           /\ \A i \in 1..Len(s) : Append(s, m)[i] = s[i]
           /\ Append(s, m)[Len(s) + 1] = m
           /\ Append(s, m) # << >>
<1>1. PICK S : s \in Seq(S) BY DEF IsQueue
<1> DEFINE T == S \cup {m}
<1>2. s \in Seq(T) /\ m \in T
  <2>1. Len(s) \in Nat /\ s = [i \in 1..Len(s) |-> s[i]] /\ \A i \in 1..Len(s) : s[i] \in S
    BY <1>1
  <2> QED BY <2>1
<1> HIDE DEF T
<1>3. Append(s, m) \in Seq(T) BY <1>2
<1> QED BY <1>2, <1>3 DEF IsQueue

LEMMA QueueTail ==
    ASSUME NEW s, IsQueue(s), s # << >>
    PROVE  /\ IsQueue(Tail(s)) /\ Len(s) \in Nat /\ Len(s) > 0
           /\ Len(Tail(s)) = Len(s) - 1 /\ Len(Tail(s)) \in Nat
           /\ \A i \in 1..Len(Tail(s)) : i + 1 \in 1..Len(s) /\ Tail(s)[i] = s[i + 1]
           /\ Head(s) = s[1] /\ 1 \in 1..Len(s)
<1>1. PICK S : s \in Seq(S) BY DEF IsQueue
<1>2. Tail(s) \in Seq(S) /\ Len(s) \in Nat /\ Len(s) > 0 BY <1>1
<1> QED BY <1>1, <1>2 DEF IsQueue

LEMMA QueueEmpty == IsQueue(<< >>) /\ Len(<< >>) = 0
<1>1. << >> \in Seq(Nat) OBVIOUS
<1> QED BY <1>1 DEF IsQueue

\* CFE_SB_TransmitMsg appends the message where there is room for it.
LEMMA TransmitQueue ==
    ASSUME NEW b, BusShape(b), NEW pipes, NEW m, NEW t, t = Transmit(b, pipes, m),
           NEW p \in Pipes
    PROVE  /\ t.queue[p] = b.queue[p] \/ t.queue[p] = Append(b.queue[p], m)
           /\ p \notin pipes => t.queue[p] = b.queue[p]
<1> DEFINE q == [r \in Pipes |-> IF r \in pipes /\ Len(b.queue[r]) < PIPE_DEPTH
                                   THEN Append(b.queue[r], m) ELSE b.queue[r]]
           l == b.lost \/ \E r \in pipes : Len(b.queue[r]) >= PIPE_DEPTH
<1>1. t.queue = q
  <2>1. t = [b EXCEPT !.queue = q, !.lost = l] BY DEF Transmit
  <2> HIDE DEF q, l
  <2> QED BY <2>1 DEF BusShape
<1>2. \/ q[p] = Append(b.queue[p], m) /\ p \in pipes
      \/ q[p] = b.queue[p]
  OBVIOUS
<1> HIDE DEF q, l
<1> QED BY <1>1, <1>2

LEMMA TransmitFields ==
    ASSUME NEW b, BusShape(b), NEW pipes, NEW m, NEW t, t = Transmit(b, pipes, m)
    PROVE  BusShape(t) /\ t.answered = b.answered
<1> DEFINE q == [r \in Pipes |-> IF r \in pipes /\ Len(b.queue[r]) < PIPE_DEPTH
                                   THEN Append(b.queue[r], m) ELSE b.queue[r]]
           l == b.lost \/ \E r \in pipes : Len(b.queue[r]) >= PIPE_DEPTH
<1>1. t = [queue |-> q, lost |-> l, answered |-> b.answered]
  <2>1. t = [b EXCEPT !.queue = q, !.lost = l] BY DEF Transmit
  <2> HIDE DEF q, l
  <2> QED BY <2>1 DEF BusShape
<1>2. t.queue = q /\ t.lost = l /\ t.answered = b.answered
  <2> HIDE DEF q, l
  <2> QED BY <1>1
<1>3. \A p \in Pipes : IsQueue(q[p])
  BY QueueAppend DEF BusShape
<1>4. t = [queue |-> t.queue, lost |-> t.lost, answered |-> t.answered] BY <1>1
<1>5. t.queue = [p \in Pipes |-> t.queue[p]] BY <1>2
<1> QED BY <1>2, <1>3, <1>4, <1>5 DEF BusShape

\* If nothing was lost there was room in every pipe.
LEMMA TransmitArrives ==
    ASSUME NEW b, BusShape(b), NEW pipes, pipes \subseteq Pipes, NEW m, NEW t,
           t = Transmit(b, pipes, m), ~t.lost
    PROVE  ~b.lost /\ \A p \in pipes : t.queue[p] = Append(b.queue[p], m)
<1> DEFINE q == [p \in Pipes |-> IF p \in pipes /\ Len(b.queue[p]) < PIPE_DEPTH
                                   THEN Append(b.queue[p], m) ELSE b.queue[p]]
           l == b.lost \/ \E p \in pipes : Len(b.queue[p]) >= PIPE_DEPTH
<1>1. t = [b EXCEPT !.queue = q, !.lost = l] BY DEF Transmit
<1>2. t.queue = q /\ t.lost = l
  <2> HIDE DEF q, l
  <2> QED BY <1>1 DEF BusShape
<1>3. ~l
  <2> HIDE DEF l
  <2> QED BY <1>2, Zenon
<1>4. ~b.lost /\ \A p \in pipes : ~(Len(b.queue[p]) >= PIPE_DEPTH)
  BY <1>3, Zenon
<1>5. \A p \in pipes : Len(b.queue[p]) < PIPE_DEPTH
  <2>1. \A p \in pipes : Len(b.queue[p]) \in Nat BY QueueAppend DEF BusShape
  <2> QED BY <1>4, <2>1, BoundsAssumption
<1> QED BY <1>2, <1>4, <1>5

\* A message leaves the pipe it was taken from, and no other.
LEMMA TakeFields ==
    ASSUME BusShape(bus), NEW a \in Pipes, bus.queue[a] # << >>, NEW t, t = Take(a)
    PROVE  /\ BusShape(t)
           /\ t.answered = bus.answered
           /\ t.lost = bus.lost
           /\ t.queue[a] = Tail(bus.queue[a])
           /\ \A p \in Pipes \ {a} : t.queue[p] = bus.queue[p]
<1> DEFINE q == [bus.queue EXCEPT ![a] = Tail(@)]
<1>1. t = [queue |-> q, lost |-> bus.lost, answered |-> bus.answered]
  BY DEF BusShape, Take
<1>2. t.queue = q /\ t.lost = bus.lost /\ t.answered = bus.answered
  <2> HIDE DEF q
  <2> QED BY <1>1
<1>3. q = [p \in Pipes |-> IF p = a THEN Tail(bus.queue[a]) ELSE bus.queue[p]]
  BY DEF BusShape
<1>4. IsQueue(Tail(bus.queue[a])) BY QueueTail DEF BusShape
<1> HIDE DEF q
<1> QED BY <1>1, <1>2, <1>3, <1>4 DEF BusShape

\* An app that restarts loses its pipe.
LEMMA EmptiedFields ==
    ASSUME BusShape(bus), NEW a \in Pipes, NEW t, t = Emptied(a)
    PROVE  /\ BusShape(t)
           /\ t.answered = bus.answered
           /\ ~t.lost => ~bus.lost /\ bus.queue[a] = << >>
           /\ t.queue[a] = << >>
           /\ \A p \in Pipes \ {a} : t.queue[p] = bus.queue[p]
<1> DEFINE q == [bus.queue EXCEPT ![a] = << >>]
           l == bus.lost \/ bus.queue[a] # << >>
<1>1. t = [queue |-> q, lost |-> l, answered |-> bus.answered]
  <2>1. t = [bus EXCEPT !.queue = q, !.lost = l] BY DEF BusShape, Emptied
  <2> HIDE DEF q, l
  <2> QED BY <2>1 DEF BusShape
<1>2. t.queue = q /\ t.lost = l /\ t.answered = bus.answered
  <2> HIDE DEF q, l
  <2> QED BY <1>1
<1>3. q = [p \in Pipes |-> IF p = a THEN << >> ELSE bus.queue[p]]
  BY DEF BusShape
<1> HIDE DEF q
<1> QED BY <1>1, <1>2, <1>3, QueueEmpty DEF BusShape

\* An answer waits for uplink_app, if there is room, and is counted.
LEMMA PublishFields ==
    ASSUME NEW b, BusShape(b), NEW n \in 1..MaxCommands, NEW ok, NEW t,
           t = PublishExecResult(b, n, ok)
    PROVE  /\ BusShape(t)
           /\ t.answered[n] = b.answered[n] + 1
           /\ \A k \in (1..MaxCommands) \ {n} : t.answered[k] = b.answered[k]
           /\ \A p \in Apps : t.queue[p] = b.queue[p]
           /\ \/ t.queue["uplink"] = b.queue["uplink"]
              \/ t.queue["uplink"] = Append(b.queue["uplink"], [num |-> n, ok |-> ok])
           /\ t.lost = Transmit(b, {"uplink"}, [num |-> n, ok |-> ok]).lost
<1> PICK m : m = [num |-> n, ok |-> ok] OBVIOUS
<1> PICK sent : sent = Transmit(b, {"uplink"}, m) OBVIOUS
<1>1. /\ {"uplink"} \subseteq Pipes /\ Apps \subseteq Pipes \ {"uplink"}
      /\ "uplink" \in Pipes
  BY DEF Pipes, Apps
<1>2. /\ BusShape(sent) /\ sent.answered = b.answered
      /\ \/ sent.queue["uplink"] = b.queue["uplink"]
         \/ sent.queue["uplink"] = Append(b.queue["uplink"], m)
      /\ \A p \in Apps : sent.queue[p] = b.queue[p]
  <2>1. BusShape(sent) /\ sent.answered = b.answered BY TransmitFields
  <2>2. \/ sent.queue["uplink"] = b.queue["uplink"]
        \/ sent.queue["uplink"] = Append(b.queue["uplink"], m)
    BY <1>1, TransmitQueue
  <2>3. ASSUME NEW p \in Apps PROVE sent.queue[p] = b.queue[p]
    <3>1. p \in Pipes /\ p \notin {"uplink"} BY <1>1
    <3> QED BY <3>1, TransmitQueue
  <2> QED BY <2>1, <2>2, <2>3
<1>3. t = [queue |-> sent.queue, lost |-> sent.lost,
           answered |-> [sent.answered EXCEPT ![n] = @ + 1]]
  <2>1. t = [sent EXCEPT !.answered[n] = @ + 1] BY DEF PublishExecResult
  <2> QED BY <2>1, <1>2 DEF BusShape
<1>4. /\ t.queue = sent.queue /\ t.lost = sent.lost
      /\ t.answered = [sent.answered EXCEPT ![n] = @ + 1]
  BY <1>3
<1>5. b.answered \in [1..MaxCommands -> Nat] BY DEF BusShape
<1>6. BusShape(t)
  <2>1. t = [queue |-> t.queue, lost |-> t.lost, answered |-> t.answered] BY <1>3, <1>4
  <2>2. [b.answered EXCEPT ![n] = @ + 1] \in [1..MaxCommands -> Nat]
    <3>1. b.answered[n] \in Nat BY <1>5
    <3> QED BY <1>5, <3>1
  <2>3. t.answered \in [1..MaxCommands -> Nat] BY <1>2, <1>4, <2>2
  <2> QED BY <1>2, <1>4, <2>1, <2>3 DEF BusShape
<1>7. /\ t.answered[n] = b.answered[n] + 1
      /\ \A k \in (1..MaxCommands) \ {n} : t.answered[k] = b.answered[k]
  <2>1. t.answered = [b.answered EXCEPT ![n] = b.answered[n] + 1] BY <1>2, <1>4
  <2> QED BY <2>1, <1>5
<1>8. t.lost = Transmit(b, {"uplink"}, [num |-> n, ok |-> ok]).lost BY <1>4
<1> QED BY <1>2, <1>4, <1>6, <1>7, <1>8

------------------------------------------------------------------------------
(* What may be in the pipes *)

\* The messages that one app sends another.
Internal == {"READBACK", "ROUTE_SNAPSHOT", "PARSER_RESET", "SERIAL_RECONNECT"}

\* Who answers a command.
AnswersTo(a, c) ==
    \/ c.cls = "CONFIG" /\ c.scope = Scope[a]
    \/ a = "core" /\ c.cls \in {"RECOVERY", "MODE", "VIEWPOINT"}
    \/ a = "bridge" /\ c.cls = "FLIGHT_MODE"

Deliverable(m, a) ==
    /\ m.num \in 0..LastAcceptedSequence
    /\ m.num = 0 => m.body.cls \in Internal
    /\ m.num > 0 => /\ m.body = commands[m.num]
                    /\ Forwards(m.body)
                    /\ a \in Subscribers(m.body)

\* Commands wait in the order in which they were accepted.
AppQueue(s, a) ==
    /\ \A i \in 1..Len(s) : Deliverable(s[i], a)
    /\ \A i, j \in 1..Len(s) : i < j /\ s[j].num # 0 => s[i].num < s[j].num

\* Only commands later than n are in s.
After(s, n) == \A i \in 1..Len(s) : s[i].num = 0 \/ s[i].num > n

\* A command that was answered was answered once, and the app that answers it
\* has no copy of it, nor an older command, left.
AnswersGone(b) ==
    \A n \in 1..MaxCommands :
        b.answered[n] > 0 =>
            /\ b.answered[n] = 1
            /\ n =< LastAcceptedSequence
            /\ \A a \in Apps : AnswersTo(a, commands[n]) => After(b.queue[a], n)

\* What waits for uplink_app are answers to accepted commands.
UplinkQueue(b) ==
    \A i \in 1..Len(b.queue["uplink"]) :
        LET m == b.queue["uplink"][i]
        IN  m.num \in 1..LastAcceptedSequence /\ b.answered[m.num] > 0

Mail(b) ==
    /\ BusShape(b)
    /\ \A a \in Apps : AppQueue(b.queue[a], a)
    /\ AnswersGone(b)
    /\ UplinkQueue(b)

LEMMA AppQueueTail ==
    ASSUME NEW a \in Apps, NEW s, IsQueue(s), s # << >>, AppQueue(s, a)
    PROVE  /\ AppQueue(Tail(s), a)
           /\ \A n : After(s, n) => After(Tail(s), n)
           /\ s[1].num # 0 => After(Tail(s), s[1].num)
<1>1. /\ Len(s) \in Nat /\ Len(Tail(s)) \in Nat /\ 1 \in 1..Len(s)
      /\ \A i \in 1..Len(Tail(s)) : i + 1 \in 1..Len(s) /\ Tail(s)[i] = s[i + 1]
  BY QueueTail
<1>2. \A i \in 1..Len(Tail(s)) : Deliverable(Tail(s)[i], a)
  BY <1>1 DEF AppQueue
<1>3. ASSUME NEW i \in 1..Len(Tail(s)), NEW j \in 1..Len(Tail(s)), i < j,
             Tail(s)[j].num # 0
      PROVE  Tail(s)[i].num < Tail(s)[j].num
  <2>1. i + 1 \in 1..Len(s) /\ j + 1 \in 1..Len(s) /\ i + 1 < j + 1 BY <1>1, <1>3
  <2> QED BY <1>1, <1>3, <2>1 DEF AppQueue
<1>4. ASSUME NEW i \in 1..Len(Tail(s))
      PROVE  Tail(s)[i].num = 0 \/ Tail(s)[i].num > s[1].num
  <2>1. i + 1 \in 1..Len(s) /\ 1 < i + 1 /\ Tail(s)[i] = s[i + 1] BY <1>1
  <2>2. s[i + 1].num # 0 => s[1].num < s[i + 1].num BY <1>1, <2>1 DEF AppQueue
  <2>3. s[1].num \in Nat /\ s[i + 1].num \in Nat BY <1>1, <2>1 DEF AppQueue, Deliverable
  <2> QED BY <2>1, <2>2, <2>3
<1>5. \A n : After(s, n) => After(Tail(s), n) BY <1>1 DEF After
<1> QED BY <1>2, <1>3, <1>4, <1>5 DEF AppQueue, After

LEMMA AppQueueAppend ==
    ASSUME NEW a \in Apps, NEW s, IsQueue(s), AppQueue(s, a), NEW m,
           m.num = 0, m.body.cls \in Internal, LastAcceptedSequence \in Nat
    PROVE  /\ AppQueue(Append(s, m), a)
           /\ \A n : After(s, n) => After(Append(s, m), n)
<1>1. /\ Len(s) \in Nat /\ Len(Append(s, m)) = Len(s) + 1
      /\ \A i \in 1..Len(s) : Append(s, m)[i] = s[i]
      /\ Append(s, m)[Len(s) + 1] = m
  BY QueueAppend
<1>2. \A i \in 1..Len(Append(s, m)) : i \in 1..Len(s) \/ i = Len(s) + 1 BY <1>1
<1>3. Deliverable(m, a) BY DEF Deliverable
<1> QED BY <1>1, <1>2, <1>3 DEF AppQueue, After

\* Taking a message leaves the mail in order.
LEMMA TakeMail ==
    ASSUME Mail(bus), NEW a \in Pipes, bus.queue[a] # << >>
    PROVE  Mail(Take(a))
<1>1. PICK t : t = Take(a) OBVIOUS
<1>2. /\ BusShape(t) /\ t.answered = bus.answered
      /\ t.queue[a] = Tail(bus.queue[a])
      /\ \A p \in Pipes \ {a} : t.queue[p] = bus.queue[p]
  BY <1>1, TakeFields DEF Mail
<1>3. IsQueue(bus.queue[a]) BY DEF Mail, BusShape
<1>4. Apps \subseteq Pipes /\ "uplink" \in Pipes /\ "uplink" \notin Apps BY DEF Pipes, Apps
<1>5. \A p \in Apps : /\ AppQueue(t.queue[p], p)
                      /\ \A n : After(bus.queue[p], n) => After(t.queue[p], n)
  <2> TAKE p \in Apps
  <2>1. CASE p = a BY <1>2, <1>3, <2>1, AppQueueTail DEF Mail
  <2>2. CASE p # a BY <1>2, <1>4, <2>2 DEF Mail
  <2> QED BY <2>1, <2>2
<1>6. AnswersGone(t) BY <1>2, <1>5 DEF Mail, AnswersGone
<1>7. UplinkQueue(t)
  <2>1. CASE a = "uplink"
    <3>0. /\ IsQueue(bus.queue["uplink"]) /\ bus.queue["uplink"] # << >>
          /\ t.queue["uplink"] = Tail(bus.queue["uplink"])
      BY <1>2, <1>3, <2>1
    <3>1. \A i \in 1..Len(t.queue["uplink"]) :
            /\ i + 1 \in 1..Len(bus.queue["uplink"])
            /\ t.queue["uplink"][i] = bus.queue["uplink"][i + 1]
      BY <3>0, QueueTail
    <3> QED BY <1>2, <3>1 DEF Mail, UplinkQueue
  <2>2. CASE a # "uplink"
    BY <1>2, <1>4, <2>2 DEF Mail, UplinkQueue
  <2> QED BY <2>1, <2>2
<1> QED BY <1>1, <1>2, <1>5, <1>6, <1>7 DEF Mail

\* So does a message from one app to another.
LEMMA TransmitMail ==
    ASSUME NEW b, Mail(b), NEW a \in Apps, NEW m, m.num = 0, m.body.cls \in Internal,
           LastAcceptedSequence \in Nat
    PROVE  Mail(Transmit(b, {a}, m))
<1>1. PICK t : t = Transmit(b, {a}, m) OBVIOUS
<1>2. Apps \subseteq Pipes /\ "uplink" \in Pipes /\ "uplink" \notin Apps BY DEF Pipes, Apps
<1>3. /\ BusShape(t) /\ t.answered = b.answered
      /\ \A p \in Pipes : t.queue[p] = b.queue[p] \/ t.queue[p] = Append(b.queue[p], m)
      /\ \A p \in Pipes \ {a} : t.queue[p] = b.queue[p]
  <2>1. BusShape(b) BY DEF Mail
  <2>2. BusShape(t) /\ t.answered = b.answered BY <1>1, <2>1, TransmitFields
  <2>3. ASSUME NEW p \in Pipes
        PROVE  /\ t.queue[p] = b.queue[p] \/ t.queue[p] = Append(b.queue[p], m)
               /\ p \notin {a} => t.queue[p] = b.queue[p]
    BY <1>1, <2>1, TransmitQueue
  <2> QED BY <2>2, <2>3
<1>4. \A p \in Apps : /\ AppQueue(t.queue[p], p)
                      /\ \A n : After(b.queue[p], n) => After(t.queue[p], n)
  <2> TAKE p \in Apps
  <2>1. IsQueue(b.queue[p]) /\ AppQueue(b.queue[p], p) BY <1>2 DEF Mail, BusShape
  <2>2. t.queue[p] = b.queue[p] \/ t.queue[p] = Append(b.queue[p], m) BY <1>2, <1>3
  <2> QED BY <2>1, <2>2, AppQueueAppend
<1>5. AnswersGone(t) BY <1>3, <1>4 DEF Mail, AnswersGone
<1>6. UplinkQueue(t)
  <2>1. t.queue["uplink"] = b.queue["uplink"] BY <1>2, <1>3
  <2> QED BY <1>3, <2>1 DEF Mail, UplinkQueue
<1> QED BY <1>1, <1>3, <1>4, <1>5, <1>6 DEF Mail

\* So does a restart, which loses them.
LEMMA EmptiedMail ==
    ASSUME Mail(bus), NEW a \in Pipes
    PROVE  Mail(Emptied(a))
<1>1. PICK t : t = Emptied(a) OBVIOUS
<1>2. /\ BusShape(t) /\ t.answered = bus.answered
      /\ t.queue[a] = << >>
      /\ \A p \in Pipes \ {a} : t.queue[p] = bus.queue[p]
  BY <1>1, EmptiedFields DEF Mail
<1>3. Apps \subseteq Pipes /\ "uplink" \in Pipes BY DEF Pipes, Apps
<1>4. \A p \in Apps : /\ AppQueue(t.queue[p], p)
                      /\ \A n : After(bus.queue[p], n) => After(t.queue[p], n)
  <2> TAKE p \in Apps
  <2>1. CASE p = a
    <3>1. Len(t.queue[p]) = 0 BY <1>2, <2>1, QueueEmpty
    <3> QED BY <3>1 DEF AppQueue, After
  <2>2. CASE p # a BY <1>2, <1>3, <2>2 DEF Mail
  <2> QED BY <2>1, <2>2
<1>5. AnswersGone(t) BY <1>2, <1>4 DEF Mail, AnswersGone
<1>6. UplinkQueue(t)
  <2>1. t.queue["uplink"] = << >> \/ t.queue["uplink"] = bus.queue["uplink"] BY <1>2, <1>3
  <2>2. CASE t.queue["uplink"] = << >> BY <2>2, QueueEmpty DEF UplinkQueue
  <2>3. CASE t.queue["uplink"] = bus.queue["uplink"] BY <1>2, <2>3 DEF Mail, UplinkQueue
  <2> QED BY <2>1, <2>2, <2>3
<1> QED BY <1>1, <1>2, <1>4, <1>5, <1>6 DEF Mail

\* So does the first answer to a command, given when the app that answers it
\* has come past it.
LEMMA AnswerMail ==
    ASSUME NEW b, Mail(b), NEW n \in 1..MaxCommands, NEW ok,
           TypeUplink, n =< LastAcceptedSequence, b.answered[n] = 0,
           \A a \in Apps : AnswersTo(a, commands[n]) => After(b.queue[a], n)
    PROVE  Mail(PublishExecResult(b, n, ok))
<1>1. PICK t : t = PublishExecResult(b, n, ok) OBVIOUS
<1>2. PICK m : m = [num |-> n, ok |-> ok] OBVIOUS
<1>3. /\ BusShape(t)
      /\ t.answered[n] = b.answered[n] + 1
      /\ \A k \in (1..MaxCommands) \ {n} : t.answered[k] = b.answered[k]
      /\ \A p \in Apps : t.queue[p] = b.queue[p]
      /\ \/ t.queue["uplink"] = b.queue["uplink"]
         \/ t.queue["uplink"] = Append(b.queue["uplink"], m)
  <2>1. BusShape(b) BY DEF Mail
  <2> QED BY <1>1, <1>2, <2>1, PublishFields
<1>4. t.answered[n] = 1 BY <1>3
<1>5. AnswersGone(t)
  <2> SUFFICES ASSUME NEW k \in 1..MaxCommands, t.answered[k] > 0
               PROVE  /\ t.answered[k] = 1
                      /\ k =< LastAcceptedSequence
                      /\ \A a \in Apps : AnswersTo(a, commands[k]) => After(t.queue[a], k)
    BY DEF AnswersGone
  <2>1. CASE k = n BY <1>3, <1>4, <2>1
  <2>2. CASE k # n
    <3>1. b.answered[k] > 0 /\ t.answered[k] = b.answered[k] BY <1>3, <2>2
    <3> QED BY <1>3, <3>1 DEF Mail, AnswersGone
  <2> QED BY <2>1, <2>2
<1>6. \A k \in 1..LastAcceptedSequence : b.answered[k] > 0 => t.answered[k] > 0
  <2> TAKE k \in 1..LastAcceptedSequence
  <2>1. k \in 1..MaxCommands BY BoundsAssumption DEF TypeUplink
  <2> QED BY <1>3, <1>4, <2>1
<1>7. UplinkQueue(t)
  <2>1. CASE t.queue["uplink"] = b.queue["uplink"]
    BY <1>6, <2>1 DEF Mail, UplinkQueue
  <2>2. CASE t.queue["uplink"] = Append(b.queue["uplink"], m)
    <3> DEFINE s == b.queue["uplink"]
    <3>1. IsQueue(s) BY DEF Mail, BusShape, Pipes
    <3>2. /\ Len(s) \in Nat /\ Len(Append(s, m)) = Len(s) + 1
          /\ \A i \in 1..Len(s) : Append(s, m)[i] = s[i]
          /\ Append(s, m)[Len(s) + 1] = m
      BY <3>1, QueueAppend
    <3>3. m.num = n /\ n \in 1..LastAcceptedSequence BY <1>2 DEF TypeUplink
    <3>4. ASSUME NEW i \in 1..Len(Append(s, m)), NEW r, r = Append(s, m)[i]
          PROVE  r.num \in 1..LastAcceptedSequence /\ t.answered[r.num] > 0
      <4>1. CASE i \in 1..Len(s) BY <1>6, <3>2, <3>4, <4>1 DEF Mail, UplinkQueue
      <4>2. CASE i = Len(s) + 1 BY <1>4, <3>2, <3>3, <3>4, <4>2
      <4> QED BY <3>2, <4>1, <4>2
    <3> QED BY <2>2, <3>4 DEF UplinkQueue
  <2> QED BY <1>3, <2>1, <2>2
<1> QED BY <1>1, <1>3, <1>5, <1>7 DEF Mail

\* A command that an app takes from its pipe is the one that was accepted under
\* its number, and was not answered before by this app.
LEMMA HeadMessage ==
    ASSUME Mail(bus), TypeUplink, NEW a \in Apps, NEW cls, Handles(a, cls), cls \notin Internal
    PROVE  /\ Num(a) \in 1..MaxCommands /\ Num(a) =< LastAcceptedSequence
           /\ Msg(a) = commands[Num(a)] /\ Msg(a).cls = cls
           /\ Forwards(Msg(a)) /\ a \in Subscribers(Msg(a))
           /\ bus.queue[a] # << >>
           /\ After(Take(a).queue[a], Num(a))
           /\ AnswersTo(a, Msg(a)) => bus.answered[Num(a)] = 0
<1>1. PICK s : s = bus.queue[a] OBVIOUS
<1>2. /\ BusShape(bus) /\ AppQueue(s, a) /\ IsQueue(s) /\ s # << >> /\ a \in Pipes
  BY <1>1 DEF Mail, BusShape, Handles, Apps, Pipes
<1>3. Head(s) = s[1] /\ 1 \in 1..Len(s) BY <1>2, QueueTail
<1>4. Num(a) = s[1].num /\ Msg(a) = s[1].body /\ s[1].body.cls = cls
  BY <1>1, <1>3 DEF Num, Msg, Handles
<1>5. Deliverable(s[1], a) BY <1>2, <1>3 DEF AppQueue
<1>6. s[1].num \in 1..LastAcceptedSequence BY <1>4, <1>5 DEF Deliverable, TypeUplink
<1>7. Take(a).queue[a] = Tail(s) BY <1>1, <1>2, TakeFields
<1>8. After(Tail(s), s[1].num) BY <1>2, <1>6, AppQueueTail
<1>9. AnswersTo(a, Msg(a)) => bus.answered[Num(a)] = 0
  <2> SUFFICES ASSUME AnswersTo(a, Msg(a)), bus.answered[Num(a)] # 0 PROVE FALSE OBVIOUS
  <2>1. Num(a) \in 1..MaxCommands BY <1>4, <1>6, BoundsAssumption DEF TypeUplink
  <2>2. bus.answered[Num(a)] > 0
    <3>1. bus.answered \in [1..MaxCommands -> Nat] BY <1>2 DEF BusShape
    <3>2. bus.answered[Num(a)] \in Nat BY <2>1, <3>1
    <3> QED BY <3>2
  <2>3. Msg(a) = commands[Num(a)] BY <1>4, <1>5, <1>6 DEF Deliverable
  <2>4. After(bus.queue[a], Num(a)) BY <2>1, <2>2, <2>3 DEF Mail, AnswersGone
  <2> QED BY <1>1, <1>3, <1>4, <1>6, <2>4 DEF After
<1> QED BY <1>1, <1>2, <1>4, <1>5, <1>6, <1>7, <1>8, <1>9, BoundsAssumption
      DEF Deliverable, TypeUplink

------------------------------------------------------------------------------
(* Answers *)

Kept == UNCHANGED <<commands, LastAcceptedSequence>>

\* b is what is left of the mail when a message for a was taken, and perhaps a
\* message to another app was sent.
Taken(a, b) ==
    /\ bus.queue[a] # << >>
    /\ \/ b = Take(a)
       \/ \E d \in Apps : \E m : /\ m.num = 0 /\ m.body.cls \in Internal
                                 /\ b = Transmit(Take(a), {d}, m)

\* An app answers the command that it took.  If the answer is OK, the command
\* has been carried out.
AnswerStep ==
    \E a \in Apps, n \in 1..MaxCommands, ok \in BOOLEAN : \E b :
        /\ Taken(a, b)
        /\ n =< LastAcceptedSequence /\ After(Take(a).queue[a], n)
        /\ AnswersTo(a, commands[n]) /\ bus.answered[n] = 0
        /\ bus' = PublishExecResult(b, n, ok)
        /\ ok => Done(n)'

\* All that may happen on the bus while no command is accepted.
BusStep ==
    \/ bus' = bus
    \/ bus.queue["uplink"] # << >> /\ bus' = Take("uplink")
    \/ \E p \in Pipes : bus' = Emptied(p)
    \/ \E d \in Apps : \E m : /\ m.num = 0 /\ m.body.cls \in Internal
                              /\ bus' = Transmit(bus, {d}, m)
    \/ \E a \in Apps : Taken(a, bus')
    \/ AnswerStep

LEMMA TakenMail ==
    ASSUME Mail(bus), TypeUplink, NEW a \in Apps, NEW b, Taken(a, b)
    PROVE  /\ Mail(b)
           /\ b.answered = bus.answered
           /\ b.queue["uplink"] = bus.queue["uplink"]
           /\ \A n : After(Take(a).queue[a], n) => After(b.queue[a], n)
<1>1. PICK t : t = Take(a) OBVIOUS
<1>2. /\ a \in Pipes /\ "uplink" \in Pipes /\ "uplink" \notin Apps /\ bus.queue[a] # << >>
      /\ BusShape(bus) /\ LastAcceptedSequence \in Nat
  BY DEF Apps, Pipes, Taken, Mail, TypeUplink
<1>3. Mail(t) /\ t.answered = bus.answered /\ t.queue["uplink"] = bus.queue["uplink"]
  <2>1. Mail(t) BY <1>1, <1>2, TakeMail
  <2>2. t.answered = bus.answered /\ \A p \in Pipes \ {a} : t.queue[p] = bus.queue[p]
    BY <1>1, <1>2, TakeFields
  <2> QED BY <1>2, <2>1, <2>2
<1>4. CASE b = t BY <1>1, <1>3, <1>4
<1>5. CASE b # t
  <2>0. PICK d \in Apps : \E m : /\ m.num = 0 /\ m.body.cls \in Internal
                                 /\ b = Transmit(t, {d}, m)
    BY <1>1, <1>5 DEF Taken
  <2>1. PICK m : m.num = 0 /\ m.body.cls \in Internal /\ b = Transmit(t, {d}, m)
    BY <2>0
  <2>2. BusShape(t) /\ AppQueue(t.queue[a], a) /\ IsQueue(t.queue[a])
    BY <1>2, <1>3 DEF Mail, BusShape
  <2>3. Mail(b) BY <1>2, <1>3, <2>1, TransmitMail
  <2>4. b.answered = t.answered BY <2>1, <2>2, TransmitFields
  <2>5. b.queue["uplink"] = t.queue["uplink"]
    <3>1. "uplink" \notin {d} BY <1>2
    <3> QED BY <1>2, <2>1, <2>2, <3>1, TransmitQueue
  <2>6. b.queue[a] = t.queue[a] \/ b.queue[a] = Append(t.queue[a], m)
    BY <1>2, <2>1, <2>2, TransmitQueue
  <2>7. \A n : After(t.queue[a], n) => After(Append(t.queue[a], m), n)
    BY <1>2, <2>1, <2>2, AppQueueAppend
  <2> QED BY <1>1, <1>3, <2>3, <2>4, <2>5, <2>6, <2>7
<1> QED BY <1>4, <1>5

\* One app answers a command.
LEMMA OneAnswers ==
    ASSUME NEW a \in Apps, NEW d \in Apps, NEW c, AnswersTo(a, c), AnswersTo(d, c)
    PROVE  a = d
<1>1. \A x \in Apps, y \in Apps : Scope[x] = Scope[y] => x = y BY ParamsOf DEF Apps
<1> QED BY <1>1 DEF AnswersTo, Apps

\* What an answer does to the bus.
LEMMA AnswerFields ==
    ASSUME Mail(bus), TypeUplink, NEW a \in Apps, NEW n \in 1..MaxCommands, NEW b,
           NEW ok, Taken(a, b), n =< LastAcceptedSequence, After(Take(a).queue[a], n),
           AnswersTo(a, commands[n]), bus.answered[n] = 0
    PROVE  /\ Mail(PublishExecResult(b, n, ok))
           /\ \/ PublishExecResult(b, n, ok).queue["uplink"] = bus.queue["uplink"]
              \/ PublishExecResult(b, n, ok).queue["uplink"] =
                   Append(bus.queue["uplink"], [num |-> n, ok |-> ok])
           /\ \A k \in 1..MaxCommands :
                bus.answered[k] > 0 => PublishExecResult(b, n, ok).answered[k] > 0
<1>1. PICK t : t = PublishExecResult(b, n, ok) OBVIOUS
<1>2. /\ Mail(b) /\ BusShape(b) /\ b.answered = bus.answered
      /\ b.queue["uplink"] = bus.queue["uplink"]
      /\ After(b.queue[a], n)
  BY TakenMail DEF Mail
<1>3. \A d \in Apps : AnswersTo(d, commands[n]) => After(b.queue[d], n)
  BY <1>2, OneAnswers
<1>4. Mail(t) BY <1>1, <1>2, <1>3, AnswerMail
<1>m. PICK m : m = [num |-> n, ok |-> ok] OBVIOUS
<1>5. /\ t.answered[n] = b.answered[n] + 1
      /\ \A k \in (1..MaxCommands) \ {n} : t.answered[k] = b.answered[k]
      /\ \/ t.queue["uplink"] = b.queue["uplink"]
         \/ t.queue["uplink"] = Append(b.queue["uplink"], m)
  <2>1. BusShape(b) BY <1>2
  <2> QED BY <1>1, <1>m, <2>1, PublishFields
<1>6. \A k \in 1..MaxCommands : bus.answered[k] > 0 => t.answered[k] > 0
  <2> TAKE k \in 1..MaxCommands
  <2>1. CASE k = n BY <1>2, <1>5, <2>1
  <2>2. CASE k # n BY <1>2, <1>5, <2>2
  <2> QED BY <2>1, <2>2
<1> QED BY <1>1, <1>2, <1>4, <1>m, <1>5, <1>6

\* Mail is in order after any step that accepts no command.
LEMMA BusStepMail ==
    ASSUME Mail(bus), TypeUplink, Kept, BusStep
    PROVE  Mail(bus)'
<1>1. PICK t : t = bus' OBVIOUS
<1>2. Mail(t)
  <2>1. Apps \subseteq Pipes /\ "uplink" \in Pipes /\ LastAcceptedSequence \in Nat
    BY DEF Apps, Pipes, TypeUplink
  <2>2. CASE bus' = bus BY <1>1, <2>2
  <2>3. CASE bus.queue["uplink"] # << >> /\ bus' = Take("uplink")
    BY <1>1, <2>1, <2>3, TakeMail
  <2>4. ASSUME NEW p \in Pipes, bus' = Emptied(p) PROVE Mail(t)
    BY <1>1, <2>4, EmptiedMail
  <2>5. ASSUME NEW d \in Apps, NEW m, m.num = 0 /\ m.body.cls \in Internal,
               bus' = Transmit(bus, {d}, m)
        PROVE  Mail(t)
    BY <1>1, <2>1, <2>5, TransmitMail
  <2>6. ASSUME NEW a \in Apps, Taken(a, bus') PROVE Mail(t)
    <3>1. Taken(a, t) BY <1>1, <2>6
    <3> QED BY <3>1, TakenMail
  <2>7. CASE AnswerStep
    <3>1. PICK a \in Apps, n \in 1..MaxCommands, ok \in BOOLEAN : \E b :
            /\ Taken(a, b)
            /\ n =< LastAcceptedSequence /\ After(Take(a).queue[a], n)
            /\ AnswersTo(a, commands[n]) /\ bus.answered[n] = 0
            /\ bus' = PublishExecResult(b, n, ok)
      BY <2>7 DEF AnswerStep
    <3>2. PICK b : Taken(a, b) /\ bus' = PublishExecResult(b, n, ok) BY <3>1
    <3> QED BY <1>1, <3>1, <3>2, AnswerFields
  <2> QED BY <2>2, <2>3, <2>4, <2>5, <2>6, <2>7 DEF BusStep
<1>3. commands' = commands /\ LastAcceptedSequence' = LastAcceptedSequence BY DEF Kept
<1>4. \A m, a : Deliverable(m, a)' <=> Deliverable(m, a) BY <1>3 DEF Deliverable
<1> QED BY <1>1, <1>2, <1>3, <1>4 DEF Mail, AppQueue, AnswersGone, UplinkQueue, After

------------------------------------------------------------------------------
(* A command is accepted *)

LEMMA Grow ==
    ASSUME TypeUplink, NEW c \in Sendable, commands' = Append(commands, c),
           LastAcceptedSequence' \in {LastAcceptedSequence, Next1}
    PROVE  /\ Next1 \in Nat /\ LastAcceptedSequence \in Nat
           /\ LastAcceptedSequence < Next1
           /\ \A n \in 1..LastAcceptedSequence : commands'[n] = commands[n]
           /\ commands'[Next1] = c
           /\ LastAcceptedSequence' \in Nat /\ LastAcceptedSequence =< LastAcceptedSequence'
           /\ LastAcceptedSequence' =< Next1
           /\ \A m, a : Deliverable(m, a) => Deliverable(m, a)'
<1>1. /\ Next1 \in Nat /\ LastAcceptedSequence \in Nat
      /\ LastAcceptedSequence < Next1
      /\ \A n \in 1..LastAcceptedSequence : commands'[n] = commands[n]
      /\ commands'[Next1] = c
      /\ LastAcceptedSequence' \in Nat /\ LastAcceptedSequence =< LastAcceptedSequence'
      /\ LastAcceptedSequence' =< Next1
  BY DEF TypeUplink, Next1
<1>2. ASSUME NEW m, NEW a, Deliverable(m, a)
      PROVE  Deliverable(m, a)'
  <2>1. m.num \in 0..LastAcceptedSequence BY <1>2 DEF Deliverable
  <2>2. m.num \in 0..LastAcceptedSequence' BY <1>1, <2>1
  <2>3. m.num > 0 => commands'[m.num] = commands[m.num]
    <3> SUFFICES ASSUME m.num > 0 PROVE commands'[m.num] = commands[m.num] OBVIOUS
    <3>1. PICK k : k = m.num OBVIOUS
    <3>2. k \in 1..LastAcceptedSequence BY <1>1, <2>1, <3>1
    <3> QED BY <1>1, <3>1, <3>2
  <2> QED BY <1>2, <2>2, <2>3 DEF Deliverable
<1> QED BY <1>1, <1>2

\* A command that is refused, or is for uplink_app, is not sent to any app.
LEMMA RefusedMail ==
    ASSUME Mail(bus), TypeUplink, NEW c \in Sendable, commands' = Append(commands, c),
           UNCHANGED <<LastAcceptedSequence, bus>>
    PROVE  Mail(bus)'
<1>1. /\ LastAcceptedSequence \in Nat
      /\ \A n \in 1..LastAcceptedSequence : commands'[n] = commands[n]
      /\ \A m, a : Deliverable(m, a) => Deliverable(m, a)'
  BY Grow
<1>2. BusShape(bus)' /\ UplinkQueue(bus)' BY DEF Mail, BusShape, UplinkQueue
<1>3. \A a \in Apps : AppQueue(bus.queue[a], a)' BY <1>1 DEF Mail, AppQueue
<1>4. AnswersGone(bus)'
  <2>1. ASSUME NEW n \in 1..MaxCommands, n =< LastAcceptedSequence
        PROVE  commands'[n] = commands[n]
    <3>1. n \in 1..LastAcceptedSequence BY <1>1, <2>1
    <3> QED BY <1>1, <3>1
  <2> QED BY <2>1 DEF Mail, AnswersGone, After
<1> QED BY <1>2, <1>3, <1>4 DEF Mail

LEMMA SubscribersApps ==
    ASSUME NEW c, Forwards(c), ~LocalReset(c)
    PROVE  Subscribers(c) \subseteq Apps
  BY DEF Forwards, ForwardCounterMgmtCommand, LocalReset, Subscribers, Apps, Pipes

\* A command that is accepted waits behind the earlier ones.
LEMMA AcceptMail ==
    ASSUME Mail(bus), TypeUplink, NEW c \in Sendable, Forwards(c), ~LocalReset(c),
           commands' = Append(commands, c), LastAcceptedSequence' = Next1,
           bus' = Transmit(bus, Subscribers(c), [num |-> Next1, body |-> c])
    PROVE  Mail(bus)'
<1> DEFINE pipes == Subscribers(c)
<1>1. PICK t : t = bus' OBVIOUS
<1>2. PICK m : m = [num |-> Next1, body |-> c] OBVIOUS
<1>3. /\ Next1 \in Nat /\ LastAcceptedSequence \in Nat
      /\ LastAcceptedSequence < Next1
      /\ \A n \in 1..LastAcceptedSequence : commands'[n] = commands[n]
      /\ commands'[Next1] = c
      /\ \A r, a : Deliverable(r, a) => Deliverable(r, a)'
  BY Grow
<1>4. BusShape(t) /\ t.answered = bus.answered
  BY <1>1, <1>2, TransmitFields DEF Mail
<1>5. ASSUME NEW p \in Pipes
      PROVE  /\ t.queue[p] = bus.queue[p] \/ t.queue[p] = Append(bus.queue[p], m)
             /\ p \notin pipes => t.queue[p] = bus.queue[p]
  BY <1>1, <1>2, TransmitQueue DEF Mail
<1>6. pipes \subseteq Apps /\ Apps \subseteq Pipes /\ "uplink" \in Pipes /\ "uplink" \notin Apps
  BY SubscribersApps DEF Apps, Pipes
<1> HIDE DEF pipes
<1>7. ASSUME NEW a \in pipes PROVE Deliverable(m, a)'
  <2>1. m.num = Next1 /\ m.body = c BY <1>2
  <2>2. m.num \in 0..LastAcceptedSequence' /\ m.num # 0 BY <1>3, <2>1
  <2>3. m.body = commands'[m.num] BY <1>3, <2>1
  <2>4. Forwards(m.body) /\ a \in Subscribers(m.body) BY <2>1 DEF pipes
  <2> QED BY <2>2, <2>3, <2>4 DEF Deliverable
<1>8. ASSUME NEW a \in Apps
      PROVE  /\ AppQueue(t.queue[a], a)'
             /\ \A n \in 1..LastAcceptedSequence :
                  After(bus.queue[a], n) => After(t.queue[a], n)
  <2>1. PICK s : s = bus.queue[a] OBVIOUS
  <2>2. AppQueue(s, a) /\ IsQueue(s) /\ a \in Pipes BY <1>6, <2>1 DEF Mail, BusShape
  <2>3. AppQueue(s, a)' BY <1>3, <2>2 DEF AppQueue
  <2>4. CASE t.queue[a] = s BY <2>1, <2>3, <2>4
  <2>5. CASE t.queue[a] # s
    <3>1. t.queue[a] = Append(s, m) /\ a \in pipes BY <1>5, <2>1, <2>2, <2>5
    <3>2. /\ Len(s) \in Nat /\ Len(Append(s, m)) = Len(s) + 1
          /\ \A i \in 1..Len(s) : Append(s, m)[i] = s[i]
          /\ Append(s, m)[Len(s) + 1] = m
      BY <2>2, QueueAppend
    <3>3. \A i \in 1..Len(s) + 1 : i \in 1..Len(s) \/ i = Len(s) + 1 BY <3>2
    <3>4. \A i \in 1..Len(s) : s[i].num < m.num
      BY <1>2, <1>3, <2>2 DEF AppQueue, Deliverable
    <3>5. PICK u : u = Append(s, m) OBVIOUS
    <3>6. \A i \in 1..Len(u) : Deliverable(u[i], a)'
      BY <1>7, <2>3, <3>1, <3>2, <3>3, <3>5 DEF AppQueue
    <3>7. ASSUME NEW i \in 1..Len(u), NEW j \in 1..Len(u), i < j, u[j].num # 0
          PROVE  u[i].num < u[j].num
      <4>1. i \in 1..Len(s) BY <3>2, <3>5, <3>7
      <4>2. CASE j \in 1..Len(s) BY <2>2, <3>2, <3>5, <3>7, <4>1, <4>2 DEF AppQueue
      <4>3. CASE j = Len(s) + 1 BY <3>2, <3>4, <3>5, <4>1, <4>3
      <4> QED BY <3>2, <3>3, <3>5, <4>2, <4>3
    <3>8. ASSUME NEW n \in 1..LastAcceptedSequence, After(s, n) PROVE After(u, n)
      <4>1. m.num > n BY <1>2, <1>3
      <4> QED BY <3>2, <3>3, <3>5, <3>8, <4>1 DEF After
    <3> QED BY <2>1, <3>1, <3>5, <3>6, <3>7, <3>8 DEF AppQueue
  <2> QED BY <2>4, <2>5
<1>9. ASSUME NEW n \in 1..MaxCommands, t.answered[n] > 0
      PROVE  /\ t.answered[n] = 1
             /\ n =< LastAcceptedSequence'
             /\ \A a \in Apps : AnswersTo(a, commands'[n]) => After(t.queue[a], n)
  <2>1. /\ bus.answered[n] = 1 /\ n =< LastAcceptedSequence
        /\ \A a \in Apps : AnswersTo(a, commands[n]) => After(bus.queue[a], n)
    BY <1>4, <1>9 DEF Mail, AnswersGone
  <2>2. n \in 1..LastAcceptedSequence BY <1>3, <2>1
  <2>2a. commands'[n] = commands[n] BY <1>3, <2>2
  <2>3. n =< LastAcceptedSequence' BY <1>3, <2>2
  <2> QED BY <1>4, <1>8, <2>1, <2>2, <2>2a, <2>3
<1>10. UplinkQueue(bus)'
  <2>1. t.queue["uplink"] = bus.queue["uplink"] BY <1>5, <1>6
  <2>2. \A k \in 1..LastAcceptedSequence : k \in 1..LastAcceptedSequence' BY <1>3
  <2> QED BY <1>1, <1>4, <2>1, <2>2 DEF Mail, UplinkQueue
<1> QED BY <1>1, <1>4, <1>8, <1>9, <1>10 DEF Mail, AnswersGone, AppQueue, BusShape, After

------------------------------------------------------------------------------
(* What each handler does to the bus *)

\* Everything that the handlers leave alone, and what the pipes see of them.
HandlerStep == BusStep /\ UNCHANGED <<commands, uplink>>

BusInv == ConfigInv /\ TypeUplink /\ TypeCore /\ TypeFc /\ Mail(bus)

LEMMA Silent ==
    ASSUME NEW a \in Apps, NEW cls, Handles(a, cls), bus' = Take(a)
    PROVE  BusStep
<1>1. Taken(a, bus') BY DEF Taken, Handles
<1> QED BY <1>1 DEF BusStep

LEMMA HandsOn ==
    ASSUME NEW a \in Apps, NEW d \in Apps, NEW cls, Handles(a, cls), NEW m,
           m.num = 0, m.body.cls \in Internal, bus' = Transmit(Take(a), {d}, m)
    PROVE  BusStep
<1>1. Taken(a, bus') BY DEF Taken, Handles
<1> QED BY <1>1 DEF BusStep

LEMMA Answering ==
    ASSUME BusInv, NEW a \in Apps, NEW cls, Handles(a, cls), cls \notin Internal,
           AnswersTo(a, Msg(a)), NEW b, Taken(a, b), NEW ok \in BOOLEAN,
           NEW n, n = Num(a), bus' = PublishExecResult(b, n, ok),
           ok => Done(n)'
    PROVE  BusStep
<1>2. /\ n \in 1..MaxCommands /\ n =< LastAcceptedSequence
      /\ Msg(a) = commands[n] /\ After(Take(a).queue[a], n) /\ bus.answered[n] = 0
  BY HeadMessage DEF BusInv
<1>3. AnswerStep BY <1>2 DEF AnswerStep
<1> QED BY <1>3 DEF BusStep

\* The command was carried out: the parameter has the value that it asked for.
LEMMA ConfigDone ==
    ASSUME ConfigInv, NEW a \in Apps, NEW n, NEW c, commands[n] = c, UNCHANGED commands,
           c.cls = "CONFIG", c.scope = Scope[a], c.param \in Params[a], c.value \in Nat,
           active' = [active EXCEPT ![a] = Candidate(a, c)]
    PROVE  Done(n)'
<1>1. active'[a] = [active[a] EXCEPT ![c.param] = c.value] BY DEF ConfigInv, Candidate
<1>2. active[a] \in [Params[a] -> Nat] BY DEF ConfigInv, Legal
<1>3. active'[a][c.param] = c.value BY <1>1, <1>2
<1> QED BY <1>3 DEF Done

LEMMA CoreConfigBus ==
    ASSUME BusInv, NEW saved \in BOOLEAN, CoreConfig(saved)
    PROVE  HandlerStep
<1>1. PICK c, n : c = Msg("core") /\ n = Num("core") OBVIOUS
<1>2. "core" \in Apps /\ Handles("core", "CONFIG") BY DEF Apps, CoreConfig
<1>3. c.cls = "CONFIG" /\ commands[n] = c /\ Forwards(c)
  BY <1>1, <1>2, HeadMessage DEF BusInv, Internal
<1>4. c.len = "FULL" BY <1>3 DEF Forwards, ForwardConfigCommand
<1>5. UNCHANGED <<commands, uplink>> BY DEF CoreConfig, Stay
<1>6. Taken("core", Take("core")) BY <1>2 DEF Taken, Handles
<1>7. CASE CoreConfigResult(c) = "BAD_SCOPE"
  <2>1. bus' = Take("core") BY <1>1, <1>7 DEF CoreConfig
  <2> QED BY <1>2, <1>5, <2>1, Silent DEF HandlerStep
<1>8. CASE CoreConfigResult(c) # "BAD_SCOPE"
  <2>1. c.scope = Scope["core"] BY <1>4, <1>8 DEF CoreConfigResult
  <2>2. AnswersTo("core", c) BY <1>3, <2>1 DEF AnswersTo
  <2>3. CASE CoreConfigResult(c) = "OK"
    <3>1. /\ bus' = PublishExecResult(Take("core"), n, TRUE)
          /\ active' = [active EXCEPT !["core"] = Candidate("core", c)]
      BY <1>1, <2>3 DEF CoreConfig, Activate
    <3>2. c.param \in Params["core"] /\ c.value \in Nat BY <2>3, CoreAccepts
    <3>3. Done(n)'
      BY <1>2, <1>3, <1>5, <2>1, <3>1, <3>2, ConfigDone DEF BusInv
    <3>4. BusStep
      BY <1>1, <1>2, <1>6, <2>2, <3>1, <3>3, Answering DEF Internal
    <3> QED BY <1>5, <3>4 DEF HandlerStep
  <2>4. CASE CoreConfigResult(c) # "OK"
    <3>1. bus' = PublishExecResult(Take("core"), n, FALSE)
      BY <1>1, <1>8, <2>4 DEF CoreConfig
    <3>2. BusStep BY <1>1, <1>2, <1>6, <2>2, <3>1, Answering DEF Internal
    <3> QED BY <1>5, <3>2 DEF HandlerStep
  <2> QED BY <2>3, <2>4
<1> QED BY <1>7, <1>8

LEMMA BridgeConfigBus ==
    ASSUME BusInv, NEW saved \in BOOLEAN, BridgeConfig(saved)
    PROVE  HandlerStep
<1>1. PICK c, n : c = Msg("bridge") /\ n = Num("bridge") OBVIOUS
<1>2. "bridge" \in Apps /\ Handles("bridge", "CONFIG") BY DEF Apps, BridgeConfig
<1>3. c.cls = "CONFIG" /\ commands[n] = c /\ Forwards(c)
  BY <1>1, <1>2, HeadMessage DEF BusInv, Internal
<1>4. c.len = "FULL" BY <1>3 DEF Forwards, ForwardConfigCommand
<1>5. UNCHANGED <<commands, uplink>> BY DEF BridgeConfig, Stay
<1>6. Taken("bridge", Take("bridge")) BY <1>2 DEF Taken, Handles
<1>7. CASE BridgeConfigResult(c) = "IGNORED"
  <2>1. bus' = Take("bridge") BY <1>1, <1>7 DEF BridgeConfig
  <2> QED BY <1>2, <1>5, <2>1, Silent DEF HandlerStep
<1>8. CASE BridgeConfigResult(c) # "IGNORED"
  <2>1. c.scope = Scope["bridge"] BY <1>4, <1>8 DEF BridgeConfigResult
  <2>2. AnswersTo("bridge", c) BY <1>3, <2>1 DEF AnswersTo
  <2>3. CASE BridgeConfigResult(c) = "OK"
    <3>1. /\ bus' = PublishExecResult(Take("bridge"), n, TRUE)
          /\ active' = [active EXCEPT !["bridge"] = Candidate("bridge", c)]
      BY <1>1, <2>3 DEF BridgeConfig, Activate
    <3>2. c.param \in Params["bridge"] /\ c.value \in Nat BY <2>3, BridgeAccepts
    <3>3. Done(n)'
      BY <1>2, <1>3, <1>5, <2>1, <3>1, <3>2, ConfigDone DEF BusInv
    <3>4. BusStep
      BY <1>1, <1>2, <1>6, <2>2, <3>1, <3>3, Answering DEF Internal
    <3> QED BY <1>5, <3>4 DEF HandlerStep
  <2>4. CASE BridgeConfigResult(c) # "OK"
    <3>1. bus' = PublishExecResult(Take("bridge"), n, FALSE)
      BY <1>1, <1>8, <2>4 DEF BridgeConfig
    <3>2. BusStep BY <1>1, <1>2, <1>6, <2>2, <3>1, Answering DEF Internal
    <3> QED BY <1>5, <3>2 DEF HandlerStep
  <2> QED BY <2>3, <2>4
<1> QED BY <1>7, <1>8

LEMMA LoraConfigBus ==
    ASSUME BusInv, NEW saved \in BOOLEAN, LoraConfig(saved)
    PROVE  HandlerStep
<1>1. PICK c, n : c = Msg("lora") /\ n = Num("lora") OBVIOUS
<1>2. "lora" \in Apps /\ Handles("lora", "CONFIG") BY DEF Apps, LoraConfig
<1>3. c.cls = "CONFIG" /\ commands[n] = c
  BY <1>1, <1>2, HeadMessage DEF BusInv, Internal
<1>4. UNCHANGED <<commands, uplink>> BY DEF LoraConfig, Stay
<1>5. Taken("lora", Take("lora")) BY <1>2 DEF Taken, Handles
<1>6. CASE LoraConfigResult(c) = "IGNORED"
  <2>1. bus' = Take("lora") BY <1>1, <1>6 DEF LoraConfig
  <2> QED BY <1>2, <1>4, <2>1, Silent DEF HandlerStep
<1>7. CASE LoraConfigResult(c) # "IGNORED"
  <2>1. c.scope = Scope["lora"] BY <1>7 DEF LoraConfigResult
  <2>2. AnswersTo("lora", c) BY <1>3, <2>1 DEF AnswersTo
  <2>3. CASE LoraConfigResult(c) = "OK"
    <3>1. /\ bus' = PublishExecResult(Take("lora"), n, TRUE)
          /\ active' = [active EXCEPT !["lora"] = Candidate("lora", c)]
      BY <1>1, <2>3 DEF LoraConfig
    <3>2. c.param \in Params["lora"] /\ c.value \in Nat BY <2>3, LoraAccepts
    <3>3. Done(n)'
      BY <1>2, <1>3, <1>4, <2>1, <3>1, <3>2, ConfigDone DEF BusInv
    <3>4. BusStep
      BY <1>1, <1>2, <1>5, <2>2, <3>1, <3>3, Answering DEF Internal
    <3> QED BY <1>4, <3>4 DEF HandlerStep
  <2>4. CASE LoraConfigResult(c) # "OK"
    <3>1. bus' = PublishExecResult(Take("lora"), n, FALSE)
      BY <1>1, <1>7, <2>4 DEF LoraConfig
    <3>2. BusStep BY <1>1, <1>2, <1>5, <2>2, <3>1, Answering DEF Internal
    <3> QED BY <1>4, <3>2 DEF HandlerStep
  <2> QED BY <2>3, <2>4
<1> QED BY <1>6, <1>7

\* Commands of the other classes that are answered.  RECOVERY counts as carried
\* out when the restart has been asked for.
LEMMA CoreRecoveryBus ==
    ASSUME BusInv, NEW ok \in BOOLEAN,
           \/ CoreRecoveryReset(ok) \/ CoreRecoveryRestart(ok) \/ CoreRecoveryBridge(ok)
           \/ CoreRecoveryUnknown
    PROVE  HandlerStep
<1>1. PICK c, n : c = Msg("core") /\ n = Num("core") OBVIOUS
<1>2. "core" \in Apps /\ "bridge" \in Apps /\ Handles("core", "RECOVERY")
  BY DEF Apps, CoreRecoveryReset, CoreRecoveryRestart, CoreRecoveryBridge,
     CoreRecoveryUnknown
<1>3. c.cls = "RECOVERY" /\ commands[n] = c
  BY <1>1, <1>2, HeadMessage DEF BusInv, Internal
<1>4. UNCHANGED <<commands, uplink>>
  BY DEF CoreRecoveryReset, CoreRecoveryRestart, CoreRecoveryBridge, CoreRecoveryUnknown,
     CoreOnly, Stay
<1>5. AnswersTo("core", c) BY <1>3 DEF AnswersTo
<1>6. Done(n)' BY <1>3, <1>4 DEF Done
<1>7. Taken("core", Take("core")) BY <1>2 DEF Taken, Handles
<1>8. CASE CoreRecoveryBridge(ok)
  <2>1. PICK m : m = [num |-> 0, body |-> [cls |-> Msg("core").action]] OBVIOUS
  <2>2. PICK b : b = IF ok THEN Transmit(Take("core"), {"bridge"}, m) ELSE Take("core")
    OBVIOUS
  <2>3. m.num = 0 /\ m.body.cls \in Internal
    BY <1>8, <2>1 DEF CoreRecoveryBridge, Internal
  <2>4. Taken("core", b) BY <1>2, <1>7, <2>2, <2>3 DEF Taken
  <2>5. bus' = PublishExecResult(b, n, ok) BY <1>1, <1>8, <2>1, <2>2 DEF CoreRecoveryBridge
  <2>6. BusStep BY <1>1, <1>2, <1>5, <1>6, <2>4, <2>5, Answering DEF Internal
  <2> QED BY <1>4, <2>6 DEF HandlerStep
<1>9. CASE ~CoreRecoveryBridge(ok)
  <2>1. \E r \in BOOLEAN : bus' = PublishExecResult(Take("core"), n, r)
    BY <1>1, <1>9 DEF CoreRecoveryReset, CoreRecoveryRestart, CoreRecoveryUnknown
  <2>2. BusStep BY <1>1, <1>2, <1>5, <1>6, <1>7, <2>1, Answering DEF Internal
  <2> QED BY <1>4, <2>2 DEF HandlerStep
<1> QED BY <1>8, <1>9

LEMMA CoreModeBus ==
    ASSUME BusInv, CoreMode
    PROVE  HandlerStep
<1>1. PICK c, n : c = Msg("core") /\ n = Num("core") OBVIOUS
<1>2. "core" \in Apps /\ Handles("core", "MODE") BY DEF Apps, CoreMode
<1>3. c.cls = "MODE" /\ commands[n] = c
  BY <1>1, <1>2, HeadMessage DEF BusInv, Internal
<1>4. UNCHANGED <<commands, uplink>> BY DEF CoreMode, CoreOnly, Stay
<1>5. AnswersTo("core", c) BY <1>3 DEF AnswersTo
<1>6. Taken("core", Take("core")) BY <1>2 DEF Taken, Handles
<1>7. PICK ok \in BOOLEAN :
        /\ bus' = PublishExecResult(Take("core"), n, ok)
        /\ core' = IF ok THEN [core EXCEPT !.mode = c.state] ELSE core
  BY <1>1 DEF CoreMode, AnswerMode
<1>8. ok => Done(n)'
  <2> SUFFICES ASSUME ok PROVE Done(n)' OBVIOUS
  <2>1. core'.mode = c.state BY <1>7 DEF BusInv, TypeCore
  <2> QED BY <1>3, <1>4, <2>1 DEF Done
<1>9. BusStep BY <1>1, <1>2, <1>5, <1>6, <1>7, <1>8, Answering DEF Internal
<1> QED BY <1>4, <1>9 DEF HandlerStep

LEMMA CoreViewpointBus ==
    ASSUME BusInv, CoreViewpoint
    PROVE  HandlerStep
<1>1. PICK n : n = Num("core") OBVIOUS
<1>2. "core" \in Apps /\ Handles("core", "VIEWPOINT") BY DEF Apps, CoreViewpoint
<1>3. UNCHANGED <<commands, uplink>> BY DEF CoreViewpoint, CoreOnly, Stay
<1>4. AnswersTo("core", Msg("core"))
  BY <1>2, HeadMessage DEF BusInv, Internal, AnswersTo
<1>5. Taken("core", Take("core")) BY <1>2 DEF Taken, Handles
<1>6. bus' = PublishExecResult(Take("core"), n, FALSE) BY <1>1 DEF CoreViewpoint
<1>7. BusStep BY <1>1, <1>2, <1>4, <1>5, <1>6, Answering DEF Internal
<1> QED BY <1>3, <1>7 DEF HandlerStep

LEMMA BridgeFlightModeBus ==
    ASSUME BusInv, NEW k \in 0..2, BridgeFlightMode(k)
    PROVE  HandlerStep
<1>1. PICK c, n : c = Msg("bridge") /\ n = Num("bridge") OBVIOUS
<1>2. "bridge" \in Apps /\ Handles("bridge", "FLIGHT_MODE") BY DEF Apps, BridgeFlightMode
<1>3. c.cls = "FLIGHT_MODE" /\ commands[n] = c
  BY <1>1, <1>2, HeadMessage DEF BusInv, Internal
<1>4. UNCHANGED <<commands, uplink>> BY DEF BridgeFlightMode
<1>5. AnswersTo("bridge", c) BY <1>3 DEF AnswersTo
<1>6. Taken("bridge", Take("bridge")) BY <1>2 DEF Taken, Handles
<1>7. PICK ok : ok = (k = Len(Frames(c))) OBVIOUS
<1>8. ok \in BOOLEAN /\ bus' = PublishExecResult(Take("bridge"), n, ok)
  BY <1>1, <1>7 DEF BridgeFlightMode
<1>9. ok => Done(n)'
  <2> SUFFICES ASSUME ok PROVE Done(n)' OBVIOUS
  <2>1. wrote' = wrote \cup {<<n, Frames(c)[i]>> : i \in 1..k}
    BY <1>1 DEF BridgeFlightMode
  <2>2. \A i \in 1..Len(Frames(c)) : <<n, Frames(c)[i]>> \in wrote'
    BY <1>7, <2>1
  <2>3. commands'[n] = c BY <1>3, <1>4
  <2> QED BY <1>3, <2>2, <2>3 DEF Done
<1>10. BusStep BY <1>1, <1>2, <1>5, <1>6, <1>8, <1>9, Answering DEF Internal
<1> QED BY <1>4, <1>10 DEF HandlerStep

\* Messages that are not answered.
LEMMA CoreSilentBus ==
    ASSUME CoreDiagnostic \/ CoreRouteUpdate \/ CoreReadback \/ HandleQuietly("core")
    PROVE  HandlerStep
<1>1. "core" \in Apps /\ "lora" \in Apps BY DEF Apps
<1>2. UNCHANGED <<commands, uplink>>
  BY DEF CoreDiagnostic, CoreRouteUpdate, CoreReadback, HandleQuietly, CoreOnly, Stay
<1>3. CASE CoreDiagnostic
  <2>1. PICK m : m = [num |-> 0, body |-> [cls |-> "ROUTE_SNAPSHOT", route |-> core.route]]
    OBVIOUS
  <2>2. m.num = 0 /\ m.body.cls \in Internal BY <2>1 DEF Internal
  <2>3. Handles("core", "DIAGNOSTIC") BY <1>3 DEF CoreDiagnostic
  <2>4. bus' = Take("core") \/ bus' = Transmit(Take("core"), {"lora"}, m)
    BY <1>3, <2>1 DEF CoreDiagnostic
  <2>5. BusStep BY <1>1, <2>2, <2>3, <2>4, Silent, HandsOn
  <2> QED BY <1>2, <2>5 DEF HandlerStep
<1>4. CASE CoreRouteUpdate \/ CoreReadback \/ HandleQuietly("core")
  <2>1. bus' = Take("core") BY <1>4 DEF CoreRouteUpdate, CoreReadback, HandleQuietly
  <2>2. \E cls \in {"ROUTE_UPDATE", "READBACK", "COUNTER_MGMT"} : Handles("core", cls)
    BY <1>4 DEF CoreRouteUpdate, CoreReadback, HandleQuietly
  <2>3. BusStep BY <1>1, <2>1, <2>2, Silent
  <2> QED BY <1>2, <2>3 DEF HandlerStep
<1> QED BY <1>3, <1>4

LEMMA BridgeSilentBus ==
    ASSUME NEW current \in BOOLEAN, BridgeRouteUpdate(current) \/ HandleQuietly("bridge")
    PROVE  HandlerStep
<1>1. "core" \in Apps /\ "bridge" \in Apps BY DEF Apps
<1>2. UNCHANGED <<commands, uplink>>
  BY DEF BridgeRouteUpdate, HandleQuietly, CoreOnly, Stay
<1>3. CASE BridgeRouteUpdate(current)
  <2>1. bus' = Take("bridge") /\ Handles("bridge", "ROUTE_UPDATE")
    BY <1>3 DEF BridgeRouteUpdate
  <2>2. BusStep BY <1>1, <2>1, Silent
  <2> QED BY <1>2, <2>2 DEF HandlerStep
<1>4. CASE HandleQuietly("bridge")
  <2>1. bus' = Take("bridge") BY <1>4 DEF HandleQuietly
  <2>2. \E cls \in {"COUNTER_MGMT", "PARSER_RESET", "SERIAL_RECONNECT"} :
          Handles("bridge", cls)
    BY <1>4 DEF HandleQuietly
  <2>3. BusStep BY <1>1, <2>1, <2>2, Silent
  <2> QED BY <1>2, <2>3 DEF HandlerStep
<1> QED BY <1>3, <1>4

LEMMA LoraSilentBus ==
    ASSUME LoraDiagnostic \/ LoraRouteSnapshot \/ HandleQuietly("lora")
    PROVE  HandlerStep
<1>1. "lora" \in Apps BY DEF Apps
<1>2. UNCHANGED <<commands, uplink>>
  BY DEF LoraDiagnostic, LoraRouteSnapshot, HandleQuietly, CoreOnly, Stay
<1>3. bus' = Take("lora") BY DEF LoraDiagnostic, LoraRouteSnapshot, HandleQuietly
<1>4. \E cls \in {"DIAGNOSTIC", "ROUTE_SNAPSHOT", "COUNTER_MGMT"} : Handles("lora", cls)
  BY DEF LoraDiagnostic, LoraRouteSnapshot, HandleQuietly
<1>5. BusStep BY <1>1, <1>3, <1>4, Silent
<1> QED BY <1>2, <1>5 DEF HandlerStep

\* A command comes, and is routed or not.
Accepts ==
    \E c \in Sendable :
        /\ commands' = Append(commands, c)
        /\ LastCommandResult' \in {"REFUSED", "ROUTED"}
        /\ \/ UNCHANGED <<LastAcceptedSequence, bus>>
           \/ /\ Forwards(c) /\ ~LocalReset(c)
              /\ LastAcceptedSequence' = Next1
              /\ bus' = Transmit(bus, Subscribers(c), [num |-> Next1, body |-> c])
        /\ UNCHANGED <<active, file, core, mission, fc, excused>>

LEMMA UplinkBus ==
    ASSUME TypeUplink, UplinkStep
    PROVE  Accepts \/ ProcessExecResult
<1>1. ASSUME NEW script \in Scripts, Sends(script),
             \/ RouteUplink(script[Next1])
             \/ \E pass, sent \in BOOLEAN : RefuseUplink(script[Next1], pass, sent)
      PROVE  Accepts
  <2>1. PICK c : c = script[Next1] OBVIOUS
  <2>2. script \in Seq(Sendable) BY ScriptsAssumption
  <2>3. Next1 \in 1..Len(script) BY <1>1, <2>2 DEF Sends, Next1, TypeUplink
  <2>4. c \in Sendable BY <2>1, <2>2, <2>3
  <2>5. Received(c) BY <1>1, <2>1 DEF RouteUplink, RefuseUplink
  <2>6. CASE RouteUplink(c)
    BY <2>4, <2>5, <2>6 DEF Accepts, RouteUplink, Received, config, bridge
  <2>7. CASE \E pass, sent \in BOOLEAN : RefuseUplink(c, pass, sent)
    BY <2>4, <2>5, <2>7 DEF Accepts, RefuseUplink, Received, config, bridge
  <2> QED BY <1>1, <2>1, <2>6, <2>7
<1> QED BY <1>1 DEF UplinkStep

\* Every step is one of these.
LEMMA NextBus ==
    ASSUME BusInv, [Next]_vars
    PROVE  \/ Accepts
           \/ ProcessExecResult
           \/ RestartUplink
           \/ HandlerStep
<1>1. CASE UplinkStep BY <1>1, UplinkBus DEF BusInv
<1>2. CASE CoreStep
  BY <1>2, CoreConfigBus, CoreRecoveryBus, CoreModeBus, CoreViewpointBus, CoreSilentBus
     DEF CoreStep
<1>3. CASE BridgeStep
  BY <1>3, BridgeConfigBus, BridgeFlightModeBus, BridgeSilentBus DEF BridgeStep
<1>4. CASE LoraStep
  BY <1>4, LoraConfigBus, LoraSilentBus DEF LoraStep
<1>5. CASE MissionStep
  <2>1. PICK m : m = [num |-> 0, body |-> [cls |-> "READBACK", route |-> fc.mission]]
    OBVIOUS
  <2>2. m.num = 0 /\ m.body.cls \in Internal BY <2>1 DEF Internal
  <2>3. bus' = bus \/ bus' = Transmit(bus, {"core"}, m)
    BY <1>5, <2>1 DEF MissionStep, UploadEnds, FcHeard, LinkUp, LinkLost, FcMission,
       UploadSucceeds, UploadFails, ReadbackDone, ReadbackTimeout, RetryReadback
  <2>4. BusStep BY <2>2, <2>3 DEF BusStep, Apps
  <2> QED BY <1>5, <2>4, MissionAside DEF Aside, HandlerStep
<1>6. CASE StreamTimer \/ StreamStep \/ FcReboot
  BY <1>6
     DEF StreamTimer, StreamStep, RequestTelemetryStreams, FcReboot, HandlerStep, BusStep
<1>7. CASE RestartCore \/ RestartBridge \/ RestartLora
  <2>1. \E p \in Pipes : bus' = Emptied(p)
    BY <1>7 DEF RestartCore, RestartBridge, RestartLora, Pipes, Apps
  <2> QED BY <1>7, <2>1 DEF RestartCore, RestartBridge, RestartLora, HandlerStep, BusStep
<1>8. CASE \/ \E a \in Apps : DamageFile(a)
           \/ \E v \in {0, 1}, saved \in BOOLEAN : SetDownlinkProtocol(v, saved)
  BY <1>8 DEF DamageFile, SetDownlinkProtocol, Stay, HandlerStep, BusStep
<1>9. CASE UNCHANGED vars BY <1>9 DEF vars, HandlerStep, BusStep
<1> QED BY <1>1, <1>2, <1>3, <1>4, <1>5, <1>6, <1>7, <1>8, <1>9 DEF Next, Restart

LEMMA NextMail ==
    ASSUME BusInv, [Next]_vars
    PROVE  Mail(bus)'
<1>1. CASE Accepts
  BY <1>1, RefusedMail, AcceptMail DEF Accepts, BusInv
<1>2. CASE ProcessExecResult
  BY <1>2, BusStepMail DEF ProcessExecResult, Kept, BusStep, BusInv
<1>3. CASE RestartUplink
  <2>1. BusStep BY <1>3 DEF RestartUplink, BusStep, Pipes
  <2> QED BY <1>3, <2>1, BusStepMail DEF RestartUplink, Kept, BusInv
<1>4. CASE HandlerStep
  BY <1>4, BusStepMail DEF HandlerStep, uplink, Kept, BusInv
<1> QED BY <1>1, <1>2, <1>3, <1>4, NextBus

LEMMA InitMail == Init => Mail(bus)
<1> SUFFICES ASSUME Init PROVE Mail(bus) OBVIOUS
<1>1. /\ bus = [queue |-> bus.queue, lost |-> bus.lost, answered |-> bus.answered]
      /\ bus.queue = [p \in Pipes |-> << >>]
      /\ bus.answered = [n \in 1..MaxCommands |-> 0]
  BY DEF Init, EmptyBus
<1>2. BusShape(bus) BY <1>1, QueueEmpty DEF BusShape
<1>3. \A p \in Pipes : Len(bus.queue[p]) = 0 BY <1>1, QueueEmpty
<1>4. Apps \subseteq Pipes /\ "uplink" \in Pipes BY DEF Pipes, Apps
<1> QED BY <1>1, <1>2, <1>3, <1>4 DEF Mail, AppQueue, AnswersGone, UplinkQueue

\* No command is answered twice, for any number of commands and any depth of
\* the pipes.
THEOREM AnswersOnce == Spec => []AnsweredOnce
<1> DEFINE Inv == TypeInv /\ Mail(bus)
<1>1. Init => Inv BY InitType, InitMail
<1>2. Inv /\ [Next]_vars => Inv'
  <2> SUFFICES ASSUME Inv, [Next]_vars PROVE Inv' OBVIOUS
  <2>1. BusInv BY DEF BusInv, TypeInv
  <2>2. Mail(bus)' BY <2>1, NextMail
  <2> QED BY <2>2, NextType
<1>3. Inv => AnsweredOnce
  <2> SUFFICES ASSUME Mail(bus), NEW n \in 1..MaxCommands PROVE bus.answered[n] =< 1
    BY DEF AnsweredOnce
  <2>1. bus.answered \in [1..MaxCommands -> Nat] BY DEF Mail, BusShape
  <2>2. bus.answered[n] \in Nat BY <2>1
  <2>3. bus.answered[n] > 0 => bus.answered[n] = 1 BY DEF Mail, AnswersGone
  <2> QED BY <2>2, <2>3
<1> QED BY <1>1, <1>2, <1>3, PTL DEF Spec

------------------------------------------------------------------------------
(* What was carried out stays so *)

\* A restart loads what is in use, except where a save failed, a file was
\* damaged or a parameter was set behind the ground's back.
SavedInv == \A a \in Apps : a \in excused \/ LoadState(a) = active[a]

\* Excuses are not taken back, but for those that a readback makes void.
LEMMA ExcusedGrows ==
    ASSUME [Next]_vars, NEW x \in excused, x # "route", x = "upload" => ~ReadbackDone
    PROVE  x \in excused'
<1>1. CASE UplinkStep
  BY <1>1 DEF UplinkStep, RouteUplink, RefuseUplink, Received, ProcessExecResult
<1>2. CASE CoreStep
  BY <1>2 DEF CoreStep, CoreConfig, CoreRecoveryReset, CoreRecoveryRestart,
     CoreRecoveryBridge, CoreRecoveryUnknown, CoreViewpoint, CoreMode, CoreDiagnostic,
     CoreRouteUpdate, CoreReadback, HandleQuietly, CoreOnly, Activate, RejectConfig,
     SaveState, NoSave
<1>3. CASE BridgeStep
  BY <1>3 DEF BridgeStep, BridgeConfig, BridgeRouteUpdate, BridgeFlightMode,
     HandleQuietly, CoreOnly, Activate, RejectConfig, SaveState, NoSave
<1>4. CASE LoraStep
  BY <1>4 DEF LoraStep, LoraConfig, LoraDiagnostic, LoraRouteSnapshot,
     HandleQuietly, CoreOnly, SaveState, NoSave
<1>5. CASE StreamTimer \/ StreamStep \/ FcReboot
  BY <1>5 DEF StreamTimer, StreamStep, RequestTelemetryStreams, FcReboot
<1>m. CASE MissionStep
  BY <1>m DEF MissionStep, UploadEnds, FcHeard, LinkUp, LinkLost, FcMission,
     UploadSucceeds, UploadFails, ReadbackDone, ReadbackTimeout, RetryReadback
<1>6. CASE Restart
  BY <1>6 DEF Restart, RestartUplink, RestartCore, RestartBridge, RestartLora
<1>7. CASE \/ \E a \in Apps : DamageFile(a)
           \/ \E v \in {0, 1}, saved \in BOOLEAN : SetDownlinkProtocol(v, saved)
  BY <1>7 DEF DamageFile, SetDownlinkProtocol
<1>8. CASE UNCHANGED vars BY <1>8 DEF vars
<1> QED BY <1>1, <1>2, <1>3, <1>4, <1>5, <1>m, <1>6, <1>7, <1>8 DEF Next

\* What a step may do to the configuration of an app that is not excused.
ConfigStep(a) ==
    \/ active'[a] = active[a] /\ file'[a] = file[a]
    \/ file'[a] = active'[a] /\ (Handles(a, "CONFIG") \/ active'[a] = active[a])
    \/ active'[a] = LoadState(a) /\ file'[a] = file[a]
    \/ a \in excused'

LEMMA SaveStep ==
    ASSUME ConfigInv, NEW d \in Apps, NEW saved, SaveState(d, saved),
           active' = [active EXCEPT ![d] = active'[d]],
           Handles(d, "CONFIG") \/ active'[d] = active[d],
           NEW a \in Apps
    PROVE  ConfigStep(a)
<1>1. CASE a = d BY <1>1 DEF SaveState, ConfigStep, ConfigInv
<1>2. CASE a # d BY <1>2 DEF SaveState, ConfigStep, ConfigInv
<1> QED BY <1>1, <1>2

LEMMA NextConfig ==
    ASSUME ConfigInv, [Next]_vars, NEW a \in Apps
    PROVE  ConfigStep(a)
<1>u. UNCHANGED <<active, file>> => ConfigStep(a) BY DEF ConfigStep
<1>a. "core" \in Apps /\ "bridge" \in Apps /\ "lora" \in Apps BY DEF Apps
<1>1. CASE UplinkStep
  BY <1>u, <1>1
     DEF UplinkStep, RouteUplink, RefuseUplink, Received, ProcessExecResult, config
<1>2. CASE CoreStep
  <2>1. ASSUME NEW saved \in BOOLEAN, CoreConfig(saved) PROVE ConfigStep(a)
    <3>1. CASE CoreConfigResult(Msg("core")) = "OK"
      <4>1. /\ active' = [active EXCEPT !["core"] = Candidate("core", Msg("core"))]
            /\ SaveState("core", saved) /\ Handles("core", "CONFIG")
        BY <2>1, <3>1 DEF CoreConfig, Activate
      <4>2. active' = [active EXCEPT !["core"] = active'["core"]]
        BY <1>a, <4>1 DEF ConfigInv
      <4> QED BY <1>a, <4>1, <4>2, SaveStep
    <3>2. CASE CoreConfigResult(Msg("core")) # "OK"
      BY <1>u, <2>1, <3>2 DEF CoreConfig, RejectConfig, NoSave
    <3> QED BY <3>1, <3>2
  <2>2. ASSUME NEW saved \in BOOLEAN, CoreRecoveryReset(saved) PROVE ConfigStep(a)
    <3>1. active' = active /\ SaveState("core", saved) BY <2>2 DEF CoreRecoveryReset
    <3>2. active' = [active EXCEPT !["core"] = active'["core"]] BY <1>a, <3>1 DEF ConfigInv
    <3> QED BY <1>a, <3>1, <3>2, SaveStep
  <2>3. ASSUME NEW ok \in BOOLEAN, CoreRecoveryRestart(ok) \/ CoreRecoveryBridge(ok)
        PROVE  ConfigStep(a)
    BY <1>u, <2>3 DEF CoreRecoveryRestart, CoreRecoveryBridge, config
  <2>4. ASSUME \/ CoreRecoveryUnknown \/ CoreViewpoint \/ CoreMode \/ CoreDiagnostic
               \/ CoreRouteUpdate \/ CoreReadback \/ HandleQuietly("core")
        PROVE  ConfigStep(a)
    BY <1>u, <2>4 DEF CoreRecoveryUnknown, CoreViewpoint, CoreMode, CoreDiagnostic,
       CoreRouteUpdate, CoreReadback, HandleQuietly, CoreOnly, config
  <2> QED BY <1>2, <2>1, <2>2, <2>3, <2>4 DEF CoreStep
<1>3. CASE BridgeStep
  <2>1. ASSUME NEW saved \in BOOLEAN, BridgeConfig(saved) PROVE ConfigStep(a)
    <3>1. CASE BridgeConfigResult(Msg("bridge")) = "OK"
      <4>1. /\ active' = [active EXCEPT !["bridge"] = Candidate("bridge", Msg("bridge"))]
            /\ SaveState("bridge", saved) /\ Handles("bridge", "CONFIG")
        BY <2>1, <3>1 DEF BridgeConfig, Activate
      <4>2. active' = [active EXCEPT !["bridge"] = active'["bridge"]]
        BY <1>a, <4>1 DEF ConfigInv
      <4> QED BY <1>a, <4>1, <4>2, SaveStep
    <3>2. CASE BridgeConfigResult(Msg("bridge")) # "OK"
      BY <1>u, <2>1, <3>2 DEF BridgeConfig, RejectConfig, NoSave
    <3> QED BY <3>1, <3>2
  <2>2. ASSUME \/ \E current \in BOOLEAN : BridgeRouteUpdate(current)
               \/ \E n \in 0..2 : BridgeFlightMode(n)
               \/ HandleQuietly("bridge")
        PROVE  ConfigStep(a)
    BY <1>u, <2>2 DEF BridgeRouteUpdate, BridgeFlightMode, HandleQuietly, CoreOnly, config
  <2> QED BY <1>3, <2>1, <2>2 DEF BridgeStep
<1>4. CASE LoraStep
  <2>1. ASSUME NEW saved \in BOOLEAN, LoraConfig(saved) PROVE ConfigStep(a)
    <3>1. CASE LoraConfigResult(Msg("lora")) = "OK"
      <4>1. /\ active' = [active EXCEPT !["lora"] = Candidate("lora", Msg("lora"))]
            /\ SaveState("lora", saved) /\ Handles("lora", "CONFIG")
        BY <2>1, <3>1 DEF LoraConfig
      <4>2. active' = [active EXCEPT !["lora"] = active'["lora"]]
        BY <1>a, <4>1 DEF ConfigInv
      <4> QED BY <1>a, <4>1, <4>2, SaveStep
    <3>2. CASE LoraConfigResult(Msg("lora")) # "OK"
      BY <1>u, <2>1, <3>2 DEF LoraConfig, NoSave
    <3> QED BY <3>1, <3>2
  <2>2. ASSUME LoraDiagnostic \/ LoraRouteSnapshot \/ HandleQuietly("lora")
        PROVE  ConfigStep(a)
    BY <1>u, <2>2 DEF LoraDiagnostic, LoraRouteSnapshot, HandleQuietly, CoreOnly, config
  <2> QED BY <1>4, <2>1, <2>2 DEF LoraStep
<1>5. CASE StreamTimer \/ StreamStep \/ FcReboot \/ MissionStep
  BY <1>u, <1>5, MissionAside
     DEF StreamTimer, StreamStep, RequestTelemetryStreams, FcReboot, Aside, config
<1>6. CASE Restart
  <2>1. ASSUME NEW d \in Apps, active' = [active EXCEPT ![d] = LoadState(d)], file' = file
        PROVE  ConfigStep(a)
    <3>1. CASE a = d BY <2>1, <3>1 DEF ConfigStep, ConfigInv
    <3>2. CASE a # d BY <2>1, <3>2 DEF ConfigStep, ConfigInv
    <3> QED BY <3>1, <3>2
  <2>2. CASE RestartUplink BY <1>u, <2>2 DEF RestartUplink, config
  <2>3. CASE RestartCore \/ RestartBridge \/ RestartLora
    BY <1>a, <2>1, <2>3 DEF RestartCore, RestartBridge, RestartLora
  <2> QED BY <1>6, <2>2, <2>3 DEF Restart
<1>7. ASSUME NEW d \in Apps, DamageFile(d) PROVE ConfigStep(a)
  <2>1. CASE a = d BY <1>7, <2>1 DEF DamageFile, ConfigStep
  <2>2. CASE a # d BY <1>7, <2>2 DEF DamageFile, ConfigStep, ConfigInv
  <2> QED BY <2>1, <2>2
<1>8. ASSUME NEW v \in {0, 1}, NEW saved \in BOOLEAN, SetDownlinkProtocol(v, saved)
      PROVE  ConfigStep(a)
  <2>1. CASE a = "lora" BY <1>8, <2>1 DEF SetDownlinkProtocol, ConfigStep
  <2>2. CASE a # "lora"
    BY <1>8, <2>2 DEF SetDownlinkProtocol, ConfigStep, ConfigInv
  <2> QED BY <2>1, <2>2
<1>9. CASE UNCHANGED vars BY <1>u, <1>9 DEF vars, config
<1> QED BY <1>1, <1>2, <1>3, <1>4, <1>5, <1>6, <1>7, <1>8, <1>9 DEF Next

LEMMA NextSaved ==
    ASSUME ConfigInv, SavedInv, [Next]_vars
    PROVE  SavedInv'
<1> SUFFICES ASSUME NEW a \in Apps, a \notin excused'
             PROVE  LoadState(a)' = active'[a]
  BY DEF SavedInv
<1>1. a \notin excused BY ExcusedGrows DEF Apps
<1>2. LoadState(a) = active[a] BY <1>1 DEF SavedInv
<1>3. ConfigStep(a) BY NextConfig
<1>4. active'[a] # NoFile
  <2>1. active'[a] \in [Params[a] -> Nat] BY NextStores, StepConfig DEF ConfigInv, Legal
  <2>2. Params[a] # {}
    BY ParamsOf DEF Apps, CoreParams, BridgeParams, LoraParams
  <2> QED BY <2>1, <2>2 DEF NoFile
<1> QED BY <1>1, <1>2, <1>3, <1>4 DEF ConfigStep, LoadState

\* The mode of cfs_core_app, too, is changed by commands, unless excused.
LEMMA NextMode ==
    ASSUME TypeCore, [Next]_vars
    PROVE  \/ core'.mode = core.mode
           \/ Handles("core", "MODE")
           \/ "mode" \in excused'
<1>u. UNCHANGED core => core'.mode = core.mode OBVIOUS
<1>1. CASE UplinkStep
  BY <1>u, <1>1 DEF UplinkStep, RouteUplink, RefuseUplink, Received, ProcessExecResult
<1>2. CASE CoreStep
  <2>1. CASE CoreViewpoint BY <2>1 DEF CoreViewpoint, TypeCore
  <2>2. CASE CoreMode BY <2>2 DEF CoreMode
  <2>3. CASE CoreRouteUpdate \/ CoreReadback
    BY <2>3 DEF CoreRouteUpdate, CoreReadback, ConfirmRoute, SetRouteCache, TypeCore
  <2> QED BY <1>u, <1>2, <2>1, <2>2, <2>3 DEF CoreStep, CoreConfig, CoreRecoveryReset,
     CoreRecoveryRestart, CoreRecoveryBridge, CoreRecoveryUnknown, CoreDiagnostic,
     HandleQuietly
<1>3. CASE BridgeStep \/ LoraStep
  BY <1>u, <1>3 DEF BridgeStep, BridgeConfig, BridgeRouteUpdate, BridgeFlightMode, LoraStep,
     LoraConfig, LoraDiagnostic, LoraRouteSnapshot, HandleQuietly
<1>4. CASE StreamTimer \/ StreamStep \/ FcReboot \/ MissionStep
  BY <1>u, <1>4, MissionAside
     DEF StreamTimer, StreamStep, RequestTelemetryStreams, FcReboot, Aside
<1>5. CASE Restart
  BY <1>u, <1>5 DEF Restart, RestartUplink, RestartCore, RestartBridge, RestartLora
<1>6. CASE \/ \E a \in Apps : DamageFile(a)
           \/ \E v \in {0, 1}, saved \in BOOLEAN : SetDownlinkProtocol(v, saved)
  BY <1>u, <1>6 DEF DamageFile, SetDownlinkProtocol
<1>7. CASE UNCHANGED vars BY <1>u, <1>7 DEF vars
<1> QED BY <1>1, <1>2, <1>3, <1>4, <1>5, <1>6, <1>7 DEF Next

\* A frame that was written remains so.
LEMMA NextWrote ==
    ASSUME [Next]_vars
    PROVE  wrote \subseteq wrote'
<1>1. CASE UplinkStep
  BY <1>1 DEF UplinkStep, RouteUplink, RefuseUplink, Received, ProcessExecResult
<1>2. CASE CoreStep
  BY <1>2 DEF CoreStep, CoreConfig, CoreRecoveryReset, CoreRecoveryRestart,
     CoreRecoveryBridge, CoreRecoveryUnknown, CoreViewpoint, CoreMode, CoreDiagnostic,
     CoreRouteUpdate, CoreReadback, HandleQuietly, CoreOnly, Stay
<1>3. CASE BridgeStep
  BY <1>3 DEF BridgeStep, BridgeConfig, BridgeFlightMode, BridgeRouteUpdate,
     HandleQuietly, CoreOnly, Stay
<1>4. CASE LoraStep
  BY <1>4 DEF LoraStep, LoraConfig, LoraDiagnostic, LoraRouteSnapshot, HandleQuietly,
     CoreOnly, Stay
<1>5. CASE StreamTimer \/ StreamStep \/ FcReboot \/ MissionStep
  BY <1>5, MissionAside
     DEF StreamTimer, StreamStep, RequestTelemetryStreams, FcReboot, Aside
<1>6. CASE Restart
  BY <1>6 DEF Restart, RestartUplink, RestartCore, RestartBridge, RestartLora
<1>7. CASE \/ \E a \in Apps : DamageFile(a)
           \/ \E v \in {0, 1}, saved \in BOOLEAN : SetDownlinkProtocol(v, saved)
  BY <1>7 DEF DamageFile, SetDownlinkProtocol, Stay
<1>8. CASE UNCHANGED vars BY <1>8 DEF vars
<1> QED BY <1>1, <1>2, <1>3, <1>4, <1>5, <1>6, <1>7, <1>8 DEF Next

\* Once the last command that was accepted is answered, the app that answered
\* it has no command left that could undo it.
LEMMA NothingLeft ==
    ASSUME BusInv, NEW n \in 1..MaxCommands, n = LastAcceptedSequence, bus.answered[n] > 0,
           NEW a \in Apps, AnswersTo(a, commands[n]), NEW cls, cls \notin Internal
    PROVE  ~Handles(a, cls)
<1> SUFFICES ASSUME Handles(a, cls) PROVE FALSE OBVIOUS
<1>1. PICK s : s = bus.queue[a] OBVIOUS
<1>2. IsQueue(s) /\ s # << >> /\ AppQueue(s, a) /\ s[1].body.cls = cls
  <2>1. IsQueue(s) /\ s # << >> /\ AppQueue(s, a)
    BY <1>1 DEF BusInv, Mail, BusShape, Handles, Apps, Pipes
  <2>2. Head(s) = s[1] BY <2>1, QueueTail
  <2> QED BY <1>1, <2>1, <2>2 DEF Handles
<1>3. 1 \in 1..Len(s) BY <1>2, QueueTail
<1>4. s[1].num \in 0..n /\ s[1].num # 0
  BY <1>2, <1>3 DEF AppQueue, Deliverable, BusInv, TypeUplink
<1>5. After(s, n) BY <1>1 DEF BusInv, Mail, AnswersGone
<1> QED BY <1>3, <1>4, <1>5 DEF After

\* What the last accepted command did stays done while it is the last.
LEMMA DoneStays ==
    ASSUME BusInv, SavedInv, [Next]_vars, commands'[LastAcceptedSequence] = commands[LastAcceptedSequence],
           NEW n \in 1..MaxCommands, n = LastAcceptedSequence, bus.answered[n] > 0,
           Done(n)
    PROVE  Done(n)'
<1>1. PICK c : c = commands[n] OBVIOUS
<1>2. commands'[n] = c BY <1>1
<1>3. \A a \in Apps : AnswersTo(a, c) =>
        ~Handles(a, "CONFIG") /\ ~Handles(a, "MODE")
  BY <1>1, NothingLeft DEF Internal
<1>4. CASE c.cls = "CONFIG"
  <2>1. PICK a \in Apps : c.scope = Scope[a] /\ (a \in excused \/ active[a][c.param] = c.value)
    BY <1>1, <1>4 DEF Done
  <2>2. ~Handles(a, "CONFIG") BY <1>3, <1>4, <2>1 DEF AnswersTo
  <2>3. a \in excused => a \in excused' BY ExcusedGrows DEF Apps
  <2>4. a \notin excused => LoadState(a) = active[a] BY DEF SavedInv
  <2>5. ConfigStep(a) BY NextConfig DEF BusInv
  <2>6. a \in excused' \/ active'[a] = active[a] BY <2>2, <2>3, <2>4, <2>5 DEF ConfigStep
  <2> QED BY <1>2, <1>4, <2>1, <2>3, <2>6 DEF Done
<1>5. CASE c.cls = "MODE"
  <2>1. ~Handles("core", "MODE") BY <1>3, <1>5 DEF AnswersTo, Apps
  <2>2. core'.mode = core.mode \/ "mode" \in excused' BY <2>1, NextMode DEF BusInv
  <2>3. "mode" \in excused => "mode" \in excused' BY ExcusedGrows
  <2> QED BY <1>1, <1>2, <1>5, <2>2, <2>3 DEF Done
<1>6. CASE c.cls = "FLIGHT_MODE"
  <2>1. \A i \in 1..Len(Frames(c)) : <<n, Frames(c)[i]>> \in wrote'
    BY <1>1, <1>6, NextWrote DEF Done
  <2> QED BY <1>2, <1>6, <2>1 DEF Done
<1>7. CASE c.cls = "RECOVERY" BY <1>2, <1>7 DEF Done
<1>8. CASE c.cls \notin {"CONFIG", "MODE", "FLIGHT_MODE", "RECOVERY"}
  BY <1>1, <1>8 DEF Done
<1> QED BY <1>4, <1>5, <1>6, <1>7, <1>8

------------------------------------------------------------------------------
(* What the ground is shown *)

\* r is an answer that already waited for uplink_app.
Waited(r) == \E j \in 1..Len(bus.queue["uplink"]) : r = bus.queue["uplink"][j]

\* An OK that waits for uplink_app, or is shown, is true of the last accepted
\* command, if it is about that command.
OkInv ==
    /\ LastCommandResult = "EXECUTED_OK" =>
         /\ LastAcceptedSequence \in 1..MaxCommands
         /\ bus.answered[LastAcceptedSequence] > 0
         /\ Done(LastAcceptedSequence)
    /\ \A r : Waited(r) /\ r.ok /\ r.num = LastAcceptedSequence =>
         Done(LastAcceptedSequence)

LEMMA WaitedNum ==
    ASSUME BusInv, NEW r, Waited(r)
    PROVE  /\ r.num \in 1..LastAcceptedSequence /\ r.num \in 1..MaxCommands
           /\ bus.answered[r.num] > 0
<1>1. r.num \in 1..LastAcceptedSequence /\ bus.answered[r.num] > 0
  BY DEF BusInv, Mail, UplinkQueue, Waited
<1>2. r.num \in 1..MaxCommands
  BY <1>1, BoundsAssumption DEF BusInv, TypeUplink
<1> QED BY <1>1, <1>2

\* What waits after a step that accepts no command has waited before, or has
\* just been sent; no answer is forgotten.
LEMMA BusStepUplink ==
    ASSUME BusInv, BusStep, UNCHANGED commands
    PROVE  /\ \A k \in 1..MaxCommands : bus.answered[k] > 0 => bus'.answered[k] > 0
           /\ \A r : Waited(r)' => \/ Waited(r)
                                   \/ r.ok => Done(r.num)'
<1> DEFINE Same == /\ bus'.answered = bus.answered
                   /\ bus'.queue["uplink"] = bus.queue["uplink"]
<1>a. Apps \subseteq Pipes /\ "uplink" \in Pipes /\ "uplink" \notin Apps BY DEF Apps, Pipes
<1>b. BusShape(bus) /\ IsQueue(bus.queue["uplink"])
  BY <1>a DEF BusInv, Mail, BusShape
<1>s. CASE Same BY <1>s DEF Waited
<1>1. CASE bus' = bus BY <1>s, <1>1
<1>2. CASE bus.queue["uplink"] # << >> /\ bus' = Take("uplink")
  <2>1. PICK t : t = bus' OBVIOUS
  <2>2. t.answered = bus.answered /\ t.queue["uplink"] = Tail(bus.queue["uplink"])
    BY <1>2, <1>a, <1>b, <2>1, TakeFields
  <2>3. \A i \in 1..Len(Tail(bus.queue["uplink"])) :
          /\ i + 1 \in 1..Len(bus.queue["uplink"])
          /\ Tail(bus.queue["uplink"])[i] = bus.queue["uplink"][i + 1]
    BY <1>2, <1>b, QueueTail
  <2>4. \A r : Waited(r)' => Waited(r) BY <2>1, <2>2, <2>3 DEF Waited
  <2> QED BY <2>1, <2>2, <2>4
<1>3. ASSUME NEW p \in Pipes, bus' = Emptied(p)
      PROVE  /\ bus'.answered = bus.answered
             /\ \A r : Waited(r)' => Waited(r)
  <2>1. PICK t : t = bus' OBVIOUS
  <2>2. /\ t.answered = bus.answered
        /\ t.queue["uplink"] = << >> \/ t.queue["uplink"] = bus.queue["uplink"]
    BY <1>3, <1>a, <1>b, <2>1, EmptiedFields
  <2>3. CASE t.queue["uplink"] = << >> BY <2>1, <2>2, <2>3, QueueEmpty DEF Waited
  <2>4. CASE t.queue["uplink"] = bus.queue["uplink"] BY <2>1, <2>2, <2>4 DEF Waited
  <2> QED BY <2>2, <2>3, <2>4
<1>4. ASSUME NEW d \in Apps, NEW m, bus' = Transmit(bus, {d}, m) PROVE Same
  <2>1. PICK t : t = bus' OBVIOUS
  <2>2. t.answered = bus.answered BY <1>4, <1>b, <2>1, TransmitFields
  <2>3. "uplink" \notin {d} BY <1>a
  <2>4. t.queue["uplink"] = bus.queue["uplink"]
    BY <1>4, <1>a, <1>b, <2>1, <2>3, TransmitQueue
  <2> QED BY <2>1, <2>2, <2>4
<1>5. ASSUME NEW a \in Apps, Taken(a, bus') PROVE Same
  <2>1. PICK t : t = bus' OBVIOUS
  <2>2. Taken(a, t) BY <1>5, <2>1
  <2>3. t.answered = bus.answered /\ t.queue["uplink"] = bus.queue["uplink"]
    BY <2>2, TakenMail DEF BusInv
  <2> QED BY <2>1, <2>3
<1>6. CASE AnswerStep
  <2>1. PICK a \in Apps, n \in 1..MaxCommands, ok \in BOOLEAN : \E b :
          /\ Taken(a, b)
          /\ n =< LastAcceptedSequence /\ After(Take(a).queue[a], n)
          /\ AnswersTo(a, commands[n]) /\ bus.answered[n] = 0
          /\ bus' = PublishExecResult(b, n, ok)
          /\ ok => Done(n)'
    BY <1>6 DEF AnswerStep
  <2>2. PICK b : Taken(a, b) /\ bus' = PublishExecResult(b, n, ok) BY <2>1
  <2>3. PICK t : t = bus' OBVIOUS
  <2>4. PICK m : m = [num |-> n, ok |-> ok] OBVIOUS
  <2>5. /\ \/ t.queue["uplink"] = bus.queue["uplink"]
           \/ t.queue["uplink"] = Append(bus.queue["uplink"], m)
        /\ \A k \in 1..MaxCommands : bus.answered[k] > 0 => t.answered[k] > 0
    BY <2>1, <2>2, <2>3, <2>4, AnswerFields DEF BusInv
  <2>6. CASE t.queue["uplink"] = bus.queue["uplink"] BY <2>3, <2>5, <2>6 DEF Waited
  <2>7. CASE t.queue["uplink"] = Append(bus.queue["uplink"], m)
    <3>1. PICK s : s = bus.queue["uplink"] OBVIOUS
    <3>2. /\ Len(s) \in Nat /\ Len(Append(s, m)) = Len(s) + 1
          /\ \A i \in 1..Len(s) : Append(s, m)[i] = s[i]
          /\ Append(s, m)[Len(s) + 1] = m
      BY <1>b, <3>1, QueueAppend
    <3>3. ASSUME NEW r, Waited(r)' PROVE Waited(r) \/ r = m
      <4>1. PICK i \in 1..Len(Append(s, m)) : r = Append(s, m)[i]
        BY <2>3, <2>7, <3>1, <3>3 DEF Waited
      <4>2. i \in 1..Len(s) \/ i = Len(s) + 1 BY <3>2
      <4> QED BY <3>1, <3>2, <4>1, <4>2 DEF Waited
    <3>4. ok => Done(n)' BY <2>1
    <3>5. m.num = n /\ (m.ok <=> ok) BY <2>4
    <3> QED BY <2>3, <2>5, <3>3, <3>4, <3>5
  <2> QED BY <2>5, <2>6, <2>7
<1> QED BY <1>s, <1>1, <1>2, <1>3, <1>4, <1>5, <1>6 DEF BusStep

LEMMA NextOk ==
    ASSUME BusInv, SavedInv, OkInv, [Next]_vars
    PROVE  OkInv'
<1> DEFINE n == LastAcceptedSequence
<1>a. n \in Nat /\ n =< MaxCommands /\ MaxCommands \in Nat
  BY BoundsAssumption DEF BusInv, TypeUplink
<1>1. CASE Accepts
  <2>1. PICK c \in Sendable :
          /\ commands' = Append(commands, c)
          /\ LastCommandResult' \in {"REFUSED", "ROUTED"}
          /\ \/ UNCHANGED <<LastAcceptedSequence, bus>>
             \/ /\ Forwards(c) /\ ~LocalReset(c)
                /\ LastAcceptedSequence' = Next1
                /\ bus' = Transmit(bus, Subscribers(c), [num |-> Next1, body |-> c])
    BY <1>1 DEF Accepts
  <2>2. LastCommandResult' # "EXECUTED_OK" BY <2>1
  <2>3. CASE UNCHANGED <<LastAcceptedSequence, bus>>
    <3>1. ASSUME NEW r, Waited(r)', r.ok, r.num = n' PROVE Done(n)'
      <4>1. Waited(r) /\ r.num = n BY <2>3, <3>1 DEF Waited
      <4>2. PICK k : k = n OBVIOUS
      <4>3. k \in 1..LastAcceptedSequence /\ k \in 1..MaxCommands /\ bus.answered[k] > 0
        BY <4>1, <4>2, WaitedNum
      <4>4. commands'[k] = commands[k] BY <2>1, <2>3, <4>3, Grow DEF BusInv
      <4>5. Done(k) BY <3>1, <4>1, <4>2 DEF OkInv
      <4>6. Done(k)' BY <4>2, <4>3, <4>4, <4>5, DoneStays
      <4> QED BY <2>3, <4>2, <4>6
    <3> QED BY <2>2, <3>1 DEF OkInv
  <2>4. CASE /\ Forwards(c) /\ ~LocalReset(c)
             /\ LastAcceptedSequence' = Next1
             /\ bus' = Transmit(bus, Subscribers(c), [num |-> Next1, body |-> c])
    <3>1. PICK m : m = [num |-> Next1, body |-> c] OBVIOUS
    <3>2. PICK t : t = bus' OBVIOUS
    <3>3. BusShape(bus) /\ "uplink" \in Pipes /\ "uplink" \notin Subscribers(c)
      BY <2>4, SubscribersApps DEF BusInv, Mail, Pipes, Apps
    <3>4. t.queue["uplink"] = bus.queue["uplink"]
      BY <2>4, <3>1, <3>2, <3>3, TransmitQueue
    <3>5. ASSUME NEW r, Waited(r)' PROVE r.num # n'
      <4>1. Waited(r) BY <3>2, <3>4, <3>5 DEF Waited
      <4>2. r.num \in 1..n BY <4>1, WaitedNum
      <4>3. n < Next1 /\ n \in Nat /\ Next1 \in Nat BY <2>1, <2>4, Grow DEF BusInv
      <4> QED BY <2>4, <4>2, <4>3
    <3> QED BY <2>2, <3>5 DEF OkInv
  <2> QED BY <2>1, <2>3, <2>4
<1>2. CASE ~Accepts
  <2>1. /\ UNCHANGED <<commands, LastAcceptedSequence>>
        /\ BusStep
        /\ \/ LastCommandResult' = LastCommandResult
           \/ LastCommandResult' = "EXECUTED_OK" =>
                \E r : Waited(r) /\ r.ok /\ r.num = n
    <3>1. CASE ProcessExecResult
      <4>1. BusStep BY <3>1 DEF ProcessExecResult, BusStep
      <4>2. PICK s : s = bus.queue["uplink"] OBVIOUS
      <4>3. IsQueue(s) /\ s # << >>
        BY <3>1, <4>2 DEF BusInv, Mail, BusShape, Pipes, ProcessExecResult
      <4>4. Waited(Head(s)) BY <4>2, <4>3, QueueTail DEF Waited
      <4>5. \/ LastCommandResult' = LastCommandResult
            \/ LastCommandResult' = "EXECUTED_OK" => Head(s).ok /\ Head(s).num = n
        BY <3>1, <4>2 DEF ProcessExecResult, Correlates
      <4> QED BY <3>1, <4>1, <4>4, <4>5 DEF ProcessExecResult
    <3>2. CASE RestartUplink
      BY <3>2 DEF RestartUplink, BusStep, Pipes
    <3>3. CASE HandlerStep BY <3>3 DEF HandlerStep, uplink
    <3> QED BY <1>2, <3>1, <3>2, <3>3, NextBus
  <2>2. /\ \A k \in 1..MaxCommands : bus.answered[k] > 0 => bus'.answered[k] > 0
        /\ \A r : Waited(r)' => \/ Waited(r)
                                \/ r.ok => Done(r.num)'
    BY <2>1, BusStepUplink
  <2>3. PICK k : k = n OBVIOUS
  <2>4. k = LastAcceptedSequence' /\ commands'[k] = commands[k] BY <2>1, <2>3
  <2>5. ASSUME k \in 1..MaxCommands, bus.answered[k] > 0, Done(k)
        PROVE  Done(k)'
    BY <2>3, <2>4, <2>5, DoneStays
  <2>6. ASSUME NEW r, Waited(r), r.ok, r.num = k
        PROVE  k \in 1..MaxCommands /\ bus.answered[k] > 0 /\ Done(k)'
    <3>1. k \in 1..MaxCommands /\ bus.answered[k] > 0 BY <2>6, WaitedNum
    <3>2. Done(k) BY <2>3, <2>6 DEF OkInv
    <3> QED BY <2>5, <3>1, <3>2
  <2>7. ASSUME NEW r, Waited(r)', r.ok, r.num = k PROVE Done(k)'
    <3>1. CASE Waited(r) BY <2>6, <2>7, <3>1
    <3>2. CASE r.ok => Done(r.num)' BY <2>7, <3>2
    <3> QED BY <2>2, <2>7, <3>1, <3>2
  <2>8. ASSUME LastCommandResult' = "EXECUTED_OK"
        PROVE  k \in 1..MaxCommands /\ bus.answered[k] > 0 /\ Done(k)'
    <3>1. CASE LastCommandResult' = LastCommandResult
      <4>1. k \in 1..MaxCommands /\ bus.answered[k] > 0 /\ Done(k)
        BY <2>3, <2>8, <3>1 DEF OkInv
      <4> QED BY <2>5, <4>1
    <3>2. CASE LastCommandResult' # LastCommandResult BY <2>1, <2>3, <2>6, <2>8, <3>2
    <3> QED BY <3>1, <3>2
  <2>9. LastCommandResult' = "EXECUTED_OK" =>
          k \in 1..MaxCommands /\ bus'.answered[k] > 0 /\ Done(k)'
    BY <2>2, <2>8
  <2> QED BY <2>4, <2>7, <2>9 DEF OkInv
<1> QED BY <1>1, <1>2

LEMMA InitOk == Init => SavedInv /\ OkInv
<1> SUFFICES ASSUME Init PROVE SavedInv /\ OkInv OBVIOUS
<1>1. SavedInv BY DEF Init, SavedInv, LoadState
<1>2. Len(bus.queue["uplink"]) = 0 BY QueueEmpty DEF Init, EmptyBus, Pipes
<1>3. LastCommandResult # "EXECUTED_OK" BY DEF Init
<1> QED BY <1>1, <1>2, <1>3 DEF OkInv, Waited

\* EXECUTED_OK is true when it is shown, and as long as it is shown; of
\* FLIGHT_MODE it only says that all frames were transmitted.
THEOREM OkTrue == Spec => []OkMeansDone
<1> DEFINE Inv == TypeInv /\ Mail(bus) /\ SavedInv /\ OkInv
<1>1. Init => Inv BY InitType, InitMail, InitOk
<1>2. Inv /\ [Next]_vars => Inv'
  <2> SUFFICES ASSUME Inv, [Next]_vars PROVE Inv' OBVIOUS
  <2>1. BusInv BY DEF BusInv, TypeInv
  <2>2. Mail(bus)' /\ OkInv' BY <2>1, NextMail, NextOk
  <2>3. SavedInv' BY NextSaved DEF TypeInv
  <2> QED BY <2>2, <2>3, NextType
<1>3. Inv => OkMeansDone BY DEF OkInv, OkMeansDone
<1> QED BY <1>1, <1>2, <1>3, PTL DEF Spec

------------------------------------------------------------------------------
(* The route that cfs_core_app holds *)

\* The messages that set the route of cfs_core_app.
Replaces(m) == m.body.cls = "ROUTE_UPDATE" /\ m.body.op = "REPLACE"
Setter(m) == m.body.cls = "READBACK" \/ Replaces(m)

NoSetter(s) == \A i \in 1..Len(s) : ~Setter(s[i])
LastSetter(s, route) ==
    \E i \in 1..Len(s) : /\ Setter(s[i]) /\ s[i].body.route = route
                         /\ \A j \in 1..Len(s) : j > i => ~Setter(s[j])

NoReplace(b) ==
    \A i \in 1..Len(b.queue["bridge"]) : ~Replaces(b.queue["bridge"][i])

\* When the bridge has settled and no REPLACE waits for it, the last route on
\* its way to cfs_core_app, or the one that it holds when there is none, is the
\* FC's.
CacheInv ==
    ~bus.lost /\ Settled /\ NoReplace(bus) =>
        \/ LastSetter(bus.queue["core"], fc.mission)
        \/ NoSetter(bus.queue["core"]) /\ ("route" \in excused \/ core.route = fc.mission)

\* s and t are the same as far as the route is concerned.
Calm(s, t) ==
    /\ NoSetter(s) => NoSetter(t)
    /\ \A route : LastSetter(s, route) => LastSetter(t, route)

Calmer(b, t) ==
    ~t.lost => /\ ~b.lost
               /\ NoReplace(t) => NoReplace(b)
               /\ Calm(b.queue["core"], t.queue["core"])

LEMMA CalmTail ==
    ASSUME NEW s, IsQueue(s), s # << >>, ~Setter(s[1])
    PROVE  Calm(s, Tail(s))
<1>1. /\ Len(s) \in Nat /\ Len(s) > 0 /\ Len(Tail(s)) = Len(s) - 1
      /\ \A i \in 1..Len(Tail(s)) : i + 1 \in 1..Len(s) /\ Tail(s)[i] = s[i + 1]
  BY QueueTail
<1>2. ASSUME NEW route, LastSetter(s, route) PROVE LastSetter(Tail(s), route)
  <2>1. PICK i \in 1..Len(s) : /\ Setter(s[i]) /\ s[i].body.route = route
                               /\ \A j \in 1..Len(s) : j > i => ~Setter(s[j])
    BY <1>2 DEF LastSetter
  <2>2. i # 1 BY <2>1
  <2>3. PICK k : k = i - 1 OBVIOUS
  <2>4. k \in 1..Len(Tail(s)) /\ k + 1 = i BY <1>1, <2>2, <2>3
  <2>5. Tail(s)[k] = s[i] BY <1>1, <2>4
  <2>6. ASSUME NEW j \in 1..Len(Tail(s)), j > k PROVE ~Setter(Tail(s)[j])
    <3>1. j + 1 \in 1..Len(s) /\ j + 1 > i /\ Tail(s)[j] = s[j + 1] BY <1>1, <2>4, <2>6
    <3> QED BY <2>1, <3>1
  <2> QED BY <2>1, <2>4, <2>5, <2>6 DEF LastSetter
<1>3. NoSetter(s) => NoSetter(Tail(s)) BY <1>1 DEF NoSetter
<1> QED BY <1>2, <1>3 DEF Calm

\* A route that was taken is the last one, or a later one is on its way.
LEMMA SetterTail ==
    ASSUME NEW s, IsQueue(s), s # << >>, NEW route, LastSetter(s, route)
    PROVE  \/ LastSetter(Tail(s), route)
           \/ NoSetter(Tail(s)) /\ Setter(s[1]) /\ s[1].body.route = route
<1>1. /\ Len(s) \in Nat /\ Len(s) > 0 /\ Len(Tail(s)) = Len(s) - 1
      /\ \A i \in 1..Len(Tail(s)) : i + 1 \in 1..Len(s) /\ Tail(s)[i] = s[i + 1]
  BY QueueTail
<1>2. PICK i \in 1..Len(s) : /\ Setter(s[i]) /\ s[i].body.route = route
                             /\ \A j \in 1..Len(s) : j > i => ~Setter(s[j])
  BY DEF LastSetter
<1>3. CASE i = 1
  <2>1. ASSUME NEW j \in 1..Len(Tail(s)) PROVE ~Setter(Tail(s)[j])
    <3>1. j + 1 \in 1..Len(s) /\ j + 1 > i /\ Tail(s)[j] = s[j + 1] BY <1>1, <1>3
    <3> QED BY <1>2, <3>1
  <2> QED BY <1>2, <1>3, <2>1 DEF NoSetter
<1>4. CASE i # 1
  <2>1. PICK k : k = i - 1 OBVIOUS
  <2>2. k \in 1..Len(Tail(s)) /\ k + 1 = i BY <1>1, <1>4, <2>1
  <2>3. Tail(s)[k] = s[i] BY <1>1, <2>2
  <2>4. ASSUME NEW j \in 1..Len(Tail(s)), j > k PROVE ~Setter(Tail(s)[j])
    <3>1. j + 1 \in 1..Len(s) /\ j + 1 > i /\ Tail(s)[j] = s[j + 1] BY <1>1, <2>2, <2>4
    <3> QED BY <1>2, <3>1
  <2> QED BY <1>2, <2>2, <2>3, <2>4 DEF LastSetter
<1> QED BY <1>3, <1>4

LEMMA CalmAppend ==
    ASSUME NEW s, IsQueue(s), NEW m
    PROVE  /\ ~Setter(m) => Calm(s, Append(s, m))
           /\ Setter(m) => LastSetter(Append(s, m), m.body.route)
<1>1. PICK t : t = Append(s, m) OBVIOUS
<1>2. /\ Len(s) \in Nat /\ Len(t) = Len(s) + 1
      /\ \A i \in 1..Len(s) : t[i] = s[i]
      /\ t[Len(s) + 1] = m
  BY <1>1, QueueAppend
<1>3. /\ \A i \in 1..Len(t) : i \in 1..Len(s) \/ i = Len(s) + 1
      /\ \A i \in 1..Len(s) : i \in 1..Len(t)
      /\ Len(s) + 1 \in 1..Len(t)
      /\ \A i \in 1..Len(t) : ~(i > Len(s) + 1)
  BY <1>2
<1>4. ASSUME ~Setter(m) PROVE Calm(s, t)
  <2>1. NoSetter(s) => NoSetter(t) BY <1>2, <1>3, <1>4 DEF NoSetter
  <2>2. ASSUME NEW route, LastSetter(s, route) PROVE LastSetter(t, route)
    <3>1. PICK i \in 1..Len(s) : /\ Setter(s[i]) /\ s[i].body.route = route
                                 /\ \A j \in 1..Len(s) : j > i => ~Setter(s[j])
      BY <2>2 DEF LastSetter
    <3>2. \A j \in 1..Len(t) : j > i => ~Setter(t[j]) BY <1>2, <1>3, <1>4, <3>1
    <3> QED BY <1>2, <1>3, <3>1, <3>2 DEF LastSetter
  <2> QED BY <2>1, <2>2 DEF Calm
<1>5. Setter(m) => LastSetter(t, m.body.route) BY <1>2, <1>3 DEF LastSetter
<1> QED BY <1>1, <1>4, <1>5

LEMMA CalmTransmit ==
    ASSUME NEW b, BusShape(b), NEW pipes, pipes \subseteq Pipes, NEW m,
           ~Setter(m) \/ "core" \notin pipes
    PROVE  Calmer(b, Transmit(b, pipes, m))
<1>1. PICK t : t = Transmit(b, pipes, m) OBVIOUS
<1>2. ASSUME ~t.lost PROVE ~b.lost BY <1>1, <1>2, TransmitArrives
<1>3. "core" \in Pipes /\ "bridge" \in Pipes BY DEF Pipes, Apps
<1>4. NoReplace(t) => NoReplace(b)
  <2>1. CASE t.queue["bridge"] = b.queue["bridge"] BY <2>1 DEF NoReplace
  <2>2. CASE t.queue["bridge"] = Append(b.queue["bridge"], m)
    <3>1. IsQueue(b.queue["bridge"]) BY <1>3 DEF BusShape
    <3>2. PICK s : s = b.queue["bridge"] OBVIOUS
    <3>3. \A i \in 1..Len(s) : i \in 1..Len(Append(s, m)) /\ Append(s, m)[i] = s[i]
      BY <3>1, <3>2, QueueAppend
    <3> QED BY <2>2, <3>2, <3>3 DEF NoReplace
  <2> QED BY <1>1, <1>3, <2>1, <2>2, TransmitQueue
<1>5. Calm(b.queue["core"], t.queue["core"])
  <2>1. CASE t.queue["core"] = b.queue["core"] BY <2>1 DEF Calm
  <2>2. CASE ~Setter(m) /\ t.queue["core"] = Append(b.queue["core"], m)
    <3>1. IsQueue(b.queue["core"]) BY <1>3 DEF BusShape
    <3> QED BY <2>2, <3>1, CalmAppend
  <2> QED BY <1>1, <1>3, <2>1, <2>2, TransmitQueue
<1> QED BY <1>1, <1>2, <1>4, <1>5 DEF Calmer

LEMMA CalmTake ==
    ASSUME BusShape(bus), NEW a \in Pipes, bus.queue[a] # << >>,
           a \notin {"core", "bridge"} \/ ~Setter(Head(bus.queue[a]))
    PROVE  Calmer(bus, Take(a))
<1>1. PICK t : t = Take(a) OBVIOUS
<1>2. /\ t.lost = bus.lost
      /\ t.queue[a] = Tail(bus.queue[a])
      /\ \A p \in Pipes \ {a} : t.queue[p] = bus.queue[p]
  BY <1>1, TakeFields
<1>3. "core" \in Pipes /\ "bridge" \in Pipes BY DEF Pipes, Apps
<1>4. PICK s : s = bus.queue[a] OBVIOUS
<1>5. IsQueue(s) /\ s # << >> BY <1>4 DEF BusShape
<1>6. /\ Len(s) \in Nat /\ Len(s) > 0 /\ Len(Tail(s)) = Len(s) - 1
      /\ \A i \in 1..Len(Tail(s)) : i + 1 \in 1..Len(s) /\ Tail(s)[i] = s[i + 1]
      /\ Head(s) = s[1]
  BY <1>5, QueueTail
<1>7. NoReplace(t) => NoReplace(bus)
  <2>1. CASE a # "bridge" BY <1>2, <1>3, <2>1 DEF NoReplace
  <2>2. CASE a = "bridge"
    <3> SUFFICES ASSUME NoReplace(t), NEW i \in 1..Len(s)
                 PROVE  ~Replaces(s[i])
      BY <1>4, <2>2 DEF NoReplace
    <3>1. CASE i = 1 BY <1>4, <1>6, <2>2, <3>1 DEF Setter
    <3>2. CASE i # 1
      <4>1. PICK k : k = i - 1 OBVIOUS
      <4>2. k \in 1..Len(Tail(s)) /\ k + 1 = i BY <1>6, <3>2, <4>1
      <4>3. t.queue["bridge"] = Tail(s) BY <1>2, <1>4, <2>2
      <4> QED BY <1>6, <4>2, <4>3 DEF NoReplace
    <3> QED BY <3>1, <3>2
  <2> QED BY <2>1, <2>2
<1>8. Calm(bus.queue["core"], t.queue["core"])
  <2>1. CASE a # "core" BY <1>2, <1>3, <2>1 DEF Calm
  <2>2. CASE a = "core"
    <3>1. ~Setter(s[1]) BY <1>4, <1>6, <2>2
    <3> QED BY <1>2, <1>4, <1>5, <2>2, <3>1, CalmTail
  <2> QED BY <2>1, <2>2
<1>9. ~t.lost => ~bus.lost BY <1>2
<1> QED BY <1>1, <1>7, <1>8, <1>9 DEF Calmer

LEMMA CalmEmptied ==
    ASSUME BusShape(bus), NEW a \in Pipes
    PROVE  Calmer(bus, Emptied(a))
<1>1. PICK t : t = Emptied(a) OBVIOUS
<1>2. /\ ~t.lost => ~bus.lost /\ bus.queue[a] = << >>
      /\ t.queue[a] = << >>
      /\ \A p \in Pipes \ {a} : t.queue[p] = bus.queue[p]
  BY <1>1, EmptiedFields
<1>3. ASSUME ~t.lost
      PROVE  ~bus.lost /\ t.queue["core"] = bus.queue["core"]
             /\ t.queue["bridge"] = bus.queue["bridge"]
  BY <1>2, <1>3 DEF Pipes, Apps
<1> QED BY <1>1, <1>3 DEF Calmer, Calm, NoReplace

LEMMA CalmPublish ==
    ASSUME NEW b, BusShape(b), NEW n \in 1..MaxCommands, NEW ok
    PROVE  Calmer(b, PublishExecResult(b, n, ok))
<1>1. PICK t : t = PublishExecResult(b, n, ok) OBVIOUS
<1>2. PICK m : m = [num |-> n, ok |-> ok] OBVIOUS
<1>3. PICK sent : sent = Transmit(b, {"uplink"}, m) OBVIOUS
<1>4. /\ \A p \in Apps : t.queue[p] = b.queue[p]
      /\ t.lost = sent.lost
  BY <1>1, <1>2, <1>3, PublishFields
<1>5. ASSUME ~sent.lost PROVE ~b.lost
  <2>1. {"uplink"} \subseteq Pipes BY DEF Pipes
  <2> QED BY <1>3, <1>5, <2>1, TransmitArrives
<1>6. t.queue["core"] = b.queue["core"] /\ t.queue["bridge"] = b.queue["bridge"]
  BY <1>4 DEF Apps
<1>7. ASSUME ~t.lost PROVE ~b.lost
  <2>1. ~sent.lost BY <1>4, <1>7
  <2> QED BY <1>5, <2>1
<1> QED BY <1>1, <1>6, <1>7 DEF Calmer, Calm, NoReplace

LEMMA CalmTwice ==
    ASSUME NEW b, NEW t, NEW u, Calmer(b, t), Calmer(t, u)
    PROVE  Calmer(b, u)
  BY Zenon DEF Calmer, Calm

\* An app takes a message that is not about the route, and answers it or not.
RouteClasses == {"READBACK", "ROUTE_UPDATE"}

LEMMA CalmHandler ==
    ASSUME BusInv, NEW a \in Apps, NEW cls, Handles(a, cls), cls \notin RouteClasses
    PROVE  /\ Calmer(bus, Take(a)) /\ BusShape(Take(a))
           /\ \A ok : cls \notin Internal => Calmer(bus, PublishExecResult(Take(a), Num(a), ok))
<1>1. a \in Pipes /\ BusShape(bus) /\ bus.queue[a] # << >>
  BY DEF BusInv, Mail, Handles, Apps, Pipes
<1>2. Calmer(bus, Take(a))
  <2>1. ~Setter(Head(bus.queue[a])) BY DEF Handles, Setter, Replaces, RouteClasses
  <2> QED BY <1>1, <2>1, CalmTake
<1>3. BusShape(Take(a)) BY <1>1, TakeFields
<1>4. ASSUME NEW ok, cls \notin Internal
      PROVE  Calmer(bus, PublishExecResult(Take(a), Num(a), ok))
  <2>1. Num(a) \in 1..MaxCommands BY <1>4, HeadMessage DEF BusInv
  <2> QED BY <1>2, <1>3, <2>1, CalmPublish, CalmTwice
<1> QED BY <1>2, <1>3, <1>4

\* Steps that have nothing to do with the route.
RouteQuiet ==
    /\ Calmer(bus, bus')
    /\ core'.route = core.route \/ "route" \in excused'
    /\ fc'.mission = fc.mission
    /\ "route" \in excused => "route" \in excused'

LEMMA QuietStep ==
    ASSUME CacheInv, RouteQuiet, Settled' => Settled
    PROVE  CacheInv'
<1> SUFFICES ASSUME ~bus'.lost, Settled', NoReplace(bus)'
             PROVE  \/ LastSetter(bus.queue["core"], fc.mission)'
                    \/ /\ NoSetter(bus.queue["core"])'
                       /\ "route" \in excused' \/ core'.route = fc'.mission
  BY DEF CacheInv
<1>1. PICK t, r : t = bus' /\ r = fc.mission OBVIOUS
<1>2. ~t.lost /\ NoReplace(t) BY <1>1 DEF NoReplace
<1>3. ~bus.lost /\ NoReplace(bus) /\ Calm(bus.queue["core"], t.queue["core"])
  BY <1>1, <1>2 DEF RouteQuiet, Calmer
<1>4. CASE LastSetter(bus.queue["core"], r)
  <2>1. LastSetter(t.queue["core"], r) BY <1>3, <1>4 DEF Calm
  <2> QED BY <1>1, <2>1 DEF RouteQuiet, LastSetter
<1>5. CASE NoSetter(bus.queue["core"]) /\ ("route" \in excused \/ core.route = r)
  <2>1. NoSetter(t.queue["core"]) BY <1>3, <1>5 DEF Calm
  <2> QED BY <1>1, <1>5, <2>1 DEF RouteQuiet, NoSetter
<1> QED BY <1>1, <1>3, <1>4, <1>5 DEF CacheInv

\* While the bridge has not settled nothing is promised.
LEMMA Unsettled == ASSUME ~Settled' PROVE CacheInv'
  BY DEF CacheInv

\* cfs_core_app takes a message, and its route if it has one.
LEMMA CoreRoute ==
    ASSUME BusInv, CacheInv, NEW cls, Handles("core", cls), bus' = Take("core"),
           UNCHANGED fc, Settled' => Settled,
           IF Setter(Head(bus.queue["core"])) THEN core'.route = Msg("core").route
                                              ELSE UNCHANGED <<core, excused>>
    PROVE  CacheInv'
<1> SUFFICES ASSUME ~bus'.lost, Settled', NoReplace(bus)'
             PROVE  \/ LastSetter(bus.queue["core"], fc.mission)'
                    \/ /\ NoSetter(bus.queue["core"])'
                       /\ "route" \in excused' \/ core'.route = fc'.mission
  BY DEF CacheInv
<1>1. PICK t, s, r : t = bus' /\ s = bus.queue["core"] /\ r = fc.mission OBVIOUS
<1>2. /\ BusShape(bus) /\ "core" \in Pipes /\ "bridge" \in Pipes
      /\ IsQueue(s) /\ s # << >>
  BY <1>1 DEF BusInv, Mail, BusShape, Handles, Pipes, Apps
<1>3. /\ t.lost = bus.lost /\ t.queue["core"] = Tail(s)
      /\ t.queue["bridge"] = bus.queue["bridge"]
  BY <1>1, <1>2, TakeFields
<1>4. ~bus.lost /\ NoReplace(bus) BY <1>1, <1>3 DEF NoReplace
<1>5. /\ Head(s) = s[1] /\ 1 \in 1..Len(s)
      /\ \A i \in 1..Len(Tail(s)) : i + 1 \in 1..Len(s) /\ Tail(s)[i] = s[i + 1]
  BY <1>2, QueueTail
<1>6. CASE LastSetter(s, r)
  <2>1. CASE LastSetter(Tail(s), r) BY <1>1, <1>3, <2>1 DEF LastSetter
  <2>2. CASE NoSetter(Tail(s)) /\ Setter(s[1]) /\ s[1].body.route = r
    <3>1. core'.route = r BY <1>1, <1>5, <2>2 DEF Msg
    <3> QED BY <1>1, <1>3, <2>2, <3>1 DEF NoSetter
  <2> QED BY <1>2, <1>6, <2>1, <2>2, SetterTail
<1>7. CASE NoSetter(s) /\ ("route" \in excused \/ core.route = r)
  <2>1. ~Setter(Head(s)) BY <1>5, <1>7 DEF NoSetter
  <2>2. UNCHANGED <<core, excused>> BY <1>1, <2>1
  <2>3. NoSetter(Tail(s)) BY <1>5, <1>7 DEF NoSetter
  <2> QED BY <1>1, <1>3, <1>7, <2>2, <2>3 DEF NoSetter
<1> QED BY <1>1, <1>4, <1>6, <1>7 DEF CacheInv

\* What the FC has is read back to cfs_core_app.
LEMMA ReadBack ==
    ASSUME NEW b, BusShape(b), NEW m, m.body.cls = "READBACK", m.body.route = fc'.mission,
           bus' = Transmit(b, {"core"}, m)
    PROVE  CacheInv'
<1>1. PICK t, r : t = bus' /\ r = fc'.mission OBVIOUS
<1>2. {"core"} \subseteq Pipes /\ IsQueue(b.queue["core"]) BY DEF BusShape, Pipes, Apps
<1>3. ASSUME ~t.lost PROVE t.queue["core"] = Append(b.queue["core"], m)
  BY <1>1, <1>2, <1>3, TransmitArrives
<1>4. Setter(m) BY DEF Setter
<1>5. ASSUME ~t.lost PROVE LastSetter(t.queue["core"], r)
  BY <1>1, <1>2, <1>3, <1>4, <1>5, CalmAppend
<1> QED BY <1>1, <1>5 DEF CacheInv, LastSetter

LEMMA AcceptRoute ==
    ASSUME BusInv, CacheInv, Accepts
    PROVE  CacheInv'
<1>1. PICK c \in Sendable :
        \/ UNCHANGED bus
        \/ /\ Forwards(c) /\ ~LocalReset(c)
           /\ bus' = Transmit(bus, Subscribers(c), [num |-> Next1, body |-> c])
  BY DEF Accepts
<1>2. UNCHANGED <<core, fc, excused>> /\ (Settled' => Settled)
  BY DEF Accepts, Settled, mission
<1>3. CASE UNCHANGED bus
  <2>1. Calmer(bus, bus') BY <1>3 DEF Calmer, Calm
  <2> QED BY <1>2, <2>1, QuietStep DEF RouteQuiet
<1>4. CASE /\ Forwards(c) /\ ~LocalReset(c)
           /\ bus' = Transmit(bus, Subscribers(c), [num |-> Next1, body |-> c])
  <2>1. PICK m : m = [num |-> Next1, body |-> c] OBVIOUS
  <2>2. BusShape(bus) /\ Subscribers(c) \subseteq Pipes
    BY <1>4, SubscribersApps DEF BusInv, Mail, Pipes
  <2>3. CASE Replaces(m)
    <3>1. PICK t, s : t = bus' /\ s = bus.queue["bridge"] OBVIOUS
    <3>2. "bridge" \in Subscribers(c) BY <2>1, <2>3 DEF Subscribers, Replaces
    <3>3. ASSUME ~t.lost PROVE t.queue["bridge"] = Append(s, m)
      BY <1>4, <2>1, <2>2, <3>1, <3>2, <3>3, TransmitArrives
    <3>4. IsQueue(s) BY <2>2, <3>1 DEF BusShape, Pipes, Apps
    <3>5. Len(s) + 1 \in 1..Len(Append(s, m)) /\ Append(s, m)[Len(s) + 1] = m
      BY <3>4, QueueAppend
    <3>6. ASSUME ~t.lost PROVE ~NoReplace(t)
      BY <2>3, <3>3, <3>5, <3>6 DEF NoReplace
    <3> QED BY <3>1, <3>6 DEF CacheInv, NoReplace
  <2>4. CASE ~Replaces(m)
    <3>1. ~Setter(m) BY <1>4, <2>1, <2>4 DEF Forwards, Setter
    <3>2. Calmer(bus, bus') BY <1>4, <2>1, <2>2, <3>1, CalmTransmit
    <3> QED BY <1>2, <3>2, QuietStep DEF RouteQuiet
  <2> QED BY <2>3, <2>4
<1> QED BY <1>1, <1>3, <1>4

LEMMA CoreCache ==
    ASSUME BusInv, CacheInv, CoreStep, Settled' => Settled
    PROVE  CacheInv'
<1>a. "core" \in Apps /\ "lora" \in Pipes /\ "bridge" \in Pipes BY DEF Apps, Pipes
<1>1. ASSUME NEW ok \in BOOLEAN, CoreConfig(ok) PROVE CacheInv'
  <2>1. Handles("core", "CONFIG") BY <1>1 DEF CoreConfig
  <2>2. bus' = Take("core") \/ \E r : bus' = PublishExecResult(Take("core"), Num("core"), r)
    BY <1>1 DEF CoreConfig
  <2>3. Calmer(bus, bus') BY <1>a, <2>1, <2>2, CalmHandler DEF RouteClasses, Internal
  <2>4. "route" \in excused => "route" \in excused'
    BY <1>1 DEF CoreConfig, Activate, RejectConfig, SaveState, NoSave
  <2> QED BY <1>1, <2>3, <2>4, QuietStep DEF RouteQuiet, CoreConfig, Stay
<1>2. ASSUME NEW ok \in BOOLEAN,
             CoreRecoveryReset(ok) \/ CoreRecoveryRestart(ok) \/ CoreRecoveryUnknown
      PROVE  CacheInv'
  <2>1. Handles("core", "RECOVERY")
    BY <1>2 DEF CoreRecoveryReset, CoreRecoveryRestart, CoreRecoveryUnknown
  <2>2. \E r : bus' = PublishExecResult(Take("core"), Num("core"), r)
    BY <1>2 DEF CoreRecoveryReset, CoreRecoveryRestart, CoreRecoveryUnknown
  <2>3. Calmer(bus, bus') BY <1>a, <2>1, <2>2, CalmHandler DEF RouteClasses, Internal
  <2>4. UNCHANGED <<core, fc>> /\ ("route" \in excused => "route" \in excused')
    BY <1>2 DEF CoreRecoveryReset, CoreRecoveryRestart, CoreRecoveryUnknown, CoreOnly,
       SaveState, Stay
  <2> QED BY <2>3, <2>4, QuietStep DEF RouteQuiet
<1>3. ASSUME NEW ok \in BOOLEAN, CoreRecoveryBridge(ok) PROVE CacheInv'
  <2>1. Handles("core", "RECOVERY") BY <1>3 DEF CoreRecoveryBridge
  <2>2. PICK m : m = [num |-> 0, body |-> [cls |-> Msg("core").action]] OBVIOUS
  <2>3. PICK b : b = IF ok THEN Transmit(Take("core"), {"bridge"}, m) ELSE Take("core")
    OBVIOUS
  <2>4. PICK n : n = Num("core") OBVIOUS
  <2>5. bus' = PublishExecResult(b, n, ok) BY <1>3, <2>2, <2>3, <2>4 DEF CoreRecoveryBridge
  <2>6. Calmer(bus, Take("core")) /\ BusShape(Take("core"))
    BY <1>a, <2>1, CalmHandler DEF RouteClasses
  <2>7. BusShape(b) /\ Calmer(bus, b)
    <3>1. CASE ok
      <4>1. ~Setter(m) BY <1>3, <2>2 DEF CoreRecoveryBridge, Setter, Replaces
      <4>2. b = Transmit(Take("core"), {"bridge"}, m) BY <2>3, <3>1
      <4>3. {"bridge"} \subseteq Pipes BY <1>a
      <4>4. Calmer(Take("core"), b) BY <2>6, <4>1, <4>2, <4>3, CalmTransmit
      <4>5. BusShape(b) BY <2>6, <4>2, TransmitFields
      <4> QED BY <2>6, <4>4, <4>5, CalmTwice
    <3>2. CASE ~ok BY <2>3, <2>6, <3>2
    <3> QED BY <3>1, <3>2
  <2>8. n \in 1..MaxCommands BY <1>a, <2>1, <2>4, HeadMessage DEF BusInv, Internal
  <2>9. Calmer(bus, bus') BY <2>5, <2>7, <2>8, CalmPublish, CalmTwice
  <2> QED BY <1>3, <2>9, QuietStep DEF RouteQuiet, CoreRecoveryBridge, Stay
<1>4. ASSUME CoreViewpoint \/ CoreMode PROVE CacheInv'
  <2>1. Handles("core", "VIEWPOINT") \/ Handles("core", "MODE")
    BY <1>4 DEF CoreViewpoint, CoreMode
  <2>2. \E r : bus' = PublishExecResult(Take("core"), Num("core"), r)
    BY <1>4 DEF CoreViewpoint, CoreMode, AnswerMode
  <2>3. Calmer(bus, bus') BY <1>a, <2>1, <2>2, CalmHandler DEF RouteClasses, Internal
  <2>4. core'.route = core.route
    BY <1>4 DEF CoreViewpoint, CoreMode, BusInv, TypeCore
  <2>5. UNCHANGED <<fc, excused>> BY <1>4 DEF CoreViewpoint, CoreMode, CoreOnly, Stay
  <2> QED BY <2>3, <2>4, <2>5, QuietStep DEF RouteQuiet
<1>5. ASSUME CoreDiagnostic PROVE CacheInv'
  <2>1. Handles("core", "DIAGNOSTIC") BY <1>5 DEF CoreDiagnostic
  <2>2. PICK m : m = [num |-> 0, body |-> [cls |-> "ROUTE_SNAPSHOT", route |-> core.route]]
    OBVIOUS
  <2>3. bus' = Take("core") \/ bus' = Transmit(Take("core"), {"lora"}, m)
    BY <1>5, <2>2 DEF CoreDiagnostic
  <2>4. Calmer(bus, Take("core")) /\ BusShape(Take("core"))
    BY <1>a, <2>1, CalmHandler DEF RouteClasses
  <2>5. Calmer(bus, bus')
    <3>1. ~Setter(m) /\ {"lora"} \subseteq Pipes
      BY <1>a, <2>2 DEF Setter, Replaces
    <3>2. Calmer(Take("core"), Transmit(Take("core"), {"lora"}, m))
      BY <2>4, <3>1, CalmTransmit
    <3> QED BY <2>3, <2>4, <3>2, CalmTwice
  <2> QED BY <1>5, <2>5, QuietStep DEF RouteQuiet, CoreDiagnostic, CoreOnly, Stay
<1>6. ASSUME CoreRouteUpdate PROVE CacheInv'
  <2>1. Handles("core", "ROUTE_UPDATE") /\ bus' = Take("core") /\ UNCHANGED <<fc, excused>>
    BY <1>6 DEF CoreRouteUpdate, CoreOnly, Stay
  <2>2. Setter(Head(bus.queue["core"])) <=> Msg("core").op = "REPLACE"
    BY <2>1 DEF Setter, Replaces, Handles, Msg
  <2>3. IF Setter(Head(bus.queue["core"])) THEN core'.route = Msg("core").route
                                          ELSE UNCHANGED <<core, excused>>
    BY <1>6, <2>1, <2>2 DEF CoreRouteUpdate, SetRouteCache, BusInv, TypeCore
  <2> QED BY <2>1, <2>3, CoreRoute
<1>7. ASSUME CoreReadback PROVE CacheInv'
  <2>1. Handles("core", "READBACK") /\ bus' = Take("core") /\ UNCHANGED fc
    BY <1>7 DEF CoreReadback, Stay
  <2>2. Setter(Head(bus.queue["core"])) BY <2>1 DEF Setter, Handles
  <2>3. core'.route = Msg("core").route
    BY <1>7 DEF CoreReadback, ConfirmRoute, SetRouteCache, BusInv, TypeCore
  <2> QED BY <2>1, <2>2, <2>3, CoreRoute
<1>8. ASSUME HandleQuietly("core") PROVE CacheInv'
  <2>1. Handles("core", "COUNTER_MGMT") /\ bus' = Take("core")
    BY <1>8 DEF HandleQuietly
  <2>2. Calmer(bus, bus') BY <1>a, <2>1, CalmHandler DEF RouteClasses
  <2> QED BY <1>8, <2>2, QuietStep DEF RouteQuiet, HandleQuietly, CoreOnly, Stay
<1> QED BY <1>1, <1>2, <1>3, <1>4, <1>5, <1>6, <1>7, <1>8 DEF CoreStep

LEMMA BridgeCache ==
    ASSUME BusInv, CacheInv, BridgeStep, UNCHANGED mission => (Settled' => Settled)
    PROVE  CacheInv'
<1>a. "bridge" \in Apps BY DEF Apps
<1>1. ASSUME NEW ok \in BOOLEAN, BridgeConfig(ok) PROVE CacheInv'
  <2>1. Handles("bridge", "CONFIG") BY <1>1 DEF BridgeConfig
  <2>2. \/ bus' = Take("bridge")
        \/ \E r : bus' = PublishExecResult(Take("bridge"), Num("bridge"), r)
    BY <1>1 DEF BridgeConfig
  <2>3. Calmer(bus, bus') BY <1>a, <2>1, <2>2, CalmHandler DEF RouteClasses, Internal
  <2>4. "route" \in excused => "route" \in excused'
    BY <1>1 DEF BridgeConfig, Activate, RejectConfig, SaveState, NoSave
  <2> QED BY <1>1, <2>3, <2>4, QuietStep DEF RouteQuiet, BridgeConfig, Stay, bridge
<1>2. ASSUME NEW current \in BOOLEAN, BridgeRouteUpdate(current) PROVE CacheInv'
  <2>1. PICK c : c = Msg("bridge") OBVIOUS
  <2>2. /\ bus' = Take("bridge") /\ UNCHANGED <<core, fc, excused>>
        /\ link' = link /\ readback' = readback
        /\ Handles("bridge", "ROUTE_UPDATE")
    BY <1>2 DEF BridgeRouteUpdate
  <2>3. CASE Uploadable(c) /\ ~current
    <3>1. PICK r : r = NewRoute(c) OBVIOUS
    <3>2. upload' = <<r>> BY <1>2, <2>1, <2>3, <3>1 DEF BridgeRouteUpdate
    <3>3. ~Settled' BY <3>2 DEF Settled, NoUpload
    <3> QED BY <3>3, Unsettled
  <2>4. CASE ~(Uploadable(c) /\ ~current) /\ c.op = "REPLACE"
    <3>1. ~current BY <1>2, <2>1, <2>4 DEF BridgeRouteUpdate
    <3>2. ~link \/ readback # "IDLE" BY <2>4, <3>1 DEF Uploadable
    <3>3. ~Settled' BY <2>2, <3>2 DEF Settled
    <3> QED BY <3>3, Unsettled
  <2>5. CASE ~(Uploadable(c) /\ ~current) /\ c.op # "REPLACE"
    <3>1. UNCHANGED mission BY <1>2, <2>1, <2>5 DEF BridgeRouteUpdate, mission
    <3>2. ~Setter(Head(bus.queue["bridge"]))
      BY <2>1, <2>2, <2>5 DEF Setter, Replaces, Handles, Msg
    <3>3. "bridge" \in Pipes /\ BusShape(bus) /\ bus.queue["bridge"] # << >>
      BY <2>2 DEF BusInv, Mail, Handles, Apps, Pipes
    <3>4. Calmer(bus, bus') BY <2>2, <3>2, <3>3, CalmTake
    <3> QED BY <2>2, <3>1, <3>4, QuietStep DEF RouteQuiet
  <2> QED BY <2>3, <2>4, <2>5
<1>3. ASSUME NEW k \in 0..2, BridgeFlightMode(k) PROVE CacheInv'
  <2>1. Handles("bridge", "FLIGHT_MODE") BY <1>3 DEF BridgeFlightMode
  <2>2. \E r : bus' = PublishExecResult(Take("bridge"), Num("bridge"), r)
    BY <1>3 DEF BridgeFlightMode
  <2>3. Calmer(bus, bus') BY <1>a, <2>1, <2>2, CalmHandler DEF RouteClasses, Internal
  <2> QED BY <1>3, <2>3, QuietStep DEF RouteQuiet, BridgeFlightMode, bridge
<1>4. ASSUME HandleQuietly("bridge") PROVE CacheInv'
  <2>1. /\ \E cls \in {"COUNTER_MGMT", "PARSER_RESET", "SERIAL_RECONNECT"} :
             Handles("bridge", cls)
        /\ bus' = Take("bridge")
    BY <1>4 DEF HandleQuietly
  <2>2. Calmer(bus, bus') BY <1>a, <2>1, CalmHandler DEF RouteClasses
  <2> QED BY <1>4, <2>2, QuietStep DEF RouteQuiet, HandleQuietly, CoreOnly, Stay, bridge
<1> QED BY <1>1, <1>2, <1>3, <1>4 DEF BridgeStep

LEMMA LoraCache ==
    ASSUME BusInv, CacheInv, LoraStep, Settled' => Settled
    PROVE  CacheInv'
<1>a. "lora" \in Apps BY DEF Apps
<1>1. ASSUME NEW ok \in BOOLEAN, LoraConfig(ok) PROVE CacheInv'
  <2>1. Handles("lora", "CONFIG") BY <1>1 DEF LoraConfig
  <2>2. \/ bus' = Take("lora")
        \/ \E r : bus' = PublishExecResult(Take("lora"), Num("lora"), r)
    BY <1>1 DEF LoraConfig
  <2>3. Calmer(bus, bus') BY <1>a, <2>1, <2>2, CalmHandler DEF RouteClasses, Internal
  <2>4. "route" \in excused => "route" \in excused'
    BY <1>1 DEF LoraConfig, SaveState, NoSave
  <2> QED BY <1>1, <2>3, <2>4, QuietStep DEF RouteQuiet, LoraConfig, Stay
<1>2. ASSUME LoraDiagnostic \/ LoraRouteSnapshot \/ HandleQuietly("lora") PROVE CacheInv'
  <2>1. /\ \E cls \in {"DIAGNOSTIC", "ROUTE_SNAPSHOT", "COUNTER_MGMT"} : Handles("lora", cls)
        /\ bus' = Take("lora")
    BY <1>2 DEF LoraDiagnostic, LoraRouteSnapshot, HandleQuietly
  <2>2. Calmer(bus, bus') BY <1>a, <2>1, CalmHandler DEF RouteClasses
  <2>3. UNCHANGED <<core, fc, excused>>
    BY <1>2 DEF LoraDiagnostic, LoraRouteSnapshot, HandleQuietly, CoreOnly, Stay
  <2> QED BY <2>2, <2>3, QuietStep DEF RouteQuiet
<1> QED BY <1>1, <1>2 DEF LoraStep

\* The mission is uploaded, or read back, or the link comes and goes.
LEMMA MissionCache ==
    ASSUME BusInv, CacheInv, MissionStep
    PROVE  CacheInv'
<1>1. CASE FcHeard
  <2>1. UNCHANGED <<bus, core, mission, fc, excused>> BY <1>1 DEF FcHeard, Aside
  <2>2. Calmer(bus, bus') /\ (Settled' => Settled)
    BY <2>1 DEF Calmer, Calm, Settled, mission
  <2> QED BY <2>1, <2>2, QuietStep DEF RouteQuiet
<1>2. CASE LinkUp
  <2>1. upload = NoUpload => readback' = "RUNNING" BY <1>2 DEF LinkUp
  <2>2. ~Settled' BY <1>2, <2>1 DEF LinkUp, Settled
  <2> QED BY <2>2, Unsettled
<1>3. ASSUME NEW closed \in BOOLEAN, LinkLost(closed) PROVE CacheInv'
  BY <1>3, Unsettled DEF LinkLost, Settled
<1>4. CASE FcMission
  BY <1>4, Unsettled DEF FcMission, mission, Settled
<1>5. CASE UploadSucceeds \/ RetryReadback
  BY <1>5, Unsettled DEF UploadSucceeds, RetryReadback, Settled
<1>6. CASE UploadFails
  BY <1>6, Unsettled DEF UploadFails, Settled
<1>7. CASE ReadbackDone
  <2>1. PICK m : m = [num |-> 0, body |-> [cls |-> "READBACK", route |-> fc.mission]]
    OBVIOUS
  <2>2. bus' = Transmit(bus, {"core"}, m) /\ fc' = fc BY <1>7, <2>1 DEF ReadbackDone
  <2>3. m.body.cls = "READBACK" /\ m.body.route = fc'.mission BY <2>1, <2>2
  <2>4. BusShape(bus) BY DEF BusInv, Mail
  <2> QED BY <2>2, <2>3, <2>4, ReadBack
<1>8. CASE ReadbackTimeout
  BY <1>8, Unsettled DEF ReadbackTimeout, Settled
<1> QED BY <1>1, <1>2, <1>3, <1>4, <1>5, <1>6, <1>7, <1>8 DEF MissionStep, UploadEnds

LEMMA NextCache ==
    ASSUME BusInv, CacheInv, [Next]_vars
    PROVE  CacheInv'
<1>a. UNCHANGED mission => (Settled' => Settled)
  <2> SUFFICES ASSUME UNCHANGED mission, Settled' PROVE Settled OBVIOUS
  <2>1. ~ReadbackDone BY DEF ReadbackDone, mission
  <2>2. "upload" \notin excused BY <2>1, ExcusedGrows DEF Settled
  <2> QED BY <2>2 DEF Settled, mission
<1>b. BusShape(bus) BY DEF BusInv, Mail
<1>c. UNCHANGED bus => Calmer(bus, bus') BY DEF Calmer, Calm
<1>d. UNCHANGED bridge => (Settled' => Settled) BY <1>a DEF bridge
<1>1. CASE UplinkStep
  <2>1. CASE ProcessExecResult
    <3>1. Calmer(bus, Take("uplink"))
      BY <1>b, <2>1, CalmTake DEF ProcessExecResult, Pipes
    <3> QED BY <1>d, <2>1, <3>1, QuietStep DEF RouteQuiet, ProcessExecResult
  <2> QED BY <1>1, <2>1, UplinkBus, AcceptRoute DEF BusInv
<1>2. CASE CoreStep
  <2>1. UNCHANGED bridge
    BY <1>2 DEF CoreStep, CoreConfig, CoreRecoveryReset, CoreRecoveryRestart,
       CoreRecoveryBridge, CoreRecoveryUnknown, CoreViewpoint, CoreMode, CoreDiagnostic,
       CoreRouteUpdate, CoreReadback, HandleQuietly, CoreOnly, Stay
  <2> QED BY <1>2, <1>d, <2>1, CoreCache
<1>3. CASE BridgeStep BY <1>3, <1>a, BridgeCache
<1>4. CASE LoraStep
  <2>1. UNCHANGED bridge
    BY <1>4 DEF LoraStep, LoraConfig, LoraDiagnostic, LoraRouteSnapshot, HandleQuietly,
       CoreOnly, Stay
  <2> QED BY <1>4, <1>d, <2>1, LoraCache
<1>5. CASE MissionStep BY <1>5, MissionCache
<1>6. CASE StreamTimer \/ StreamStep \/ FcReboot
  <2>1. fc'.mission = fc.mission
    BY <1>6 DEF StreamTimer, StreamStep, RequestTelemetryStreams, FcReboot, FcStart, BusInv,
       TypeFc
  <2>2. UNCHANGED <<bus, core, mission, excused>>
    BY <1>6 DEF StreamTimer, StreamStep, RequestTelemetryStreams, FcReboot, bridge
  <2> QED BY <1>a, <1>c, <2>1, <2>2, QuietStep DEF RouteQuiet
<1>7. CASE Restart
  <2>1. \E p \in Pipes : bus' = Emptied(p)
    BY <1>7 DEF Restart, RestartUplink, RestartCore, RestartBridge, RestartLora, Pipes, Apps
  <2>2. Calmer(bus, bus') BY <1>b, <2>1, CalmEmptied
  <2>3. /\ core'.route = core.route \/ "route" \in excused'
        /\ UNCHANGED fc
        /\ "route" \in excused => "route" \in excused'
    BY <1>7 DEF Restart, RestartUplink, RestartCore, RestartBridge, RestartLora
  <2>4. CASE RestartBridge BY <2>4, Unsettled DEF RestartBridge, Settled
  <2>5. CASE ~RestartBridge
    <3>1. UNCHANGED bridge
      BY <1>7, <2>5 DEF Restart, RestartUplink, RestartCore, RestartLora
    <3> QED BY <1>d, <2>2, <2>3, <3>1, QuietStep DEF RouteQuiet
  <2> QED BY <2>4, <2>5
<1>8. CASE \/ \E a \in Apps : DamageFile(a)
           \/ \E v \in {0, 1}, saved \in BOOLEAN : SetDownlinkProtocol(v, saved)
  <2>1. /\ UNCHANGED <<bus, core, bridge, fc>>
        /\ "route" \in excused => "route" \in excused'
    BY <1>8 DEF DamageFile, SetDownlinkProtocol, Stay
  <2> QED BY <1>c, <1>d, <2>1, QuietStep DEF RouteQuiet
<1>9. CASE UNCHANGED vars
  <2>1. UNCHANGED <<bus, core, bridge, fc, excused>> BY <1>9 DEF vars
  <2> QED BY <1>c, <1>d, <2>1, QuietStep DEF RouteQuiet
<1> QED BY <1>1, <1>2, <1>3, <1>4, <1>5, <1>6, <1>7, <1>8, <1>9 DEF Next

\* The route that the ground is shown is the FC's, once everything has arrived
\* and the bridge has nothing under way: however often uploads were replaced,
\* refused, taken for stored or cut off, and readbacks retried.
THEOREM CacheIsMission == Spec => []RouteCacheIsMission
<1> DEFINE Inv == TypeInv /\ Mail(bus) /\ CacheInv
<1>1. Init => Inv
  <2> SUFFICES ASSUME Init PROVE Inv OBVIOUS
  <2>1. core.route = fc.mission BY DEF Init, CoreStart, FcStart
  <2>2. Len(bus.queue["core"]) = 0 BY QueueEmpty DEF Init, EmptyBus, Pipes, Apps
  <2>3. CacheInv BY <2>1, <2>2 DEF CacheInv, NoSetter
  <2> QED BY <2>3, InitType, InitMail
<1>2. Inv /\ [Next]_vars => Inv'
  <2> SUFFICES ASSUME Inv, [Next]_vars PROVE Inv' OBVIOUS
  <2>1. BusInv BY DEF BusInv, TypeInv
  <2> QED BY <2>1, NextMail, NextCache, NextType
<1>3. Inv => RouteCacheIsMission
  <2> SUFFICES ASSUME CacheInv, \A p \in Pipes : bus.queue[p] = << >>, ~bus.lost,
                      Settled, "route" \notin excused
               PROVE  core.route = fc.mission
    BY DEF RouteCacheIsMission
  <2>1. Len(bus.queue["core"]) = 0 /\ Len(bus.queue["bridge"]) = 0
    BY QueueEmpty DEF Pipes, Apps
  <2>2. NoReplace(bus) /\ ~LastSetter(bus.queue["core"], fc.mission)
    BY <2>1 DEF NoReplace, LastSetter
  <2> QED BY <2>2 DEF CacheInv
<1> QED BY <1>1, <1>2, <1>3, PTL DEF Spec
==============================================================================
