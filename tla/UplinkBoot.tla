----------------------------- MODULE UplinkBoot ------------------------------
(****************************************************************************)
(* uplink_app: boot counting and boot-loop detection.                       *)
(*                                                                          *)
(* UPLINK_APP_Init restores what the previous session left in the state     *)
(* file, counts the boot and saves (IncrementBootCount), then judges the    *)
(* previous session by its survival mark and saves again                    *)
(* (ProcessBootMarker).  A session earns the mark when it is SurviveTicks   *)
(* old and the main loop finds its pipe quiet for a poll period             *)
(* (ServicePrototype -> CheckBootSurvival).  The report BootLoopSuspect     *)
(* only informs the ground.                                                 *)
(*                                                                          *)
(* The same file holds the last accepted command number (module UplinkApp); *)
(* that field and these do not influence each other.                        *)
(****************************************************************************)
EXTENDS Naturals

CONSTANTS
    Threshold,     \* short boots that make a boot loop, 5 in the code
    StreakCap,     \* largest ShortBootStreak, 255 in the code
    BootMod,       \* values of BootCount, 256 in the code
    SurviveTicks,  \* poll periods of uptime that earn the mark, 120 s
    SaveResults,   \* may a save fail? {TRUE, FALSE}, or {TRUE} if never
    MaxBoots       \* bound: boots of a behaviour, the last one does not crash

ASSUME BootAssumption ==
    /\ Threshold \in Nat \ {0} /\ StreakCap \in Nat /\ Threshold =< StreakCap
    /\ BootMod \in Nat \ {0}
    /\ SurviveTicks \in Nat \ {0}
    /\ SaveResults \subseteq BOOLEAN
    /\ MaxBoots \in Nat

VARIABLES
    phase,           \* off; loaded, counted: inside Init; run: main loop
    BootCount,
    PrevSurvivedMark,
    SurvivedMark,
    ShortBootStreak,
    BootLoopSuspect,
    file,            \* the state file's boot fields, and whether it is readable
    uptime,          \* poll periods since BootStartMs, up to SurviveTicks
    busy,            \* the command pipe holds a message
    boots,           \* history: boots so far
    shortBoots,      \* history: sessions before this one that ended short, in a row
    lived,           \* history: this session was marked as surviving
    clean            \* history: no crash inside Init, save failure or file loss

memory == <<BootCount, PrevSurvivedMark, SurvivedMark, ShortBootStreak,
            BootLoopSuspect, uptime>>
history == <<boots, shortBoots, lived, clean>>
vars == <<phase, memory, file, busy, history>>

Cap(n) == IF n < StreakCap THEN n ELSE StreakCap

------------------------------------------------------------------------------
\* Mutant: the mark of the previous session is written instead of this one's.
SaveStateOldMark(ok, count, mark, streak) ==
    /\ file' = IF ok THEN [valid |-> TRUE, count |-> count,
                           mark |-> PrevSurvivedMark, streak |-> streak]
                     ELSE file
    /\ clean' = (clean /\ ok)

\* SaveState writes the record of memory as it is now; a failure at any of its
\* steps leaves the old file.
SaveState(ok, count, mark, streak) ==
    /\ file' = IF ok THEN [valid |-> TRUE, count |-> count, mark |-> mark,
                           streak |-> streak]
                     ELSE file
    /\ clean' = (clean /\ ok)

Init ==
    /\ phase = "off"
    /\ BootCount = 0 /\ PrevSurvivedMark = 1 /\ SurvivedMark = 0
    /\ ShortBootStreak = 0 /\ BootLoopSuspect = FALSE
    /\ file = [valid |-> FALSE, count |-> 0, mark |-> 0, streak |-> 0]
    /\ uptime = 0
    /\ busy = FALSE
    /\ boots = 0 /\ shortBoots = 0 /\ lived = TRUE /\ clean = TRUE

\* The memset of UPLINK_APP_Init, its default mark 1, and LoadState.
LoadState ==
    /\ phase = "off"
    /\ phase' = "loaded"
    /\ BootCount' = IF file.valid THEN file.count ELSE 0
    /\ PrevSurvivedMark' = IF file.valid THEN file.mark ELSE 1
    /\ ShortBootStreak' = IF file.valid THEN file.streak ELSE 0
    /\ SurvivedMark' = 0
    /\ BootLoopSuspect' = FALSE
    /\ uptime' = 0
    /\ boots' = boots + 1
    /\ shortBoots' = IF lived THEN 0 ELSE shortBoots + 1
    /\ lived' = FALSE
    /\ busy' = FALSE
    /\ UNCHANGED <<file, clean>>

IncrementBootCount(ok) ==
    /\ phase = "loaded"
    /\ phase' = "counted"
    /\ BootCount' = (BootCount + 1) % BootMod
    /\ SaveState(ok, BootCount', SurvivedMark, ShortBootStreak)
    /\ UNCHANGED <<PrevSurvivedMark, SurvivedMark, ShortBootStreak,
                   BootLoopSuspect, uptime, busy, boots, shortBoots, lived>>

ProcessBootMarker(ok) ==
    /\ phase = "counted"
    /\ phase' = "run"
    /\ ShortBootStreak' = IF PrevSurvivedMark = 0 THEN Cap(ShortBootStreak + 1) ELSE 0
    /\ BootLoopSuspect' = (ShortBootStreak' >= Threshold)
    /\ SurvivedMark' = 0
    /\ uptime' = 0
    /\ SaveState(ok, BootCount, SurvivedMark', ShortBootStreak')
    /\ UNCHANGED <<BootCount, PrevSurvivedMark, busy, boots, shortBoots, lived>>

\* One turn of the main loop takes up to a poll period.
Older == IF uptime < SurviveTicks THEN uptime + 1 ELSE uptime

\* Another app publishes a message uplink_app subscribes to: SYSTEM_HEALTH_MID
\* (once for every message of the flight controller), housekeeping, commands.
MessageArrives ==
    /\ phase = "run" /\ ~busy
    /\ busy' = TRUE
    /\ UNCHANGED <<phase, memory, file, history>>

\* The pipe had a message: it is handled, and nothing else is serviced.
TaskPipe ==
    /\ phase = "run" /\ busy
    /\ busy' = FALSE
    /\ uptime' = Older
    /\ UNCHANGED <<phase, BootCount, PrevSurvivedMark, SurvivedMark,
                   ShortBootStreak, BootLoopSuspect, file, history>>

\* The pipe stayed quiet: UPLINK_APP_ServicePrototype -> CheckBootSurvival.
ServicePrototype(ok) ==
    /\ phase = "run" /\ ~busy
    /\ uptime' = Older
    /\ IF SurvivedMark = 0 /\ uptime' >= SurviveTicks
         THEN /\ SurvivedMark' = 1
              /\ lived' = TRUE
              /\ SaveState(ok, BootCount, SurvivedMark', ShortBootStreak)
         ELSE UNCHANGED <<SurvivedMark, lived, file, clean>>
    /\ UNCHANGED <<phase, BootCount, PrevSurvivedMark, ShortBootStreak,
                   BootLoopSuspect, busy, boots, shortBoots>>

\* An accepted command saves the same record again (ProcessUplink).
AcceptSave(ok) ==
    /\ phase = "run"
    /\ SaveState(ok, BootCount, SurvivedMark, ShortBootStreak)
    /\ UNCHANGED <<phase, memory, busy, boots, shortBoots, lived>>

\* The app dies, or cfs_core_app restarts it, at any point.
Crash ==
    /\ phase # "off" /\ boots < MaxBoots
    /\ phase' = "off"
    /\ clean' = (clean /\ phase = "run")
    /\ UNCHANGED <<memory, file, busy, boots, shortBoots, lived>>

FileCorrupted ==
    /\ phase = "off" /\ file.valid
    /\ file' = [file EXCEPT !.valid = FALSE]
    /\ clean' = FALSE
    /\ UNCHANGED <<phase, memory, busy, boots, shortBoots, lived>>

Boot ==
    \/ LoadState
    \/ \E ok \in SaveResults : IncrementBootCount(ok) \/ ProcessBootMarker(ok)

Service == \E ok \in SaveResults : ServicePrototype(ok)

Next ==
    \/ Boot
    \/ MessageArrives
    \/ TaskPipe
    \/ Service
    \/ \E ok \in SaveResults : AcceptSave(ok)
    \/ Crash
    \/ FileCorrupted

Spec == Init /\ [][Next]_vars

\* The main loop keeps turning while the app is up (it blocks for at most a
\* poll period): this is all the code guarantees.
LoopSpec == Spec /\ WF_vars(Boot) /\ WF_vars(TaskPipe \/ Service)

------------------------------------------------------------------------------
File == [valid : BOOLEAN, count : 0..(BootMod - 1), mark : {0, 1},
         streak : 0..StreakCap]

\* Type invariant.
TypeOK ==
    /\ phase \in {"off", "loaded", "counted", "run"}
    /\ BootCount \in 0..(BootMod - 1)
    /\ PrevSurvivedMark \in {0, 1} /\ SurvivedMark \in {0, 1}
    /\ ShortBootStreak \in 0..StreakCap
    /\ BootLoopSuspect \in BOOLEAN
    /\ file \in File
    /\ uptime \in 0..SurviveTicks
    /\ busy \in BOOLEAN
    /\ boots \in Nat
    /\ shortBoots \in Nat
    /\ lived \in BOOLEAN /\ clean \in BOOLEAN

\* The streak that is reported is the number of sessions in a row that ended
\* before they were marked as surviving, up to the uint8 cap, and BootCount the
\* number of boots, provided no session died inside Init and every save
\* succeeded (IncrementBootCount, ProcessBootMarker, CheckBootSurvival).
StreakIsTrue ==
    (clean /\ phase = "run") =>
        /\ ShortBootStreak = Cap(shortBoots)
        /\ BootCount = boots % BootMod

\* A session that stays up is marked as surviving in the end, as section (b) of
\* the boot-loop detection in notes/mission_app_runtime_spec.md says (the mark is
\* saved once, when the uptime reaches 120 s).  The code refutes it: the mark is
\* serviced only in a poll period in which the pipe stays empty (uplink_app.c:33),
\* and cfs_core_app publishes SYSTEM_HEALTH_MID to that pipe for every message
\* it receives.
SurvivalMarked == (phase = "run") ~> (SurvivedMark = 1 \/ phase = "off")
==============================================================================
