-------------------------- MODULE UplinkBootProofs ---------------------------
(****************************************************************************)
(* Proofs about the boot accounting of uplink_app for every threshold, cap  *)
(* and number of boots.                                                     *)
(****************************************************************************)
EXTENDS UplinkBoot, Integers, TLAPS

\* A number has one remainder.
LEMMA OneRemainder ==
    ASSUME NEW m \in Nat \ {0}, NEW q \in Nat, NEW p \in Nat,
           NEW r \in 0..(m - 1), NEW t \in 0..(m - 1), m * q + r = m * p + t
    PROVE  r = t
<1>1. CASE q = p BY <1>1
<1>2. CASE q >= p + 1
  <2>1. m * q >= m * (p + 1) BY <1>2
  <2>2. m * (p + 1) = m * p + m OBVIOUS
  <2> QED BY <2>1, <2>2
<1>3. CASE p >= q + 1
  <2>1. m * p >= m * (q + 1) BY <1>3
  <2>2. m * (q + 1) = m * q + m OBVIOUS
  <2> QED BY <2>1, <2>2
<1> QED BY <1>1, <1>2, <1>3

\* Incrementing a wrapped counter wraps the incremented count.
LEMMA ModIncrement ==
    ASSUME NEW m \in Nat \ {0}, NEW n \in Nat
    PROVE  ((n % m) + 1) % m = (n + 1) % m
<1>1. PICK q \in Nat, r \in 0..(m - 1) : n % m = r /\ n = m * q + r
  <2>1. n \div m \in Nat /\ n % m \in 0..(m - 1) OBVIOUS
  <2>2. n = m * (n \div m) + (n % m) OBVIOUS
  <2> QED BY <2>1, <2>2
<1>2. PICK k : k = n + 1 OBVIOUS
<1>3. PICK p \in Nat, t \in 0..(m - 1) : k % m = t /\ k = m * p + t
  <2>1. k \in Nat BY <1>2
  <2>2. k \div m \in Nat /\ k % m \in 0..(m - 1) BY <2>1
  <2>3. k = m * (k \div m) + (k % m) BY <2>1
  <2> QED BY <2>2, <2>3
<1>4. CASE r + 1 < m
  <2>1. r + 1 \in 0..(m - 1) /\ m * q + (r + 1) = m * p + t BY <1>1, <1>2, <1>3, <1>4
  <2>2. r + 1 = t BY <2>1, OneRemainder
  <2>3. (r + 1) % m = r + 1 BY <2>1
  <2> QED BY <1>1, <1>2, <1>3, <2>2, <2>3
<1>5. CASE r + 1 = m
  <2>1. m * (q + 1) = m * q + m OBVIOUS
  <2>2. 0 \in 0..(m - 1) /\ q + 1 \in Nat /\ m * (q + 1) + 0 = m * p + t
    BY <1>1, <1>2, <1>3, <1>5, <2>1
  <2>3. t = 0 BY <2>2, OneRemainder
  <2>4. m % m = 0 OBVIOUS
  <2> QED BY <1>1, <1>2, <1>3, <1>5, <2>3, <2>4
<1> QED BY <1>1, <1>4, <1>5

\* The count is capped one step at a time.
LEMMA CapStep ==
    ASSUME NEW n \in Nat
    PROVE  /\ Cap(n) \in 0..StreakCap
           /\ Cap(Cap(n) + 1) = Cap(n + 1)
           /\ Cap(0) = 0
  BY BootAssumption DEF Cap

------------------------------------------------------------------------------
(* Type correctness *)

LEMMA InitType == Init => TypeOK
<1> SUFFICES ASSUME Init PROVE TypeOK OBVIOUS
<1>1. 0 \in 0..(BootMod - 1) /\ 0 \in 0..StreakCap /\ 0 \in 0..SurviveTicks
  BY BootAssumption
<1>2. file \in File BY <1>1 DEF Init, File
<1> QED BY <1>1, <1>2 DEF Init, TypeOK

LEMMA SaveType ==
    ASSUME TypeOK, NEW ok \in SaveResults, NEW n \in 0..(BootMod - 1),
           NEW mark \in {0, 1}, NEW s \in 0..StreakCap,
           SaveState(ok, n, mark, s)
    PROVE  file' \in File /\ clean' \in BOOLEAN
<1>1. ok \in BOOLEAN BY BootAssumption
<1>2. file \in File /\ clean \in BOOLEAN BY DEF TypeOK
<1>3. [valid |-> TRUE, count |-> n, mark |-> mark, streak |-> s] \in File
  BY DEF File
<1> QED BY <1>1, <1>2, <1>3 DEF SaveState

LEMMA NextType == TypeOK /\ [Next]_vars => TypeOK'
<1> SUFFICES ASSUME TypeOK, [Next]_vars PROVE TypeOK' OBVIOUS
<1>o. Older \in 0..SurviveTicks BY BootAssumption DEF Older, TypeOK
<1>f. file \in File BY DEF TypeOK
<1>1. CASE LoadState
  <2>1. /\ BootCount' \in 0..(BootMod - 1) /\ PrevSurvivedMark' \in {0, 1}
        /\ ShortBootStreak' \in 0..StreakCap
    BY <1>1, <1>f, BootAssumption DEF LoadState, File
  <2>2. shortBoots' \in Nat /\ boots' \in Nat BY <1>1 DEF LoadState, TypeOK
  <2>3. uptime' \in 0..SurviveTicks /\ SurvivedMark' \in {0, 1}
    BY <1>1, BootAssumption DEF LoadState
  <2> QED BY <1>1, <2>1, <2>2, <2>3 DEF LoadState, TypeOK
<1>2. ASSUME NEW ok \in SaveResults, IncrementBootCount(ok) PROVE TypeOK'
  <2>1. BootCount' \in 0..(BootMod - 1)
    <3>1. BootCount + 1 \in Nat BY BootAssumption DEF TypeOK
    <3> QED BY <1>2, <3>1, BootAssumption DEF IncrementBootCount
  <2>2. file' \in File /\ clean' \in BOOLEAN
    BY <1>2, <2>1, SaveType DEF IncrementBootCount, TypeOK
  <2> QED BY <1>2, <2>1, <2>2 DEF IncrementBootCount, TypeOK
<1>3. ASSUME NEW ok \in SaveResults, ProcessBootMarker(ok) PROVE TypeOK'
  <2>1. ShortBootStreak' \in 0..StreakCap
    BY <1>3, CapStep, BootAssumption DEF ProcessBootMarker, TypeOK
  <2>2. SurvivedMark' \in {0, 1} BY <1>3 DEF ProcessBootMarker
  <2>3. file' \in File /\ clean' \in BOOLEAN
    BY <1>3, <2>1, <2>2, SaveType DEF ProcessBootMarker, TypeOK
  <2>4. BootLoopSuspect' \in BOOLEAN BY <1>3 DEF ProcessBootMarker
  <2> QED BY <1>3, <2>1, <2>2, <2>3, <2>4, BootAssumption
         DEF ProcessBootMarker, TypeOK
<1>4. CASE MessageArrives
  BY <1>4 DEF MessageArrives, TypeOK, memory, history
<1>5. CASE TaskPipe
  BY <1>5, <1>o DEF TaskPipe, TypeOK, history
<1>6. ASSUME NEW ok \in SaveResults, ServicePrototype(ok) PROVE TypeOK'
  <2>1. SurvivedMark' \in {0, 1} /\ lived' \in BOOLEAN
    BY <1>6 DEF ServicePrototype, TypeOK
  <2>2. file' \in File /\ clean' \in BOOLEAN
    BY <1>6, <1>f, <2>1, SaveType DEF ServicePrototype, TypeOK
  <2> QED BY <1>6, <1>o, <2>1, <2>2 DEF ServicePrototype, TypeOK
<1>7. ASSUME NEW ok \in SaveResults, AcceptSave(ok) PROVE TypeOK'
  <2>1. file' \in File /\ clean' \in BOOLEAN
    BY <1>7, SaveType DEF AcceptSave, TypeOK
  <2> QED BY <1>7, <2>1 DEF AcceptSave, TypeOK, memory
<1>8. CASE Crash
  BY <1>8 DEF Crash, TypeOK, memory
<1>9. CASE FileCorrupted
  <2>1. file' \in File BY <1>9, <1>f DEF FileCorrupted, File
  <2> QED BY <1>9, <2>1 DEF FileCorrupted, TypeOK, memory
<1>10. CASE UNCHANGED vars
  BY <1>10 DEF vars, memory, history, TypeOK
<1> QED BY <1>1, <1>2, <1>3, <1>4, <1>5, <1>6, <1>7, <1>8, <1>9, <1>10
       DEF Next, Boot, Service

\* Type correctness of the boot accounting: BootCount and ShortBootStreak keep
\* the range of the uint8 fields they are in the code and in the file.
THEOREM TypeCorrect == Spec => []TypeOK
<1> QED BY InitType, NextType, PTL DEF Spec

------------------------------------------------------------------------------
(* The reported streak is the true one *)

\* What the session about to start will find: nothing before the first boot,
\* afterwards the mark, the count and the streak of the session that ended.
FileTrue ==
    /\ file.count = boots % BootMod
    /\ file.mark = IF lived THEN 1 ELSE 0
    /\ file.streak = Cap(shortBoots)

\* The inductive invariant.  StreakIsTrue speaks of a session in its main
\* loop; what its successor computes comes from the file, and between the two
\* saves of Init the file belongs to neither, so every phase has its conjunct.
BootInv ==
    clean =>
        /\ phase = "off" => IF boots = 0 THEN ~file.valid /\ lived
                                         ELSE file.valid /\ FileTrue
        /\ phase = "loaded" => (BootCount + 1) % BootMod = boots % BootMod
        /\ phase = "counted" => BootCount = boots % BootMod
        /\ phase \in {"loaded", "counted"} =>
              /\ ~lived /\ SurvivedMark = 0
              /\ IF PrevSurvivedMark = 0 THEN Cap(ShortBootStreak + 1) = Cap(shortBoots)
                                         ELSE shortBoots = 0
        /\ phase = "run" =>
              /\ file.valid /\ FileTrue
              /\ SurvivedMark = file.mark
              /\ ShortBootStreak = Cap(shortBoots)
              /\ BootCount = boots % BootMod
        /\ phase # "off" => boots > 0

LEMMA InitBoot == Init => BootInv
  BY DEF Init, BootInv

LEMMA NextBoot == TypeOK /\ BootInv /\ [Next]_vars => BootInv'
<1> SUFFICES ASSUME TypeOK, BootInv, [Next]_vars PROVE BootInv' OBVIOUS
<1> SUFFICES ASSUME clean' PROVE BootInv' BY DEF BootInv
<1>s. ASSUME NEW ok, NEW n, NEW mark, NEW s, SaveState(ok, n, mark, s)
      PROVE  /\ clean
             /\ file' = [valid |-> TRUE, count |-> n, mark |-> mark, streak |-> s]
  BY <1>s DEF SaveState, TypeOK
<1>1. CASE LoadState
  <2>1. clean BY <1>1 DEF LoadState
  <2>2. boots' = boots + 1 /\ phase' = "loaded" /\ lived' = FALSE /\ SurvivedMark' = 0
    BY <1>1 DEF LoadState
  <2>3. CASE boots = 0
    <3>1. ~file.valid /\ lived BY <1>1, <2>1, <2>3 DEF BootInv, LoadState
    <3>2. BootCount' = 0 /\ PrevSurvivedMark' = 1 /\ shortBoots' = 0
      BY <1>1, <3>1 DEF LoadState
    <3>3. (BootCount' + 1) % BootMod = boots' % BootMod BY <2>2, <2>3, <3>2
    <3> QED BY <2>2, <2>3, <3>2, <3>3 DEF BootInv
  <2>4. CASE boots # 0
    <3>1. file.valid /\ FileTrue BY <1>1, <2>1, <2>4 DEF BootInv, LoadState
    <3>2. /\ BootCount' = boots % BootMod
          /\ PrevSurvivedMark' = IF lived THEN 1 ELSE 0
          /\ ShortBootStreak' = Cap(shortBoots)
          /\ shortBoots' = IF lived THEN 0 ELSE shortBoots + 1
      BY <1>1, <3>1 DEF LoadState, FileTrue
    <3>3. (BootCount' + 1) % BootMod = boots' % BootMod
      BY <2>2, <3>2, ModIncrement, BootAssumption DEF TypeOK
    <3>4. IF PrevSurvivedMark' = 0 THEN Cap(ShortBootStreak' + 1) = Cap(shortBoots')
                                   ELSE shortBoots' = 0
      BY <3>2, CapStep DEF TypeOK
    <3>5. boots' > 0 BY <2>2 DEF TypeOK
    <3> QED BY <2>2, <3>3, <3>4, <3>5 DEF BootInv, Cap
  <2> QED BY <2>3, <2>4
<1>2. ASSUME NEW ok \in SaveResults, IncrementBootCount(ok) PROVE BootInv'
  <2>1. clean BY <1>2, <1>s DEF IncrementBootCount
  <2> QED BY <1>2, <2>1 DEF IncrementBootCount, BootInv, Cap
<1>3. ASSUME NEW ok \in SaveResults, ProcessBootMarker(ok) PROVE BootInv'
  <2>1. clean BY <1>3, <1>s DEF ProcessBootMarker
  <2>2. file' = [valid |-> TRUE, count |-> BootCount, mark |-> SurvivedMark',
                 streak |-> ShortBootStreak']
    BY <1>3, <1>s DEF ProcessBootMarker
  <2>3. /\ BootCount = boots % BootMod /\ ~lived /\ boots > 0
        /\ IF PrevSurvivedMark = 0 THEN Cap(ShortBootStreak + 1) = Cap(shortBoots)
                                   ELSE shortBoots = 0
    BY <1>3, <2>1 DEF ProcessBootMarker, BootInv
  <2>4. ShortBootStreak' = Cap(shortBoots)
    BY <1>3, <2>3, CapStep DEF ProcessBootMarker
  <2>5. /\ phase' = "run" /\ SurvivedMark' = 0
        /\ UNCHANGED <<BootCount, boots, shortBoots, lived>>
    BY <1>3 DEF ProcessBootMarker
  <2>6. FileTrue' BY <2>2, <2>3, <2>4, <2>5 DEF FileTrue, Cap
  <2> QED BY <2>2, <2>3, <2>4, <2>5, <2>6 DEF BootInv, Cap
<1>4. CASE MessageArrives
  BY <1>4 DEF MessageArrives, memory, history, BootInv, FileTrue, Cap
<1>5. CASE TaskPipe
  BY <1>5 DEF TaskPipe, history, BootInv, FileTrue, Cap
<1>6. ASSUME NEW ok \in SaveResults, ServicePrototype(ok) PROVE BootInv'
  <2>1. CASE SurvivedMark = 0 /\ uptime' >= SurviveTicks
    <3>1. clean /\ file' = [valid |-> TRUE, count |-> BootCount,
                            mark |-> SurvivedMark', streak |-> ShortBootStreak]
      BY <1>6, <2>1, <1>s DEF ServicePrototype
    <3>2. /\ SurvivedMark' = 1 /\ lived' = TRUE /\ phase = "run"
          /\ UNCHANGED <<phase, BootCount, ShortBootStreak, boots, shortBoots>>
      BY <1>6, <2>1 DEF ServicePrototype
    <3>3. FileTrue' BY <3>1, <3>2 DEF FileTrue, BootInv, Cap
    <3> QED BY <3>1, <3>2, <3>3 DEF BootInv, Cap
  <2>2. CASE ~(SurvivedMark = 0 /\ uptime' >= SurviveTicks)
    BY <1>6, <2>2 DEF ServicePrototype, BootInv, FileTrue, Cap
  <2> QED BY <2>1, <2>2
<1>7. ASSUME NEW ok \in SaveResults, AcceptSave(ok) PROVE BootInv'
  <2>1. clean /\ file' = [valid |-> TRUE, count |-> BootCount,
                          mark |-> SurvivedMark, streak |-> ShortBootStreak]
    BY <1>7, <1>s DEF AcceptSave
  <2>2. FileTrue' BY <1>7, <2>1 DEF AcceptSave, memory, FileTrue, BootInv, Cap
  <2> QED BY <1>7, <2>1, <2>2 DEF AcceptSave, memory, BootInv, Cap
<1>8. CASE Crash
  <2>1. clean /\ phase = "run" BY <1>8 DEF Crash, TypeOK
  <2> QED BY <1>8, <2>1 DEF Crash, memory, BootInv, FileTrue, Cap, TypeOK
<1>9. CASE FileCorrupted
  BY <1>9 DEF FileCorrupted
<1>10. CASE UNCHANGED vars
  BY <1>10 DEF vars, memory, history, BootInv, FileTrue, Cap
<1> QED BY <1>1, <1>2, <1>3, <1>4, <1>5, <1>6, <1>7, <1>8, <1>9, <1>10
       DEF Next, Boot, Service

\* For every threshold, cap and number of boots: as long as no session died
\* inside Init and no save failed, the streak reported to the ground is the
\* number of short sessions in a row and BootCount the number of boots.
THEOREM StreakCorrect == Spec => []StreakIsTrue
<1>1. BootInv => StreakIsTrue BY DEF BootInv, StreakIsTrue
<1>2. TypeOK /\ BootInv /\ [Next]_vars => (TypeOK /\ BootInv)'
  BY NextType, NextBoot
<1> QED BY <1>1, <1>2, InitType, InitBoot, PTL DEF Spec
==============================================================================
