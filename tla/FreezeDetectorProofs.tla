------------------------ MODULE FreezeDetectorProofs ------------------------
(***************************************************************************)
(* For any limits, rounds and lateness: the sleeps of the world loop stay  *)
(* bounded, and a server is killed only when its world has been stuck for  *)
(* longer than MaxCoreStuckTime or its clock wrapped since the last change;*)
(* and a hang is noticed within the deadline.                              *)
(***************************************************************************)
EXTENDS FreezeDetector, TLAPS

\* The first round's sleep is measured from a loop that has only begun.
SleepInv == TypeOK /\ SleepBounded /\ (~started => prevSleepTime = 0)

LEMMA ModType ==
  ASSUME NEW n \in Nat
  PROVE  n % W \in 0 .. W - 1
  BY TimeAssumption

\* One tick of the clock: it moves on by one or, at its end, to 0.
LEMMA ModTick ==
  ASSUME NEW n \in 0 .. W - 1
  PROVE  (n + 1) % W = n + 1 \/ (n + 1) % W = 0
<1>1. CASE n + 1 < W
  BY <1>1, TimeAssumption
<1>2. CASE n + 1 = W
  BY <1>2, TimeAssumption
<1> QED BY <1>1, <1>2, TimeAssumption

LEMMA ConstantTypes ==
  /\ Deadline \in Nat /\ Deadline > MaxStuck
  /\ Old \in Nat /\ Old > MaxStuck
  BY TimeAssumption DEF Deadline, Old

LEMMA InitTypes == Init => TypeOK
<1> SUFFICES ASSUME Init PROVE TypeOK
  OBVIOUS
<1>1. now \in 0 .. W - 1 /\ lastChange \in 0 .. W - 1
  BY TimeAssumption DEF Init
<1>2. timer \in Int /\ timer >= -MaxLate
  BY TimeAssumption DEF Init
<1>3. age \in 0 .. Old /\ prevSleepTime \in Nat
  BY ConstantTypes DEF Init
<1> QED BY <1>1, <1>2, <1>3 DEF Init, TypeOK

LEMMA SleepInvInductive == SleepInv /\ [Next]_vars => SleepInv'
<1> SUFFICES ASSUME SleepInv, [Next]_vars
             PROVE  SleepInv'
  OBVIOUS
<1> USE DEF SleepInv, SleepBounded
<1>1. CASE Tick
  <2>1. (now + 1) % W \in 0 .. W - 1
    BY ModType, TimeAssumption DEF TypeOK
  <2>2. age' \in 0 .. Old
    BY <1>1, ConstantTypes DEF Tick, TypeOK
  <2> QED BY <1>1, <2>1, <2>2, TimeAssumption DEF Tick, TypeOK
<1>2. CASE Round
  <2>1. CASE started
    <3>1. age >= Work + prevSleepTime
      BY <1>2, <2>1 DEF Round
    <3>2. prevSleepTime' = Sleep(age)
      BY <1>2, <2>1 DEF Round
    <3>3. Sleep(age) \in Nat /\ Sleep(age) <= WorldSleep
      BY <3>1, ConstantTypes, TimeAssumption DEF Sleep, TypeOK
    <3> QED BY <1>2, <3>2, <3>3, ConstantTypes DEF Round, TypeOK
  <2>2. CASE ~started
    <3>1. prevSleepTime' = Sleep(0)
      BY <1>2, <2>2 DEF Round
    <3>2. Sleep(0) = WorldSleep
      BY <2>2, TimeAssumption DEF Sleep
    <3> QED BY <1>2, <3>1, <3>2, ConstantTypes, TimeAssumption DEF Round, TypeOK
  <2> QED BY <2>1, <2>2
<1>3. CASE CheckMoved \/ CheckWaits
  <2>1. /\ moved' \in BOOLEAN /\ timer' = CheckPeriod /\ lastChange' \in 0 .. W - 1
        /\ UNCHANGED <<now, age, started, prevSleepTime, killed>>
    BY <1>3 DEF CheckMoved, CheckWaits, TypeOK
  <2>2. timer' \in Int /\ timer' >= -MaxLate
    BY <2>1, TimeAssumption
  <2> QED BY <2>1, <2>2 DEF TypeOK
<1>4. CASE CheckKills
  BY <1>4 DEF CheckKills, TypeOK
<1>5. CASE UNCHANGED vars
  BY <1>5 DEF vars, TypeOK
<1> QED BY <1>1, <1>2, <1>3, <1>4, <1>5 DEF Next

LEMMA SleepInvariant == Spec => []SleepInv
<1>1. Init => SleepInv
  BY InitTypes, TimeAssumption DEF Init, SleepInv, SleepBounded
<1> QED BY <1>1, SleepInvInductive, PTL DEF Spec

\* No sleep of the world loop (Master.cpp:182) is longer than WORLD_SLEEP_CONST, however
\* the clock wraps.
THEOREM SleepsBounded == Spec => []SleepBounded
<1>1. SleepInv => SleepBounded
  BY DEF SleepInv
<1> QED BY <1>1, SleepInvariant, PTL

\* The state keeps its types, the clock its 32 bits.
THEOREM TypeCorrect == Spec => []TypeOK
<1>1. SleepInv => TypeOK
  BY DEF SleepInv
<1> QED BY <1>1, SleepInvariant, PTL

LEMMA FreezeInvInductive == SleepInv /\ FreezeInv /\ [Next]_vars => FreezeInv'
<1> SUFFICES ASSUME SleepInv, FreezeInv, [Next]_vars
             PROVE  FreezeInv'
  OBVIOUS
<1> USE DEF FreezeInv, OnlyFrozenKilled
<1>1. TypeOK' /\ SleepBounded'
  BY SleepInvInductive DEF SleepInv
<1>2. CASE Tick
  <2>1. now' = now + 1 \/ now' = 0
    BY <1>2, ModTick DEF Tick, TypeOK
  <2>2. UNCHANGED <<moved, lastChange, killed>> /\ ~killed
    BY <1>2 DEF Tick
  <2>3. age' = (IF age < Old THEN age + 1 ELSE age)
    BY <1>2 DEF Tick
  <2>4. ASSUME ~moved, lastChange <= now'
        PROVE  now' - lastChange <= age' \/ age' = Old
    BY <2>1, <2>3, <2>4, ConstantTypes DEF TypeOK
  <2> QED BY <1>1, <2>2, <2>4
<1>3. CASE Round
  BY <1>1, <1>3 DEF Round
<1>4. CASE CheckMoved
  BY <1>1, <1>4 DEF CheckMoved, TypeOK
<1>5. CASE CheckWaits
  BY <1>1, <1>5 DEF CheckWaits
<1>6. CASE CheckKills
  <2>1. lastChange <= now => now - lastChange > MaxStuck
    BY <1>6, TimeAssumption DEF CheckKills, getMSTimeDiff, TypeOK
  <2>2. age > MaxStuck \/ lastChange > now
    BY <1>6, <2>1, ConstantTypes, TimeAssumption DEF CheckKills, TypeOK
  <2> QED BY <1>1, <1>6, <2>2 DEF CheckKills
<1>7. CASE UNCHANGED vars
  BY <1>1, <1>7 DEF vars
<1> QED BY <1>2, <1>3, <1>4, <1>5, <1>6, <1>7 DEF Next

\* FreezeDetectorHandler (Master.cpp:289) kills only a server whose world loop has begun
\* no round for longer than MaxCoreStuckTime, or whose clock wrapped since the last change.
THEOREM OnlyFrozen == Spec => []OnlyFrozenKilled
<1>1. Init => SleepInv /\ FreezeInv
  BY InitTypes, TimeAssumption DEF Init, SleepInv, FreezeInv, OnlyFrozenKilled, SleepBounded
<1>2. SleepInv /\ FreezeInv /\ [Next]_vars => (SleepInv /\ FreezeInv)'
  BY SleepInvInductive, FreezeInvInductive
<1>3. FreezeInv => OnlyFrozenKilled
  BY DEF FreezeInv
<1> QED BY <1>1, <1>2, <1>3, PTL DEF Spec

(***************************************************************************)
(* A hang is noticed.  Since is the time since the last change was noted.  *)
(* While the count has moved, the round is younger than the last check;    *)
(* while it has not, it is not much older than the change noted, and the   *)
(* checks since have all found that change recent.                         *)
(***************************************************************************)
Since    == IF lastChange <= now THEN now - lastChange ELSE W - lastChange + now
FirstGap == IF FirstCheck > CheckPeriod THEN FirstCheck ELSE CheckPeriod

HangInv ==
  /\ timer <= FirstGap /\ KilledInTime
  /\ ~killed /\ moved => age <= FirstGap - timer
  /\ ~killed /\ ~moved =>
       /\ age <= FirstGap + MaxLate + Since
       /\ \/ Since <= MaxStuck + CheckPeriod - timer
          \/ Since <= FirstCheck - timer /\ age <= FirstCheck - timer

LEMMA SinceTicks ==
  ASSUME TypeOK, UNCHANGED lastChange, now' = (now + 1) % W, Since + 1 < W
  PROVE  Since' = Since + 1
<1>1. CASE now + 1 < W
  <2>1. now' = now + 1
    BY <1>1, TimeAssumption DEF TypeOK
  <2> QED
    BY <1>1, <2>1, TimeAssumption DEF TypeOK, Since
<1>2. CASE now + 1 = W
  <2>1. now' = 0
    BY <1>2, TimeAssumption DEF TypeOK
  <2> QED
    BY <1>2, <2>1, TimeAssumption DEF TypeOK, Since
<1> QED
  BY <1>1, <1>2, TimeAssumption DEF TypeOK

LEMMA HangInit == Init => HangInv
<1> SUFFICES ASSUME Init PROVE HangInv
  OBVIOUS
<1>1. FirstGap \in Nat /\ FirstGap >= FirstCheck /\ Deadline \in Nat
  BY TimeAssumption, ConstantTypes DEF FirstGap
<1>2. Since = 0
  BY DEF Init, Since
<1> QED
  BY <1>1, <1>2, TimeAssumption DEF Init, HangInv, KilledInTime

LEMMA HangStep == W > Deadline /\ TypeOK /\ TypeOK' /\ HangInv /\ [Next]_vars => HangInv'
<1> SUFFICES ASSUME W > Deadline, TypeOK, TypeOK', HangInv, [Next]_vars PROVE HangInv'
  OBVIOUS
<1>1. /\ FirstGap \in Nat /\ FirstGap >= FirstCheck /\ FirstGap >= CheckPeriod
      /\ Deadline = FirstGap + MaxLate + MaxStuck + CheckPeriod + MaxLate
  BY TimeAssumption DEF FirstGap, Deadline
<1>2. Since \in Nat /\ Since < W
  BY TimeAssumption DEF Since, TypeOK
<1>3. CASE Tick
  <2>1. /\ ~killed /\ timer' = timer - 1 /\ timer > -MaxLate /\ age' <= age + 1
        /\ UNCHANGED <<moved, lastChange, killed>> /\ now' = (now + 1) % W
    BY <1>3, ConstantTypes DEF Tick, TypeOK
  <2>2. CASE moved
    BY <1>1, <2>1, <2>2, TimeAssumption DEF HangInv, KilledInTime, TypeOK
  <2>3. CASE ~moved
    <3>1. Since + 1 < W
      BY <1>1, <1>2, <2>1, <2>3, TimeAssumption DEF HangInv, TypeOK
    <3>2. Since' = Since + 1
      BY <2>1, <3>1, SinceTicks
    <3>3. /\ age' <= FirstGap + MaxLate + Since'
          /\ \/ Since' <= MaxStuck + CheckPeriod - timer'
             \/ Since' <= FirstCheck - timer' /\ age' <= FirstCheck - timer'
      BY <1>1, <1>2, <2>1, <2>3, <3>2, TimeAssumption DEF HangInv, TypeOK
    <3>4. age' <= Deadline
      BY <1>1, <1>2, <2>1, <3>2, <3>3, TimeAssumption DEF TypeOK
    <3> QED
      BY <1>1, <2>1, <2>3, <3>3, <3>4, TimeAssumption DEF HangInv, KilledInTime, TypeOK
  <2> QED
    BY <2>2, <2>3
<1>4. CASE Round
  BY <1>1, <1>4, TimeAssumption DEF Round, HangInv, KilledInTime, TypeOK
<1>5. CASE CheckMoved
  <2>1. Since' = 0
    BY <1>5 DEF CheckMoved, Since, TypeOK
  <2>2. /\ ~killed /\ ~killed' /\ moved /\ ~moved' /\ timer' = CheckPeriod
        /\ age' = age /\ age <= FirstGap - timer /\ timer >= -MaxLate
    BY <1>5 DEF CheckMoved, HangInv, TypeOK
  <2> QED
    BY <1>1, <2>1, <2>2, TimeAssumption DEF HangInv, KilledInTime, TypeOK
<1>6. CASE CheckWaits
  <2>1. /\ ~killed /\ ~moved /\ timer' = CheckPeriod
        /\ UNCHANGED <<now, moved, lastChange, age, killed>>
        /\ getMSTimeDiff(lastChange, now) <= MaxStuck
    BY <1>6 DEF CheckWaits
  <2>2. Since <= MaxStuck /\ Since' = Since
    BY <2>1, TimeAssumption DEF getMSTimeDiff, Since, TypeOK
  <2> QED
    BY <1>1, <1>2, <2>1, <2>2, TimeAssumption DEF HangInv, KilledInTime, TypeOK
<1>7. CASE CheckKills
  BY <1>7 DEF CheckKills, HangInv, KilledInTime
<1>8. CASE UNCHANGED vars
  BY <1>8 DEF vars, HangInv, KilledInTime, Since
<1> QED
  BY <1>3, <1>4, <1>5, <1>6, <1>7, <1>8 DEF Next

\* With a clock that does not wrap within the deadline (49 days are longer than any
\* deadline of minutes), a server lives only while a round of its world loop has begun
\* within the deadline, whenever its checks run and however late.
THEOREM HangNoticed ==
  ASSUME W > Deadline
  PROVE  Spec => []KilledInTime
<1>1. TypeOK /\ TypeOK' /\ HangInv /\ [Next]_vars => HangInv'
  BY HangStep
<1>2. HangInv => KilledInTime
  BY DEF HangInv
<1> QED
  BY <1>1, <1>2, HangInit, TypeCorrect, PTL DEF Spec
=============================================================================
