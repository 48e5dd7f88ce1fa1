--------------------------- MODULE FreezeDetector ---------------------------
(***************************************************************************)
(* The world loop and the check that it is not stuck: WorldUpdateLoop on   *)
(* the main thread counts its rounds, FreezeDetectorHandler on a pool      *)
(* thread looks every second whether the count has moved and kills the     *)
(* server when it has not for MaxCoreStuckTime.  Time is in ticks.  The    *)
(* detector keeps times in 32 bits (W here), getMSTimeDiff works on 64.    *)
(*                                                                         *)
(* Instead of World::m_worldLoopCounter and the detector's copy of it the  *)
(* model keeps whether they differ, and instead of realPrevTime how long   *)
(* ago it was taken.                                                       *)
(***************************************************************************)
EXTENDS Integers

CONSTANTS W,            \* 2^32 ms in ticks: a uint32 wraps here
          W64,          \* 2^64 ms in ticks, beyond any time a run reaches
          Uptime,       \* the longest time a run lasts (a bound); from W on, no bound
          WorldSleep,   \* WORLD_SLEEP_CONST
          Work,         \* the sleep that stands for the update of the world
          FirstCheck,   \* after how long the first check is due
          CheckPeriod,  \* and every other
          MaxLate,      \* how late a pool thread may run a check that is due (a bound)
          MaxStuck      \* _maxCoreStuckTimeInMs

\* The longest the world can be stuck without being killed: until the check that last
\* saw the count move, and from there until the one that finds it stuck for too long.
Deadline ==
  (IF FirstCheck > CheckPeriod THEN FirstCheck ELSE CheckPeriod) + MaxLate
     + MaxStuck + CheckPeriod + MaxLate

ASSUME TimeAssumption ==
  /\ W \in Nat \ {0} /\ Uptime \in Nat /\ WorldSleep \in Nat
  /\ Work \in Nat \ {0} /\ Work >= WorldSleep
  /\ FirstCheck \in Nat /\ CheckPeriod \in Nat \ {0} /\ MaxLate \in Nat /\ MaxStuck \in Nat
  /\ W64 \in Nat /\ W64 > W + MaxStuck

VARIABLES
  now,                  \* getMSTime() as a uint32
  moved,                \* World::m_worldLoopCounter # _worldLoopCounter
  lastChange,           \* _lastChangeMsTime
  timer,                \* ticks until the check is due; negative when it is late
  age,                  \* ticks since the world loop began its last round (since the
                        \* start, before the first); not counted beyond Old
  started,              \* the world loop has begun its first round
  prevSleepTime,        \* prevSleepTime of WorldUpdateLoop
  killed                \* the handler's ASSERT has failed

vars == <<now, moved, lastChange, timer, age, started, prevSleepTime, killed>>

Old == Deadline + 2 * WorldSleep + 1

Init ==
  /\ now = 0 /\ moved = FALSE /\ lastChange = 0 /\ timer = FirstCheck
  /\ age = 0 /\ started = FALSE /\ prevSleepTime = 0 /\ killed = FALSE

\* getMSTimeDiff: the arguments are widened to 64 bits.
getMSTimeDiff(old, new) == IF old > new THEN (W64 - 1 - old) + new ELSE new - old

\* Mutant of Tick: the time is not cut to 32 bits.
TickWide ==
  /\ ~killed /\ now < Uptime /\ timer > -MaxLate
  /\ now' = now + 1 /\ timer' = timer - 1
  /\ age' = IF age < Old THEN age + 1 ELSE age
  /\ UNCHANGED <<moved, lastChange, started, prevSleepTime, killed>>

\* Time passes; a check that is due waits MaxLate at most.
Tick ==
  /\ ~killed /\ now < Uptime /\ timer > -MaxLate
  /\ now' = (now + 1) % W /\ timer' = timer - 1
  /\ age' = IF age < Old THEN age + 1 ELSE age
  /\ UNCHANGED <<moved, lastChange, started, prevSleepTime, killed>>

\* Mutant of Sleep: the time the last round took is not taken off.
SleepOnTop(diff) == WorldSleep + prevSleepTime

\* How long a round sleeps besides its work, when the last one took diff.
Sleep(diff) ==
  IF diff <= WorldSleep + prevSleepTime THEN WorldSleep + prevSleepTime - diff ELSE 0

\* A round of WorldUpdateLoop begins: the first at once, every other when the one before
\* has done its sleeps, or later.
Round ==
  /\ ~killed
  /\ ~started \/ age >= Work + prevSleepTime
  /\ moved' = TRUE /\ age' = 0 /\ started' = TRUE
  /\ prevSleepTime' = Sleep(IF started THEN age ELSE 0)
  /\ UNCHANGED <<now, lastChange, timer, killed>>

\* Mutant of CheckMoved: when the count moved is not noted.
CheckMovedUnnoted ==
  /\ ~killed /\ timer <= 0 /\ moved
  /\ moved' = FALSE /\ timer' = CheckPeriod
  /\ UNCHANGED <<now, lastChange, age, started, prevSleepTime, killed>>

\* FreezeDetectorHandler finds that the count has moved, ...
CheckMoved ==
  /\ ~killed /\ timer <= 0 /\ moved
  /\ lastChange' = now /\ moved' = FALSE /\ timer' = CheckPeriod
  /\ UNCHANGED <<now, age, started, prevSleepTime, killed>>

\* Mutant of CheckWaits: the time is noted though the count has not moved.
CheckWaitsNoted ==
  /\ ~killed /\ timer <= 0 /\ ~moved
  /\ getMSTimeDiff(lastChange, now) <= MaxStuck
  /\ timer' = CheckPeriod /\ lastChange' = now
  /\ UNCHANGED <<now, moved, age, started, prevSleepTime, killed>>

\* ... that it has not, but for no longer than it may, ...
CheckWaits ==
  /\ ~killed /\ timer <= 0 /\ ~moved
  /\ getMSTimeDiff(lastChange, now) <= MaxStuck
  /\ timer' = CheckPeriod
  /\ UNCHANGED <<now, moved, lastChange, age, started, prevSleepTime, killed>>

\* ... or that the world thread hangs, and kills the server.
CheckKills ==
  /\ ~killed /\ timer <= 0 /\ ~moved
  /\ getMSTimeDiff(lastChange, now) > MaxStuck
  /\ killed' = TRUE
  /\ UNCHANGED <<now, moved, lastChange, timer, age, started, prevSleepTime>>

Next == Tick \/ Round \/ CheckMoved \/ CheckWaits \/ CheckKills

Spec == Init /\ [][Next]_vars

(***************************************************************************)
(* Properties.                                                             *)
(***************************************************************************)
\* The state has the types the code gives it.
TypeOK ==
  /\ now \in 0 .. W - 1 /\ lastChange \in 0 .. W - 1
  /\ moved \in BOOLEAN /\ started \in BOOLEAN /\ killed \in BOOLEAN
  /\ timer \in Int /\ timer >= -MaxLate /\ age \in 0 .. Old
  /\ prevSleepTime \in Nat

\* "Time before the server is forced to crash if it is frozen" (tumors.cfg:158): it is
\* killed only if no round of the world loop has begun for longer than that.
KillMeansFrozen == killed => age > MaxStuck

\* What holds of that: a server is killed for no other reason, except at a check
\* that takes place when the clock has wrapped since the count was last seen to move.
OnlyFrozenKilled == killed => age > MaxStuck \/ lastChange > now

\* A world thread that hangs is noticed in time: while the server lives, a round has
\* begun within the deadline.
KilledInTime == age <= Deadline

\* The sleeps that even out the rounds do not add up: none is longer than WORLD_SLEEP_CONST.
SleepBounded == prevSleepTime <= WorldSleep

\* What OnlyFrozenKilled rests on: by the clock no more time has passed since the last
\* change was noted than since the last round, unless the count moved or the clock wrapped.
FreezeInv ==
  /\ TypeOK /\ OnlyFrozenKilled /\ SleepBounded
  /\ ~moved /\ lastChange <= now => now - lastChange <= age \/ age = Old
=============================================================================
