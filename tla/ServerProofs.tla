---------------------------- MODULE ServerProofs ----------------------------
(***************************************************************************)
(* For any number of pool threads and any configurations: the pool stays   *)
(* up until the stop, what the server started goes on, and the cleanup     *)
(* comes after every join.                                                 *)
(***************************************************************************)
EXTENDS Server, TLAPS

BeforePool == {"setup", "signals", "pool"}
Stopping   == {"joinPool", "joinCli", "cleanup", "returned"}

\* What an operation that was started needs to go on.
GoesOn(w) == w \in work \/ \E t \in Pool : pool[t] = w

\* The threads exist from the step of Run that starts them.
BirthInv ==
  /\ \A t \in Pool : main \in BeforePool \cup {"failed"} <=> pool[t] = "unborn"
  /\ main \in BeforePool \cup {"cli", "failed"} => cli = "unborn"

\* A pool thread's run() ends, and main leaves the world loop, only after the stop.
StopInv ==
  /\ ioStopped => stopEvent
  /\ \A t \in Pool : pool[t] \in {"exited", "stored"} => stopEvent
  /\ main \in Stopping => stopEvent

\* The operations outstanding.  The signals' is over once its handler has stopped the world.
WorkInv ==
  /\ main \notin {"setup", "signals", "failed"} /\ ~stopEvent => GoesOn("signal")
  /\ listening => GoesOn("accept")
  /\ main = "loop" /\ config.freeze => GoesOn("freeze")

\* What the joins have waited for, and the locks between setup and cleanup.
JoinInv ==
  /\ main \in {"joinCli", "cleanup", "returned"} => \A t \in Pool : pool[t] = "exited"
  /\ main \in {"cleanup", "returned"} => cli \in {"unborn", "exited"}
  /\ main \notin {"setup", "returned"} => sslLocks

\* What TypeOK needs to be inductive.
CountInv == signals <= sent /\ (cli = "add" => lines > 0)

IndInv == TypeOK /\ CountInv /\ BirthInv /\ StopInv /\ WorkInv /\ JoinInv

LEMMA InitInv == Init => IndInv
<1> SUFFICES ASSUME Init PROVE IndInv
  OBVIOUS
<1>1. TypeOK /\ CountInv
  <2>1. cliCmdQueue \in Seq(1 .. MaxLines)
    BY DEF Init
  <2>2. signals \in 0 .. MaxSignals /\ sent \in 0 .. MaxSignals /\ lines \in 0 .. MaxLines
    BY ServerAssumption DEF Init
  <2>3. pool \in [Pool -> PoolStates] /\ work \subseteq Work
    BY DEF Init, PoolStates
  <2>4. /\ config \in Settings /\ main \in MainStates /\ cli \in CliStates /\ cli # "add"
        /\ {sslLocks, stopEvent, ioStopped, listening} \subseteq BOOLEAN
    BY DEF Init, MainStates, CliStates
  <2>5. signals <= sent
    BY DEF Init
  <2> QED BY <2>1, <2>2, <2>3, <2>4, <2>5 DEF TypeOK, CountInv
<1>2. BirthInv /\ StopInv
  BY DEF Init, BirthInv, StopInv, BeforePool, Stopping
<1>3. WorkInv /\ JoinInv
  BY DEF Init, WorkInv, JoinInv
<1> QED BY <1>1, <1>2, <1>3 DEF IndInv

(***************************************************************************)
(* The main thread's steps touch neither signals nor the console's queue.  *)
(***************************************************************************)
LEMMA MainTypes == TypeOK /\ CountInv /\ Main => TypeOK' /\ CountInv'
<1> SUFFICES ASSUME TypeOK, CountInv, Main PROVE TypeOK' /\ CountInv'
  OBVIOUS
<1> USE DEF Goto, mainVars, ioVars, sigVars, cliVars, TypeOK, CountInv, MainStates, PoolStates, CliStates, Work
<1>1. CASE SetUp           BY <1>1 DEF SetUp
<1>2. CASE WaitForSignals  BY <1>2 DEF WaitForSignals
<1>3. CASE StartPool       BY <1>3 DEF StartPool
<1>4. CASE LaunchCli       BY <1>4 DEF LaunchCli
<1>5. CASE NetworkStarts   BY <1>5 DEF NetworkStarts
<1>6. CASE NetworkRefused \/ NetworkCrashes
  BY <1>6 DEF NetworkRefused, NetworkCrashes
<1>7. CASE StartFreezeTimer
  BY <1>7 DEF StartFreezeTimer
<1>8. CASE LoopEnds        BY <1>8 DEF LoopEnds
<1>9. CASE JoinPool \/ JoinCli \/ CleanUp
  BY <1>9 DEF JoinPool, JoinCli, CleanUp
<1> QED BY <1>1, <1>2, <1>3, <1>4, <1>5, <1>6, <1>7, <1>8, <1>9 DEF Main

LEMMA MainInv == IndInv /\ Main => IndInv'
<1> SUFFICES ASSUME IndInv, Main PROVE IndInv'
  OBVIOUS
<1>0. TypeOK' /\ CountInv'
  BY MainTypes DEF IndInv
<1>t. \A t \in Pool : pool[t] \in PoolStates
  BY DEF IndInv, TypeOK
<1> USE <1>t DEF Goto, mainVars, ioVars, sigVars, cliVars, IndInv, BirthInv, StopInv, JoinInv,
             WorkInv, GoesOn, BeforePool, Stopping
<1>1. CASE SetUp           BY <1>0, <1>1 DEF SetUp
<1>2. CASE WaitForSignals  BY <1>0, <1>2 DEF WaitForSignals
<1>3. CASE StartPool       
  <2>1. \A t \in Pool : pool[t] = "unborn" /\ pool'[t] = "running"
    BY <1>3 DEF StartPool
  <2> QED BY <1>0, <1>3, <2>1 DEF StartPool
<1>4. CASE LaunchCli       BY <1>0, <1>4 DEF LaunchCli
<1>5. CASE NetworkStarts   BY <1>0, <1>5 DEF NetworkStarts
<1>6. CASE NetworkRefused  BY <1>0, <1>6 DEF NetworkRefused
<1>7. CASE NetworkCrashes  BY <1>0, <1>7 DEF NetworkCrashes
<1>8. CASE StartFreezeTimer
  BY <1>0, <1>8 DEF StartFreezeTimer
<1>9. CASE LoopEnds        BY <1>0, <1>9 DEF LoopEnds
<1>10. CASE JoinPool       BY <1>0, <1>10 DEF JoinPool
<1>11. CASE JoinCli        BY <1>0, <1>11 DEF JoinCli
<1>12. CASE CleanUp        BY <1>0, <1>12 DEF CleanUp
<1> QED BY <1>1, <1>2, <1>3, <1>4, <1>5, <1>6, <1>7, <1>8, <1>9, <1>10, <1>11, <1>12 DEF Main

(***************************************************************************)
(* A pool thread's step changes only its own entry of pool.                *)
(***************************************************************************)
LEMMA PoolInv == ASSUME NEW t \in Pool PROVE IndInv /\ PoolThread(t) => IndInv'
<1> SUFFICES ASSUME IndInv, PoolThread(t) PROVE IndInv'
  OBVIOUS
<1>t. pool \in [Pool -> PoolStates]
  BY DEF IndInv, TypeOK
<1> USE <1>t DEF mainVars, ioVars, sigVars, cliVars, IndInv, CountInv, BirthInv, StopInv, JoinInv,
             WorkInv, GoesOn, BeforePool, Stopping, Alive
<1>1. ASSUME NEW w \in Work, RunHandler(t, w) PROVE IndInv'
  <2>1. /\ pool' = [pool EXCEPT ![t] = w] /\ work' = work \ {w} /\ w \in work
        /\ pool[t] = "running" /\ w \in {"signal", "accept", "freeze"}
    BY <1>1 DEF RunHandler, Work
  <2>2. TypeOK' /\ CountInv'
    <3>1. pool' \in [Pool -> PoolStates] /\ work' \subseteq Work
      BY <2>1 DEF PoolStates, Work, TypeOK
    <3>2. signals' \in 0 .. MaxSignals /\ signals' <= sent
      BY <1>1, ServerAssumption DEF RunHandler, TypeOK
    <3> QED BY <1>1, <3>1, <3>2 DEF RunHandler, TypeOK
  <2>3. BirthInv' /\ StopInv' /\ JoinInv'
    BY <1>1, <2>1 DEF RunHandler
  <2>4. \A v : v # "running" /\ GoesOn(v) => v \in work' \/ \E u \in Pool : pool'[u] = v
    BY <2>1
  <2>5. WorkInv'
    BY <1>1, <2>4 DEF RunHandler
  <2> QED BY <2>2, <2>3, <2>5
<1>2. CASE RunReturns(t)
  <2>1. /\ pool' = [pool EXCEPT ![t] = "exited"] /\ UNCHANGED <<work, mainVars, stopEvent>>
        /\ pool[t] = "running" /\ ioStopped'
    BY <1>2 DEF RunReturns
  <2>2. stopEvent
    BY <1>2 DEF RunReturns, OutOfWork
  <2>3. TypeOK' /\ CountInv'
    BY <1>2 DEF RunReturns, TypeOK, PoolStates
  <2>4. BirthInv' /\ StopInv' /\ JoinInv'
    BY <1>2, <2>1, <2>2 DEF RunReturns
  <2>5. \A v : v # "running" /\ GoesOn(v) => v \in work' \/ \E u \in Pool : pool'[u] = v
    BY <2>1 DEF PoolStates
  <2>6. WorkInv'
    BY <2>1, <2>2, <2>5
  <2> QED BY <2>3, <2>4, <2>6
<1>3. CASE SignalHandler(t)
  <2>1. /\ pool' = [pool EXCEPT ![t] = "stored"] /\ UNCHANGED <<work, mainVars, ioStopped>>
        /\ pool[t] = "signal" /\ stopEvent'
    BY <1>3 DEF SignalHandler
  <2>2. TypeOK' /\ CountInv'
    BY <1>3 DEF SignalHandler, TypeOK, PoolStates
  <2>3. BirthInv' /\ StopInv' /\ JoinInv'
    BY <1>3, <2>1 DEF SignalHandler
  <2>4. \A v : v # "signal" /\ GoesOn(v) => v \in work' \/ \E u \in Pool : pool'[u] = v
    BY <2>1
  <2>5. WorkInv'
    BY <2>1, <2>4
  <2> QED BY <2>2, <2>3, <2>5
<1>4. CASE Rearm(t)
  <2>1. /\ pool' = [pool EXCEPT ![t] = "running"] /\ work' = work \cup {pool[t]}
        /\ pool[t] \in {"accept", "freeze"} /\ UNCHANGED <<mainVars, stopEvent, ioStopped>>
    BY <1>4 DEF Rearm
  <2>2. TypeOK' /\ CountInv'
    BY <1>4 DEF Rearm, TypeOK, PoolStates, Work
  <2>3. BirthInv' /\ StopInv' /\ JoinInv'
    BY <1>4, <2>1 DEF Rearm
  <2>4. \A v : GoesOn(v) => v \in work' \/ \E u \in Pool : pool'[u] = v
    BY <2>1
  <2>5. WorkInv'
    BY <2>1, <2>4
  <2> QED BY <2>2, <2>3, <2>5
<1>5. CASE StoreExitCode(t)
  <2>1. /\ pool' = [pool EXCEPT ![t] = "running"] /\ UNCHANGED <<work, mainVars, stopEvent, ioStopped>>
        /\ pool[t] = "stored"
    BY <1>5 DEF StoreExitCode
  <2>2. TypeOK' /\ CountInv'
    BY <1>5 DEF StoreExitCode, TypeOK, PoolStates
  <2>3. BirthInv' /\ StopInv' /\ JoinInv'
    BY <1>5, <2>1 DEF StoreExitCode
  <2>4. \A v : v # "stored" /\ GoesOn(v) => v \in work' \/ \E u \in Pool : pool'[u] = v
    BY <2>1
  <2>5. WorkInv'
    BY <2>1, <2>4
  <2> QED BY <2>2, <2>3, <2>5
<1> QED BY <1>1, <1>2, <1>3, <1>4, <1>5 DEF PoolThread

(***************************************************************************)
(* The operator and the console leave the pool and its work alone.         *)
(***************************************************************************)
Console == CliLoop \/ CliTyped \/ CliNothing \/ CliEof \/ QueueCliCommand \/ CliStored

LEMMA ConsoleInv == IndInv /\ (SendSignal \/ Console) => IndInv'
<1> SUFFICES ASSUME IndInv, SendSignal \/ Console PROVE IndInv'
  OBVIOUS
<1> USE DEF mainVars, ioVars, sigVars, cliVars, Alive
<1>1. TypeOK' /\ CountInv'
  <2> USE ServerAssumption DEF IndInv, TypeOK, CountInv, CliStates
  <2>1. CASE SendSignal      BY <2>1 DEF SendSignal
  <2>2. CASE CliLoop         BY <2>2 DEF CliLoop
  <2>3. CASE CliTyped        BY <2>3 DEF CliTyped
  <2>4. CASE CliNothing      BY <2>4 DEF CliNothing
  <2>5. CASE CliEof          BY <2>5 DEF CliEof
  <2>6. CASE QueueCliCommand BY <2>6 DEF QueueCliCommand
  <2>7. CASE CliStored       BY <2>7 DEF CliStored
  <2> QED BY <2>1, <2>2, <2>3, <2>4, <2>5, <2>6, <2>7 DEF Console
<1>2. /\ UNCHANGED <<mainVars, ioVars>> /\ (stopEvent => stopEvent')
      /\ cli' = cli \/ (main \notin {"returned", "failed"} /\ cli \notin {"unborn", "exited"})
  <2> USE ServerAssumption DEF IndInv, TypeOK
  <2>1. CASE SendSignal      BY <2>1 DEF SendSignal
  <2>2. CASE CliLoop         BY <2>2 DEF CliLoop
  <2>3. CASE CliTyped        BY <2>3 DEF CliTyped
  <2>4. CASE CliNothing      BY <2>4 DEF CliNothing
  <2>5. CASE CliEof          BY <2>5 DEF CliEof
  <2>6. CASE QueueCliCommand BY <2>6 DEF QueueCliCommand
  <2>7. CASE CliStored       BY <2>7 DEF CliStored
  <2> QED BY <2>1, <2>2, <2>3, <2>4, <2>5, <2>6, <2>7 DEF Console
<1>3. BirthInv' /\ StopInv' /\ JoinInv'
  BY <1>2 DEF IndInv, BirthInv, StopInv, JoinInv
<1>4. WorkInv'
  BY <1>2 DEF IndInv, WorkInv, GoesOn
<1> QED BY <1>1, <1>3, <1>4 DEF IndInv

LEMMA Inductive == IndInv /\ [Next]_vars => IndInv'
<1> SUFFICES ASSUME IndInv, [Next]_vars PROVE IndInv'
  OBVIOUS
<1>1. CASE UNCHANGED vars
  BY <1>1 DEF vars, mainVars, ioVars, sigVars, cliVars, IndInv, TypeOK, CountInv, BirthInv, StopInv,
           WorkInv, JoinInv, GoesOn
<1> QED BY <1>1, MainInv, PoolInv, ConsoleInv DEF Next, Console

LEMMA Implied == IndInv => TypeOK /\ PoolStaysUp /\ CleanupLast /\ NothingGivenUp
<1> SUFFICES ASSUME IndInv PROVE PoolStaysUp /\ CleanupLast /\ NothingGivenUp
  BY DEF IndInv
<1>1. PoolStaysUp
  BY DEF IndInv, StopInv, PoolStaysUp
<1>2. CleanupLast
  BY DEF IndInv, BirthInv, JoinInv, CleanupLast, PoolLives, CliLives, BeforePool
<1>3. NothingGivenUp
  BY DEF IndInv, WorkInv, GoesOn, NothingGivenUp
<1> QED BY <1>1, <1>2, <1>3

LEMMA Invariance == Spec => []IndInv
<1> QED BY InitInv, Inductive, PTL DEF Spec

\* The state of the server process keeps its types, whatever the configuration.
THEOREM TypeCorrect == Spec => []TypeOK
<1> QED BY Invariance, Implied, PTL

\* No pool thread's run() returns, and the io_service is not stopped, before StopNow
\* (Master.cpp:95): the signal wait holds the pool up until its handler stops the world.
THEOREM PoolUp == Spec => []PoolStaysUp
<1> QED BY Invariance, Implied, PTL

\* threadsCleanup and the exit code (Master.cpp:158) come after every thread that could
\* use the locks, or be half way through StopNow, has been joined.
THEOREM CleanupAfterJoins == Spec => []CleanupLast
<1> QED BY Invariance, Implied, PTL

\* While the world loop runs and is not stopped, the signal wait, the accept chain and
\* the freeze check (Master.cpp:101, :136, :143) are each outstanding or being handled.
THEOREM StartedGoesOn == Spec => []NothingGivenUp
<1> QED BY Invariance, Implied, PTL
=============================================================================
