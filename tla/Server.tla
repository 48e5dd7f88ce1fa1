------------------------------- MODULE Server -------------------------------
(***************************************************************************)
(* The server process: Master::Run on the main thread, the io_service      *)
(* thread pool with the handlers it runs, and the console thread.  What    *)
(* the network handlers do to connections is in Network, how the freeze    *)
(* check measures time is in FreezeDetector; here they are work that keeps *)
(* the pool alive and must have ended before the process does.             *)
(***************************************************************************)
EXTENDS Naturals, Integers, Sequences

CONSTANTS Pool,         \* the pool's threads (ThreadPool of the configuration)
          Settings,     \* the configurations a run may start with
          EofSeen,      \* what feof(stdin) may say once readline has met the end of
                        \* the input: GNU readline reads the descriptor, not the stream
          MaxLines,     \* how many commands are typed in a run (a bound)
          MaxSignals    \* how many SIGINT and SIGTERM arrive in a run (a bound)

\* A configuration: PID_FILE, Console.Enable, MaxCoreStuckTime # 0, and what
\* StartNetwork reads: Network.OutUBuff, Network.Threads and what BindIP names.
SettingsType ==
  [pidFile : {"none", "writable", "unwritable"}, console : BOOLEAN, freeze : BOOLEAN,
   outUBuff : Int, threads : Int, bindIp : {"address", "hostname", "in use"}]

ASSUME ServerAssumption ==
  /\ Pool # {} /\ Settings \subseteq SettingsType
  /\ EofSeen \subseteq BOOLEAN /\ MaxLines \in Nat /\ MaxSignals \in Nat

VARIABLES
  config,               \* sConfig
  main,                 \* where the main thread is in Master::Run
  sslLocks,             \* OpenSSLCrypto's locks exist
  stopEvent,            \* World::m_stopEvent
  ioStopped,            \* _ioService has been stopped, or has run out of work
  work,                 \* asynchronous operations outstanding on _ioService
  pool,                 \* what each pool thread does: see PoolStates
  signals,              \* signals that arrived and have not been handled
  sent,                 \* how many signals were sent
  cli,                  \* where the console thread is
  lines,                \* how many commands were typed
  cliCmdQueue,          \* sWorld's command queue
  listening             \* the acceptor listens and its accept chain was started

mainVars == <<config, main, sslLocks, listening>>
ioVars   == <<ioStopped, work, pool>>
sigVars  == <<signals, sent>>
cliVars  == <<cli, lines, cliCmdQueue>>
vars == <<mainVars, stopEvent, ioVars, sigVars, cliVars>>

Work       == {"signal", "accept", "freeze"}
\* "handling" an operation's handler: its name; "stored": StopNow has set
\* m_stopEvent and not yet m_ExitCode.
PoolStates == {"unborn", "running", "stored", "exited"} \cup Work
CliStates  == {"unborn", "loop", "read", "add", "stored", "exited"}
MainStates == {"setup", "signals", "pool", "cli", "network", "freeze", "loop",
               "joinPool", "joinCli", "cleanup", "returned", "failed", "crashed"}

Init ==
  /\ config \in Settings
  /\ main = "setup" /\ sslLocks = FALSE /\ listening = FALSE
  /\ stopEvent = FALSE
  /\ ioStopped = FALSE /\ work = {} /\ pool = [t \in Pool |-> "unborn"]
  /\ signals = 0 /\ sent = 0
  /\ cli = "unborn" /\ lines = 0 /\ cliCmdQueue = <<>>

(***************************************************************************)
(* The main thread.                                                        *)
(***************************************************************************)
Goto(from, to) == main = from /\ main' = to

\* threadsSetup, then the PID file: Run gives up if it cannot be written.
SetUp ==
  /\ main = "setup" /\ sslLocks' = TRUE
  /\ main' = IF config.pidFile = "unwritable" THEN "failed" ELSE "signals"
  /\ UNCHANGED <<config, listening, stopEvent, ioVars, sigVars, cliVars>>

\* Mutant of WaitForSignals: the wait is not started.
WaitForSignalsNot ==
  /\ Goto("signals", "pool")
  /\ UNCHANGED <<config, sslLocks, listening, stopEvent, ioVars, sigVars, cliVars>>

WaitForSignals ==
  /\ Goto("signals", "pool") /\ work' = work \cup {"signal"}
  /\ UNCHANGED <<config, sslLocks, listening, stopEvent, ioStopped, pool, sigVars, cliVars>>

StartPool ==
  /\ Goto("pool", "cli") /\ pool' = [t \in Pool |-> "running"]
  /\ UNCHANGED <<config, sslLocks, listening, stopEvent, ioStopped, work, sigVars, cliVars>>

LaunchCli ==
  /\ Goto("cli", "network")
  /\ cli' = IF config.console THEN "loop" ELSE cli
  /\ UNCHANGED <<config, sslLocks, listening, stopEvent, ioVars, sigVars, lines, cliCmdQueue>>

\* WorldSocketMgr::StartNetwork and, in it, SocketMgr::StartNetwork, which makes
\* no acceptor when Network.Threads is wrong, BindIP is no address or the port
\* cannot be bound.  The caller's caller ignores that the first returns false;
\* the first ignores that the second does, and calls through the null acceptor.
NoAcceptor == config.threads <= 0 \/ config.bindIp # "address"

NetworkStarts ==
  /\ config.outUBuff > 0 /\ ~NoAcceptor
  /\ Goto("network", "freeze")
  /\ listening' = TRUE /\ work' = work \cup {"accept"}
  /\ UNCHANGED <<config, sslLocks, stopEvent, ioStopped, pool, sigVars, cliVars>>

NetworkRefused ==
  /\ config.outUBuff <= 0
  /\ Goto("network", "freeze")
  /\ UNCHANGED <<config, sslLocks, listening, stopEvent, ioVars, sigVars, cliVars>>

NetworkCrashes ==
  /\ config.outUBuff > 0 /\ NoAcceptor
  /\ Goto("network", "crashed")
  /\ UNCHANGED <<config, sslLocks, listening, stopEvent, ioVars, sigVars, cliVars>>

StartFreezeTimer ==
  /\ Goto("freeze", "loop")
  /\ work' = IF config.freeze THEN work \cup {"freeze"} ELSE work
  /\ UNCHANGED <<config, sslLocks, listening, stopEvent, ioStopped, pool, sigVars, cliVars>>

\* Mutant of LoopEnds: the service is not stopped.
LoopEndsOnly ==
  /\ stopEvent /\ Goto("loop", "joinPool")
  /\ UNCHANGED <<config, sslLocks, listening, stopEvent, ioVars, sigVars, cliVars>>

\* WorldUpdateLoop ends, and ShutdownThreadPool stops the io_service.
LoopEnds ==
  /\ stopEvent /\ Goto("loop", "joinPool") /\ ioStopped' = TRUE
  /\ UNCHANGED <<config, sslLocks, listening, stopEvent, work, pool, sigVars, cliVars>>

\* Mutant of JoinPool: the pool is stopped and not joined.
JoinPoolSkipped ==
  /\ Goto("joinPool", "joinCli")
  /\ UNCHANGED <<config, sslLocks, listening, stopEvent, ioVars, sigVars, cliVars>>

JoinPool ==
  /\ Goto("joinPool", "joinCli") /\ \A t \in Pool : pool[t] = "exited"
  /\ UNCHANGED <<config, sslLocks, listening, stopEvent, ioVars, sigVars, cliVars>>

JoinCli ==
  /\ Goto("joinCli", "cleanup") /\ cli \in {"unborn", "exited"}
  /\ UNCHANGED <<config, sslLocks, listening, stopEvent, ioVars, sigVars, cliVars>>

\* threadsCleanup, and the exit code is read.
CleanUp ==
  /\ Goto("cleanup", "returned") /\ sslLocks' = FALSE
  /\ UNCHANGED <<config, listening, stopEvent, ioVars, sigVars, cliVars>>

Main == \/ SetUp \/ WaitForSignals \/ StartPool \/ LaunchCli \/ NetworkStarts \/ NetworkRefused
        \/ NetworkCrashes \/ StartFreezeTimer \/ LoopEnds \/ JoinPool \/ JoinCli \/ CleanUp

(***************************************************************************)
(* io_service (external): run() takes handlers whose operation is complete *)
(* until the service is stopped, or has neither operations outstanding nor *)
(* handlers running: then it stops itself.                                 *)
(***************************************************************************)
Alive == main \notin {"returned", "failed", "crashed"}

OutOfWork == work = {} /\ \A t \in Pool : pool[t] \in {"unborn", "running", "exited"}

\* Mutant of RunHandler: the signal set's handler runs though no signal came.
RunHandlerUnasked(t, w) ==
  /\ Alive /\ pool[t] = "running" /\ ~ioStopped
  /\ w \in work
  /\ pool' = [pool EXCEPT ![t] = w] /\ work' = work \ {w}
  /\ signals' = IF w = "signal" THEN signals - 1 ELSE signals
  /\ UNCHANGED <<mainVars, stopEvent, ioStopped, sent, cliVars>>

RunHandler(t, w) ==
  /\ Alive /\ pool[t] = "running" /\ ~ioStopped
  /\ w \in work /\ (w = "signal" => signals > 0)
  /\ pool' = [pool EXCEPT ![t] = w] /\ work' = work \ {w}
  /\ signals' = IF w = "signal" THEN signals - 1 ELSE signals
  /\ UNCHANGED <<mainVars, stopEvent, ioStopped, sent, cliVars>>

RunReturns(t) ==
  /\ Alive /\ pool[t] = "running" /\ (ioStopped \/ OutOfWork)
  /\ pool' = [pool EXCEPT ![t] = "exited"] /\ ioStopped' = TRUE
  /\ UNCHANGED <<mainVars, stopEvent, work, sigVars, cliVars>>

\* SignalHandler: StopNow sets the event, then the code; it waits for no more signals.
SignalHandler(t) ==
  /\ Alive /\ pool[t] = "signal"
  /\ stopEvent' = TRUE /\ pool' = [pool EXCEPT ![t] = "stored"]
  /\ UNCHANGED <<mainVars, ioStopped, work, sigVars, cliVars>>

\* Mutant of Rearm: the handler's operation is not started again.
RearmNot(t) ==
  /\ Alive /\ pool[t] \in {"accept", "freeze"}
  /\ pool' = [pool EXCEPT ![t] = "running"]
  /\ UNCHANGED <<mainVars, stopEvent, ioStopped, work, sigVars, cliVars>>

\* The accept handler and FreezeDetectorHandler end by starting their operation again.
Rearm(t) ==
  /\ Alive /\ pool[t] \in {"accept", "freeze"}
  /\ pool' = [pool EXCEPT ![t] = "running"] /\ work' = work \cup {pool[t]}
  /\ UNCHANGED <<mainVars, stopEvent, ioStopped, sigVars, cliVars>>

\* StopNow's second assignment.
StoreExitCode(t) ==
  /\ Alive /\ pool[t] = "stored"
  /\ pool' = [pool EXCEPT ![t] = "running"]
  /\ UNCHANGED <<mainVars, stopEvent, ioStopped, work, sigVars, cliVars>>

PoolThread(t) ==
  \/ \E w \in Work : RunHandler(t, w)
  \/ RunReturns(t) \/ SignalHandler(t) \/ Rearm(t) \/ StoreExitCode(t)

\* The operator (external) presses Ctrl-C or sends SIGTERM.  Before the signal
\* set exists the default action ends the process, which is not modelled.
SendSignal ==
  /\ Alive /\ main \notin {"setup", "signals"} /\ sent < MaxSignals
  /\ signals' = signals + 1 /\ sent' = sent + 1
  /\ UNCHANGED <<mainVars, stopEvent, ioVars, cliVars>>

(***************************************************************************)
(* The console thread, CliThread.                                          *)
(***************************************************************************)
\* Mutant of CliLoop: the stop event is not looked at.
CliLoopOn ==
  /\ Alive /\ cli = "loop" /\ cli' = "read"
  /\ UNCHANGED <<mainVars, stopEvent, ioVars, sigVars, lines, cliCmdQueue>>

CliLoop ==
  /\ Alive /\ cli = "loop"
  /\ cli' = IF stopEvent THEN "exited" ELSE "read"
  /\ UNCHANGED <<mainVars, stopEvent, ioVars, sigVars, lines, cliCmdQueue>>

\* readline (external) returns a command; ...
CliTyped ==
  /\ Alive /\ cli = "read" /\ lines < MaxLines
  /\ cli' = "add" /\ lines' = lines + 1
  /\ UNCHANGED <<mainVars, stopEvent, ioVars, sigVars, cliCmdQueue>>

\* ... or an empty line (or, on Windows, one that cannot be converted).  When the server
\* stops, cli_hook_func sets rl_done and readline returns what was typed so far, usually
\* nothing.
CliNothing ==
  /\ Alive /\ cli = "read"
  /\ cli' = "loop"
  /\ UNCHANGED <<mainVars, stopEvent, ioVars, sigVars, lines, cliCmdQueue>>

\* readline returns NULL: the end of the input, which feof(stdin) may miss.
CliEof ==
  /\ Alive /\ cli = "read"
  /\ \E seen \in EofSeen : /\ stopEvent' = (stopEvent \/ seen)
                           /\ cli' = IF seen THEN "stored" ELSE "loop"
  /\ UNCHANGED <<mainVars, ioVars, sigVars, lines, cliCmdQueue>>

QueueCliCommand ==
  /\ Alive /\ cli = "add"
  /\ cliCmdQueue' = Append(cliCmdQueue, lines) /\ cli' = "loop"
  /\ UNCHANGED <<mainVars, stopEvent, ioVars, sigVars, lines>>

CliStored ==
  /\ Alive /\ cli = "stored" /\ cli' = "loop"
  /\ UNCHANGED <<mainVars, stopEvent, ioVars, sigVars, lines, cliCmdQueue>>

\* The steps the console thread takes without waiting for the user: cli_hook_func is
\* called while readline waits, so a stopped server does not wait either.
CliThread == CliLoop \/ QueueCliCommand \/ CliStored \/ (stopEvent /\ CliNothing)

Next == \/ Main \/ SendSignal
        \/ \E t \in Pool : PoolThread(t)
        \/ CliLoop \/ CliTyped \/ CliNothing \/ CliEof \/ QueueCliCommand \/ CliStored

Spec == Init /\ [][Next]_vars

\* Threads that can run do.  asio takes completed handlers first in, first out, so
\* a signal's handler is not passed over for ever by accepts and timers.
Fairness == /\ WF_vars(Main) /\ WF_vars(CliThread)
            /\ \A t \in Pool : WF_vars(PoolThread(t))
            /\ SF_vars(\E t \in Pool : RunHandler(t, "signal"))

FairSpec == Spec /\ Fairness

(***************************************************************************)
(* Properties.                                                             *)
(***************************************************************************)
PoolLives(t) == pool[t] \notin {"unborn", "exited"}
CliLives     == cli \notin {"unborn", "exited"}

\* The state has the types the code gives it.
TypeOK ==
  /\ config \in Settings /\ main \in MainStates
  /\ sslLocks \in BOOLEAN /\ stopEvent \in BOOLEAN /\ ioStopped \in BOOLEAN
  /\ listening \in BOOLEAN
  /\ work \subseteq Work /\ pool \in [Pool -> PoolStates]
  /\ signals \in 0 .. MaxSignals /\ sent \in 0 .. MaxSignals
  /\ cli \in CliStates /\ lines \in 0 .. MaxLines
  /\ cliCmdQueue \in Seq(1 .. MaxLines)

\* Master.cpp:95 has the signal wait outstanding before the pool starts, "because
\* otherwise they would unblock and exit": no thread's run() returns, and the service
\* is not stopped, before the world has been told to stop.
PoolStaysUp == ioStopped \/ (\E t \in Pool : pool[t] = "exited") => stopEvent

\* OpenSSLCrypto.h:20 wants the cleanup after the threads are gone: while a thread of
\* the pool or the console can run, the locks exist and the exit code is not yet read,
\* so nobody is between StopNow's two assignments when it is.
CleanupLast ==
  (\E t \in Pool : PoolLives(t)) \/ CliLives => sslLocks /\ main \notin {"cleanup", "returned"}

\* Until the world stops, what Run started goes on: the signals, the accept chain and
\* the freeze check are each outstanding, or their handler runs and starts them again.
NothingGivenUp ==
  LET GoesOn(w) == w \in work \/ \E t \in Pool : pool[t] = w
  IN  main = "loop" /\ ~stopEvent =>
        /\ GoesOn("signal")
        /\ listening => GoesOn("accept")
        /\ config.freeze => GoesOn("freeze")

\* Run has returned, or NetworkCrashes has ended the process before it could.
Ended == main \in {"returned", "crashed"}

\* A signal that arrives once the pool runs ends the process, whatever the pool and
\* the console are doing (SignalHandler, WorldUpdateLoop, the two joins).
SignalEnds == signals > 0 ~> Ended

\* StopNow, by whoever, ends the process: the pool is joined, and the console thread
\* is not left in readline.
StopEnds == stopEvent ~> Ended

\* tumors.cfg:130: "Bind world server to IP/hostname".  A host name does not end the
\* process.
HostnameBinds == config.bindIp = "hostname" => main # "crashed"
=============================================================================
