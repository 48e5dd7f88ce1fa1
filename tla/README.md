# TUMORS in TLA+

TUMORS is a small game-server skeleton in C++11 on boost::asio: a world server
process that accepts TCP connections, spreads them over network threads, runs a
world loop watched by a freeze detector, reads commands from a console, and logs
to files. This directory holds TLA+ models of that program, the TLC
configurations that check them, and TLAPS proofs about every module with a specification. Paths
below are relative to the repository's `src/` (its `shared/`, `gameworld/` and
`tumorsserver/`); line numbers are in `PROJECT.json` for every definition.

Left aside: `dep/` (jemalloc, utf8cpp: third-party), `cmake/`, `genrev/`
(build), and the Windows-only code (IOCP, service control).

## 1. Inventory

### Components, their state and operations

| component | state | operations | module |
|---|---|---|---|
| connection management: `AsyncAcceptor`, `SocketMgr`, `WorldSocketMgr`, `NetworkThread`, `WorldSocket` | the acceptor's one `_socket`; per network thread `_newSockets` (under `_newSocketsLock`), `_sockets`, atomic `_connections`, `_stopped`; shared_ptr owners of each socket | accept, configure, choose the least loaded thread, construct and start a socket, hand it over; add new sockets, update, drop; read handler; stop, join, destroy | `Network` (abstract: `Registry`) |
| socket: `Socket<T>` | `_writeBuffer`, `_writeQueue`, `_isWritingAsync`, `_writeLock`, `_closed`, `_closing` | `QueuePacket`, `Update`, `WriteHandlerWrapper`, `WriteHandler`, `HandleQueue`, `AsyncProcessQueue`, `CloseSocket`, `DelayedCloseSocket` | `Socket` (abstract: `ByteStream`) |
| message buffer | `_wpos`, `_rpos`, `_storage` | write, read, normalize, resize, reset, copy, move | `MessageBuffer` (abstract: `ByteQueue`) |
| server process: `Master`, `World` | `m_stopEvent`, `m_ExitCode`, the io_service and its pool, the signal set | `Run` step by step, signal handler, `StopNow`, the joins | `Server` |
| console and command queue: `CliRunnable`, `LockedQueue` | the console thread, `cliCmdQueue` | readline loop, event hook, queueing | `Server` |
| freeze detector and timer | `_worldLoopCounter`, `_lastChangeMsTime`, the deadline timer; `m_worldLoopCounter`, `prevSleepTime` | a round of `WorldUpdateLoop`, a check, `getMSTime`, `getMSTimeDiff` | `FreezeDetector` |
| log: `Log`, `Logger`, `Appender` | `appenders`, `loggers`, `AppenderId` | `LoadFromConfig` entry by entry, `GetLoggerByType`, `ShouldLog`, `write` | `Log` |
| file appender | `logfile`, `fileSize`, the files on disk | construct, `_write`, `OpenFile`, `CloseFile`, rotation | `AppenderFile` |
| configuration: `ConfigMgr` | map and list of lines behind one lock | load and reload, list keys by prefix, look up | `Config`, driven by `Log` |
| utilities | none | `Tokenizer`, case mapping of wide characters; UTF-8, time stamps, PID file | `Util` (the first two) |
| start-up: `main` | none of its own | load the configuration or exit, make the log, `Master::Run` | `Log` (`Start`), `Server` |
| console/database appenders, `BigNumber`, `Errors` | none of their own | printing, wrapping OpenSSL, aborting | not modelled, see section 7 |

### How they interact

* `Master::Run` starts everything in order: SSL locks, PID file, signal wait,
  thread pool, console thread, network, freeze timer, world loop; and undoes it
  in order: `_ioService.stop()`, join the pool, join the console, SSL cleanup.
* Every asynchronous callback (accept, read, write-ready, signal, timer) runs on
  a pool thread in `io_service::run()`. The network threads are separate and poll
  their sockets every 10 ms.
* The accept handler reads the network threads' atomic counts and hands a socket
  to one of them under that thread's lock. A socket is then touched by its
  network thread (`Update`), by pool threads (read and write handlers) and by
  whoever calls `CloseSocket`.
* The network manager and its threads are static: they are destroyed after
  `main` returns, i.e. after the pool was joined.
* Every thread logs; appenders take no lock.
* The log is made from the configuration: it lists the keys that begin with
  `Appender.` or `Logger.` from the lines and looks each up in the map.

### What is hard here, and what makes each part correct

* **Network**: a socket is inserted, closed, uncounted and dropped by different
  threads, and the balancing scan reads counts without a lock. Correct: one owner,
  a count that is the number of sockets owned, no socket nobody looks after, none
  dropped while open, closed ones let go of, nothing destroyed while used.
* **Socket**: two threads continue each other's partial writes. Correct: an
  in-order stream without loss or repetition, exactly one outstanding wait, one
  shutdown, progress.
* **Server**: handlers keep the pool alive by re-arming themselves; a stop may
  come from a signal or the console at any moment. Correct: no early end, and a
  stop always leads through both joins before the cleanup.
* **Freeze detector**: checks run late, on another thread, with 32-bit times and a
  64-bit difference. Correct: a frozen world is killed in bounded time, and only
  a frozen one.
* **Configuration and log**: every line is kept twice and parsed by two loops;
  entries may be malformed, loggers hold raw pointers to appenders. Correct: the
  copies agree, pointers lead to appenders there are, messages reach exactly the
  configured appenders.
* **File appender**: rotation with several writers, failing `fopen`, backup names
  with one second's resolution, messages longer than the limit. Correct: nothing closed
  is used, no message is added to a file that it takes beyond its size, and the files
  hold every message in order.

The 39 hazards this code is exposed to are listed at their lines in `PROJECT.json`.

## 2. Modules

`Network` and `Socket` divide one class between them: `Network` knows when a
socket is open, referenced and counted, `Socket` what happens to its bytes.
`Server` treats the accept chain and the freeze check as operations that re-arm
themselves; `Network` and `FreezeDetector` say what those do. `Log` extends `Config`,
which extends `Util`: the log is the configuration's user, and the run composes them.
The other parts share no state, so no other module instantiates another except for
refinement.

### Network (implements Registry)

`apc` is where the accept chain stands: `armed` (async_accept outstanding),
`accepted` (`AsyncAcceptManaged`'s handler, `OnSocketOpen`'s options), `scan`,
`loadedI`, `loadedMin` (the loop over the threads; each comparison loads two
atomic counts in an order C++ leaves open, so it is two steps), `add` (the socket
exists and is started, `AddSocket` is not yet called), `deleted`. `asock` is what
`AsyncAcceptor::_socket` holds, `anew` the local `newSocket`. `rpc[c]` is the one
read a `WorldSocket` ever makes. `tpc[t]`, `todo[t]` place thread `t` inside
`AddNewSockets` (holding the lock) or the update loop. `main`, `at` follow
`ShutdownThreadPool` and the destructors.

`Held(c)` is the disjunction of everything that holds a `shared_ptr` to the
connection: when it is false the descriptor is closed. `aload` is a ghost, the
counts when the scan began.

`Registry` is the promise: a connection is unowned, then owned by one thread, then
released, and released by its owner only when closed; loads follow ownership.
`Network!R` maps `OwnerOf` to it.

### Socket (implements ByteStream)

Bytes are numbered in the order they are handed over. `pc` places the network
thread (`update`) and the write handler inside `WriteHandler`; `waits` counts
outstanding `async_write_some(null_buffers)`; `shut` counts shutdowns. `write_some`
may take any non-empty part that fits, block, or fail: always on a dead
connection, once on a live one (`transient`). After a failed write the code keeps
`_writeBuffer` and pops a queued packet; `fault` records which. The sender is
external: nothing in the program sends yet. `QueuePacket` is the class's own; that
a sender puts bytes in `_writeBuffer` only while nothing is queued and they fit is
the contract under which the class works (a sender that appended to the buffer
behind a queue would overtake it), and `Buffer` states it.

### MessageBuffer (implements ByteQueue)

One action per operation. The class checks nothing, so the guards of `Write`,
`ReadCompleted` and `Resize` are the use `Socket` makes of it.

### Server

`main` is the program counter of `Run`; `work` the operations outstanding on the
io_service; `pool[t]` the handler a pool thread runs. `StopNow` is two steps
(`m_stopEvent`, then `m_ExitCode`; the state in between is `stored`). The
io_service stops itself when it runs out of work. `readline` may return a line,
nothing, or end of input; in the last case `feof(stdin)` may or may not say so
(`EofSeen`), as GNU readline reads the descriptor.

### FreezeDetector

Time is in ticks; `W` is 2^32 ms, `W64` 2^64 ms. Rather than two loop counters the
model keeps whether they differ (`moved`), and rather than `realPrevTime` how long
ago it was (`age`, which saturates at `Old`). A check reads the clock and the counter
(`Master.cpp:282` and `:283`) in one step, so a round of the loop between the two reads
is not explored; it would shift the check by less than a tick. `MaxLate` bounds how late a pool
thread runs a due check; `Uptime` how long a run lasts (no bound when >= `W`).

### AppenderFile

Threads interleave at each library call of `_write`. A message has a size (`Size()`: its
prefix and text, at least the newline `Log::write` ends it with), from the set `Sizes`,
and may be longer than `maxFileSize`. A file is a sequence of bytes, and all a byte says
is whose it is: the position in the log at which its message starts, or 0 for what the
file held before (`Text`, `Held`). The directory maps a name to a
file; a backup's name is the second it was made in, so a second backup in it replaces
the first. `AppendTells` is what `ftell` says after `fopen("a")`. `born` (a ghost)
keeps the second each file was made in: it tells a backup that was replaced within a
second, as the code's names allow, from one that was lost otherwise.

### Util, Config and Log

A line of the configuration is a sequence of chunks: blanks, the carriage return of a
line end, `=`, `,`, `#` and words, so that the two loops that take a key out of a line
(`KeyOf` while the map is built, `GetKeysByString` over the lines) really differ. Two
words in a row are two parts of a name. `Tokenizer` splits at a separator and keeps
empty pieces but the last, as the C++ class does.

`Log` starts with `main`'s load (`Start`), makes the log from the lines entry by entry,
and may read the file again (`Reload`, `World::LoadConfigSettings(true)`, a public
function that nothing in this build calls). A type is the
sequence of its dotted parts, so `GetLoggerByType` drops the last. An entry with fewer
than two options is read beyond its tokens: the model lets it be anything, or crash.
`loaded` (a ghost) is the file the log was last made of, `Meant` the reference reading
of each well-formed line, written down independently of the parser. `MeantAsRead`, which
`MCLog` assumes and TLC therefore evaluates before each run, says that the parser takes
each such line, tidy or not, for what is meant; `LogsAsConfigured` compares where
messages go with it. `Only` leaves the elements of a sequence that are in a set: it is
used for the loops that skip lines and characters because, unlike `SelectSeq`, it can be
reasoned about (section 6).

## 3. Runs

Twelve runs: seven that must hold, five that show a disagreement.

| run | question and bounds | why they are enough |
|---|---|---|
| `network` | 2 connections, 2 network threads, `set_option` and `remote_endpoint` failing: 101,376 states | two connections race for one thread's sets, two threads are the least for a choice; every safety property is also proved for any number of either |
| `socket` | 4 bytes, packets up to 3 (empty ones too), buffer 3, queue 2, kernel buffer 2, a reset, one transient error: 133,739 states | a packet can be sent in three pieces, the buffer and the queue can both hold the rest, and the kernel buffer is smaller than either |
| `server` | 2 pool threads, 32 configurations, 2 commands, 2 signals: 14,216 states | two threads can be in handlers at once; the second signal meets a handler that has already run. Safety is proved for any pool and configuration |
| `freeze` | W = 40, limit 7, checks every 4 up to 2 late: 15,450 states | the clock wraps in the run, several checks fit in a limit. The proofs cover every value |
| `message_buffer` | 2 buffers, 2 byte values, sizes 0, 2, 3 | overlapping moves need a read position inside the active part |
| `appender` | one writer with every mode, flag and limits 0, 2, 3, and two writers without limit; messages of 1 and 3 bytes, 6 bytes in all, 4 seconds, `fopen` failing: 1,158,205 states | a message is longer than a limit, fits one exactly, and meets a file that is empty, partly full or already beyond it (0, 1 or 3 bytes before); two rotations happen in a run, in one second and in two |
| `log_load` | up to 3 appender and 2 logger lines, tidy, untidy and malformed, 2 appender ids, a reload with another file or none: 445,371 states | a later entry can meet what an earlier one, or the last file, left behind; more appenders than ids are configured; a type has up to three parts more than its logger |
| `log_defaults`, `freeze_wrap`, `socket_delayed`, `server_hostname`, `appender_rotate` | each checks one statement of a comment or of `tumors.cfg` | violated: section 5 |

What the passing runs show:

* `network`: `CountMatches`, `OneOwner`, `OpenIsOwned`, `LeastLoaded`,
  `NoUseAfterDelete`, `OnlyClosedDropped`; `RegistrySpec` (refinement);
  `ClosedIsReleased`, `GoneIsReleased`, `ShutdownTerminates`, `BacklogServed`
  (liveness).
* `socket`: `NothingLost`, `OneWait`, `LockHeld`, `ShutdownOnce`, `StreamSpec`
  (refinement), `Flushed`, `ClosedIsDropped` (liveness).
* `server`: `PoolStaysUp`, `CleanupLast`, `NothingGivenUp`, `SignalEnds`, `StopEnds`.
* `freeze`: `OnlyFrozenKilled`, `KilledInTime`, `SleepBounded`.
* `message_buffer`: `InBounds`, `QueueSpec` (refinement).
* `appender`: `Complete` (every message printed is in one of the files, in order, and
  only a backup that another of the same second replaced is missing from the disk),
  `SizeBounded` (no message is added to a file that it takes beyond the maximum: larger
  than that is only a file that holds one message longer than the maximum, alone, or
  what was in it before the appender was made: section 5),
  `NoUseAfterClose`.
* `log_load`: `KeysAgree`, `AppendersExist`, `LogsAsConfigured`, `RootFound`.

Every property has a mutant in `PROJECT.json`: a plausible bug of one definition
that makes it fail. The mutated forms stand next to the definitions they change.

`CHECK_DEADLOCK FALSE` is set where the system may stop: a process that has ended
(`Server`), a clock that has reached its bound or a server that was killed
(`FreezeDetector`), a socket that was dropped (`Socket`), messages used up
(`AppenderFile`), a configuration read (`Log`). `MessageBuffer` has it because
nothing obliges a user to call anything. `Network` is checked for deadlock.

## 4. Fairness

* `Network`: weak fairness of the accept handler, each read handler, each network
  thread and the shutdown: each is an OS thread or a handler on a pool of threads,
  and is not disabled by the others once enabled, except for good: by the stop of
  the pool. (The lock of `AddSocket` is held for one bounded pass.) Peers and the
  decision to stop owe nothing.
* `Socket`: weak fairness of `Update` (the network thread calls it every pass), of
  the write handler, of the rest of a close, of the read handler noticing a reset,
  and of the peer reading.
* `Server`: weak fairness of the main thread, pool threads and the console's
  non-blocking steps (readline calls the event hook while it waits, so a stopped
  server's console does not block). Strong fairness only of running the signal
  handler: asio runs completed handlers first in, first out, so accepts and timers
  cannot pass it over for ever, but each time one runs on a single-threaded pool
  the signal's is disabled for a moment.
* The other modules check safety only.

## 5. What the code gets wrong

Shown by a run:

* `freeze_wrap`: times are `uint32`, `getMSTimeDiff` works on 64 bits. After the
  clock wraps (49.7 days) the difference is near 2^64, and a world loop whose count
  has not moved since the last check is killed at once.
* `socket_delayed`: `DelayedCloseSocket` promises to close when the buffer is empty;
  `_closing` makes `IsOpen()` false, so nothing is flushed and nothing closes.
* `log_defaults`: the default loggers are made through a reference that is assigned
  to, so the `server` logger ends up disabled.
* `server_hostname`: a host name as `BindIP` leaves `_acceptor` null, which
  `WorldSocketMgr::StartNetwork` then calls.
* `appender_rotate`: with a size limit two threads both find it exceeded, and the second
  closes the `FILE*` the first has closed; so may one print to what another has closed.

Seen while modelling, without a run of their own:

* A failing `set_option` or a throwing `non_blocking` (`AsyncAcceptor.h:43-51`)
  leaves the connection in `AsyncAcceptor::_socket`; the re-armed `async_accept`
  completes with `already_open` every time and nothing is accepted again. `Network`
  models it (`ConfigureSocketFails`); `BacklogServed` exempts that state, `Wedged`.
* `WorldSocket::ReadHandler` arms no further read, so a peer that sends anything
  before it leaves keeps its socket and its place in the count until the shutdown.
* `StartNetwork` returning false (`Network.OutUBuff <= 0`) is ignored: the server
  reports it is ready and listens to nothing (`NetworkRefused`).
* Commands typed at the console are queued and never taken from the queue.
* When `write_some` fails on a packet that was partly sent, the rest of that packet
  is dropped and later packets still go out: the stream has a hole (`ByteStream`'s
  `lossy`).
* A message longer than `MaxFileSize` makes `_write` rotate, whatever the file holds
  (`AppenderFile.cpp:41`), and is then written whole into the fresh file (57-65), which
  is larger than the maximum `tumors.cfg:64` promises. The run `appender` has such
  messages; `SizeBounded` and `SizeStays` exempt them.
* With a dynamic file name, the backup flag or the size limit renames the file before
  every write, to a name with one second's resolution: the messages of a second
  replace each other. With a fixed name, two rotations in a second lose a backup
  (`Complete` says that nothing else is ever lost).
* A `rename` that fails is ignored (`AppenderFile.cpp:78` says so), but the file is
  then opened with `"w"`: what it held is gone. The model's `rename` succeeds.
* Appender ids are `uint8`: the 257th appender takes the first one's slot before the
  loggers look for the first by name, so messages for it go nowhere
  (`LogsAsConfigured` has the number of ids as its limit).
* A blank inside a key: the map has the key without it, the lines list it up to it, so
  it is found by neither (`KeysAgree` exempts such a line, `Broken`).
* A reload of a file that has gone would clear the configuration, while the loggers made
  of the old one go on (`Reload`; nothing calls it yet).
* `tumors.cfg:67` allows sizes up to 4294967295, `Log.cpp:119` reads them with `atoi`.
* `main.cpp:86` asks for a section header on the file's first line; nothing checks it.
* `high_resolution_clock` may be the system clock: set back, it looks like a wrap.
* `tumors.cfg` gives `ThreadPool` the default 2, `Master.cpp:104` uses 1.

## 6. Proofs

TLAPS checks every theorem to the last leaf. They rest on the named ASSUMEs on the
constants, which TLC evaluates on each run, and some on a hypothesis that stands in the
theorem and is explained with it below: `Orderly` (one writer for an appender that
rotates), what `ftell` tells, `W > Deadline` (a clock that does not come round within
the deadline) and `MeantAsRead` (the lines mean what the parser reads). Every invariant
and action property of a passing run, and every refinement, is proved.

**NetworkProofs**: for any finite set of connections, any positive number of
threads and any faults. None of the properties is inductive alone; `IndInv` adds

* `AcceptorInv`: which of the accept chain's locals are in use where,
* `MainInv`: how the shutdown's place and `at` correspond,
* `PlaceInv`: where a connection can be by its stage and its read (needed for
  `OneOwner`: a connection being handed over is with nobody yet),
* `TodoInv`: a pass visits only what is in the set it runs over (`CountMatches`: a
  visited socket really leaves a set),
* `ScanInv`: since the scan began no count has grown, as only the accept chain adds,
  so the thread chosen so far is no busier than any compared was then; it also
  bounds the count loaded by half of a comparison.

Each conjunct has a step lemma; `CountStep` uses finite-set cardinality and
effect lemmas that say what an action does to `Pending` and `sockets`. From
`Invariance` follow `TypeCorrect`, `CountsMatch`, `SingleOwner`,
`OpenSocketsAreOwned`, `LeastLoadedChosen`, `NothingUsedAfterDelete` and the action
property `ClosedDropped`. `ImplementsRegistry` proves the refinement: `OwnerOf` is a
CHOOSE, which `OneOwner` makes the one thread that has the connection (`OwnerKnown`),
and one lemma for each step of `Registry` shows which actions are that step.

**SocketProofs**: for any sizes of packets, buffer, queue and kernel buffer, any number
of bytes, callers of close and failures. `LockIsHeld`, `AtMostOneWait` and
`OneShutdown` are close to inductive (`ShutInv`: one caller at most is between the
exchange and the shutdown, and one is as long as a closed socket is not shut down; that
the socket lives until then is owed to the caller's `shared_ptr`). For the bytes, `StreamInv` says that while the connection is
up what was sent, the buffer and each queued packet are stretches of consecutive numbers
that follow one another up to `handed` (a drop leaves a gap), and `QueueInv` that the
queue is only flushed when the buffer is empty; under both every write sends the next
stretch, which gives `NothingIsLost` and `ImplementsStream`.

**MessageBufferProofs**: for any sizes and bytes. `InBounds` is inductive
(`StaysInBounds`). `ImplementsQueue`: the active part, as a sequence, changes by every
operation as `ByteQueue` says; the work is in `Normalize`, which copies inside one
storage, and in `Write`, which overlays it.

**ServerProofs**: for any non-empty pool, configurations and bounds. `IndInv` adds
`BirthInv` (threads exist from the step that starts them), `StopInv` (nothing ends
before the stop event), `WorkInv` (the signal wait is outstanding or handled until
the stop: this is what keeps `io_service::run` from returning) and `JoinInv` (what
the joins have waited for). Theorems `TypeCorrect`, `PoolUp`, `CleanupAfterJoins`, `StartedGoesOn`.

**FreezeDetectorProofs**: for any periods, limits and lateness, clock wraps
included. `SleepInv`: a round lasts at least its work and its sleep and so the slack
carried over is at most `WORLD_SLEEP_CONST` (`SleepsBounded`). `FreezeInv`: unless
the count moved or the clock is behind `_lastChangeMsTime`, no more time has passed
by the clock than since the last round (`OnlyFrozen`). `HangInv`:
while the count has not moved, the time since the last round exceeds the time the
detector has counted (`Since`) by no more than one period and lateness, and a check is
due before `Since` can grow past the limit unseen (`HangNoticed`, which assumes `W > Deadline`: a clock that comes
round within the deadline hides a hang).

**AppenderFileProofs**: for any settings, threads and failures. `Types` says that
directory, files and handles fit together (`TypeCorrect`). `UseInv` places each thread
by what is open there; `ClosedIsUnused` follows under `Orderly`: an appender that
rotates (a limit, or a dynamic name) has one writer. Without it `appender_rotate` shows
the failure. `SizeInv`: `fileSize` is the size of the file that is open, but between a
write and its count, and whoever is to write has found room for its message or has an
empty file, which then holds that message alone. `SizeStays`, for messages of any sizes,
follows; it also assumes that `ftell` does not say zero for a file opened for appending,
and it exempts, as `SizeBounded` does, the message that is itself longer than the maximum.

`NothingLost` proves `Complete`, under `Orderly` too, from two more invariants. `Filed`
says how the directory names the files made so far: the last one is the current file or
the last backup, the backups are in the order of their names, and a file without a name
was followed by one made in a second in which a later backup took that name. `Kept` says
that the files, one after the other, hold what was there before and every message logged
since, and that whoever is to write has the last one open; a file is opened for
overwriting only by the constructor, or when `rename` has left no current one, and what
the constructor overwrote is told by its `FILE*` being on the first file.
`Complete` reads the directory by name and `Kept` the files by age: `FlattenNamed` shows
that both ways meet the same messages.

**LogProofs**: for any files, edits and number of ids.

* `AppendersExist` needs one fact more: while appenders are read, when an id used twice
  replaces an appender, there is no logger yet (`LoggersPointToAppenders`).
* `RootFound`: the root's logger is there once the log is made (`RootMade`), and each
  step of the search either finds a logger or drops a part of the type, so it ends, at
  the nearest logger, for a type of any length (`AskedEnds`, `SearchEnds`).
* `KeysAgree`: both copies are made of the same lines (`Copies`), and for a line that is
  not `Broken` the text before its first `=`, without blanks, is its first run of
  characters that are neither (`Places`, `KeyIsName`, `CopiesOfConfigAgree`).
* `LogsAsConfigured`: `FileRead` says that what is read comes from one file, and
  `EntriesMade` that the first k entries of a kind are made, each appender with its own
  id, and the rest is still to be read. The parser finds the value of a key in the first
  line that has it, for every line that has it (`OnlyFirst`), which is how an entry given
  twice is meant. `PicksAre` counts a logger's appenders. The theorem,
  `LogsAsConfiguredHolds`, is about any set of lines that are read as they are meant.

**UtilProofs**: the two case tables are inverse on letters that have a case, for every
wide character (`CaseFolds`) and string (`StringCaseFolds`); no run's property rests on
them. The rest is what the
proofs above need to know of recursion and of sequences of any length. The library's
induction theorems are about a predicate, which no installed prover can supply; its
theorem that `<` is well founded on the naturals is about a set. So a non-empty set of
naturals has a least element (`Least`), a set of naturals closed under successor up to n
holds all up to n (`UpTo`), and a function defined by recursion up to n exists
(`Recursion`). On these rest `FlattenSeq` (`FlattenSteps` to `FlattenNamed`) and `Only`,
which flattens one sequence of length one or none for each element. `SelectSeq` is
defined by an operator argument and a recursion inside the standard module, where no
prover can look.

Only model-checked: liveness, as fairness and ENABLED are outside the prover
(`ClosedIsReleased`, `GoneIsReleased`, `ShutdownTerminates`, `BacklogServed`, `Flushed`,
`ClosedIsDropped`, `SignalEnds`, `StopEnds`), and `MeantAsRead`, which is about the
lines that `MCLog` enumerates: it is a fact of each line, not of all.

## 7. Not modelled

* Console and database appenders: the one prints a coloured line, the other nothing
  (its statement is commented out). UTF-8 conversion (the `utf8` library), time stamps,
  the PID file. `BigNumber`: wraps OpenSSL; its one use is a seed that is thrown away.
  `Errors`, `ProcessPriority`, `ServiceWin32`: printing, aborting, system calls.
  `main.cpp`'s command line.
* `dep/`: jemalloc (some 22,000 of the repository's 26,600 lines of C and C++) and
  utf8cpp are third-party code that the server only links with.
* Of modelled components: the IOCP variants, `StopNetwork`, `SocketMgr::Wait`,
  `AsyncAccept<T>`, `LockedQueue`'s other operations, `SetLogLevel` and the like,
  which have no caller or no definition; prefixes and time stamps of log lines.

## 8. Plan

Done: the modules above, in the order Network, Socket, Server, FreezeDetector,
MessageBuffer, AppenderFile, Log, Config, Util; then the proofs of section 6, in the
same order, the three refinements last.

Left:

1. `Network` composed with `Socket`'s close protocol: `DelayedCloseSocket` and
   application closes while a network thread updates. Today nothing but the read
   handler closes a socket, so the composition would model code that does not run.
2. The IOCP variant of `Socket`, if the Windows build is to be supported.
3. `rename` failing in `AppenderFile`, once the code does something about it.
