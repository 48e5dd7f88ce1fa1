------------------------------ MODULE Network -------------------------------
(***************************************************************************)
(* The network layer as the world server wires it: one AsyncAcceptor whose *)
(* completion handler runs on the io_service pool, hands each accepted     *)
(* connection through WorldSocketMgr::OnSocketOpen to the NetworkThread    *)
(* with the fewest connections, and re-arms itself; the network threads,   *)
(* each moving its new sockets into its own set, updating them and         *)
(* dropping the closed ones; the read handlers, which close a socket whose *)
(* peer has gone; and the shutdown that ends Master::Run.                  *)
(*                                                                         *)
(* A socket's std::shared_ptr owners are the sets and handlers below, so a *)
(* connection's descriptor is closed when Held(c) becomes false.  Packets  *)
(* written to a socket are the subject of module Socket: nothing in this   *)
(* build writes any.                                                       *)
(***************************************************************************)
EXTENDS Integers, FiniteSets

CONSTANTS Conns,        \* the connections peers may open in a run (a bound)
          NumThreads,   \* Network.Threads
          Faults,       \* the calls that may fail on a socket whose peer has gone:
                        \* "nonblocking" (non_blocking throws), "option" (set_option
                        \* fails), "endpoint" (remote_endpoint throws)
          NoConn        \* no connection: a closed or moved-from socket

ASSUME ConnsAssumption == IsFiniteSet(Conns) /\ NoConn \notin Conns
ASSUME ThreadsAssumption == NumThreads \in Nat \ {0}

Threads == 0 .. NumThreads - 1

VARIABLES
  apc,          \* where the accept chain is, see AcceptorStates
  asock,        \* AsyncAcceptor::_socket: the connection it holds, or NoConn
  anew,         \* newSocket in OnSocketOpen, started and not yet added
  amin, ai,     \* min and i of OnSocketOpen's scan
  aseen,        \* the count of one side of the comparison, already loaded
  aload,        \* ghost: every thread's count when the scan began
  conn,         \* a connection in the kernel: away, in the backlog or accepted
  left,         \* the peers that have closed or reset their end
  unread,       \* the connections with received bytes the process has not read
  closed,       \* Socket::_closed
  rpc,          \* the one read of a socket: none yet, pending, closing the
                \* socket, or done
  newSockets, sockets, connections,    \* NetworkThread's members
  tpc,          \* where NetworkThread::Run is, see ThreadStates
  todo,         \* the sockets the current pass of Run has yet to visit
  stopped,      \* NetworkThread::_stopped
  main,         \* how far Master::Run and the static destructors have come
  at            \* the thread delete[] _threads is destroying

acceptorVars == <<apc, asock, anew, amin, ai, aseen, aload>>
scanVars == <<amin, ai, aseen, aload>>
peerVars == <<conn, left, unread>>
readVars == <<closed, rpc>>
threadVars == <<newSockets, sockets, connections, tpc, todo, stopped>>
mainVars == <<main, at>>
vars == <<acceptorVars, peerVars, readVars, threadVars, mainVars>>

AcceptorStates == {"armed", "accepted", "scan", "loadedI", "loadedMin", "add", "deleted"}
ThreadStates == {"sleeping", "adding", "updating", "done"}

\* The io_service runs handlers until it is stopped; a handler that has begun
\* is finished, since ShutdownThreadPool joins the pool.
PoolRuns == main = "running"

Init ==
  /\ apc = "armed" /\ asock = NoConn /\ anew = NoConn
  /\ amin = 0 /\ ai = 1 /\ aseen = 0
  /\ aload = [t \in Threads |-> 0]
  /\ conn = [c \in Conns |-> "away"]
  /\ left = {} /\ unread = {} /\ closed = {}
  /\ rpc = [c \in Conns |-> "none"]
  /\ newSockets = [t \in Threads |-> {}]
  /\ sockets = [t \in Threads |-> {}]
  /\ connections = [t \in Threads |-> 0]
  /\ tpc = [t \in Threads |-> "sleeping"]
  /\ todo = [t \in Threads |-> {}]
  /\ stopped = [t \in Threads |-> FALSE]
  /\ main = "running" /\ at = NumThreads - 1

(***************************************************************************)
(* Peers (external).                                                       *)
(***************************************************************************)
Connect(c) ==
  /\ conn[c] = "away" /\ apc # "deleted"
  /\ conn' = [conn EXCEPT ![c] = "backlog"]
  /\ UNCHANGED <<acceptorVars, left, unread, readVars, threadVars, mainVars>>

\* Bytes arrive; those that arrive after the only read are never looked at.
PeerSends(c) ==
  /\ conn[c] # "away" /\ c \notin left \cup unread /\ rpc[c] # "done"
  /\ unread' = unread \cup {c}
  /\ UNCHANGED <<acceptorVars, conn, left, readVars, threadVars, mainVars>>

PeerLeaves(c) ==
  /\ conn[c] # "away" /\ c \notin left
  /\ left' = left \cup {c}
  /\ UNCHANGED <<acceptorVars, conn, unread, readVars, threadVars, mainVars>>

(***************************************************************************)
(* The accept chain: AsyncAcceptManaged's handler on a pool thread.        *)
(***************************************************************************)
\* async_accept completes.  It can only fill a socket that is not open: with
\* _socket still open it completes with already_open.  On that error, as on any,
\* the handler only re-arms, which changes nothing here.
Accept(c) ==
  /\ apc = "armed" /\ asock = NoConn /\ PoolRuns
  /\ conn[c] = "backlog"
  /\ apc' = "accepted" /\ asock' = c
  /\ conn' = [conn EXCEPT ![c] = "accepted"]
  /\ UNCHANGED <<anew, scanVars, left, unread, readVars, threadVars, mainVars>>

\* Mutant of Rearm: the scan starts at i = 0.
RearmFromZero ==
  /\ apc' = "armed"
  /\ amin' = 0 /\ ai' = 0 /\ aseen' = 0 /\ aload' = [t \in Threads |-> 0]

\* AsyncAcceptManaged again, at the end of every handler; its locals are gone.
Rearm ==
  /\ apc' = "armed"
  /\ amin' = 0 /\ ai' = 1 /\ aseen' = 0 /\ aload' = [t \in Threads |-> 0]

\* The handler starts: non_blocking and the set_option calls of OnSocketOpen.
ConfigureSocket ==
  /\ apc = "accepted" /\ PoolRuns
  /\ apc' = "scan" /\ aload' = connections
  /\ UNCHANGED <<asock, anew, amin, ai, aseen, peerVars, readVars, threadVars, mainVars>>

\* non_blocking throws past mgrHandler, or OnSocketOpen returns on a set_option
\* error: either way the connection stays in AsyncAcceptor::_socket.
ConfigureSocketFails ==
  /\ apc = "accepted" /\ PoolRuns
  /\ Faults \cap {"nonblocking", "option"} # {} /\ asock \in left
  /\ Rearm
  /\ UNCHANGED <<asock, anew, peerVars, readVars, threadVars, mainVars>>

\* The scan for the least loaded thread: each comparison loads two atomic counts,
\* one here (C++ leaves open which), the other in Compare.
LoadCount ==
  /\ apc = "scan" /\ ai < NumThreads
  /\ \/ apc' = "loadedI" /\ aseen' = connections[ai]
     \/ apc' = "loadedMin" /\ aseen' = connections[amin]
  /\ UNCHANGED <<asock, anew, amin, ai, aload, peerVars, readVars, threadVars, mainVars>>

\* Mutant of IsLess: the comparison is the wrong way round.
IsMore == IF apc = "loadedI" THEN aseen > connections[amin]
                             ELSE connections[ai] > aseen

IsLess == IF apc = "loadedI" THEN aseen < connections[amin]
                             ELSE connections[ai] < aseen

\* Mutant of Compare: ++i is missing.
CompareStays ==
  /\ apc \in {"loadedI", "loadedMin"}
  /\ amin' = IF IsLess THEN ai ELSE amin
  /\ aseen' = 0 /\ apc' = "scan"
  /\ UNCHANGED <<asock, anew, ai, aload, peerVars, readVars, threadVars, mainVars>>

Compare ==
  /\ apc \in {"loadedI", "loadedMin"}
  /\ amin' = IF IsLess THEN ai ELSE amin
  /\ ai' = ai + 1 /\ aseen' = 0 /\ apc' = "scan"
  /\ UNCHANGED <<asock, anew, aload, peerVars, readVars, threadVars, mainVars>>

\* make_shared moves the connection out of _socket and Start arms its only read:
\* from here on the read handler may run on another pool thread.
MakeSocket ==
  /\ apc = "scan" /\ ai = NumThreads
  /\ anew' = asock /\ asock' = NoConn /\ apc' = "add"
  /\ rpc' = [rpc EXCEPT ![asock] = "pending"]
  /\ UNCHANGED <<scanVars, peerVars, closed, threadVars, mainVars>>

\* remote_endpoint throws in Socket's constructor: the connection, moved into
\* the member already constructed, is closed with it, and the exception caught.
MakeSocketFails ==
  /\ apc = "scan" /\ ai = NumThreads
  /\ "endpoint" \in Faults /\ asock \in left
  /\ asock' = NoConn /\ Rearm
  /\ UNCHANGED <<anew, peerVars, readVars, threadVars, mainVars>>

\* Mutant of AddSocket: it does not take _newSocketsLock.
AddSocketUnlocked ==
  /\ apc = "add"
  /\ connections' = [connections EXCEPT ![amin] = @ + 1]
  /\ newSockets' = [newSockets EXCEPT ![amin] = @ \cup {anew}]
  /\ anew' = NoConn /\ Rearm
  /\ UNCHANGED <<asock, peerVars, readVars, sockets, tpc, todo, stopped, mainVars>>

\* NetworkThread::AddSocket on the chosen thread, under _newSocketsLock, which
\* AddNewSockets holds while it is "adding".
AddSocket ==
  /\ apc = "add" /\ tpc[amin] # "adding"
  /\ connections' = [connections EXCEPT ![amin] = @ + 1]
  /\ newSockets' = [newSockets EXCEPT ![amin] = @ \cup {anew}]
  /\ anew' = NoConn /\ Rearm
  /\ UNCHANGED <<asock, peerVars, readVars, sockets, tpc, todo, stopped, mainVars>>

(***************************************************************************)
(* The read handlers, on pool threads.                                     *)
(***************************************************************************)
\* Data arrived: WriteCompleted, and WorldSocket::ReadHandler, which takes
\* nothing and arms no further read.
ReadCompletes(c) ==
  /\ rpc[c] = "pending" /\ c \in unread /\ PoolRuns
  /\ rpc' = [rpc EXCEPT ![c] = "done"]
  /\ unread' = unread \ {c}
  /\ UNCHANGED <<acceptorVars, conn, left, closed, threadVars, mainVars>>

\* Mutant of ReadFails: the error handler returns without closing the socket.
ReadFailsUnclosed(c) ==
  /\ rpc[c] = "pending" /\ c \in left /\ PoolRuns
  /\ rpc' = [rpc EXCEPT ![c] = "done"]
  /\ UNCHANGED <<acceptorVars, peerVars, closed, threadVars, mainVars>>

\* The peer has gone (a reset also discards what it sent): CloseSocket's exchange ...
ReadFails(c) ==
  /\ rpc[c] = "pending" /\ c \in left /\ PoolRuns
  /\ closed' = closed \cup {c}
  /\ rpc' = [rpc EXCEPT ![c] = "closing"]
  /\ UNCHANGED <<acceptorVars, peerVars, threadVars, mainVars>>

\* ... and its shutdown, after which the handler drops its reference.
ShutdownSocket(c) ==
  /\ rpc[c] = "closing"
  /\ rpc' = [rpc EXCEPT ![c] = "done"]
  /\ UNCHANGED <<acceptorVars, peerVars, closed, threadVars, mainVars>>

(***************************************************************************)
(* NetworkThread::Run on thread t.                                         *)
(***************************************************************************)
\* AddNewSockets takes the lock; with nothing new it returns at once.
BeginAddNewSockets(t) ==
  /\ tpc[t] = "sleeping"
  /\ IF newSockets[t] = {}
       THEN /\ tpc' = [tpc EXCEPT ![t] = "updating"]
            /\ todo' = [todo EXCEPT ![t] = sockets[t]]
       ELSE /\ tpc' = [tpc EXCEPT ![t] = "adding"]
            /\ todo' = [todo EXCEPT ![t] = newSockets[t]]
  /\ UNCHANGED <<acceptorVars, peerVars, readVars, newSockets, sockets, connections,
                 stopped, mainVars>>

\* Mutant of AddNewSocket: a socket found closed is not uncounted.
AddNewSocketStillCounted(t, c) ==
  /\ tpc[t] = "adding" /\ c \in todo[t]
  /\ todo' = [todo EXCEPT ![t] = @ \ {c}]
  /\ sockets' = IF c \in closed THEN sockets ELSE [sockets EXCEPT ![t] = @ \cup {c}]
  /\ UNCHANGED <<acceptorVars, peerVars, readVars, newSockets, connections, tpc, stopped,
                 mainVars>>

\* One new socket: kept if still open, otherwise no longer counted.  The sets
\* are ordered by address, which is any order.
AddNewSocket(t, c) ==
  /\ tpc[t] = "adding" /\ c \in todo[t]
  /\ todo' = [todo EXCEPT ![t] = @ \ {c}]
  /\ IF c \in closed
       THEN /\ connections' = [connections EXCEPT ![t] = @ - 1]
            /\ UNCHANGED sockets
       ELSE /\ sockets' = [sockets EXCEPT ![t] = @ \cup {c}]
            /\ UNCHANGED connections
  /\ UNCHANGED <<acceptorVars, peerVars, readVars, newSockets, tpc, stopped, mainVars>>

\* Mutant of EndAddNewSockets: _newSockets is not cleared.
EndAddNewSocketsUncleared(t) ==
  /\ tpc[t] = "adding" /\ todo[t] = {}
  /\ tpc' = [tpc EXCEPT ![t] = "updating"]
  /\ todo' = [todo EXCEPT ![t] = sockets[t]]
  /\ UNCHANGED <<acceptorVars, peerVars, readVars, newSockets, sockets, connections,
                 stopped, mainVars>>

\* _newSockets.clear(), unlock, and the update loop begins.
EndAddNewSockets(t) ==
  /\ tpc[t] = "adding" /\ todo[t] = {}
  /\ newSockets' = [newSockets EXCEPT ![t] = {}]
  /\ tpc' = [tpc EXCEPT ![t] = "updating"]
  /\ todo' = [todo EXCEPT ![t] = sockets[t]]
  /\ UNCHANGED <<acceptorVars, peerVars, readVars, sockets, connections, stopped, mainVars>>

\* Mutant of UpdateSocket: a socket whose peer has gone is erased without being closed.
UpdateSocketDropsOpen(t, c) ==
  /\ tpc[t] = "updating" /\ c \in todo[t]
  /\ todo' = [todo EXCEPT ![t] = @ \ {c}]
  /\ IF c \in closed \cup left
       THEN /\ connections' = [connections EXCEPT ![t] = @ - 1]
            /\ sockets' = [sockets EXCEPT ![t] = @ \ {c}]
       ELSE UNCHANGED <<connections, sockets>>
  /\ UNCHANGED <<acceptorVars, peerVars, readVars, newSockets, tpc, stopped, mainVars>>

\* Mutant of UpdateSocket: the erased socket stays counted.
UpdateSocketStillCounted(t, c) ==
  /\ tpc[t] = "updating" /\ c \in todo[t]
  /\ todo' = [todo EXCEPT ![t] = @ \ {c}]
  /\ sockets' = IF c \in closed THEN [sockets EXCEPT ![t] = @ \ {c}] ELSE sockets
  /\ UNCHANGED <<acceptorVars, peerVars, readVars, newSockets, connections, tpc, stopped,
                 mainVars>>

\* Mutant of UpdateSocket: the result of Update() is ignored.
UpdateSocketKeepsClosed(t, c) ==
  /\ tpc[t] = "updating" /\ c \in todo[t]
  /\ todo' = [todo EXCEPT ![t] = @ \ {c}]
  /\ UNCHANGED <<acceptorVars, peerVars, readVars, newSockets, sockets, connections, tpc,
                 stopped, mainVars>>

\* One Update(): false exactly when the socket is not open (so that the
\* CloseSocket which may follow never runs), and the socket is then erased.
UpdateSocket(t, c) ==
  /\ tpc[t] = "updating" /\ c \in todo[t]
  /\ todo' = [todo EXCEPT ![t] = @ \ {c}]
  /\ IF c \in closed
       THEN /\ connections' = [connections EXCEPT ![t] = @ - 1]
            /\ sockets' = [sockets EXCEPT ![t] = @ \ {c}]
       ELSE UNCHANGED <<connections, sockets>>
  /\ UNCHANGED <<acceptorVars, peerVars, readVars, newSockets, tpc, stopped, mainVars>>

\* The pass is over: while (!_stopped), and sleep.
EndUpdate(t) ==
  /\ tpc[t] = "updating" /\ todo[t] = {}
  /\ tpc' = [tpc EXCEPT ![t] = IF stopped[t] THEN "done" ELSE "sleeping"]
  /\ UNCHANGED <<acceptorVars, peerVars, readVars, newSockets, sockets, connections,
                 todo, stopped, mainVars>>

(***************************************************************************)
(* Shutdown: Master::Run after WorldUpdateLoop, then static destruction.   *)
(***************************************************************************)
\* _ioService.stop(), for whatever reason the world stopped.
StopPool ==
  /\ main = "running" /\ main' = "stopping"
  /\ UNCHANGED <<acceptorVars, peerVars, readVars, threadVars, at>>

\* Mutant of JoinPool: the process goes on without joining the pool.
JoinPoolSkipped ==
  /\ main = "stopping"
  /\ main' = "joined"
  /\ UNCHANGED <<acceptorVars, peerVars, readVars, threadVars, at>>

\* The pool threads are joined once no handler is half way.
JoinPool ==
  /\ main = "stopping" /\ apc \in {"armed", "accepted"}
  /\ \A c \in Conns : rpc[c] # "closing"
  /\ main' = "joined"
  /\ UNCHANGED <<acceptorVars, peerVars, readVars, threadVars, at>>

\* ~SocketMgr: delete _acceptor closes what it holds ...
DeleteAcceptor ==
  /\ main = "joined" /\ main' = "stopThread"
  /\ apc' = "deleted" /\ asock' = NoConn
  /\ UNCHANGED <<anew, scanVars, peerVars, readVars, threadVars, at>>

\* Mutant of StopThread: _stopped is not set.
StopThreadUnset ==
  /\ main = "stopThread" /\ main' = "joinThread"
  /\ UNCHANGED <<acceptorVars, peerVars, readVars, threadVars, at>>

\* ... and delete[] _threads destroys each in reverse order: Stop, ...
StopThread ==
  /\ main = "stopThread" /\ main' = "joinThread"
  /\ stopped' = [stopped EXCEPT ![at] = TRUE]
  /\ UNCHANGED <<acceptorVars, peerVars, readVars, newSockets, sockets, connections,
                 tpc, todo, at>>

\* ... Wait, and the members are destroyed.
JoinThread ==
  /\ main = "joinThread" /\ tpc[at] = "done"
  /\ newSockets' = [newSockets EXCEPT ![at] = {}]
  /\ sockets' = [sockets EXCEPT ![at] = {}]
  /\ connections' = [connections EXCEPT ![at] = 0]
  /\ at' = at - 1
  /\ main' = IF at = 0 THEN "exited" ELSE "stopThread"
  /\ UNCHANGED <<acceptorVars, peerVars, readVars, tpc, todo, stopped>>

Terminated == main = "exited" /\ UNCHANGED vars

Peer == \E c \in Conns : Connect(c) \/ PeerSends(c) \/ PeerLeaves(c)
AcceptHandler ==
  \/ \E c \in Conns : Accept(c)
  \/ ConfigureSocket \/ ConfigureSocketFails \/ LoadCount \/ Compare
  \/ MakeSocket \/ MakeSocketFails \/ AddSocket
ReadHandler(c) == ReadCompletes(c) \/ ReadFails(c) \/ ShutdownSocket(c)
Run(t) ==
  \/ BeginAddNewSockets(t) \/ EndAddNewSockets(t) \/ EndUpdate(t)
  \/ \E c \in Conns : AddNewSocket(t, c) \/ UpdateSocket(t, c)
Shutdown == JoinPool \/ DeleteAcceptor \/ StopThread \/ JoinThread

Next ==
  \/ Peer \/ AcceptHandler
  \/ \E c \in Conns : ReadHandler(c)
  \/ \E t \in Threads : Run(t)
  \/ StopPool \/ Shutdown \/ Terminated

Spec == Init /\ [][Next]_vars

\* The pool and the network threads are scheduled; peers and the reason to stop
\* owe nothing.
FairSpec ==
  /\ Spec
  /\ WF_vars(AcceptHandler) /\ WF_vars(Shutdown)
  /\ \A c \in Conns : WF_vars(ReadHandler(c))
  /\ \A t \in Threads : WF_vars(Run(t))

(***************************************************************************)
(* Properties.                                                             *)
(***************************************************************************)
\* The type invariant: the accept chain's locals, the sockets' sets and the
\* threads' and the shutdown's places stay what the code declares them to be.
TypeOK ==
  /\ apc \in AcceptorStates
  /\ asock \in Conns \cup {NoConn} /\ anew \in Conns \cup {NoConn}
  /\ amin \in Threads /\ ai \in 1 .. NumThreads /\ aseen \in Int
  /\ aload \in [Threads -> Int]
  /\ conn \in [Conns -> {"away", "backlog", "accepted"}]
  /\ left \subseteq Conns /\ unread \subseteq Conns /\ closed \subseteq Conns
  /\ rpc \in [Conns -> {"none", "pending", "closing", "done"}]
  /\ newSockets \in [Threads -> SUBSET Conns]
  /\ sockets \in [Threads -> SUBSET Conns]
  /\ connections \in [Threads -> Int]
  /\ tpc \in [Threads -> ThreadStates]
  /\ todo \in [Threads -> SUBSET Conns]
  /\ stopped \in [Threads -> BOOLEAN]
  /\ main \in {"running", "stopping", "joined", "stopThread", "joinThread", "exited"}
  /\ at \in -1 .. NumThreads - 1

\* The sockets of _newSockets that a thread still has to move.
Pending(t) == IF tpc[t] = "adding" THEN todo[t] ELSE newSockets[t]
Owned(t) == Pending(t) \cup sockets[t]

\* Something in the process still refers to the connection.
Held(c) ==
  \/ c \in {asock, anew} \/ rpc[c] \in {"pending", "closing"}
  \/ \E t \in Threads : c \in newSockets[t] \cup sockets[t]

\* _connections is what the acceptor balances by: it must be the number of
\* sockets a thread really has, in every interleaving of AddSocket, a close, and
\* the two places that decrement it.
CountMatches ==
  \A t \in Threads : connections[t] = Cardinality(Pending(t)) + Cardinality(sockets[t])

\* No socket is with two threads, or with a thread and still with the acceptor.
OneOwner ==
  /\ \A t, u \in Threads : t # u => Owned(t) \cap Owned(u) = {}
  /\ \A t \in Threads : Pending(t) \cap sockets[t] = {} /\ {asock, anew} \cap Owned(t) = {}

\* An open socket with a read pending is known to a thread (or about to be):
\* one that only its handler kept alive would never be updated or dropped.
OpenIsOwned ==
  \A c \in Conns :
    rpc[c] = "pending" /\ at = NumThreads - 1 => c = anew \/ \E t \in Threads : c \in Owned(t)

\* The thread chosen has, at the moment it is given the socket, no more
\* connections than any thread had when the scan began: counts that shrink
\* under the unlocked scan never make it choose a busier one.
LeastLoaded ==
  apc = "add" => \A t \in Threads : connections[amin] <= aload[t]

\* No handler is half way, and no thread runs, once what it uses is destroyed.
NoUseAfterDelete ==
  /\ main \notin {"running", "stopping"} =>
       /\ apc \in {"armed", "accepted", "deleted"}
       /\ \A c \in Conns : rpc[c] # "closing"
  /\ \A t \in Threads : t > at => tpc[t] = "done" /\ Owned(t) = {}

\* Which of the acceptor's locals are in use at each point of the chain.
AcceptorInv ==
  /\ apc \in {"accepted", "scan", "loadedI", "loadedMin"} => asock \in Conns
  /\ apc \in {"add", "deleted"} => asock = NoConn
  /\ apc = "add" <=> anew \in Conns
  /\ apc \in {"loadedI", "loadedMin"} => ai < NumThreads
  /\ apc = "add" => ai = NumThreads
  /\ apc \in {"armed", "accepted"} => amin = 0 /\ ai = 1

\* How far the shutdown has come, and what that leaves running.
MainInv ==
  /\ main \in {"running", "stopping", "joined"} <=> apc # "deleted"
  /\ main \in {"running", "stopping", "joined"} => at = NumThreads - 1
  /\ main = "exited" <=> at = -1

\* Where a connection may be, by its stage and its read.
PlaceInv ==
  /\ asock \in Conns => conn[asock] = "accepted" /\ rpc[asock] = "none"
  /\ anew \in Conns => conn[anew] = "accepted"
  /\ \A t \in Threads : \A c \in Owned(t) : conn[c] = "accepted"
  /\ \A c \in Conns : rpc[c] \in {"none", "pending"} => c \notin closed
  /\ \A c \in Conns : rpc[c] = "none" \/ conn[c] = "accepted"

\* The pass a thread is making visits sockets of the set it runs over.
TodoInv ==
  \A t \in Threads :
    /\ tpc[t] = "adding" => todo[t] \subseteq newSockets[t]
    /\ tpc[t] = "updating" => todo[t] \subseteq sockets[t]

\* The scan so far: nothing has grown since it began, and amin is no busier now
\* than any thread already compared was then.
Scanning == {"scan", "loadedI", "loadedMin", "add"}
ScanInv ==
  /\ apc \in Scanning =>
       /\ \A t \in Threads : connections[t] <= aload[t]
       /\ \A t \in Threads : t < ai => connections[amin] <= aload[t]
  /\ apc = "loadedI" => connections[ai] <= aseen /\ aseen <= aload[ai]
  /\ apc = "loadedMin" =>
       connections[amin] <= aseen /\ \A t \in Threads : t < ai => aseen <= aload[t]

\* The inductive invariant: the properties above and what they rest on, from
\* which the proofs derive every one of them.
IndInv ==
  /\ TypeOK /\ AcceptorInv /\ MainInv /\ PlaceInv /\ TodoInv
  /\ OneOwner /\ CountMatches /\ OpenIsOwned /\ ScanInv /\ NoUseAfterDelete

\* A thread drops only closed sockets, until the threads themselves are destroyed.
OnlyClosedDropped ==
  [][\A t \in Threads, c \in Conns :
       c \in Owned(t) /\ c \notin Owned(t)' => c \in closed \/ main = "joinThread"]_vars

\* A socket its read handler closed is let go of by everyone: its descriptor is closed.
ClosedIsReleased == \A c \in Conns : c \in closed ~> ~Held(c)

\* A peer that leaves before anything it sent was read is noticed, and its connection let
\* go of: the only read a socket ever has fails, whichever thread or handler has the socket
\* at that moment.  (One that leaves later is not noticed: ReadHandler reads no more.)
GoneIsReleased ==
  \A c \in Conns : rpc[c] = "pending" /\ c \in left \ unread ~> ~Held(c) \/ main # "running"

\* Once the pool is told to stop, the process gets through the joins.
ShutdownTerminates == main = "stopping" ~> main = "exited"

\* The accept chain waits for a connection with one still in _socket, which
\* ConfigureSocketFails left there: async_accept will complete with already_open
\* for ever.  The README has this among what the code gets wrong.
Wedged == apc = "armed" /\ asock # NoConn

\* A connection in the backlog is accepted, whatever becomes of those before it,
\* unless its peer gives up, the server stops or the chain is wedged.
BacklogServed ==
  \A c \in Conns :
    conn[c] = "backlog" ~>
      conn[c] = "accepted" \/ c \in left \/ main # "running" \/ Wedged

\* The abstract registry of connections.
OwnerOf(c) ==
  IF \E t \in Threads : c \in Owned(t) THEN CHOOSE t \in Threads : c \in Owned(t)
  ELSE IF conn[c] # "accepted" \/ c \in {asock, anew} THEN -1 ELSE -2
R == INSTANCE Registry WITH owner <- [c \in Conns |-> OwnerOf(c)],
                            shut <- closed, load <- connections

\* The whole layer implements the registry: every connection gets one owner at
\* most, is released once and only when closed, and the loads follow.
RegistrySpec == R!Spec
=============================================================================
