--------------------------- MODULE NetworkProofs ----------------------------
(***************************************************************************)
(* Proofs that the invariants of Network hold for any number of network    *)
(* threads and any finite set of connections.  There is one lemma for each *)
(* conjunct of IndInv: a step from a state in which (some of) IndInv holds *)
(* preserves it.  Each begins with the steps that do not touch what the    *)
(* conjunct is about and goes through the actions that do.                 *)
(***************************************************************************)
EXTENDS Network, TLAPS, FiniteSetTheorems

\* Every step keeps the types: the scan stays within the threads because of
\* AcceptorInv, the destructor because of MainInv.
LEMMA TypeStep ==
  TypeOK /\ AcceptorInv /\ MainInv /\ [Next]_vars => TypeOK'
  <1> SUFFICES ASSUME TypeOK, AcceptorInv, MainInv, [Next]_vars PROVE TypeOK'
    OBVIOUS
  <1> USE ThreadsAssumption DEF Threads, acceptorVars, scanVars, peerVars, readVars,
     threadVars, mainVars, TypeOK, AcceptorStates, ThreadStates
  <1>0. CASE UNCHANGED <<vars>>
    BY <1>0 DEF vars
  <1>1. CASE \E c \in Conns : Connect(c)
    BY <1>1 DEF Connect
  <1>2. CASE \E c \in Conns : PeerSends(c)
    BY <1>2 DEF PeerSends
  <1>3. CASE \E c \in Conns : PeerLeaves(c)
    BY <1>3 DEF PeerLeaves
  <1>4. CASE \E c \in Conns : Accept(c)
    BY <1>4 DEF Accept
  <1>5. CASE ConfigureSocket
    BY <1>5 DEF ConfigureSocket
  <1>6. CASE ConfigureSocketFails
    BY <1>6 DEF ConfigureSocketFails, Rearm
  <1>7. CASE LoadCount
    BY <1>7 DEF LoadCount
  <1>8. CASE Compare
    BY <1>8 DEF Compare, AcceptorInv
  <1>9. CASE MakeSocket
    BY <1>9 DEF MakeSocket, AcceptorInv
  <1>10. CASE MakeSocketFails
    BY <1>10 DEF MakeSocketFails, Rearm
  <1>11. CASE AddSocket
    BY <1>11 DEF AddSocket, Rearm, AcceptorInv
  <1>12. CASE \E c \in Conns : ReadCompletes(c)
    BY <1>12 DEF ReadCompletes
  <1>13. CASE \E c \in Conns : ReadFails(c)
    BY <1>13 DEF ReadFails
  <1>14. CASE \E c \in Conns : ShutdownSocket(c)
    BY <1>14 DEF ShutdownSocket
  <1>15. CASE \E t \in Threads : BeginAddNewSockets(t)
    BY <1>15 DEF BeginAddNewSockets
  <1>16. CASE \E t \in Threads : EndAddNewSockets(t)
    BY <1>16 DEF EndAddNewSockets
  <1>17. CASE \E t \in Threads : EndUpdate(t)
    BY <1>17 DEF EndUpdate
  <1>18. CASE \E t \in Threads, c \in Conns : AddNewSocket(t, c)
    <2> PICK t \in Threads, c \in Conns : AddNewSocket(t, c)
      BY <1>18
    <2>1. CASE c \in closed
      BY <2>1 DEF AddNewSocket
    <2>2. CASE c \notin closed
      BY <2>2 DEF AddNewSocket
    <2> QED
      BY <2>1, <2>2
  <1>19. CASE \E t \in Threads, c \in Conns : UpdateSocket(t, c)
    <2> PICK t \in Threads, c \in Conns : UpdateSocket(t, c)
      BY <1>19
    <2>1. CASE c \in closed
      BY <2>1, SMTT(30) DEF UpdateSocket
    <2>2. CASE c \notin closed
      BY <2>2 DEF UpdateSocket
    <2> QED
      BY <2>1, <2>2
  <1>20. CASE StopPool
    BY <1>20 DEF StopPool
  <1>21. CASE JoinPool
    BY <1>21 DEF JoinPool
  <1>22. CASE DeleteAcceptor
    BY <1>22 DEF DeleteAcceptor
  <1>23. CASE StopThread
    BY <1>23 DEF StopThread
  <1>24. CASE JoinThread
    BY <1>24 DEF JoinThread, MainInv
  <1> QED
    BY <1>0, <1>1, <1>2, <1>3, <1>4, <1>5, <1>6, <1>7, <1>8, <1>9, <1>10, <1>11,
       <1>12, <1>13, <1>14, <1>15, <1>16, <1>17, <1>18, <1>19, <1>20, <1>21, <1>22,
       <1>23, <1>24 DEF vars, Next, Peer, AcceptHandler, ReadHandler, Run, Shutdown,
       Terminated

\* The accept chain keeps its locals straight.
LEMMA AcceptorStep ==
  TypeOK /\ AcceptorInv /\ NoUseAfterDelete /\ [Next]_vars => AcceptorInv'
  <1> SUFFICES ASSUME TypeOK, AcceptorInv, NoUseAfterDelete, [Next]_vars PROVE AcceptorInv'
    OBVIOUS
  <1> USE ConnsAssumption, ThreadsAssumption DEF Threads, acceptorVars, scanVars,
     peerVars, readVars, threadVars, mainVars, TypeOK, AcceptorStates, AcceptorInv
  <1>0. CASE UNCHANGED <<apc, asock, anew, amin, ai>>
    BY <1>0 
  <1>1. CASE \E c \in Conns : Accept(c)
    BY <1>1 DEF Accept
  <1>2. CASE ConfigureSocket
    BY <1>2 DEF ConfigureSocket
  <1>3. CASE ConfigureSocketFails
    BY <1>3 DEF ConfigureSocketFails, Rearm
  <1>4. CASE LoadCount
    BY <1>4 DEF LoadCount
  <1>5. CASE Compare
    BY <1>5 DEF Compare
  <1>6. CASE MakeSocket
    BY <1>6 DEF MakeSocket
  <1>7. CASE MakeSocketFails
    BY <1>7 DEF MakeSocketFails, Rearm
  <1>8. CASE AddSocket
    BY <1>8 DEF AddSocket, Rearm
  <1>9. CASE DeleteAcceptor
    BY <1>9 DEF DeleteAcceptor, NoUseAfterDelete
  <1> QED
    BY <1>0, <1>1, <1>2, <1>3, <1>4, <1>5, <1>6, <1>7, <1>8, <1>9 DEF vars, Next,
       Peer, AcceptHandler, ReadHandler, Run, Shutdown, Terminated, Connect,
       PeerSends, PeerLeaves, ReadCompletes, ReadFails, ShutdownSocket,
       BeginAddNewSockets, EndAddNewSockets, EndUpdate, AddNewSocket, UpdateSocket,
       StopPool, JoinPool, StopThread, JoinThread

\* The shutdown deletes the acceptor once and the threads from the last to the first.
LEMMA MainStep ==
  TypeOK /\ MainInv /\ [Next]_vars => MainInv'
  <1> SUFFICES ASSUME TypeOK, MainInv, [Next]_vars PROVE MainInv'
    OBVIOUS
  <1> USE ThreadsAssumption DEF Threads, acceptorVars, scanVars, peerVars, readVars,
     threadVars, mainVars, TypeOK, MainInv
  <1>0. CASE UNCHANGED <<apc, main, at>>
    BY <1>0 
  <1>1. CASE \E c \in Conns : Accept(c)
    BY <1>1 DEF Accept
  <1>2. CASE ConfigureSocket
    BY <1>2 DEF ConfigureSocket
  <1>3. CASE ConfigureSocketFails
    BY <1>3 DEF ConfigureSocketFails, Rearm
  <1>4. CASE LoadCount
    BY <1>4 DEF LoadCount
  <1>5. CASE Compare
    BY <1>5 DEF Compare
  <1>6. CASE MakeSocket
    BY <1>6 DEF MakeSocket
  <1>7. CASE MakeSocketFails
    BY <1>7 DEF MakeSocketFails, Rearm
  <1>8. CASE AddSocket
    BY <1>8 DEF AddSocket, Rearm
  <1>9. CASE DeleteAcceptor
    BY <1>9 DEF DeleteAcceptor
  <1>10. CASE StopPool
    BY <1>10 DEF StopPool
  <1>11. CASE JoinPool
    BY <1>11 DEF JoinPool
  <1>12. CASE StopThread
    BY <1>12 DEF StopThread
  <1>13. CASE JoinThread
    BY <1>13 DEF JoinThread
  <1> QED
    BY <1>0, <1>1, <1>2, <1>3, <1>4, <1>5, <1>6, <1>7, <1>8, <1>9, <1>10, <1>11,
       <1>12, <1>13 DEF vars, Next, Peer, AcceptHandler, ReadHandler, Run, Shutdown,
       Terminated, Connect, PeerSends, PeerLeaves, ReadCompletes, ReadFails,
       ShutdownSocket, BeginAddNewSockets, EndAddNewSockets, EndUpdate, AddNewSocket,
       UpdateSocket

\* A pass only visits sockets of the set it runs over.
LEMMA TodoStep ==
  TypeOK /\ MainInv /\ TodoInv /\ NoUseAfterDelete /\ [Next]_vars => TodoInv'
  <1> SUFFICES ASSUME TypeOK, MainInv, TodoInv, NoUseAfterDelete, [Next]_vars PROVE TodoInv'
    OBVIOUS
  <1> USE ThreadsAssumption DEF Threads, acceptorVars, scanVars, peerVars, readVars,
     threadVars, mainVars, TypeOK, ThreadStates, TodoInv
  <1>0. CASE UNCHANGED <<newSockets, sockets, tpc, todo>>
    BY <1>0 
  <1>1. CASE AddSocket
    BY <1>1 DEF AddSocket, Rearm
  <1>2. CASE \E t \in Threads : BeginAddNewSockets(t)
    BY <1>2 DEF BeginAddNewSockets
  <1>3. CASE \E t \in Threads, c \in Conns : AddNewSocket(t, c)
    BY <1>3, SMTT(30) DEF AddNewSocket
  <1>4. CASE \E t \in Threads : EndAddNewSockets(t)
    BY <1>4 DEF EndAddNewSockets
  <1>5. CASE \E t \in Threads, c \in Conns : UpdateSocket(t, c)
    BY <1>5, SMTT(30) DEF UpdateSocket
  <1>6. CASE \E t \in Threads : EndUpdate(t)
    BY <1>6 DEF EndUpdate
  <1>7. CASE JoinThread
    BY <1>7 DEF JoinThread, MainInv
  <1> QED
    BY <1>0, <1>1, <1>2, <1>3, <1>4, <1>5, <1>6, <1>7 DEF vars, Next, Peer,
       AcceptHandler, ReadHandler, Run, Shutdown, Terminated, Connect, PeerSends,
       PeerLeaves, Accept, ConfigureSocket, ConfigureSocketFails, LoadCount, Compare,
       MakeSocket, MakeSocketFails, ReadCompletes, ReadFails, ShutdownSocket,
       StopPool, JoinPool, DeleteAcceptor, StopThread

\* What a thread has to move and what it has moved, after each action that changes
\* either: only its own entries change.
LEMMA PassEffect ==
  ASSUME TypeOK, NEW t \in Threads,
         BeginAddNewSockets(t) \/ EndAddNewSockets(t) \/ EndUpdate(t)
  PROVE  /\ \A u \in Threads : Pending(u)' = Pending(u)
         /\ UNCHANGED <<sockets, connections, closed, apc, asock, anew, amin, conn, rpc, main, at>>
  <1> USE DEF TypeOK, ThreadStates, Pending, acceptorVars, scanVars, peerVars, readVars, threadVars, mainVars
  <1>1. CASE BeginAddNewSockets(t)
    <2>1. CASE newSockets[t] = {}
      BY <1>1, <2>1 DEF BeginAddNewSockets
    <2>2. CASE newSockets[t] # {}
      BY <1>1, <2>2 DEF BeginAddNewSockets
    <2> QED
      BY <2>1, <2>2
  <1>2. CASE EndAddNewSockets(t)
    BY <1>2 DEF EndAddNewSockets
  <1>3. CASE EndUpdate(t)
    BY <1>3 DEF EndUpdate
  <1> QED
    BY <1>1, <1>2, <1>3

LEMMA AddNewSocketEffect ==
  ASSUME TypeOK, NEW t \in Threads, NEW c \in Conns, AddNewSocket(t, c)
  PROVE  /\ c \in Pending(t)
         /\ Pending(t)' = Pending(t) \ {c}
         /\ \A u \in Threads : u # t => Pending(u)' = Pending(u)
         /\ c \in closed => sockets' = sockets
         /\ c \notin closed => sockets' = [sockets EXCEPT ![t] = @ \cup {c}]
         /\ c \in closed => connections' = [connections EXCEPT ![t] = @ - 1]
         /\ \A u \in Threads : connections'[u] <= connections[u]
         /\ c \notin closed => connections' = connections
         /\ UNCHANGED <<closed, apc, asock, anew, amin, ai, aseen, aload, conn, rpc, tpc, main, at>>
  BY DEF TypeOK, ThreadStates, Pending, AddNewSocket, acceptorVars, scanVars, peerVars, readVars, threadVars, mainVars

LEMMA UpdateSocketEffect ==
  ASSUME TypeOK, TodoInv, NEW t \in Threads, NEW c \in Conns, UpdateSocket(t, c)
  PROVE  /\ c \in sockets[t]
         /\ \A u \in Threads : Pending(u)' = Pending(u)
         /\ c \in closed => sockets' = [sockets EXCEPT ![t] = @ \ {c}]
         /\ c \notin closed => sockets' = sockets
         /\ c \in closed => connections' = [connections EXCEPT ![t] = @ - 1]
         /\ \A u \in Threads : connections'[u] <= connections[u]
         /\ c \notin closed => connections' = connections
         /\ UNCHANGED <<closed, apc, asock, anew, amin, ai, aseen, aload, conn, rpc, tpc, main, at>>
  BY DEF TypeOK, TodoInv, ThreadStates, Pending, UpdateSocket, acceptorVars, scanVars, peerVars, readVars, threadVars, mainVars

LEMMA AddSocketEffect ==
  ASSUME TypeOK, AcceptorInv, AddSocket
  PROVE  /\ anew \in Conns /\ asock = NoConn /\ anew' = NoConn /\ asock' = NoConn
         /\ amin \in Threads
         /\ \A u \in Threads :
              Pending(u)' = IF u = amin THEN Pending(u) \cup {anew} ELSE Pending(u)
         /\ connections' = [connections EXCEPT ![amin] = @ + 1]
         /\ apc = "add" /\ apc' = "armed"
         /\ UNCHANGED <<sockets, closed, conn, rpc, tpc, main, at>>
  <1>1. apc = "add" /\ anew \in Conns /\ asock = NoConn /\ amin \in Threads
    BY DEF TypeOK, AcceptorInv, AddSocket
  <1>2. /\ tpc[amin] # "adding"
        /\ connections' = [connections EXCEPT ![amin] = @ + 1]
        /\ newSockets' = [newSockets EXCEPT ![amin] = @ \cup {anew}]
        /\ anew' = NoConn /\ apc' = "armed"
        /\ UNCHANGED <<asock, sockets, closed, conn, rpc, tpc, todo, main, at>>
    BY DEF AddSocket, Rearm, acceptorVars, scanVars, peerVars, readVars, threadVars, mainVars
  <1>3. ASSUME NEW u \in Threads
        PROVE  Pending(u)' = IF u = amin THEN Pending(u) \cup {anew} ELSE Pending(u)
    BY <1>1, <1>2 DEF Pending, TypeOK
  <1> QED
    BY <1>1, <1>2, <1>3

LEMMA JoinThreadEffect ==
  ASSUME TypeOK, MainInv, JoinThread
  PROVE  /\ at \in Threads /\ tpc[at] = "done" /\ at' = at - 1
         /\ \A u \in Threads : Pending(u)' = IF u = at THEN {} ELSE Pending(u)
         /\ sockets' = [sockets EXCEPT ![at] = {}]
         /\ connections' = [connections EXCEPT ![at] = 0]
         /\ main = "joinThread" /\ main' = IF at = 0 THEN "exited" ELSE "stopThread"
         /\ apc = "deleted"
         /\ UNCHANGED <<closed, apc, asock, anew, conn, rpc, tpc>>
  <1>1. /\ main = "joinThread" /\ tpc[at] = "done"
        /\ newSockets' = [newSockets EXCEPT ![at] = {}]
        /\ sockets' = [sockets EXCEPT ![at] = {}]
        /\ connections' = [connections EXCEPT ![at] = 0]
        /\ at' = at - 1 /\ main' = IF at = 0 THEN "exited" ELSE "stopThread"
        /\ UNCHANGED <<closed, apc, asock, anew, conn, rpc, tpc, todo>>
    BY DEF JoinThread, acceptorVars, scanVars, peerVars, readVars, threadVars, mainVars
  <1>2. at \in Threads /\ apc = "deleted"
    BY <1>1, ThreadsAssumption DEF MainInv, TypeOK, Threads
  <1>3. ASSUME NEW u \in Threads
        PROVE  Pending(u)' = IF u = at THEN {} ELSE Pending(u)
    BY <1>1, <1>2 DEF Pending, TypeOK
  <1> QED
    BY <1>1, <1>2, <1>3

\* The scan: counts only shrink while it runs, and each comparison keeps the smaller.
LEMMA ScanStep ==
  TypeOK /\ AcceptorInv /\ MainInv /\ TodoInv /\ ScanInv /\ [Next]_vars => ScanInv'
  <1> SUFFICES ASSUME TypeOK, AcceptorInv, MainInv, TodoInv, ScanInv, [Next]_vars PROVE ScanInv'
    OBVIOUS
  <1> USE ThreadsAssumption DEF Threads, acceptorVars, scanVars, peerVars, readVars,
     threadVars, mainVars, TypeOK, AcceptorStates, AcceptorInv, ScanInv, Scanning
  <1>0. CASE UNCHANGED <<apc, ai, amin, aseen, aload, connections>>
    BY <1>0 
  <1>1. CASE ConfigureSocket
    BY <1>1 DEF ConfigureSocket
  <1>2. CASE LoadCount
    BY <1>2 DEF LoadCount
  <1>3. CASE Compare
    <2>1. ai \in Threads /\ amin \in Threads /\ connections' = connections /\ aload' = aload
          /\ ai' = ai + 1 /\ apc' = "scan" /\ amin' = IF IsLess THEN ai ELSE amin
      BY <1>3 DEF Compare
    <2>2. CASE apc = "loadedI"
      <3>1. connections[ai] <= aseen /\ aseen <= aload[ai]
        BY <2>2
      <3>2. CASE aseen < connections[amin]
        <4>1. amin' = ai
          BY <2>1, <2>2, <3>2 DEF IsLess
        <4> QED
          BY <2>1, <2>2, <3>1, <3>2, <4>1
      <3>3. CASE ~(aseen < connections[amin])
        <4>1. amin' = amin
          BY <2>1, <2>2, <3>3 DEF IsLess
        <4> QED
          BY <2>1, <2>2, <3>1, <3>3, <4>1
      <3> QED
        BY <3>2, <3>3
    <2>3. CASE apc = "loadedMin"
      <3>1. connections[amin] <= aseen /\ connections[ai] <= aload[ai]
        BY <2>1, <2>3
      <3>2. CASE connections[ai] < aseen
        <4>1. amin' = ai
          BY <2>1, <2>3, <3>2 DEF IsLess
        <4> QED
          BY <2>1, <2>3, <3>1, <3>2, <4>1
      <3>3. CASE ~(connections[ai] < aseen)
        <4>1. amin' = amin
          BY <2>1, <2>3, <3>3 DEF IsLess
        <4> QED
          BY <2>1, <2>3, <3>1, <3>3, <4>1
      <3> QED
        BY <3>2, <3>3
    <2> QED
      BY <1>3, <2>2, <2>3 DEF Compare
  <1>4. CASE \E c \in Conns : Accept(c)
    BY <1>4 DEF Accept
  <1>5. CASE ConfigureSocketFails
    BY <1>5 DEF ConfigureSocketFails, Rearm
  <1>6. CASE MakeSocket
    BY <1>6 DEF MakeSocket
  <1>7. CASE MakeSocketFails
    BY <1>7 DEF MakeSocketFails, Rearm
  <1>8. CASE AddSocket
    BY <1>8 DEF AddSocket, Rearm
  <1>9. CASE \E t \in Threads, c \in Conns : AddNewSocket(t, c)
    <2> PICK t \in Threads, c \in Conns : AddNewSocket(t, c)
      BY <1>9
    <2>1. \A u \in Threads : connections'[u] <= connections[u] /\ connections'[u] \in Int
      BY AddNewSocketEffect, TypeStep
    <2>2. UNCHANGED <<apc, ai, amin, aseen, aload>>
      BY AddNewSocketEffect
    <2>3. apc \in Scanning => \A u \in Threads : connections'[u] <= aload[u]
      BY <2>1
    <2>6. ASSUME apc \in Scanning, NEW u \in Threads, u < ai
          PROVE  connections'[amin] <= aload[u]
      <3>1. connections[amin] <= aload[u] /\ connections'[amin] <= connections[amin]
        BY <2>1, <2>6
      <3> QED
        BY <2>1, <3>1, SMTT(30)
    <2>4. apc = "loadedI" => connections'[ai] <= aseen /\ aseen <= aload[ai]
      BY <2>1
    <2>5. apc = "loadedMin" =>
            connections'[amin] <= aseen /\ \A u \in Threads : u < ai => aseen <= aload[u]
      BY <2>1
    <2> QED
      BY <2>2, <2>3, <2>4, <2>5, <2>6
  <1>10. CASE \E t \in Threads, c \in Conns : UpdateSocket(t, c)
    <2> PICK t \in Threads, c \in Conns : UpdateSocket(t, c)
      BY <1>10
    <2>1. \A u \in Threads : connections'[u] <= connections[u] /\ connections'[u] \in Int
      BY UpdateSocketEffect, TypeStep
    <2>2. UNCHANGED <<apc, ai, amin, aseen, aload>>
      BY UpdateSocketEffect
    <2>3. apc \in Scanning => \A u \in Threads : connections'[u] <= aload[u]
      BY <2>1
    <2>6. ASSUME apc \in Scanning, NEW u \in Threads, u < ai
          PROVE  connections'[amin] <= aload[u]
      <3>1. connections[amin] <= aload[u] /\ connections'[amin] <= connections[amin]
        BY <2>1, <2>6
      <3> QED
        BY <2>1, <3>1
    <2>4. apc = "loadedI" => connections'[ai] <= aseen /\ aseen <= aload[ai]
      BY <2>1
    <2>5. apc = "loadedMin" =>
            connections'[amin] <= aseen /\ \A u \in Threads : u < ai => aseen <= aload[u]
      BY <2>1
    <2> QED
      BY <2>2, <2>3, <2>4, <2>5, <2>6
  <1>11. CASE DeleteAcceptor
    BY <1>11 DEF DeleteAcceptor
  <1>12. CASE JoinThread
    BY <1>12 DEF JoinThread, MainInv
  <1> QED
    BY <1>0, <1>1, <1>2, <1>3, <1>4, <1>5, <1>6, <1>7, <1>8, <1>9, <1>10, <1>11, <1>12
       DEF vars, Next, Peer, AcceptHandler, ReadHandler, Run, Shutdown, Terminated,
       Connect, PeerSends, PeerLeaves, ReadCompletes, ReadFails, ShutdownSocket,
       BeginAddNewSockets, EndAddNewSockets, EndUpdate, StopPool, JoinPool, StopThread

\* A connection is where its stage says.
LEMMA PlaceStep ==
  TypeOK /\ AcceptorInv /\ MainInv /\ TodoInv /\ PlaceInv /\ [Next]_vars => PlaceInv'
  <1> SUFFICES ASSUME TypeOK, AcceptorInv, MainInv, TodoInv, PlaceInv, [Next]_vars PROVE PlaceInv'
    OBVIOUS
  <1> USE ConnsAssumption, ThreadsAssumption DEF Owned, acceptorVars, scanVars,
     peerVars, readVars, threadVars, mainVars, TypeOK, PlaceInv
  <1>0. CASE UNCHANGED <<asock, anew, conn, rpc, closed, newSockets, sockets, tpc, todo>>
    BY <1>0 DEF Pending
  <1>1. CASE \E c \in Conns : Connect(c)
    BY <1>1 DEF Connect, Pending
  <1>2. CASE \E c \in Conns : Accept(c)
    BY <1>2 DEF Accept, Pending
  <1>3. CASE MakeSocket
    BY <1>3 DEF MakeSocket, AcceptorInv, Pending
  <1>4. CASE MakeSocketFails
    BY <1>4 DEF MakeSocketFails, Rearm, Pending
  <1>5. CASE \E c \in Conns : ReadCompletes(c)
    BY <1>5 DEF ReadCompletes, Pending
  <1>6. CASE \E c \in Conns : ReadFails(c)
    BY <1>6 DEF ReadFails, Pending
  <1>7. CASE \E c \in Conns : ShutdownSocket(c)
    BY <1>7 DEF ShutdownSocket, Pending
  <1>8. CASE DeleteAcceptor
    BY <1>8 DEF DeleteAcceptor, Pending
  <1>9. CASE AddSocket
    BY <1>9, AddSocketEffect
  <1>10. CASE \E t \in Threads : BeginAddNewSockets(t)
    BY <1>10, PassEffect
  <1>11. CASE \E t \in Threads, c \in Conns : AddNewSocket(t, c)
    <2> PICK t \in Threads, c \in Conns : AddNewSocket(t, c)
      BY <1>11
    <2> QED
      BY AddNewSocketEffect
  <1>12. CASE \E t \in Threads : EndAddNewSockets(t)
    BY <1>12, PassEffect
  <1>13. CASE \E t \in Threads, c \in Conns : UpdateSocket(t, c)
    <2> PICK t \in Threads, c \in Conns : UpdateSocket(t, c)
      BY <1>13
    <2> QED
      BY UpdateSocketEffect
  <1>14. CASE \E t \in Threads : EndUpdate(t)
    BY <1>14, PassEffect
  <1>15. CASE JoinThread
    BY <1>15, JoinThreadEffect
  <1> QED
    BY <1>0, <1>1, <1>2, <1>3, <1>4, <1>5, <1>6, <1>7, <1>8, <1>9, <1>10, <1>11,
       <1>12, <1>13, <1>14, <1>15 DEF vars, Next, Peer, AcceptHandler, ReadHandler,
       Run, Shutdown, Terminated, PeerSends, PeerLeaves, ConfigureSocket,
       ConfigureSocketFails, LoadCount, Compare, StopPool, JoinPool, StopThread

\* Nothing gains a second owner.
LEMMA OwnerStep ==
  TypeOK /\ AcceptorInv /\ MainInv /\ TodoInv /\ PlaceInv /\ OneOwner /\ [Next]_vars => OneOwner'
  <1> SUFFICES ASSUME TypeOK, AcceptorInv, MainInv, TodoInv, PlaceInv, OneOwner, [Next]_vars PROVE OneOwner'
    OBVIOUS
  <1> USE ConnsAssumption, ThreadsAssumption DEF Owned, acceptorVars, scanVars,
     peerVars, readVars, threadVars, mainVars, TypeOK, OneOwner
  <1>0. CASE UNCHANGED <<asock, anew, newSockets, sockets, tpc, todo>>
    BY <1>0 DEF Pending
  <1>1. CASE \E c \in Conns : Accept(c)
    BY <1>1 DEF Accept, PlaceInv, Pending
  <1>2. CASE MakeSocket
    BY <1>2 DEF MakeSocket, AcceptorInv, Pending
  <1>3. CASE MakeSocketFails
    BY <1>3 DEF MakeSocketFails, Rearm, Pending
  <1>4. CASE DeleteAcceptor
    BY <1>4 DEF DeleteAcceptor, Pending
  <1>5. CASE AddSocket
    BY <1>5, AddSocketEffect
  <1>6. CASE \E t \in Threads : BeginAddNewSockets(t)
    BY <1>6, PassEffect
  <1>7. CASE \E t \in Threads, c \in Conns : AddNewSocket(t, c)
    <2> PICK t \in Threads, c \in Conns : AddNewSocket(t, c)
      BY <1>7
    <2> QED
      BY AddNewSocketEffect
  <1>8. CASE \E t \in Threads : EndAddNewSockets(t)
    BY <1>8, PassEffect
  <1>9. CASE \E t \in Threads, c \in Conns : UpdateSocket(t, c)
    <2> PICK t \in Threads, c \in Conns : UpdateSocket(t, c)
      BY <1>9
    <2> QED
      BY UpdateSocketEffect
  <1>10. CASE \E t \in Threads : EndUpdate(t)
    BY <1>10, PassEffect
  <1>11. CASE JoinThread
    BY <1>11, JoinThreadEffect
  <1> QED
    BY <1>0, <1>1, <1>2, <1>3, <1>4, <1>5, <1>6, <1>7, <1>8, <1>9, <1>10, <1>11 DEF
       vars, Next, Peer, AcceptHandler, ReadHandler, Run, Shutdown, Terminated,
       Connect, PeerSends, PeerLeaves, ConfigureSocket, ConfigureSocketFails,
       LoadCount, Compare, ReadCompletes, ReadFails, ShutdownSocket, StopPool,
       JoinPool, StopThread

\* An open socket with a read pending stays with a thread.
LEMMA OpenStep ==
  TypeOK /\ AcceptorInv /\ MainInv /\ TodoInv /\ PlaceInv /\ OpenIsOwned /\ [Next]_vars => OpenIsOwned'
  <1> SUFFICES ASSUME TypeOK, AcceptorInv, MainInv, TodoInv, PlaceInv, OpenIsOwned, [Next]_vars PROVE OpenIsOwned'
    OBVIOUS
  <1> USE ConnsAssumption, ThreadsAssumption DEF Owned, acceptorVars, scanVars,
     peerVars, readVars, threadVars, mainVars, TypeOK, OpenIsOwned
  <1>0. CASE UNCHANGED <<anew, rpc, newSockets, sockets, tpc, todo, at>>
    BY <1>0 DEF Pending
  <1>1. CASE MakeSocket
    BY <1>1 DEF MakeSocket, AcceptorInv, Pending
  <1>2. CASE \E c \in Conns : ReadCompletes(c)
    BY <1>2 DEF ReadCompletes, Pending
  <1>3. CASE \E c \in Conns : ReadFails(c)
    BY <1>3 DEF ReadFails, Pending
  <1>4. CASE \E c \in Conns : ShutdownSocket(c)
    BY <1>4 DEF ShutdownSocket, Pending
  <1>5. CASE AddSocket
    BY <1>5, AddSocketEffect
  <1>6. CASE \E t \in Threads : BeginAddNewSockets(t)
    BY <1>6, PassEffect
  <1>7. CASE \E t \in Threads, c \in Conns : AddNewSocket(t, c)
    <2> PICK t \in Threads, c \in Conns : AddNewSocket(t, c)
      BY <1>7
    <2> QED
      BY AddNewSocketEffect DEF PlaceInv
  <1>8. CASE \E t \in Threads : EndAddNewSockets(t)
    BY <1>8, PassEffect
  <1>9. CASE \E t \in Threads, c \in Conns : UpdateSocket(t, c)
    <2> PICK t \in Threads, c \in Conns : UpdateSocket(t, c)
      BY <1>9
    <2> QED
      BY UpdateSocketEffect DEF PlaceInv
  <1>10. CASE \E t \in Threads : EndUpdate(t)
    BY <1>10, PassEffect
  <1>11. CASE JoinThread
    BY <1>11, JoinThreadEffect DEF MainInv, Threads
  <1> QED
    BY <1>0, <1>1, <1>2, <1>3, <1>4, <1>5, <1>6, <1>7, <1>8, <1>9, <1>10, <1>11 DEF
       vars, Next, Peer, AcceptHandler, ReadHandler, Run, Shutdown, Terminated,
       Connect, PeerSends, PeerLeaves, Accept, ConfigureSocket, ConfigureSocketFails,
       LoadCount, Compare, MakeSocketFails, StopPool, JoinPool, DeleteAcceptor,
       StopThread

\* What is destroyed is not used again.
LEMMA DeleteStep ==
  TypeOK /\ AcceptorInv /\ MainInv /\ TodoInv /\ NoUseAfterDelete /\ [Next]_vars => NoUseAfterDelete'
  <1> SUFFICES ASSUME TypeOK, AcceptorInv, MainInv, TodoInv, NoUseAfterDelete, [Next]_vars PROVE NoUseAfterDelete'
    OBVIOUS
  <1> USE ConnsAssumption, ThreadsAssumption DEF Owned, acceptorVars, scanVars,
     peerVars, readVars, threadVars, mainVars, TypeOK, PoolRuns, NoUseAfterDelete,
     AcceptorStates
  <1>0. CASE UNCHANGED <<main, apc, rpc, at, newSockets, sockets, tpc, todo>>
    BY <1>0 DEF Pending
  <1>1. CASE \E c \in Conns : Accept(c)
    BY <1>1 DEF Accept, Pending, MainInv
  <1>2. CASE ConfigureSocket
    BY <1>2 DEF ConfigureSocket, Pending, MainInv
  <1>3. CASE ConfigureSocketFails
    BY <1>3 DEF ConfigureSocketFails, Rearm, Pending, MainInv
  <1>4. CASE LoadCount
    BY <1>4 DEF LoadCount, Pending, MainInv
  <1>5. CASE Compare
    BY <1>5 DEF Compare, Pending, MainInv
  <1>6. CASE MakeSocket
    BY <1>6 DEF MakeSocket, Pending, MainInv
  <1>7. CASE MakeSocket
    BY <1>7 DEF MakeSocket, Pending, MainInv
  <1>8. CASE MakeSocketFails
    BY <1>8 DEF MakeSocketFails, Rearm, Pending, MainInv
  <1>9. CASE DeleteAcceptor
    BY <1>9 DEF DeleteAcceptor, Pending, MainInv
  <1>10. CASE \E c \in Conns : ReadCompletes(c)
    BY <1>10 DEF ReadCompletes, Pending, MainInv
  <1>11. CASE \E c \in Conns : ReadFails(c)
    BY <1>11 DEF ReadFails, Pending, MainInv
  <1>12. CASE \E c \in Conns : ShutdownSocket(c)
    BY <1>12 DEF ShutdownSocket, Pending, MainInv
  <1>13. CASE StopPool
    BY <1>13 DEF StopPool, Pending, MainInv
  <1>14. CASE JoinPool
    BY <1>14 DEF JoinPool, Pending, MainInv
  <1>15. CASE StopThread
    BY <1>15 DEF StopThread, Pending, MainInv
  <1>16. CASE AddSocket
    BY <1>16, AddSocketEffect DEF MainInv, Threads
  <1>17. CASE \E t \in Threads : BeginAddNewSockets(t)
    <2> PICK t \in Threads : BeginAddNewSockets(t)
      BY <1>17
    <2>1. tpc[t] # "done" /\ \A u \in Threads : u # t => tpc'[u] = tpc[u]
      BY DEF BeginAddNewSockets
    <2> QED
      BY <2>1, PassEffect DEF Threads
  <1>18. CASE \E t \in Threads, c \in Conns : AddNewSocket(t, c)
    <2> PICK t \in Threads, c \in Conns : AddNewSocket(t, c)
      BY <1>18
    <2>1. tpc[t] # "done" /\ tpc' = tpc /\ UNCHANGED <<main, apc, rpc, at>>
      BY AddNewSocketEffect DEF AddNewSocket
    <2>2. ASSUME NEW u \in Threads, u > at
          PROVE  tpc'[u] = "done" /\ Pending(u)' = {} /\ sockets'[u] = {}
      <3>1. u # t /\ tpc[u] = "done" /\ Pending(u) = {} /\ sockets[u] = {}
        BY <2>1, <2>2
      <3>2. Pending(u)' = Pending(u)
        BY <3>1, AddNewSocketEffect
      <3>3. sockets'[u] = sockets[u]
        BY <3>1, AddNewSocketEffect
      <3> QED
        BY <2>1, <3>1, <3>2, <3>3
    <2> QED
      BY <2>1, <2>2
  <1>19. CASE \E t \in Threads : EndAddNewSockets(t)
    <2> PICK t \in Threads : EndAddNewSockets(t)
      BY <1>19
    <2>1. tpc[t] # "done" /\ \A u \in Threads : u # t => tpc'[u] = tpc[u]
      BY DEF EndAddNewSockets
    <2> QED
      BY <2>1, PassEffect DEF Threads
  <1>20. CASE \E t \in Threads, c \in Conns : UpdateSocket(t, c)
    <2> PICK t \in Threads, c \in Conns : UpdateSocket(t, c)
      BY <1>20
    <2>1. tpc[t] # "done" /\ tpc' = tpc /\ UNCHANGED <<main, apc, rpc, at>>
      BY UpdateSocketEffect DEF UpdateSocket
    <2>2. ASSUME NEW u \in Threads, u > at
          PROVE  tpc'[u] = "done" /\ Pending(u)' = {} /\ sockets'[u] = {}
      <3>1. u # t /\ tpc[u] = "done" /\ Pending(u) = {} /\ sockets[u] = {}
        BY <2>1, <2>2
      <3>2. Pending(u)' = Pending(u)
        BY <3>1, UpdateSocketEffect
      <3>3. sockets'[u] = sockets[u]
        BY <3>1, UpdateSocketEffect
      <3> QED
        BY <2>1, <3>1, <3>2, <3>3
    <2> QED
      BY <2>1, <2>2
  <1>21. CASE \E t \in Threads : EndUpdate(t)
    <2> PICK t \in Threads : EndUpdate(t)
      BY <1>21
    <2>1. tpc[t] # "done" /\ \A u \in Threads : u # t => tpc'[u] = tpc[u]
      BY DEF EndUpdate
    <2> QED
      BY <2>1, PassEffect DEF Threads
  <1>22. CASE JoinThread
    BY <1>22, JoinThreadEffect, SMTT(30) DEF MainInv, Threads
  <1> QED
    BY <1>0, <1>1, <1>2, <1>3, <1>4, <1>5, <1>6, <1>7, <1>8, <1>9, <1>10, <1>11,
       <1>12, <1>13, <1>14, <1>15, <1>16, <1>17, <1>18, <1>19, <1>20, <1>21, <1>22 DEF
       vars, Next, Peer, AcceptHandler, ReadHandler, Run, Shutdown, Terminated,
       Connect, PeerSends, PeerLeaves

\* The sets a thread holds are finite, so that they can be counted.
LEMMA FiniteSets ==
  ASSUME TypeOK, NEW t \in Threads
  PROVE  IsFiniteSet(Pending(t)) /\ IsFiniteSet(sockets[t])
  <1>1. Pending(t) \subseteq Conns /\ sockets[t] \subseteq Conns
    BY DEF TypeOK, Pending
  <1> QED
    BY <1>1, ConnsAssumption, FS_Subset

\* Every change of a count goes with a change of a set by one element.
LEMMA CountStep ==
  TypeOK /\ AcceptorInv /\ MainInv /\ TodoInv /\ OneOwner /\ CountMatches /\ [Next]_vars => CountMatches'
  <1> SUFFICES ASSUME TypeOK, AcceptorInv, MainInv, TodoInv, OneOwner, CountMatches, [Next]_vars PROVE CountMatches'
    OBVIOUS
  <1> USE DEF CountMatches, acceptorVars, scanVars, peerVars, readVars, threadVars,
     mainVars
  <1>0. CASE UNCHANGED <<newSockets, sockets, tpc, todo, connections>>
    BY <1>0 DEF Pending
  <1>1. CASE AddSocket
    <2>1. anew \notin Pending(amin)
      BY <1>1, AddSocketEffect DEF OneOwner, Owned
    <2>2. ASSUME NEW u \in Threads
          PROVE  connections'[u] = Cardinality(Pending(u)') + Cardinality(sockets'[u])
      <3>1. CASE u = amin
        <4>1. Pending(u)' = Pending(u) \cup {anew} /\ sockets'[u] = sockets[u]
              /\ connections'[u] = connections[u] + 1
          BY <1>1, <3>1, AddSocketEffect DEF TypeOK
        <4>2. Cardinality(Pending(u) \cup {anew}) = Cardinality(Pending(u)) + 1
          BY <2>1, <3>1, FiniteSets, FS_AddElement
        <4>3. Cardinality(Pending(u)) \in Nat /\ Cardinality(sockets[u]) \in Nat
          BY FiniteSets, FS_CardinalityType
        <4> QED
          BY <4>1, <4>2, <4>3
      <3>2. CASE u # amin
        BY <1>1, <3>2, AddSocketEffect DEF TypeOK
      <3> QED
        BY <3>1, <3>2
    <2> QED
      BY <2>2
  <1>2. CASE \E t \in Threads : BeginAddNewSockets(t)
    BY <1>2, PassEffect
  <1>3. CASE \E t \in Threads, c \in Conns : AddNewSocket(t, c)
    <2> PICK t \in Threads, c \in Conns : AddNewSocket(t, c)
      BY <1>3
    <2>1. c \in Pending(t) /\ c \notin sockets[t]
      BY AddNewSocketEffect DEF OneOwner
    <2>2. Cardinality(Pending(t) \ {c}) = Cardinality(Pending(t)) - 1
      BY <2>1, FiniteSets, FS_RemoveElement
    <2>3. Cardinality(sockets[t] \cup {c}) = Cardinality(sockets[t]) + 1
      BY <2>1, FiniteSets, FS_AddElement
    <2>4. Cardinality(Pending(t)) \in Nat /\ Cardinality(sockets[t]) \in Nat
      BY FiniteSets, FS_CardinalityType
    <2>5. ASSUME NEW u \in Threads
          PROVE  connections'[u] = Cardinality(Pending(u)') + Cardinality(sockets'[u])
      <3>1. CASE u = t /\ c \in closed
        <4>1. Pending(u)' = Pending(t) \ {c} /\ sockets'[u] = sockets[t]
              /\ connections'[u] = connections[t] - 1
          BY <3>1, AddNewSocketEffect DEF TypeOK
        <4> QED
          BY <4>1, <2>2, <2>4
      <3>2. CASE u = t /\ c \notin closed
        <4>1. Pending(u)' = Pending(t) \ {c} /\ sockets'[u] = sockets[t] \cup {c}
              /\ connections'[u] = connections[t]
          BY <3>2, AddNewSocketEffect DEF TypeOK
        <4> QED
          BY <4>1, <2>2, <2>3, <2>4
      <3>3. CASE u # t
        <4>1. Pending(u)' = Pending(u) /\ sockets'[u] = sockets[u]
              /\ connections'[u] = connections[u]
          BY <3>3, AddNewSocketEffect DEF TypeOK
        <4> QED
          BY <4>1
      <3> QED
        BY <3>1, <3>2, <3>3
    <2> QED
      BY <2>5
  <1>4. CASE \E t \in Threads : EndAddNewSockets(t)
    BY <1>4, PassEffect
  <1>5. CASE \E t \in Threads, c \in Conns : UpdateSocket(t, c)
    <2> PICK t \in Threads, c \in Conns : UpdateSocket(t, c)
      BY <1>5
    <2>1. Cardinality(sockets[t] \ {c}) = Cardinality(sockets[t]) - 1
      BY UpdateSocketEffect, FiniteSets, FS_RemoveElement
    <2>2. Cardinality(Pending(t)) \in Nat /\ Cardinality(sockets[t]) \in Nat
      BY FiniteSets, FS_CardinalityType
    <2>3. ASSUME NEW u \in Threads
          PROVE  connections'[u] = Cardinality(Pending(u)') + Cardinality(sockets'[u])
      <3>1. CASE u = t /\ c \in closed
        <4>1. Pending(u)' = Pending(t) /\ sockets'[u] = sockets[t] \ {c}
              /\ connections'[u] = connections[t] - 1
          BY <3>1, UpdateSocketEffect DEF TypeOK
        <4> QED
          BY <4>1, <2>1, <2>2
      <3>2. CASE u # t \/ c \notin closed
        <4>1. Pending(u)' = Pending(u) /\ sockets'[u] = sockets[u]
              /\ connections'[u] = connections[u]
          BY <3>2, UpdateSocketEffect DEF TypeOK
        <4> QED
          BY <4>1
      <3> QED
        BY <3>1, <3>2
    <2> QED
      BY <2>3
  <1>6. CASE \E t \in Threads : EndUpdate(t)
    BY <1>6, PassEffect
  <1>7. CASE JoinThread
    <2>1. ASSUME NEW u \in Threads
          PROVE  connections'[u] = Cardinality(Pending(u)') + Cardinality(sockets'[u])
      <3>1. CASE u = at
        <4>1. Pending(u)' = {} /\ sockets'[u] = {} /\ connections'[u] = 0
          BY <1>7, <3>1, JoinThreadEffect DEF TypeOK
        <4> QED
          BY <4>1, FS_EmptySet
      <3>2. CASE u # at
        BY <1>7, <3>2, JoinThreadEffect DEF TypeOK
      <3> QED
        BY <3>1, <3>2
    <2> QED
      BY <2>1
  <1> QED
    BY <1>0, <1>1, <1>2, <1>3, <1>4, <1>5, <1>6, <1>7 DEF vars, Next, Peer,
       AcceptHandler, ReadHandler, Run, Shutdown, Terminated, Connect, PeerSends,
       PeerLeaves, Accept, ConfigureSocket, ConfigureSocketFails, LoadCount, Compare,
       MakeSocket, MakeSocketFails, ReadCompletes, ReadFails, ShutdownSocket,
       StopPool, JoinPool, DeleteAcceptor, StopThread

\* The initial state satisfies the inductive invariant.
LEMMA IndInit == Init => IndInv
  <1> SUFFICES ASSUME Init PROVE IndInv
    OBVIOUS
  <1> USE ConnsAssumption, ThreadsAssumption DEF Init, Threads, Pending, Owned
  <1>1. TypeOK
    BY DEF TypeOK, AcceptorStates, ThreadStates
  <1>2. AcceptorInv /\ MainInv /\ ScanInv
    BY DEF AcceptorInv, MainInv, ScanInv, Scanning
  <1>3. PlaceInv /\ TodoInv /\ OneOwner /\ OpenIsOwned /\ NoUseAfterDelete
    BY DEF PlaceInv, TodoInv, OneOwner, OpenIsOwned, NoUseAfterDelete
  <1>4. CountMatches
    BY FS_EmptySet DEF CountMatches
  <1> QED
    BY <1>1, <1>2, <1>3, <1>4 DEF IndInv

\* Every step preserves the inductive invariant.
LEMMA IndStep == IndInv /\ [Next]_vars => IndInv'
  BY TypeStep, AcceptorStep, MainStep, PlaceStep, TodoStep, OwnerStep, CountStep, OpenStep,
     ScanStep, DeleteStep DEF IndInv

\* The inductive invariant holds throughout.
THEOREM Invariance == Spec => []IndInv
  BY IndInit, IndStep, PTL DEF Spec

\* All state of the network layer keeps its type.
THEOREM TypeCorrect == Spec => []TypeOK
  <1>1. IndInv => TypeOK
    BY DEF IndInv
  <1> QED
    BY <1>1, Invariance, PTL

\* NetworkThread::_connections is the number of sockets the thread has, in every
\* interleaving and for every number of threads and connections.
THEOREM CountsMatch == Spec => []CountMatches
  <1>1. IndInv => CountMatches
    BY DEF IndInv
  <1> QED
    BY <1>1, Invariance, PTL

\* No socket is with two threads, or with a thread and the acceptor.
THEOREM SingleOwner == Spec => []OneOwner
  <1>1. IndInv => OneOwner
    BY DEF IndInv
  <1> QED
    BY <1>1, Invariance, PTL

\* An open socket whose read is pending is never known to its handler alone.
THEOREM OpenSocketsAreOwned == Spec => []OpenIsOwned
  <1>1. IndInv => OpenIsOwned
    BY DEF IndInv
  <1> QED
    BY <1>1, Invariance, PTL

\* OnSocketOpen never hands a socket to a thread that is, at that moment, busier
\* than any thread was when the unlocked scan began.
THEOREM LeastLoadedChosen == Spec => []LeastLoaded
  <1>1. IndInv => LeastLoaded
    BY ThreadsAssumption DEF IndInv, ScanInv, Scanning, AcceptorInv, LeastLoaded, Threads
  <1> QED
    BY <1>1, Invariance, PTL

\* The shutdown destroys the acceptor and the threads only when nothing uses them.
THEOREM NothingUsedAfterDelete == Spec => []NoUseAfterDelete
  <1>1. IndInv => NoUseAfterDelete
    BY DEF IndInv
  <1> QED
    BY <1>1, Invariance, PTL

\* A network thread drops only closed sockets before it is itself destroyed.
THEOREM ClosedDropped == Spec => OnlyClosedDropped
  <1> DEFINE Drop == \A t \in Threads, c \in Conns :
                       c \in Owned(t) /\ c \notin Owned(t)' => c \in closed \/ main = "joinThread"
  <1>1. IndInv /\ [Next]_vars => [Drop]_vars
    <2> SUFFICES ASSUME IndInv, Next,
                        NEW t \in Threads, NEW c \in Conns, c \in Owned(t), c \notin Owned(t)'
                 PROVE  c \in closed \/ main = "joinThread"
      BY DEF vars
    <2> USE DEF IndInv, Owned, acceptorVars, scanVars, peerVars, readVars, threadVars, mainVars
    <2>0. CASE UNCHANGED <<newSockets, sockets, tpc, todo>>
      BY <2>0 DEF Pending
    <2>1. CASE AddSocket
      BY <2>1, AddSocketEffect
    <2>2. CASE \E u \in Threads : BeginAddNewSockets(u) \/ EndAddNewSockets(u) \/ EndUpdate(u)
      BY <2>2, PassEffect
    <2>3. CASE \E u \in Threads, d \in Conns : AddNewSocket(u, d)
      <3> PICK u \in Threads, d \in Conns : AddNewSocket(u, d)
        BY <2>3
      <3>1. CASE d \in closed
        BY <3>1, AddNewSocketEffect
      <3>2. CASE d \notin closed
        BY <3>2, AddNewSocketEffect DEF TypeOK
      <3> QED
        BY <3>1, <3>2
    <2>4. CASE \E u \in Threads, d \in Conns : UpdateSocket(u, d)
      <3> PICK u \in Threads, d \in Conns : UpdateSocket(u, d)
        BY <2>4
      <3> QED
        BY UpdateSocketEffect DEF TypeOK
    <2>5. CASE JoinThread
      BY <2>5, JoinThreadEffect
    <2> QED
      BY <2>0, <2>1, <2>2, <2>3, <2>4, <2>5 DEF Next, Peer, AcceptHandler, ReadHandler, Run,
         Shutdown, Terminated, vars, Connect, PeerSends, PeerLeaves, Accept, ConfigureSocket,
         ConfigureSocketFails, LoadCount, Compare, MakeSocket, MakeSocketFails, ReadCompletes,
         ReadFails, ShutdownSocket, StopPool, JoinPool, DeleteAcceptor, StopThread
  <1> QED
    BY <1>1, Invariance, PTL DEF Spec, OnlyClosedDropped

(***************************************************************************)
(* The network layer implements Registry.                                  *)
(***************************************************************************)
\* Nobody has been given the connection yet, and it has not been given up.
Waiting(c) == conn[c] # "accepted" \/ c \in {asock, anew}

LEMMA OwnerKnown ==
  OneOwner => \A c \in Conns, t \in Threads : c \in Owned(t) => OwnerOf(c) = t
  <1> SUFFICES ASSUME OneOwner, NEW c \in Conns, NEW t \in Threads, c \in Owned(t)
               PROVE  OwnerOf(c) = t
    OBVIOUS
  <1>1. \A u \in Threads : c \in Owned(u) => u = t
    BY DEF OneOwner
  <1>2. (CHOOSE u \in Threads : c \in Owned(u)) = t
    BY <1>1
  <1> QED
    BY <1>2 DEF OwnerOf

LEMMA OwnerNone ==
  \A c \in Conns : (\A t \in Threads : c \notin Owned(t)) =>
    /\ Waiting(c) => OwnerOf(c) = -1
    /\ ~Waiting(c) => OwnerOf(c) = -2
  BY DEF OwnerOf, Waiting

\* The same of the state after a step.
LEMMA OwnerKnownNext ==
  OneOwner' => (\A c \in Conns, t \in Threads : c \in Owned(t) => OwnerOf(c) = t)'
  BY OwnerKnown, PTL

LEMMA OwnerNoneNext ==
  (\A c \in Conns : (\A t \in Threads : c \notin Owned(t)) =>
     /\ Waiting(c) => OwnerOf(c) = -1
     /\ ~Waiting(c) => OwnerOf(c) = -2)'
  BY OwnerNone, PTL

\* A connection keeps its owner when the same thread, or none, has it.
LEMMA SameOwner ==
  ASSUME OneOwner, OneOwner', NEW c \in Conns,
         \A t \in Threads : c \in Owned(t)' <=> c \in Owned(t),
         (\E t \in Threads : c \in Owned(t)) \/ (Waiting(c)' <=> Waiting(c))
  PROVE  OwnerOf(c)' = OwnerOf(c)
  <1>1. CASE \E t \in Threads : c \in Owned(t)
    BY <1>1, OwnerKnown, OwnerKnownNext
  <1>2. CASE \A t \in Threads : c \notin Owned(t)
    BY <1>2, OwnerNone, OwnerNoneNext
  <1> QED
    BY <1>1, <1>2

\* A step that moves no socket and closes none is none of the registry's.
LEMMA RegistryStutters ==
  ASSUME OneOwner, OneOwner', \A t \in Threads : Owned(t)' = Owned(t),
         \A c \in Conns : (\E t \in Threads : c \in Owned(t)) \/ (Waiting(c)' <=> Waiting(c)),
         UNCHANGED <<closed, connections>>
  PROVE  UNCHANGED R!vars
  <1>1. \A c \in Conns : OwnerOf(c)' = OwnerOf(c)
    BY SameOwner
  <1> QED
    BY <1>1 DEF R!vars

\* A connection's read handler closes it.
LEMMA RegistryCloses ==
  ASSUME OneOwner, OneOwner', NEW c \in Conns, ReadFails(c)
  PROVE  R!Close(c)
  <1>1. /\ closed' = closed \cup {c}
        /\ UNCHANGED <<asock, anew, conn, newSockets, sockets, tpc, todo, connections>>
    BY DEF ReadFails, acceptorVars, peerVars, threadVars
  <1>2. \A d \in Conns : OwnerOf(d)' = OwnerOf(d)
    BY <1>1, SameOwner DEF Owned, Pending, Waiting
  <1> QED
    BY <1>1, <1>2 DEF R!Close

\* The acceptor gives up the connection it holds in _socket, or none.
LEMMA RegistryAbandons ==
  ASSUME IndInv, OneOwner', MakeSocketFails \/ DeleteAcceptor
  PROVE  UNCHANGED R!vars \/ \E c \in Conns : R!Abandon(c)
  <1> USE DEF IndInv
  <1>1. /\ asock' = NoConn
        /\ UNCHANGED <<anew, conn, newSockets, sockets, tpc, todo, closed, connections>>
    BY DEF MakeSocketFails, DeleteAcceptor, acceptorVars, scanVars, peerVars, readVars, threadVars
  <1>2. \A t \in Threads : Owned(t)' = Owned(t)
    BY <1>1 DEF Owned, Pending
  <1>3. \A d \in Conns \ {asock} : OwnerOf(d)' = OwnerOf(d)
    BY <1>1, <1>2, ConnsAssumption, SameOwner DEF Waiting
  <1>4. CASE asock \in Conns
    <2>1. conn[asock] = "accepted" /\ asock # anew /\ \A t \in Threads : asock \notin Owned(t)
      <3>1. apc \in {"armed", "accepted", "deleted", "scan"}
        BY DEF NoUseAfterDelete, MakeSocketFails, DeleteAcceptor
      <3>2. anew \notin Conns
        BY <3>1 DEF AcceptorInv
      <3> QED
        BY <1>4, <3>2 DEF PlaceInv, OneOwner
    <2>2. OwnerOf(asock) = -1
      BY <1>4, <2>1, OwnerNone DEF Waiting
    <2>3. \A c \in Conns : c = asock => OwnerOf(c)' = -2
      BY <1>1, <1>2, <2>1, ConnsAssumption, OwnerNoneNext DEF Waiting
    <2>4. R!Abandon(asock)
      BY <1>1, <1>3, <1>4, <2>2, <2>3 DEF R!Abandon, R!Unowned, R!Released
    <2> QED
      BY <1>4, <2>4
  <1>5. CASE asock \notin Conns
    BY <1>1, <1>3, <1>5 DEF R!vars
  <1> QED
    BY <1>4, <1>5

\* AddSocket hands the connection to the chosen thread.
LEMMA RegistryAssigns ==
  ASSUME IndInv, OneOwner', AddSocket
  PROVE  R!Assign(anew, amin)
  <1> USE DEF IndInv
  <1>1. anew \in Conns /\ amin \in Threads /\ \A t \in Threads : anew \notin Owned(t)
    BY AddSocketEffect DEF OneOwner
  <1>2. OwnerOf(anew) = -1
    BY <1>1, OwnerNone DEF Waiting
  <1>3. \A c \in Conns, t \in Threads : c = anew /\ t = amin => OwnerOf(c)' = t
    BY <1>1, AddSocketEffect, OwnerKnownNext DEF Owned
  <1>4. \A d \in Conns \ {anew} : OwnerOf(d)' = OwnerOf(d)
    <2> SUFFICES ASSUME NEW d \in Conns, d # anew PROVE OwnerOf(d)' = OwnerOf(d)
      OBVIOUS
    <2>1. \A t \in Threads : d \in Owned(t)' <=> d \in Owned(t)
      BY AddSocketEffect DEF Owned
    <2>2. Waiting(d)' <=> Waiting(d)
      BY AddSocketEffect, ConnsAssumption DEF Waiting
    <2> QED
      BY <2>1, <2>2, SameOwner
  <1> QED
    BY <1>1, <1>2, <1>3, <1>4, AddSocketEffect DEF R!Assign, R!Unowned

\* A thread gives up a closed socket: found among the new ones, or on an update.
LEMMA RegistryReleases ==
  ASSUME IndInv, OneOwner', NEW t \in Threads, NEW c \in Conns,
         AddNewSocket(t, c) \/ UpdateSocket(t, c)
  PROVE  UNCHANGED R!vars \/ R!Release(c, t)
  <1> USE DEF IndInv
  <1>1. /\ c \in Owned(t) /\ UNCHANGED <<closed, asock, anew, conn>>
        /\ \A u \in Threads : u # t => Owned(u)' = Owned(u)
        /\ Owned(t)' = IF c \in closed THEN Owned(t) \ {c} ELSE Owned(t)
        /\ connections' = IF c \in closed THEN [connections EXCEPT ![t] = @ - 1] ELSE connections
    <2>1. CASE AddNewSocket(t, c)
      <3>1. c \notin sockets[t]
        BY <2>1, AddNewSocketEffect DEF OneOwner
      <3>2. CASE c \in closed
        BY <2>1, <3>1, <3>2, AddNewSocketEffect DEF Owned, TypeOK
      <3>3. CASE c \notin closed
        BY <2>1, <3>1, <3>3, AddNewSocketEffect DEF Owned, TypeOK
      <3> QED
        BY <3>2, <3>3
    <2>2. CASE UpdateSocket(t, c)
      <3>1. c \notin Pending(t)
        BY <2>2, UpdateSocketEffect DEF OneOwner
      <3>2. CASE c \in closed
        BY <2>2, <3>1, <3>2, UpdateSocketEffect DEF Owned, TypeOK
      <3>3. CASE c \notin closed
        BY <2>2, <3>1, <3>3, UpdateSocketEffect DEF Owned, TypeOK
      <3> QED
        BY <3>2, <3>3
    <2> QED
      BY <2>1, <2>2
  <1>2. CASE c \notin closed
    <2>1. \A u \in Threads : Owned(u)' = Owned(u)
      BY <1>1, <1>2
    <2> QED
      BY <1>1, <1>2, <2>1, RegistryStutters DEF Waiting
  <1>3. CASE c \in closed
    <2>1. OwnerOf(c) = t
      BY <1>1, OwnerKnown
    <2>2. conn[c] = "accepted" /\ c \notin {asock, anew} /\ \A u \in Threads : c \notin Owned(u)'
      BY <1>1, <1>3 DEF PlaceInv, OneOwner
    <2>3. OwnerOf(c)' = -2
      BY <1>1, <2>2, OwnerNoneNext DEF Waiting
    <2>4. \A d \in Conns \ {c} : OwnerOf(d)' = OwnerOf(d)
      <3> SUFFICES ASSUME NEW d \in Conns, d # c PROVE OwnerOf(d)' = OwnerOf(d)
        OBVIOUS
      <3>1. \A u \in Threads : d \in Owned(u)' <=> d \in Owned(u)
        BY <1>1, <1>3
      <3>2. Waiting(d)' <=> Waiting(d)
        BY <1>1 DEF Waiting
      <3> QED
        BY <3>1, <3>2, SameOwner
    <2> QED
      BY <1>1, <1>3, <2>1, <2>3, <2>4 DEF R!Release, R!Released
  <1> QED
    BY <1>2, <1>3

\* A thread is destroyed with all it owns.
LEMMA RegistryDestroys ==
  ASSUME IndInv, OneOwner', JoinThread
  PROVE  R!Destroy(at)
  <1> USE DEF IndInv
  <1>1. /\ at \in Threads /\ UNCHANGED <<closed, asock, anew, conn>>
        /\ \A u \in Threads : Owned(u)' = IF u = at THEN {} ELSE Owned(u)
    <2>1. /\ at \in Threads /\ sockets' = [sockets EXCEPT ![at] = {}]
          /\ \A u \in Threads : Pending(u)' = IF u = at THEN {} ELSE Pending(u)
          /\ UNCHANGED <<closed, asock, anew, conn>>
      BY JoinThreadEffect
    <2> QED
      BY <2>1 DEF Owned, TypeOK
  <1>2. ASSUME NEW c \in Conns
        PROVE  OwnerOf(c)' = IF OwnerOf(c) = at THEN -2 ELSE OwnerOf(c)
    <2>1. CASE c \in Owned(at)
      <3>1. OwnerOf(c) = at
        BY <1>1, <2>1, OwnerKnown
      <3>2. conn[c] = "accepted" /\ c \notin {asock, anew} /\ \A u \in Threads : c \notin Owned(u)'
        <4>1. \A u \in Threads \ {at} : c \notin Owned(u)
          BY <1>1, <2>1 DEF OneOwner
        <4>2. conn[c] = "accepted" /\ c \notin {asock, anew}
          BY <1>1, <2>1 DEF PlaceInv, OneOwner
        <4> QED
          BY <1>1, <4>1, <4>2
      <3> QED
        BY <1>1, <3>1, <3>2, OwnerNoneNext DEF Waiting
    <2>2. CASE c \notin Owned(at)
      <3>1. OwnerOf(c) # at
        <4>1. CASE \E u \in Threads : c \in Owned(u)
          BY <2>2, <4>1, OwnerKnown
        <4>2. CASE \A u \in Threads : c \notin Owned(u)
          <5>1. OwnerOf(c) = -1 \/ OwnerOf(c) = -2
            BY <4>2, OwnerNone
          <5>2. at # -1 /\ at # -2
            BY <1>1, ThreadsAssumption DEF Threads
          <5> QED
            BY <5>1, <5>2
        <4> QED
          BY <4>1, <4>2
      <3>2. OwnerOf(c)' = OwnerOf(c)
        <4>1. \A u \in Threads : c \in Owned(u)' <=> c \in Owned(u)
          BY <1>1, <2>2
        <4>2. Waiting(c)' <=> Waiting(c)
          BY <1>1 DEF Waiting
        <4> QED
          BY <4>1, <4>2, SameOwner
      <3> QED
        BY <3>1, <3>2
    <2> QED
      BY <2>1, <2>2
  <1> QED
    BY <1>1, <1>2, JoinThreadEffect DEF R!Destroy, R!Released

LEMMA RegistryStep ==
  IndInv /\ IndInv' /\ [Next]_vars => [R!Next]_(R!vars)
  <1> SUFFICES ASSUME IndInv, IndInv', [Next]_vars PROVE R!Next \/ UNCHANGED R!vars
    OBVIOUS
  <1>0. OneOwner /\ OneOwner' /\ TypeOK
    BY DEF IndInv
  <1>1. CASE UNCHANGED <<asock, anew, conn, newSockets, sockets, tpc, todo, closed, connections>>
    BY <1>0, <1>1, RegistryStutters DEF Owned, Pending, Waiting
  <1>2. CASE \E c \in Conns : Connect(c)
    <2>1. \A t \in Threads : Owned(t)' = Owned(t)
      BY <1>2 DEF Connect, Owned, Pending, threadVars
    <2>2. \A c \in Conns : Waiting(c)' <=> Waiting(c)
      BY <1>0, <1>2 DEF Connect, Waiting, TypeOK, acceptorVars
    <2>3. UNCHANGED <<closed, connections>>
      BY <1>2 DEF Connect, readVars, threadVars
    <2> QED
      BY <1>0, <2>1, <2>2, <2>3, RegistryStutters
  <1>3. CASE \E c \in Conns : Accept(c)
    <2>1. \A t \in Threads : Owned(t)' = Owned(t)
      BY <1>3 DEF Accept, Owned, Pending, threadVars
    <2>2. \A c \in Conns : Waiting(c)' <=> Waiting(c)
      BY <1>0, <1>3, ConnsAssumption DEF Accept, Waiting, TypeOK, scanVars
    <2>3. UNCHANGED <<closed, connections>>
      BY <1>3 DEF Accept, readVars, threadVars
    <2> QED
      BY <1>0, <2>1, <2>2, <2>3, RegistryStutters
  <1>4. CASE MakeSocket
    <2>1. \A t \in Threads : Owned(t)' = Owned(t)
      BY <1>4 DEF MakeSocket, Owned, Pending, threadVars
    <2>2. anew \notin Conns
      BY <1>4 DEF MakeSocket, IndInv, AcceptorInv
    <2>3. \A c \in Conns : Waiting(c)' <=> Waiting(c)
      BY <1>4, <2>2, ConnsAssumption DEF MakeSocket, Waiting, peerVars
    <2>4. UNCHANGED <<closed, connections>>
      BY <1>4 DEF MakeSocket, threadVars
    <2> QED
      BY <1>0, <2>1, <2>3, <2>4, RegistryStutters
  <1>5. CASE MakeSocketFails \/ DeleteAcceptor
    BY <1>0, <1>5, RegistryAbandons DEF R!Next
  <1>6. CASE AddSocket
    <2>1. anew \in Conns /\ amin \in Threads
      BY <1>6, AddSocketEffect DEF IndInv
    <2> QED
      BY <1>0, <1>6, <2>1, RegistryAssigns DEF R!Next
  <1>7. CASE \E c \in Conns : ReadFails(c)
    BY <1>0, <1>7, RegistryCloses DEF R!Next
  <1>8. CASE \E t \in Threads : BeginAddNewSockets(t) \/ EndAddNewSockets(t) \/ EndUpdate(t)
    <2>1. \A t \in Threads : Owned(t)' = Owned(t)
      BY <1>0, <1>8, PassEffect DEF Owned
    <2>2. UNCHANGED <<asock, anew, conn, closed, connections>>
      BY <1>0, <1>8, PassEffect
    <2> QED
      BY <1>0, <2>1, <2>2, RegistryStutters DEF Waiting
  <1>9. CASE \E t \in Threads, c \in Conns : AddNewSocket(t, c) \/ UpdateSocket(t, c)
    BY <1>0, <1>9, RegistryReleases DEF R!Next
  <1>10. CASE JoinThread
    <2>1. at \in Threads
      BY <1>10, JoinThreadEffect DEF IndInv
    <2> QED
      BY <1>0, <1>10, <2>1, RegistryDestroys DEF R!Next
  <1> QED
    BY <1>1, <1>2, <1>3, <1>4, <1>5, <1>6, <1>7, <1>8, <1>9, <1>10 DEF vars, Next, Peer,
       AcceptHandler, ReadHandler, Run, Shutdown, Terminated, PeerSends, PeerLeaves,
       ConfigureSocket, ConfigureSocketFails, Rearm, LoadCount, Compare, ReadCompletes,
       ShutdownSocket, StopPool, JoinPool, StopThread, acceptorVars, scanVars, peerVars,
       readVars, threadVars, mainVars

\* The acceptor, the read handlers, the network threads and the shutdown together keep
\* the registry's promise: a connection has one owner at most, is given up once, and by a
\* running thread only when closed, and the counts (NetworkThread.h:62, :84) are the loads.
THEOREM ImplementsRegistry == Spec => RegistrySpec
  <1>1. Init => R!Init
    <2> SUFFICES ASSUME Init PROVE R!Init
      OBVIOUS
    <2>1. \A c \in Conns : OwnerOf(c) = -1
      <3>1. \A c \in Conns : Waiting(c) /\ \A t \in Threads : c \notin Owned(t)
        BY DEF Init, Waiting, Owned, Pending
      <3> QED
        BY <3>1, OwnerNone
    <2> QED
      BY <2>1 DEF Init, R!Init, R!Unowned
  <1> QED
    BY <1>1, Invariance, RegistryStep, PTL DEF Spec, RegistrySpec, R!Spec

=============================================================================
