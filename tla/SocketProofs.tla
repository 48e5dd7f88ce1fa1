---------------------------- MODULE SocketProofs ----------------------------
(***************************************************************************)
(* The write path of a socket for buffers, packets and queues of any size  *)
(* and any faults: types, the lock, the one wait, the one shutdown, that   *)
(* no byte is lost, and that the socket implements ByteStream.             *)
(***************************************************************************)
EXTENDS Socket, SequenceTheorems, TLAPS

Critical == {"check", "write", "queue"}

(***************************************************************************)
(* Types.  The sequences take several steps of reasoning, the rest one.    *)
(***************************************************************************)
SeqsOK == /\ writeBuffer \in Seq(Bytes) /\ writeQueue \in Seq(Seq(Bytes))
          /\ kernel \in Seq(Bytes) /\ received \in Seq(Bytes)
          /\ handed \in 0 .. MaxBytes

FlagsOK == /\ isWritingAsync \in BOOLEAN /\ waits \in Nat
           /\ writeLock \in Flushers \cup {"free"} /\ pc \in [Flushers -> PcStates]
           /\ closed \in BOOLEAN /\ closing \in BOOLEAN
           /\ cpc \in [Closers -> {"idle", "shutdown", "done"}]
           /\ shut \in Nat /\ broken \in BOOLEAN /\ fault \in FaultKinds

LEMMA TypeParts == TypeOK <=> SeqsOK /\ FlagsOK
  BY DEF TypeOK, SeqsOK, FlagsOK

LEMMA PacketType ==
  ASSUME SeqsOK, NEW n \in Nat, handed + n <= MaxBytes
  PROVE  Packet(n) \in Seq(Bytes) /\ handed + n \in 0 .. MaxBytes
<1>1. \A i \in 1 .. n : handed + i \in Bytes
  BY SizesAssumption DEF SeqsOK, Bytes
<1>2. Packet(n) \in Seq(Bytes)
  BY <1>1 DEF Packet
<1> QED
  BY <1>2, SizesAssumption DEF SeqsOK

\* A part of a sequence of bytes is one.
LEMMA PartType ==
  ASSUME NEW s \in Seq(Bytes), NEW i \in Nat \ {0}, NEW j \in 0 .. Len(s)
  PROVE  SubSeq(s, i, j) \in Seq(Bytes)
<1>1. \A k \in i .. j : s[k] \in Bytes
  OBVIOUS
<1> QED
  BY <1>1

\* What the calls of write_some leave in the kernel are bytes.
LEMMA KernelType ==
  ASSUME SeqsOK, NEW s \in Seq(Bytes), NEW n \in 1 .. Len(s), Takes(s, n)
  PROVE  kernel' \in Seq(Bytes)
<1>1. SubSeq(s, 1, n) \in Seq(Bytes)
  BY PartType
<1> QED
  BY <1>1 DEF SeqsOK, Takes

LEMMA WriteBufferTypes ==
  ASSUME SeqsOK, NEW f \in Flushers, WriteBuffer(f)
  PROVE  SeqsOK'
<1> USE DEF SeqsOK
<1>1. UNCHANGED <<writeQueue, received, handed>>
  BY DEF WriteBuffer, closeVars
<1>2. CASE Takes(writeBuffer, Len(writeBuffer)) /\ writeBuffer' = <<>>
  <2>1. Len(writeBuffer) \in 1 .. Len(writeBuffer)
    BY <1>2 DEF Takes
  <2> QED
    BY <1>1, <1>2, <2>1, KernelType
<1>3. ASSUME NEW n \in 1 .. Len(writeBuffer) - 1, Takes(writeBuffer, n),
             writeBuffer' = SubSeq(writeBuffer, n + 1, Len(writeBuffer))
      PROVE  SeqsOK'
  <2>1. n \in 1 .. Len(writeBuffer) /\ n + 1 \in Nat \ {0} /\ Len(writeBuffer) \in 0 .. Len(writeBuffer)
    BY <1>3
  <2>2. writeBuffer' \in Seq(Bytes)
    BY <1>3, <2>1, PartType
  <2> QED
    BY <1>1, <1>3, <2>1, <2>2, KernelType
<1>4. CASE UNCHANGED <<writeBuffer, kernel>>
  BY <1>1, <1>4
<1> QED
  BY <1>2, <1>3, <1>4 DEF WriteBuffer, Blocks, Fails

LEMMA HandleQueueTypes ==
  ASSUME SeqsOK, NEW f \in Flushers, HandleQueue(f)
  PROVE  SeqsOK'
<1> DEFINE first == Head(writeQueue)
<1> USE DEF SeqsOK
<1>1. UNCHANGED <<writeBuffer, received, handed>>
  BY DEF HandleQueue, closeVars
<1>2. writeQueue # <<>> => first \in Seq(Bytes) /\ Tail(writeQueue) \in Seq(Seq(Bytes))
  OBVIOUS
<1>3. CASE writeQueue # <<>> /\ Takes(first, Len(first)) /\ writeQueue' = Tail(writeQueue)
  <2>1. Len(first) \in 1 .. Len(first)
    BY <1>3 DEF Takes
  <2>2. kernel' \in Seq(Bytes)
    BY <1>2, <1>3, <2>1, KernelType
  <2> QED
    BY <1>1, <1>2, <1>3, <2>2
<1>4. ASSUME NEW n \in 1 .. Len(first) - 1, writeQueue # <<>>, Takes(first, n),
             writeQueue' = [writeQueue EXCEPT ![1] = SubSeq(first, n + 1, Len(first))]
      PROVE  SeqsOK'
  <2>1. n \in 1 .. Len(first) /\ n + 1 \in Nat \ {0} /\ Len(first) \in 0 .. Len(first)
    BY <1>2, <1>4
  <2>2. SubSeq(first, n + 1, Len(first)) \in Seq(Bytes)
    BY <1>2, <1>4, <2>1, PartType
  <2>3. writeQueue' \in Seq(Seq(Bytes))
    BY <1>4, <2>2
  <2>4. kernel' \in Seq(Bytes)
    BY <1>2, <1>4, <2>1, KernelType
  <2> QED
    BY <1>1, <2>3, <2>4
<1>5. CASE UNCHANGED <<writeQueue, kernel>>
  BY <1>1, <1>5
<1>6. CASE writeQueue # <<>> /\ writeQueue' = Tail(writeQueue) /\ UNCHANGED kernel
  BY <1>1, <1>2, <1>6
<1> QED
  BY <1>3, <1>4, <1>5, <1>6 DEF HandleQueue, Blocks, Fails

LEMMA SeqsStep == SeqsOK /\ [Next]_vars => SeqsOK'
<1> SUFFICES ASSUME SeqsOK, [Next]_vars PROVE SeqsOK'
  OBVIOUS
<1>1. ASSUME NEW n \in 0 .. MaxPacket, Buffer(n) PROVE SeqsOK'
  <2>1. n \in Nat /\ handed + n <= MaxBytes
    BY <1>1, SizesAssumption DEF Buffer
  <2> QED
    BY <1>1, <2>1, PacketType DEF Buffer, SeqsOK, netVars
<1>2. ASSUME NEW n \in 0 .. MaxPacket, QueuePacket(n) PROVE SeqsOK'
  <2>1. n \in Nat /\ handed + n <= MaxBytes
    BY <1>2, SizesAssumption DEF QueuePacket
  <2>2. Packet(n) \in Seq(Bytes) /\ handed + n \in 0 .. MaxBytes
    BY <2>1, PacketType
  <2> QED
    BY <1>2, <2>2 DEF QueuePacket, SeqsOK, netVars
<1>3. CASE \E f \in Flushers : WriteBuffer(f)
  BY <1>3, WriteBufferTypes
<1>4. CASE \E f \in Flushers : HandleQueue(f)
  BY <1>4, HandleQueueTypes
<1>5. CASE PeerReceives
  <2>1. Head(kernel) \in Bytes /\ Tail(kernel) \in Seq(Bytes)
    BY <1>5 DEF PeerReceives, SeqsOK
  <2> QED
    BY <1>5, <2>1 DEF PeerReceives, SeqsOK, bufferVars
<1>6. CASE UNCHANGED <<writeBuffer, writeQueue, kernel, received, handed>>
  BY <1>6 DEF SeqsOK
<1> QED
  <2>1. ASSUME NEW f \in Flushers, Check(f) PROVE SeqsOK'
    BY <2>1, <1>6 DEF Check, bufferVars, netVars
  <2> QED
    BY <1>1, <1>2, <1>3, <1>4, <1>5, <1>6, <2>1
       DEF Next, Sender, Update, WriteHandlerWrapper, WriteHandler, Flushers, UpdateClosed,
           UpdateBegins, WaitCompletes, HandlerLocks, CloseSocket, ShutdownSend,
           DelayedCloseSocket, PeerResets, bufferVars, netVars, vars

(***************************************************************************)
(* What WriteHandler does to the flags: f, which is in it, moves on in it, *)
(* or unlocks and leaves, perhaps after it has started a wait.             *)
(***************************************************************************)
Moves(f) ==
  /\ pc[f] \in Critical
  /\ \/ \E p \in Critical : pc' = [pc EXCEPT ![f] = p] /\ UNCHANGED <<writeLock, waitVars>>
     \/ Return(f) /\ UNCHANGED waitVars
     \/ AsyncProcessQueue(f)
  /\ UNCHANGED <<closeVars, shut, broken>>

LEMMA HandlerMoves ==
  ASSUME NEW f \in Flushers, WriteHandler(f)
  PROVE  Moves(f) /\ (FlagsOK => fault' \in FaultKinds)
<1>1. CASE Check(f)
  BY <1>1 DEF Check, Moves, Critical, Return, netVars, FlagsOK, waitVars
<1>2. CASE WriteBuffer(f)
  BY <1>2 DEF WriteBuffer, Moves, Critical, Takes, Blocks, Fails, FlagsOK, FaultKinds
<1>3. CASE HandleQueue(f)
  BY <1>3 DEF HandleQueue, Moves, Critical, Takes, Blocks, Fails, FlagsOK, FaultKinds, Again
<1> QED
  BY <1>1, <1>2, <1>3 DEF WriteHandler

LEMMA FlagsInit == Init => FlagsOK
<1> SUFFICES ASSUME Init PROVE FlagsOK
  OBVIOUS
<1>1. isWritingAsync \in BOOLEAN /\ closed \in BOOLEAN /\ closing \in BOOLEAN /\ broken \in BOOLEAN
  BY Zenon DEF Init
<1>2. waits \in Nat /\ shut \in Nat /\ writeLock \in Flushers \cup {"free"} /\ fault \in FaultKinds
  BY SMT DEF Init, FaultKinds
<1>3. pc \in [Flushers -> PcStates] /\ cpc \in [Closers -> {"idle", "shutdown", "done"}]
  BY SMT DEF Init, PcStates
<1> QED
  BY <1>1, <1>2, <1>3 DEF FlagsOK

\* A started wait is counted and remembered, once.
LEMMA WaitEffect ==
  ASSUME FlagsOK, NEW f \in Flushers, Moves(f)
  PROVE  \/ UNCHANGED waitVars
         \/ ~isWritingAsync /\ isWritingAsync' = TRUE /\ waits' = waits + 1
<1>1. CASE AsyncProcessQueue(f)
  BY <1>1, Zenon DEF AsyncProcessQueue, waitVars
<1> QED
  BY <1>1, Zenon DEF Moves, waitVars

LEMMA FlagsStep == FlagsOK /\ [Next]_vars => FlagsOK'
<1> SUFFICES ASSUME FlagsOK, [Next]_vars PROVE FlagsOK'
  OBVIOUS
<1>1. ASSUME NEW f \in Flushers, WriteHandler(f) PROVE FlagsOK'
  <2>1. Moves(f) /\ fault' \in FaultKinds
    BY <1>1, HandlerMoves
  <2>2. pc' \in [Flushers -> PcStates] /\ writeLock' \in Flushers \cup {"free"}
    BY <2>1 DEF FlagsOK, Moves, Return, AsyncProcessQueue, Critical, PcStates
  <2>3. UNCHANGED <<closed, closing, cpc, shut, broken>>
    BY <2>1 DEF Moves, closeVars
  <2>4. CASE UNCHANGED waitVars
    <3>1. isWritingAsync' \in BOOLEAN
      BY <2>4, Zenon DEF FlagsOK, waitVars
    <3> QED
      BY <2>1, <2>2, <2>3, <2>4, <3>1 DEF FlagsOK, waitVars
  <2>5. CASE ~isWritingAsync /\ isWritingAsync' = TRUE /\ waits' = waits + 1
    BY <2>1, <2>2, <2>3, <2>5 DEF FlagsOK
  <2> QED
    BY <2>1, <2>4, <2>5, WaitEffect
<1>2. CASE Sender
  BY <1>2 DEF Sender, Buffer, QueuePacket, FlagsOK, waitVars, closeVars, netVars
<1>3. CASE UpdateClosed \/ UpdateBegins
  BY <1>3 DEF UpdateClosed, UpdateBegins, FlagsOK, Flushers, PcStates, waitVars, closeVars, netVars
<1>4. CASE WaitCompletes \/ HandlerLocks
  <2>1. isWritingAsync' \in BOOLEAN
    BY <1>4, Zenon DEF WaitCompletes, HandlerLocks, FlagsOK
  <2>2. waits' \in Nat
    BY <1>4 DEF WaitCompletes, HandlerLocks, FlagsOK
  <2> QED
    BY <1>4, <2>1, <2>2 DEF WaitCompletes, HandlerLocks, FlagsOK, Flushers, PcStates, closeVars, netVars
<1>5. ASSUME NEW k \in Closers, CloseSocket(k) \/ ShutdownSend(k) PROVE FlagsOK'
  <2>1. closed' \in BOOLEAN
    BY <1>5, Zenon DEF CloseSocket, ShutdownSend, FlagsOK
  <2>2. cpc' \in [Closers -> {"idle", "shutdown", "done"}] /\ shut' \in Nat
    BY <1>5 DEF CloseSocket, ShutdownSend, FlagsOK
  <2> QED
    BY <1>5, <2>1, <2>2 DEF CloseSocket, ShutdownSend, FlagsOK, waitVars, netVars
<1>6. CASE DelayedCloseSocket
  BY <1>6 DEF DelayedCloseSocket, FlagsOK, waitVars, netVars
<1>7. CASE PeerReceives \/ PeerResets
  BY <1>7 DEF PeerReceives, PeerResets, FlagsOK, waitVars, closeVars
<1>8. CASE UNCHANGED vars
  BY <1>8 DEF vars, FlagsOK, waitVars, closeVars, netVars
<1> QED
  BY <1>1, <1>2, <1>3, <1>4, <1>5, <1>6, <1>7, <1>8
     DEF Next, Update, WriteHandlerWrapper, Flushers

\* Buffers, packets and queue hold handed bytes and every flag is what the code
\* allows, for every size of buffer, packet, queue and kernel buffer.
THEOREM TypeCorrect == Spec => []TypeOK
<1>1. Init => SeqsOK /\ FlagsOK
  BY FlagsInit, SizesAssumption DEF Init, SeqsOK
<1>2. (SeqsOK /\ FlagsOK) /\ [Next]_vars => (SeqsOK /\ FlagsOK)'
  BY SeqsStep, FlagsStep
<1>3. Spec => [](SeqsOK /\ FlagsOK)
  BY <1>1, <1>2, PTL DEF Spec
<1> QED
  BY <1>3, TypeParts, PTL

(***************************************************************************)
(* The lock and the wait.                                                  *)
(***************************************************************************)
\* A step of the code that runs under the lock keeps it with its holder.
LEMMA LockStep == FlagsOK /\ LockHeld /\ [Next]_vars => LockHeld'
<1> SUFFICES ASSUME FlagsOK, LockHeld, [Next]_vars PROVE LockHeld'
  OBVIOUS
<1>1. ASSUME NEW f \in Flushers, WriteHandler(f) PROVE LockHeld'
  <2>1. Moves(f)
    BY <1>1, HandlerMoves
  <2> QED
    BY <2>1 DEF FlagsOK, LockHeld, Moves, Return, AsyncProcessQueue, Critical, Flushers
<1>2. CASE UpdateClosed \/ UpdateBegins
  BY <1>2 DEF UpdateClosed, UpdateBegins, FlagsOK, LockHeld, Flushers, Free
<1>3. CASE WaitCompletes \/ HandlerLocks
  BY <1>3 DEF WaitCompletes, HandlerLocks, FlagsOK, LockHeld, Flushers, Free
<1>4. CASE UNCHANGED <<pc, writeLock>>
  BY <1>4 DEF LockHeld
<1> QED
  BY <1>1, <1>2, <1>3, <1>4
     DEF Next, Update, WriteHandlerWrapper, Flushers, Sender, Buffer, QueuePacket, CloseSocket,
         ShutdownSend, DelayedCloseSocket, PeerReceives, PeerResets, vars

\* However the flush of the network thread and the completion handler interleave,
\* WriteHandler runs under _writeLock only.
THEOREM LockIsHeld == Spec => []LockHeld
<1>1. Init => FlagsOK /\ LockHeld
  BY FlagsInit DEF Init, LockHeld, Flushers
<1>2. (FlagsOK /\ LockHeld) /\ [Next]_vars => (FlagsOK /\ LockHeld)'
  BY FlagsStep, LockStep
<1> QED
  BY <1>1, <1>2, PTL DEF Spec

LEMMA WaitStep == FlagsOK /\ OneWait /\ [Next]_vars => OneWait'
<1> SUFFICES ASSUME FlagsOK, OneWait, [Next]_vars PROVE OneWait'
  OBVIOUS
<1>1. ASSUME NEW f \in Flushers, WriteHandler(f) PROVE OneWait'
  <2>1. Moves(f)
    BY <1>1, HandlerMoves
  <2>2. pc'["handler"] = "lock" <=> pc["handler"] = "lock"
    BY <2>1 DEF FlagsOK, Moves, Return, AsyncProcessQueue, Critical, Flushers
  <2>3. CASE UNCHANGED waitVars
    BY <2>2, <2>3 DEF OneWait, waitVars
  <2>4. CASE ~isWritingAsync /\ isWritingAsync' = TRUE /\ waits' = waits + 1
    BY <2>2, <2>4 DEF OneWait, FlagsOK
  <2> QED
    BY <2>1, <2>3, <2>4, WaitEffect
<1>2. CASE UpdateClosed \/ UpdateBegins
  BY <1>2 DEF UpdateClosed, UpdateBegins, FlagsOK, OneWait, Flushers, waitVars
<1>3. CASE WaitCompletes
  BY <1>3 DEF WaitCompletes, FlagsOK, OneWait, Flushers
<1>4. CASE HandlerLocks
  BY <1>4 DEF HandlerLocks, FlagsOK, OneWait, Flushers
<1>5. CASE UNCHANGED <<pc, waitVars>>
  BY <1>5 DEF OneWait, waitVars
<1> QED
  BY <1>1, <1>2, <1>3, <1>4, <1>5
     DEF Next, Update, WriteHandlerWrapper, Flushers, Sender, Buffer, QueuePacket, CloseSocket,
         ShutdownSend, DelayedCloseSocket, PeerReceives, PeerResets, vars

\* Two threads that flush and block never leave two waits outstanding, nor a flag
\* that says someone waits when nobody does.
THEOREM AtMostOneWait == Spec => []OneWait
<1>1. Init => FlagsOK /\ OneWait
  BY FlagsInit DEF Init, OneWait, Flushers
<1>2. (FlagsOK /\ OneWait) /\ [Next]_vars => (FlagsOK /\ OneWait)'
  BY FlagsStep, WaitStep
<1> QED
  BY <1>1, <1>2, PTL DEF Spec

(***************************************************************************)
(* The shutdown.                                                           *)
(***************************************************************************)
\* Before the exchange nobody has shut down or is about to; after it one caller is
\* about to, or has.
Winner(k) == cpc[k] = "shutdown"
ShutInv == /\ ~closed => shut = 0 /\ \A k \in Closers : ~Winner(k)
           /\ shut = 0 \/ (shut = 1 /\ \A k \in Closers : ~Winner(k))
           /\ \A j, k \in Closers : Winner(j) /\ Winner(k) => j = k
           /\ closed => shut = 1 \/ \E k \in Closers : Winner(k)

LEMMA ShutStep == FlagsOK /\ ShutInv /\ [Next]_vars => ShutInv'
<1> SUFFICES ASSUME FlagsOK, ShutInv, [Next]_vars PROVE ShutInv'
  OBVIOUS
<1>1. ASSUME NEW k \in Closers, CloseSocket(k) PROVE ShutInv'
  BY <1>1 DEF CloseSocket, FlagsOK, ShutInv, Winner
<1>2. ASSUME NEW k \in Closers, ShutdownSend(k) PROVE ShutInv'
  BY <1>2 DEF ShutdownSend, FlagsOK, ShutInv, Winner
<1>3. CASE UNCHANGED <<closed, cpc, shut>>
  BY <1>3 DEF ShutInv, Winner
<1>4. ASSUME NEW f \in Flushers, WriteHandler(f) PROVE ShutInv'
  BY <1>3, <1>4, HandlerMoves DEF Moves, closeVars
<1> QED
  BY <1>1, <1>2, <1>3, <1>4
     DEF Next, Update, WriteHandlerWrapper, Flushers, Sender, Buffer, QueuePacket, UpdateClosed,
         UpdateBegins, WaitCompletes, HandlerLocks, DelayedCloseSocket, PeerReceives, PeerResets,
         closeVars, vars

\* Whoever calls CloseSocket, and whenever, the connection is shut down once, only after
\* the socket says it is closed, and then as soon as nobody is within CloseSocket.
THEOREM OneShutdown == Spec => []ShutdownOnce
<1>1. Init => FlagsOK /\ ShutInv
  BY FlagsInit DEF Init, ShutInv, Winner
<1>2. (FlagsOK /\ ShutInv) /\ [Next]_vars => (FlagsOK /\ ShutInv)'
  BY FlagsStep, ShutStep
<1>3. ShutInv => ShutdownOnce
  BY DEF ShutInv, ShutdownOnce, Winner
<1> QED
  BY <1>1, <1>2, <1>3, PTL DEF Spec

(***************************************************************************)
(* The bytes.  What has been sent, the buffer and the queue are stretches  *)
(* of the bytes handed over: the buffer holds those after a up to end[0],  *)
(* packet i those up to end[i], the last of them up to h.  As long as no   *)
(* packet was dropped, all bytes up to a are sent.                         *)
(***************************************************************************)
LatestOf(s) == IF s = <<>> THEN 0 ELSE s[Len(s)]

InLine(s, buf, q, h, f, a, end) ==
  /\ a \in Nat /\ end \in [0 .. Len(q) -> 0 .. h]
  /\ a <= end[0] /\ buf = Stretch(a, end[0])
  /\ \A i \in 1 .. Len(q) : end[i - 1] <= end[i] /\ q[i] = Stretch(end[i - 1], end[i])
  /\ end[Len(q)] = h
  /\ LatestOf(s) <= a
  /\ f # "dropped" => s = Stretch(0, a)

LEMMA StretchType ==
  ASSUME NEW a \in Nat, NEW b \in Nat, a <= b
  PROVE  /\ Stretch(a, b) \in Seq(Nat) /\ Len(Stretch(a, b)) = b - a
         /\ \A i \in 1 .. b - a : Stretch(a, b)[i] = a + i
  BY DEF Stretch

LEMMA StretchEmpty ==
  ASSUME NEW a \in Nat, NEW b \in Nat, a <= b
  PROVE  Stretch(a, b) = <<>> <=> a = b
  BY StretchType, EmptySeq DEF Stretch

LEMMA StretchJoin ==
  ASSUME NEW a \in Nat, NEW b \in Nat, NEW c \in Nat, a <= b, b <= c
  PROVE  Stretch(a, b) \o Stretch(b, c) = Stretch(a, c)
<1> DEFINE p == Stretch(a, b)
           r == Stretch(b, c)
           t == Stretch(a, c)
<1>1. p \in Seq(Nat) /\ Len(p) = b - a /\ \A i \in 1 .. b - a : p[i] = a + i
  BY StretchType
<1>2. r \in Seq(Nat) /\ Len(r) = c - b /\ \A i \in 1 .. c - b : r[i] = b + i
  BY StretchType
<1>a. a <= c
  OBVIOUS
<1>3. t \in Seq(Nat) /\ Len(t) = c - a /\ \A i \in 1 .. c - a : t[i] = a + i
  BY StretchType, <1>a
<1> HIDE DEF p, r, t
<1>4. /\ p \o r \in Seq(Nat) /\ Len(p \o r) = Len(p) + Len(r)
      /\ \A i \in 1 .. Len(p) + Len(r) : (p \o r)[i] = IF i <= Len(p) THEN p[i] ELSE r[i - Len(p)]
  BY <1>1, <1>2, ConcatProperties
<1>b. Len(p \o r) = Len(t)
  BY <1>1, <1>2, <1>3, <1>4
<1>5. \A i \in 1 .. Len(p \o r) : (p \o r)[i] = t[i]
  <2> TAKE i \in 1 .. Len(p \o r)
  <2>1. i \in 1 .. c - a /\ t[i] = a + i
    BY <1>1, <1>2, <1>3, <1>4
  <2>2. CASE i <= b - a
    BY <1>1, <1>2, <1>4, <2>1, <2>2
  <2>3. CASE i > b - a
    <3>1. i - (b - a) \in 1 .. c - b
      BY <2>1, <2>3
    <3> QED
      BY <1>1, <1>2, <1>4, <2>1, <2>3, <3>1
  <2> QED
    BY <2>1, <2>2, <2>3
<1>c. p \o r = t
  BY <1>3, <1>4, <1>b, <1>5, SeqEqual
<1> QED
  BY <1>c DEF p, r, t
LEMMA StretchCut ==
  ASSUME NEW a \in Nat, NEW b \in Nat, a <= b, NEW n \in 0 .. b - a
  PROVE  /\ SubSeq(Stretch(a, b), 1, n) = Stretch(a, a + n)
         /\ SubSeq(Stretch(a, b), n + 1, b - a) = Stretch(a + n, b)
<1> DEFINE l == Stretch(a, b)
           p == SubSeq(l, 1, n)
           r == SubSeq(l, n + 1, b - a)
           t == Stretch(a, a + n)
           u == Stretch(a + n, b)
<1>1. l \in Seq(Nat) /\ Len(l) = b - a /\ \A i \in 1 .. b - a : l[i] = a + i
  BY StretchType
<1>2. a + n \in Nat /\ a <= a + n /\ a + n <= b
  OBVIOUS
<1>3. t \in Seq(Nat) /\ Len(t) = n /\ \A i \in 1 .. n : t[i] = a + i
  BY <1>2, StretchType
<1>4. u \in Seq(Nat) /\ Len(u) = b - a - n /\ \A i \in 1 .. b - a - n : u[i] = a + n + i
  BY <1>2, StretchType
<1> HIDE DEF l, t, u
<1>5. \A i \in 1 .. n : l[i] \in Nat
  BY <1>1
<1>6. \A i \in n + 1 .. b - a : l[i] \in Nat
  BY <1>1
<1>7. /\ p \in Seq(Nat) /\ Len(p) = IF 1 <= n THEN n - 1 + 1 ELSE 0
      /\ \A i \in 1 .. n - 1 + 1 : p[i] = l[1 + i - 1]
  BY <1>5, SubSeqProperties
<1>8. /\ r \in Seq(Nat) /\ Len(r) = IF n + 1 <= b - a THEN b - a - (n + 1) + 1 ELSE 0
      /\ \A i \in 1 .. b - a - (n + 1) + 1 : r[i] = l[n + 1 + i - 1]
  <2>1. n + 1 \in Int /\ b - a \in Int
    OBVIOUS
  <2> QED
    BY <1>6, <2>1, SubSeqProperties
<1> HIDE DEF p, r
<1>9. p = t
  <2>1. Len(p) = Len(t)
    BY <1>3, <1>7
  <2>2. \A i \in 1 .. Len(p) : p[i] = t[i]
    BY <1>1, <1>3, <1>7
  <2> QED
    BY <1>3, <1>7, <2>1, <2>2, SeqEqual
<1>10. r = u
  <2>1. Len(r) = Len(u)
    BY <1>4, <1>8
  <2>2. ASSUME NEW i \in 1 .. Len(r) PROVE r[i] = u[i]
    <3>1. i \in 1 .. b - a - n /\ i \in 1 .. b - a - (n + 1) + 1 /\ n + 1 + i - 1 = n + i /\ n + i \in 1 .. b - a
      BY <1>8
    <3>2. r[i] = l[n + i]
      BY <1>8, <3>1
    <3>3. l[n + i] = a + (n + i)
      BY <1>1, <3>1
    <3> QED
      BY <1>4, <3>1, <3>2, <3>3
  <2> QED
    BY <1>4, <1>8, <2>1, <2>2, SeqEqual
<1> QED
  BY <1>9, <1>10 DEF l, p, r, t, u

\* After a non-empty stretch has been sent, its last byte is the latest.
LEMMA LatestSent ==
  ASSUME NEW s \in Seq(Nat), NEW a \in Nat, NEW b \in Nat, a < b
  PROVE  LatestOf(s \o Stretch(a, b)) = b
<1> DEFINE l == Stretch(a, b)
           m == Len(s) + (b - a)
<1>0. a <= b
  OBVIOUS
<1>1. l \in Seq(Nat) /\ Len(l) = b - a /\ \A i \in 1 .. b - a : l[i] = a + i
  BY <1>0, StretchType
<1> HIDE DEF l
<1>2. b - a \in 1 .. b - a /\ Len(s) \in Nat
  BY EmptySeq
<1>3. l[b - a] = b
  BY <1>1, <1>2
<1>4. /\ s \o l \in Seq(Nat) /\ Len(s \o l) = Len(s) + Len(l)
      /\ \A i \in 1 .. Len(s) + Len(l) : (s \o l)[i] = IF i <= Len(s) THEN s[i] ELSE l[i - Len(s)]
  BY <1>1, ConcatProperties
<1>5. m \in 1 .. Len(s) + Len(l) /\ ~(m <= Len(s)) /\ m - Len(s) = b - a /\ Len(s \o l) = m
  BY <1>1, <1>2, <1>4
<1> HIDE DEF m
<1>6. (s \o l)[m] = b
  BY <1>3, <1>4, <1>5
<1>7. s \o l # <<>>
  BY <1>4, <1>5, EmptySeq
<1> QED
  BY <1>5, <1>6, <1>7 DEF LatestOf, l

LEMMA InLineBuffer ==
  ASSUME NEW s, NEW buf, NEW q, Len(q) \in Nat, NEW h \in Nat, NEW f,
         NEW a, NEW end, InLine(s, buf, q, h, f, a, end)
  PROVE  a \in Nat /\ end[0] \in 0 .. h /\ a <= end[0] /\ buf = Stretch(a, end[0])
  BY DEF InLine

LEMMA BufferPart ==
  ASSUME NEW s \in Seq(Nat), NEW buf, NEW q, Len(q) \in Nat, NEW h \in Nat, NEW f,
         NEW a, NEW end, InLine(s, buf, q, h, f, a, end), NEW n \in 1 .. Len(buf)
  PROVE  /\ SubSeq(buf, 1, n) = Stretch(a, a + n) /\ a + n <= h
         /\ InLine(s \o SubSeq(buf, 1, n), SubSeq(buf, n + 1, Len(buf)), q, h, f, a + n, end)
<1> DEFINE b == end[0]
           p == SubSeq(buf, 1, n)
           r == SubSeq(buf, n + 1, Len(buf))
<1>1. a \in Nat /\ b \in 0 .. h /\ a <= b /\ buf = Stretch(a, b)
  BY InLineBuffer
<1> HIDE DEF b
<1>2. b \in Nat
  BY <1>1
<1>3. Len(buf) = b - a
  BY <1>1, <1>2, StretchType
<1>4. n \in 0 .. b - a /\ a < a + n /\ a + n <= b /\ a + n <= h /\ a + n \in Nat
  BY <1>1, <1>3
<1>5. p = Stretch(a, a + n) /\ r = Stretch(a + n, b)
  <2>1. /\ SubSeq(Stretch(a, b), 1, n) = Stretch(a, a + n)
        /\ SubSeq(Stretch(a, b), n + 1, b - a) = Stretch(a + n, b)
    BY <1>1, <1>2, <1>4, StretchCut
  <2> QED
    BY <1>1, <1>3, <2>1
<1> HIDE DEF p, r
<1>6. LatestOf(s \o p) = a + n
  BY <1>1, <1>4, <1>5, LatestSent
<1>7. f # "dropped" => s \o p = Stretch(0, a + n)
  <2>1. f # "dropped" => s = Stretch(0, a)
    BY DEF InLine
  <2>2. Stretch(0, a) \o Stretch(a, a + n) = Stretch(0, a + n)
    <3>1. 0 \in Nat /\ a \in Nat /\ a + n \in Nat /\ 0 <= a /\ a <= a + n
      BY <1>1, <1>4
    <3> QED
      BY <3>1, StretchJoin
  <2> QED
    BY <1>5, <2>1, <2>2
<1>8. InLine(s \o p, r, q, h, f, a + n, end)
  BY <1>4, <1>5, <1>6, <1>7 DEF InLine, b
<1> QED
  BY <1>4, <1>5, <1>8 DEF p, r

\* With an empty buffer the first packet is what comes next.
LEMMA InLinePacket ==
  ASSUME NEW s, NEW q, Len(q) \in Nat, 1 <= Len(q), NEW h \in Nat, NEW f,
         NEW a, NEW end, InLine(s, <<>>, q, h, f, a, end)
  PROVE  a \in Nat /\ a = end[0] /\ end[1] \in 0 .. h /\ a <= end[1] /\ q[1] = Stretch(a, end[1])
<1>1. a \in Nat /\ end[0] \in 0 .. h /\ a <= end[0] /\ <<>> = Stretch(a, end[0])
  BY InLineBuffer
<1>2. a = end[0]
  BY <1>1, StretchEmpty
<1>3. 1 \in 1 .. Len(q) /\ end[1] \in 0 .. h
  BY DEF InLine
<1>4. end[1 - 1] <= end[1] /\ q[1] = Stretch(end[1 - 1], end[1])
  BY <1>3 DEF InLine
<1> QED
  BY <1>1, <1>2, <1>3, <1>4

LEMMA PacketPart ==
  ASSUME NEW s \in Seq(Nat), NEW q \in Seq(Seq(Nat)), q # <<>>, NEW h \in Nat, NEW f,
         NEW a, NEW end, InLine(s, <<>>, q, h, f, a, end), NEW n \in 1 .. Len(q[1])
  PROVE  /\ SubSeq(q[1], 1, n) = Stretch(a, a + n) /\ a + n <= h
         /\ InLine(s \o SubSeq(q[1], 1, n), <<>>,
                   [q EXCEPT ![1] = SubSeq(q[1], n + 1, Len(q[1]))], h, f, a + n,
                   [end EXCEPT ![0] = a + n])
<1> DEFINE b == end[1]
           p == SubSeq(q[1], 1, n)
           r == SubSeq(q[1], n + 1, Len(q[1]))
           rest == [q EXCEPT ![1] = r]
           next == [end EXCEPT ![0] = a + n]
<1>1. Len(q) \in Nat /\ 1 <= Len(q)
  BY EmptySeq
<1>2. a \in Nat /\ a = end[0] /\ b \in 0 .. h /\ a <= b /\ q[1] = Stretch(a, b)
  BY <1>1, InLinePacket
<1> HIDE DEF b
<1>3. b \in Nat
  BY <1>2
<1>4. Len(q[1]) = b - a
  BY <1>2, <1>3, StretchType
<1>5. n \in 0 .. b - a /\ a < a + n /\ a + n <= b /\ a + n \in 0 .. h /\ a + n \in Nat
  <2>1. n \in 1 .. b - a
    BY <1>4
  <2>2. a \in Nat /\ b <= h
    BY <1>2
  <2> QED
    BY <1>3, <2>1, <2>2
<1>6. p = Stretch(a, a + n) /\ r = Stretch(a + n, b)
  <2>1. /\ SubSeq(Stretch(a, b), 1, n) = Stretch(a, a + n)
        /\ SubSeq(Stretch(a, b), n + 1, b - a) = Stretch(a + n, b)
    BY <1>2, <1>3, <1>5, StretchCut
  <2> QED
    BY <1>2, <1>4, <2>1
<1> HIDE DEF p, r
<1>7. LatestOf(s \o p) = a + n
  BY <1>2, <1>5, <1>6, LatestSent
<1>8. f # "dropped" => s \o p = Stretch(0, a + n)
  <2>1. f # "dropped" => s = Stretch(0, a)
    BY DEF InLine
  <2>2. Stretch(0, a) \o Stretch(a, a + n) = Stretch(0, a + n)
    <3>1. 0 \in Nat /\ a \in Nat /\ a + n \in Nat /\ 0 <= a /\ a <= a + n
      BY <1>2, <1>5
    <3> QED
      BY <3>1, StretchJoin
  <2> QED
    BY <1>6, <2>1, <2>2
<1>9. <<>> = Stretch(a + n, a + n)
  BY <1>5, StretchEmpty
<1>10. Len(rest) = Len(q) /\ rest[1] = r /\ \A i \in 1 .. Len(q) : i # 1 => rest[i] = q[i]
  BY <1>1
<1>11. end \in [0 .. Len(q) -> 0 .. h] /\ end[Len(q)] = h
  BY DEF InLine
<1>12. /\ next \in [0 .. Len(q) -> 0 .. h] /\ next[0] = a + n
       /\ \A i \in 1 .. Len(q) : next[i] = end[i]
  BY <1>1, <1>5, <1>11
<1> HIDE DEF rest, next
<1>13. ASSUME NEW i \in 1 .. Len(q)
       PROVE  next[i - 1] <= next[i] /\ rest[i] = Stretch(next[i - 1], next[i])
  <2>1. CASE i = 1
    BY <1>1, <1>5, <1>6, <1>10, <1>12, <2>1 DEF b
  <2>2. CASE i # 1
    <3>1. i - 1 \in 1 .. Len(q)
      BY <1>1, <2>2
    <3>2. next[i - 1] = end[i - 1] /\ next[i] = end[i] /\ rest[i] = q[i]
      BY <1>10, <1>12, <2>2, <3>1
    <3>3. end[i - 1] <= end[i] /\ q[i] = Stretch(end[i - 1], end[i])
      BY DEF InLine
    <3> QED
      BY <3>2, <3>3
  <2> QED
    BY <2>1, <2>2
<1>14. next[Len(q)] = h
  BY <1>1, <1>11, <1>12
<1>15. InLine(s \o p, <<>>, rest, h, f, a + n, next)
  BY <1>5, <1>7, <1>8, <1>9, <1>10, <1>12, <1>13, <1>14, SMTT(30) DEF InLine
<1> QED
  BY <1>5, <1>6, <1>15 DEF p, r, rest, next

\* The first packet is popped: nothing is lost if it is empty, and a byte dropped
\* with it leaves a hole.
LEMMA PacketPopped ==
  ASSUME NEW s \in Seq(Nat), NEW q \in Seq(Seq(Nat)), q # <<>>, NEW h \in Nat, NEW f, NEW g,
         NEW a, NEW end, InLine(s, <<>>, q, h, f, a, end),
         g # "dropped" => f # "dropped" /\ q[1] = <<>>
  PROVE  InLine(s, <<>>, Tail(q), h, g, end[1], [i \in 0 .. Len(Tail(q)) |-> end[i + 1]])
<1> DEFINE next == [i \in 0 .. Len(Tail(q)) |-> end[i + 1]]
<1>1. a \in Nat /\ a = end[0] /\ end[1] \in 0 .. h /\ a <= end[1] /\ q[1] = Stretch(a, end[1])
  <2>1. Len(q) \in Nat /\ 1 <= Len(q)
    BY EmptySeq
  <2> QED
    BY <2>1, InLinePacket
<1>2. q[1] = <<>> => a = end[1]
  <2>1. end[1] \in Nat
    BY <1>1
  <2> QED
    BY <1>1, <2>1, StretchEmpty
<1>3. /\ Len(Tail(q)) = Len(q) - 1 /\ Len(q) \in Nat /\ Len(q) >= 1
      /\ \A i \in 1 .. Len(q) - 1 : Tail(q)[i] = q[i + 1]
  BY EmptySeq, HeadTailProperties
<1>4. next \in [0 .. Len(q) - 1 -> 0 .. h] /\ \A i \in 0 .. Len(q) - 1 : next[i] = end[i + 1]
  BY <1>3, SMTT(30) DEF InLine
<1> HIDE DEF next
<1>5. \A i \in 1 .. Len(q) - 1 : next[i - 1] <= next[i] /\ Tail(q)[i] = Stretch(next[i - 1], next[i])
  BY <1>3, <1>4, SMTT(30) DEF InLine
<1>6. Stretch(end[1], end[1]) = <<>>
  BY <1>1, StretchEmpty
<1>7. next[Len(q) - 1] = h /\ next[0] = end[1]
  BY <1>3, <1>4 DEF InLine
<1>8. LatestOf(s) <= a /\ (f # "dropped" => s = Stretch(0, a))
  BY DEF InLine
<1>9. s \in Seq(Nat) => LatestOf(s) \in Nat
  BY EmptySeq DEF LatestOf
<1>10. InLine(s, <<>>, Tail(q), h, g, end[1], next)
  BY <1>1, <1>2, <1>3, <1>4, <1>5, <1>6, <1>7, <1>8, <1>9 DEF InLine
<1> QED
  BY <1>10 DEF next

LEMMA HandedToBuffer ==
  ASSUME NEW s \in Seq(Nat), NEW buf, NEW h \in Nat, NEW f, NEW a, NEW end,
         InLine(s, buf, <<>>, h, f, a, end), NEW n \in Nat
  PROVE  InLine(s, buf \o Stretch(h, h + n), <<>>, h + n, f, a, [end EXCEPT ![0] = h + n])
<1>1. Len(<<>>) = 0
  BY EmptySeq
<1>2. a \in Nat /\ a <= h /\ end[0] = h /\ buf = Stretch(a, h)
  BY <1>1 DEF InLine
<1>3. buf \o Stretch(h, h + n) = Stretch(a, h + n)
  <2>1. h + n \in Nat /\ h <= h + n
    OBVIOUS
  <2>2. Stretch(a, h) \o Stretch(h, h + n) = Stretch(a, h + n)
    BY <1>2, <2>1, StretchJoin
  <2> QED
    BY <1>2, <2>2
<1> QED
  BY <1>1, <1>2, <1>3 DEF InLine

LEMMA HandedToQueue ==
  ASSUME NEW s \in Seq(Nat), NEW buf, NEW q \in Seq(Seq(Nat)), NEW h \in Nat, NEW f, NEW a, NEW end,
         InLine(s, buf, q, h, f, a, end), NEW n \in Nat
  PROVE  \E next : InLine(s, buf, Append(q, Stretch(h, h + n)), h + n, f, a, next)
<1> DEFINE more == Append(q, Stretch(h, h + n))
           next == [i \in 0 .. Len(q) + 1 |-> IF i <= Len(q) THEN end[i] ELSE h + n]
<1>1. Stretch(h, h + n) \in Seq(Nat)
  BY StretchType
<1>2. /\ Len(more) = Len(q) + 1 /\ \A i \in 1 .. Len(q) : more[i] = q[i]
      /\ more[Len(q) + 1] = Stretch(h, h + n)
  BY <1>1, AppendProperties
<1>3. /\ next \in [0 .. Len(q) + 1 -> 0 .. h + n]
      /\ \A i \in 0 .. Len(q) : next[i] = end[i]
      /\ next[Len(q) + 1] = h + n
  BY DEF InLine
<1> HIDE DEF more, next
<1>4. ASSUME NEW i \in 1 .. Len(q) + 1
      PROVE  next[i - 1] <= next[i] /\ more[i] = Stretch(next[i - 1], next[i])
  <2>1. CASE i \in 1 .. Len(q)
    <3>0. i - 1 \in 0 .. Len(q) /\ i \in 0 .. Len(q)
      BY <2>1
    <3>1. next[i - 1] = end[i - 1] /\ next[i] = end[i] /\ more[i] = q[i]
      BY <1>2, <1>3, <2>1, <3>0
    <3>2. end[i - 1] <= end[i] /\ q[i] = Stretch(end[i - 1], end[i])
      BY <2>1 DEF InLine
    <3> QED
      BY <3>1, <3>2
  <2>2. CASE i = Len(q) + 1
    <3>1. next[i - 1] = h
      BY <1>3, <2>2 DEF InLine
    <3> QED
      BY <1>2, <1>3, <2>2, <3>1
  <2> QED
    BY <2>1, <2>2
<1>5. InLine(s, buf, more, h + n, f, a, next)
  BY <1>2, <1>3, <1>4 DEF InLine
<1> QED
  BY <1>5 DEF more

LEMMA LatestOfAll ==
  ASSUME NEW a \in Nat
  PROVE  LatestOf(Stretch(0, a)) = a
<1>1. 0 \in Nat /\ 0 <= a
  OBVIOUS
<1>2. /\ Stretch(0, a) \in Seq(Nat) /\ Len(Stretch(0, a)) = a - 0
      /\ \A i \in 1 .. a - 0 : Stretch(0, a)[i] = 0 + i
  BY <1>1, StretchType
<1>3. Stretch(0, a) = <<>> <=> 0 = a
  BY <1>1, StretchEmpty
<1> QED
  BY <1>2, <1>3 DEF LatestOf

(***************************************************************************)
(* The steps of the socket on its bytes.                                   *)
(***************************************************************************)
sent == received \o kernel

Placed(a, end) == InLine(sent, writeBuffer, writeQueue, handed, fault, a, end)

\* While the connection is up its bytes are in line, and HandleQueue runs only when
\* the buffer is empty.
StreamInv == ~Dead => \E a, end : Placed(a, end)
QueueInv  == \A f \in Flushers : pc[f] = "queue" => writeBuffer = <<>>

LEMMA SeqsOfNat ==
  ASSUME SeqsOK
  PROVE  /\ received \in Seq(Nat) /\ kernel \in Seq(Nat) /\ sent \in Seq(Nat)
         /\ writeQueue \in Seq(Seq(Nat)) /\ handed \in Nat
<1>1. Bytes \subseteq Nat
  BY SizesAssumption DEF Bytes
<1>2. received \in Seq(Nat) /\ kernel \in Seq(Nat)
  BY <1>1, SeqMonotonic DEF SeqsOK
<1>3. sent \in Seq(Nat)
  BY <1>2, ConcatProperties DEF sent
<1>4. Seq(Bytes) \subseteq Seq(Nat)
  BY <1>1, SeqMonotonic
<1>5. writeQueue \in Seq(Seq(Nat))
  BY <1>4, SeqMonotonic DEF SeqsOK
<1> QED
  BY <1>2, <1>3, <1>5, SizesAssumption DEF SeqsOK

LEMMA PacketIsNext ==
  ASSUME SeqsOK, NEW n \in Nat
  PROVE  Packet(n) = Stretch(handed, handed + n)
<1>1. (handed + n) - handed = n
  BY SizesAssumption DEF SeqsOK
<1> QED
  BY <1>1 DEF Packet, Stretch

\* The kernel takes n bytes of s.
LEMMA TakesSends ==
  ASSUME SeqsOK, NEW s \in Seq(Nat), NEW n, Takes(s, n), UNCHANGED received
  PROVE  n \in 1 .. Len(s) /\ ~Dead /\ sent' = sent \o SubSeq(s, 1, n) /\ UNCHANGED fault
<1>1. n \in 1 .. Len(s) /\ ~Dead /\ kernel' = kernel \o SubSeq(s, 1, n) /\ UNCHANGED fault
  BY DEF Takes
<1>2. received \in Seq(Nat) /\ kernel \in Seq(Nat)
  BY SeqsOfNat
<1>3. \A i \in 1 .. n : s[i] \in Nat
  BY <1>1
<1>4. SubSeq(s, 1, n) \in Seq(Nat)
  BY <1>1, <1>3, SubSeqProperties
<1> DEFINE u == SubSeq(s, 1, n)
<1> HIDE DEF u
<1>5. (received \o kernel) \o u = received \o (kernel \o u)
  <2>1. u \in Seq(Nat)
    BY <1>4 DEF u
  <2> QED
    BY <1>2, <2>1, ConcatAssociative, SMTT(30)
<1> QED
  BY <1>1, <1>5 DEF sent, u

\* Sending the bytes after a is a step of ByteStream.
LEMMA SendIsStreamStep ==
  ASSUME SeqsOK, NEW a, NEW end, Placed(a, end), shut \in Nat, ~Dead, NEW n \in Nat \ {0},
         a + n <= handed, sent' = sent \o Stretch(a, a + n), UNCHANGED <<handed, shut, fault>>
  PROVE  Stream!Next
<1>1. a \in Nat /\ LatestOf(sent) <= a /\ (fault # "dropped" => sent = Stretch(0, a))
  BY DEF Placed, InLine
<1>2. fault # "dropped" => LatestOf(sent) = a
  BY <1>1, LatestOfAll
<1>3. sent \in Seq(Nat)
  BY SeqsOfNat
<1>4. LatestOf(sent) \in Nat
  BY <1>3, EmptySeq DEF LatestOf
<1>5. Stream!Latest = LatestOf(sent)
  BY DEF Stream!Latest, LatestOf, sent
<1>6. a + 1 \in 1 .. MaxBytes /\ a + n \in 1 .. MaxBytes /\ a + 1 <= a + n
  BY <1>1, SizesAssumption DEF SeqsOK
<1>7. Stretch(a, a + n) = [i \in 1 .. (a + n) - (a + 1) + 1 |-> (a + 1) + i - 1]
  <2>1. (a + n) - (a + 1) + 1 = (a + n) - a
    BY <1>1
  <2>2. \A i \in 1 .. (a + n) - a : (a + 1) + i - 1 = a + i
    BY <1>1
  <2> QED
    BY <2>1, <2>2 DEF Stretch
<1>8. ~(shut > 0)
  BY DEF Dead
<1>9. IF fault = "dropped" THEN a + 1 > Stream!Latest ELSE a + 1 = Stream!Latest + 1
  BY <1>1, <1>2, <1>4, <1>5
<1>10. Stream!Send(a + 1, a + n)
  BY <1>7, <1>8, <1>9 DEF Stream!Send, sent
<1> QED
  BY <1>6, <1>10 DEF Stream!Next

\* What every step has to show.
StreamStep == StreamInv' /\ [Stream!Next]_(Stream!vars)

LEMMA InLineAfter ==
  ASSUME NEW a, NEW end, InLine(sent', writeBuffer', writeQueue', handed', fault', a, end)
  PROVE  StreamInv'
  BY DEF StreamInv, Placed

LEMMA HandIsStreamStep ==
  ASSUME SeqsOK, NEW n \in Nat, handed' = handed + n, handed + n <= MaxBytes,
         sent' = sent, UNCHANGED <<shut, fault>>
  PROVE  Stream!Next
<1>1. n \in 0 .. MaxBytes
  BY SizesAssumption DEF SeqsOK
<1>2. Stream!Hand(n)
  BY DEF Stream!Hand, sent
<1> QED
  BY <1>1, <1>2 DEF Stream!Next

LEMMA HandStep ==
  ASSUME SeqsOK, StreamInv, NEW n \in Nat, Buffer(n) \/ QueuePacket(n)
  PROVE  StreamStep
<1>1. /\ handed + n <= MaxBytes /\ handed' = handed + n
      /\ UNCHANGED <<received, kernel, fault, shut, broken>>
  BY DEF Buffer, QueuePacket, netVars
<1>2. Packet(n) = Stretch(handed, handed + n)
  BY PacketIsNext
<1>3. sent \in Seq(Nat) /\ writeQueue \in Seq(Seq(Nat)) /\ handed \in Nat
  BY SeqsOfNat
<1>4. sent' = sent
  BY <1>1 DEF sent
<1>5. Stream!Next
  BY <1>1, <1>4, HandIsStreamStep
<1>6. ASSUME NEW a, NEW end, Placed(a, end), Buffer(n)
      PROVE  StreamInv'
  <2>1. writeQueue = <<>> /\ UNCHANGED writeQueue /\ writeBuffer' = writeBuffer \o Stretch(handed, handed + n)
    BY <1>2, <1>6 DEF Buffer
  <2>2. InLine(sent, writeBuffer, <<>>, handed, fault, a, end)
    BY <1>6, <2>1 DEF Placed
  <2>3. InLine(sent, writeBuffer \o Stretch(handed, handed + n), <<>>, handed + n, fault, a,
               [end EXCEPT ![0] = handed + n])
    BY <1>3, <2>2, HandedToBuffer
  <2> QED
    BY <1>1, <1>4, <2>1, <2>3, InLineAfter
<1>7. ASSUME NEW a, NEW end, Placed(a, end), QueuePacket(n)
      PROVE  StreamInv'
  <2>1. UNCHANGED writeBuffer /\ writeQueue' = Append(writeQueue, Stretch(handed, handed + n))
    BY <1>2, <1>7 DEF QueuePacket
  <2>2. \E next : InLine(sent, writeBuffer, Append(writeQueue, Stretch(handed, handed + n)),
                        handed + n, fault, a, next)
    <3>1. InLine(sent, writeBuffer, writeQueue, handed, fault, a, end)
      BY <1>7 DEF Placed
    <3> QED
      BY <1>3, <3>1, HandedToQueue
  <2> QED
    BY <1>1, <1>4, <2>1, <2>2, InLineAfter
<1>8. Dead => StreamInv'
  BY <1>1 DEF StreamInv, Dead
<1> QED
  BY <1>5, <1>6, <1>7, <1>8 DEF StreamStep, StreamInv

LEMMA WriteBufferStep ==
  ASSUME SeqsOK, shut \in Nat, StreamInv, NEW f \in Flushers, WriteBuffer(f)
  PROVE  StreamStep
<1>1. UNCHANGED <<writeQueue, handed, received, shut, broken>>
  BY DEF WriteBuffer
<1>2. /\ sent \in Seq(Nat) /\ writeQueue \in Seq(Seq(Nat)) /\ handed \in Nat
      /\ writeBuffer \in Seq(Nat) /\ Len(writeQueue) \in Nat
  BY SeqsOfNat, SizesAssumption, SeqMonotonic DEF SeqsOK, Bytes
<1>3. ASSUME NEW n, Takes(writeBuffer, n),
             writeBuffer' = SubSeq(writeBuffer, n + 1, Len(writeBuffer))
      PROVE  StreamStep
  <2>1. /\ n \in 1 .. Len(writeBuffer) /\ ~Dead /\ UNCHANGED fault
        /\ sent' = sent \o SubSeq(writeBuffer, 1, n)
    BY <1>1, <1>2, <1>3, TakesSends
  <2>2. PICK a, end : Placed(a, end)
    BY <2>1 DEF StreamInv
  <2>3. /\ SubSeq(writeBuffer, 1, n) = Stretch(a, a + n) /\ a + n <= handed
        /\ InLine(sent \o SubSeq(writeBuffer, 1, n), SubSeq(writeBuffer, n + 1, Len(writeBuffer)),
                  writeQueue, handed, fault, a + n, end)
    BY <1>2, <2>1, <2>2, BufferPart DEF Placed
  <2>4. StreamInv'
    BY <1>1, <1>3, <2>1, <2>3, InLineAfter
  <2>5. n \in Nat \ {0}
    BY <1>2, <2>1
  <2>6. Stream!Next
    BY <1>1, <2>1, <2>2, <2>3, <2>5, SendIsStreamStep
  <2> QED
    BY <2>4, <2>6 DEF StreamStep
<1>4. CASE UNCHANGED <<writeBuffer, kernel>> /\ (fault' = fault \/ (fault = "none" /\ fault' = "kept"))
  <2>1. sent' = sent /\ Dead' = Dead
    BY <1>1, <1>4 DEF sent, Dead
  <2>2. UNCHANGED Stream!vars
    BY <1>1, <1>4, <2>1 DEF Stream!vars, sent
  <2>3. StreamInv'
    BY <1>1, <1>4, <2>1 DEF StreamInv, Placed, InLine
  <2> QED
    BY <2>2, <2>3 DEF StreamStep
<1>5. CASE Takes(writeBuffer, Len(writeBuffer)) /\ writeBuffer' = <<>>
  <2>1. SubSeq(writeBuffer, Len(writeBuffer) + 1, Len(writeBuffer)) = <<>>
    BY <1>2, SubSeqEmpty
  <2> QED
    BY <1>3, <1>5, <2>1
<1> QED
  BY <1>3, <1>4, <1>5 DEF WriteBuffer, Blocks, Fails

LEMMA HandleQueueStep ==
  ASSUME SeqsOK, shut \in Nat, QueueInv, StreamInv, NEW f \in Flushers, HandleQueue(f)
  PROVE  StreamStep
<1> DEFINE first == Head(writeQueue)
<1>1. UNCHANGED <<writeBuffer, handed, received, shut, broken>> /\ writeBuffer = <<>>
  BY DEF HandleQueue, QueueInv
<1>2. sent \in Seq(Nat) /\ writeQueue \in Seq(Seq(Nat)) /\ handed \in Nat
  BY SeqsOfNat
<1>3. writeQueue # <<>> => first = writeQueue[1] /\ first \in Seq(Nat)
  BY <1>2, HeadTailProperties
<1> HIDE DEF first
<1>4. ASSUME NEW n, writeQueue # <<>>, Takes(first, n)
      PROVE  /\ Stream!Next
             /\ \E a, end : InLine(sent', <<>>,
                                   [writeQueue EXCEPT ![1] = SubSeq(first, n + 1, Len(first))],
                                   handed, fault, a, end)
  <2>1. /\ n \in 1 .. Len(first) /\ ~Dead /\ UNCHANGED fault
        /\ sent' = sent \o SubSeq(first, 1, n)
    BY <1>1, <1>3, <1>4, TakesSends
  <2>2. PICK a, end : Placed(a, end)
    BY <2>1 DEF StreamInv
  <2>3. InLine(sent, <<>>, writeQueue, handed, fault, a, end) /\ n \in 1 .. Len(writeQueue[1])
    BY <1>1, <1>3, <1>4, <2>1, <2>2 DEF Placed
  <2>4. /\ SubSeq(writeQueue[1], 1, n) = Stretch(a, a + n) /\ a + n <= handed
        /\ InLine(sent \o SubSeq(writeQueue[1], 1, n), <<>>,
                  [writeQueue EXCEPT ![1] = SubSeq(writeQueue[1], n + 1, Len(writeQueue[1]))],
                  handed, fault, a + n, [end EXCEPT ![0] = a + n])
    BY <1>2, <1>4, <2>3, PacketPart
  <2>5. n \in Nat \ {0}
    BY <1>3, <1>4, <2>1
  <2>6. Stream!Next
    BY <1>1, <1>3, <1>4, <2>1, <2>2, <2>4, <2>5, SendIsStreamStep
  <2> QED
    BY <1>3, <1>4, <2>1, <2>4, <2>6
<1>5. CASE writeQueue # <<>> /\ Takes(first, Len(first)) /\ writeQueue' = Tail(writeQueue)
  <2> DEFINE sentAll == [writeQueue EXCEPT ![1] = SubSeq(first, Len(first) + 1, Len(first))]
  <2>1. Stream!Next /\ UNCHANGED fault
    BY <1>4, <1>5 DEF Takes
  <2>2. PICK a, end : InLine(sent', <<>>, sentAll, handed, fault, a, end)
    BY <1>4, <1>5
  <2>3. SubSeq(first, Len(first) + 1, Len(first)) = <<>>
    BY <1>3, <1>5, SubSeqEmpty
  <2>4. /\ sentAll \in Seq(Seq(Nat)) /\ sentAll # <<>> /\ sentAll[1] = <<>>
        /\ Tail(sentAll) = Tail(writeQueue)
    BY <1>2, <1>5, <2>3
  <2> HIDE DEF sentAll
  <2>5. sent' \in Seq(Nat)
    <3>1. sent' = sent \o SubSeq(first, 1, Len(first))
      BY <1>1, <1>3, <1>5, TakesSends
    <3>2. SubSeq(first, 1, Len(first)) = first
      BY <1>3, <1>5, SubSeqFull
    <3> QED
      BY <1>2, <1>3, <1>5, <3>1, <3>2, ConcatProperties
  <2>6. InLine(sent', <<>>, Tail(writeQueue), handed, fault, end[1],
               [i \in 0 .. Len(Tail(sentAll)) |-> end[i + 1]])
    <3>1. handed \in Nat /\ sentAll \in Seq(Seq(Nat)) /\ sentAll # <<>> /\ sentAll[1] = <<>>
      BY <1>2, <2>4
    <3>2. InLine(sent', <<>>, Tail(sentAll), handed, fault, end[1],
                 [i \in 0 .. Len(Tail(sentAll)) |-> end[i + 1]])
      BY <2>2, <2>5, <3>1, PacketPopped, ZenonT(60)
    <3> QED
      BY <2>4, <3>2
  <2>7. StreamInv'
    BY <1>1, <1>5, <2>1, <2>6, InLineAfter
  <2> QED
    BY <2>1, <2>7 DEF StreamStep
<1>6. ASSUME NEW n, writeQueue # <<>>, Takes(first, n),
             writeQueue' = [writeQueue EXCEPT ![1] = SubSeq(first, n + 1, Len(first))]
      PROVE  StreamStep
  <2>1. Stream!Next /\ UNCHANGED fault
    BY <1>4, <1>6 DEF Takes
  <2>2. PICK a, end : InLine(sent', <<>>, writeQueue', handed, fault, a, end)
    BY <1>4, <1>6
  <2>3. StreamInv'
    BY <1>1, <2>1, <2>2, InLineAfter
  <2> QED
    BY <2>1, <2>3 DEF StreamStep
<1>7. CASE /\ writeQueue # <<>> /\ writeQueue' = Tail(writeQueue) /\ UNCHANGED kernel
           /\ \/ ~Dead /\ fault' = "dropped"
              \/ (Dead \/ first = <<>>) /\ UNCHANGED fault
  <2>1. sent' = sent /\ Dead' = Dead
    BY <1>1, <1>7 DEF sent, Dead
  <2>2. [Stream!Next]_(Stream!vars)
    <3>1. CASE fault' = fault
      BY <1>1, <2>1, <3>1 DEF Stream!vars, sent
    <3>2. CASE fault' = "dropped"
      BY <1>1, <2>1, <3>2 DEF Stream!Next, Stream!Drop, sent
    <3> QED
      BY <1>7, <3>1, <3>2
  <2>3. ASSUME NEW a, NEW end, Placed(a, end), ~Dead
        PROVE  StreamInv'
    <3>1. InLine(sent, <<>>, writeQueue, handed, fault, a, end)
      BY <1>1, <2>3 DEF Placed
    <3>2. fault' # "dropped" => fault # "dropped" /\ writeQueue[1] = <<>>
      BY <1>3, <1>7, <2>3
    <3>3. InLine(sent, <<>>, Tail(writeQueue), handed, fault', end[1],
                 [i \in 0 .. Len(Tail(writeQueue)) |-> end[i + 1]])
      BY <1>2, <1>7, <3>1, <3>2, PacketPopped, ZenonT(60)
    <3> QED
      BY <1>1, <1>7, <2>1, <3>3, InLineAfter
  <2> QED
    BY <2>1, <2>2, <2>3 DEF StreamStep, StreamInv
<1>8. CASE UNCHANGED <<writeQueue, kernel, fault>>
  <2>1. sent' = sent /\ Dead' = Dead
    BY <1>1, <1>8 DEF sent, Dead
  <2> QED
    BY <1>1, <1>8, <2>1 DEF StreamStep, StreamInv, Placed, Stream!vars, sent
<1> QED
  BY <1>5, <1>6, <1>7, <1>8 DEF HandleQueue, Blocks, Fails, first

LEMMA PeerStep ==
  ASSUME SeqsOK, StreamInv, PeerReceives
  PROVE  StreamStep
<1>1. UNCHANGED <<writeBuffer, writeQueue, handed, fault, shut, broken>> /\ kernel # <<>>
  BY DEF PeerReceives, bufferVars
<1>2. received \in Seq(Nat) /\ kernel \in Seq(Nat)
  BY SeqsOfNat
<1> DEFINE k == Head(kernel)
           l == Tail(kernel)
<1>3. k \in Nat /\ l \in Seq(Nat) /\ kernel = <<k>> \o l
  BY <1>1, <1>2, HeadTailProperties
<1>4. received' = Append(received, k) /\ kernel' = l
  BY DEF PeerReceives
<1> HIDE DEF k, l
<1>5. Append(received, k) = received \o <<k>> /\ <<k>> \in Seq(Nat)
  BY <1>2, <1>3, AppendIsConcat
<1>6. (received \o <<k>>) \o l = received \o (<<k>> \o l)
  BY <1>2, <1>3, <1>5, ConcatAssociative
<1>7. sent' = sent /\ Dead' = Dead
  BY <1>1, <1>3, <1>4, <1>5, <1>6 DEF sent, Dead
<1> QED
  BY <1>1, <1>7 DEF StreamStep, StreamInv, Placed, Stream!vars, sent

\* HandleQueue is reached only with an empty buffer, and nothing is added to the
\* buffer while it runs, because the sender needs the lock.
LEMMA QueueStep == FlagsOK /\ LockHeld /\ QueueInv /\ [Next]_vars => QueueInv'
<1> SUFFICES ASSUME FlagsOK, LockHeld, QueueInv, [Next]_vars PROVE QueueInv'
  OBVIOUS
<1>1. ASSUME NEW f \in Flushers, WriteHandler(f) PROVE QueueInv'
  <2>1. pc[f] \in Critical /\ \A g \in Flushers : g # f => pc[g] # "queue" /\ pc'[g] = pc[g]
    <3>1. Moves(f)
      BY <1>1, HandlerMoves
    <3>2. pc[f] \in Critical /\ \A g \in Flushers : g # f => pc'[g] = pc[g]
      BY <3>1 DEF Moves, Return, AsyncProcessQueue, FlagsOK
    <3> QED
      BY <3>2 DEF LockHeld, Critical, Flushers
  <2>2. pc'[f] = "queue" => writeBuffer' = <<>>
    <3>1. CASE Check(f)
      BY <3>1 DEF Check, Return, FlagsOK, bufferVars
    <3>2. CASE WriteBuffer(f)
      BY <3>2 DEF WriteBuffer, Return, AsyncProcessQueue, FlagsOK
    <3>3. CASE HandleQueue(f)
      BY <3>3 DEF HandleQueue, QueueInv
    <3> QED
      BY <1>1, <3>1, <3>2, <3>3 DEF WriteHandler
  <2> QED
    BY <2>1, <2>2 DEF QueueInv
<1>2. ASSUME NEW n \in 0 .. MaxPacket, Buffer(n) \/ QueuePacket(n) PROVE QueueInv'
  <2>1. UNCHANGED pc /\ \A f \in Flushers : pc[f] # "queue"
    BY <1>2 DEF Buffer, QueuePacket, Free, LockHeld, Flushers, FlagsOK
  <2> QED
    BY <2>1 DEF QueueInv
<1>3. CASE UpdateClosed \/ UpdateBegins \/ WaitCompletes \/ HandlerLocks
  BY <1>3 DEF UpdateClosed, UpdateBegins, WaitCompletes, HandlerLocks, QueueInv, FlagsOK, bufferVars
<1>4. CASE UNCHANGED <<pc, writeBuffer>>
  BY <1>4 DEF QueueInv
<1> QED
  BY <1>1, <1>2, <1>3, <1>4
     DEF Next, Update, WriteHandlerWrapper, Flushers, Sender, CloseSocket, ShutdownSend,
         DelayedCloseSocket, PeerReceives, PeerResets, bufferVars, vars

LEMMA BytesStep ==
  SeqsOK /\ FlagsOK /\ QueueInv /\ StreamInv /\ [Next]_vars => StreamStep
<1> SUFFICES ASSUME SeqsOK, FlagsOK, QueueInv, StreamInv, [Next]_vars PROVE StreamStep
  OBVIOUS
<1>1. shut \in Nat
  BY DEF FlagsOK
<1>2. ASSUME NEW n \in 0 .. MaxPacket, Buffer(n) \/ QueuePacket(n) PROVE StreamStep
  <2>1. n \in Nat
    BY SizesAssumption
  <2> QED
    BY <1>2, <2>1, HandStep
<1>3. ASSUME NEW f \in Flushers, WriteBuffer(f) PROVE StreamStep
  BY <1>1, <1>3, WriteBufferStep
<1>4. ASSUME NEW f \in Flushers, HandleQueue(f) PROVE StreamStep
  BY <1>1, <1>4, HandleQueueStep
<1>5. CASE PeerReceives
  BY <1>5, PeerStep
<1>6. CASE /\ UNCHANGED <<received, kernel, writeBuffer, writeQueue, handed, fault>>
           /\ (Dead => Dead') /\ UNCHANGED shut
  BY <1>6 DEF StreamStep, StreamInv, Placed, Stream!vars, sent
<1>7. ASSUME NEW k \in Closers, ShutdownSend(k) PROVE StreamStep
  <2>1. /\ UNCHANGED <<received, kernel, writeBuffer, writeQueue, handed, fault>>
        /\ shut' = shut + 1 /\ shut' > 0
    BY <1>1, <1>7 DEF ShutdownSend, bufferVars, netVars
  <2>2. Stream!Next
    BY <2>1 DEF Stream!Next, Stream!End
  <2> QED
    BY <2>1, <2>2 DEF StreamStep, StreamInv, Dead
<1>8. ASSUME NEW f \in Flushers, Check(f) PROVE StreamStep
  BY <1>6, <1>8 DEF Check, bufferVars, netVars, Dead
<1>9. CASE UpdateClosed \/ UpdateBegins \/ WaitCompletes \/ HandlerLocks
  BY <1>6, <1>9 DEF UpdateClosed, UpdateBegins, WaitCompletes, HandlerLocks, bufferVars, netVars, Dead
<1>10. CASE (\E k \in Closers : CloseSocket(k)) \/ DelayedCloseSocket
  BY <1>6, <1>10 DEF CloseSocket, DelayedCloseSocket, bufferVars, netVars, Dead
<1>11. CASE PeerResets
  BY <1>6, <1>11 DEF PeerResets, bufferVars, Dead
<1>12. CASE UNCHANGED vars
  BY <1>6, <1>12 DEF vars, bufferVars, netVars, Dead
<1> QED
  BY <1>2, <1>3, <1>4, <1>5, <1>7, <1>8, <1>9, <1>10, <1>11, <1>12
     DEF Next, Sender, Update, WriteHandlerWrapper, WriteHandler, Flushers

BytesInv == SeqsOK /\ FlagsOK /\ LockHeld /\ QueueInv /\ StreamInv

LEMMA BytesInit == Init => BytesInv /\ Stream!Init
<1> SUFFICES ASSUME Init PROVE BytesInv /\ Stream!Init
  OBVIOUS
<1>1. SeqsOK /\ FlagsOK /\ LockHeld
  BY FlagsInit, SizesAssumption DEF Init, SeqsOK, LockHeld, Flushers
<1>2. QueueInv
  BY DEF Init, QueueInv
<1>3. received \o kernel = <<>>
  BY DEF Init
<1>4. Stream!Init
  BY <1>3 DEF Init, Stream!Init
<1>5. StreamInv
  <2>1. Stretch(0, 0) = <<>>
    BY StretchEmpty
  <2>2. InLine(sent, writeBuffer, writeQueue, handed, fault, 0, [i \in 0 .. 0 |-> 0])
    BY <1>3, <2>1, EmptySeq DEF InLine, Init, sent, LatestOf
  <2> QED
    BY <2>2 DEF StreamInv, Placed
<1> QED
  BY <1>1, <1>2, <1>4, <1>5 DEF BytesInv

LEMMA BytesInvariant == Spec => []BytesInv
<1>1. BytesInv /\ [Next]_vars => BytesInv'
  BY SeqsStep, FlagsStep, LockStep, QueueStep, BytesStep DEF BytesInv, StreamStep
<1> QED
  BY <1>1, BytesInit, PTL DEF Spec

\* No interleaving of the sender, the flushes and the peer, no partial, blocked or
\* failed write of any length loses, repeats or reorders a byte while the connection
\* is up, unless a packet was dropped.
THEOREM NothingIsLost == Spec => []NothingLost
<1>1. BytesInv => NothingLost
  <2> SUFFICES ASSUME BytesInv, ~Dead, fault # "dropped" PROVE NothingLost
    BY DEF NothingLost
  <2>1. PICK a, end : InLine(sent, writeBuffer, writeQueue, handed, fault, a, end)
    BY DEF BytesInv, StreamInv, Placed
  <2>2. Len(writeQueue) \in Nat /\ handed \in Nat
    BY SeqsOfNat, EmptySeq DEF BytesInv
  <2>3. a \in Nat /\ end[0] \in 0 .. handed /\ a <= end[0] /\ writeBuffer = Stretch(a, end[0])
    BY <2>1, <2>2, InLineBuffer
  <2>4. Stretch(0, a) \o Stretch(a, end[0]) = Stretch(0, end[0])
    <3>1. 0 \in Nat /\ 0 <= a /\ end[0] \in Nat
      BY <2>3
    <3> QED
      BY <2>3, <3>1, StretchJoin
  <2>5. received \o kernel = Stretch(0, a)
    BY <2>1 DEF InLine, sent
  <2>6. received \o kernel \o writeBuffer = Stretch(0, end[0])
    BY <2>3, <2>4, <2>5
  <2> QED
    BY <2>1, <2>6 DEF NothingLost, InLine
<1> QED
  BY <1>1, BytesInvariant, PTL

\* The write path implements the abstract stream: bytes enter the network in order,
\* none after the end, with a hole only where a packet was dropped.
THEOREM ImplementsStream == Spec => StreamSpec
<1>1. BytesInv /\ [Next]_vars => [Stream!Next]_(Stream!vars)
  BY BytesStep DEF BytesInv, StreamStep
<1> QED
  BY <1>1, BytesInit, BytesInvariant, PTL DEF Spec, StreamSpec, Stream!Spec
=============================================================================
