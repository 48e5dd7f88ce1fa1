------------------------------- MODULE Socket -------------------------------
(***************************************************************************)
(* The write path of one Socket<T>, for builds without IOCP.  Its actors:  *)
(* the sender (T's code, on any thread), which hands over packets under    *)
(* _writeLock; the network thread, whose Update() flushes what it can; the *)
(* completion handler of the wait for the socket to become writable, on a  *)
(* pool thread; and whoever closes the socket, at once (CloseSocket, here  *)
(* the read handler and the application) or when its data is out           *)
(* (DelayedCloseSocket).                                                   *)
(*                                                                         *)
(* Bytes are numbered in the order they are handed over; a packet, the     *)
(* write buffer and the kernel's send buffer are sequences of them.        *)
(***************************************************************************)
EXTENDS Naturals, Sequences

CONSTANTS MaxBytes,     \* how many bytes the sender hands over in a run (a bound)
          MaxPacket,    \* the longest packet (a bound)
          MaxQueue,     \* how many packets the sender lets queue up (a bound)
          BufferSize,   \* the room of _writeBuffer
          KernelSize,   \* the room of the kernel's send buffer
          Faults        \* "reset": the peer may reset the connection; "transient":
                        \* one write_some may fail and the next work again

ASSUME SizesAssumption ==
  /\ MaxBytes \in Nat /\ MaxPacket \in Nat /\ MaxQueue \in Nat /\ BufferSize \in Nat
  /\ KernelSize \in Nat \ {0}

\* Those that run WriteHandler, and those that call CloseSocket.
Flushers == {"update", "handler"}
Closers  == {"reader", "user"}

VARIABLES
  writeBuffer,          \* the active bytes of _writeBuffer
  writeQueue,           \* _writeQueue
  isWritingAsync,       \* _isWritingAsync
  waits,                \* how many async_write_some(null_buffers) are outstanding
  writeLock,            \* who holds _writeLock across steps, or "free"
  pc,                   \* where each flusher is, see PcStates
  closed, closing,      \* _closed and _closing
  cpc,                  \* where each closer is in CloseSocket
  handed,               \* ghost: bytes handed over so far
  kernel,               \* the kernel's send buffer
  received,             \* what the peer has received
  shut,                 \* how often the sending side was shut down
  broken,               \* the peer has reset the connection
  fault                 \* ghost: what the one transient failure did, see FaultKinds

bufferVars == <<writeBuffer, writeQueue>>
waitVars   == <<isWritingAsync, waits>>
closeVars  == <<closed, closing, cpc>>
netVars    == <<kernel, received, broken, fault>>
vars == <<bufferVars, waitVars, writeLock, pc, closeVars, handed, netVars, shut>>

\* idle; "lock": the handler waits for the lock; "check", "write", "queue": in
\* WriteHandler before its IsOpen, its write_some, and HandleQueue; "removed":
\* Update() has returned false and the network thread has dropped the socket.
PcStates == {"idle", "lock", "check", "write", "queue", "removed"}

\* None happened; it hit _writeBuffer, which is kept; it hit a packet, which is popped.
FaultKinds == {"none", "kept", "dropped"}

IsOpen == ~closed /\ ~closing
Free   == writeLock = "free"

Init ==
  /\ writeBuffer = <<>> /\ writeQueue = <<>>
  /\ isWritingAsync = FALSE /\ waits = 0
  /\ writeLock = "free" /\ pc = [f \in Flushers |-> "idle"]
  /\ closed = FALSE /\ closing = FALSE /\ cpc = [k \in Closers |-> "idle"]
  /\ handed = 0 /\ kernel = <<>> /\ received = <<>>
  /\ shut = 0 /\ broken = FALSE /\ fault = "none"

(***************************************************************************)
(* The sender (external: T's code).  It appends to _writeBuffer only while *)
(* nothing is queued behind it and the packet fits.                        *)
(***************************************************************************)
Packet(n) == [i \in 1 .. n |-> handed + i]

Buffer(n) ==
  /\ Free /\ handed + n <= MaxBytes
  /\ writeQueue = <<>> /\ Len(writeBuffer) + n <= BufferSize
  /\ writeBuffer' = writeBuffer \o Packet(n)
  /\ handed' = handed + n
  /\ UNCHANGED <<writeQueue, waitVars, writeLock, pc, closeVars, netVars, shut>>

QueuePacket(n) ==
  /\ Free /\ handed + n <= MaxBytes /\ Len(writeQueue) < MaxQueue
  /\ writeQueue' = Append(writeQueue, Packet(n))
  /\ handed' = handed + n
  /\ UNCHANGED <<writeBuffer, waitVars, writeLock, pc, closeVars, netVars, shut>>

(***************************************************************************)
(* write_some (external): f offers bytes s.  The kernel takes a non-empty  *)
(* part of what fits, blocks, or fails.                                    *)
(***************************************************************************)
Room == KernelSize - Len(kernel)
Dead == broken \/ shut > 0

Takes(s, n) ==
  /\ ~Dead /\ n \in 1 .. Len(s) /\ n <= Room
  /\ kernel' = kernel \o SubSeq(s, 1, n) /\ UNCHANGED fault
Blocks(s) == ~Dead /\ s # <<>> /\ Room = 0 /\ UNCHANGED <<kernel, fault>>
Fails(s, kind) ==
  /\ s # <<>> /\ UNCHANGED kernel
  /\ \/ Dead /\ UNCHANGED fault
     \/ ~Dead /\ "transient" \in Faults /\ fault = "none" /\ fault' = kind

(***************************************************************************)
(* Update(), on the network thread.                                        *)
(***************************************************************************)
\* Mutant of UpdateClosed: a delayed close is not noticed.
UpdateClosedOnly ==
  /\ pc["update"] = "idle" /\ closed
  /\ pc' = [pc EXCEPT !["update"] = "removed"]
  /\ UNCHANGED <<bufferVars, waitVars, writeLock, closeVars, handed, netVars, shut>>

\* It is not open: the network thread drops it.  (It calls CloseSocket only on
\* sockets that are open, so never here.)
UpdateClosed ==
  /\ pc["update"] = "idle" /\ ~IsOpen
  /\ pc' = [pc EXCEPT !["update"] = "removed"]
  /\ UNCHANGED <<bufferVars, waitVars, writeLock, closeVars, handed, netVars, shut>>

\* Mutant of UpdateBegins: it does not try the lock.
UpdateDoesNotLock ==
  /\ pc["update"] = "idle" /\ IsOpen
  /\ ~isWritingAsync /\ (writeBuffer # <<>> \/ writeQueue # <<>>)
  /\ writeLock' = "update"
  /\ pc' = [pc EXCEPT !["update"] = "check"]
  /\ UNCHANGED <<bufferVars, waitVars, closeVars, handed, netVars, shut>>

\* try_lock succeeds and there is something to flush that nobody waits to flush.
\* In every other case Update() changes nothing and is called again later.
UpdateBegins ==
  /\ pc["update"] = "idle" /\ IsOpen /\ Free
  /\ ~isWritingAsync /\ (writeBuffer # <<>> \/ writeQueue # <<>>)
  /\ writeLock' = "update"
  /\ pc' = [pc EXCEPT !["update"] = "check"]
  /\ UNCHANGED <<bufferVars, waitVars, closeVars, handed, netVars, shut>>

(***************************************************************************)
(* WriteHandlerWrapper, on a pool thread.                                  *)
(***************************************************************************)
\* Mutant of WaitCompletes: the handler runs without a wait.
WaitCompletesUnasked ==
  /\ pc["handler"] = "idle"
  /\ Room > 0 \/ Dead
  /\ waits' = waits - 1
  /\ pc' = [pc EXCEPT !["handler"] = "lock"]
  /\ UNCHANGED <<bufferVars, isWritingAsync, writeLock, closeVars, handed, netVars, shut>>

\* The wait completes: the socket is writable, or in error.
WaitCompletes ==
  /\ waits > 0 /\ pc["handler"] = "idle"
  /\ Room > 0 \/ Dead
  /\ waits' = waits - 1
  /\ pc' = [pc EXCEPT !["handler"] = "lock"]
  /\ UNCHANGED <<bufferVars, isWritingAsync, writeLock, closeVars, handed, netVars, shut>>

\* Mutant of HandlerLocks: _isWritingAsync is not reset.
HandlerLocksStillWriting ==
  /\ pc["handler"] = "lock" /\ Free
  /\ writeLock' = "handler"
  /\ pc' = [pc EXCEPT !["handler"] = "check"]
  /\ UNCHANGED <<bufferVars, waitVars, closeVars, handed, netVars, shut>>

HandlerLocks ==
  /\ pc["handler"] = "lock" /\ Free
  /\ writeLock' = "handler" /\ isWritingAsync' = FALSE
  /\ pc' = [pc EXCEPT !["handler"] = "check"]
  /\ UNCHANGED <<bufferVars, waits, closeVars, handed, netVars, shut>>

(***************************************************************************)
(* WriteHandler, run by f with the lock held.                              *)
(***************************************************************************)
\* It returns false: Update() and the wrapper both return and unlock.
Return(f) ==
  /\ pc' = [pc EXCEPT ![f] = "idle"]
  /\ writeLock' = "free"

\* It returns true: Update() calls it again, the wrapper returns.
Again(f) ==
  IF f = "update" THEN pc' = [pc EXCEPT ![f] = "check"] /\ UNCHANGED writeLock
                  ELSE Return(f)

\* Mutant of AsyncProcessQueue: the flag is set and no wait started.
AsyncProcessQueueForgets(f) ==
  /\ isWritingAsync' = TRUE /\ UNCHANGED waits
  /\ Return(f)

\* AsyncProcessQueue, which returns false.
AsyncProcessQueue(f) ==
  /\ IF isWritingAsync THEN UNCHANGED waitVars
                       ELSE isWritingAsync' = TRUE /\ waits' = waits + 1
  /\ Return(f)

Check(f) ==
  /\ pc[f] = "check"
  /\ IF ~IsOpen THEN Return(f)
     ELSE /\ pc' = [pc EXCEPT ![f] = IF writeBuffer = <<>> THEN "queue" ELSE "write"]
          /\ UNCHANGED writeLock
  /\ UNCHANGED <<bufferVars, waitVars, closeVars, handed, netVars, shut>>

\* Mutant of WriteBuffer: no Reset() after the whole buffer is written.
WriteBufferKeeps(f) ==
  /\ pc[f] = "write"
  /\ \/ /\ Takes(writeBuffer, Len(writeBuffer))
        /\ pc' = [pc EXCEPT ![f] = "queue"]
        /\ UNCHANGED <<writeBuffer, waitVars, writeLock>>
     \/ Blocks(writeBuffer) /\ AsyncProcessQueue(f) /\ UNCHANGED writeBuffer
  /\ UNCHANGED <<writeQueue, closeVars, handed, received, broken, shut>>

\* write_some of _writeBuffer: all of it, part of it, or none.
WriteBuffer(f) ==
  /\ pc[f] = "write"
  /\ \/ /\ Takes(writeBuffer, Len(writeBuffer))
        /\ writeBuffer' = <<>>
        /\ pc' = [pc EXCEPT ![f] = "queue"]
        /\ UNCHANGED <<waitVars, writeLock>>
     \/ \E n \in 1 .. Len(writeBuffer) - 1 :
          /\ Takes(writeBuffer, n)
          /\ writeBuffer' = SubSeq(writeBuffer, n + 1, Len(writeBuffer))
          /\ AsyncProcessQueue(f)
     \/ Blocks(writeBuffer) /\ AsyncProcessQueue(f) /\ UNCHANGED writeBuffer
     \/ Fails(writeBuffer, "kept") /\ Return(f) /\ UNCHANGED <<writeBuffer, waitVars>>
  /\ UNCHANGED <<writeQueue, closeVars, handed, received, broken, shut>>

\* Mutant of HandleQueue: no ReadCompleted() after a partial write.
HandleQueueResends(f) ==
  /\ pc[f] = "queue"
  /\ \/ writeQueue = <<>> /\ Return(f) /\ UNCHANGED <<writeQueue, waitVars, kernel, fault>>
     \/ /\ writeQueue # <<>> /\ \E n \in 1 .. Len(Head(writeQueue)) - 1 : Takes(Head(writeQueue), n)
        /\ AsyncProcessQueue(f) /\ UNCHANGED writeQueue
  /\ UNCHANGED <<writeBuffer, closeVars, handed, received, broken, shut>>

\* HandleQueue: write_some of the first packet.  One that is empty or fails is
\* popped and dropped.
HandleQueue(f) ==
  LET first == Head(writeQueue) IN
  /\ pc[f] = "queue"
  /\ \/ writeQueue = <<>> /\ Return(f) /\ UNCHANGED <<writeQueue, waitVars, kernel, fault>>
     \/ /\ writeQueue # <<>> /\ Takes(first, Len(first))
        /\ writeQueue' = Tail(writeQueue)
        /\ IF writeQueue' = <<>> THEN Return(f) ELSE Again(f)
        /\ UNCHANGED waitVars
     \/ /\ writeQueue # <<>>
        /\ \E n \in 1 .. Len(first) - 1 :
             /\ Takes(first, n)
             /\ writeQueue' = [writeQueue EXCEPT ![1] = SubSeq(first, n + 1, Len(first))]
        /\ AsyncProcessQueue(f)
     \/ /\ writeQueue # <<>> /\ Blocks(first)
        /\ AsyncProcessQueue(f) /\ UNCHANGED writeQueue
     \/ /\ writeQueue # <<>>
        /\ Fails(first, "dropped") \/ (first = <<>> /\ UNCHANGED <<kernel, fault>>)
        /\ writeQueue' = Tail(writeQueue)
        /\ Return(f) /\ UNCHANGED waitVars
  /\ UNCHANGED <<writeBuffer, closeVars, handed, received, broken, shut>>

(***************************************************************************)
(* Closing.                                                                *)
(***************************************************************************)
\* Mutant of CloseSocket: the flag is set but its old value not looked at.
CloseSocketAgain(k) ==
  /\ cpc[k] = "idle" /\ (k = "reader" => broken)
  /\ closed' = TRUE
  /\ cpc' = [cpc EXCEPT ![k] = "shutdown"]
  /\ UNCHANGED <<bufferVars, waitVars, writeLock, pc, closing, handed, netVars, shut>>

\* CloseSocket's exchange; only the caller that flips the flag goes on.
CloseSocket(k) ==
  /\ cpc[k] = "idle" /\ (k = "reader" => broken)
  /\ closed' = TRUE
  /\ cpc' = [cpc EXCEPT ![k] = IF closed THEN "done" ELSE "shutdown"]
  /\ UNCHANGED <<bufferVars, waitVars, writeLock, pc, closing, handed, netVars, shut>>

ShutdownSend(k) ==
  /\ cpc[k] = "shutdown"
  /\ cpc' = [cpc EXCEPT ![k] = "done"]
  /\ shut' = shut + 1
  /\ UNCHANGED <<bufferVars, waitVars, writeLock, pc, closed, closing, handed, netVars>>

DelayedCloseSocket ==
  /\ ~closing /\ closing' = TRUE
  /\ UNCHANGED <<bufferVars, waitVars, writeLock, pc, closed, cpc, handed, netVars, shut>>

(***************************************************************************)
(* The network and the peer (external).                                    *)
(***************************************************************************)
PeerReceives ==
  /\ kernel # <<>> /\ ~broken
  /\ received' = Append(received, Head(kernel))
  /\ kernel' = Tail(kernel)
  /\ UNCHANGED <<bufferVars, waitVars, writeLock, pc, closeVars, handed, broken, fault, shut>>

PeerResets ==
  /\ "reset" \in Faults /\ ~broken /\ broken' = TRUE
  /\ UNCHANGED <<bufferVars, waitVars, writeLock, pc, closeVars, handed, kernel, received,
                 fault, shut>>

Sender == \E n \in 0 .. MaxPacket : Buffer(n) \/ QueuePacket(n)
WriteHandler(f) == Check(f) \/ WriteBuffer(f) \/ HandleQueue(f)
Update == UpdateClosed \/ UpdateBegins \/ WriteHandler("update")
WriteHandlerWrapper == WaitCompletes \/ HandlerLocks \/ WriteHandler("handler")

Next ==
  \/ Sender \/ Update \/ WriteHandlerWrapper
  \/ \E k \in Closers : CloseSocket(k) \/ ShutdownSend(k)
  \/ DelayedCloseSocket \/ PeerReceives \/ PeerResets

Spec == Init /\ [][Next]_vars

\* The network thread and the pool run, a close that has begun is finished, the
\* read handler sees a reset, and the peer reads.
FairSpec ==
  /\ Spec
  /\ WF_vars(Update) /\ WF_vars(WriteHandlerWrapper)
  /\ \A k \in Closers : WF_vars(ShutdownSend(k))
  /\ WF_vars(CloseSocket("reader")) /\ WF_vars(PeerReceives)

(***************************************************************************)
(* Properties.                                                             *)
(***************************************************************************)
Bytes == 1 .. MaxBytes

\* The type invariant: buffers and queue hold handed bytes, no wait is counted
\* below zero, and flags, lock and program counters are what the code allows.
TypeOK ==
  /\ writeBuffer \in Seq(Bytes) /\ writeQueue \in Seq(Seq(Bytes))
  /\ isWritingAsync \in BOOLEAN /\ waits \in Nat
  /\ writeLock \in Flushers \cup {"free"} /\ pc \in [Flushers -> PcStates]
  /\ closed \in BOOLEAN /\ closing \in BOOLEAN
  /\ cpc \in [Closers -> {"idle", "shutdown", "done"}]
  /\ handed \in 0 .. MaxBytes
  /\ kernel \in Seq(Bytes) /\ received \in Seq(Bytes)
  /\ shut \in Nat /\ broken \in BOOLEAN /\ fault \in FaultKinds

\* The bytes after a up to b, in order.
Stretch(a, b) == [i \in 1 .. b - a |-> a + i]

\* While the connection is up, partial writes, blocked writes, a failed write of
\* the buffer, packets moved between buffer, queue and kernel by two threads lose,
\* repeat and reorder nothing; only a failed write of a packet loses its bytes: what
\* has arrived, what is under way, the buffer and each packet of the queue begin
\* where the one before ends.
NothingLost ==
  ~Dead /\ fault # "dropped" =>
    \E end \in [0 .. Len(writeQueue) -> 0 .. handed] :
      /\ received \o kernel \o writeBuffer = Stretch(0, end[0])
      /\ \A i \in 1 .. Len(writeQueue) :
           end[i - 1] <= end[i] /\ writeQueue[i] = Stretch(end[i - 1], end[i])
      /\ end[Len(writeQueue)] = handed

\* _isWritingAsync says exactly whether a wait is outstanding or its handler is
\* still waiting for the lock: never two waits, never a wait nobody remembers.
OneWait ==
  waits + (IF pc["handler"] = "lock" THEN 1 ELSE 0) = IF isWritingAsync THEN 1 ELSE 0

\* WriteHandler runs under _writeLock, whoever calls it.
LockHeld ==
  \A f \in Flushers : pc[f] \in {"check", "write", "queue"} <=> writeLock = f

\* Two callers of CloseSocket shut the connection down once, and no call leaves it closed
\* without: only while one is between the exchange and the shutdown (Socket.h:118-122), and
\* the network thread may drop the socket then, is the shutdown still to come.
ShutdownOnce ==
  /\ shut <= 1 /\ (shut = 1 => closed)
  /\ closed => shut = 1 \/ \E k \in Closers : cpc[k] = "shutdown"

\* Whatever is handed to a socket that stays open and connected reaches the peer,
\* also when a write of the buffer has failed once.
Flushed ==
  \A n \in Bytes :
    handed >= n ~> Len(received) >= n \/ ~IsOpen \/ broken \/ fault = "dropped"

\* A socket that is no longer open is let go of by the network thread, whoever
\* holds its lock and however its flush ends.
ClosedIsDropped == ~IsOpen ~> pc["update"] = "removed"

\* "Marks the socket for closing after write buffer becomes empty": what was handed
\* over before a delayed close still reaches the peer.
DelayedCloseFlushes ==
  \A n \in Bytes : closing /\ handed >= n ~> Len(received) >= n \/ closed \/ broken

\* The socket implements the abstract stream of bytes, which has a hole only where
\* a packet was dropped.
Stream == INSTANCE ByteStream WITH sent <- received \o kernel, ended <- shut > 0,
                                   lossy <- fault = "dropped"
StreamSpec == Stream!Spec
=============================================================================
