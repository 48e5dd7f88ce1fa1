---------------------------- MODULE MessageBuffer ----------------------------
(***************************************************************************)
(* MessageBuffer: a vector of bytes with a read and a write position.  The *)
(* class checks nothing; its users write no more than GetRemainingSpace    *)
(* and read no more than GetActiveSize (Socket), and the actions here keep *)
(* to that.  GetReadPointer and GetWritePointer are the positions.         *)
(***************************************************************************)
EXTENDS Naturals, Sequences

CONSTANTS Buffers,      \* the buffers
          Bytes,        \* the values of a byte
          Sizes,        \* the sizes a fresh buffer is given
          Blank         \* the byte a vector is filled up with

ASSUME BufferAssumption == Sizes \subseteq Nat /\ Blank \in Bytes

VARIABLES wpos, rpos, storage

vars == <<wpos, rpos, storage>>

GetActiveSize(b)     == wpos[b] - rpos[b]
GetRemainingSpace(b) == Len(storage[b]) - wpos[b]

\* A new buffer, and Resize of one that holds nothing, as Socket uses it.
Fresh(n) == [i \in 1 .. n |-> Blank]

Init ==
  /\ wpos = [b \in Buffers |-> 0] /\ rpos = [b \in Buffers |-> 0]
  /\ storage \in [Buffers -> {Fresh(n) : n \in Sizes}]

Reset(b) ==
  /\ wpos' = [wpos EXCEPT ![b] = 0] /\ rpos' = [rpos EXCEPT ![b] = 0]
  /\ UNCHANGED storage

\* resize keeps what fits and fills up with zeros.
Resize(b, n) ==
  /\ wpos[b] = 0
  /\ storage' = [storage EXCEPT ![b] = [i \in 1 .. n |-> IF i <= Len(@) THEN @[i] ELSE Blank]]
  /\ UNCHANGED <<wpos, rpos>>

ReadCompleted(b, n) ==
  /\ n <= GetActiveSize(b)
  /\ rpos' = [rpos EXCEPT ![b] = @ + n]
  /\ UNCHANGED <<wpos, storage>>

\* Storage st with the bytes data laid from position at on.
Overlay(st, at, data) ==
  [i \in DOMAIN st |-> IF i > at /\ i <= at + Len(data) THEN data[i - at] ELSE st[i]]

\* Write; and what a read into GetWritePointer followed by WriteCompleted comes to.
Write(b, data) ==
  /\ Len(data) <= GetRemainingSpace(b)
  /\ storage' = [storage EXCEPT ![b] = Overlay(@, wpos[b], data)]
  /\ wpos' = [wpos EXCEPT ![b] = @ + Len(data)]
  /\ UNCHANGED rpos

\* Mutant of Normalize: the read position is left where it was.
NormalizeUnreset(b) ==
  /\ rpos[b] > 0
  /\ storage' = [storage EXCEPT ![b] = Overlay(@, 0, SubSeq(@, rpos[b] + 1, wpos[b]))]
  /\ wpos' = [wpos EXCEPT ![b] = @ - rpos[b]]
  /\ UNCHANGED rpos

\* The active bytes are moved to the front (memmove, and nothing when there are none).
Normalize(b) ==
  /\ rpos[b] > 0
  /\ storage' = [storage EXCEPT ![b] = Overlay(@, 0, SubSeq(@, rpos[b] + 1, wpos[b]))]
  /\ wpos' = [wpos EXCEPT ![b] = @ - rpos[b]] /\ rpos' = [rpos EXCEPT ![b] = 0]

\* The copy constructor and assignment.
CopyFrom(a, b) ==
  /\ a # b
  /\ wpos' = [wpos EXCEPT ![a] = wpos[b]] /\ rpos' = [rpos EXCEPT ![a] = rpos[b]]
  /\ storage' = [storage EXCEPT ![a] = storage[b]]

\* Mutant of MoveFrom: Move resets the positions before they are read.
MoveFromReset(a, b) ==
  /\ a # b
  /\ wpos' = [wpos EXCEPT ![a] = 0, ![b] = 0] /\ rpos' = [rpos EXCEPT ![a] = 0, ![b] = 0]
  /\ storage' = [storage EXCEPT ![a] = storage[b], ![b] = <<>>]

\* The move constructor and assignment: the positions are read before Move resets them,
\* and the moved-from vector is left empty.
MoveFrom(a, b) ==
  /\ a # b
  /\ wpos' = [wpos EXCEPT ![a] = wpos[b], ![b] = 0]
  /\ rpos' = [rpos EXCEPT ![a] = rpos[b], ![b] = 0]
  /\ storage' = [storage EXCEPT ![a] = storage[b], ![b] = <<>>]

Data == UNION {[1 .. n -> Bytes] : n \in Sizes \cup {1}}

Next ==
  \/ \E b \in Buffers : \/ Reset(b) \/ Normalize(b)
                        \/ \E n \in Sizes : Resize(b, n) \/ ReadCompleted(b, n)
                        \/ \E data \in Data : Write(b, data)
  \/ \E a, b \in Buffers : CopyFrom(a, b) \/ MoveFrom(a, b)

Spec == Init /\ [][Next]_vars

(***************************************************************************)
(* Properties.                                                             *)
(***************************************************************************)
\* The positions stay in order and inside the storage, so that GetActiveSize and
\* GetRemainingSpace, which subtract unsigned numbers, never wrap and no copy leaves
\* the vector.
InBounds ==
  /\ wpos \in [Buffers -> Nat] /\ rpos \in [Buffers -> Nat]
  /\ storage \in [Buffers -> Seq(Bytes)]
  /\ \A b \in Buffers : rpos[b] <= wpos[b] /\ wpos[b] <= Len(storage[b])

\* The bytes waiting in a buffer.
Active(b) == SubSeq(storage[b], rpos[b] + 1, wpos[b])

Queue == INSTANCE ByteQueue WITH contents <- [b \in Buffers |-> Active(b)]

\* Whatever the positions and the moves between buffers, each is a queue of bytes.
QueueSpec == Queue!Spec
=============================================================================
