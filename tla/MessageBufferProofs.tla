------------------------- MODULE MessageBufferProofs -------------------------
(***************************************************************************)
(* For any number of buffers, sizes and data: a message buffer stays       *)
(* inside its storage and behaves as a queue of bytes.                     *)
(***************************************************************************)
EXTENDS MessageBuffer, SequenceTheorems, TLAPS

(***************************************************************************)
(* What the operators on the storage return.                               *)
(***************************************************************************)
LEMMA FreshType ==
  ASSUME NEW n \in Sizes
  PROVE  Fresh(n) \in Seq(Bytes)
  BY BufferAssumption DEF Fresh

LEMMA DataType == Data \subseteq Seq(Bytes)
<1> SUFFICES ASSUME NEW d \in Data PROVE d \in Seq(Bytes)
  OBVIOUS
<1>1. PICK n \in Sizes \cup {1} : d \in [1 .. n -> Bytes]
  BY DEF Data
<1>2. n \in Nat
  BY BufferAssumption
<1> QED
  BY <1>1, <1>2

LEMMA OverlayType ==
  ASSUME NEW st \in Seq(Bytes), NEW data \in Seq(Bytes), NEW at \in Nat,
         at + Len(data) <= Len(st)
  PROVE  /\ Overlay(st, at, data) \in Seq(Bytes) /\ Len(Overlay(st, at, data)) = Len(st)
         /\ \A i \in 1 .. Len(st) :
              Overlay(st, at, data)[i] = IF i > at /\ i <= at + Len(data) THEN data[i - at] ELSE st[i]
<1>1. DOMAIN st = 1 .. Len(st) /\ Len(st) \in Nat /\ Len(data) \in Nat
  OBVIOUS
<1>2. ASSUME NEW i \in 1 .. Len(st)
      PROVE  (IF i > at /\ i <= at + Len(data) THEN data[i - at] ELSE st[i]) \in Bytes
  BY <1>1
<1> QED
  BY <1>1, <1>2 DEF Overlay

\* A part of the storage, and its bytes.
LEMMA PartOfStorage ==
  ASSUME NEW st \in Seq(Bytes), NEW r \in Nat, NEW w \in Nat, r <= w, w <= Len(st)
  PROVE  /\ SubSeq(st, r + 1, w) \in Seq(Bytes) /\ Len(SubSeq(st, r + 1, w)) = w - r
         /\ \A i \in 1 .. w - r : SubSeq(st, r + 1, w)[i] = st[r + i]
<1>1. \A i \in r + 1 .. w : st[i] \in Bytes
  OBVIOUS
<1>2. r + 1 \in Int /\ w \in Int
  OBVIOUS
<1>3. /\ SubSeq(st, r + 1, w) \in Seq(Bytes)
      /\ Len(SubSeq(st, r + 1, w)) = IF r + 1 <= w THEN w - (r + 1) + 1 ELSE 0
      /\ \A i \in 1 .. w - (r + 1) + 1 : SubSeq(st, r + 1, w)[i] = st[(r + 1) + i - 1]
  BY <1>1, <1>2, SubSeqProperties
<1>4. w - (r + 1) + 1 = w - r /\ \A i \in 1 .. w - r : (r + 1) + i - 1 = r + i
  OBVIOUS
<1> QED
  BY <1>3, <1>4

(***************************************************************************)
(* The bounds.                                                             *)
(***************************************************************************)
LEMMA InitInBounds == Init => InBounds
<1> SUFFICES ASSUME Init PROVE InBounds
  OBVIOUS
<1>1. storage \in [Buffers -> Seq(Bytes)]
  BY FreshType DEF Init
<1>2. \A b \in Buffers : Len(storage[b]) \in Nat
  BY <1>1
<1> QED
  BY <1>1, <1>2 DEF Init, InBounds

LEMMA BoundsStep == InBounds /\ [Next]_vars => InBounds'
<1> SUFFICES ASSUME InBounds, [Next]_vars PROVE InBounds'
  OBVIOUS
<1> USE DEF InBounds
<1>1. ASSUME NEW b \in Buffers, Reset(b) PROVE InBounds'
  BY <1>1 DEF Reset
<1>2. ASSUME NEW b \in Buffers, Normalize(b) PROVE InBounds'
  <2>1. /\ SubSeq(storage[b], rpos[b] + 1, wpos[b]) \in Seq(Bytes)
        /\ Len(SubSeq(storage[b], rpos[b] + 1, wpos[b])) = wpos[b] - rpos[b]
    BY PartOfStorage
  <2> DEFINE part == SubSeq(storage[b], rpos[b] + 1, wpos[b])
  <2> HIDE DEF part
  <2>2. part \in Seq(Bytes) /\ 0 + Len(part) <= Len(storage[b])
    BY <2>1 DEF part
  <2>3. /\ Overlay(storage[b], 0, part) \in Seq(Bytes)
        /\ Len(Overlay(storage[b], 0, part)) = Len(storage[b])
    BY <2>2, OverlayType
  <2> QED
    BY <1>2, <2>3 DEF Normalize, part
<1>3. ASSUME NEW b \in Buffers, NEW n \in Sizes, Resize(b, n) PROVE InBounds'
  <2> DEFINE st == [i \in 1 .. n |-> IF i <= Len(storage[b]) THEN storage[b][i] ELSE Blank]
  <2>1. n \in Nat
    BY BufferAssumption
  <2>2. st \in Seq(Bytes) /\ Len(st) = n
    BY <2>1, BufferAssumption
  <2>3. storage' = [storage EXCEPT ![b] = st] /\ wpos[b] = 0 /\ UNCHANGED <<wpos, rpos>>
    BY <1>3 DEF Resize
  <2> HIDE DEF st
  <2> QED
    BY <2>1, <2>2, <2>3
<1>4. ASSUME NEW b \in Buffers, NEW n \in Sizes, ReadCompleted(b, n) PROVE InBounds'
  <2>1. n \in Nat
    BY BufferAssumption
  <2> QED
    BY <1>4, <2>1 DEF ReadCompleted, GetActiveSize
<1>5. ASSUME NEW b \in Buffers, NEW data \in Data, Write(b, data) PROVE InBounds'
  <2>1. data \in Seq(Bytes) /\ Len(data) \in Nat /\ wpos[b] + Len(data) <= Len(storage[b])
    BY <1>5, DataType DEF Write, GetRemainingSpace
  <2>2. /\ Overlay(storage[b], wpos[b], data) \in Seq(Bytes)
        /\ Len(Overlay(storage[b], wpos[b], data)) = Len(storage[b])
    BY <2>1, OverlayType
  <2> QED
    BY <1>5, <2>1, <2>2 DEF Write
<1>6. ASSUME NEW a \in Buffers, NEW b \in Buffers, CopyFrom(a, b) PROVE InBounds'
  BY <1>6 DEF CopyFrom
<1>7. ASSUME NEW a \in Buffers, NEW b \in Buffers, MoveFrom(a, b) PROVE InBounds'
  <2>1. a # b /\ <<>> \in Seq(Bytes) /\ Len(<<>>) = 0
    BY <1>7, EmptySeq DEF MoveFrom
  <2>2. storage' \in [Buffers -> Seq(Bytes)] /\ wpos' \in [Buffers -> Nat] /\ rpos' \in [Buffers -> Nat]
    BY <1>7, <2>1 DEF MoveFrom
  <2>3. ASSUME NEW c \in Buffers PROVE rpos'[c] <= wpos'[c] /\ wpos'[c] <= Len(storage'[c])
    <3>1. CASE c = b
      BY <1>7, <2>1, <3>1 DEF MoveFrom
    <3>2. CASE c # b
      BY <1>7, <2>1, <3>2 DEF MoveFrom
    <3> QED
      BY <3>1, <3>2
  <2> QED
    BY <2>2, <2>3
<1>8. CASE UNCHANGED vars
  BY <1>8 DEF vars
<1> QED
  BY <1>1, <1>2, <1>3, <1>4, <1>5, <1>6, <1>7, <1>8 DEF Next

\* However buffers are written, read, normalized, resized, copied and moved, positions
\* stay in order and inside the storage: no size that is computed from them wraps.
THEOREM StaysInBounds == Spec => []InBounds
<1> QED
  BY InitInBounds, BoundsStep, PTL DEF Spec

(***************************************************************************)
(* The queue of bytes.                                                     *)
(***************************************************************************)
contents == [b \in Buffers |-> Active(b)]

LEMMA ActiveType ==
  ASSUME InBounds, NEW b \in Buffers
  PROVE  /\ Active(b) \in Seq(Bytes) /\ Len(Active(b)) = wpos[b] - rpos[b]
         /\ \A i \in 1 .. wpos[b] - rpos[b] : Active(b)[i] = storage[b][rpos[b] + i]
  BY PartOfStorage DEF Active, InBounds

\* A step that leaves the three fields of a buffer alone leaves its bytes alone.
LEMMA ActiveKept ==
  ASSUME NEW b, storage'[b] = storage[b], wpos'[b] = wpos[b], rpos'[b] = rpos[b]
  PROVE  Active(b)' = Active(b)
  BY DEF Active

\* An empty range of the storage holds no bytes.
LEMMA ActiveNone ==
  ASSUME NEW st, NEW n \in Nat
  PROVE  SubSeq(st, n + 1, n) = <<>>
  BY SubSeqEmpty

\* A step that changes the bytes of one buffer only.
LEMMA OneChanges ==
  ASSUME NEW b \in Buffers, NEW x, Active(b)' = x,
         \A c \in Buffers : c # b => Active(c)' = Active(c)
  PROVE  contents' = [contents EXCEPT ![b] = x]
  BY DEF contents

LEMMA AllKept ==
  ASSUME \A c \in Buffers : Active(c)' = Active(c)
  PROVE  UNCHANGED contents
  BY DEF contents

LEMMA ResetStep ==
  ASSUME InBounds, NEW b \in Buffers, Reset(b)
  PROVE  Queue!Next
<1>1. \A c \in Buffers : c # b => Active(c)' = Active(c)
  BY ActiveKept DEF Reset, InBounds
<1>2. Active(b)' = <<>>
  BY ActiveNone DEF Active, Reset, InBounds
<1>3. contents' = [contents EXCEPT ![b] = <<>>]
  BY <1>1, <1>2, OneChanges
<1> QED
  BY <1>3 DEF Queue!Next, Queue!Clear, contents

LEMMA NormalizeStep ==
  ASSUME InBounds, NEW b \in Buffers, Normalize(b)
  PROVE  UNCHANGED contents
<1> DEFINE part == Active(b)
           st == Overlay(storage[b], 0, part)
           len == wpos[b] - rpos[b]
<1>1. /\ storage[b] \in Seq(Bytes) /\ rpos[b] \in Nat /\ wpos[b] \in Nat
      /\ rpos[b] <= wpos[b] /\ wpos[b] <= Len(storage[b])
  BY DEF InBounds
<1>2. part \in Seq(Bytes) /\ Len(part) = len /\ len \in Nat /\ len <= Len(storage[b])
  BY <1>1, ActiveType
<1>3. storage'[b] = st /\ rpos'[b] = 0 /\ wpos'[b] = len
  BY DEF Normalize, InBounds, Active
<1>4. \A c \in Buffers : c # b => Active(c)' = Active(c)
  BY ActiveKept DEF Normalize, InBounds
<1> HIDE DEF part, len
<1>5. /\ st \in Seq(Bytes) /\ Len(st) = Len(storage[b])
      /\ \A i \in 1 .. Len(storage[b]) : st[i] = IF i > 0 /\ i <= 0 + Len(part) THEN part[i - 0] ELSE storage[b][i]
  BY <1>1, <1>2, OverlayType
<1> HIDE DEF st
<1>6. /\ SubSeq(st, 0 + 1, len) \in Seq(Bytes) /\ Len(SubSeq(st, 0 + 1, len)) = len - 0
      /\ \A i \in 1 .. len - 0 : SubSeq(st, 0 + 1, len)[i] = st[0 + i]
  BY <1>1, <1>2, <1>5, PartOfStorage
<1>7. SubSeq(st, 0 + 1, len) = part
  <2> DEFINE p == SubSeq(st, 0 + 1, len)
  <2>1. p \in Seq(Bytes) /\ Len(p) = len /\ \A i \in 1 .. len : p[i] = st[i]
    BY <1>2, <1>6
  <2> HIDE DEF p
  <2>2. \A i \in 1 .. len : p[i] = part[i]
    BY <1>1, <1>2, <1>5, <2>1
  <2>3. p = part
    BY <1>2, <2>1, <2>2, SeqEqual
  <2> QED
    BY <2>3 DEF p
<1>8. Active(b)' = Active(b)
  BY <1>3, <1>7 DEF Active, part
<1> QED
  BY <1>4, <1>8, AllKept

LEMMA ResizeStep ==
  ASSUME InBounds, NEW b \in Buffers, NEW n \in Sizes, Resize(b, n)
  PROVE  UNCHANGED contents
<1>1. \A c \in Buffers : c # b => Active(c)' = Active(c)
  BY ActiveKept DEF Resize, InBounds
<1>2. wpos[b] = 0 /\ rpos[b] = 0 /\ wpos'[b] = 0 /\ rpos'[b] = 0
  BY DEF Resize, InBounds
<1>3. Active(b)' = <<>> /\ Active(b) = <<>>
  BY <1>2, ActiveNone DEF Active
<1> QED
  BY <1>1, <1>3, AllKept

LEMMA ReadStep ==
  ASSUME InBounds, NEW b \in Buffers, NEW n \in Sizes, ReadCompleted(b, n)
  PROVE  Queue!Next
<1> DEFINE act == Active(b)
           st == storage[b]
           r == rpos[b]
           w == wpos[b]
<1>1. n \in Nat
  BY BufferAssumption
<1>2. /\ st \in Seq(Bytes) /\ r \in Nat /\ w \in Nat /\ r + n <= w /\ w <= Len(st)
      /\ storage'[b] = st /\ rpos'[b] = r + n /\ wpos'[b] = w
  BY <1>1 DEF ReadCompleted, GetActiveSize, InBounds
<1>3. \A c \in Buffers : c # b => Active(c)' = Active(c)
  BY ActiveKept DEF ReadCompleted, InBounds
<1>4. Active(b)' = SubSeq(st, (r + n) + 1, w)
  BY <1>2 DEF Active
<1>5. act \in Seq(Bytes) /\ Len(act) = w - r /\ \A i \in 1 .. w - r : act[i] = st[r + i]
  BY ActiveType
<1> HIDE DEF act, st, r, w
<1>6. r + n \in Nat /\ w - r \in Nat /\ n <= w - r
  BY <1>1, <1>2
<1> DEFINE new == SubSeq(st, (r + n) + 1, w)
           cut == SubSeq(act, n + 1, w - r)
<1>7. new \in Seq(Bytes) /\ Len(new) = w - (r + n) /\ \A i \in 1 .. w - (r + n) : new[i] = st[(r + n) + i]
  BY <1>2, <1>6, PartOfStorage
<1>8. cut \in Seq(Bytes) /\ Len(cut) = (w - r) - n /\ \A i \in 1 .. (w - r) - n : cut[i] = act[n + i]
  BY <1>1, <1>5, <1>6, PartOfStorage
<1> HIDE DEF new, cut
<1>9. new = cut
  <2>1. Len(new) = Len(cut)
    BY <1>1, <1>2, <1>7, <1>8
  <2>2. ASSUME NEW i \in 1 .. Len(new) PROVE new[i] = cut[i]
    <3>1. i \in 1 .. w - (r + n) /\ i \in 1 .. (w - r) - n /\ n + i \in 1 .. w - r /\ (r + n) + i = r + (n + i)
      BY <1>1, <1>2, <1>7
    <3> QED
      BY <1>5, <1>7, <1>8, <3>1
  <2> QED
    BY <1>7, <1>8, <2>1, <2>2, SeqEqual
<1>10. contents' = [contents EXCEPT ![b] = cut]
  BY <1>3, <1>4, <1>9, OneChanges DEF new
<1>11. contents[b] = act
  BY DEF contents, act
<1>12. n \in 0 .. Len(contents[b])
  BY <1>1, <1>5, <1>6, <1>11
<1>13. SubSeq(contents[b], n + 1, Len(contents[b])) = cut
  BY <1>5, <1>11 DEF cut
<1>14. contents' = [contents EXCEPT ![b] = SubSeq(contents[b], n + 1, Len(contents[b]))]
  BY <1>10, <1>13
<1> QED
  BY <1>12, <1>14 DEF Queue!Next, Queue!Take, contents

LEMMA WriteStep ==
  ASSUME InBounds, InBounds', NEW b \in Buffers, NEW data \in Data, Write(b, data)
  PROVE  Queue!Next
<1> DEFINE act == Active(b)
           st == storage[b]
           r == rpos[b]
           w == wpos[b]
           len == Len(data)
           new == Overlay(st, w, data)
<1>1. data \in Seq(Bytes) /\ len \in Nat
  BY DataType
<1>2. /\ st \in Seq(Bytes) /\ r \in Nat /\ w \in Nat /\ r <= w /\ w + len <= Len(st)
      /\ storage'[b] = new /\ rpos'[b] = r /\ wpos'[b] = w + len
  BY <1>1 DEF Write, GetRemainingSpace, InBounds
<1>3. \A c \in Buffers : c # b => Active(c)' = Active(c)
  BY ActiveKept DEF Write, InBounds
<1>4. contents' = [contents EXCEPT ![b] = Active(b)']
  BY <1>3, OneChanges
<1>5. act \in Seq(Bytes) /\ Len(act) = w - r /\ \A i \in 1 .. w - r : act[i] = st[r + i]
  BY ActiveType
<1>6. Active(b)' = SubSeq(new, r + 1, w + len)
  BY <1>2 DEF Active
<1> HIDE DEF act, st, r, w, len
<1>7. /\ new \in Seq(Bytes) /\ Len(new) = Len(st)
      /\ \A i \in 1 .. Len(st) : new[i] = IF i > w /\ i <= w + Len(data) THEN data[i - w] ELSE st[i]
  BY <1>1, <1>2, OverlayType DEF len
<1> HIDE DEF new
<1> DEFINE after == SubSeq(new, r + 1, w + len)
<1>8. w + len \in Nat /\ r <= w + len
  BY <1>1, <1>2
<1>9. after \in Seq(Bytes) /\ Len(after) = (w + len) - r /\ \A i \in 1 .. (w + len) - r : after[i] = new[r + i]
  BY <1>2, <1>7, <1>8, PartOfStorage
<1> HIDE DEF after
<1>10. Len(act) <= Len(after) /\ \A i \in 1 .. Len(act) : after[i] = act[i]
  <2>1. Len(act) <= Len(after)
    BY <1>1, <1>2, <1>5, <1>9
  <2>2. ASSUME NEW i \in 1 .. Len(act) PROVE after[i] = act[i]
    <3>1. i \in 1 .. w - r /\ i \in 1 .. (w + len) - r /\ r + i \in 1 .. Len(st) /\ ~(r + i > w)
      BY <1>1, <1>2, <1>5
    <3> QED
      BY <1>5, <1>7, <1>9, <3>1
  <2> QED
    BY <2>1, <2>2
<1>11. contents[b] = act /\ contents'[b] = after
  BY <1>4, <1>6 DEF contents, act, after
<1>12. Queue!IsPrefix(act, after)
  <2> DEFINE front == SubSeq(after, 0 + 1, Len(act))
  <2>1. Len(act) \in Nat /\ 0 <= Len(act)
    BY <1>5
  <2>2. front \in Seq(Bytes) /\ Len(front) = Len(act) - 0 /\ \A i \in 1 .. Len(act) - 0 : front[i] = after[0 + i]
    BY <1>9, <1>10, <2>1, PartOfStorage
  <2> HIDE DEF front
  <2>3. \A i \in 1 .. Len(act) : front[i] = act[i]
    BY <1>10, <2>1, <2>2
  <2>4. front = act
    BY <1>5, <2>1, <2>2, <2>3, SeqEqual
  <2>5. SubSeq(act, 1, Len(act)) = act
    BY <1>5, SubSeqFull
  <2> QED
    BY <1>10, <2>4, <2>5 DEF Queue!IsPrefix, front
<1>13. Queue!Put(b)
  BY <1>4, <1>6, <1>9, <1>11, <1>12 DEF Queue!Put, contents, after
<1> QED
  BY <1>13 DEF Queue!Next

LEMMA CopyStep ==
  ASSUME InBounds, NEW a \in Buffers, NEW b \in Buffers, CopyFrom(a, b)
  PROVE  Queue!Next
<1>1. \A c \in Buffers : c # a => Active(c)' = Active(c)
  BY ActiveKept DEF CopyFrom, InBounds
<1>2. Active(a)' = Active(b)
  BY DEF Active, CopyFrom, InBounds
<1>3. contents' = [contents EXCEPT ![a] = contents[b]]
  BY <1>1, <1>2, OneChanges DEF contents
<1> QED
  BY <1>3 DEF CopyFrom, Queue!Next, Queue!CopyTo, contents

LEMMA MoveStep ==
  ASSUME InBounds, NEW a \in Buffers, NEW b \in Buffers, MoveFrom(a, b)
  PROVE  Queue!Next
<1>1. a # b
  BY DEF MoveFrom
<1>2. \A c \in Buffers : c # a /\ c # b => Active(c)' = Active(c)
  BY ActiveKept DEF MoveFrom, InBounds
<1>3. Active(a)' = Active(b)
  BY <1>1 DEF Active, MoveFrom, InBounds
<1>4. Active(b)' = <<>>
  BY ActiveNone DEF Active, MoveFrom, InBounds
<1>5. contents' = [contents EXCEPT ![a] = contents[b], ![b] = <<>>]
  BY <1>1, <1>2, <1>3, <1>4 DEF contents
<1> QED
  BY <1>1, <1>5 DEF Queue!Next, Queue!MoveTo, contents

\* Wherever the bytes lie in memory and whatever is copied or moved, each buffer is a
\* queue of bytes: MessageBuffer implements ByteQueue.
THEOREM ImplementsQueue == Spec => QueueSpec
<1>1. Init => Queue!Init
  <2> SUFFICES ASSUME Init PROVE Queue!Init
    OBVIOUS
  <2>1. \A b \in Buffers : Active(b) = <<>>
    BY ActiveNone DEF Active, Init
  <2> QED
    BY <2>1 DEF Queue!Init
<1>2. InBounds /\ InBounds' /\ [Next]_vars => [Queue!Next]_contents
  <2> SUFFICES ASSUME InBounds, InBounds', [Next]_vars PROVE [Queue!Next]_contents
    OBVIOUS
  <2>1. CASE UNCHANGED vars
    BY <2>1 DEF vars, contents, Active
  <2> QED
    BY <2>1, ResetStep, NormalizeStep, ResizeStep, ReadStep, WriteStep, CopyStep, MoveStep DEF Next
<1> QED
  BY <1>1, <1>2, StaysInBounds, PTL DEF Spec, QueueSpec, Queue!Spec, contents
=============================================================================
