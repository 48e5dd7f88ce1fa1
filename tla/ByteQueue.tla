------------------------------ MODULE ByteQueue ------------------------------
(***************************************************************************)
(* What message buffers promise: each is a queue of bytes that grows at    *)
(* the end, shrinks at the front, and can be copied or moved to another.   *)
(* How the bytes lie in memory does not show.  MessageBuffer implements    *)
(* this module.                                                            *)
(***************************************************************************)
EXTENDS Naturals, Sequences, SequencesExt

CONSTANTS Buffers, Bytes

VARIABLE contents       \* the bytes waiting in each buffer

Init == contents = [b \in Buffers |-> <<>>]

Clear(b) == contents' = [contents EXCEPT ![b] = <<>>]

Put(b) ==
  /\ contents'[b] \in Seq(Bytes) /\ IsPrefix(contents[b], contents'[b])
  /\ contents' = [contents EXCEPT ![b] = contents'[b]]

Take(b, n) == contents' = [contents EXCEPT ![b] = SubSeq(@, n + 1, Len(@))]

CopyTo(a, b) == contents' = [contents EXCEPT ![a] = contents[b]]

MoveTo(a, b) == contents' = [contents EXCEPT ![a] = contents[b], ![b] = <<>>]

Next ==
  \/ \E b \in Buffers : Clear(b) \/ Put(b) \/ \E n \in 0 .. Len(contents[b]) : Take(b, n)
  \/ \E a, b \in Buffers : a # b /\ (CopyTo(a, b) \/ MoveTo(a, b))

Spec == Init /\ [][Next]_contents
=============================================================================
