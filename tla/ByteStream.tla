----------------------------- MODULE ByteStream -----------------------------
(***************************************************************************)
(* What a socket promises its user: the peer receives the bytes handed     *)
(* over in order, without repeats, and nothing once the stream has ended.  *)
(* There is no gap either, unless a packet was dropped on a failed write.  *)
(* Bytes are numbered in the order they are handed over.  Module Socket    *)
(* implements this one.                                                    *)
(***************************************************************************)
EXTENDS Naturals, Sequences

CONSTANT MaxBytes       \* how many bytes are handed over in a run (a bound)

VARIABLES handed,       \* bytes 1 .. handed have been handed to the socket
          sent,         \* the bytes that have entered the network
          ended,        \* the sending side has been shut down
          lossy         \* a packet, or the rest of one, has been dropped

vars == <<handed, sent, ended, lossy>>

Init == handed = 0 /\ sent = <<>> /\ ended = FALSE /\ lossy = FALSE

Hand(n) ==
  /\ handed' = handed + n /\ handed' <= MaxBytes
  /\ UNCHANGED <<sent, ended, lossy>>

Latest == IF sent = <<>> THEN 0 ELSE sent[Len(sent)]

\* Bytes first .. last enter the network, after those that have.
Send(first, last) ==
  /\ ~ended /\ last <= handed
  /\ IF lossy THEN first > Latest ELSE first = Latest + 1
  /\ sent' = sent \o [i \in 1 .. last - first + 1 |-> first + i - 1]
  /\ UNCHANGED <<handed, ended, lossy>>

Drop == lossy' = TRUE /\ UNCHANGED <<handed, sent, ended>>

End == ended' = TRUE /\ UNCHANGED <<handed, sent, lossy>>

Next ==
  \/ \E n \in 0 .. MaxBytes : Hand(n)
  \/ \E first, last \in 1 .. MaxBytes : first <= last /\ Send(first, last)
  \/ Drop \/ End

Spec == Init /\ [][Next]_vars
=============================================================================
