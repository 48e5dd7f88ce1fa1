------------------------------ MODULE Registry ------------------------------
(***************************************************************************)
(* What the network layer promises about connections, without its threads: *)
(* every connection is handed to at most one network thread, stays with    *)
(* it, and is given up only once its socket is closed (or when the threads *)
(* themselves are destroyed); the load of a thread is the number of        *)
(* connections it owns.  Network implements this module.                   *)
(***************************************************************************)
EXTENDS Integers, FiniteSets

CONSTANTS Conns,        \* the connections of a run
          Threads       \* the network threads

VARIABLES owner,        \* the thread that owns a connection, or a stage of its life
          shut,         \* the connections whose socket has been closed
          load          \* how many connections each thread counts

vars == <<owner, shut, load>>

\* A connection nobody owns yet, and one that has been given up for good.
Unowned  == -1
Released == -2

TypeOK ==
  /\ owner \in [Conns -> Threads \cup {Unowned, Released}]
  /\ shut \subseteq Conns
  /\ load \in [Threads -> Int]

Init ==
  /\ owner = [c \in Conns |-> Unowned]
  /\ shut = {}
  /\ load = [t \in Threads |-> 0]

\* A socket is closed, by whoever, whether or not a thread owns it yet.
Close(c) ==
  /\ shut' = shut \cup {c}
  /\ UNCHANGED <<owner, load>>

\* An accepted connection is handed to thread t.
Assign(c, t) ==
  /\ owner[c] = Unowned
  /\ owner' = [owner EXCEPT ![c] = t]
  /\ load' = [load EXCEPT ![t] = @ + 1]
  /\ UNCHANGED shut

\* An accepted connection is dropped before any thread has it: its remote
\* address cannot be had, or the acceptor is destroyed.
Abandon(c) ==
  /\ owner[c] = Unowned
  /\ owner' = [owner EXCEPT ![c] = Released]
  /\ UNCHANGED <<shut, load>>

\* A thread gives up a connection it owns, which must be closed.
Release(c, t) ==
  /\ owner[c] = t
  /\ c \in shut
  /\ owner' = [owner EXCEPT ![c] = Released]
  /\ load' = [load EXCEPT ![t] = @ - 1]
  /\ UNCHANGED shut

\* A thread is destroyed with all it owns, open or not.
Destroy(t) ==
  /\ owner' = [c \in Conns |-> IF owner[c] = t THEN Released ELSE owner[c]]
  /\ load' = [load EXCEPT ![t] = 0]
  /\ UNCHANGED shut

Next ==
  \/ \E c \in Conns : Close(c) \/ Abandon(c) \/ \E t \in Threads : Assign(c, t) \/ Release(c, t)
  \/ \E t \in Threads : Destroy(t)

Spec == Init /\ [][Next]_vars
=============================================================================
