---------------------------- MODULE AppenderFile ----------------------------
(***************************************************************************)
(* The file appender of the log: threads write messages to the file        *)
(* without a lock, and start a new file, keeping the old one under a name  *)
(* with the current second in it, when it has grown to maxFileSize.  The   *)
(* directory maps names to files, a FILE* is a handle on a file; Current   *)
(* is the appender's file name, a number the backup made in that second.   *)
(* A file holds bytes; what a byte is does not matter, only whose it is.   *)
(***************************************************************************)
EXTENDS Naturals, Sequences, SequencesExt

CONSTANTS Threads,      \* the threads that log
          Settings,     \* the appenders a run may have
          Sizes,        \* the sizes a message may have, its prefix and text, in bytes
          MaxBytes,     \* how many bytes are logged in a run (a bound)
          MaxSec,       \* how many seconds a run lasts (a bound)
          Failures,     \* "open": fopen may fail
          AppendTells   \* what ftell says of a file just opened for appending: "end" of
                        \* the file, or "zero" (C leaves it to the implementation)

ASSUME AppenderAssumption ==
  /\ Settings \subseteq [mode : {"a", "w"}, backup : BOOLEAN, dynamicName : BOOLEAN,
                         maxFileSize : Nat, existing : Nat, writers : SUBSET Threads]
  \* Log.cpp:250 ends every text with a newline.
  /\ Sizes \subseteq Nat \ {0} /\ MaxBytes \in Nat /\ MaxSec \in Nat \ {0}
  /\ Failures \subseteq {"open"} /\ AppendTells \subseteq {"end", "zero"}

VARIABLES
  settings,             \* mode, backup, dynamicName, maxFileSize; and how many bytes
                        \* the file held before the appender was made, and who logs
  built,                \* the constructor has run
  logfile,              \* the member logfile (0: NULL)
  fileSize,
  sec,                  \* the clock, in seconds
  dir,                  \* the file each name stands for (0: none)
  files,                \* what each file holds
  handles,              \* every FILE* there has been: its file, and whether it is open
  pc, size, local,      \* per thread: where it is in _write, its message's size, and the
                        \* FILE* OpenFile has returned
  born,                 \* ghost: the second in which each file was made
  logged,               \* ghost: the bytes given to fprintf
  misused               \* ghost: a FILE* was written or closed after fclose

fsVars  == <<dir, files, handles, born>>
cfgVars == <<settings, built, sec>>
vars == <<cfgVars, logfile, fileSize, fsVars, pc, size, local, logged, misused>>

Current == 0
PcStates == {"idle", "close", "null", "rename", "open", "assign", "test", "print", "count"}

\* What a file held before, and the bytes of the next message: each is the position in
\* the log at which its message starts.
Held(n) == [i \in 1 .. n |-> 0]
Text(n) == [i \in 1 .. n |-> Len(logged) + 1]

Init ==
  /\ settings \in Settings /\ built = FALSE /\ sec = 1
  /\ logfile = 0 /\ fileSize = 0
  /\ dir = [n \in 0 .. MaxSec |-> IF n = Current THEN 1 ELSE 0]
  /\ files = <<Held(settings.existing)>> /\ born = <<0>> /\ handles = <<>>
  /\ pc = [t \in Threads |-> "idle"] /\ size = [t \in Threads |-> 0]
  /\ local = [t \in Threads |-> 0]
  /\ logged = <<>> /\ misused = FALSE

\* The second passes.
Tick == /\ sec < MaxSec /\ sec' = sec + 1
        /\ UNCHANGED <<settings, built, logfile, fileSize, fsVars, pc, size, local, logged, misused>>

(***************************************************************************)
(* The C library and the file system (external).                           *)
(***************************************************************************)
\* Mutant of RenameTo: every backup gets the same name.
RenameToSame(d, backup) ==
  IF d[Current] = 0 THEN d ELSE [d EXCEPT ![1] = d[Current], ![Current] = 0]

\* rename replaces a file that has the new name already.
RenameTo(d, backup) ==
  IF d[Current] = 0 THEN d ELSE [d EXCEPT ![backup] = d[Current], ![Current] = 0]

\* fopen(mode) of the current name in directory d; its handle is Len(handles').
Fopen(d, mode) ==
  LET new == d[Current] = 0
      f   == IF new THEN Len(files) + 1 ELSE d[Current]
  IN  /\ dir' = [d EXCEPT ![Current] = f]
      /\ files' = IF new THEN Append(files, <<>>)
                  ELSE [files EXCEPT ![f] = IF mode = "w" THEN <<>> ELSE @]
      /\ born' = IF new THEN Append(born, sec) ELSE born
      /\ handles' = Append(handles, [file |-> f, open |-> TRUE])
      /\ \E tell \in AppendTells :
           fileSize' = IF tell = "zero" THEN 0 ELSE Len(files'[f])

Fclose(h) ==
  /\ handles' = [handles EXCEPT ![h].open = FALSE]
  /\ misused' = (misused \/ ~handles[h].open)

Fprintf(h, text) ==
  /\ files' = IF handles[h].open THEN [files EXCEPT ![handles[h].file] = @ \o text] ELSE files
  /\ misused' = (misused \/ ~handles[h].open)

(***************************************************************************)
(* The constructor: with a fixed name the file is opened, after a backup   *)
(* only if it would be overwritten.                                        *)
(***************************************************************************)
OpensAtOnce == settings.mode = "w" /\ settings.backup

\* Mutant of Construct: the file is not opened.
ConstructUnopened ==
  /\ ~built /\ built' = TRUE
  /\ logfile' = IF settings.dynamicName THEN 0 ELSE 1
  /\ UNCHANGED <<settings, sec, fileSize, fsVars, pc, size, local, logged, misused>>

Construct ==
  /\ ~built /\ built' = TRUE
  /\ IF settings.dynamicName
     THEN UNCHANGED <<logfile, fileSize, fsVars>>
     ELSE /\ Fopen(IF OpensAtOnce THEN RenameTo(dir, sec) ELSE dir, settings.mode)
          /\ logfile' = 1
  /\ UNCHANGED <<settings, sec, pc, size, local, logged, misused>>

\* Without a file the appender goes on: it has none from the start.
ConstructFails ==
  /\ "open" \in Failures /\ ~settings.dynamicName
  /\ ~built /\ built' = TRUE
  /\ dir' = IF OpensAtOnce THEN RenameTo(dir, sec) ELSE dir
  /\ UNCHANGED <<settings, sec, logfile, fileSize, files, handles, born, pc, size, local, logged, misused>>

(***************************************************************************)
(* _write.                                                                 *)
(***************************************************************************)
Go(t, from, to) == pc[t] = from /\ pc' = [pc EXCEPT ![t] = to]

\* Mutant of Exceeds: the message to be written is not counted.
ExceedsLate(n) == settings.maxFileSize > 0 /\ fileSize > settings.maxFileSize

Exceeds(n) == settings.maxFileSize > 0 /\ fileSize + n > settings.maxFileSize

\* A file with a dynamic name is opened for every message, and first backed up if the
\* flag is set, or fileSize says so; one with a fixed name only in the second case.
Begin(t, n) ==
  /\ t \in settings.writers
  /\ built /\ Len(logged) + n <= MaxBytes
  /\ Go(t, "idle", IF Exceeds(n) \/ (settings.dynamicName /\ settings.backup) THEN "close"
                   ELSE IF settings.dynamicName THEN "open" ELSE "test")
  /\ size' = [size EXCEPT ![t] = n]
  /\ UNCHANGED <<cfgVars, logfile, fileSize, fsVars, local, logged, misused>>

\* CloseFile: fclose, then NULL.
Close(t) ==
  /\ Go(t, "close", IF logfile = 0 THEN "rename" ELSE "null")
  /\ IF logfile = 0 THEN UNCHANGED <<handles, misused>> ELSE Fclose(logfile)
  /\ UNCHANGED <<cfgVars, logfile, fileSize, dir, files, born, size, local, logged>>

Null(t) ==
  /\ Go(t, "null", "rename") /\ logfile' = 0
  /\ UNCHANGED <<cfgVars, fileSize, fsVars, size, local, logged, misused>>

\* Mutant of Rename: no backup is made.
RenameSkipped(t) ==
  /\ Go(t, "rename", "open")
  /\ UNCHANGED <<cfgVars, logfile, fileSize, fsVars, size, local, logged, misused>>

Rename(t) ==
  /\ Go(t, "rename", "open") /\ dir' = RenameTo(dir, sec)
  /\ UNCHANGED <<cfgVars, logfile, fileSize, files, handles, born, size, local, logged, misused>>

Open(t) ==
  /\ Go(t, "open", "assign")
  /\ Fopen(dir, IF settings.dynamicName THEN "a" ELSE "w")
  /\ local' = [local EXCEPT ![t] = Len(handles')]
  /\ UNCHANGED <<cfgVars, logfile, size, logged, misused>>

OpenFails(t) ==
  /\ "open" \in Failures
  /\ Go(t, "open", "assign") /\ local' = [local EXCEPT ![t] = 0]
  /\ UNCHANGED <<cfgVars, logfile, fileSize, fsVars, size, logged, misused>>

\* logfile = OpenFile(...); a dynamic file stays local, and a message without one is dropped.
Assign(t) ==
  /\ Go(t, "assign", IF ~settings.dynamicName THEN "test"
                     ELSE IF local[t] = 0 THEN "idle" ELSE "print")
  /\ logfile' = IF settings.dynamicName THEN logfile ELSE local[t]
  /\ UNCHANGED <<cfgVars, fileSize, fsVars, size, local, logged, misused>>

\* Mutant of Test: the member is not tested.
TestNot(t) ==
  /\ Go(t, "test", "print")
  /\ UNCHANGED <<cfgVars, logfile, fileSize, fsVars, size, local, logged, misused>>

\* Without a file the message is dropped.
Test(t) ==
  /\ Go(t, "test", IF logfile = 0 THEN "idle" ELSE "print")
  /\ UNCHANGED <<cfgVars, logfile, fileSize, fsVars, size, local, logged, misused>>

\* fprintf reads the member again (the null it may have become crashes).
WriteText(t) ==
  LET h == IF settings.dynamicName THEN local[t] ELSE logfile
  IN  /\ Go(t, "print", "count")
      /\ IF h = 0 THEN misused' = TRUE /\ UNCHANGED files ELSE Fprintf(h, Text(size[t]))
      /\ logged' = logged \o Text(size[t])
      /\ UNCHANGED <<cfgVars, logfile, fileSize, dir, handles, born, size, local>>

Count(t) ==
  /\ Go(t, "count", "idle") /\ fileSize' = fileSize + size[t]
  /\ IF settings.dynamicName THEN Fclose(local[t]) ELSE UNCHANGED <<handles, misused>>
  /\ UNCHANGED <<cfgVars, logfile, dir, files, born, size, local, logged>>

Write(t) == \/ \E n \in Sizes : Begin(t, n)
            \/ Close(t) \/ Null(t) \/ Rename(t) \/ Open(t) \/ OpenFails(t)
            \/ Assign(t) \/ Test(t) \/ WriteText(t) \/ Count(t)

Next == Tick \/ Construct \/ ConstructFails \/ \E t \in Threads : Write(t)

Spec == Init /\ [][Next]_vars

(***************************************************************************)
(* Properties.                                                             *)
(***************************************************************************)
\* What a name holds, and what the backups and then the current file hold.
Content(n) == IF dir[n] = 0 THEN <<>> ELSE files[dir[n]]
OnDisk     == FlattenSeq([n \in 1 .. MaxSec |-> Content(n)]) \o Content(Current)

\* The state has the types the code gives it.
TypeOK ==
  /\ settings \in Settings /\ built \in BOOLEAN /\ sec \in 1 .. MaxSec
  /\ logfile \in 0 .. Len(handles) /\ fileSize \in Nat
  /\ \A n \in 0 .. MaxSec : dir[n] \in 0 .. Len(files)
  /\ pc \in [Threads -> PcStates] /\ size \in [Threads -> Sizes \cup {0}]
  /\ local \in [Threads -> 0 .. Len(handles)]

\* The files there have been hold every message fprintf was given, once and in order, after
\* what was there before (unless the mode says to overwrite it and the flag does not ask for
\* a backup, tumors.cfg:36 and :60, and the constructor could).  The backups, in the order of
\* their names, and the current file are those files, but for a backup that a later one of the
\* same second has replaced (AppenderFile.cpp:76: the next file was made in that second).
Complete ==
  LET overwritten == /\ ~settings.dynamicName /\ settings.mode = "w" /\ ~settings.backup
                     /\ handles # <<>> /\ handles[1].file = 1
      named == {dir[n] : n \in DOMAIN dir}
  IN  /\ FlattenSeq(files) = (IF overwritten THEN <<>> ELSE Held(settings.existing)) \o logged
      /\ OnDisk = FlattenSeq([f \in DOMAIN files |-> IF f \in named THEN files[f] ELSE <<>>])
      /\ \A f \in DOMAIN files \ named : f < Len(files) /\ dir[born[f + 1]] > f

\* A file with a fixed name and a maximum, and one that is made of one piece: a single
\* message, or what was there before.
Limited == settings.maxFileSize > 0 /\ ~settings.dynamicName
Whole   == \A i, j \in DOMAIN Content(Current) : Content(Current)[i] = Content(Current)[j]

\* A file does not grow beyond the maximum (tumors.cfg:64), as no message is added that would
\* take it there (AppenderFile.cpp:41).  Two kinds of file are exempt: one that holds a message
\* longer than the maximum and nothing else, which AppenderFile.cpp:57-65 write whole into the
\* fresh file, and one that holds only what was in it before the appender was made.
SizeBounded == Limited => Len(Content(Current)) <= settings.maxFileSize \/ Whole

\* Log.cpp:278 takes printf for thread-safe: no thread prints to, or closes, a FILE* that
\* another has closed.
NoUseAfterClose == ~misused
=============================================================================
