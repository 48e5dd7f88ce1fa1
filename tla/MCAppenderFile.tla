--------------------------- MODULE MCAppenderFile ---------------------------
(* AppenderFile with its settings enumerated for TLC. *)
EXTENDS AppenderFile

CONSTANTS MaxFileSizes, Existings

Appenders(dynamic, limits, who) ==
  [mode : {"a", "w"}, backup : BOOLEAN, dynamicName : dynamic,
   maxFileSize : limits, existing : Existings, writers : who]

\* One thread with every setting; more on a fixed file that is never rotated.
OrderlySettings ==
  Appenders(BOOLEAN, MaxFileSizes, {{"t1"}})
    \cup Appenders({FALSE}, {0}, {Threads})

\* All threads on a fixed file with a size limit.
RotatedSettings == Appenders({FALSE}, MaxFileSizes \ {0}, {Threads})
=============================================================================
