------------------------- MODULE AppenderFileProofs -------------------------
(***************************************************************************)
(* The file appender for any settings, files, failures and messages: types *)
(* and, where one thread logs at a time, that no FILE* is used after it    *)
(* was closed, that a file keeps to its size, and that no message is lost. *)
(***************************************************************************)
EXTENDS AppenderFile, UtilProofs

Handles == [file : Nat, open : BOOLEAN]

(***************************************************************************)
(* Types.                                                                  *)
(***************************************************************************)
FileTypes ==
  /\ files \in Seq(Seq(Nat)) /\ handles \in Seq(Handles)
  /\ dir \in [0 .. MaxSec -> Nat] /\ \A n \in 0 .. MaxSec : dir[n] <= Len(files)
  /\ \A h \in 1 .. Len(handles) : handles[h].file \in 1 .. Len(files)
  /\ fileSize \in Nat

StateTypes ==
  /\ settings \in Settings /\ built \in BOOLEAN /\ sec \in 1 .. MaxSec
  /\ logfile \in 0 .. Len(handles)
  /\ pc \in [Threads -> PcStates] /\ local \in [Threads -> 0 .. Len(handles)]
  /\ size \in [Threads -> Sizes \cup {0}] /\ logged \in Seq(Nat)

Types == FileTypes /\ StateTypes

LEMMA TypesImply == Types => TypeOK
<1> SUFFICES ASSUME Types PROVE TypeOK
  OBVIOUS
<1>1. ASSUME NEW n \in 0 .. MaxSec PROVE dir[n] \in 0 .. Len(files)
  <2>1. files \in Seq(Seq(Nat)) /\ dir[n] \in Nat /\ dir[n] <= Len(files)
    BY DEF Types, FileTypes
  <2> QED
    BY <2>1
<1>2. fileSize \in Nat
  BY DEF Types, FileTypes
<1> QED
  BY <1>1, <1>2 DEF Types, StateTypes, TypeOK

\* The bytes of a message: as many as its size, all the same.
LEMMA TextIs ==
  ASSUME StateTypes, NEW t \in Threads
  PROVE  /\ size[t] \in Nat /\ Text(size[t]) \in Seq(Nat) /\ Len(Text(size[t])) = size[t]
         /\ \A i, j \in 1 .. size[t] : Text(size[t])[i] = Text(size[t])[j]
<1>1. size[t] \in Nat /\ Len(logged) + 1 \in Nat
  <2>1. \A n \in Sizes : n \in Nat
    BY AppenderAssumption
  <2>2. size[t] \in Sizes \cup {0}
    BY DEF StateTypes
  <2>3. logged \in Seq(Nat)
    BY DEF StateTypes
  <2>4. size[t] \in Nat
    BY <2>1, <2>2
  <2> QED
    BY <2>3, <2>4
<1> QED
  BY <1>1 DEF Text

\* Fprintf to an open handle extends its file and no other.
LEMMA Extended ==
  ASSUME FileTypes, NEW f \in 1 .. Len(files), NEW x \in Seq(Nat), files' = [files EXCEPT ![f] = @ \o x]
  PROVE  /\ files' \in Seq(Seq(Nat)) /\ Len(files') = Len(files)
         /\ files'[f] = files[f] \o x /\ files[f] \in Seq(Nat)
<1>1. files \in Seq(Seq(Nat)) /\ files[f] \in Seq(Nat)
  BY DEF FileTypes
<1> DEFINE y == files[f] \o x
<1>2. y \in Seq(Nat)
  BY <1>1, ConcatProperties
<1>3. files' = [files EXCEPT ![f] = y]
  OBVIOUS
<1> HIDE DEF y
<1>4. files' \in Seq(Seq(Nat)) /\ Len(files') = Len(files) /\ files'[f] = y
  BY <1>1, <1>2, <1>3, ExceptSeq, SMTT(30)
<1> QED
  BY <1>1, <1>4 DEF y

LEMMA RenameType ==
  ASSUME FileTypes, NEW n \in 0 .. MaxSec
  PROVE  /\ RenameTo(dir, n) \in [0 .. MaxSec -> Nat]
         /\ \A m \in 0 .. MaxSec : RenameTo(dir, n)[m] <= Len(files)
<1>1. Current \in 0 .. MaxSec /\ dir[Current] \in Nat /\ dir[Current] <= Len(files)
  BY AppenderAssumption DEF Current, FileTypes
<1>2. Len(files) \in Nat /\ 0 <= Len(files)
  BY EmptySeq DEF FileTypes
<1>3. CASE dir[Current] = 0
  BY <1>3 DEF RenameTo, FileTypes
<1>4. CASE dir[Current] # 0
  <2> DEFINE r == [dir EXCEPT ![n] = dir[Current], ![Current] = 0]
  <2>1. RenameTo(dir, n) = r
    BY <1>4 DEF RenameTo
  <2>2. r \in [0 .. MaxSec -> Nat]
    BY <1>1 DEF FileTypes
  <2>3. \A m \in 0 .. MaxSec : r[m] = 0 \/ r[m] = dir[Current] \/ r[m] = dir[m]
    BY <1>1 DEF FileTypes
  <2> HIDE DEF r
  <2>4. \A m \in 0 .. MaxSec : r[m] <= Len(files)
    BY <1>1, <1>2, <2>3 DEF FileTypes
  <2> QED
    BY <2>1, <2>2, <2>4
<1> QED
  BY <1>3, <1>4

\* fopen adds a handle, open, on a file there is, and changes no other.
LEMMA FopenEffect ==
  ASSUME FileTypes, NEW d \in [0 .. MaxSec -> Nat], \A n \in 0 .. MaxSec : d[n] <= Len(files),
         NEW mode, Fopen(d, mode)
  PROVE  /\ FileTypes' /\ Len(handles') = Len(handles) + 1
         /\ handles'[Len(handles')].open
         /\ \A h \in 1 .. Len(handles) : handles'[h] = handles[h]
<1> DEFINE new == d[Current] = 0
           f == IF new THEN Len(files) + 1 ELSE d[Current]
           e == [file |-> f, open |-> TRUE]
           upd == [files EXCEPT ![f] = IF mode = "w" THEN <<>> ELSE @]
<1>1. /\ Current \in 0 .. MaxSec /\ d[Current] \in Nat /\ d[Current] <= Len(files)
      /\ Len(files) \in Nat
  BY AppenderAssumption DEF Current, FileTypes
<1>2. f \in Nat /\ f >= 1 /\ (~new => f \in 1 .. Len(files))
  BY <1>1
<1>3. /\ dir' = [d EXCEPT ![Current] = f]
      /\ files' = IF new THEN Append(files, <<>>) ELSE upd
      /\ handles' = Append(handles, e)
      /\ \E tell \in AppendTells : fileSize' = IF tell = "zero" THEN 0 ELSE Len(files'[f])
  BY DEF Fopen
<1>4. <<>> \in Seq(Nat) /\ Len(<<>>) = 0
  BY EmptySeq
<1> HIDE DEF f, new
<1>5. /\ new => /\ files' \in Seq(Seq(Nat)) /\ Len(files') = Len(files) + 1 /\ f = Len(files')
      /\ ~new => /\ files' \in Seq(Seq(Nat)) /\ Len(files') = Len(files)
  <2>1. CASE new
    BY <1>1, <1>3, <1>4, <2>1, AppendProperties DEF FileTypes, f
  <2>2. CASE ~new
    <3>1. files[f] \in Seq(Nat)
      BY <1>2, <2>2 DEF FileTypes
    <3>2. (IF mode = "w" THEN <<>> ELSE files[f]) \in Seq(Nat)
      BY <1>4, <3>1
    <3>3. upd \in Seq(Seq(Nat)) /\ Len(upd) = Len(files)
      BY <1>2, <2>2, <3>2, ExceptSeq DEF FileTypes
    <3> QED
      BY <1>3, <2>2, <3>3
  <2> QED
    BY <2>1, <2>2
<1>6. files' \in Seq(Seq(Nat)) /\ Len(files') >= Len(files) /\ f \in 1 .. Len(files') /\ Len(files') \in Nat
  BY <1>1, <1>2, <1>5
<1>7. dir' \in [0 .. MaxSec -> Nat] /\ \A n \in 0 .. MaxSec : dir'[n] <= Len(files')
  <2>1. dir' \in [0 .. MaxSec -> Nat] /\ \A n \in 0 .. MaxSec : dir'[n] = f \/ dir'[n] = d[n]
    BY <1>1, <1>2, <1>3
  <2>2. f <= Len(files')
    BY <1>6
  <2>3. ASSUME NEW n \in 0 .. MaxSec PROVE dir'[n] <= Len(files')
    <3>1. d[n] \in Nat /\ d[n] <= Len(files)
      OBVIOUS
    <3>2. dir'[n] = f \/ dir'[n] = d[n]
      BY <2>1
    <3> QED
      BY <1>1, <1>6, <2>2, <3>1, <3>2
  <2> QED
    BY <2>1, <2>3
<1>8. fileSize' \in Nat
  <2>1. files'[f] \in Seq(Nat)
    BY <1>6
  <2>2. Len(files'[f]) \in Nat
    BY <2>1
  <2> QED
    BY <1>3, <2>2
<1>9. e \in Handles
  BY <1>2 DEF Handles
<1>10. e.file = f /\ e.open
  OBVIOUS
<1> HIDE DEF e
<1>11. /\ handles' \in Seq(Handles) /\ Len(handles') = Len(handles) + 1 /\ Len(handles) \in Nat
       /\ \A h \in 1 .. Len(handles) : handles'[h] = handles[h]
       /\ handles'[Len(handles) + 1] = e
  BY <1>3, <1>9, AppendProperties DEF FileTypes
<1>12. ASSUME NEW h \in 1 .. Len(handles') PROVE handles'[h].file \in 1 .. Len(files')
  <2>1. CASE h \in 1 .. Len(handles)
    <3>1. handles[h].file \in 1 .. Len(files) /\ handles'[h] = handles[h]
      BY <1>11, <2>1 DEF FileTypes
    <3> QED
      BY <1>1, <1>6, <3>1
  <2>2. CASE h = Len(handles) + 1
    BY <1>6, <1>10, <1>11, <2>2
  <2> QED
    BY <1>11, <2>1, <2>2
<1> QED
  BY <1>6, <1>7, <1>8, <1>10, <1>11, <1>12 DEF FileTypes

\* fclose closes its handle and no other.
LEMMA FcloseEffect ==
  ASSUME FileTypes, NEW h \in 1 .. Len(handles), Fclose(h), UNCHANGED <<files, dir>>, fileSize' \in Nat
  PROVE  /\ FileTypes' /\ Len(handles') = Len(handles)
         /\ \A g \in 1 .. Len(handles) : g = h => ~handles'[g].open
         /\ \A g \in 1 .. Len(handles) : g # h => handles'[g] = handles[g]
         /\ misused' = (misused \/ ~handles[h].open)
<1> DEFINE e == [handles[h] EXCEPT !.open = FALSE]
<1>1. handles[h] \in Handles
  BY DEF FileTypes
<1>2. e \in Handles /\ e.file = handles[h].file /\ ~e.open
  BY <1>1 DEF Handles
<1>3. handles' = [handles EXCEPT ![h] = e]
  BY DEF Fclose
<1> HIDE DEF e
<1>4. /\ handles' \in Seq(Handles) /\ Len(handles') = Len(handles)
      /\ \A g \in 1 .. Len(handles) : handles'[g] = IF g = h THEN e ELSE handles[g]
  BY <1>2, <1>3, ExceptSeq DEF FileTypes
<1> QED
  BY <1>2, <1>4 DEF FileTypes, Fclose

LEMMA InitTypes == Init => Types
<1> SUFFICES ASSUME Init PROVE Types
  OBVIOUS
<1>1. settings \in Settings /\ settings.existing \in Nat
  BY AppenderAssumption DEF Init
<1>2. Held(settings.existing) \in Seq(Nat)
  BY <1>1 DEF Held
<1>3. <<>> \in Seq(Handles) /\ Len(<<>>) = 0 /\ <<>> \in Seq(Nat)
  BY EmptySeq
<1>4. files \in Seq(Seq(Nat)) /\ Len(files) = 1
  BY <1>2 DEF Init
<1>5. MaxSec \in Nat
  BY AppenderAssumption
<1>6. FileTypes
  BY <1>3, <1>4, <1>5 DEF Init, FileTypes
<1>7. sec \in 1 .. MaxSec
  BY AppenderAssumption DEF Init
<1>8. built \in BOOLEAN
  BY Zenon DEF Init
<1>9. /\ pc \in [Threads -> PcStates] /\ local \in [Threads -> 0 .. Len(handles)] /\ logfile \in 0 .. Len(handles)
      /\ size \in [Threads -> Sizes \cup {0}]
  BY <1>3 DEF Init, PcStates
<1> QED
  BY <1>1, <1>3, <1>6, <1>7, <1>8, <1>9 DEF Init, Types, StateTypes

LEMMA TypesStep == Types /\ [Next]_vars => Types'
<1> SUFFICES ASSUME Types, [Next]_vars PROVE Types'
  OBVIOUS
<1> USE DEF Types
<1>1. CASE Tick
  <2>1. sec' \in 1 .. MaxSec
    BY <1>1, AppenderAssumption DEF Tick, StateTypes
  <2> QED
    BY <1>1, <2>1 DEF Tick, fsVars, StateTypes, FileTypes
<1>2. CASE Construct
  <2>1. sec \in 0 .. MaxSec
    BY DEF StateTypes
  <2>2. CASE settings.dynamicName
    BY <1>2, <2>2 DEF Construct, fsVars, StateTypes, FileTypes
  <2>3. CASE ~settings.dynamicName
    <3> DEFINE d == IF OpensAtOnce THEN RenameTo(dir, sec) ELSE dir
    <3>1. d \in [0 .. MaxSec -> Nat] /\ \A n \in 0 .. MaxSec : d[n] <= Len(files)
      BY <2>1, RenameType DEF FileTypes
    <3> HIDE DEF d
    <3>2. Fopen(d, settings.mode)
      BY <1>2, <2>3 DEF Construct, d
    <3>3. FileTypes' /\ Len(handles') = Len(handles) + 1
      BY <3>1, <3>2, FopenEffect
    <3>4. Len(handles) \in Nat
      BY DEF FileTypes
    <3>5. logfile' = 1 /\ built' = TRUE /\ UNCHANGED <<settings, sec, pc, size, local, logged>>
      BY <1>2, <2>3 DEF Construct
    <3>6. logfile' \in 0 .. Len(handles') /\ local' \in [Threads -> 0 .. Len(handles')]
      BY <3>3, <3>4, <3>5 DEF StateTypes
    <3> QED
      BY <3>3, <3>5, <3>6 DEF StateTypes
  <2> QED
    BY <2>2, <2>3
<1>3. ASSUME NEW t \in Threads, NEW n \in Sizes, Begin(t, n) PROVE Types'
  <2>1. pc' \in [Threads -> PcStates]
    BY <1>3 DEF Begin, Go, StateTypes, PcStates
  <2>2. size' \in [Threads -> Sizes \cup {0}]
    BY <1>3 DEF Begin, StateTypes
  <2> QED
    BY <1>3, <2>1, <2>2 DEF Begin, cfgVars, fsVars, StateTypes, FileTypes
<1>4. ASSUME NEW t \in Threads, Close(t) PROVE Types'
  <2>1. pc' \in [Threads -> PcStates]
    BY <1>4 DEF Close, Go, StateTypes, PcStates
  <2>2. UNCHANGED <<cfgVars, logfile, fileSize, dir, files, size, local, logged>>
    BY <1>4 DEF Close
  <2>3. FileTypes' /\ Len(handles') = Len(handles)
    <3>1. CASE logfile = 0
      BY <1>4, <2>2, <3>1 DEF Close, FileTypes
    <3>2. CASE logfile # 0
      <4>1. logfile \in 1 .. Len(handles) /\ Fclose(logfile) /\ fileSize' \in Nat
        BY <1>4, <2>2, <3>2 DEF Close, StateTypes, FileTypes
      <4> QED
        BY <2>2, <4>1, FcloseEffect
    <3> QED
      BY <3>1, <3>2
  <2> QED
    BY <2>1, <2>2, <2>3 DEF cfgVars, StateTypes
<1>5. ASSUME NEW t \in Threads, Null(t) PROVE Types'
  <2>1. pc' \in [Threads -> PcStates]
    BY <1>5 DEF Null, Go, StateTypes, PcStates
  <2>2. logfile' \in 0 .. Len(handles')
    BY <1>5 DEF Null, fsVars, FileTypes
  <2> QED
    BY <1>5, <2>1, <2>2 DEF Null, cfgVars, fsVars, StateTypes, FileTypes
<1>6. ASSUME NEW t \in Threads, Rename(t) PROVE Types'
  <2>1. pc' \in [Threads -> PcStates]
    BY <1>6 DEF Rename, Go, StateTypes, PcStates
  <2>2. sec \in 0 .. MaxSec
    BY DEF StateTypes
  <2>3. dir' \in [0 .. MaxSec -> Nat] /\ \A n \in 0 .. MaxSec : dir'[n] <= Len(files)
    BY <1>6, <2>2, RenameType DEF Rename
  <2> QED
    BY <1>6, <2>1, <2>3 DEF Rename, cfgVars, StateTypes, FileTypes
<1>7. ASSUME NEW t \in Threads, Open(t) PROVE Types'
  <2>1. pc' \in [Threads -> PcStates]
    BY <1>7 DEF Open, Go, StateTypes, PcStates
  <2>2. FileTypes' /\ Len(handles') = Len(handles) + 1 /\ Len(handles) \in Nat
    <3> DEFINE mode == IF settings.dynamicName THEN "a" ELSE "w"
    <3>1. Fopen(dir, mode)
      BY <1>7 DEF Open
    <3> HIDE DEF mode
    <3>2. dir \in [0 .. MaxSec -> Nat] /\ \A n \in 0 .. MaxSec : dir[n] <= Len(files)
      BY DEF FileTypes
    <3>3. Len(handles) \in Nat
      BY DEF FileTypes
    <3> QED
      BY <3>1, <3>2, <3>3, FopenEffect
  <2>3. local' \in [Threads -> 0 .. Len(handles')] /\ logfile' \in 0 .. Len(handles')
    BY <1>7, <2>2 DEF Open, StateTypes
  <2> QED
    BY <1>7, <2>1, <2>2, <2>3 DEF Open, cfgVars, StateTypes
<1>8. ASSUME NEW t \in Threads, OpenFails(t) PROVE Types'
  <2>1. pc' \in [Threads -> PcStates]
    BY <1>8 DEF OpenFails, Go, StateTypes, PcStates
  <2>2. local' \in [Threads -> 0 .. Len(handles')]
    BY <1>8 DEF OpenFails, fsVars, StateTypes, FileTypes
  <2> QED
    BY <1>8, <2>1, <2>2 DEF OpenFails, cfgVars, fsVars, StateTypes, FileTypes
<1>9. ASSUME NEW t \in Threads, Assign(t) \/ Test(t) PROVE Types'
  <2>1. pc' \in [Threads -> PcStates]
    BY <1>9 DEF Assign, Test, Go, StateTypes, PcStates
  <2> QED
    BY <1>9, <2>1 DEF Assign, Test, cfgVars, fsVars, StateTypes, FileTypes
<1>10. ASSUME NEW t \in Threads, WriteText(t) PROVE Types'
  <2> DEFINE h == IF settings.dynamicName THEN local[t] ELSE logfile
             text == Text(size[t])
  <2>1. h \in 0 .. Len(handles) /\ text \in Seq(Nat) /\ size[t] \in Nat
    BY TextIs DEF StateTypes
  <2>2. /\ Go(t, "print", "count") /\ logged' = logged \o text
        /\ IF h = 0 THEN misused' = TRUE /\ UNCHANGED files ELSE Fprintf(h, text)
        /\ UNCHANGED <<cfgVars, logfile, fileSize, dir, handles, size, local>>
    BY <1>10 DEF WriteText
  <2> HIDE DEF h, text
  <2>3. pc' \in [Threads -> PcStates]
    BY <2>2 DEF Go, StateTypes, PcStates
  <2>4. logged' \in Seq(Nat)
    BY <2>1, <2>2, ConcatProperties DEF StateTypes
  <2>5. files' \in Seq(Seq(Nat)) /\ Len(files') = Len(files)
    <3>1. CASE UNCHANGED files
      BY <3>1 DEF FileTypes
    <3>2. CASE h # 0 /\ files' = [files EXCEPT ![handles[h].file] = @ \o text]
      <4>1. handles[h].file \in 1 .. Len(files)
        BY <2>1, <3>2 DEF FileTypes
      <4> QED
        BY <2>1, <3>2, <4>1, Extended
    <3> QED
      BY <2>2, <3>1, <3>2 DEF Fprintf
  <2> QED
    BY <2>2, <2>3, <2>4, <2>5 DEF cfgVars, StateTypes, FileTypes
<1>11. ASSUME NEW t \in Threads, Count(t) PROVE Types'
  <2>1. pc' \in [Threads -> PcStates]
    BY <1>11 DEF Count, Go, StateTypes, PcStates
  <2>2. UNCHANGED <<cfgVars, logfile, dir, files, size, local, logged>> /\ fileSize' \in Nat
    BY <1>11, TextIs DEF Count, FileTypes
  <2>3. FileTypes' /\ Len(handles') = Len(handles)
    <3>1. CASE UNCHANGED handles
      BY <2>2, <3>1 DEF FileTypes
    <3>2. CASE Fclose(local[t]) /\ local[t] \in 1 .. Len(handles)
      BY <2>2, <3>2, FcloseEffect
    <3>3. CASE Fclose(local[t]) /\ local[t] = 0
      <4>1. handles \in [1 .. Len(handles) -> Handles] /\ Len(handles) \in Nat
        BY DEF FileTypes
      <4>2. handles' = handles
        BY <3>3, <4>1 DEF Fclose
      <4> QED
        BY <2>2, <4>2 DEF FileTypes
    <3> QED
      BY <1>11, <3>1, <3>2, <3>3 DEF Count, StateTypes
  <2> QED
    BY <2>1, <2>2, <2>3 DEF cfgVars, StateTypes
<1>12. CASE ConstructFails
  <2>1. sec \in 0 .. MaxSec
    BY DEF StateTypes
  <2>2. dir' \in [0 .. MaxSec -> Nat] /\ \A n \in 0 .. MaxSec : dir'[n] <= Len(files)
    BY <1>12, <2>1, RenameType DEF ConstructFails, FileTypes
  <2> QED
    BY <1>12, <2>2 DEF ConstructFails, StateTypes, FileTypes
<1>13. CASE UNCHANGED vars
  BY <1>13 DEF vars, cfgVars, fsVars, StateTypes, FileTypes
<1> QED
  BY <1>1, <1>2, <1>3, <1>4, <1>5, <1>6, <1>7, <1>8, <1>9, <1>10, <1>11, <1>12, <1>13 DEF Next, Write

LEMMA TypesInvariant == Spec => []Types
<1> QED
  BY InitTypes, TypesStep, PTL DEF Spec

\* Directory, files and handles fit together, for any settings, threads and failures.
THEOREM TypeCorrect == Spec => []TypeOK
<1> QED
  BY TypesImply, TypesInvariant, PTL

(***************************************************************************)
(* No FILE* is used after it was closed, where one thread logs to the      *)
(* appender, or its file has a fixed name and no size limit.               *)
(***************************************************************************)
Rotates(s) == s.dynamicName \/ s.maxFileSize > 0

Orderly == \A s \in Settings : Rotates(s) => \A t, u \in s.writers : t = u

\* Where a thread can be in _write, and what is open there.
ThreadInv(t) ==
  /\ pc[t] # "idle" => built /\ t \in settings.writers
  /\ pc[t] \notin {"idle", "test", "print", "count"} => Rotates(settings)
  /\ pc[t] \in {"rename", "open", "assign"} => logfile = 0
  /\ settings.dynamicName => pc[t] \notin {"null", "test"}
  /\ pc[t] = "null" => logfile # 0
  /\ pc[t] = "assign" /\ local[t] # 0 => handles[local[t]].open
  /\ settings.dynamicName /\ pc[t] \in {"print", "count"} => local[t] # 0 /\ handles[local[t]].open
  /\ ~settings.dynamicName /\ pc[t] = "print" => logfile # 0

UseInv ==
  /\ ~misused
  /\ ~built \/ settings.dynamicName => logfile = 0
  /\ logfile # 0 => handles[logfile].open \/ \E t \in Threads : pc[t] = "null"
  /\ \A t \in Threads : ThreadInv(t)

\* A thread that rotates is the only one in _write.
LEMMA Alone ==
  ASSUME Orderly, Types, UseInv, NEW t \in Threads, pc[t] # "idle", Rotates(settings)
  PROVE  \A u \in Threads \ {t} : pc[u] = "idle"
<1>1. settings \in Settings /\ t \in settings.writers
  BY DEF Types, StateTypes, UseInv, ThreadInv
<1>2. \A u \in Threads : pc[u] # "idle" => u \in settings.writers
  BY DEF UseInv, ThreadInv
<1> QED
  BY <1>1, <1>2 DEF Orderly

\* What holds of a thread that is idle, and of one a step leaves alone.
LEMMA IdleInv ==
  ASSUME NEW t \in Threads, pc[t] = "idle"
  PROVE  ThreadInv(t)
  BY DEF ThreadInv

LEMMA UseInit == Init => UseInv
  BY DEF Init, UseInv, ThreadInv

\* Before the constructor has run there is no FILE*: the one it opens is the first.
NoFile == ~built => handles = <<>>

LEMMA NoFileStep == NoFile /\ UseInv /\ [Next]_vars => NoFile'
<1> SUFFICES ASSUME NoFile, UseInv, [Next]_vars PROVE NoFile'
  OBVIOUS
<1>1. CASE Tick \/ Construct \/ ConstructFails \/ UNCHANGED vars
  BY <1>1 DEF Tick, Construct, ConstructFails, vars, cfgVars, fsVars, NoFile
<1>2. ASSUME NEW t \in Threads, NEW n \in Sizes, Begin(t, n) PROVE NoFile'
  BY <1>2 DEF Begin, cfgVars, NoFile
<1>3. ASSUME NEW t \in Threads, Write(t), ~\E n \in Sizes : Begin(t, n) PROVE NoFile'
  <2>1. pc[t] # "idle"
    BY <1>3 DEF Write, Go, Close, Null, Rename, Open, OpenFails, Assign, Test, WriteText, Count
  <2>2. built
    BY <2>1 DEF UseInv, ThreadInv
  <2>3. built' = built
    BY <1>3 DEF Write, Close, Null, Rename, Open, OpenFails, Assign, Test, WriteText, Count, cfgVars
  <2> QED
    BY <2>2, <2>3 DEF NoFile
<1> QED
  BY <1>1, <1>2, <1>3 DEF Next

LEMMA UseStep == Orderly /\ Types /\ NoFile /\ UseInv /\ [Next]_vars => UseInv'
<1> SUFFICES ASSUME Orderly, Types, NoFile, UseInv, [Next]_vars PROVE UseInv'
  OBVIOUS
<1>0. /\ pc \in [Threads -> PcStates] /\ local \in [Threads -> 0 .. Len(handles)]
      /\ logfile \in 0 .. Len(handles) /\ handles \in Seq(Handles) /\ Len(handles) \in Nat
  BY DEF Types, FileTypes, StateTypes
<1>1. CASE Tick
  BY <1>1 DEF Tick, fsVars, UseInv, ThreadInv
<1>2. CASE Construct
  <2>1. \A t \in Threads : pc'[t] = "idle"
    BY <1>2 DEF Construct, UseInv, ThreadInv
  <2>2. \A t \in Threads : ThreadInv(t)'
    BY <2>1 DEF ThreadInv
  <2>3. ~misused'
    BY <1>2 DEF Construct, UseInv
  <2>4. CASE settings.dynamicName
    BY <1>2, <2>2, <2>3, <2>4 DEF Construct, fsVars, UseInv
  <2>5. CASE ~settings.dynamicName
    <3>1. handles' # <<>> /\ handles'[1].open
      <4> DEFINE d == IF OpensAtOnce THEN RenameTo(dir, sec) ELSE dir
      <4>1. Fopen(d, settings.mode) /\ ~built
        BY <1>2, <2>5 DEF Construct
      <4>2. \E e : handles' = Append(handles, [file |-> e, open |-> TRUE])
        BY <4>1 DEF Fopen
      <4>3. handles = <<>>
        BY <4>1 DEF NoFile
      <4> QED
        BY <4>2, <4>3
    <3> QED
      BY <1>2, <2>2, <2>3, <2>5, <3>1 DEF Construct, UseInv
  <2> QED
    BY <2>4, <2>5
<1>3. ASSUME NEW t \in Threads, NEW n \in Sizes, Begin(t, n) PROVE UseInv'
  <2>1. UNCHANGED <<settings, built, logfile, handles, local, misused>>
    BY <1>3 DEF Begin, cfgVars, fsVars
  <2>2. /\ t \in settings.writers /\ built /\ pc[t] = "idle"
        /\ pc' = [pc EXCEPT ![t] = IF Exceeds(n) \/ (settings.dynamicName /\ settings.backup) THEN "close"
                                   ELSE IF settings.dynamicName THEN "open" ELSE "test"]
    BY <1>3 DEF Begin, Go
  <2>3. ThreadInv(t)'
    BY <1>0, <2>1, <2>2 DEF ThreadInv, UseInv, Rotates, Exceeds
  <2>4. \A u \in Threads \ {t} : ThreadInv(u)'
    BY <1>0, <2>1, <2>2 DEF ThreadInv, UseInv
  <2>5. \A u \in Threads : pc'[u] = "null" <=> pc[u] = "null"
    BY <1>0, <2>2
  <2> QED
    BY <2>1, <2>3, <2>4, <2>5 DEF UseInv
<1>4. ASSUME NEW t \in Threads, pc[t] \in {"close", "null", "rename", "open", "assign"}
             \/ (settings.dynamicName /\ pc[t] # "idle")
      PROVE  Rotates(settings) /\ \A u \in Threads \ {t} : pc[u] = "idle"
  <2>1. pc[t] # "idle" /\ Rotates(settings)
    BY <1>4 DEF UseInv, ThreadInv, Rotates
  <2> QED
    BY <2>1, Alone
<1>5. ASSUME NEW t \in Threads, Close(t) PROVE UseInv'
  <2>1. /\ pc[t] = "close" /\ pc' = [pc EXCEPT ![t] = IF logfile = 0 THEN "rename" ELSE "null"]
        /\ UNCHANGED <<settings, built, logfile, local>>
    BY <1>5 DEF Close, Go, cfgVars
  <2>2. \A u \in Threads \ {t} : pc[u] = "idle" /\ pc'[u] = "idle"
    BY <1>0, <1>4, <2>1
  <2>3. ~misused'
    <3>1. CASE logfile = 0
      BY <1>5, <3>1 DEF Close, UseInv
    <3>2. CASE logfile # 0
      <4>1. \A u \in Threads : pc[u] # "null"
        BY <2>1, <2>2
      <4>2. handles[logfile].open
        BY <3>2, <4>1 DEF UseInv
      <4> QED
        BY <1>5, <3>2, <4>2 DEF Close, Fclose, UseInv
    <3> QED
      BY <3>1, <3>2
  <2>4. ThreadInv(t)'
    BY <1>0, <1>4, <2>1 DEF ThreadInv, UseInv
  <2>5. \A u \in Threads \ {t} : ThreadInv(u)'
    BY <2>2 DEF ThreadInv
  <2>6. logfile # 0 => pc'[t] = "null"
    BY <1>0, <2>1
  <2> QED
    BY <2>1, <2>3, <2>4, <2>5, <2>6 DEF UseInv
<1>6. ASSUME NEW t \in Threads, Null(t) PROVE UseInv'
  <2>1. /\ pc[t] = "null" /\ pc' = [pc EXCEPT ![t] = "rename"] /\ logfile' = 0
        /\ UNCHANGED <<settings, built, local, handles, misused>>
    BY <1>6 DEF Null, Go, cfgVars, fsVars
  <2>2. \A u \in Threads \ {t} : pc'[u] = "idle"
    BY <1>0, <1>4, <2>1
  <2>3. ThreadInv(t)'
    BY <1>0, <2>1 DEF ThreadInv, UseInv, Rotates
  <2> QED
    BY <2>1, <2>2, <2>3 DEF UseInv, ThreadInv
<1>7. ASSUME NEW t \in Threads, Rename(t) PROVE UseInv'
  <2>1. /\ pc[t] = "rename" /\ pc' = [pc EXCEPT ![t] = "open"]
        /\ UNCHANGED <<settings, built, logfile, local, handles, misused>>
    BY <1>7 DEF Rename, Go, cfgVars
  <2>2. \A u \in Threads \ {t} : pc'[u] = "idle"
    BY <1>0, <1>4, <2>1
  <2>3. ThreadInv(t)'
    BY <1>0, <2>1 DEF ThreadInv, UseInv, Rotates
  <2>4. logfile' = 0
    BY <2>1 DEF UseInv, ThreadInv
  <2> QED
    BY <2>1, <2>2, <2>3, <2>4 DEF UseInv, ThreadInv
<1>8. ASSUME NEW t \in Threads, Open(t) \/ OpenFails(t) PROVE UseInv'
  <2>1. /\ pc[t] = "open" /\ pc' = [pc EXCEPT ![t] = "assign"]
        /\ UNCHANGED <<settings, built, logfile, misused>>
    BY <1>8 DEF Open, OpenFails, Go, cfgVars
  <2>2. \A u \in Threads \ {t} : pc'[u] = "idle"
    BY <1>0, <1>4, <2>1
  <2>3. local'[t] # 0 => handles'[local'[t]].open
    <3>1. CASE Open(t)
      <4>1. handles'[Len(handles')].open
        <5> DEFINE mode == IF settings.dynamicName THEN "a" ELSE "w"
        <5>1. Fopen(dir, mode)
          BY <3>1 DEF Open
        <5> HIDE DEF mode
        <5>2. FileTypes /\ dir \in [0 .. MaxSec -> Nat] /\ \A n \in 0 .. MaxSec : dir[n] <= Len(files)
          BY DEF Types, FileTypes
        <5> QED
          BY <5>1, <5>2, FopenEffect
      <4>2. local'[t] = Len(handles')
        BY <1>0, <3>1 DEF Open
      <4> QED
        BY <4>1, <4>2
    <3>2. CASE OpenFails(t)
      BY <1>0, <3>2 DEF OpenFails
    <3> QED
      BY <1>8, <3>1, <3>2
  <2>4. ThreadInv(t)'
    BY <1>0, <1>4, <2>1, <2>3 DEF ThreadInv, UseInv
  <2>5. logfile' = 0
    BY <2>1 DEF UseInv, ThreadInv
  <2> QED
    BY <2>1, <2>2, <2>4, <2>5 DEF UseInv, ThreadInv
<1>9. ASSUME NEW t \in Threads, Assign(t) PROVE UseInv'
  <2>1. /\ pc[t] = "assign"
        /\ pc' = [pc EXCEPT ![t] = IF ~settings.dynamicName THEN "test"
                                   ELSE IF local[t] = 0 THEN "idle" ELSE "print"]
        /\ logfile' = IF settings.dynamicName THEN logfile ELSE local[t]
        /\ UNCHANGED <<settings, built, local, handles, misused>>
    BY <1>9 DEF Assign, Go, cfgVars, fsVars
  <2>2. \A u \in Threads \ {t} : pc'[u] = "idle"
    BY <1>0, <1>4, <2>1
  <2>3. built /\ t \in settings.writers /\ (local[t] # 0 => handles[local[t]].open) /\ logfile = 0
    BY <2>1 DEF UseInv, ThreadInv
  <2>4. ThreadInv(t)'
    BY <1>0, <2>1, <2>3 DEF ThreadInv
  <2> QED
    BY <2>1, <2>2, <2>3, <2>4 DEF UseInv, ThreadInv
<1>10. ASSUME NEW t \in Threads, Test(t) PROVE UseInv'
  <2>1. /\ pc[t] = "test" /\ pc' = [pc EXCEPT ![t] = IF logfile = 0 THEN "idle" ELSE "print"]
        /\ UNCHANGED <<settings, built, logfile, local, handles, misused>>
    BY <1>10 DEF Test, Go, cfgVars, fsVars
  <2>2. ThreadInv(t)'
    BY <1>0, <2>1 DEF ThreadInv, UseInv
  <2>3. \A u \in Threads \ {t} : ThreadInv(u)'
    BY <1>0, <2>1 DEF ThreadInv, UseInv
  <2>4. \A u \in Threads : pc'[u] = "null" <=> pc[u] = "null"
    BY <1>0, <2>1
  <2> QED
    BY <2>1, <2>2, <2>3, <2>4 DEF UseInv
<1>11. ASSUME NEW t \in Threads, WriteText(t) PROVE UseInv'
  <2>1. /\ pc[t] = "print" /\ pc' = [pc EXCEPT ![t] = "count"]
        /\ UNCHANGED <<settings, built, logfile, local, handles>>
    BY <1>11 DEF WriteText, Go, cfgVars
  <2>2. ThreadInv(t)'
    BY <1>0, <2>1 DEF ThreadInv, UseInv
  <2>3. \A u \in Threads \ {t} : ThreadInv(u)'
    BY <1>0, <2>1 DEF ThreadInv, UseInv
  <2>4. \A u \in Threads : pc'[u] = "null" <=> pc[u] = "null"
    BY <1>0, <2>1
  <2>5. ~misused'
    <3>1. CASE settings.dynamicName
      <4>1. local[t] # 0 /\ handles[local[t]].open
        BY <2>1, <3>1 DEF UseInv, ThreadInv
      <4> QED
        BY <1>11, <3>1, <4>1 DEF WriteText, Fprintf, UseInv
    <3>2. CASE ~settings.dynamicName
      <4>1. logfile # 0
        BY <2>1, <3>2 DEF UseInv, ThreadInv
      <4>2. \A u \in Threads : pc[u] # "null"
        BY <1>4, <2>1
      <4>3. handles[logfile].open
        BY <4>1, <4>2 DEF UseInv
      <4> QED
        BY <1>11, <3>2, <4>1, <4>3 DEF WriteText, Fprintf, UseInv
    <3> QED
      BY <3>1, <3>2
  <2> QED
    BY <2>1, <2>2, <2>3, <2>4, <2>5 DEF UseInv
<1>12. ASSUME NEW t \in Threads, Count(t) PROVE UseInv'
  <2>1. /\ pc[t] = "count" /\ pc' = [pc EXCEPT ![t] = "idle"]
        /\ UNCHANGED <<settings, built, logfile, local>>
    BY <1>12 DEF Count, Go, cfgVars
  <2>2. ThreadInv(t)'
    BY <1>0, <2>1 DEF ThreadInv
  <2>3. \A u \in Threads : pc'[u] = "null" <=> pc[u] = "null"
    BY <1>0, <2>1
  <2>4. CASE settings.dynamicName
    <3>1. local[t] # 0 /\ handles[local[t]].open /\ logfile = 0
      BY <2>1, <2>4 DEF UseInv, ThreadInv
    <3>2. ~misused'
      BY <1>12, <2>4, <3>1 DEF Count, Fclose, UseInv
    <3>3. \A u \in Threads \ {t} : pc'[u] = "idle"
      BY <1>0, <1>4, <2>1, <2>4
    <3> QED
      BY <2>1, <2>2, <3>1, <3>2, <3>3 DEF UseInv, ThreadInv
  <2>5. CASE ~settings.dynamicName
    <3>1. UNCHANGED <<handles, misused>>
      BY <1>12, <2>5 DEF Count
    <3>2. \A u \in Threads \ {t} : ThreadInv(u)'
      BY <1>0, <2>1, <3>1 DEF ThreadInv, UseInv
    <3> QED
      BY <2>1, <2>2, <2>3, <3>1, <3>2 DEF UseInv
  <2> QED
    BY <2>4, <2>5
<1>13. CASE ConstructFails
  BY <1>13 DEF ConstructFails, UseInv, ThreadInv
<1>14. CASE UNCHANGED vars
  BY <1>14 DEF vars, cfgVars, fsVars, UseInv, ThreadInv
<1> QED
  BY <1>1, <1>2, <1>3, <1>5, <1>6, <1>7, <1>8, <1>9, <1>10, <1>11, <1>12, <1>13, <1>14 DEF Next, Write

\* Without a size limit and a dynamic name any number of threads may log; with them one
\* thread may: then no FILE* is printed to or closed after fclose, though fopen may fail.
THEOREM ClosedIsUnused ==
  ASSUME Orderly
  PROVE  Spec => []NoUseAfterClose
<1>1. Types /\ NoFile /\ UseInv /\ [Next]_vars => UseInv'
  BY UseStep
<1>2. UseInv => NoUseAfterClose
  BY DEF UseInv, NoUseAfterClose
<1>3. Init => NoFile
  BY DEF Init, NoFile
<1> QED
  BY <1>1, <1>2, <1>3, UseInit, NoFileStep, TypesInvariant, PTL DEF Spec

(***************************************************************************)
(* A file with a size limit keeps to it, but for a message that is longer, *)
(* where one thread logs to it and ftell says where a file opened for      *)
(* appending ends.                                                         *)
(***************************************************************************)
Size == Len(Content(Current))

\* The size is what fileSize says of the file that is open, but between a write and its
\* count; and a thread that is to write has found room for its message, or an empty file.
SizeInv ==
  /\ ~built => Content(Current) = Held(settings.existing)
  /\ Size <= settings.maxFileSize \/ Whole
  /\ logfile # 0 /\ handles[logfile].open =>
       /\ dir[Current] = handles[logfile].file
       /\ (\A t \in Threads : pc[t] # "count") => fileSize = Size
  /\ \A t \in Threads :
       /\ pc[t] \in {"test", "print"} /\ logfile # 0 =>
            fileSize + size[t] <= settings.maxFileSize \/ fileSize = 0
       /\ pc[t] = "open" => dir[Current] = 0
       /\ pc[t] = "assign" /\ local[t] # 0 =>
            dir[Current] = handles[local[t]].file /\ Size = 0 /\ fileSize = 0
       /\ pc[t] = "count" => Size = fileSize + size[t]

SizeFits == Limited => SizeInv

LEMMA SizeType ==
  ASSUME FileTypes
  PROVE  Content(Current) \in Seq(Nat) /\ Size \in Nat
<1>1. Current \in 0 .. MaxSec /\ dir[Current] \in Nat /\ dir[Current] <= Len(files)
  BY AppenderAssumption DEF Current, FileTypes
<1>2. Content(Current) \in Seq(Nat)
  <2>1. CASE dir[Current] = 0
    BY <2>1, EmptySeq DEF Content
  <2>2. CASE dir[Current] # 0
    BY <1>1, <2>2 DEF Content, FileTypes
  <2> QED
    BY <2>1, <2>2
<1> QED
  BY <1>2 DEF Size

\* Nothing, and what was there before, is of one piece.
LEMMA WholeIf ==
  ASSUME NEW n \in Nat, Content(Current) = <<>> \/ Content(Current) = Held(n)
  PROVE  Whole
<1>1. CASE Content(Current) = <<>>
  BY <1>1 DEF Whole
<1>2. CASE Content(Current) = Held(n)
  BY <1>2 DEF Whole, Held
<1> QED
  BY <1>1, <1>2

LEMMA RenamedSize ==
  ASSUME FileTypes, sec \in 1 .. MaxSec
  PROVE  RenameTo(dir, sec)[Current] = 0
  BY AppenderAssumption DEF RenameTo, FileTypes, Current

\* A file just opened has the size fopen leaves it, and fileSize is that size.
LEMMA OpenedSize ==
  ASSUME "zero" \notin AppendTells, FileTypes, NEW d \in [0 .. MaxSec -> Nat],
         \A n \in 0 .. MaxSec : d[n] <= Len(files), NEW mode, Fopen(d, mode)
  PROVE  /\ dir'[Current] = handles'[Len(handles')].file
         /\ fileSize' = Size'
         /\ d[Current] = 0 \/ mode = "w" => Content(Current)' = <<>> /\ Size' = 0
         /\ d[Current] # 0 /\ mode # "w" => Content(Current)' = files[d[Current]]
<1> DEFINE new == d[Current] = 0
           f == IF new THEN Len(files) + 1 ELSE d[Current]
           e == [file |-> f, open |-> TRUE]
<1>1. /\ Current \in 0 .. MaxSec /\ d[Current] \in Nat /\ d[Current] <= Len(files)
      /\ Len(files) \in Nat /\ files \in Seq(Seq(Nat)) /\ handles \in Seq(Handles)
  <2>1. Current \in 0 .. MaxSec
    BY AppenderAssumption DEF Current
  <2> QED
    BY <2>1 DEF FileTypes
<1>2. f \in Nat /\ f # 0
  BY <1>1
<1>3. /\ dir' = [d EXCEPT ![Current] = f] /\ handles' = Append(handles, e)
      /\ files' = IF new THEN Append(files, <<>>)
                  ELSE [files EXCEPT ![f] = IF mode = "w" THEN <<>> ELSE @]
      /\ fileSize' = Len(files'[f])
  BY DEF Fopen
<1>4. e.file = f /\ handles'[Len(handles')] = e
  BY <1>1, <1>3
<1> HIDE DEF e
<1>5. dir'[Current] = f
  BY <1>1, <1>3
<1>6. Content(Current)' = files'[f] /\ Size' = Len(files'[f])
  BY <1>2, <1>5 DEF Size, Content, Current
<1>7. CASE new
  <2>1. files'[f] = <<>>
    BY <1>1, <1>3, <1>7
  <2> QED
    BY <1>3, <1>4, <1>5, <1>6, <1>7, <2>1, EmptySeq
<1>8. CASE ~new
  <2>1. f = d[Current] /\ f \in 1 .. Len(files)
    BY <1>1, <1>8
  <2>2. files'[f] = IF mode = "w" THEN <<>> ELSE files[f]
    BY <1>1, <1>3, <1>8, <2>1
  <2> QED
    BY <1>3, <1>4, <1>5, <1>6, <1>8, <2>1, <2>2, EmptySeq
<1> QED
  BY <1>7, <1>8

LEMMA SizeInit == Init => SizeFits
<1> SUFFICES ASSUME Init PROVE SizeInv
  BY DEF SizeFits
<1>1. settings.existing \in Nat
  BY AppenderAssumption DEF Init
<1>2. dir[Current] = 1
  BY AppenderAssumption DEF Init, Current
<1>3. Content(Current) = Held(settings.existing)
  BY <1>2 DEF Init, Content, Current
<1>4. Whole
  BY <1>1, <1>3, WholeIf
<1> QED
  BY <1>3, <1>4 DEF Init, SizeInv

LEMMA SizeStep ==
  ASSUME Orderly, "zero" \notin AppendTells
  PROVE  Types /\ NoFile /\ UseInv /\ SizeFits /\ [Next]_vars => SizeFits'
<1> SUFFICES ASSUME Types, NoFile, UseInv, SizeFits, [Next]_vars, Limited' PROVE SizeInv'
  BY DEF SizeFits
<1>0. /\ pc \in [Threads -> PcStates] /\ local \in [Threads -> 0 .. Len(handles)]
      /\ logfile \in 0 .. Len(handles) /\ handles \in Seq(Handles) /\ Len(handles) \in Nat
      /\ sec \in 1 .. MaxSec /\ fileSize \in Nat /\ Size \in Nat
      /\ settings.maxFileSize \in Nat /\ settings.existing \in Nat
      /\ size \in [Threads -> Sizes \cup {0}] /\ Sizes \subseteq Nat
  BY SizeType, AppenderAssumption, SMTT(30) DEF Types, FileTypes, StateTypes
<1>1. UNCHANGED settings
  BY DEF Next, Write, vars, cfgVars, Tick, Construct, ConstructFails, Begin, Close, Null, Rename,
     Open, OpenFails, Assign, Test, WriteText, Count
<1>2. Limited /\ SizeInv /\ Rotates(settings) /\ ~settings.dynamicName /\ settings.maxFileSize > 0
  BY <1>1 DEF Limited, SizeFits, Rotates
<1>3. ASSUME UNCHANGED <<dir, files>>
      PROVE  Content(Current)' = Content(Current) /\ Size' = Size /\ Whole' = Whole
  BY <1>3 DEF Size, Content, Whole
<1>4. ASSUME NEW t \in Threads, pc[t] # "idle" PROVE \A u \in Threads \ {t} : pc[u] = "idle"
  BY <1>2, <1>4, Alone
<1>5. CASE Tick \/ UNCHANGED vars
  <2>1. UNCHANGED <<settings, built, logfile, fileSize, dir, files, handles, pc, size, local>>
    BY <1>5 DEF Tick, vars, cfgVars, fsVars
  <2>2. Content(Current)' = Content(Current) /\ Size' = Size /\ Whole' = Whole
    BY <1>3, <2>1
  <2> QED
    BY <1>2, <2>1, <2>2 DEF SizeInv
<1>6. CASE Construct
  <2> DEFINE d == IF OpensAtOnce THEN RenameTo(dir, sec) ELSE dir
  <2>1. ~built /\ handles = <<>> /\ Content(Current) = Held(settings.existing)
    BY <1>2, <1>6 DEF Construct, NoFile, SizeInv
  <2>2. d \in [0 .. MaxSec -> Nat] /\ \A n \in 0 .. MaxSec : d[n] <= Len(files)
    BY <1>0, RenameType DEF Types, FileTypes
  <2>3. d[Current] = 0 \/ settings.mode = "w" \/ d = dir
    BY DEF OpensAtOnce
  <2> HIDE DEF d
  <2>4. Fopen(d, settings.mode) /\ logfile' = 1 /\ built' = TRUE /\ pc' = pc
    BY <1>2, <1>6 DEF Construct, d
  <2>5. /\ dir'[Current] = handles'[Len(handles')].file /\ fileSize' = Size'
        /\ d[Current] = 0 \/ settings.mode = "w" => Content(Current)' = <<>>
        /\ d[Current] # 0 /\ settings.mode # "w" => Content(Current)' = files[d[Current]]
    BY <2>2, <2>4, OpenedSize DEF Types
  <2>6. Len(handles') = 1
    <3>1. \E e : handles' = Append(handles, e)
      BY <2>4 DEF Fopen
    <3> QED
      BY <2>1, <3>1
  <2>7. Whole'
    <3>1. Content(Current)' = <<>> \/ Content(Current)' = Held(settings.existing)
      BY <2>1, <2>3, <2>5 DEF Content
    <3> QED
      BY <1>0, <3>1, SMTT(30) DEF Whole, Held
  <2>8. \A t \in Threads : pc'[t] = "idle"
    BY <2>1, <2>4 DEF UseInv, ThreadInv
  <2> QED
    BY <1>1, <2>4, <2>5, <2>6, <2>7, <2>8 DEF SizeInv
<1>7. CASE ConstructFails
  <2>1. ~built /\ built' = TRUE /\ logfile' = 0 /\ pc' = pc /\ UNCHANGED files
        /\ dir' = IF OpensAtOnce THEN RenameTo(dir, sec) ELSE dir
    BY <1>7 DEF ConstructFails, UseInv
  <2>2. Content(Current)' = <<>> \/ Content(Current)' = Content(Current)
    BY <1>0, <2>1, RenamedSize DEF Types, Content
  <2>3. \A t \in Threads : pc'[t] = "idle"
    BY <2>1 DEF UseInv, ThreadInv
  <2>4. Whole'
    <3>1. Content(Current)' = <<>> \/ Content(Current)' = Held(settings.existing)
      BY <1>2, <2>1, <2>2 DEF SizeInv
    <3> QED
      BY <1>0, <3>1, SMTT(30) DEF Whole, Held
  <2> QED
    BY <1>0, <1>1, <2>1, <2>2, <2>3, <2>4 DEF SizeInv
<1>8. ASSUME NEW t \in Threads, NEW n \in Sizes, Begin(t, n) PROVE SizeInv'
  <2>1. UNCHANGED <<built, logfile, fileSize, dir, files, handles, local>>
    BY <1>8 DEF Begin, cfgVars, fsVars
  <2>2. /\ pc[t] = "idle" /\ pc' = [pc EXCEPT ![t] = IF Exceeds(n) THEN "close" ELSE "test"]
        /\ size' = [size EXCEPT ![t] = n]
    BY <1>2, <1>8 DEF Begin, Go
  <2>3. ~Exceeds(n) => fileSize + n <= settings.maxFileSize
    BY <1>0, <1>2 DEF Exceeds
  <2>4. Content(Current)' = Content(Current) /\ Size' = Size /\ Whole' = Whole
    BY <1>3, <2>1
  <2>5. /\ pc'[t] = IF Exceeds(n) THEN "close" ELSE "test"
        /\ size'[t] = n
        /\ \A u \in Threads \ {t} : pc'[u] = pc[u] /\ size'[u] = size[u]
    BY <1>0, <2>2
  <2>6. \A u \in Threads : pc'[u] = "count" <=> pc[u] = "count"
    BY <2>2, <2>5
  <2> QED
    BY <1>1, <1>2, <2>1, <2>3, <2>4, <2>5, <2>6 DEF SizeInv
<1>9. ASSUME NEW t \in Threads, Close(t) \/ Null(t) PROVE SizeInv'
  <2>1. /\ pc[t] # "idle" /\ \A u \in Threads : pc'[u] = IF u = t THEN pc'[t] ELSE pc[u]
        /\ pc'[t] \in {"null", "rename"} /\ UNCHANGED <<built, fileSize, dir, files>>
    BY <1>0, <1>9 DEF Close, Null, Go, cfgVars, fsVars
  <2>2. \A u \in Threads : pc'[u] \in {"idle", "null", "rename"}
    BY <1>4, <2>1
  <2>3. logfile' = 0 \/ ~handles'[logfile'].open
    <3>1. CASE logfile = 0 \/ Null(t)
      BY <1>9, <3>1 DEF Close, Null
    <3>2. CASE Close(t) /\ logfile # 0
      <4>1. Fclose(logfile) /\ logfile' = logfile /\ UNCHANGED <<dir, files>> /\ fileSize' \in Nat
        BY <1>0, <3>2 DEF Close
      <4>2. logfile \in 1 .. Len(handles)
        BY <1>0, <3>2
      <4>3. ~handles'[logfile].open
        BY <4>1, <4>2, FcloseEffect DEF Types
      <4> QED
        BY <4>1, <4>3
    <3> QED
      BY <1>9, <3>1, <3>2
  <2>4. Content(Current)' = Content(Current) /\ Size' = Size /\ Whole' = Whole
    BY <1>3, <2>1
  <2> QED
    BY <1>1, <1>2, <2>1, <2>2, <2>3, <2>4 DEF SizeInv
<1>10. ASSUME NEW t \in Threads, Rename(t) PROVE SizeInv'
  <2>1. /\ pc[t] = "rename" /\ pc' = [pc EXCEPT ![t] = "open"] /\ dir' = RenameTo(dir, sec)
        /\ UNCHANGED <<built, logfile>>
    BY <1>10 DEF Rename, Go, cfgVars
  <2>2. \A u \in Threads : pc'[u] \in {"idle", "open"}
    BY <1>0, <1>4, <2>1
  <2>3. logfile' = 0 /\ built
    BY <2>1 DEF UseInv, ThreadInv
  <2>4. dir'[Current] = 0
    BY <1>0, <2>1, RenamedSize DEF Types
  <2>5. Size' = 0 /\ Whole'
    BY <2>4, EmptySeq DEF Size, Content, Whole
  <2> QED
    BY <1>0, <1>1, <2>1, <2>2, <2>3, <2>4, <2>5 DEF SizeInv
<1>11. ASSUME NEW t \in Threads, Open(t) PROVE SizeInv'
  <2>1. /\ pc[t] = "open" /\ pc' = [pc EXCEPT ![t] = "assign"] /\ Fopen(dir, "w")
        /\ local' = [local EXCEPT ![t] = Len(handles')] /\ UNCHANGED <<built, logfile>>
    BY <1>2, <1>11 DEF Open, Go, cfgVars
  <2>2. \A u \in Threads : pc'[u] = IF u = t THEN "assign" ELSE "idle"
    BY <1>0, <1>4, <2>1
  <2>3. logfile' = 0 /\ built
    BY <2>1 DEF UseInv, ThreadInv
  <2>4. dir \in [0 .. MaxSec -> Nat] /\ \A n \in 0 .. MaxSec : dir[n] <= Len(files)
    BY DEF Types, FileTypes
  <2>5. dir'[Current] = handles'[Len(handles')].file /\ fileSize' = Size' /\ Size' = 0
    BY <2>1, <2>4, OpenedSize DEF Types
  <2>6. local'[t] = Len(handles')
    BY <1>0, <2>1
  <2> QED
    BY <1>0, <1>1, <2>1, <2>2, <2>3, <2>5, <2>6 DEF SizeInv
<1>12. ASSUME NEW t \in Threads, OpenFails(t) PROVE SizeInv'
  <2>1. /\ pc[t] = "open" /\ pc' = [pc EXCEPT ![t] = "assign"] /\ local' = [local EXCEPT ![t] = 0]
        /\ UNCHANGED <<built, logfile, fileSize, dir, files, handles>>
    BY <1>12 DEF OpenFails, Go, cfgVars, fsVars
  <2>2. \A u \in Threads : pc'[u] = IF u = t THEN "assign" ELSE "idle"
    BY <1>0, <1>4, <2>1
  <2>3. logfile' = 0 /\ built /\ local'[t] = 0
    BY <1>0, <2>1 DEF UseInv, ThreadInv
  <2>4. Content(Current)' = Content(Current) /\ Size' = Size /\ Whole' = Whole
    BY <1>3, <2>1
  <2> QED
    BY <1>1, <1>2, <2>1, <2>2, <2>3, <2>4 DEF SizeInv
<1>13. ASSUME NEW t \in Threads, Assign(t) PROVE SizeInv'
  <2>1. /\ pc[t] = "assign" /\ pc' = [pc EXCEPT ![t] = "test"] /\ logfile' = local[t]
        /\ UNCHANGED <<built, fileSize, dir, files, handles, size, local>>
    BY <1>2, <1>13 DEF Assign, Go, cfgVars, fsVars
  <2>2. \A u \in Threads : pc'[u] = IF u = t THEN "test" ELSE "idle"
    BY <1>0, <1>4, <2>1
  <2>3. Size' = Size /\ Whole' = Whole /\ built
    BY <1>3, <2>1 DEF UseInv, ThreadInv
  <2>4. local[t] # 0 => dir[Current] = handles[local[t]].file /\ Size = 0 /\ fileSize = 0
    BY <1>2, <2>1 DEF SizeInv
  <2> QED
    BY <1>1, <1>2, <2>1, <2>2, <2>3, <2>4 DEF SizeInv
<1>14. ASSUME NEW t \in Threads, Test(t) PROVE SizeInv'
  <2>1. /\ pc[t] = "test" /\ pc' = [pc EXCEPT ![t] = IF logfile = 0 THEN "idle" ELSE "print"]
        /\ UNCHANGED <<built, logfile, fileSize, dir, files, handles, size, local>>
    BY <1>14 DEF Test, Go, cfgVars, fsVars
  <2>2. \A u \in Threads : pc'[u] = IF u = t /\ logfile # 0 THEN "print" ELSE "idle"
    BY <1>0, <1>4, <2>1
  <2>3. Size' = Size /\ Whole' = Whole /\ built
    BY <1>3, <2>1 DEF UseInv, ThreadInv
  <2>4. \A u \in Threads : pc[u] # "count"
    BY <1>4, <2>1
  <2>5. logfile # 0 => fileSize + size[t] <= settings.maxFileSize \/ fileSize = 0
    BY <1>2, <2>1 DEF SizeInv
  <2> QED
    BY <1>1, <1>2, <2>1, <2>2, <2>3, <2>4, <2>5 DEF SizeInv
<1>15. ASSUME NEW t \in Threads, WriteText(t) PROVE SizeInv'
  <2> DEFINE text == Text(size[t])
             old == Content(Current)
  <2>0. /\ size[t] \in Nat /\ text \in Seq(Nat) /\ Len(text) = size[t] /\ old \in Seq(Nat) /\ Size = Len(old)
        /\ \A i, j \in 1 .. size[t] : text[i] = text[j]
    BY TextIs, SizeType DEF Types, Size
  <2>1. /\ pc[t] = "print" /\ pc' = [pc EXCEPT ![t] = "count"]
        /\ logfile # 0 => Fprintf(logfile, text)
        /\ UNCHANGED <<built, logfile, fileSize, dir, handles, size, local>>
    BY <1>2, <1>15 DEF WriteText, Go, cfgVars
  <2> HIDE DEF text
  <2>2. \A u \in Threads : pc'[u] = IF u = t THEN "count" ELSE "idle"
    BY <1>0, <1>4, <2>1
  <2>3. logfile # 0 /\ built
    BY <1>2, <2>1 DEF UseInv, ThreadInv
  <2>4. handles[logfile].open
    BY <1>4, <2>1, <2>3 DEF UseInv
  <2>5. \A u \in Threads : pc[u] # "count"
    BY <1>4, <2>1
  <2>6. /\ dir[Current] = handles[logfile].file /\ fileSize = Size
        /\ fileSize + size[t] <= settings.maxFileSize \/ fileSize = 0
    BY <1>2, <2>1, <2>3, <2>4, <2>5 DEF SizeInv
  <2>7. Content(Current)' = old \o text
    <3> DEFINE f == handles[logfile].file
    <3>1. f \in 1 .. Len(files) /\ FileTypes
      BY <1>0, <2>3 DEF Types, FileTypes
    <3>2. files' = [files EXCEPT ![f] = @ \o text] /\ dir' = dir
      BY <2>1, <2>3, <2>4 DEF Fprintf
    <3>3. f = dir[Current]
      BY <2>6
    <3> HIDE DEF f
    <3>4. files'[f] = files[f] \o text /\ f # 0
      BY <2>0, <3>1, <3>2, Extended
    <3>5. dir'[Current] = dir[Current]
      BY <3>2 DEF Current
    <3> QED
      BY <3>3, <3>4, <3>5 DEF Content, Current
  <2> HIDE DEF old
  <2>8. Size' = Size + size[t]
    <3>1. Len(old \o text) = Len(old) + Len(text)
      BY <2>0, ConcatProperties
    <3>2. Size' = Len(Content(Current)')
      BY DEF Size
    <3> QED
      BY <2>0, <2>7, <3>1, <3>2
  <2>9. Size' <= settings.maxFileSize \/ Whole'
    <3>1. CASE fileSize + size[t] <= settings.maxFileSize
      BY <2>6, <2>8, <3>1, <1>1
    <3>2. CASE fileSize = 0
      <4>1. old = <<>>
        BY <2>0, <2>6, <3>2, EmptySeq
      <4>2. Content(Current)' = text
        BY <2>0, <2>7, <4>1, ConcatEmptySeq
      <4> QED
        BY <2>0, <4>2, SMTT(30) DEF Whole
    <3> QED
      BY <2>6, <3>1, <3>2
  <2> QED
    BY <1>1, <2>1, <2>2, <2>3, <2>4, <2>6, <2>8, <2>9 DEF SizeInv
<1>16. ASSUME NEW t \in Threads, Count(t) PROVE SizeInv'
  <2>1. /\ pc[t] = "count" /\ pc' = [pc EXCEPT ![t] = "idle"] /\ fileSize' = fileSize + size[t]
        /\ UNCHANGED <<built, logfile, dir, files, handles, local>>
    BY <1>2, <1>16 DEF Count, Go, cfgVars
  <2>2. \A u \in Threads : pc'[u] = "idle"
    BY <1>0, <1>4, <2>1
  <2>3. Size' = Size /\ Whole' = Whole /\ built
    BY <1>3, <2>1 DEF UseInv, ThreadInv
  <2>4. Size = fileSize + size[t]
    BY <1>2, <2>1 DEF SizeInv
  <2> QED
    BY <1>1, <1>2, <2>1, <2>2, <2>3, <2>4 DEF SizeInv
<1> QED
  BY <1>5, <1>6, <1>7, <1>8, <1>9, <1>10, <1>11, <1>12, <1>13, <1>14, <1>15, <1>16 DEF Next, Write

\* _write's test before, count after and reset by OpenFile (AppenderFile.cpp:41, :66, :83)
\* keep a file with a fixed name to its maximum, for any settings, failures and sizes of
\* messages, if one thread rotates it and ftell says "end"; beyond the maximum is only a
\* message that is itself longer, alone in its file, or what was there before the appender.
THEOREM SizeStays ==
  ASSUME Orderly, "zero" \notin AppendTells
  PROVE  Spec => []SizeBounded
<1>1. Types /\ NoFile /\ UseInv /\ [Next]_vars => UseInv'
  BY UseStep
<1>2. Types /\ NoFile /\ UseInv /\ SizeFits /\ [Next]_vars => SizeFits'
  BY SizeStep
<1>3. SizeFits => SizeBounded
  BY DEF SizeFits, SizeInv, SizeBounded, Size
<1>4. Init => NoFile
  BY DEF Init, NoFile
<1> QED
  BY <1>1, <1>2, <1>3, <1>4, UseInit, SizeInit, NoFileStep, TypesInvariant, PTL DEF Spec

(***************************************************************************)
(* Every message is in the files, once and in order, where one thread logs *)
(* at a time; and a file without a name gave it up to a later backup.      *)
(***************************************************************************)
\* How a directory names the files there are: the last file is Current, or the last of the
\* backups; the backups are in the order of their names, each made in the past and before
\* the file after it; and a file without a name was followed by one made in a second whose
\* backup is a later file.
Filed(d) ==
  LET last == Len(files)
  IN  /\ last >= 1 /\ born \in Seq(Nat) /\ Len(born) = last
      /\ \A f \in 2 .. last : born[f] \in 1 .. sec
      /\ \A n \in 1 .. MaxSec : n > sec => d[n] = 0
      /\ \A n, m \in 1 .. MaxSec : n < m /\ d[n] # 0 /\ d[m] # 0 => d[n] < d[m]
      /\ d[Current] # 0 => d[Current] = last /\ \A n \in 1 .. MaxSec : d[n] < last
      /\ \A n \in 1 .. MaxSec : d[n] \in 1 .. last - 1 => born[d[n] + 1] >= n
      /\ \A f \in 1 .. last : (\A n \in 0 .. MaxSec : d[n] # f) => f < last /\ d[born[f + 1]] > f

LEMMA FiledInit == Init => Filed(dir)
<1> SUFFICES ASSUME Init PROVE Filed(dir)
  OBVIOUS
<1>1. /\ MaxSec \in Nat \ {0} /\ sec = 1 /\ born = <<0>> /\ Len(files) = 1
      /\ dir = [n \in 0 .. MaxSec |-> IF n = Current THEN 1 ELSE 0]
  BY AppenderAssumption DEF Init
<1>2. dir[Current] = 1 /\ \A n \in 1 .. MaxSec : dir[n] = 0
  BY <1>1 DEF Current
<1>3. born \in Seq(Nat) /\ Len(born) = 1 /\ Current \in 0 .. MaxSec
  BY <1>1 DEF Current
<1>4. \A f \in 1 .. 1 : f = 1 /\ \E n \in 0 .. MaxSec : dir[n] = f
  BY <1>2, <1>3
<1>5. \A f \in 2 .. 1 : FALSE
  OBVIOUS
<1>6. \A n \in 1 .. MaxSec : dir[n] = 0 /\ dir[n] < 1 /\ dir[n] \notin 1 .. 1 - 1
  BY <1>2
<1> QED
  BY <1>1, <1>2, <1>3, <1>4, <1>5, <1>6 DEF Filed, Current

\* rename keeps the order: the last file gets the last name.
LEMMA FiledRename ==
  ASSUME FileTypes, sec \in 1 .. MaxSec, Filed(dir)
  PROVE  Filed(RenameTo(dir, sec))
<1> DEFINE last == Len(files)
           r == [dir EXCEPT ![sec] = dir[Current], ![Current] = 0]
<1>1. CASE dir[Current] = 0
  BY <1>1 DEF RenameTo
<1>2. CASE dir[Current] # 0
  <2>0. /\ MaxSec \in Nat /\ last \in Nat /\ Current = 0 /\ sec \in Nat
        /\ \A n \in 0 .. MaxSec : dir[n] \in Nat
    BY AppenderAssumption DEF FileTypes, Current
  <2>1. /\ last >= 1 /\ born \in Seq(Nat) /\ Len(born) = last
        /\ \A f \in 2 .. last : born[f] \in 1 .. sec
        /\ \A n \in 1 .. MaxSec : n > sec => dir[n] = 0
        /\ \A n, m \in 1 .. MaxSec : n < m /\ dir[n] # 0 /\ dir[m] # 0 => dir[n] < dir[m]
        /\ dir[Current] = last /\ \A n \in 1 .. MaxSec : dir[n] < last
        /\ \A n \in 1 .. MaxSec : dir[n] \in 1 .. last - 1 => born[dir[n] + 1] >= n
        /\ \A f \in 1 .. last : (\A n \in 0 .. MaxSec : dir[n] # f) => f < last /\ dir[born[f + 1]] > f
    BY <1>2 DEF Filed
  <2>2. RenameTo(dir, sec) = r
    BY <1>2 DEF RenameTo
  <2>3. /\ r[Current] = 0 /\ r[sec] = last
        /\ \A n \in 1 .. MaxSec : n # sec => r[n] = dir[n]
    BY <2>0, <2>1 DEF FileTypes
  <2> HIDE DEF r, last
  <2>4. \A n \in 1 .. MaxSec : n > sec => r[n] = 0
    BY <2>0, <2>1, <2>3
  <2>5. ASSUME NEW n \in 1 .. MaxSec, NEW m \in 1 .. MaxSec, n < m, r[n] # 0, r[m] # 0
        PROVE  r[n] < r[m]
    <3>1. n < sec /\ m <= sec
      BY <2>0, <2>4, <2>5
    <3>2. r[n] = dir[n]
      BY <2>3, <3>1
    <3> QED
      BY <2>0, <2>1, <2>3, <2>5, <3>1, <3>2
  <2>6. ASSUME NEW n \in 1 .. MaxSec, r[n] \in 1 .. last - 1 PROVE born[r[n] + 1] >= n
    <3>1. n # sec
      BY <2>0, <2>3, <2>6
    <3> QED
      BY <2>1, <2>3, <2>6, <3>1
  <2>7. ASSUME NEW f \in 1 .. last, \A n \in 0 .. MaxSec : r[n] # f
        PROVE  f < last /\ r[born[f + 1]] > f
    <3>1. f < last
      <4>1. f # last
        BY <2>0, <2>3, <2>7
      <4> QED
        BY <2>0, <4>1
    <3>2. f + 1 \in 2 .. last
      BY <2>0, <3>1
    <3>3. born[f + 1] \in 1 .. sec
      BY <2>1, <3>2
    <3>4. CASE dir[sec] = f
      <4>0. sec \in 1 .. MaxSec /\ dir[sec] \in 1 .. last - 1
        BY <2>0, <3>1, <3>4
      <4>1. born[f + 1] >= sec
        BY <2>1, <3>4, <4>0
      <4>2. born[f + 1] = sec
        BY <2>0, <3>3, <4>1
      <4> QED
        BY <2>3, <3>1, <4>2
    <3>5. CASE dir[sec] # f
      <4>1. \A n \in 0 .. MaxSec : dir[n] # f
        <5> TAKE n \in 0 .. MaxSec
        <5>1. CASE n = 0
          BY <2>0, <2>1, <3>1, <5>1
        <5>2. CASE n # 0
          <6>1. n \in 1 .. MaxSec
            BY <5>2
          <6> QED
            BY <2>3, <2>7, <3>5, <6>1
        <5> QED
          BY <5>1, <5>2
      <4>2. dir[born[f + 1]] > f
        BY <2>1, <4>1
      <4>3. born[f + 1] \in 1 .. MaxSec
        BY <2>0, <3>3
      <4> QED
        BY <2>3, <3>1, <4>2, <4>3
    <3> QED
      BY <3>4, <3>5
  <2>8. Filed(r)
    BY <2>1, <2>3, <2>4, <2>5, <2>6, <2>7 DEF Filed, last
  <2> QED
    BY <2>2, <2>8
<1> QED
  BY <1>1, <1>2

\* fopen of a name that has no file makes the next file, in this second.
LEMMA FiledFopen ==
  ASSUME FileTypes, sec \in 1 .. MaxSec, sec' = sec, NEW d \in [0 .. MaxSec -> Nat],
         \A n \in 0 .. MaxSec : d[n] <= Len(files), Filed(d), NEW mode, Fopen(d, mode)
  PROVE  Filed(dir)' /\ dir'[Current] = Len(files') /\ handles'[Len(handles')].file = Len(files')
<1> DEFINE last == Len(files)
<1>0. /\ MaxSec \in Nat /\ last \in Nat /\ Current = 0 /\ sec \in Nat
      /\ \A n \in 0 .. MaxSec : d[n] \in Nat
  <2>1. MaxSec \in Nat /\ last \in Nat /\ Current = 0
    BY AppenderAssumption DEF FileTypes, Current
  <2> QED
    BY <2>1
<1>1. /\ last >= 1 /\ born \in Seq(Nat) /\ Len(born) = last
      /\ \A f \in 2 .. last : born[f] \in 1 .. sec
      /\ \A n \in 1 .. MaxSec : n > sec => d[n] = 0
      /\ \A n, m \in 1 .. MaxSec : n < m /\ d[n] # 0 /\ d[m] # 0 => d[n] < d[m]
      /\ d[Current] # 0 => d[Current] = last /\ \A n \in 1 .. MaxSec : d[n] < last
      /\ \A n \in 1 .. MaxSec : d[n] \in 1 .. last - 1 => born[d[n] + 1] >= n
      /\ \A f \in 1 .. last : (\A n \in 0 .. MaxSec : d[n] # f) => f < last /\ d[born[f + 1]] > f
  BY DEF Filed
<1>2. CASE d[Current] # 0
  <2>1. /\ dir' = [d EXCEPT ![Current] = d[Current]] /\ born' = born
        /\ files' = [files EXCEPT ![d[Current]] = IF mode = "w" THEN <<>> ELSE @]
        /\ handles' = Append(handles, [file |-> d[Current], open |-> TRUE])
    BY <1>2 DEF Fopen
  <2>2. dir' = d
    BY <1>0, <2>1
  <2>3. Len(files') = last
    <3>1. files \in Seq(Seq(Nat))
      BY DEF FileTypes
    <3> QED
      BY <2>1, <3>1
  <2>4. handles'[Len(handles')].file = d[Current]
    <3>1. handles \in Seq(Handles)
      BY DEF FileTypes
    <3> QED
      BY <2>1, <3>1
  <2>5. Filed(dir)'
    BY <1>1, <2>1, <2>2, <2>3 DEF Filed, Current
  <2> QED
    BY <1>1, <1>2, <2>2, <2>3, <2>4, <2>5 DEF Current
<1>3. CASE d[Current] = 0
  <2>1. /\ dir' = [d EXCEPT ![Current] = last + 1] /\ born' = Append(born, sec)
        /\ files' = Append(files, <<>>)
        /\ handles' = Append(handles, [file |-> last + 1, open |-> TRUE])
    BY <1>3 DEF Fopen
  <2>2. dir'[Current] = last + 1 /\ \A n \in 1 .. MaxSec : dir'[n] = d[n]
    BY <1>0, <2>1
  <2>3. Len(files') = last + 1
    <3>1. files \in Seq(Seq(Nat))
      BY DEF FileTypes
    <3> QED
      BY <2>1, <3>1
  <2>4. handles'[Len(handles')].file = last + 1
    <3>1. handles \in Seq(Handles)
      BY DEF FileTypes
    <3> QED
      BY <2>1, <3>1
  <2>5. /\ born' \in Seq(Nat) /\ Len(born') = last + 1
        /\ \A f \in 1 .. last : born'[f] = born[f]
        /\ born'[last + 1] = sec
    BY <1>0, <1>1, <2>1, AppendProperties
  <2> HIDE DEF last
  <2>6. \A n \in 1 .. MaxSec : d[n] <= last
    BY <1>0 DEF last
  <2>7. \A f \in 2 .. last + 1 : born'[f] \in 1 .. sec
    <3> TAKE f \in 2 .. last + 1
    <3>1. CASE f = last + 1
      BY <2>5, <3>1
    <3>2. CASE f # last + 1
      <4>1. f \in 2 .. last /\ f \in 1 .. last
        BY <1>0, <3>2
      <4> QED
        BY <1>1, <2>5, <4>1
    <3> QED
      BY <3>1, <3>2
  <2>8. ASSUME NEW n \in 1 .. MaxSec, d[n] \in 1 .. last PROVE born'[d[n] + 1] >= n
    <3>1. CASE d[n] = last
      <4>1. n <= sec
        BY <1>0, <1>1, <2>8
      <4> QED
        BY <2>5, <3>1, <4>1
    <3>2. CASE d[n] # last
      <4>1. d[n] \in 1 .. last - 1 /\ d[n] + 1 \in 1 .. last
        BY <1>0, <2>8, <3>2
      <4> QED
        BY <1>1, <2>5, <4>1
    <3> QED
      BY <3>1, <3>2
  <2>9. ASSUME NEW f \in 1 .. last + 1, \A n \in 0 .. MaxSec : dir'[n] # f
        PROVE  f < last + 1 /\ dir'[born'[f + 1]] > f
    <3>1. f \in 1 .. last
      <4>1. f # last + 1
        BY <1>0, <2>2, <2>9
      <4> QED
        BY <1>0, <4>1
    <3>2. \A n \in 0 .. MaxSec : d[n] # f
      <4> TAKE n \in 0 .. MaxSec
      <4>1. CASE n = 0
        BY <1>0, <1>3, <3>1, <4>1
      <4>2. CASE n # 0
        <5>1. n \in 1 .. MaxSec
          BY <4>2
        <5> QED
          BY <2>2, <2>9, <5>1
      <4> QED
        BY <4>1, <4>2
    <3>3. f < last /\ d[born[f + 1]] > f
      BY <1>1, <3>1, <3>2
    <3>4. f + 1 \in 1 .. last /\ f + 1 \in 2 .. last
      BY <1>0, <3>3
    <3>5. born[f + 1] \in 1 .. MaxSec
      BY <1>0, <1>1, <3>4
    <3>6. born'[f + 1] = born[f + 1]
      BY <2>5, <3>4
    <3>7. dir'[born[f + 1]] = d[born[f + 1]]
      BY <2>2, <3>5
    <3>8. f < last + 1
      BY <1>0, <3>1
    <3> QED
      BY <3>3, <3>6, <3>7, <3>8
  <2>10. \A n \in 1 .. MaxSec : d[n] < last + 1
    BY <1>0, <2>6
  <2>11. Filed(dir)'
    <3>1. last + 1 >= 1 /\ (last + 1) - 1 = last
      BY <1>0
    <3>2. \A n \in 1 .. MaxSec : dir'[n] \in 1 .. (last + 1) - 1 => born'[dir'[n] + 1] >= n
      BY <2>2, <2>8, <3>1
    <3>3. \A n, m \in 1 .. MaxSec : n < m /\ dir'[n] # 0 /\ dir'[m] # 0 => dir'[n] < dir'[m]
      BY <1>1, <2>2
    <3>4. \A n \in 1 .. MaxSec : (n > sec => dir'[n] = 0) /\ dir'[n] < last + 1
      BY <1>1, <2>2, <2>10
    <3> QED
      BY <2>2, <2>3, <2>5, <2>7, <2>9, <3>1, <3>2, <3>3, <3>4 DEF Filed, Current
  <2> QED
    BY <2>2, <2>3, <2>4, <2>11
<1> QED
  BY <1>2, <1>3

\* What the files held before the first message, but for what the constructor overwrote:
\* its FILE*, the first, is then on the first file.
Overwritten ==
  /\ ~settings.dynamicName /\ settings.mode = "w" /\ ~settings.backup
  /\ handles # <<>> /\ handles[1].file = 1
Before == IF Overwritten THEN <<>> ELSE Held(settings.existing)

\* What was logged is in the files, and a FILE* that is to be written is on the last one.
\* A file is opened for overwriting only by the constructor, or when rename has left no
\* current one.
Kept ==
  /\ FlattenSeq(files) = Before \o logged
  /\ ~built => files = <<Held(settings.existing)>> /\ dir[Current] = 1 /\ logged = <<>>
  /\ ~settings.dynamicName /\ logfile # 0 => handles[logfile].file = Len(files)
  /\ \A t \in Threads :
       /\ ~settings.dynamicName /\ pc[t] = "open" => dir[Current] = 0
       /\ pc[t] = "assign" \/ (settings.dynamicName /\ pc[t] = "print") =>
            local[t] = 0 \/ handles[local[t]].file = Len(files)

\* The bytes a file held before.
LEMMA HeldType ==
  ASSUME NEW n \in Nat
  PROVE  Held(n) \in Seq(Nat) /\ <<>> \o Held(n) = Held(n) /\ Held(n) \o <<>> = Held(n)
<1>1. Held(n) \in Seq(Nat)
  BY DEF Held
<1> QED
  BY <1>1, ConcatEmptySeq

\* The only file there was before.
LEMMA FlattenOne ==
  ASSUME NEW s \in Seq(Nat)
  PROVE  FlattenSeq(<<s>>) = s
<1>1. <<>> \in Seq(Seq(Nat)) /\ Append(<<>>, s) = <<s>>
  BY EmptySeq
<1>2. FlattenSeq(<<s>>) = FlattenSeq(<<>>) \o s
  BY <1>1, FlattenAppend, Zenon
<1> QED
  BY <1>2, FlattenOfNone, ConcatEmptySeq

\* fopen changes nothing of what the files hold, unless it overwrites one.
LEMMA FopenKeeps ==
  ASSUME FileTypes, NEW d \in [0 .. MaxSec -> Nat], \A n \in 0 .. MaxSec : d[n] <= Len(files),
         NEW mode, Fopen(d, mode), d[Current] = 0 \/ mode # "w"
  PROVE  FlattenSeq(files') = FlattenSeq(files)
<1>1. files \in Seq(Seq(Nat)) /\ <<>> \in Seq(Nat)
  BY EmptySeq DEF FileTypes
<1>2. CASE d[Current] = 0
  <2>1. files' = Append(files, <<>>)
    BY <1>2 DEF Fopen
  <2>2. FlattenSeq(files') = FlattenSeq(files) \o <<>>
    BY <1>1, <2>1, FlattenAppend, Zenon
  <2>3. FlattenSeq(files) \in Seq(Nat)
    BY <1>1, FlattenType, Zenon
  <2> QED
    BY <2>2, <2>3, ConcatEmptySeq
<1>3. CASE d[Current] # 0
  <2>1. files' = [files EXCEPT ![d[Current]] = @]
    BY <1>3 DEF Fopen
  <2>2. files' = files
    BY <1>1, <2>1
  <2> QED
    BY <2>2
<1> QED
  BY <1>2, <1>3

\* fclose leaves every FILE* on its file.
LEMMA FcloseFiles ==
  ASSUME FileTypes, NEW h \in 0 .. Len(handles), Fclose(h)
  PROVE  Len(handles') = Len(handles) /\ \A g \in 1 .. Len(handles) : handles'[g].file = handles[g].file
<1>1. handles' = [handles EXCEPT ![h].open = FALSE] /\ handles \in Seq(Handles)
  BY DEF Fclose, FileTypes
<1>2. ASSUME NEW g \in 1 .. Len(handles) PROVE handles'[g].file = handles[g].file
  <2>1. handles[g] \in Handles
    BY <1>1
  <2> QED
    BY <1>1, <2>1 DEF Handles
<1> QED
  BY <1>1, <1>2

\* Where handles keep their files, the first one does.
LEMMA FirstKept ==
  ASSUME handles \in Seq(Handles), handles' \in Seq(Handles), Len(handles') = Len(handles),
         \A g \in 1 .. Len(handles) : handles'[g].file = handles[g].file
  PROVE  /\ handles' = <<>> <=> handles = <<>>
         /\ handles # <<>> => handles'[1].file = handles[1].file
  BY EmptySeq

LEMMA KeptInit == Init => Kept
<1> SUFFICES ASSUME Init PROVE Kept
  OBVIOUS
<1>1. settings.existing \in Nat
  BY AppenderAssumption DEF Init
<1>2. /\ files = <<Held(settings.existing)>> /\ logged = <<>> /\ handles = <<>> /\ ~built
      /\ logfile = 0 /\ \A t \in Threads : pc[t] = "idle"
  BY DEF Init
<1>3. dir[Current] = 1
  BY AppenderAssumption DEF Init, Current
<1>4. FlattenSeq(files) = Before \o logged
  BY <1>1, <1>2, HeldType, FlattenOne, Zenon DEF Before, Overwritten
<1> QED
  BY <1>2, <1>3, <1>4 DEF Kept

LEMMA KeptStep ==
  ASSUME Orderly
  PROVE  Types /\ NoFile /\ UseInv /\ Filed(dir) /\ Kept /\ [Next]_vars => Kept'
<1> SUFFICES ASSUME Types, NoFile, UseInv, Filed(dir), Kept, [Next]_vars PROVE Kept'
  OBVIOUS
<1>0. /\ pc \in [Threads -> PcStates] /\ local \in [Threads -> 0 .. Len(handles)]
      /\ logfile \in 0 .. Len(handles) /\ handles \in Seq(Handles) /\ Len(handles) \in Nat
      /\ sec \in 1 .. MaxSec /\ settings \in Settings /\ FileTypes
  BY DEF Types, FileTypes, StateTypes
<1>1. settings.existing \in Nat /\ settings.maxFileSize \in Nat
  BY <1>0, AppenderAssumption
<1>2. dir \in [0 .. MaxSec -> Nat] /\ \A n \in 0 .. MaxSec : dir[n] <= Len(files)
  BY <1>0 DEF FileTypes
<1>3. ASSUME NEW t \in Threads, pc[t] \in {"close", "null", "rename", "open", "assign"}
             \/ (settings.dynamicName /\ pc[t] # "idle")
      PROVE  \A u \in Threads \ {t} : pc[u] = "idle"
  <2>1. pc[t] # "idle" /\ Rotates(settings)
    BY <1>3 DEF UseInv, ThreadInv, Rotates
  <2> QED
    BY <2>1, Alone
<1>4. CASE Tick \/ UNCHANGED vars
  BY <1>4 DEF Tick, vars, cfgVars, fsVars, Kept, Before, Overwritten
<1>5. CASE Construct
  <2>1. /\ ~built /\ handles = <<>> /\ files = <<Held(settings.existing)>> /\ dir[Current] = 1
        /\ logged = <<>> /\ logfile = 0 /\ \A t \in Threads : pc[t] = "idle"
    BY <1>5 DEF Construct, NoFile, Kept, UseInv, ThreadInv
  <2>2. built' = TRUE /\ UNCHANGED <<settings, sec, pc, local, logged>>
    BY <1>5 DEF Construct
  <2>3. CASE settings.dynamicName
    <3>1. UNCHANGED <<logfile, fileSize, fsVars>>
      BY <1>5, <2>3 DEF Construct
    <3> QED
      BY <2>1, <2>2, <2>3, <3>1 DEF Kept, Before, Overwritten, fsVars
  <2>4. CASE ~settings.dynamicName
    <3> DEFINE d == IF OpensAtOnce THEN RenameTo(dir, sec) ELSE dir
    <3>1. Fopen(d, settings.mode) /\ logfile' = 1
      BY <1>5, <2>4 DEF Construct
    <3>2. d \in [0 .. MaxSec -> Nat] /\ \A n \in 0 .. MaxSec : d[n] <= Len(files)
      BY <1>0, <1>2, RenameType
    <3>3. Filed(d)
      BY <1>0, FiledRename
    <3>4. OpensAtOnce => d[Current] = 0
      BY <1>0, RenamedSize
    <3>5. ~OpensAtOnce => d = dir
      OBVIOUS
    <3> HIDE DEF d
    <3>6. handles'[Len(handles')].file = Len(files')
      BY <1>0, <2>2, <3>1, <3>2, <3>3, FiledFopen
    <3>7. /\ Len(handles') = 1 /\ handles' # <<>>
          /\ d[Current] # 0 => handles'[1].file = d[Current]
      <4>1. \E f : handles' = Append(handles, [file |-> f, open |-> TRUE]) /\ (d[Current] # 0 => f = d[Current])
        BY <3>1 DEF Fopen
      <4> QED
        BY <2>1, <4>1
    <3>8. FlattenSeq(files) = Held(settings.existing) \o logged
      BY <1>1, <2>1, HeldType, FlattenOne, Zenon
    <3>9. FlattenSeq(files') = Before' \o logged'
      <4>1. CASE settings.mode = "w" /\ ~settings.backup
        <5>1. d = dir /\ Before' = <<>>
          BY <2>1, <2>2, <2>4, <3>5, <3>7, <4>1 DEF OpensAtOnce, Before, Overwritten
        <5>2. files' = [files EXCEPT ![1] = <<>>]
          <6>1. d[Current] = 1 /\ settings.mode = "w"
            BY <2>1, <4>1, <5>1
          <6>2. files' = [files EXCEPT ![d[Current]] = IF settings.mode = "w" THEN <<>> ELSE @]
            BY <3>1, <6>1 DEF Fopen
          <6> QED
            BY <6>1, <6>2
        <5>3. files' = << <<>> >>
          BY <2>1, <5>2
        <5>4. FlattenSeq(files') = <<>>
          BY <5>3, FlattenOne, EmptySeq
        <5> QED
          BY <2>1, <2>2, <5>1, <5>4, ConcatEmptySeq, EmptySeq
      <4>2. CASE ~(settings.mode = "w" /\ ~settings.backup)
        <5>1. Before' = Held(settings.existing)
          BY <2>2, <4>2 DEF Before, Overwritten
        <5>2. d[Current] = 0 \/ settings.mode # "w"
          BY <3>4, <4>2 DEF OpensAtOnce
        <5>3. FlattenSeq(files') = FlattenSeq(files)
          BY <1>0, <3>1, <3>2, <5>2, FopenKeeps
        <5> QED
          BY <2>2, <3>8, <5>1, <5>3
      <4> QED
        BY <4>1, <4>2
    <3> QED
      BY <2>1, <2>2, <3>1, <3>6, <3>7, <3>9 DEF Kept
  <2> QED
    BY <2>3, <2>4
<1>6. CASE ConstructFails
  <2>1. /\ ~built /\ built' = TRUE /\ \A t \in Threads : pc[t] = "idle"
        /\ UNCHANGED <<settings, logfile, files, handles, pc, local, logged>>
    BY <1>6 DEF ConstructFails, UseInv, ThreadInv
  <2>2. logfile = 0
    BY <2>1 DEF UseInv
  <2> QED
    BY <2>1, <2>2 DEF Kept, Before, Overwritten
<1>7. ASSUME NEW t \in Threads, NEW n \in Sizes, Begin(t, n) PROVE Kept'
  <2>1. UNCHANGED <<settings, built, logfile, dir, files, handles, local, logged>>
    BY <1>7 DEF Begin, cfgVars, fsVars
  <2>2. /\ pc[t] = "idle" /\ built
        /\ pc' = [pc EXCEPT ![t] = IF Exceeds(n) \/ (settings.dynamicName /\ settings.backup) THEN "close"
                                   ELSE IF settings.dynamicName THEN "open" ELSE "test"]
    BY <1>7 DEF Begin, Go
  <2>3. \A u \in Threads : u # t => pc'[u] = pc[u]
    BY <1>0, <2>2
  <2>4. pc'[t] \in {"close", "open", "test"} /\ (pc'[t] = "open" => settings.dynamicName)
    BY <1>0, <2>2
  <2> QED
    BY <2>1, <2>2, <2>3, <2>4 DEF Kept, Before, Overwritten
<1>8. ASSUME NEW t \in Threads, Close(t) \/ Null(t) PROVE Kept'
  <2>1. /\ pc[t] \in {"close", "null"} /\ pc'[t] \in {"null", "rename"}
        /\ \A u \in Threads : u # t => pc'[u] = pc[u]
        /\ UNCHANGED <<settings, built, dir, files, local, logged>>
        /\ logfile' = logfile \/ logfile' = 0
    BY <1>0, <1>8 DEF Close, Null, Go, cfgVars, fsVars
  <2>2. Len(handles') = Len(handles) /\ \A g \in 1 .. Len(handles) : handles'[g].file = handles[g].file
    <3>1. CASE UNCHANGED handles
      BY <3>1
    <3>2. CASE Fclose(logfile)
      BY <1>0, <3>2, FcloseFiles
    <3> QED
      BY <1>8, <3>1, <3>2 DEF Close, Null, fsVars
  <2>3. built /\ \A u \in Threads \ {t} : pc'[u] = "idle"
    BY <1>3, <2>1 DEF UseInv, ThreadInv
  <2>4. (handles' = <<>> <=> handles = <<>>) /\ (handles # <<>> => handles'[1].file = handles[1].file)
    BY <1>0, <2>2, FirstKept
  <2>5. Before' = Before
    BY <2>1, <2>4 DEF Before, Overwritten
  <2>6. ~settings.dynamicName /\ logfile' # 0 => handles'[logfile'].file = Len(files')
    BY <1>0, <2>1, <2>2 DEF Kept
  <2> QED
    BY <2>1, <2>3, <2>4, <2>5, <2>6 DEF Kept
<1>9. ASSUME NEW t \in Threads, Rename(t) PROVE Kept'
  <2>1. /\ pc[t] = "rename" /\ pc' = [pc EXCEPT ![t] = "open"] /\ dir' = RenameTo(dir, sec)
        /\ UNCHANGED <<settings, built, logfile, files, handles, local, logged>>
    BY <1>9 DEF Rename, Go, cfgVars
  <2>2. built /\ \A u \in Threads : pc'[u] = IF u = t THEN "open" ELSE "idle"
    BY <1>0, <1>3, <2>1 DEF UseInv, ThreadInv
  <2>3. dir'[Current] = 0
    BY <1>0, <2>1, RenamedSize
  <2> QED
    BY <2>1, <2>2, <2>3 DEF Kept, Before, Overwritten
<1>10. ASSUME NEW t \in Threads, Open(t) PROVE Kept'
  <2> DEFINE mode == IF settings.dynamicName THEN "a" ELSE "w"
  <2>1. /\ pc[t] = "open" /\ pc' = [pc EXCEPT ![t] = "assign"] /\ Fopen(dir, mode)
        /\ local' = [local EXCEPT ![t] = Len(handles')]
        /\ UNCHANGED <<settings, built, sec, logfile, logged>>
    BY <1>10 DEF Open, Go, cfgVars
  <2>2. built /\ logfile = 0 /\ \A u \in Threads : pc'[u] = IF u = t THEN "assign" ELSE "idle"
    BY <1>0, <1>3, <2>1 DEF UseInv, ThreadInv
  <2>3. dir[Current] = 0 \/ mode # "w"
    BY <2>1 DEF Kept
  <2> HIDE DEF mode
  <2>5. FlattenSeq(files') = FlattenSeq(files)
    BY <1>0, <1>2, <2>1, <2>3, FopenKeeps
  <2>6. handles'[Len(handles')].file = Len(files')
    BY <1>0, <1>2, <2>1, FiledFopen
  <2>7. Before' = Before
    <3>1. Len(handles') = Len(handles) + 1 /\ \A h \in 1 .. Len(handles) : handles'[h] = handles[h]
      BY <1>0, <1>2, <2>1, FopenEffect
    <3>2. CASE handles # <<>>
      <4>1. handles' # <<>> /\ handles'[1] = handles[1]
        BY <1>0, <3>1, <3>2, EmptySeq
      <4> QED
        BY <2>1, <3>2, <4>1 DEF Before, Overwritten
    <3>3. CASE handles = <<>> /\ ~settings.dynamicName
      <4>1. dir[Current] = 0
        BY <2>1, <3>3 DEF Kept
      <4>2. files' = Append(files, <<>>) /\ Len(files) >= 1 /\ files \in Seq(Seq(Nat))
        BY <1>0, <2>1, <4>1 DEF Fopen, Filed, FileTypes
      <4>3. handles'[1].file # 1
        BY <2>6, <3>1, <3>3, <4>2, EmptySeq
      <4> QED
        BY <2>1, <3>3, <4>3 DEF Before, Overwritten
    <3>4. CASE settings.dynamicName
      BY <2>1, <3>4 DEF Before, Overwritten
    <3> QED
      BY <3>2, <3>3, <3>4
  <2>8. local'[t] = Len(handles')
    BY <1>0, <2>1
  <2> QED
    BY <2>1, <2>2, <2>5, <2>6, <2>7, <2>8 DEF Kept
<1>11. ASSUME NEW t \in Threads, OpenFails(t) PROVE Kept'
  <2>1. /\ pc[t] = "open" /\ pc' = [pc EXCEPT ![t] = "assign"] /\ local' = [local EXCEPT ![t] = 0]
        /\ UNCHANGED <<settings, built, logfile, dir, files, handles, logged>>
    BY <1>11 DEF OpenFails, Go, cfgVars, fsVars
  <2>2. built /\ \A u \in Threads : pc'[u] = IF u = t THEN "assign" ELSE "idle"
    BY <1>0, <1>3, <2>1 DEF UseInv, ThreadInv
  <2>3. local'[t] = 0
    BY <1>0, <2>1
  <2> QED
    BY <2>1, <2>2, <2>3 DEF Kept, Before, Overwritten
<1>12. ASSUME NEW t \in Threads, Assign(t) PROVE Kept'
  <2>1. /\ pc[t] = "assign"
        /\ pc' = [pc EXCEPT ![t] = IF ~settings.dynamicName THEN "test"
                                   ELSE IF local[t] = 0 THEN "idle" ELSE "print"]
        /\ logfile' = IF settings.dynamicName THEN logfile ELSE local[t]
        /\ UNCHANGED <<settings, built, dir, files, handles, local, logged>>
    BY <1>12 DEF Assign, Go, cfgVars, fsVars
  <2>2. built /\ \A u \in Threads \ {t} : pc'[u] = "idle"
    BY <1>0, <1>3, <2>1 DEF UseInv, ThreadInv
  <2>3. pc'[t] \in {"test", "idle", "print"}
    BY <1>0, <2>1
  <2>4. local[t] = 0 \/ handles[local[t]].file = Len(files)
    BY <2>1 DEF Kept
  <2> QED
    BY <2>1, <2>2, <2>3, <2>4 DEF Kept, Before, Overwritten
<1>13. ASSUME NEW t \in Threads, Test(t) PROVE Kept'
  <2>1. /\ pc[t] = "test" /\ pc' = [pc EXCEPT ![t] = IF logfile = 0 THEN "idle" ELSE "print"]
        /\ UNCHANGED <<settings, built, logfile, dir, files, handles, local, logged>>
    BY <1>13 DEF Test, Go, cfgVars, fsVars
  <2>2. \A u \in Threads : u # t => pc'[u] = pc[u]
    BY <1>0, <2>1
  <2>3. built /\ ~settings.dynamicName
    BY <2>1 DEF UseInv, ThreadInv
  <2>4. pc'[t] = IF logfile = 0 THEN "idle" ELSE "print"
    BY <1>0, <2>1
  <2> QED
    BY <2>1, <2>2, <2>3, <2>4 DEF Kept, Before, Overwritten
<1>14. ASSUME NEW t \in Threads, WriteText(t) PROVE Kept'
  <2> DEFINE h == IF settings.dynamicName THEN local[t] ELSE logfile
             text == Text(size[t])
             last == Len(files)
  <2>1. /\ pc[t] = "print" /\ pc' = [pc EXCEPT ![t] = "count"]
        /\ h # 0 => Fprintf(h, text)
        /\ logged' = logged \o text
        /\ UNCHANGED <<settings, built, logfile, dir, handles, local>>
    BY <1>14 DEF WriteText, Go, cfgVars
  <2>2. built /\ h # 0 /\ h \in 1 .. Len(handles)
    BY <1>0, <2>1 DEF UseInv, ThreadInv
  <2>3. handles[h].open
    <3>1. CASE settings.dynamicName
      BY <2>1, <3>1 DEF UseInv, ThreadInv
    <3>2. CASE ~settings.dynamicName
      <4>1. \A u \in Threads : pc[u] # "null"
        BY <1>3, <2>1
      <4> QED
        BY <2>2, <3>2, <4>1 DEF UseInv
    <3> QED
      BY <3>1, <3>2
  <2>4. handles[h].file = last
    BY <2>1, <2>2 DEF Kept
  <2>5. logged \in Seq(Nat) /\ text \in Seq(Nat)
    BY TextIs DEF Types, StateTypes
  <2> HIDE DEF h, text
  <2>6. files' = [files EXCEPT ![last] = @ \o text]
    BY <2>1, <2>2, <2>3, <2>4 DEF Fprintf
  <2>7. files \in Seq(Seq(Nat)) /\ last >= 1 /\ last \in Nat
    BY <1>0 DEF FileTypes, Filed
  <2>8. files # <<>> /\ last \in 1 .. last /\ Len(files') = last
    BY <2>6, <2>7, EmptySeq
  <2>9. FlattenSeq(files') = FlattenSeq(files) \o text
    BY <2>5, <2>6, <2>7, <2>8, FlattenExtend, Zenon
  <2>10. Before \in Seq(Nat) /\ Before' = Before
    BY <1>1, <2>1, HeldType, EmptySeq DEF Before, Overwritten
  <2>11. FlattenSeq(files') = Before' \o logged'
    <3>1. FlattenSeq(files) = Before \o logged
      BY DEF Kept
    <3>2. (Before \o logged) \o text = Before \o (logged \o text)
      BY <2>5, <2>10, ConcatAssociative, SMTT(30)
    <3> QED
      BY <2>1, <2>9, <2>10, <3>1, <3>2, Zenon
  <2>12. \A u \in Threads : u # t => pc'[u] = pc[u]
    BY <1>0, <2>1
  <2>13. pc'[t] = "count"
    BY <1>0, <2>1
  <2> QED
    BY <2>1, <2>2, <2>8, <2>11, <2>12, <2>13 DEF Kept
<1>15. ASSUME NEW t \in Threads, Count(t) PROVE Kept'
  <2>1. /\ pc[t] = "count" /\ pc' = [pc EXCEPT ![t] = "idle"]
        /\ UNCHANGED <<settings, built, logfile, dir, files, local, logged>>
    BY <1>15 DEF Count, Go, cfgVars
  <2>2. Len(handles') = Len(handles) /\ \A g \in 1 .. Len(handles) : handles'[g].file = handles[g].file
    <3>1. CASE UNCHANGED handles
      BY <3>1
    <3>2. CASE Fclose(local[t])
      BY <1>0, <3>2, FcloseFiles
    <3> QED
      BY <1>15, <3>1, <3>2 DEF Count
  <2>3. built
    BY <2>1 DEF UseInv, ThreadInv
  <2>4. (handles' = <<>> <=> handles = <<>>) /\ (handles # <<>> => handles'[1].file = handles[1].file)
    BY <1>0, <2>2, FirstKept
  <2>5. Before' = Before
    BY <2>1, <2>4 DEF Before, Overwritten
  <2>6. \A u \in Threads : u # t => pc'[u] = pc[u]
    BY <1>0, <2>1
  <2>7. pc'[t] = "idle"
    BY <1>0, <2>1
  <2>8. ~settings.dynamicName /\ logfile' # 0 => handles'[logfile'].file = Len(files')
    BY <1>0, <2>1, <2>2 DEF Kept
  <2>9. \A u \in Threads : local[u] # 0 => handles'[local[u]].file = handles[local[u]].file
    BY <1>0, <2>2
  <2> QED
    BY <2>1, <2>3, <2>4, <2>5, <2>6, <2>7, <2>8, <2>9 DEF Kept
<1> QED
  BY <1>4, <1>5, <1>6, <1>7, <1>8, <1>9, <1>10, <1>11, <1>12, <1>13, <1>14, <1>15 DEF Next, Write

LEMMA FiledStep ==
  ASSUME Orderly
  PROVE  Types /\ Filed(dir) /\ [Next]_vars => Filed(dir)'
<1> SUFFICES ASSUME Types, Filed(dir), [Next]_vars PROVE Filed(dir)'
  OBVIOUS
<1>0. FileTypes /\ sec \in 1 .. MaxSec /\ files \in Seq(Seq(Nat))
  BY DEF Types, FileTypes, StateTypes
<1>1. dir \in [0 .. MaxSec -> Nat] /\ \A n \in 0 .. MaxSec : dir[n] <= Len(files)
  BY <1>0 DEF FileTypes
<1>2. CASE UNCHANGED <<dir, born, sec>> /\ Len(files') = Len(files)
  BY <1>2 DEF Filed, Current
<1>3. CASE Tick
  <2>1. sec' = sec + 1 /\ UNCHANGED <<dir, born, files>>
    BY <1>3 DEF Tick, fsVars
  <2>2. \A n \in Nat : (n > sec' => n > sec) /\ (n \in 1 .. sec => n \in 1 .. sec')
    BY <1>0, <2>1
  <2>3. \A f \in 2 .. Len(files) : born[f] \in 1 .. sec'
    BY <1>0, <2>2 DEF Filed
  <2>4. \A n \in 1 .. MaxSec : n > sec' => dir[n] = 0
    BY <2>2 DEF Filed
  <2> QED
    BY <2>1, <2>3, <2>4 DEF Filed, Current
<1>4. CASE Construct
  <2>1. sec' = sec
    BY <1>4 DEF Construct
  <2>2. CASE settings.dynamicName
    BY <1>2, <1>4, <2>1, <2>2 DEF Construct, fsVars
  <2>3. CASE ~settings.dynamicName
    <3> DEFINE d == IF OpensAtOnce THEN RenameTo(dir, sec) ELSE dir
    <3>1. d \in [0 .. MaxSec -> Nat] /\ \A n \in 0 .. MaxSec : d[n] <= Len(files)
      BY <1>0, <1>1, RenameType
    <3>2. Filed(d)
      BY <1>0, FiledRename
    <3>3. Fopen(d, settings.mode)
      BY <1>4, <2>3 DEF Construct
    <3> HIDE DEF d
    <3> QED
      BY <1>0, <2>1, <3>1, <3>2, <3>3, FiledFopen
  <2> QED
    BY <2>2, <2>3
<1>5. ASSUME dir' = RenameTo(dir, sec), UNCHANGED <<files, born, sec>> PROVE Filed(dir)'
  <2> DEFINE r == RenameTo(dir, sec)
  <2>1. Filed(r)
    BY <1>0, FiledRename
  <2> HIDE DEF r
  <2>2. dir' = r
    BY <1>5 DEF r
  <2> QED
    BY <1>5, <2>1, <2>2 DEF Filed, Current
<1>6. CASE ConstructFails
  BY <1>2, <1>5, <1>6 DEF ConstructFails
<1>7. ASSUME NEW t \in Threads,
             (\E n \in Sizes : Begin(t, n)) \/ Close(t) \/ Null(t) \/ OpenFails(t) \/ Assign(t) \/ Test(t) \/ Count(t)
      PROVE  Filed(dir)'
  BY <1>2, <1>7 DEF Begin, Close, Null, OpenFails, Assign, Test, Count, cfgVars, fsVars
<1>8. ASSUME NEW t \in Threads, Rename(t) PROVE Filed(dir)'
  BY <1>5, <1>8 DEF Rename, cfgVars
<1>9. ASSUME NEW t \in Threads, Open(t) PROVE Filed(dir)'
  <2> DEFINE mode == IF settings.dynamicName THEN "a" ELSE "w"
  <2>1. Fopen(dir, mode) /\ sec' = sec
    BY <1>9 DEF Open, cfgVars
  <2> HIDE DEF mode
  <2> QED
    BY <1>0, <1>1, <2>1, FiledFopen
<1>10. ASSUME NEW t \in Threads, WriteText(t) PROVE Filed(dir)'
  <2>1. UNCHANGED <<dir, born, sec>>
    BY <1>10 DEF WriteText, cfgVars
  <2>2. files' = files \/ \E f, s : files' = [files EXCEPT ![f] = s]
    BY <1>10 DEF WriteText, Fprintf
  <2>3. Len(files') = Len(files)
    BY <1>0, <2>2
  <2> QED
    BY <1>2, <2>1, <2>3
<1>11. CASE UNCHANGED vars
  BY <1>2, <1>11 DEF vars, cfgVars, fsVars
<1> QED
  BY <1>3, <1>4, <1>6, <1>7, <1>8, <1>9, <1>10, <1>11 DEF Next, Write

\* The directory shows the files, in their order, but for those that have lost their name.
LEMMA OnDiskIs ==
  ASSUME Types, Filed(dir)
  PROVE  OnDisk = FlattenSeq([f \in DOMAIN files |-> IF f \in {dir[n] : n \in DOMAIN dir} THEN files[f] ELSE <<>>])
<1> DEFINE named == {dir[n] : n \in DOMAIN dir}
           kept == [f \in DOMAIN files |-> IF f \in named THEN files[f] ELSE <<>>]
           backups == [n \in 1 .. MaxSec |-> Content(n)]
           names == Append(backups, Content(Current))
           d == [k \in 1 .. MaxSec + 1 |-> IF k = MaxSec + 1 THEN dir[Current] ELSE dir[k]]
           last == Len(files)
<1>0. /\ MaxSec \in Nat /\ Current = 0 /\ files \in Seq(Seq(Nat)) /\ last \in Nat
      /\ dir \in [0 .. MaxSec -> Nat] /\ \A n \in 0 .. MaxSec : dir[n] \in 0 .. last
      /\ <<>> \in Seq(Nat)
  <2>1. files \in Seq(Seq(Nat)) /\ MaxSec \in Nat /\ dir \in [0 .. MaxSec -> Nat]
    BY AppenderAssumption DEF Types, FileTypes
  <2>2. Len(files) \in Nat /\ <<>> \in Seq(Nat)
    BY <2>1, EmptySeq
  <2>3. \A n \in 0 .. MaxSec : dir[n] \in Nat /\ dir[n] <= Len(files)
    BY <2>1 DEF Types, FileTypes
  <2> QED
    BY <2>1, <2>2, <2>3 DEF Current
<1>1. ASSUME NEW n \in 0 .. MaxSec PROVE Content(n) \in Seq(Nat)
  <2>1. dir[n] # 0 => dir[n] \in 1 .. last
    BY <1>0
  <2> QED
    BY <1>0, <2>1 DEF Content
<1>2. backups \in Seq(Seq(Nat)) /\ Len(backups) = MaxSec
  BY <1>0, <1>1
<1>3. Content(Current) \in Seq(Nat)
  BY <1>0, <1>1
<1>4. OnDisk = FlattenSeq(names)
  <2>1. OnDisk = FlattenSeq(backups) \o Content(Current)
    BY DEF OnDisk
  <2> HIDE DEF backups
  <2> QED
    BY <1>2, <1>3, <2>1, FlattenAppend, Zenon
<1>5. /\ names \in Seq(Seq(Nat)) /\ Len(names) = MaxSec + 1 /\ names[MaxSec + 1] = Content(Current)
      /\ \A n \in 1 .. MaxSec : names[n] = Content(n)
  <2>1. \A n \in 1 .. MaxSec : backups[n] = Content(n)
    OBVIOUS
  <2> HIDE DEF backups
  <2> QED
    BY <1>2, <1>3, <2>1, AppendProperties
<1>6. kept \in Seq(Seq(Nat)) /\ Len(kept) = last
  <2>1. \A f \in 1 .. last : files[f] \in Seq(Nat)
    BY <1>0
  <2>2. kept = [f \in 1 .. last |-> IF f \in named THEN files[f] ELSE <<>>]
    BY <1>0
  <2> HIDE DEF kept, last, named
  <2>3. kept \in [1 .. last -> Seq(Nat)]
    BY <1>0, <2>1, <2>2
  <2> QED
    BY <1>0, <2>3
<1>7. d \in [1 .. MaxSec + 1 -> 0 .. last]
  BY <1>0
<1>8. /\ d[MaxSec + 1] = dir[0] /\ \A n \in 1 .. MaxSec : d[n] = dir[n]
  BY <1>0
<1>9. \A j \in 1 .. last : kept[j] = IF \E k \in 1 .. MaxSec + 1 : d[k] = j THEN files[j] ELSE <<>>
  <2> TAKE j \in 1 .. last
  <2>1. kept[j] = IF j \in named THEN files[j] ELSE <<>>
    BY <1>0
  <2> HIDE DEF kept, d
  <2>2. (\E k \in 1 .. MaxSec + 1 : d[k] = j) => j \in named
    <3> SUFFICES ASSUME NEW k \in 1 .. MaxSec + 1, d[k] = j PROVE j \in named
      OBVIOUS
    <3>1. CASE k = MaxSec + 1
      BY <1>0, <1>8, <3>1
    <3>2. CASE k # MaxSec + 1
      <4>1. k \in 1 .. MaxSec
        BY <1>0, <3>2
      <4> QED
        BY <1>0, <1>8, <4>1
    <3> QED
      BY <3>1, <3>2
  <2>3. j \in named => \E k \in 1 .. MaxSec + 1 : d[k] = j
    <3> SUFFICES ASSUME NEW n \in 0 .. MaxSec, dir[n] = j PROVE \E k \in 1 .. MaxSec + 1 : d[k] = j
      BY <1>0
    <3>1. CASE n = 0
      <4>1. MaxSec + 1 \in 1 .. MaxSec + 1
        BY <1>0
      <4> QED
        BY <1>8, <3>1, <4>1
    <3>2. CASE n # 0
      <4>1. n \in 1 .. MaxSec /\ n \in 1 .. MaxSec + 1
        BY <1>0, <3>2
      <4> QED
        BY <1>8, <4>1
    <3> QED
      BY <3>1, <3>2
  <2> QED
    BY <2>1, <2>2, <2>3
<1>10. \A k \in 1 .. MaxSec + 1 : names[k] = IF d[k] = 0 THEN <<>> ELSE files[d[k]]
  <2> TAKE k \in 1 .. MaxSec + 1
  <2> HIDE DEF names, d
  <2>1. CASE k = MaxSec + 1
    BY <1>0, <1>5, <1>8, <2>1 DEF Content
  <2>2. CASE k # MaxSec + 1
    <3>1. k \in 1 .. MaxSec
      BY <1>0, <2>2
    <3> QED
      BY <1>5, <1>8, <3>1 DEF Content
  <2> QED
    BY <2>1, <2>2
<1>11. \A k, l \in 1 .. MaxSec + 1 : k < l /\ d[k] # 0 /\ d[l] # 0 => d[k] < d[l]
  <2> HIDE DEF d, last
  <2> TAKE k, l \in 1 .. MaxSec + 1
  <2> HAVE k < l /\ d[k] # 0 /\ d[l] # 0
  <2>1. k \in 1 .. MaxSec
    BY <1>0
  <2>2. CASE l = MaxSec + 1
    BY <1>0, <1>8, <2>1, <2>2 DEF Filed, last
  <2>3. CASE l # MaxSec + 1
    <3>1. l \in 1 .. MaxSec
      BY <1>0, <2>3
    <3> QED
      BY <1>8, <2>1, <3>1 DEF Filed
  <2> QED
    BY <2>2, <2>3
<1> HIDE DEF d, names, kept
<1>12. FlattenSeq(names) = FlattenSeq(kept)
  <2>1. Listed(d, names, files, kept)
    BY <1>5, <1>6, <1>7, <1>9, <1>10, <1>11, Zenon DEF Listed
  <2>2. files \in Seq(Seq(Nat)) /\ names \in Seq(Seq(Nat)) /\ kept \in Seq(Seq(Nat))
    BY <1>0, <1>5, <1>6
  <2> QED
    BY <2>1, <2>2, FlattenNamed, ZenonT(60)
<1> QED
  BY <1>4, <1>12 DEF kept

\* Under both invariants every message is found where Complete looks for it.
LEMMA CompleteHolds == Types /\ Filed(dir) /\ Kept => Complete
<1> SUFFICES ASSUME Types, Filed(dir), Kept PROVE Complete
  OBVIOUS
<1> DEFINE named == {dir[n] : n \in DOMAIN dir}
<1>1. dir \in [0 .. MaxSec -> Nat] /\ files \in Seq(Seq(Nat))
  BY DEF Types, FileTypes
<1>2. ASSUME NEW f \in DOMAIN files \ named PROVE f < Len(files) /\ dir[born[f + 1]] > f
  <2>1. f \in 1 .. Len(files) /\ \A n \in 0 .. MaxSec : dir[n] # f
    BY <1>1, SMTT(30)
  <2> QED
    BY <2>1 DEF Filed
<1>3. OnDisk = FlattenSeq([f \in DOMAIN files |-> IF f \in named THEN files[f] ELSE <<>>])
  BY OnDiskIs
<1>4. FlattenSeq(files) = Before \o logged
  BY DEF Kept
<1> QED
  BY <1>2, <1>3, <1>4, Zenon DEF Complete, Before, Overwritten

\* Opening, closing and renaming the file, or failing to, loses no message and writes none
\* twice, for any settings, sizes, seconds and messages: the files hold what was logged in
\* order, and what the directory lacks of it a backup of the same second has replaced.
THEOREM NothingLost ==
  ASSUME Orderly
  PROVE  Spec => []Complete
<1>1. Types /\ NoFile /\ UseInv /\ [Next]_vars => UseInv'
  BY UseStep
<1>2. Types /\ NoFile /\ UseInv /\ Filed(dir) /\ Kept /\ [Next]_vars => Kept'
  BY KeptStep
<1>3. Types /\ Filed(dir) /\ [Next]_vars => Filed(dir)'
  BY FiledStep
<1>4. Init => NoFile
  BY DEF Init, NoFile
<1> QED
  BY <1>1, <1>2, <1>3, <1>4, UseInit, FiledInit, KeptInit, CompleteHolds, NoFileStep, TypesInvariant, PTL DEF Spec
=============================================================================
