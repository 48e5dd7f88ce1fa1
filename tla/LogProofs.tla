----------------------------- MODULE LogProofs -----------------------------
(***************************************************************************)
(* The log for every configuration file, however it is reloaded, and any   *)
(* number of ids: a logger never points to an appender that was closed,    *)
(* the search for a logger ends at one, and the two copies of the          *)
(* configuration agree.                                                    *)
(***************************************************************************)
EXTENDS Log, UtilProofs, FiniteSetTheorems

\* AppendersExist is inductive with one more fact: an appender that replaces another in
\* its slot does so while there is no logger yet.
NoLoggersYet == phase = "appenders" => loggers = <<>>
LogInv == AppendersExist /\ NoLoggersYet

\* A logger put among the others keeps AppendersExist when its own appenders exist.
LEMMA PutLogger ==
  ASSUME AppendersExist, NEW x, NEW logger,
         loggers' = Put(loggers, x, logger), logger.appenders \subseteq DOMAIN appenders,
         UNCHANGED appenders
  PROVE  AppendersExist'
  BY DEF AppendersExist, Put

LEMMA InitLogInv == Init => LogInv
  BY DEF Init, LogInv, AppendersExist, NoLoggersYet

LEMMA CreateLoggerKeeps ==
  ASSUME LogInv, CreateLoggerFromConfig
  PROVE  LogInv'
<1> DEFINE name   == Tail(Head(keys))
           tokens == Options(Head(keys))
<1> USE DEF LogInv
<1>1. phase = "loggers" /\ UNCHANGED <<phase, appenders>> /\ CreateLogger(name, tokens)
  BY DEF CreateLoggerFromConfig
<1>2. AppendersExist'
  <2>1. CASE UNCHANGED loggers
    BY <1>1, <2>1 DEF AppendersExist
  <2>2. CASE loggers' = Put(loggers, name, NoLogger)
    BY <1>1, <2>2, PutLogger DEF NoLogger
  <2>3. ASSUME NEW ids \in Picks(Words(tokens[2])),
               loggers' = Put(loggers, name, [name |-> name, level |-> atoi(tokens[1]), appenders |-> ids])
        PROVE  AppendersExist'
    <3> DEFINE logger == [name |-> name, level |-> atoi(tokens[1]), appenders |-> ids]
    <3>1. logger.appenders \subseteq DOMAIN appenders
      BY DEF Picks
    <3>2. loggers' = Put(loggers, name, logger)
      BY <2>3
    <3> HIDE DEF logger, name
    <3> QED
      BY <1>1, <3>1, <3>2, PutLogger
  <2> QED
    BY <1>1, <2>1, <2>2, <2>3 DEF CreateLogger
<1> QED
  BY <1>1, <1>2 DEF NoLoggersYet

LEMMA DefaultsKeep ==
  ASSUME CreateDefaults
  PROVE  LogInv'
<1>1. /\ appenders' = Put(<<>>, AppenderId, [name |-> <<"Console">>, level |-> DEBUG])
      /\ loggers' = Put(Put(<<>>, <<"server">>, NoLogger),
                        LOGGER_ROOT, [name |-> <<"server">>, level |-> ERROR, appenders |-> {AppenderId}])
      /\ phase' = "ready"
  BY DEF CreateDefaults
<1>2. AppenderId \in DOMAIN appenders'
  BY <1>1 DEF Put
<1>3. \A t \in DOMAIN loggers' : loggers'[t].appenders \in {{}, {AppenderId}}
  BY <1>1 DEF Put, NoLogger
<1> QED
  BY <1>1, <1>2, <1>3 DEF LogInv, AppendersExist, NoLoggersYet

LEMMA NextLogInv == LogInv /\ [Next]_vars => LogInv'
<1> SUFFICES ASSUME LogInv, [Next]_vars PROVE LogInv'
  OBVIOUS
<1> USE DEF LogInv, AppendersExist, NoLoggersYet
<1>1. CASE Start
  BY <1>1 DEF Start
<1>2. CASE Reload
  BY <1>2 DEF Reload
<1>3. CASE LoadFromConfig
  BY <1>3 DEF LoadFromConfig
<1>4. CASE CreateAppenderFromConfig
  BY <1>4 DEF CreateAppenderFromConfig
<1>5. CASE CreateAppenderFromGarbage
  BY <1>5 DEF CreateAppenderFromGarbage
<1>6. CASE AppendersRead
  BY <1>6 DEF AppendersRead
<1>7. CASE CreateLoggerFromConfig
  BY <1>7, CreateLoggerKeeps
<1>8. CASE LoggersRead
  BY <1>8 DEF LoggersRead
<1>9. CASE CreateDefaults
  BY <1>9, DefaultsKeep
<1>10. CASE UNCHANGED vars
  BY <1>10 DEF vars
<1> QED
  BY <1>1, <1>2, <1>3, <1>4, <1>5, <1>6, <1>7, <1>8, <1>9, <1>10 DEF Next

\* Whatever the file says, malformed entries, ids used twice and reloads included, a
\* logger's pointers lead to appenders that are still there.
THEOREM LoggersPointToAppenders == Spec => []AppendersExist
<1>1. Spec => []LogInv
  BY InitLogInv, NextLogInv, PTL DEF Spec
<1> QED
  BY <1>1, PTL DEF LogInv

(***************************************************************************)
(* The search for a type's logger.                                         *)
(***************************************************************************)
\* The types asked for, from type upwards, when those in D have a logger.
Asked(type, D, up) ==
  up = [n \in 0 .. Len(type) + 1 |->
          IF n = 0 THEN type
          ELSE LET t == up[n - 1] IN IF t \in D \cup {LOGGER_ROOT} THEN t ELSE ParentType(t)]

\* The type asked for after t.
OneUp(t, D) == IF t \in D \cup {LOGGER_ROOT} THEN t ELSE ParentType(t)

\* A step that finds no logger shortens the type, and the type of one part has the root
\* for its parent.
LEMMA OneUpIs ==
  ASSUME NEW S, "root" \in S, NEW D, NEW v \in Seq(S) \ {<<>>}
  PROVE  /\ OneUp(v, D) \in Seq(S) \ {<<>>}
         /\ v \in D \cup {LOGGER_ROOT} => OneUp(v, D) = v
         /\ v \notin D \cup {LOGGER_ROOT} =>
              IF Len(v) > 1 THEN OneUp(v, D) = SubSeq(v, 1, Len(v) - 1) ELSE OneUp(v, D) = LOGGER_ROOT
<1>1. CASE v \in D \cup {LOGGER_ROOT}
  BY <1>1 DEF OneUp
<1>2. CASE v \notin D \cup {LOGGER_ROOT} /\ Len(v) > 1
  <2>1. OneUp(v, D) = SubSeq(v, 1, Len(v) - 1)
    BY <1>2 DEF OneUp, ParentType, Front
  <2> DEFINE u == SubSeq(v, 1, Len(v) - 1)
  <2>2. u \in Seq(S) /\ Len(u) = Len(v) - 1 /\ Len(v) - 1 # 0
    <3>1. v \in Seq(S) /\ Len(v) \in Nat /\ Len(v) > 1
      BY <1>2
    <3> DEFINE n == Len(v) - 1
    <3>2. n \in Int /\ 1 <= n /\ n # 0 /\ n - 1 + 1 = n
      BY <3>1
    <3>3. \A i \in 1 .. n : v[i] \in S
      BY <3>1
    <3> HIDE DEF n
    <3>4. SubSeq(v, 1, n) \in Seq(S) /\ Len(SubSeq(v, 1, n)) = n
      BY <3>2, <3>3, SubSeqProperties
    <3> QED
      BY <3>2, <3>4 DEF n
  <2> HIDE DEF u
  <2>3. u # <<>>
    BY <2>2, EmptySeq
  <2> QED
    BY <1>2, <2>1, <2>2, <2>3 DEF u
<1>3. CASE v \notin D \cup {LOGGER_ROOT} /\ ~(Len(v) > 1)
  <2>1. OneUp(v, D) = LOGGER_ROOT
    BY <1>3 DEF OneUp, ParentType
  <2>2. LOGGER_ROOT \in Seq(S) /\ LOGGER_ROOT # <<>>
    BY DEF LOGGER_ROOT
  <2> QED
    BY <1>3, <2>1, <2>2
<1> QED
  BY <1>1, <1>2, <1>3

\* The types are asked for one after the other.
Steps(type, D, up) ==
  up[0] = type /\ \A i \in 1 .. Len(type) + 1 : up[i] = OneUp(up[i - 1], D)

\* The function that Asked describes exists, so that CHOOSE yields the types asked for.
LEMMA AskedSteps ==
  ASSUME NEW type, type # <<>>, IsSequence(type), NEW D
  PROVE  Steps(type, D, CHOOSE up : Asked(type, D, up))
<1> DEFINE S    == ToSet(type) \cup {"root"}
           V    == Seq(S) \ {<<>>}
           n    == Len(type) + 1
           step == [i \in 1 .. n |-> [v \in V |-> OneUp(v, D)]]
           up   == CHOOSE up : Asked(type, D, up)
<1>1. type \in V /\ n \in Nat
  <2>1. type \in Seq(ToSet(type)) /\ Len(type) \in Nat /\ \A i \in 1 .. Len(type) : type[i] \in ToSet(type)
    BY SequenceOf
  <2>2. type \in Seq(S)
    BY <2>1
  <2> QED
    BY <2>1, <2>2
<1>2. step \in [1 .. n -> [V -> V]]
  <2>1. \A v \in V : OneUp(v, D) \in V
    BY OneUpIs
  <2> HIDE DEF n, V
  <2> QED
    BY <2>1
<1>3. PICK f \in [0 .. n -> V] : f[0] = type /\ \A i \in 1 .. n : f[i] = step[i][f[i - 1]]
  <2> HIDE DEF n, V, step
  <2>1. Recurs(n, V, type, step)
    BY <1>1, <1>2, Recursion
  <2> QED
    BY <2>1 DEF Recurs
<1>4. ASSUME NEW i \in 1 .. n PROVE f[i] = OneUp(f[i - 1], D)
  <2> HIDE DEF V, n
  <2>1. f[i - 1] \in V
    BY <1>1
  <2> QED
    BY <1>3, <2>1
<1>5. f = [i \in 0 .. n |-> IF i = 0 THEN type ELSE OneUp(f[i - 1], D)]
  <2> HIDE DEF V
  <2>1. \A i \in 0 .. n : f[i] = IF i = 0 THEN type ELSE OneUp(f[i - 1], D)
    BY <1>1, <1>3, <1>4
  <2> HIDE DEF n
  <2> QED
    BY <2>1
<1>6. Asked(type, D, f)
  BY <1>5 DEF Asked, OneUp
<1>7. Asked(type, D, up)
  BY <1>6
<1> HIDE DEF up, step
<1>8. up = [i \in 0 .. n |-> IF i = 0 THEN type ELSE OneUp(up[i - 1], D)]
  BY <1>7 DEF Asked, OneUp
<1>9. up[0] = type /\ \A i \in 1 .. n : up[i] = OneUp(up[i - 1], D)
  <2>1. n \in Nat
    BY <1>1
  <2> HIDE DEF n
  <2> QED
    BY <1>8, <2>1
<1> QED
  BY <1>9 DEF Steps, up

\* The nearest type, from type upwards, in E.
NearestIn(type, E) ==
  LET above == {n \in 1 .. Len(type) : SubSeq(type, 1, n) \in E}
  IN  IF above = {} THEN LOGGER_ROOT ELSE SubSeq(type, 1, CHOOSE n \in above : \A m \in above : m <= n)

\* NearestIn, when the first k parts of the type are the longest start of it in E.
LEMMA NearestIs ==
  ASSUME NEW type, Len(type) \in Nat, NEW E, NEW k \in 0 .. Len(type),
         \A m \in k + 1 .. Len(type) : SubSeq(type, 1, m) \notin E
  PROVE  /\ k = 0 => NearestIn(type, E) = LOGGER_ROOT
         /\ k # 0 /\ SubSeq(type, 1, k) \in E => NearestIn(type, E) = SubSeq(type, 1, k)
<1> DEFINE above == {n \in 1 .. Len(type) : SubSeq(type, 1, n) \in E}
           most  == CHOOSE n \in above : \A m \in above : m <= n
<1>1. \A m \in above : m \in 1 .. Len(type) /\ m <= k
  OBVIOUS
<1>2. NearestIn(type, E) = IF above = {} THEN LOGGER_ROOT ELSE SubSeq(type, 1, most)
  BY DEF NearestIn
<1>3. CASE k = 0
  <2>1. above = {}
    BY <1>1, <1>3
  <2> QED
    BY <1>2, <1>3, <2>1
<1>4. CASE k # 0 /\ SubSeq(type, 1, k) \in E
  <2>1. k \in above
    BY <1>4
  <2> HIDE DEF above
  <2>2. most \in above /\ \A m \in above : m <= most
    BY <1>1, <2>1
  <2>3. most = k
    <3> HIDE DEF most
    <3> QED
      BY <1>1, <2>1, <2>2
  <2> QED
    BY <1>2, <1>4, <2>1, <2>3
<1> QED
  BY <1>3, <1>4

\* The last of the types asked for is the nearest that has a logger, or the root.
LEMMA AskedEnds ==
  ASSUME NEW type, type # <<>>, IsSequence(type), NEW D
  PROVE  LET last == (CHOOSE up : Asked(type, D, up))[Len(type) + 1]
         IN  /\ last \in D \cup {LOGGER_ROOT} /\ last # <<>>
             /\ last = NearestIn(type, D \cup {LOGGER_ROOT})
<1> DEFINE S  == ToSet(type) \cup {"root"}
           V  == Seq(S) \ {<<>>}
           l  == Len(type)
           E  == D \cup {LOGGER_ROOT}
           up == CHOOSE up : Asked(type, D, up)
           Near == NearestIn(type, E)
           Part(k) == SubSeq(type, 1, k)
<1>1. up[0] = type /\ \A i \in 1 .. l + 1 : up[i] = OneUp(up[i - 1], D)
  BY AskedSteps DEF Steps
<1> HIDE DEF up
<1>2. type \in Seq(S) /\ l \in Nat /\ l # 0 /\ type \in V
  <2>1. type \in Seq(ToSet(type)) /\ l \in Nat /\ \A i \in 1 .. l : type[i] \in ToSet(type)
    BY SequenceOf
  <2>2. l # 0
    BY <2>1, EmptySeq
  <2> QED
    BY <2>1, <2>2
<1>3. \A v \in V : /\ OneUp(v, D) \in V
                   /\ v \in E => OneUp(v, D) = v
                   /\ v \notin E => IF Len(v) > 1 THEN OneUp(v, D) = SubSeq(v, 1, Len(v) - 1) ELSE OneUp(v, D) = LOGGER_ROOT
  BY OneUpIs
<1>4. ASSUME NEW k \in 0 .. l, \A m \in k + 1 .. l : Part(m) \notin E
      PROVE  (k = 0 => Near = LOGGER_ROOT) /\ (k # 0 /\ Part(k) \in E => Near = Part(k))
  <2> HIDE DEF E
  <2> QED
    BY <1>2, <1>4, NearestIs
<1>5. \A k \in 1 .. l : Part(k) \in Seq(S) /\ Len(Part(k)) = k /\ \A j \in 1 .. k : SubSeq(Part(k), 1, j) = Part(j)
  <2> HIDE DEF S
  <2> QED
    BY <1>2
<1>6. LOGGER_ROOT \in E /\ Part(l) = type
  <2> HIDE DEF S
  <2> QED
    BY <1>2
<1> DEFINE Good(i) == /\ up[i] \in V
                      /\ up[i] \in E => up[i] = Near
                      /\ up[i] \notin E => i < l /\ up[i] = Part(l - i) /\ \A m \in (l - i) + 1 .. l : Part(m) \notin E
           T == {i \in 0 .. l + 1 : Good(i)}
<1> HIDE DEF V, E, Near, Part
<1>7. 0 \in T
  <2>1. \A m \in l + 1 .. l : Part(m) \notin E
    BY <1>2
  <2>2. type \in E => Near = type
    BY <1>2, <1>4, <1>6, <2>1
  <2> HIDE DEF l
  <2>3. 0 \in 0 .. l + 1 /\ 0 < l /\ l - 0 = l
    BY <1>2
  <2> QED
    BY <1>1, <1>2, <1>6, <2>1, <2>2, <2>3
<1>8. ASSUME NEW i \in 0 .. l, i \in T PROVE i + 1 \in T
  <2>1. Good(i) /\ up[i + 1] = OneUp(up[i], D)
    <3>1. i + 1 \in 1 .. l + 1 /\ (i + 1) - 1 = i
      BY <1>2
    <3> QED
      BY <1>1, <1>8, <3>1
  <2>2. CASE up[i] \in E
    BY <1>2, <1>3, <2>1, <2>2
  <2>3. CASE up[i] \notin E
    <3> DEFINE k == l - i
    <3>1. k \in 1 .. l /\ up[i] = Part(k) /\ \A m \in k + 1 .. l : Part(m) \notin E
      BY <1>2, <2>1, <2>3
    <3>2. \A m \in k .. l : Part(m) \notin E
      BY <1>2, <2>3, <3>1
    <3>3. Len(up[i]) = k /\ up[i + 1] \in V
      BY <1>3, <1>5, <2>1, <3>1
    <3>4. CASE k > 1
      <4>1. up[i + 1] = Part(k - 1)
        <5>1. up[i + 1] = SubSeq(Part(k), 1, k - 1)
          BY <1>3, <2>1, <2>3, <3>1, <3>3, <3>4
        <5>2. k - 1 \in 1 .. k
          BY <1>2, <3>1, <3>4
        <5> QED
          BY <1>5, <3>1, <5>1, <5>2
      <4>2. k - 1 \in 0 .. l /\ (k - 1) + 1 = k /\ k - 1 # 0 /\ l - (i + 1) = k - 1 /\ i + 1 < l
        BY <1>2, <3>1, <3>4
      <4>3. Part(k - 1) \in E => Near = Part(k - 1)
        BY <1>4, <3>2, <4>2
      <4> QED
        BY <1>2, <3>2, <3>3, <4>1, <4>2, <4>3
    <3>5. CASE ~(k > 1)
      <4>1. k = 1 /\ 0 \in 0 .. l /\ 0 + 1 = 1
        BY <1>2, <3>1, <3>5
      <4>2. up[i + 1] = LOGGER_ROOT
        BY <1>3, <2>1, <2>3, <3>3, <3>5
      <4>3. Near = LOGGER_ROOT
        BY <1>4, <3>2, <4>1
      <4> QED
        BY <1>2, <1>6, <3>3, <4>2, <4>3
    <3> QED
      BY <3>4, <3>5
  <2> QED
    BY <2>2, <2>3
<1>9. Good(l + 1)
  <2> DEFINE n == l + 1
  <2>1. n \in Nat /\ \A i \in 0 .. n - 1 : i \in 0 .. l
    BY <1>2
  <2> HIDE DEF T, n
  <2>2. \A i \in 0 .. n : i \in T
    BY <1>7, <1>8, <2>1, UpTo
  <2>3. n \in T
    BY <2>1, <2>2
  <2> QED
    BY <2>3 DEF T, n
<1>10. up[l + 1] \in V /\ up[l + 1] \in E /\ up[l + 1] = Near
  <2>1. ~(l + 1 < l)
    BY <1>2
  <2> QED
    BY <1>9, <2>1
<1> QED
  BY <1>10 DEF V, E, Near, up

\* Once the loggers are read, or made by default, the root's is among them.
RootMade == phase = "ready" => LOGGER_ROOT \in DOMAIN loggers

LEMMA RootMadeStep == RootMade /\ [Next]_vars => RootMade'
<1> SUFFICES ASSUME RootMade, [Next]_vars PROVE RootMade'
  OBVIOUS
<1>1. CASE Start \/ Reload \/ LoadFromConfig \/ AppendersRead \/ LoggersRead \/ UNCHANGED vars
  BY <1>1 DEF Start, Reload, LoadFromConfig, AppendersRead, LoggersRead, vars, RootMade
<1>2. CASE CreateAppenderFromConfig \/ CreateAppenderFromGarbage \/ CreateLoggerFromConfig
  BY <1>2 DEF CreateAppenderFromConfig, CreateAppenderFromGarbage, CreateLoggerFromConfig, RootMade
<1>3. CASE CreateDefaults
  BY <1>3 DEF CreateDefaults, RootMade, Put
<1> QED
  BY <1>1, <1>2, <1>3 DEF Next

\* GetLoggerByType's recursion (Log.h:94) ends, for a type of any length and any loggers,
\* and finds a logger: the root's is always there, read or made by default.
THEOREM SearchEnds == Spec => []RootFound
<1>1. RootMade => RootFound
  <2> SUFFICES ASSUME LOGGER_ROOT \in DOMAIN loggers, NEW type \in Types PROVE LoggerTypeOf(type) # <<>>
    BY DEF RootMade, RootFound
  <2> DEFINE last == (CHOOSE up : Asked(type, DOMAIN loggers, up))[Len(type) + 1]
  <2>1. LoggerTypeOf(type) = IF last \in DOMAIN loggers THEN last ELSE <<>>
    BY DEF LoggerTypeOf, Asked
  <2>2. type # <<>> /\ IsSequence(type)
    BY LogAssumption
  <2>3. last \in DOMAIN loggers \cup {LOGGER_ROOT} /\ last # <<>>
    BY <2>2, AskedEnds
  <2> HIDE DEF last
  <2> QED
    BY <2>1, <2>3
<1>2. Init => RootMade
  BY DEF Init, RootMade
<1> QED
  BY <1>1, <1>2, RootMadeStep, PTL DEF Spec

(***************************************************************************)
(* The configuration's two copies.                                         *)
(***************************************************************************)
\* Where a line is cut: e is its first "=", f its first ink, and the name that begins there
\* ends before u.
Places(line, e, f, u) ==
  /\ Until(line, LAMBDA c : c = "=") = SubSeq(line, 1, e - 1)
  /\ \A i \in 1 .. e - 1 : line[i] # "="
  /\ e = Len(line) + 1 \/ line[e] = "="
  /\ From(line, Ink) = SubSeq(line, f, Len(line))
  /\ \A i \in 1 .. f - 1 : ~Ink(line[i])
  /\ f = Len(line) + 1 \/ Ink(line[f])
  /\ Until(From(line, Ink), LAMBDA c : c \in Blanks \cup {"="}) = SubSeq(line, f, u - 1)
  /\ \A i \in f .. u - 1 : line[i] \notin Blanks \cup {"="}
  /\ u = Len(line) + 1 \/ line[u] \in Blanks \cup {"="}

\* Every line has these places.
LEMMA PlacesAre ==
  ASSUME NEW line, IsSequence(line)
  PROVE  \E e, f \in 1 .. Len(line) + 1 : \E u \in f .. Len(line) + 1 : Places(line, e, f, u)
<1> DEFINE n == Len(line)
           T == ToSet(line)
<1>1. line \in Seq(T) /\ n \in Nat /\ DOMAIN line = 1 .. n /\ \A i \in 1 .. n : line[i] \in T
  BY SequenceOf
<1> HIDE DEF T
<1>2. PICK e \in 1 .. n + 1 :
        /\ Until(line, LAMBDA c : c = "=") = SubSeq(line, 1, e - 1)
        /\ \A i \in 1 .. e - 1 : line[i] # "="
        /\ e = n + 1 \/ line[e] = "="
  <2> DEFINE I == {i \in 1 .. Len(line) : line[i] = "="}
             at == IF I # {} THEN Min(I) ELSE 0
  <2>1. Until(line, LAMBDA c : c = "=") = IF at = 0 THEN line ELSE SubSeq(line, 1, at - 1)
    BY DEF Until, SelectInSeq
  <2>2. I \subseteq 1 .. Len(line)
    OBVIOUS
  <2> HIDE DEF I
  <2>3. PICK e \in 1 .. Len(line) + 1 :
          /\ (IF at = 0 THEN line ELSE SubSeq(line, 1, at - 1)) = SubSeq(line, 1, e - 1)
          /\ \A i \in 1 .. e - 1 : i \notin I
          /\ e \in I \/ e = Len(line) + 1
    BY <1>1, <2>2, CutAt
  <2> HIDE DEF at
  <2>4. \A i \in 1 .. e - 1 : i \in 1 .. Len(line)
    BY <1>1
  <2> QED
    BY <2>1, <2>3, <2>4 DEF I
<1>3. PICK f \in 1 .. n + 1 :
        /\ From(line, Ink) = SubSeq(line, f, n)
        /\ \A i \in 1 .. f - 1 : ~Ink(line[i])
        /\ f = n + 1 \/ Ink(line[f])
  <2> DEFINE I == {i \in 1 .. Len(line) : Ink(line[i])}
             at == IF I # {} THEN Min(I) ELSE 0
  <2>1. From(line, Ink) = IF at = 0 THEN <<>> ELSE SubSeq(line, at, Len(line))
    BY DEF From, SelectInSeq
  <2>2. I \subseteq 1 .. Len(line)
    OBVIOUS
  <2> HIDE DEF I
  <2>3. PICK d \in 1 .. Len(line) + 1 :
          /\ (IF at = 0 THEN <<>> ELSE SubSeq(line, at, Len(line))) = SubSeq(line, d, Len(line))
          /\ \A i \in 1 .. d - 1 : i \notin I
          /\ d \in I \/ d = Len(line) + 1
    BY <1>1, <2>2, CutAt
  <2> HIDE DEF at
  <2>4. \A i \in 1 .. d - 1 : i \in 1 .. Len(line)
    BY <1>1
  <2> QED
    BY <2>1, <2>3, <2>4 DEF I
<1>4. PICK u \in f .. n + 1 :
        /\ Until(From(line, Ink), LAMBDA c : c \in Blanks \cup {"="}) = SubSeq(line, f, u - 1)
        /\ \A i \in f .. u - 1 : line[i] \notin Blanks \cup {"="}
        /\ u = n + 1 \/ line[u] \in Blanks \cup {"="}
  <2> DEFINE rest == SubSeq(line, f, n)
             I == {i \in 1 .. Len(rest) : rest[i] \in Blanks \cup {"="}}
             at == IF I # {} THEN Min(I) ELSE 0
  <2>0. rest \in Seq(T) /\ Len(rest) = n + 1 - f /\ \A i \in 1 .. n + 1 - f : rest[i] = line[f + i - 1]
    BY <1>1
  <2>1. Until(From(line, Ink), LAMBDA c : c \in Blanks \cup {"="}) = IF at = 0 THEN rest ELSE SubSeq(rest, 1, at - 1)
    BY <1>3 DEF Until, SelectInSeq
  <2>2. I \subseteq 1 .. Len(rest)
    OBVIOUS
  <2> HIDE DEF I, rest
  <2>3. PICK d \in 1 .. Len(rest) + 1 :
          /\ (IF at = 0 THEN rest ELSE SubSeq(rest, 1, at - 1)) = SubSeq(rest, 1, d - 1)
          /\ \A i \in 1 .. d - 1 : i \notin I
          /\ d \in I \/ d = Len(rest) + 1
    BY <2>0, <2>2, CutAt
  <2> HIDE DEF at
  <2> DEFINE u == f + d - 1
  <2>4. u \in f .. n + 1 /\ (d = Len(rest) + 1 => u = n + 1) /\ (d \in 1 .. Len(rest) => rest[d] = line[u])
    <3>1. u \in f .. n + 1 /\ (d = Len(rest) + 1 => u = n + 1)
      BY <1>1, <2>0
    <3>2. d \in 1 .. Len(rest) => rest[d] = line[f + d - 1]
      BY <2>0
    <3> QED
      BY <3>1, <3>2
  <2>5. SubSeq(rest, 1, d - 1) = SubSeq(line, f, u - 1)
    <3>1. SubSeq(rest, 1, d - 1) \in Seq(T) /\ Len(SubSeq(rest, 1, d - 1)) = d - 1
      BY <1>1, <2>0
    <3>2. SubSeq(line, f, u - 1) \in Seq(T) /\ Len(SubSeq(line, f, u - 1)) = d - 1
      BY <1>1, <2>4
    <3>3. \A i \in 1 .. d - 1 : SubSeq(rest, 1, d - 1)[i] = SubSeq(line, f, u - 1)[i]
      <4> TAKE i \in 1 .. d - 1
      <4>1. SubSeq(rest, 1, d - 1)[i] = rest[i] /\ i \in 1 .. n + 1 - f
        BY <1>1, <2>0
      <4>2. SubSeq(line, f, u - 1)[i] = line[f + i - 1]
        BY <1>1, <2>4
      <4> QED
        BY <2>0, <4>1, <4>2
    <3> QED
      BY <3>1, <3>2, <3>3, SeqEqual
  <2>6. ASSUME NEW i \in f .. u - 1 PROVE line[i] \notin Blanks \cup {"="}
    <3> DEFINE j == i - f + 1
    <3>1. j \in 1 .. d - 1 /\ j \in 1 .. n + 1 - f /\ f + j - 1 = i
      BY <1>1, <2>0
    <3>2. rest[j] = line[f + j - 1] /\ j \in 1 .. Len(rest)
      BY <2>0, <3>1
    <3> QED
      BY <2>3, <3>1, <3>2 DEF I
  <2>7. u = n + 1 \/ line[u] \in Blanks \cup {"="}
    BY <2>3, <2>4 DEF I
  <2> HIDE DEF u
  <2>8. Until(From(line, Ink), LAMBDA c : c \in Blanks \cup {"="}) = SubSeq(line, f, u - 1)
    BY <2>1, <2>3, <2>5
  <2> QED
    BY <2>4, <2>6, <2>7, <2>8
<1>5. Places(line, e, f, u)
  BY <1>2, <1>3, <1>4 DEF Places
<1> QED
  BY <1>5

\* A key that no blank breaks is one run of ink: KeyOf, which leaves out every blank in
\* front of "=", leaves what GetKeysByString cuts out between the first ink and the next
\* blank or "=".
LEMMA KeyIsName ==
  ASSUME NEW line, IsSequence(line), ~Broken(line),
         NEW e \in 1 .. Len(line) + 1, NEW f \in 1 .. Len(line) + 1, NEW u \in f .. Len(line) + 1,
         Places(line, e, f, u)
  PROVE  KeyOf(line) = SubSeq(line, f, u - 1) /\ u <= e /\ (f = u => f = Len(line) + 1 \/ line[f] = "=")
<1> DEFINE n == Len(line)
           T == ToSet(line)
           key == SubSeq(line, 1, e - 1)
           S == T \ Blanks
<1>1. line \in Seq(T) /\ n \in Nat /\ \A i \in 1 .. n : line[i] \in T
  BY SequenceOf
<1>2. KeyOf(line) = Only(key, S)
  BY DEF KeyOf, Places
<1> HIDE DEF T
<1>3. key \in Seq(T) /\ Len(key) = e - 1 /\ \A i \in 1 .. e - 1 : key[i] = line[i]
  BY <1>1
<1>4. f <= e
  <2>1. ~Ink("=") <=> FALSE
    BY DEF Ink, Blanks
  <2>2. CASE e = n + 1
    BY <2>2
  <2>3. CASE line[e] = "="
    <3>1. e \notin 1 .. f - 1
      BY <2>1, <2>3 DEF Places
    <3> QED
      BY <1>1, <3>1
  <2> QED
    BY <2>2, <2>3 DEF Places
<1>5. u <= e
  <2>1. CASE e = n + 1
    BY <2>1
  <2>2. CASE line[e] = "="
    <3>1. e \notin f .. u - 1
      BY <2>2 DEF Places
    <3> QED
      BY <1>1, <1>4, <3>1
  <2> QED
    BY <2>1, <2>2 DEF Places
<1>6. ASSUME NEW i \in 1 .. f - 1 PROVE key[i] \notin S
  <2>1. i \in 1 .. e - 1
    BY <1>1, <1>4
  <2>2. ~Ink(line[i])
    BY DEF Places
  <2> QED
    BY <1>3, <2>1, <2>2 DEF Ink
<1>7. ASSUME NEW i \in f .. u - 1 PROVE key[i] \in S /\ Ink(key[i])
  <2>1. i \in 1 .. e - 1 /\ i \in 1 .. n
    BY <1>1, <1>5
  <2>2. line[i] \notin Blanks \cup {"="}
    BY DEF Places
  <2> QED
    BY <1>1, <1>3, <2>1, <2>2 DEF Ink
<1>8. ASSUME NEW i \in u .. e - 1 PROVE key[i] \notin S
  <2>1. u \in 1 .. e - 1 /\ i \in 1 .. e - 1 /\ u # n + 1
    BY <1>1, <1>8
  <2>2. line[u] \in Blanks
    BY <2>1 DEF Places
  <2>3. ~Ink(key[u])
    BY <1>3, <2>1, <2>2 DEF Ink
  <2>4. f < u /\ Ink(key[f]) /\ f \in 1 .. e - 1
    <3>1. f # u
      <4>1. f = n + 1 \/ Ink(line[f])
        BY DEF Places
      <4>2. ~Ink(line[u])
        BY <2>2 DEF Ink
      <4> QED
        BY <2>1, <4>1, <4>2
    <3>2. f < u /\ f \in f .. u - 1
      BY <1>1, <3>1
    <3>3. f \in 1 .. e - 1
      BY <1>1, <1>5, <3>2
    <3> QED
      BY <1>7, <3>2, <3>3
  <2>5. CASE i = u
    BY <2>3, <2>5 DEF Ink
  <2>6. CASE i # u
    <3>1. u < i
      BY <1>1, <2>1, <2>6
    <3>2. DOMAIN key = 1 .. e - 1
      BY <1>1, <1>3
    <3>3. Until(line, LAMBDA c : c = "=") = key
      BY DEF Places
    <3> HIDE DEF key
    <3>4. ~Ink(key[i])
      BY <2>1, <2>3, <2>4, <3>1, <3>2, <3>3 DEF Broken
    <3> QED
      BY <3>4 DEF Ink
  <2> QED
    BY <2>5, <2>6
<1>9. Only(key, S) = SubSeq(key, f, u - 1)
  <2>1. f \in 1 .. Len(key) + 1 /\ u - 1 \in f - 1 .. Len(key)
    BY <1>1, <1>3, <1>4, <1>5
  <2>2. \A i \in (u - 1) + 1 .. Len(key) : key[i] \notin S
    <3>1. (u - 1) + 1 = u
      BY <1>1
    <3> QED
      BY <1>3, <1>8, <3>1
  <2> HIDE DEF key, S
  <2> QED
    BY <1>3, <1>6, <1>7, <2>1, <2>2, OnlySpan
<1>10. SubSeq(key, f, u - 1) = SubSeq(line, f, u - 1)
  BY <1>1, <1>3, <1>5
<1>11. f = u => f = n + 1 \/ line[f] = "="
  BY DEF Places, Ink
<1> QED
  BY <1>2, <1>5, <1>9, <1>10, <1>11

\* So a line is found by a name when its key begins with it, and under that key.
LEMMA LineAgrees ==
  ASSUME NEW line, IsSequence(line), ~Broken(line), NEW name \in {"Appender.", "Logger."}
  PROVE  LET text == From(line, Ink)
         IN  /\ (text # <<>> /\ text[1] = name) <=> (KeyOf(line) # <<>> /\ KeyOf(line)[1] = name)
             /\ text # <<>> /\ text[1] = name =>
                  Until(text, LAMBDA c : c \in Blanks \cup {"="}) = KeyOf(line)
<1> DEFINE n == Len(line)
           T == ToSet(line)
           text == From(line, Ink)
<1>1. line \in Seq(T) /\ n \in Nat
  BY SequenceOf
<1>2. PICK e, f \in 1 .. n + 1 : \E u \in f .. n + 1 : Places(line, e, f, u)
  BY PlacesAre
<1>3. PICK u \in f .. n + 1 : Places(line, e, f, u)
  BY <1>2
<1>4. KeyOf(line) = SubSeq(line, f, u - 1) /\ (f = u => f = n + 1 \/ line[f] = "=")
  BY <1>3, KeyIsName
<1>5. text = SubSeq(line, f, n) /\ Until(text, LAMBDA c : c \in Blanks \cup {"="}) = SubSeq(line, f, u - 1)
  BY <1>3 DEF Places
<1> HIDE DEF text, T
<1>6. name # "="
  OBVIOUS
<1>7. f <= n => Len(SubSeq(line, f, n)) = n + 1 - f /\ SubSeq(line, f, n)[1] = line[f]
  BY <1>1
<1>8. f < u => Len(SubSeq(line, f, u - 1)) = u - f /\ SubSeq(line, f, u - 1)[1] = line[f]
  BY <1>1
<1>9. CASE f = u
  <2>1. SubSeq(line, f, u - 1) = <<>>
    BY <1>1, <1>9, SubSeqEmpty
  <2>2. text = <<>> \/ text[1] = "="
    <3>1. CASE f = n + 1
      BY <1>1, <1>5, <3>1, SubSeqEmpty
    <3>2. CASE f # n + 1
      <4>1. f <= n
        BY <1>1, <3>2
      <4> QED
        BY <1>4, <1>5, <1>7, <1>9, <3>2, <4>1
    <3> QED
      BY <3>1, <3>2
  <2> QED
    BY <1>4, <1>6, <2>1, <2>2 DEF text
<1>10. CASE f # u
  <2>1. f < u /\ f <= n
    BY <1>1, <1>10
  <2>2. SubSeq(line, f, u - 1) # <<>> /\ SubSeq(line, f, n) # <<>>
    <3>1. u - f # 0 /\ n + 1 - f # 0
      BY <1>1, <2>1
    <3>2. Len(<<>>) = 0
      BY EmptySeq
    <3> QED
      BY <1>7, <1>8, <2>1, <3>1, <3>2
  <2> QED
    BY <1>4, <1>5, <1>7, <1>8, <2>1, <2>2 DEF text
<1> QED
  BY <1>9, <1>10

\* The lines are sequences, and the map's keys are theirs.
Copies ==
  /\ IsSequence(configLineList) /\ \A line \in ToSet(configLineList) : IsSequence(line)
  /\ DOMAIN configMap = {KeyOf(line) : line \in ToSet(configLineList)}

\* A load makes both copies from the same lines.
LEMMA LoadCopies ==
  ASSUME NEW file \in Files \cup Edits \cup {Missing}, LoadInitial(file)
  PROVE  Copies'
<1>1. CASE file = Missing
  <2>1. configLineList' = <<>> /\ configMap' = <<>>
    BY <1>1 DEF LoadInitial
  <2>2. DOMAIN <<>> = {}
    OBVIOUS
  <2> QED
    BY <2>1, <2>2, NothingIsSequence, Zenon DEF Copies
<1>2. CASE file # Missing
  <2> DEFINE lines == Lines(file)
  <2>1. IsSequence(file) /\ \A line \in ToSet(file) : IsSequence(line)
    BY <1>2, LogAssumption
  <2>2. IsSequence(lines) /\ ToSet(lines) \subseteq ToSet(file)
    BY <2>1, OnlySequence DEF Lines
  <2>3. configLineList' = lines /\ configMap' = MapOf(lines)
    BY <1>2 DEF LoadInitial
  <2> HIDE DEF lines
  <2>4. DOMAIN MapOf(lines) = {KeyOf(line) : line \in ToSet(lines)}
    BY DEF MapOf
  <2> QED
    BY <2>1, <2>2, <2>3, <2>4 DEF Copies
<1> QED
  BY <1>1, <1>2

LEMMA CopiesStep == Copies /\ [Next]_vars => Copies'
<1> SUFFICES ASSUME Copies, [Next]_vars PROVE Copies'
  OBVIOUS
<1>1. CASE Start
  <2>1. PICK file \in Files \cup {Missing} : LoadInitial(file)
    BY <1>1 DEF Start
  <2> QED
    BY <2>1, LoadCopies
<1>2. CASE Reload
  <2>1. PICK file \in Edits \cup {Missing} : LoadInitial(file)
    BY <1>2 DEF Reload
  <2> QED
    BY <2>1, LoadCopies
<1>3. CASE UNCHANGED configVars
  BY <1>3 DEF configVars, Copies
<1> QED
  BY <1>1, <1>2, <1>3 DEF Next, vars, LoadFromConfig, CreateAppenderFromConfig, CreateAppenderFromGarbage,
     AppendersRead, CreateLoggerFromConfig, LoggersRead, CreateDefaults

LEMMA CopiesAgree == Copies => KeysAgree
<1> SUFFICES ASSUME Copies, \A line \in ToSet(configLineList) : ~Broken(line), NEW name \in {"Appender.", "Logger."}
             PROVE  ToSet(GetKeysByString(name)) = {key \in DOMAIN configMap : key # <<>> /\ key[1] = name}
  BY DEF KeysAgree
<1> DEFINE named == {line \in ToSet(configLineList) : From(line, Ink) # <<>> /\ From(line, Ink)[1] = name}
           lines == Only(configLineList, named)
           Name(line) == Until(From(line, Ink), LAMBDA c : c \in Blanks \cup {"="})
<1>1. ToSet(lines) = named
  BY OnlySequence DEF Copies
<1>2. GetKeysByString(name) = [i \in DOMAIN lines |-> Name(lines[i])]
  BY DEF GetKeysByString
<1> HIDE DEF lines
<1>3. ToSet(GetKeysByString(name)) = {Name(line) : line \in named}
  <2> HIDE DEF Name, named
  <2> QED
    BY <1>1, <1>2 DEF ToSet
<1>4. \A line \in ToSet(configLineList) :
        /\ line \in named <=> KeyOf(line) # <<>> /\ KeyOf(line)[1] = name
        /\ line \in named => Name(line) = KeyOf(line)
  BY LineAgrees DEF Copies
<1>5. named \subseteq ToSet(configLineList)
  OBVIOUS
<1>6. DOMAIN configMap = {KeyOf(line) : line \in ToSet(configLineList)}
  BY DEF Copies
<1> HIDE DEF named, Name
<1> QED
  BY <1>3, <1>4, <1>5, <1>6

\* Whatever the file says and however it is read again, a key that is listed can be looked
\* up, and one that can be looked up is listed, if no blank breaks it.
THEOREM CopiesOfConfigAgree == Spec => []KeysAgree
<1>1. Init => Copies
  BY NothingIsSequence DEF Init, Copies
<1> QED
  BY <1>1, CopiesStep, CopiesAgree, PTL DEF Spec

(***************************************************************************)
(* What the configuration says.                                            *)
(***************************************************************************)
Kinds == {"appender", "logger"}
KeyName(kind) == IF kind = "appender" THEN "Appender." ELSE "Logger."
KeyFor(kind, name) == <<KeyName(kind)>> \o name

\* The lines of a kind, and of a name.
OfKind(kind) == {l \in DOMAIN Meant : Meant[l].kind = kind}
OfName(name) == {l \in DOMAIN Meant : Meant[l].name = name}

\* The first line of a kind and a name.
FirstLine(kind, name) == Only(loaded, OfKind(kind) \cap OfName(name))[1]

\* The entries of a kind are what its lines mean, in order.
LEMMA EntriesAre ==
  ASSUME IsSequence(loaded), NEW kind
  PROVE  LET lines == Only(loaded, OfKind(kind))
         IN  /\ IsSequence(lines) /\ ToSet(lines) = ToSet(loaded) \cap OfKind(kind)
             /\ Len(Entries(kind)) = Len(lines) /\ Len(lines) \in Nat
             /\ DOMAIN Entries(kind) = 1 .. Len(lines) /\ DOMAIN lines = 1 .. Len(lines)
             /\ \A i \in 1 .. Len(lines) : lines[i] \in OfKind(kind) /\ Entries(kind)[i] = Meant[lines[i]]
<1> DEFINE lines == Only(loaded, OfKind(kind))
           E == Entries(kind)
<1>1. IsSequence(lines) /\ ToSet(lines) = ToSet(loaded) \cap OfKind(kind)
  BY OnlySequence
<1>2. E = [i \in DOMAIN lines |-> Meant[lines[i]]]
  BY DEF Entries, OfKind
<1> HIDE DEF lines, E
<1>3. Len(lines) \in Nat /\ DOMAIN lines = 1 .. Len(lines) /\ \A i \in 1 .. Len(lines) : lines[i] \in ToSet(lines)
  BY <1>1, SequenceOf
<1>4. DOMAIN E = 1 .. Len(lines) /\ \A i \in 1 .. Len(lines) : E[i] = Meant[lines[i]]
  BY <1>2, <1>3
<1>5. Len(E) = Len(lines)
  <2>1. E = [i \in 1 .. Len(lines) |-> Meant[lines[i]]]
    BY <1>2, <1>3
  <2> DEFINE R == {Meant[lines[i]] : i \in 1 .. Len(lines)}
  <2>2. \A i \in 1 .. Len(lines) : Meant[lines[i]] \in R
    OBVIOUS
  <2> HIDE DEF R
  <2>3. E \in Seq(R)
    BY <1>3, <2>1, <2>2, SeqDef
  <2> QED
    BY <1>3, <1>4, <2>3, LenProperties
<1> QED
  BY <1>1, <1>3, <1>4, <1>5 DEF lines, E

\* The first entry with a name is what the first line of that kind and name means.
LEMMA FirstEntry ==
  ASSUME IsSequence(loaded), NEW kind, NEW i \in 1 .. Len(Entries(kind))
  PROVE  LET name == Entries(kind)[i].name
         IN  /\ First(Entries(kind), name) = Meant[FirstLine(kind, name)]
             /\ FirstLine(kind, name) \in OfKind(kind) \cap OfName(name)
<1> DEFINE lines == Only(loaded, OfKind(kind))
           E == Entries(kind)
           name == E[i].name
           N == OfName(name)
           I == {j \in 1 .. Len(E) : E[j].name = name}
<1>1. /\ IsSequence(lines) /\ Len(E) = Len(lines) /\ Len(lines) \in Nat
      /\ \A j \in 1 .. Len(lines) : lines[j] \in OfKind(kind) /\ E[j] = Meant[lines[j]]
  BY EntriesAre
<1>2. First(E, name) = E[IF I # {} THEN Min(I) ELSE 0]
  BY DEF First, SelectInSeq
<1> HIDE DEF lines, E, name
<1>3. Min(I) \in I /\ \A j \in I : Min(I) <= j
  <2>1. i \in I
    BY DEF name, E
  <2>2. I \subseteq Nat /\ I # {}
    BY <1>1, <2>1
  <2> QED
    BY <2>2, MinIs
<1>4. PICK m \in 1 .. Len(lines) : m = Min(I) /\ E[m].name = name /\ \A j \in 1 .. m - 1 : E[j].name # name
  <2>1. Min(I) \in 1 .. Len(lines) /\ E[Min(I)].name = name
    BY <1>1, <1>3
  <2>2. ASSUME NEW j \in 1 .. Min(I) - 1 PROVE E[j].name # name
    <3>1. j \in 1 .. Len(E) /\ ~(Min(I) <= j)
      BY <1>1, <2>1
    <3>2. j \notin I
      BY <1>3, <3>1
    <3> QED
      BY <3>1, <3>2
  <2> QED
    BY <2>1, <2>2
<1>5. First(E, name) = E[m]
  BY <1>2, <1>3, <1>4
<1> HIDE DEF I
<1>6. lines[m] \in N /\ lines[m] \in OfKind(kind) /\ First(E, name) = Meant[lines[m]]
  BY <1>1, <1>4, <1>5 DEF OfName, OfKind
<1>7. \A j \in 1 .. m - 1 : lines[j] \notin N
  <2> TAKE j \in 1 .. m - 1
  <2>1. j \in 1 .. Len(lines)
    BY <1>1
  <2> QED
    BY <1>1, <1>4, <2>1 DEF OfName
<1>8. Only(lines, N)[1] = lines[m]
  <2> HIDE DEF N
  <2>1. IsSequence(lines) /\ lines[m] \in N
    BY <1>1, <1>6
  <2>2. \A j \in 1 .. m - 1 : lines[j] \notin N
    BY <1>7
  <2>3. lines \in Seq(ToSet(lines))
    BY <1>1, SequenceOf
  <2> QED
    BY <2>1, <2>2, <2>3, OnlyFirst
<1>9. Only(lines, N) = Only(loaded, OfKind(kind) \cap N)
  <2>1. loaded \in Seq(ToSet(loaded))
    BY SequenceOf
  <2> HIDE DEF N
  <2> QED
    BY <2>1, OnlyTwice DEF lines
<1> QED
  BY <1>6, <1>8, <1>9 DEF FirstLine, E, name

\* Two keys are the same when their names and what comes before are.
LEMMA SameKey ==
  ASSUME NEW x, IsSequence(x), NEW y, IsSequence(y), NEW a, NEW b, <<a>> \o x = <<b>> \o y
  PROVE  a = b /\ x = y
<1> DEFINE U == ToSet(x) \cup ToSet(y)
<1>1. x \in Seq(U) /\ y \in Seq(U)
  <2>1. /\ x \in Seq(ToSet(x)) /\ \A i \in 1 .. Len(x) : x[i] \in ToSet(x)
        /\ y \in Seq(ToSet(y)) /\ \A i \in 1 .. Len(y) : y[i] \in ToSet(y)
    BY SequenceOf
  <2> QED
    BY <2>1
<1> HIDE DEF U
<1>2. /\ Len(<<a>> \o x) = Len(x) + 1 /\ (<<a>> \o x)[1] = a
      /\ \A i \in 1 .. Len(x) : (<<a>> \o x)[i + 1] = x[i]
  BY <1>1
<1>3. /\ Len(<<b>> \o y) = Len(y) + 1 /\ (<<b>> \o y)[1] = b
      /\ \A i \in 1 .. Len(y) : (<<b>> \o y)[i + 1] = y[i]
  BY <1>1
<1>4. Len(x) \in Nat /\ Len(y) \in Nat
  BY <1>1
<1>5. Len(x) = Len(y)
  BY <1>2, <1>3, <1>4
<1>6. \A i \in 1 .. Len(x) : x[i] = y[i]
  BY <1>2, <1>3, <1>5
<1>7. x = y
  BY <1>1, <1>5, <1>6, SeqEqual
<1> QED
  BY <1>2, <1>3, <1>7

\* The key that a well-formed line is filed under.
LEMMA KeyIs ==
  ASSUME MeantAsRead, NEW l \in DOMAIN Meant, NEW kind \in Kinds
  PROVE  /\ KeyOf(l) # <<>> /\ IsSequence(Meant[l].name) /\ Meant[l].name # <<>>
         /\ KeyOf(l) = KeyFor(Meant[l].kind, Meant[l].name)
         /\ KeyOf(l)[1] = KeyName(kind) <=> Meant[l].kind = kind
         /\ \A name : IsSequence(name) => (KeyOf(l) = KeyFor(kind, name) <=> Meant[l].kind = kind /\ Meant[l].name = name)
<1> DEFINE e == Meant[l]
           x == e.name
<1>1. e.kind \in Kinds
  BY LogAssumption DEF Kinds
<1>2. ReadsAs(l, e)
  BY DEF MeantAsRead
<1>3. IsSequence(x) /\ x # <<>> /\ KeyOf(l) = KeyFor(e.kind, x)
  BY <1>1, <1>2 DEF ReadsAs, Kinds, KeyFor, KeyName
<1>4. KeyName(kind) = KeyName(e.kind) <=> e.kind = kind
  BY <1>1 DEF KeyName, Kinds
<1> HIDE DEF x
<1>5. KeyOf(l) # <<>> /\ KeyOf(l)[1] = KeyName(e.kind)
  <2> DEFINE a == KeyName(e.kind)
             k == <<a>> \o x
  <2>1. x \in Seq(ToSet(x)) /\ Len(x) \in Nat
    BY <1>3, SequenceOf
  <2> HIDE DEF a
  <2>2. Len(k) = Len(x) + 1 /\ k[1] = a
    BY <2>1
  <2>3. k # <<>>
    <3> HIDE DEF k
    <3>1. Len(k) # 0
      BY <2>1, <2>2
    <3> QED
      BY <3>1, EmptySeq
  <2> QED
    BY <1>3, <2>2, <2>3 DEF KeyFor, a
<1>6. ASSUME NEW name, IsSequence(name), KeyFor(e.kind, x) = KeyFor(kind, name)
      PROVE  e.kind = kind /\ x = name
  <2>1. <<KeyName(e.kind)>> \o x = <<KeyName(kind)>> \o name
    BY <1>6 DEF KeyFor
  <2>2. KeyName(e.kind) = KeyName(kind) /\ x = name
    BY <1>3, <1>6, <2>1, SameKey
  <2> QED
    BY <1>4, <2>2
<1>7. \A name : IsSequence(name) => (KeyOf(l) = KeyFor(kind, name) <=> e.kind = kind /\ x = name)
  BY <1>3, <1>6
<1> QED
  BY <1>3, <1>4, <1>5, <1>7 DEF x

\* The lines that are kept are those of the entries, and comments.
Kept == {line \in ToSet(loaded) : line # <<>> /\ line[1] # "#"}

\* In a valid file the lines that are not skipped are those of the entries.
LEMMA KeptIs ==
  ASSUME MeantAsRead, Valid, NEW line \in ToSet(loaded)
  PROVE  line \in Kept <=> line \in DOMAIN Meant
<1>1. line \in DOMAIN Meant => line # <<>> /\ line[1] # "#"
  <2> SUFFICES ASSUME line \in DOMAIN Meant PROVE line # <<>> /\ line[1] # "#"
    OBVIOUS
  <2>1. ReadsAs(line, Meant[line])
    BY DEF MeantAsRead
  <2> QED
    BY <2>1 DEF ReadsAs
<1>2. line = <<>> \/ line[1] = "#" \/ line \in DOMAIN Meant
  BY DEF Valid
<1> QED
  BY <1>1, <1>2 DEF Kept

\* The value looked up under an entry's key is that of the first line of its kind and name:
\* insert (Config.cpp) keeps the first.
LEMMA ValueRead ==
  ASSUME MeantAsRead, Valid, IsSequence(loaded), NEW kind \in Kinds, NEW i \in 1 .. Len(Entries(kind))
  PROVE  LET name == Entries(kind)[i].name
             map  == MapOf(Lines(loaded))
         IN  KeyFor(kind, name) \in DOMAIN map /\ map[KeyFor(kind, name)] = ValueOf(FirstLine(kind, name))
<1> DEFINE name  == Entries(kind)[i].name
           key   == KeyFor(kind, name)
           lines == Lines(loaded)
           its   == Only(loaded, OfKind(kind))
           K     == {line \in ToSet(loaded) : KeyOf(line) = key}
           J     == {j \in 1 .. Len(lines) : KeyOf(lines[j]) = key}
<1>1. its[i] \in ToSet(loaded) /\ its[i] \in OfKind(kind) /\ Entries(kind)[i] = Meant[its[i]]
  <2>1. /\ IsSequence(its) /\ ToSet(its) = ToSet(loaded) \cap OfKind(kind)
        /\ Len(Entries(kind)) = Len(its)
        /\ \A j \in 1 .. Len(its) : its[j] \in OfKind(kind) /\ Entries(kind)[j] = Meant[its[j]]
    BY EntriesAre
  <2> HIDE DEF its
  <2>2. i \in 1 .. Len(its)
    BY <2>1
  <2>3. its[i] \in ToSet(its)
    BY <2>1, <2>2, SequenceOf
  <2> QED
    BY <2>1, <2>2, <2>3
<1>2. IsSequence(name) /\ its[i] \in DOMAIN Meant /\ KeyOf(its[i]) = key
  <2>1. its[i] \in DOMAIN Meant /\ Meant[its[i]].kind = kind /\ Meant[its[i]].name = name
    BY <1>1 DEF OfKind
  <2> HIDE DEF its, name
  <2>2. IsSequence(Meant[its[i]].name) /\ KeyOf(its[i]) = KeyFor(Meant[its[i]].kind, Meant[its[i]].name)
    BY <2>1, KeyIs
  <2> QED
    BY <2>1, <2>2
<1> HIDE DEF its, name
<1>3. lines = Only(loaded, Kept)
  BY DEF Lines, Kept
<1>4. IsSequence(lines) /\ ToSet(lines) = Kept
  <2>1. IsSequence(lines) /\ ToSet(lines) = ToSet(loaded) \cap Kept
    BY <1>3, OnlySequence
  <2> QED
    BY <2>1 DEF Kept
<1>5. /\ DOMAIN MapOf(lines) = {KeyOf(line) : line \in ToSet(lines)}
      /\ key \in DOMAIN MapOf(lines) => MapOf(lines)[key] = ValueOf(lines[IF J # {} THEN Min(J) ELSE 0])
  BY DEF MapOf, SelectInSeq
<1>6. its[i] \in ToSet(lines)
  BY <1>1, <1>2, <1>4, KeptIs
<1> HIDE DEF lines, key
<1>7. key \in DOMAIN MapOf(lines)
  BY <1>2, <1>5, <1>6
<1>8. lines \in Seq(ToSet(lines)) /\ Len(lines) \in Nat /\ DOMAIN lines = 1 .. Len(lines)
      /\ \A j \in 1 .. Len(lines) : lines[j] \in ToSet(lines)
  BY <1>4, SequenceOf
<1>9. Min(J) \in J /\ \A j \in J : Min(J) <= j
  <2>1. PICK j \in 1 .. Len(lines) : lines[j] = its[i]
    BY <1>6, <1>8 DEF ToSet
  <2>2. j \in J /\ J \subseteq Nat
    BY <1>2, <2>1
  <2> HIDE DEF J
  <2> QED
    BY <2>2, MinIs
<1>10. PICK m \in 1 .. Len(lines) : m = Min(J) /\ KeyOf(lines[m]) = key /\ \A j \in 1 .. m - 1 : KeyOf(lines[j]) # key
  <2>1. Min(J) \in 1 .. Len(lines) /\ KeyOf(lines[Min(J)]) = key
    BY <1>9
  <2>2. ASSUME NEW j \in 1 .. Min(J) - 1 PROVE KeyOf(lines[j]) # key
    <3>1. j \in 1 .. Len(lines) /\ ~(Min(J) <= j)
      BY <1>8, <2>1
    <3>2. j \notin J
      BY <1>9, <3>1
    <3> QED
      BY <3>1, <3>2
  <2> QED
    BY <2>1, <2>2
<1>11. MapOf(lines)[key] = ValueOf(lines[m])
  BY <1>5, <1>7, <1>9, <1>10
<1> HIDE DEF J
<1>12. lines[m] \in K /\ \A j \in 1 .. m - 1 : lines[j] \notin K
  <2>1. lines[m] \in ToSet(loaded)
    BY <1>4, <1>8 DEF Kept
  <2> QED
    BY <1>10, <2>1
<1>13. Only(lines, K)[1] = lines[m]
  <2> HIDE DEF K
  <2> QED
    BY <1>8, <1>12, OnlyFirst
<1>14. Only(lines, K) = Only(loaded, OfKind(kind) \cap OfName(name))
  <2>1. Only(lines, K) = Only(loaded, Kept \cap K)
    <3>1. loaded \in Seq(ToSet(loaded))
      BY SequenceOf
    <3> HIDE DEF K
    <3> QED
      BY <1>3, <3>1, OnlyTwice
  <2>2. ASSUME NEW line \in ToSet(loaded)
        PROVE  line \in Kept \cap K <=> line \in OfKind(kind) \cap OfName(name)
    <3>1. line \in Kept <=> line \in DOMAIN Meant
      BY KeptIs
    <3>2. line \in DOMAIN Meant => (KeyOf(line) = key <=> Meant[line].kind = kind /\ Meant[line].name = name)
      BY <1>2, KeyIs DEF key
    <3> QED
      BY <3>1, <3>2 DEF OfKind, OfName
  <2> DEFINE A == Kept \cap K
             B == OfKind(kind) \cap OfName(name)
  <2>3. A \cap ToSet(loaded) = B \cap ToSet(loaded)
    BY <2>2
  <2> HIDE DEF A, B
  <2>4. Only(loaded, A) = Only(loaded, B)
    BY <2>3, OnlySame
  <2> QED
    BY <2>1, <2>4 DEF A, B
<1>15. MapOf(lines)[key] = ValueOf(FirstLine(kind, name))
  BY <1>11, <1>13, <1>14 DEF FirstLine
<1> QED
  BY <1>7, <1>15 DEF lines, key, name

\* The keys that are listed for a kind are its entries', in order.
KeysOf(kind) == [i \in 1 .. Len(Entries(kind)) |-> KeyFor(kind, Entries(kind)[i].name)]

\* The lines list the entries' keys, in order.
LEMMA KeysListed ==
  ASSUME MeantAsRead, Valid, IsSequence(loaded), configLineList = Lines(loaded), NEW kind \in Kinds
  PROVE  GetKeysByString(KeyName(kind)) = KeysOf(kind)
<1> DEFINE name  == KeyName(kind)
           lines == Lines(loaded)
           R     == {line \in ToSet(lines) : From(line, Ink) # <<>> /\ From(line, Ink)[1] = name}
           named == Only(lines, R)
           its   == Only(loaded, OfKind(kind))
           Found(line) == Until(From(line, Ink), LAMBDA c : c \in Blanks \cup {"="})
<1>1. GetKeysByString(name) = [i \in DOMAIN named |-> Found(named[i])]
  BY DEF GetKeysByString
<1>2. ToSet(lines) = Kept /\ lines = Only(loaded, Kept)
  <2>1. lines = Only(loaded, Kept)
    BY DEF Lines, Kept
  <2>2. ToSet(Only(loaded, Kept)) = ToSet(loaded) \cap Kept
    BY OnlySequence
  <2> QED
    BY <2>1, <2>2 DEF Kept
<1>3. name \in {"Appender.", "Logger."}
  BY DEF KeyName
<1>4. ASSUME NEW line \in ToSet(loaded)
      PROVE  /\ line \in Kept \cap R <=> line \in OfKind(kind)
             /\ line \in OfKind(kind) => Found(line) = KeyFor(kind, Meant[line].name)
  <2>1. line \in Kept <=> line \in DOMAIN Meant
    BY KeptIs
  <2>2. ASSUME line \in DOMAIN Meant
        PROVE  /\ line \in R <=> Meant[line].kind = kind
               /\ line \in R => Found(line) = KeyOf(line)
               /\ KeyOf(line) = KeyFor(Meant[line].kind, Meant[line].name)
    <3>1. IsSequence(line) /\ ~Broken(line)
      BY <2>2 DEF MeantAsRead, ReadsAs
    <3>2. /\ (From(line, Ink) # <<>> /\ From(line, Ink)[1] = name) <=> (KeyOf(line) # <<>> /\ KeyOf(line)[1] = name)
          /\ From(line, Ink) # <<>> /\ From(line, Ink)[1] = name => Found(line) = KeyOf(line)
      BY <1>3, <3>1, LineAgrees
    <3>3. /\ KeyOf(line) # <<>>
          /\ KeyOf(line)[1] = KeyName(kind) <=> Meant[line].kind = kind
          /\ KeyOf(line) = KeyFor(Meant[line].kind, Meant[line].name)
      BY <2>2, KeyIs
    <3>4. line \in ToSet(lines)
      BY <1>2, <2>1, <2>2
    <3> HIDE DEF Found, lines
    <3> QED
      BY <3>2, <3>3, <3>4
  <2> HIDE DEF R, Found
  <2> QED
    BY <2>1, <2>2 DEF OfKind
<1> HIDE DEF R, Found
<1>5. named = its
  <2>1. named = Only(loaded, Kept \cap R)
    <3>1. loaded \in Seq(ToSet(loaded))
      BY SequenceOf
    <3> HIDE DEF lines
    <3> QED
      BY <1>2, <3>1, OnlyTwice
  <2> DEFINE A == Kept \cap R
             B == OfKind(kind)
  <2>2. A \cap ToSet(loaded) = B \cap ToSet(loaded)
    BY <1>4
  <2> HIDE DEF A, B
  <2>3. Only(loaded, A) = Only(loaded, B)
    BY <2>2, OnlySame
  <2> QED
    BY <2>1, <2>3 DEF A, B
<1>6. /\ IsSequence(its) /\ ToSet(its) = ToSet(loaded) \cap OfKind(kind)
      /\ Len(Entries(kind)) = Len(its) /\ DOMAIN its = 1 .. Len(its)
      /\ \A i \in 1 .. Len(its) : its[i] \in OfKind(kind) /\ Entries(kind)[i] = Meant[its[i]]
  BY EntriesAre
<1> HIDE DEF its, named
<1>7. \A i \in 1 .. Len(its) : Found(its[i]) = KeyFor(kind, Entries(kind)[i].name)
  <2> TAKE i \in 1 .. Len(its)
  <2>1. its[i] \in ToSet(its)
    BY <1>6, SequenceOf
  <2>2. its[i] \in ToSet(loaded) /\ its[i] \in OfKind(kind)
    BY <1>6, <2>1
  <2> QED
    BY <1>4, <1>6, <2>2
<1>8. GetKeysByString(name) = [i \in 1 .. Len(its) |-> Found(its[i])]
  BY <1>1, <1>5, <1>6
<1> QED
  BY <1>6, <1>7, <1>8 DEF KeysOf

\* What CreateAppenderFromConfig and CreateLoggerFromConfig read under a key: the options of
\* the first entry of its name.
LEMMA OptionsRead ==
  ASSUME MeantAsRead, Valid, IsSequence(loaded), configMap = MapOf(Lines(loaded)),
         NEW kind \in Kinds, NEW i \in 1 .. Len(Entries(kind))
  PROVE  LET name   == Entries(kind)[i].name
             e      == First(Entries(kind), name)
             tokens == Options(KeyFor(kind, name))
         IN  /\ Tail(KeyFor(kind, name)) = name /\ name # <<>> /\ e.level \in DISABLED .. FATAL
             /\ kind = "appender" =>
                  /\ Len(tokens) >= 2 /\ atoi(tokens[1]) \in {CONSOLE, FILE, DB}
                  /\ atoi(tokens[1]) = FILE => Len(tokens) >= 4
                  /\ e.level = atoi(tokens[2])
             /\ kind = "logger" => Len(tokens) = 2 /\ e.level = atoi(tokens[1]) /\ e.list = Words(tokens[2])
<1> DEFINE name   == Entries(kind)[i].name
           e      == First(Entries(kind), name)
           tokens == Options(KeyFor(kind, name))
           line   == FirstLine(kind, name)
<1>1. e = Meant[line] /\ line \in OfKind(kind) \cap OfName(name)
  BY FirstEntry
<1>2. configMap[KeyFor(kind, name)] = ValueOf(line) /\ KeyFor(kind, name) \in DOMAIN configMap
  BY ValueRead
<1>3. tokens = Tokenizer(ValueOf(line), ",")
  BY <1>2 DEF Options, GetStringDefault
<1> HIDE DEF e, line, name, tokens
<1>4. line \in DOMAIN Meant /\ e.kind = kind /\ e.name = name
  BY <1>1 DEF OfKind, OfName
<1>5. ReadsAs(line, e)
  BY <1>1, <1>4 DEF MeantAsRead
<1>6. IsSequence(name) /\ name # <<>>
  BY <1>4, <1>5 DEF ReadsAs
<1>7. Tail(KeyFor(kind, name)) = name
  <2> DEFINE a == KeyName(kind)
             T == ToSet(name) \cup {a}
  <2>1. name \in Seq(ToSet(name))
    BY <1>6, SequenceOf
  <2>2. name \in Seq(T) /\ a \in T
    BY <2>1
  <2> HIDE DEF a, T
  <2>3. Tail(<<a>> \o name) = name
    BY <2>2
  <2> QED
    BY <2>3 DEF KeyFor, a
<1>8. e.level \in DISABLED .. FATAL
  BY <1>4, <1>5 DEF ReadsAs, Kinds
<1>9. /\ kind = "appender" =>
           /\ Len(tokens) >= 2 /\ atoi(tokens[1]) \in {CONSOLE, FILE, DB}
           /\ atoi(tokens[1]) = FILE => Len(tokens) >= 4
           /\ e.level = atoi(tokens[2])
      /\ kind = "logger" => Len(tokens) = 2 /\ e.level = atoi(tokens[1]) /\ e.list = Words(tokens[2])
  BY <1>3, <1>4, <1>5 DEF ReadsAs
<1> QED
  BY <1>6, <1>7, <1>8, <1>9 DEF e, name, tokens

(***************************************************************************)
(* The log is as the configuration says.                                   *)
(***************************************************************************)
\* The first k entries are appenders, with the ids in order, and loggers.
AppendersOf(entries, k) ==
  /\ DOMAIN appenders = 0 .. k - 1
  /\ \A i \in 1 .. k : appenders[i - 1] = [name |-> entries[i].name, level |-> First(entries, entries[i].name).level]

LoggersOf(entries, k) ==
  /\ DOMAIN loggers = {entries[i].name : i \in 1 .. k}
  /\ \A n \in DOMAIN loggers :
       /\ loggers[n].name = n /\ loggers[n].level = First(entries, n).level
       /\ loggers[n].appenders \in Picks(First(entries, n).list)

\* Those after the k-th are still to be read.
Left(kind, k) == keys = SubSeq(KeysOf(kind), k + 1, Len(Entries(kind)))

\* What is read comes from one file ...
FileRead ==
  /\ phase \notin {"start", "exited"} => loaded \in Files \cup Edits
  /\ phase \in {"loaded", "appenders", "loggers"} =>
       configLineList = Lines(loaded) /\ configMap = MapOf(Lines(loaded))

\* ... whose entries are made one by one, the appenders first and each with an id of its
\* own, as long as there are ids.
EntriesMade ==
  LET A == Entries("appender")
      L == Entries("logger")
  IN  /\ phase = "appenders" /\ Valid =>
           /\ loggers = <<>>
           /\ \E k \in 0 .. Len(A) :
                Left("appender", k) /\ AppendersOf(A, k) /\ (k < IdRange => AppenderId = k)
      /\ phase = "loggers" /\ Valid =>
           AppendersOf(A, Len(A)) /\ \E k \in 0 .. Len(L) : Left("logger", k) /\ LoggersOf(L, k)
      /\ phase = "ready" /\ Valid => AppendersOf(A, Len(A)) /\ LoggersOf(L, Len(L))

LEMMA FileReadStep == FileRead /\ [Next]_vars => FileRead'
<1> SUFFICES ASSUME FileRead, [Next]_vars PROVE FileRead'
  OBVIOUS
<1>1. CASE Start
  <2>1. PICK file \in Files \cup {Missing} :
          LoadInitial(file) /\ phase' = (IF file = Missing THEN "exited" ELSE "loaded") /\ loaded' = file
    BY <1>1 DEF Start
  <2>2. CASE file = Missing
    BY <2>1, <2>2 DEF FileRead
  <2>3. CASE file # Missing
    BY <2>1, <2>3 DEF FileRead, LoadInitial
  <2> QED
    BY <2>2, <2>3
<1>2. CASE Reload
  <2>1. PICK file \in Edits \cup {Missing} :
          /\ LoadInitial(file) /\ phase = "ready" /\ phase' = (IF file = Missing THEN "ready" ELSE "loaded")
          /\ loaded' = (IF file = Missing THEN loaded ELSE file)
    BY <1>2 DEF Reload
  <2>2. CASE file = Missing
    BY <2>1, <2>2 DEF FileRead
  <2>3. CASE file # Missing
    BY <2>1, <2>3 DEF FileRead, LoadInitial
  <2> QED
    BY <2>2, <2>3
<1>3. CASE UNCHANGED <<configVars, loaded>> /\ phase # "start" /\ phase # "exited"
           /\ (phase' \in {"loaded", "appenders", "loggers"} => phase \in {"loaded", "appenders", "loggers"})
  BY <1>3 DEF FileRead, configVars
<1>4. CASE UNCHANGED vars
  BY <1>4 DEF FileRead, configVars, vars
<1> QED
  BY <1>1, <1>2, <1>3, <1>4 DEF Next, LoadFromConfig, CreateAppenderFromConfig, CreateAppenderFromGarbage,
     AppendersRead, CreateLoggerFromConfig, LoggersRead, CreateDefaults

\* What the entries are does not change while they are read.
LEMMA SameFile ==
  ASSUME loaded' = loaded
  PROVE  /\ \A kind : Entries(kind)' = Entries(kind) /\ KeysOf(kind)' = KeysOf(kind)
         /\ Valid' = Valid
  BY DEF Entries, KeysOf, Valid

\* What is made of any entries stays so while the log does not change.
LEMMA StillMade ==
  ASSUME UNCHANGED <<appenders, loggers>>
  PROVE  \A E, k : /\ AppendersOf(E, k) => AppendersOf(E, k)'
                   /\ LoggersOf(E, k) => LoggersOf(E, k)'
<1> SUFFICES ASSUME NEW E, NEW k
             PROVE  /\ AppendersOf(E, k) => AppendersOf(E, k)'
                    /\ LoggersOf(E, k) => LoggersOf(E, k)'
  OBVIOUS
<1>1. AppendersOf(E, k) => AppendersOf(E, k)'
  BY DEF AppendersOf
<1>2. \A list : Picks(list)' = Picks(list)
  BY DEF Picks, Named
<1>3. ASSUME LoggersOf(E, k) PROVE LoggersOf(E, k)'
  <2>1. DOMAIN loggers' = {E[i].name : i \in 1 .. k}
    BY <1>3 DEF LoggersOf
  <2>2. ASSUME NEW n \in DOMAIN loggers'
        PROVE  /\ loggers'[n].name = n /\ loggers'[n].level = First(E, n).level
               /\ loggers'[n].appenders \in Picks(First(E, n).list)
    BY <1>3 DEF LoggersOf
  <2> QED
    BY <1>2, <2>1, <2>2 DEF LoggersOf
<1> QED
  BY <1>1, <1>3

\* The file read is a sequence of lines.
LEMMA FileIs ==
  ASSUME FileRead, phase \notin {"start", "exited"}
  PROVE  IsSequence(loaded) /\ \A kind : Len(Entries(kind)) \in Nat
<1>1. IsSequence(loaded)
  BY LogAssumption DEF FileRead
<1>2. ASSUME NEW kind PROVE Len(Entries(kind)) \in Nat
  BY <1>1, EntriesAre
<1> QED
  BY <1>1, <1>2

\* The keys still to be read: the next one is the next entry's.
LEMMA NextLeft ==
  ASSUME NEW kind, Len(Entries(kind)) \in Nat, NEW k \in 0 .. Len(Entries(kind)), Left(kind, k)
  PROVE  /\ keys = <<>> <=> k = Len(Entries(kind))
         /\ k < Len(Entries(kind)) =>
              /\ k + 1 \in 1 .. Len(Entries(kind))
              /\ Head(keys) = KeyFor(kind, Entries(kind)[k + 1].name)
              /\ Tail(keys) = SubSeq(KeysOf(kind), k + 2, Len(Entries(kind)))
<1> DEFINE n == Len(Entries(kind))
           all == KeysOf(kind)
           T == {all[i] : i \in 1 .. n}
<1>1. n \in Nat /\ k \in 0 .. n
  OBVIOUS
<1>2. all \in Seq(T) /\ Len(all) = n /\ \A i \in 1 .. n : all[i] = KeyFor(kind, Entries(kind)[i].name)
  <2>1. all = [i \in 1 .. n |-> KeyFor(kind, Entries(kind)[i].name)]
    BY DEF KeysOf
  <2>2. all = [i \in 1 .. n |-> all[i]] /\ \A i \in 1 .. n : all[i] \in T
    BY <2>1
  <2> HIDE DEF T
  <2>3. all \in Seq(T)
    <3> HIDE DEF all, n
    <3> QED
      BY <1>1, <2>2, SeqDef
  <2>4. DOMAIN all = 1 .. n
    BY <2>1
  <2> HIDE DEF all, n
  <2>5. Len(all) = n
    BY <1>1, <2>3, <2>4, LenProperties
  <2> QED
    BY <2>1, <2>3, <2>5
<1>3. keys = SubSeq(all, k + 1, n)
  BY DEF Left
<1> HIDE DEF all, T, n
<1>4. keys \in Seq(T) /\ Len(keys) = n - k /\ \A i \in 1 .. n - k : keys[i] = all[k + i]
  BY <1>1, <1>2, <1>3
<1>5. keys = <<>> <=> k = n
  <2>1. keys = <<>> <=> Len(keys) = 0
    BY <1>4, EmptySeq
  <2> QED
    BY <1>1, <1>4, <2>1
<1>6. ASSUME k < n PROVE k + 1 \in 1 .. n /\ Head(keys) = all[k + 1] /\ Tail(keys) = SubSeq(all, k + 2, n)
  <2>1. k + 1 \in 1 .. n /\ 1 \in 1 .. n - k /\ keys # <<>>
    BY <1>1, <1>5, <1>6
  <2>2. Head(keys) = all[k + 1]
    BY <1>4, <2>1
  <2>3. Tail(keys) = SubSeq(all, k + 2, n)
    <3> DEFINE a == Tail(keys)
               b == SubSeq(all, k + 2, n)
    <3>1. a \in Seq(T) /\ Len(a) = n - k - 1 /\ \A i \in 1 .. n - k - 1 : a[i] = keys[i + 1]
      BY <1>1, <1>4, <2>1
    <3>2. b \in Seq(T) /\ Len(b) = n - k - 1 /\ \A i \in 1 .. n - k - 1 : b[i] = all[k + 1 + i]
      BY <1>1, <1>2, <2>1
    <3>3. \A i \in 1 .. n - k - 1 : a[i] = b[i]
      <4> HIDE DEF a, b
      <4> TAKE i \in 1 .. n - k - 1
      <4>1. i + 1 \in 1 .. n - k /\ k + (i + 1) = k + 1 + i
        BY <1>1
      <4> QED
        BY <1>4, <3>1, <3>2, <4>1
    <3> HIDE DEF a, b
    <3>4. a = b
      BY <3>1, <3>2, <3>3, SeqEqual
    <3> QED
      BY <3>4 DEF a, b
  <2> QED
    BY <2>1, <2>2, <2>3
<1> QED
  BY <1>2, <1>5, <1>6 DEF all, n

\* At first all are.
LEMMA AllLeft ==
  ASSUME NEW kind, Len(Entries(kind)) \in Nat
  PROVE  KeysOf(kind) = SubSeq(KeysOf(kind), 0 + 1, Len(Entries(kind)))
<1> DEFINE n == Len(Entries(kind))
           all == KeysOf(kind)
           T == {all[i] : i \in 1 .. n}
<1>1. all = [i \in 1 .. n |-> all[i]] /\ DOMAIN all = 1 .. n
  BY DEF KeysOf
<1>2. \A i \in 1 .. n : all[i] \in T
  OBVIOUS
<1> HIDE DEF all, n, T
<1>3. n \in Nat
  BY DEF n
<1>4. all \in Seq(T) /\ Len(all) = n
  <2>1. all \in Seq(T)
    BY <1>1, <1>2, <1>3, SeqDef
  <2> QED
    BY <1>1, <1>3, <2>1, LenProperties
<1>5. SubSeq(all, 0 + 1, n) = all
  BY <1>3, <1>4
<1> QED
  BY <1>5 DEF all, n

LEMMA LoadMade ==
  ASSUME MeantAsRead, FileRead, LoadFromConfig
  PROVE  EntriesMade'
<1>1. /\ phase = "loaded" /\ phase' = "appenders" /\ UNCHANGED <<configVars, loaded>>
      /\ AppenderId' = 0 /\ appenders' = <<>> /\ loggers' = <<>> /\ keys' = GetKeysByString("Appender.")
  BY DEF LoadFromConfig
<1>2. IsSequence(loaded) /\ Len(Entries("appender")) \in Nat
  BY <1>1, FileIs
<1> SUFFICES ASSUME Valid
             PROVE  /\ 0 \in 0 .. Len(Entries("appender"))'
                    /\ Left("appender", 0)' /\ AppendersOf(Entries("appender"), 0)'
  BY <1>1, SameFile DEF EntriesMade
<1>3. keys' = KeysOf("appender")
  <2>1. GetKeysByString(KeyName("appender")) = KeysOf("appender")
    BY <1>1, <1>2, KeysListed DEF FileRead, Kinds
  <2> QED
    BY <1>1, <2>1 DEF KeyName
<1>4. Entries("appender")' = Entries("appender") /\ KeysOf("appender")' = KeysOf("appender")
  BY <1>1, SameFile
<1>5. Left("appender", 0)'
  BY <1>2, <1>3, <1>4, AllLeft DEF Left
<1>6. DOMAIN appenders' = 0 .. 0 - 1
  BY <1>1
<1> QED
  BY <1>2, <1>4, <1>5, <1>6 DEF AppendersOf

\* An appender takes the next id: no other has it while there are ids enough.
LEMMA AppenderMade ==
  ASSUME MeantAsRead, FileRead, EntriesMade, CreateAppenderFromConfig
  PROVE  EntriesMade'
<1> DEFINE A == Entries("appender")
<1>1. phase = "appenders" /\ keys # <<>> /\ keys' = Tail(keys) /\ UNCHANGED <<configVars, loaded, phase, loggers>>
  BY DEF CreateAppenderFromConfig
<1>2. IsSequence(loaded) /\ Len(A) \in Nat
  BY <1>1, FileIs
<1>3. Entries("appender")' = A /\ KeysOf("appender")' = KeysOf("appender") /\ Valid' = Valid
  BY <1>1, SameFile
<1> SUFFICES ASSUME Valid
             PROVE  /\ loggers = <<>>
                    /\ \E k \in 0 .. Len(A) :
                         Left("appender", k)' /\ AppendersOf(A, k)' /\ (k < IdRange => AppenderId' = k)
  BY <1>1, <1>3 DEF EntriesMade
<1>4. loggers = <<>>
  BY <1>1 DEF EntriesMade
<1>5. PICK k \in 0 .. Len(A) : Left("appender", k) /\ AppendersOf(A, k) /\ (k < IdRange => AppenderId = k)
  BY <1>1 DEF EntriesMade
<1> HIDE DEF A
<1>6. k < Len(A) /\ k + 1 \in 1 .. Len(A) /\ Len(A) <= IdRange /\ IdRange \in Nat /\ AppenderId = k
  <2>1. k # Len(A)
    BY <1>1, <1>2, <1>5, NextLeft DEF A
  <2>2. Len(A) <= IdRange /\ IdRange \in Nat
    BY LogAssumption DEF Valid, A
  <2>3. k < Len(A) /\ k + 1 \in 1 .. Len(A)
    BY <1>2, <2>1
  <2>4. k < IdRange
    BY <1>2, <2>2, <2>3
  <2> QED
    BY <1>5, <2>2, <2>3, <2>4
<1> DEFINE name   == A[k + 1].name
           e      == First(A, name)
           tokens == Options(Head(keys))
<1>7. Head(keys) = KeyFor("appender", name) /\ keys' = SubSeq(KeysOf("appender"), k + 2, Len(A))
  BY <1>1, <1>2, <1>5, <1>6, NextLeft DEF A
<1>8. /\ Tail(Head(keys)) = name /\ e.level \in DISABLED .. FATAL
      /\ Len(tokens) >= 2 /\ atoi(tokens[1]) \in {CONSOLE, FILE, DB}
      /\ atoi(tokens[1]) = FILE => Len(tokens) >= 4
      /\ e.level = atoi(tokens[2])
  <2>1. configMap = MapOf(Lines(loaded)) /\ "appender" \in Kinds
    BY <1>1 DEF FileRead, Kinds
  <2> QED
    BY <1>2, <1>6, <1>7, <2>1, OptionsRead DEF A
<1>9. CreateAppender(Tail(Head(keys)), Len(tokens), atoi(tokens[1]), atoi(tokens[2]))
  BY DEF CreateAppenderFromConfig
<1> HIDE DEF tokens, name, e
<1>10. AddAppender(name, e.level)
  <2>1. ~(e.level > FATAL)
    BY <1>8 DEF FATAL, DISABLED
  <2>2. ~(atoi(tokens[1]) = FILE /\ Len(tokens) < 4)
    <3>1. CASE atoi(tokens[1]) = FILE
      <4>1. Len(tokens) \in Nat => ~(Len(tokens) < 4)
        BY <1>8, <3>1
      <4>2. Len(tokens) \in Nat
        BY <1>8 DEF tokens
      <4> QED
        BY <4>1, <4>2
    <3> QED
      BY <3>1
  <2> QED
    BY <1>8, <1>9, <2>1, <2>2 DEF CreateAppender
<1>11. /\ appenders' = Put(appenders, k, [name |-> name, level |-> e.level])
       /\ AppenderId' = (k + 1) % IdRange
  BY <1>6, <1>10 DEF AddAppender
<1>12. k + 1 < IdRange => AppenderId' = k + 1
  BY <1>6, <1>11
<1>13. Left("appender", k + 1)'
  <2>1. (k + 1) + 1 = k + 2
    BY <1>6
  <2> QED
    BY <1>3, <1>7, <2>1 DEF Left, A
<1>14. AppendersOf(A, k + 1)'
  <2>1. A' = A
    BY <1>3 DEF A
  <2>2. DOMAIN appenders' = 0 .. (k + 1) - 1
    <3>1. DOMAIN appenders = 0 .. k - 1
      BY <1>5 DEF AppendersOf
    <3>2. DOMAIN appenders' = DOMAIN appenders \cup {k}
      BY <1>11 DEF Put
    <3>3. 0 .. (k + 1) - 1 = (0 .. k - 1) \cup {k}
      BY <1>6
    <3> QED
      BY <3>1, <3>2, <3>3
  <2>3. ASSUME NEW i \in 1 .. k + 1
        PROVE  appenders'[i - 1] = [name |-> A[i].name, level |-> First(A, A[i].name).level]
    <3>1. CASE i = k + 1
      <4>1. i - 1 = k /\ k \in DOMAIN appenders \cup {k}
        BY <1>6, <3>1
      <4>2. appenders'[k] = [name |-> name, level |-> e.level]
        BY <1>11, <4>1 DEF Put
      <4> QED
        BY <3>1, <4>1, <4>2 DEF name, e
    <3>2. CASE i # k + 1
      <4>1. i \in 1 .. k /\ i - 1 \in 0 .. k - 1 /\ i - 1 # k
        BY <1>6, <3>2
      <4>2. appenders'[i - 1] = appenders[i - 1]
        BY <1>5, <1>11, <4>1 DEF Put, AppendersOf
      <4> QED
        BY <1>5, <4>1, <4>2 DEF AppendersOf
    <3> QED
      BY <3>1, <3>2
  <2> QED
    BY <2>1, <2>2, <2>3 DEF AppendersOf
<1> QED
  BY <1>4, <1>6, <1>12, <1>13, <1>14

LEMMA AllAppendersMade ==
  ASSUME MeantAsRead, FileRead, EntriesMade, AppendersRead
  PROVE  EntriesMade'
<1> DEFINE A == Entries("appender")
           L == Entries("logger")
<1>1. /\ phase = "appenders" /\ keys = <<>> /\ phase' = "loggers" /\ keys' = GetKeysByString("Logger.")
      /\ UNCHANGED <<configVars, loaded, AppenderId, appenders, loggers>>
  BY DEF AppendersRead
<1>2. IsSequence(loaded) /\ Len(A) \in Nat /\ Len(L) \in Nat
  BY <1>1, FileIs
<1>3. A' = A /\ L' = L /\ KeysOf("logger")' = KeysOf("logger") /\ Valid' = Valid
  BY <1>1, SameFile
<1> SUFFICES ASSUME Valid
             PROVE  /\ AppendersOf(A, Len(A))' /\ 0 \in 0 .. Len(L)
                    /\ Left("logger", 0)' /\ LoggersOf(L, 0)'
  BY <1>1, <1>3 DEF EntriesMade
<1>4. PICK k \in 0 .. Len(A) : Left("appender", k) /\ AppendersOf(A, k)
  BY <1>1 DEF EntriesMade
<1>5. AppendersOf(A, Len(A))
  <2>1. k = Len(A)
    BY <1>1, <1>2, <1>4, NextLeft
  <2> QED
    BY <1>4, <2>1
<1>6. loggers = <<>>
  BY <1>1 DEF EntriesMade
<1>7. keys' = KeysOf("logger")
  <2>1. GetKeysByString(KeyName("logger")) = KeysOf("logger")
    BY <1>1, <1>2, KeysListed DEF FileRead, Kinds
  <2> QED
    BY <1>1, <2>1 DEF KeyName
<1>8. Left("logger", 0)'
  BY <1>2, <1>3, <1>7, AllLeft DEF Left
<1> HIDE DEF A, L
<1>9. AppendersOf(A, Len(A))'
  BY <1>1, <1>3, <1>5 DEF AppendersOf
<1>10. LoggersOf(L, 0)'
  <2>1. DOMAIN loggers' = {}
    BY <1>1, <1>6
  <2> QED
    BY <2>1 DEF LoggersOf
<1> QED
  BY <1>2, <1>8, <1>9, <1>10

\* A logger is made of the first entry of its name; a later one is passed over.
LEMMA LoggerMade ==
  ASSUME MeantAsRead, FileRead, EntriesMade, CreateLoggerFromConfig
  PROVE  EntriesMade'
<1> DEFINE A == Entries("appender")
           L == Entries("logger")
<1>1. phase = "loggers" /\ keys # <<>> /\ keys' = Tail(keys) /\ UNCHANGED <<configVars, loaded, phase, AppenderId, appenders>>
  BY DEF CreateLoggerFromConfig
<1>2. IsSequence(loaded) /\ Len(L) \in Nat
  BY <1>1, FileIs
<1>3. A' = A /\ L' = L /\ KeysOf("logger")' = KeysOf("logger") /\ Valid' = Valid
  BY <1>1, SameFile
<1> SUFFICES ASSUME Valid
             PROVE  AppendersOf(A, Len(A))' /\ \E k \in 0 .. Len(L) : Left("logger", k)' /\ LoggersOf(L, k)'
  BY <1>1, <1>3 DEF EntriesMade
<1>4. AppendersOf(A, Len(A))
  BY <1>1 DEF EntriesMade
<1>5. PICK k \in 0 .. Len(L) : Left("logger", k) /\ LoggersOf(L, k)
  BY <1>1 DEF EntriesMade
<1> HIDE DEF A, L
<1>6. AppendersOf(A, Len(A))'
  BY <1>1, <1>3, <1>4 DEF AppendersOf
<1>7. k + 1 \in 1 .. Len(L) /\ k + 1 \in 0 .. Len(L) /\ k < Len(L) /\ k \in Nat
  <2>1. k # Len(L)
    BY <1>1, <1>2, <1>5, NextLeft DEF L
  <2> QED
    BY <1>2, <2>1
<1> DEFINE name   == L[k + 1].name
           e      == First(L, name)
           tokens == Options(Head(keys))
<1>8. Head(keys) = KeyFor("logger", name) /\ keys' = SubSeq(KeysOf("logger"), k + 2, Len(L))
  BY <1>1, <1>2, <1>5, <1>7, NextLeft DEF L
<1>9. /\ Tail(Head(keys)) = name /\ name # <<>> /\ e.level \in DISABLED .. FATAL
      /\ Len(tokens) = 2 /\ e.level = atoi(tokens[1]) /\ e.list = Words(tokens[2])
  <2>1. configMap = MapOf(Lines(loaded)) /\ "logger" \in Kinds
    BY <1>1 DEF FileRead, Kinds
  <2> QED
    BY <1>2, <1>7, <1>8, <2>1, OptionsRead DEF L
<1>10. CreateLogger(name, tokens)
  BY <1>9 DEF CreateLoggerFromConfig
<1> HIDE DEF tokens, name
<1>11. ~(atoi(tokens[1]) > FATAL)
  BY <1>9 DEF FATAL, DISABLED
<1>12. /\ DOMAIN loggers = {L[i].name : i \in 1 .. k}
       /\ \A n \in DOMAIN loggers :
            /\ loggers[n].name = n /\ loggers[n].level = First(L, n).level
            /\ loggers[n].appenders \in Picks(First(L, n).list)
  BY <1>5 DEF LoggersOf
<1>13. {L[i].name : i \in 1 .. k + 1} = DOMAIN loggers \cup {name}
  <2>1. \A i \in 1 .. k + 1 : i \in 1 .. k \/ i = k + 1
    BY <1>7
  <2>2. k + 1 \in 1 .. k + 1 /\ \A i \in 1 .. k : i \in 1 .. k + 1
    BY <1>7
  <2> QED
    BY <1>12, <2>1, <2>2 DEF name
<1>14. \A list : Picks(list)' = Picks(list)
  BY <1>1 DEF Picks, Named
<1>15. LoggersOf(L, k + 1)'
  <2>1. CASE name \in DOMAIN loggers
    <3>1. loggers[name].name # <<>>
      BY <1>9, <1>12, <2>1
    <3>2. loggers' = loggers
      BY <1>9, <1>10, <2>1, <3>1 DEF CreateLogger
    <3>3. {L[i].name : i \in 1 .. k + 1} = DOMAIN loggers
      BY <1>13, <2>1
    <3> QED
      BY <1>3, <1>12, <1>14, <3>2, <3>3 DEF LoggersOf
  <2>2. CASE name \notin DOMAIN loggers
    <3>1. PICK ids \in Picks(e.list) :
            loggers' = Put(loggers, name, [name |-> name, level |-> e.level, appenders |-> ids])
      <4> HIDE DEF e
      <4> QED
        BY <1>9, <1>10, <1>11, <2>2 DEF CreateLogger
    <3>2. DOMAIN loggers' = DOMAIN loggers \cup {name}
      BY <3>1 DEF Put
    <3>3. ASSUME NEW n \in DOMAIN loggers'
          PROVE  /\ loggers'[n].name = n /\ loggers'[n].level = First(L, n).level
                 /\ loggers'[n].appenders \in Picks(First(L, n).list)
      <4>1. CASE n = name
        <5>1. loggers'[n] = [name |-> name, level |-> e.level, appenders |-> ids]
          BY <3>1, <3>2, <4>1 DEF Put
        <5> QED
          BY <3>1, <4>1, <5>1
      <4>2. CASE n # name
        <5>1. n \in DOMAIN loggers /\ loggers'[n] = loggers[n]
          BY <3>1, <3>2, <4>2 DEF Put
        <5> QED
          BY <1>12, <5>1
      <4> QED
        BY <4>1, <4>2
    <3> HIDE DEF e
    <3> QED
      BY <1>3, <1>13, <1>14, <3>2, <3>3 DEF LoggersOf
  <2> QED
    BY <2>1, <2>2
<1>16. Left("logger", k + 1)'
  <2>1. (k + 1) + 1 = k + 2
    BY <1>7
  <2> QED
    BY <1>3, <1>8, <2>1 DEF Left, L
<1> QED
  BY <1>6, <1>7, <1>15, <1>16

LEMMA AllLoggersMade ==
  ASSUME FileRead, EntriesMade, LoggersRead
  PROVE  EntriesMade'
<1> DEFINE A == Entries("appender")
           L == Entries("logger")
<1>1. /\ phase = "loggers" /\ keys = <<>> /\ phase' = "ready"
      /\ UNCHANGED <<configVars, loaded, keys, AppenderId, appenders, loggers>>
  BY DEF LoggersRead
<1>2. Len(L) \in Nat
  BY <1>1, FileIs
<1>3. A' = A /\ L' = L /\ Valid' = Valid
  BY <1>1, SameFile
<1> SUFFICES ASSUME Valid PROVE AppendersOf(A, Len(A))' /\ LoggersOf(L, Len(L))'
  BY <1>1, <1>3 DEF EntriesMade
<1>4. AppendersOf(A, Len(A)) /\ \E k \in 0 .. Len(L) : Left("logger", k) /\ LoggersOf(L, k)
  BY <1>1 DEF EntriesMade
<1>5. LoggersOf(L, Len(L))
  <2>1. PICK k \in 0 .. Len(L) : Left("logger", k) /\ LoggersOf(L, k)
    BY <1>4
  <2>2. k = Len(L)
    BY <1>1, <1>2, <2>1, NextLeft
  <2> QED
    BY <2>1, <2>2
<1> HIDE DEF A, L
<1> QED
  BY <1>1, <1>3, <1>4, <1>5, StillMade

\* A valid file names a root logger, so no defaults are made.
LEMMA NoDefaultsMade ==
  ASSUME FileRead, EntriesMade, CreateDefaults
  PROVE  EntriesMade'
<1> DEFINE L == Entries("logger")
<1>1. phase = "loggers" /\ keys = <<>> /\ LOGGER_ROOT \notin DOMAIN loggers /\ phase' = "ready" /\ loaded' = loaded
  BY DEF CreateDefaults
<1>2. IsSequence(loaded) /\ Len(L) \in Nat
  BY <1>1, FileIs
<1>3. ~Valid
  <2> SUFFICES ASSUME Valid PROVE FALSE
    OBVIOUS
  <2>1. PICK k \in 0 .. Len(L) : Left("logger", k) /\ LoggersOf(L, k)
    BY <1>1 DEF EntriesMade
  <2>2. k = Len(L)
    BY <1>1, <1>2, <2>1, NextLeft
  <2>3. DOMAIN L = 1 .. Len(L)
    BY <1>2, EntriesAre
  <2>4. \E e \in ToSet(L) : e.name = LOGGER_ROOT
    BY DEF Valid
  <2> HIDE DEF L
  <2>5. LOGGER_ROOT \in {L[i].name : i \in 1 .. Len(L)}
    BY <2>3, <2>4 DEF ToSet
  <2> QED
    BY <1>1, <2>1, <2>2, <2>5 DEF LoggersOf
<1>4. ~Valid'
  BY <1>1, <1>3, SameFile
<1> QED
  BY <1>1, <1>4 DEF EntriesMade

\* Nor does a well-formed appender have fewer than two options.
LEMMA NoGarbageRead ==
  ASSUME MeantAsRead, FileRead, EntriesMade, CreateAppenderFromGarbage
  PROVE  EntriesMade'
<1> DEFINE A == Entries("appender")
<1>1. /\ phase = "appenders" /\ keys # <<>> /\ Len(Options(Head(keys))) < 2 /\ loaded' = loaded
      /\ phase' \in {phase, "crashed"}
  BY DEF CreateAppenderFromGarbage
<1>2. IsSequence(loaded) /\ Len(A) \in Nat
  BY <1>1, FileIs
<1>3. ~Valid
  <2> SUFFICES ASSUME Valid PROVE FALSE
    OBVIOUS
  <2>1. PICK k \in 0 .. Len(A) : Left("appender", k)
    BY <1>1 DEF EntriesMade
  <2>2. k + 1 \in 1 .. Len(A) /\ Head(keys) = KeyFor("appender", A[k + 1].name)
    <3>1. k # Len(A)
      BY <1>1, <1>2, <2>1, NextLeft
    <3>2. k < Len(A)
      BY <1>2, <3>1
    <3> QED
      BY <1>1, <1>2, <2>1, <3>2, NextLeft
  <2>3. configMap = MapOf(Lines(loaded)) /\ "appender" \in Kinds
    BY <1>1 DEF FileRead, Kinds
  <2>4. Len(Options(Head(keys))) >= 2
    BY <1>2, <2>2, <2>3, OptionsRead
  <2> DEFINE tokens == Options(Head(keys))
  <2>5. Len(tokens) \in Nat => ~(Len(tokens) < 2)
    <3> HIDE DEF tokens
    <3> QED
      BY <2>4 DEF tokens
  <2>6. Len(tokens) \in Nat
    OBVIOUS
  <2> QED
    BY <1>1, <2>5, <2>6
<1>4. ~Valid'
  BY <1>1, <1>3, SameFile
<1> QED
  BY <1>1, <1>4 DEF EntriesMade

LEMMA EntriesMadeStep ==
  ASSUME MeantAsRead, FileRead, EntriesMade, [Next]_vars
  PROVE  EntriesMade'
<1>1. CASE Start
  <2>1. phase' \in {"exited", "loaded"}
    BY <1>1 DEF Start
  <2> QED
    BY <2>1 DEF EntriesMade
<1>2. CASE Reload
  <2>1. CASE phase' = "loaded"
    BY <2>1 DEF EntriesMade
  <2>2. CASE phase' # "loaded"
    <3>1. phase = "ready" /\ phase' = "ready" /\ loaded' = loaded /\ UNCHANGED <<appenders, loggers>>
      BY <1>2, <2>2 DEF Reload
    <3>2. /\ Entries("appender")' = Entries("appender") /\ Entries("logger")' = Entries("logger")
          /\ Valid' = Valid
      BY <3>1, SameFile
    <3> QED
      BY <3>1, <3>2, StillMade DEF EntriesMade
  <2> QED
    BY <2>1, <2>2
<1>3. CASE UNCHANGED vars
  <2>1. loaded' = loaded /\ UNCHANGED <<phase, keys, AppenderId, appenders, loggers>>
    BY <1>3 DEF vars
  <2>2. /\ \A kind : Entries(kind)' = Entries(kind) /\ KeysOf(kind)' = KeysOf(kind)
        /\ Valid' = Valid
    BY <2>1, SameFile
  <2>3. \A k : Left("appender", k) => Left("appender", k)'
    BY <2>1, <2>2 DEF Left
  <2>4. \A k : Left("logger", k) => Left("logger", k)'
    BY <2>1, <2>2 DEF Left
  <2> QED
    BY <2>1, <2>2, <2>3, <2>4, StillMade DEF EntriesMade
<1> QED
  BY <1>1, <1>2, <1>3, LoadMade, AppenderMade, NoGarbageRead, AllAppendersMade, LoggerMade,
     AllLoggersMade, NoDefaultsMade DEF Next

\* One appender of every name on the list that has any.
LEMMA PicksAre ==
  ASSUME IsFiniteSet(DOMAIN appenders), NEW list, NEW ids \in Picks(list)
  PROVE  /\ ids \subseteq DOMAIN appenders
         /\ \A id \in ids : appenders[id].name \in list
         /\ \A id, other \in ids : appenders[id].name = appenders[other].name => id = other
         /\ \A id \in DOMAIN appenders : appenders[id].name \in list =>
              \E pick \in ids : appenders[pick].name = appenders[id].name
<1>1. /\ ids \subseteq DOMAIN appenders
      /\ \A n \in {appenders[id].name : id \in DOMAIN appenders} :
           Cardinality(ids \cap Named(n)) = IF n \in list THEN 1 ELSE 0
  BY DEF Picks
<1>2. ASSUME NEW id \in DOMAIN appenders
      PROVE  LET its == ids \cap Named(appenders[id].name)
             IN  /\ IsFiniteSet(its)
                 /\ Cardinality(its) = IF appenders[id].name \in list THEN 1 ELSE 0
                 /\ id \in ids => id \in its
  <2> DEFINE its == ids \cap Named(appenders[id].name)
  <2>1. IsFiniteSet(its)
    <3>1. its \subseteq DOMAIN appenders
      BY <1>1
    <3> HIDE DEF its
    <3> QED
      BY <3>1, FS_Subset
  <2>2. id \in ids => id \in its
    BY DEF Named
  <2> QED
    BY <1>1, <2>1, <2>2
<1>3. ASSUME NEW id \in ids PROVE appenders[id].name \in list
  <2> DEFINE its == ids \cap Named(appenders[id].name)
  <2>1. IsFiniteSet(its) /\ (appenders[id].name \notin list => Cardinality(its) = 0) /\ id \in its
    BY <1>1, <1>2
  <2> HIDE DEF its
  <2> QED
    BY <2>1, FS_EmptySet
<1>4. ASSUME NEW id \in ids, NEW other \in ids, appenders[id].name = appenders[other].name
      PROVE  id = other
  <2> DEFINE its == ids \cap Named(appenders[id].name)
  <2>1. IsFiniteSet(its) /\ Cardinality(its) = 1 /\ id \in its
    BY <1>1, <1>2, <1>3
  <2>2. other \in its
    BY <1>1, <1>4 DEF Named
  <2> HIDE DEF its
  <2>3. \E x : its = {x}
    BY <2>1, FS_Singleton
  <2> QED
    BY <2>1, <2>2, <2>3
<1>5. ASSUME NEW id \in DOMAIN appenders, appenders[id].name \in list
      PROVE  \E pick \in ids : appenders[pick].name = appenders[id].name
  <2> DEFINE its == ids \cap Named(appenders[id].name)
  <2>1. IsFiniteSet(its) /\ Cardinality(its) = 1
    BY <1>2, <1>5
  <2>2. \A x \in its : x \in ids /\ appenders[x].name = appenders[id].name
    BY DEF Named
  <2> HIDE DEF its
  <2>3. \E x : its = {x}
    BY <2>1, FS_Singleton
  <2> QED
    BY <2>2, <2>3
<1> QED
  BY <1>1, <1>3, <1>4, <1>5

\* The search for a type's logger comes to the nearest entry.
LEMMA NearestFound ==
  ASSUME Valid, IsSequence(loaded), LoggersOf(Entries("logger"), Len(Entries("logger"))), NEW type \in Types
  PROVE  LET t == LoggerTypeOf(type)
         IN  t = Nearest(type, Entries("logger")) /\ t \in DOMAIN loggers /\ t # <<>>
<1> DEFINE L == Entries("logger")
           D == DOMAIN loggers
           last == (CHOOSE up : Asked(type, D, up))[Len(type) + 1]
<1>1. D = {L[i].name : i \in 1 .. Len(L)}
  BY DEF LoggersOf
<1>2. DOMAIN L = 1 .. Len(L)
  BY EntriesAre
<1>3. \A n : n \in D <=> \E e \in ToSet(L) : e.name = n
  <2> HIDE DEF L
  <2> QED
    BY <1>1, <1>2 DEF ToSet
<1>4. LOGGER_ROOT \in D
  BY <1>3 DEF Valid
<1>5. LoggerTypeOf(type) = IF last \in D THEN last ELSE <<>>
  BY DEF LoggerTypeOf, Asked
<1>6. type # <<>> /\ IsSequence(type)
  BY LogAssumption
<1>7. last \in D \cup {LOGGER_ROOT} /\ last # <<>> /\ last = NearestIn(type, D \cup {LOGGER_ROOT})
  BY <1>6, AskedEnds
<1>8. D \cup {LOGGER_ROOT} = D
  BY <1>4
<1> HIDE DEF last, D, L
<1>9. Nearest(type, L) = NearestIn(type, D)
  <2>1. {n \in 1 .. Len(type) : \E e \in ToSet(L) : e.name = SubSeq(type, 1, n)}
          = {n \in 1 .. Len(type) : SubSeq(type, 1, n) \in D}
    BY <1>3
  <2> DEFINE a == {n \in 1 .. Len(type) : \E e \in ToSet(L) : e.name = SubSeq(type, 1, n)}
             b == {n \in 1 .. Len(type) : SubSeq(type, 1, n) \in D}
  <2>2. Nearest(type, L) = IF a = {} THEN LOGGER_ROOT ELSE SubSeq(type, 1, CHOOSE n \in a : \A m \in a : m <= n)
    BY DEF Nearest
  <2>3. NearestIn(type, D) = IF b = {} THEN LOGGER_ROOT ELSE SubSeq(type, 1, CHOOSE n \in b : \A m \in b : m <= n)
    BY DEF NearestIn
  <2>4. a = b
    BY <2>1
  <2> HIDE DEF a, b
  <2> QED
    BY <2>2, <2>3, <2>4
<1> QED
  BY <1>5, <1>7, <1>8, <1>9 DEF D, L

\* The appenders a message reaches, when it is said which, are those its logger's entry
\* lists.
LEMMA ReachesAsMade ==
  ASSUME Valid, IsSequence(loaded),
         AppendersOf(Entries("appender"), Len(Entries("appender"))),
         LoggersOf(Entries("logger"), Len(Entries("logger"))),
         NEW type \in Types, NEW level \in MessageLevels
  PROVE  LET AE == Entries("appender")
             LE == Entries("logger")
             entry == First(LE, Nearest(type, LE))
             allows(l) == l # DISABLED /\ l <= level
             wanted == {n \in entry.list :
                          /\ \E e \in ToSet(AE) : e.name = n
                          /\ allows(entry.level) /\ allows(First(AE, n).level)}
             got == Reaches(type, level)
         IN  /\ {appenders[id].name : id \in got} = wanted
             /\ Cardinality(got) = Cardinality(wanted)
<1> DEFINE AE == Entries("appender")
           LE == Entries("logger")
           t  == Nearest(type, LE)
           entry == First(LE, t)
           allows(l) == l # DISABLED /\ l <= level
           wanted == {n \in entry.list :
                        /\ \E e \in ToSet(AE) : e.name = n
                        /\ allows(entry.level) /\ allows(First(AE, n).level)}
           got == Reaches(type, level)
           Name(id) == appenders[id].name
           ids == loggers[t].appenders
<1>1. LoggerTypeOf(type) = t /\ t \in DOMAIN loggers /\ t # <<>>
  BY NearestFound
<1>2. loggers[t].level = entry.level /\ ids \in Picks(entry.list)
  BY <1>1 DEF LoggersOf
<1>3. got = IF ~allows(entry.level) THEN {} ELSE {id \in ids : allows(appenders[id].level)}
  BY <1>1, <1>2 DEF Reaches, ShouldLog
<1>4. Len(AE) \in Nat /\ DOMAIN AE = 1 .. Len(AE)
  BY EntriesAre
<1>5. DOMAIN appenders = 0 .. Len(AE) - 1
  BY DEF AppendersOf
<1>6. \A i \in 1 .. Len(AE) : appenders[i - 1] = [name |-> AE[i].name, level |-> First(AE, AE[i].name).level]
  BY DEF AppendersOf
<1> HIDE DEF AE, LE, t, got
<1>7. /\ \A id \in DOMAIN appenders : /\ \E e \in ToSet(AE) : e.name = Name(id)
                                      /\ appenders[id].level = First(AE, Name(id)).level
      /\ \A e \in ToSet(AE) : \E id \in DOMAIN appenders : Name(id) = e.name
  <2>1. ASSUME NEW id \in DOMAIN appenders
        PROVE  (\E e \in ToSet(AE) : e.name = Name(id)) /\ appenders[id].level = First(AE, Name(id)).level
    <3> DEFINE i == id + 1
    <3>1. i \in 1 .. Len(AE) /\ i - 1 = id
      BY <1>4, <1>5
    <3> HIDE DEF i
    <3>2. appenders[id] = [name |-> AE[i].name, level |-> First(AE, AE[i].name).level]
      BY <1>6, <3>1
    <3>3. AE[i] \in ToSet(AE)
      BY <1>4, <3>1 DEF ToSet
    <3> QED
      BY <3>2, <3>3
  <2>2. ASSUME NEW e \in ToSet(AE) PROVE \E id \in DOMAIN appenders : Name(id) = e.name
    <3>1. PICK i \in 1 .. Len(AE) : AE[i] = e
      BY <1>4 DEF ToSet
    <3>2. i - 1 \in DOMAIN appenders
      BY <1>4, <1>5
    <3>3. Name(i - 1) = AE[i].name
      <4>1. appenders[i - 1] = [name |-> AE[i].name, level |-> First(AE, AE[i].name).level]
        BY <1>6
      <4> QED
        BY <4>1
    <3> QED
      BY <3>1, <3>2, <3>3
  <2> QED
    BY <2>1, <2>2
<1>8. IsFiniteSet(DOMAIN appenders)
  <2>1. 0 \in Int /\ Len(AE) - 1 \in Int
    BY <1>4
  <2> QED
    BY <1>5, <2>1, FS_Interval
<1>9. /\ ids \subseteq DOMAIN appenders
      /\ \A id \in ids : Name(id) \in entry.list
      /\ \A id, other \in ids : Name(id) = Name(other) => id = other
      /\ \A id \in DOMAIN appenders : Name(id) \in entry.list => \E pick \in ids : Name(pick) = Name(id)
  BY <1>2, <1>8, PicksAre
<1> HIDE DEF ids, entry
<1>10. CASE ~allows(entry.level)
  <2>1. got = {} /\ wanted = {}
    BY <1>3, <1>10
  <2> QED
    BY <2>1 DEF got, wanted, AE, LE, entry, t
<1>11. CASE allows(entry.level)
  <2>1. got = {id \in ids : allows(appenders[id].level)}
    BY <1>3, <1>11
  <2>2. ASSUME NEW id \in got PROVE Name(id) \in wanted
    BY <1>7, <1>9, <1>11, <2>1
  <2>3. ASSUME NEW n \in wanted PROVE \E id \in got : Name(id) = n
    <3>1. PICK id \in DOMAIN appenders : Name(id) = n
      BY <1>7
    <3>2. PICK pick \in ids : Name(pick) = n
      BY <1>9, <3>1
    <3>3. allows(appenders[pick].level)
      BY <1>7, <1>9, <3>2
    <3> QED
      BY <2>1, <3>2, <3>3
  <2> HIDE DEF wanted
  <2>4. {Name(id) : id \in got} = wanted
    BY <2>2, <2>3
  <2>5. Cardinality(got) = Cardinality(wanted)
    <3>1. IsFiniteSet(got)
      <4>1. got \subseteq DOMAIN appenders
        BY <1>9, <2>1
      <4> QED
        BY <1>8, <4>1, FS_Subset
    <3> DEFINE f == [id \in got |-> Name(id)]
    <3>2. f \in [got -> wanted]
      BY <2>2
    <3>3. \A id, other \in got : f[id] = f[other] => id = other
      BY <1>9, <2>1
    <3>4. \A n \in wanted : \E id \in got : f[id] = n
      BY <2>3
    <3> HIDE DEF f
    <3>5. f \in Bijection(got, wanted)
      BY <3>2, <3>3, <3>4 DEF Bijection, Injection, Surjection, IsInjective
    <3>6. ExistsBijection(got, wanted)
      BY <3>5 DEF ExistsBijection
    <3> QED
      BY <3>1, <3>6, FS_Bijection
  <2> QED
    BY <2>4, <2>5 DEF got, wanted, AE, LE, entry, t
<1> QED
  BY <1>10, <1>11

\* Whatever else the files say and however often they are read again, a valid file is what
\* the log then does: each message goes to the appenders the nearest logger's entry lists,
\* once each, for all entries, types and levels, and any number of ids that is enough.
THEOREM LogsAsConfiguredHolds == ASSUME MeantAsRead PROVE Spec => []LogsAsConfigured
<1>1. FileRead /\ EntriesMade => LogsAsConfigured
  <2> SUFFICES ASSUME FileRead, EntriesMade, phase = "ready", Valid PROVE LogsAsConfigured
    BY DEF LogsAsConfigured
  <2>1. IsSequence(loaded)
    BY FileIs
  <2>2. /\ AppendersOf(Entries("appender"), Len(Entries("appender")))
        /\ LoggersOf(Entries("logger"), Len(Entries("logger")))
    BY DEF EntriesMade
  <2> QED
    BY <2>1, <2>2, ReachesAsMade DEF LogsAsConfigured
<1>2. Init => FileRead /\ EntriesMade
  BY DEF Init, FileRead, EntriesMade
<1>3. FileRead /\ EntriesMade /\ [Next]_vars => FileRead' /\ EntriesMade'
  BY FileReadStep, EntriesMadeStep
<1> QED
  BY <1>1, <1>2, <1>3, PTL DEF Spec
=============================================================================
