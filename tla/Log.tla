-------------------------------- MODULE Log --------------------------------
(***************************************************************************)
(* The log: how LoadFromConfig makes appenders and loggers of the          *)
(* configuration's entries, and which appenders a message then reaches.    *)
(* The type of a logger or a message is the sequence of its parts between  *)
(* dots.  What an appender does with a message is AppenderFile's subject.  *)
(***************************************************************************)
EXTENDS Config

CONSTANTS Files,        \* what the configuration file may say
          Edits,        \* what it may say when it is read again
          Types,        \* the types of messages
          IdRange,      \* how many appender ids there are (2^8)
          Meant         \* well-formed lines to the entries they stand for

\* LogLevel; Wrong stands for every number beyond FATAL.
DISABLED == 0
DEBUG    == 2
INFO     == 3
ERROR    == 5
FATAL    == 6
Wrong    == 7

\* AppenderType.
CONSOLE == 1
FILE    == 2
DB      == 3

LOGGER_ROOT == <<"root">>
NoLogger    == [name |-> <<>>, level |-> DISABLED, appenders |-> {}]

ASSUME LogAssumption ==
  /\ IdRange \in Nat \ {0}
  /\ \A line \in DOMAIN Meant : Meant[line].kind \in {"appender", "logger"}
  /\ \A type \in Types : type # <<>> /\ IsSequence(type)
  /\ \A file \in Files \cup Edits :
       IsSequence(file) /\ \A line \in ToSet(file) : IsSequence(line)

VARIABLES
  loaded,               \* history: the file whose lines the log was last made of
  phase,                \* "start"; "loaded"; "appenders", "loggers": being read; "ready";
                        \* "exited"; "crashed"
  keys,                 \* the entries still to be read
  AppenderId,           \* the next appender's id
  appenders,            \* appenders: ids in use to appenders
  loggers               \* loggers: types to loggers

vars == <<configVars, loaded, phase, keys, AppenderId, appenders, loggers>>

\* f with x mapped to y.
Put(f, x, y) == [z \in DOMAIN f \cup {x} |-> IF z = x THEN y ELSE f[z]]

Init ==
  /\ configMap = <<>> /\ configLineList = <<>> /\ loaded = Missing
  /\ phase = "start" /\ keys = <<>> /\ AppenderId = 0 /\ appenders = <<>> /\ loggers = <<>>

\* main: without a configuration the program ends.  The log is made when it is first used.
Start ==
  /\ phase = "start"
  /\ \E file \in Files \cup {Missing} :
       /\ LoadInitial(file)
       /\ phase' = IF file = Missing THEN "exited" ELSE "loaded"
       /\ loaded' = file
  /\ UNCHANGED <<keys, AppenderId, appenders, loggers>>

\* World::LoadConfigSettings(true), which nothing calls today: a file that cannot be read
\* is reported, through the loggers there are.
Reload ==
  /\ phase = "ready"
  /\ \E file \in Edits \cup {Missing} :
       /\ LoadInitial(file)
       /\ phase' = IF file = Missing THEN "ready" ELSE "loaded"
       /\ loaded' = IF file = Missing THEN loaded ELSE file
  /\ UNCHANGED <<keys, AppenderId, appenders, loggers>>

\* Mutant of LoadFromConfig: what was made of the last file is not closed.
LoadFromConfigUnclosed ==
  /\ phase = "loaded" /\ phase' = "appenders"
  /\ AppenderId' = 0
  /\ keys' = GetKeysByString("Appender.")
  /\ UNCHANGED <<configVars, loaded, appenders, loggers>>

\* LoadFromConfig: everything is closed, then the appenders are read.
LoadFromConfig ==
  /\ phase = "loaded" /\ phase' = "appenders"
  /\ AppenderId' = 0 /\ appenders' = <<>> /\ loggers' = <<>>
  /\ keys' = GetKeysByString("Appender.")
  /\ UNCHANGED <<configVars, loaded>>

(***************************************************************************)
(* CreateAppenderFromConfig.                                               *)
(***************************************************************************)
\* Mutant of AddAppender: the next id is not moved on.
AddAppenderSameId(name, level) ==
  /\ appenders' = Put(appenders, AppenderId, [name |-> name, level |-> level])
  /\ UNCHANGED AppenderId

\* NextAppenderId is a uint8: past the last id an appender takes another's slot.
AddAppender(name, level) ==
  /\ appenders' = Put(appenders, AppenderId, [name |-> name, level |-> level])
  /\ AppenderId' = (AppenderId + 1) % IdRange

\* The appender called name whose value has size options: a wrong level, an unknown type
\* and a file without its name are refused.
CreateAppender(name, size, type, level) ==
  IF level > FATAL \/ type \notin {CONSOLE, FILE, DB} \/ (type = FILE /\ size < 4)
  THEN UNCHANGED <<AppenderId, appenders>>
  ELSE AddAppender(name, level)

Options(key) == Tokenizer(GetStringDefault(key, <<>>), ",")

CreateAppenderFromConfig ==
  /\ phase = "appenders" /\ keys # <<>>
  /\ LET tokens == Options(Head(keys))
     IN  /\ Len(tokens) >= 2
         /\ CreateAppender(Tail(Head(keys)), Len(tokens), atoi(tokens[1]), atoi(tokens[2]))
  /\ keys' = Tail(keys)
  /\ UNCHANGED <<configVars, loaded, phase, loggers>>

\* With fewer than two options it complains and goes on: without any it reads through a
\* null pointer, with one it takes for the level what lies behind the tokens.
CreateAppenderFromGarbage ==
  /\ phase = "appenders" /\ keys # <<>> /\ Len(Options(Head(keys))) < 2
  /\ \/ phase' = "crashed" /\ UNCHANGED <<keys, AppenderId, appenders>>
     \/ /\ Len(Options(Head(keys))) = 1
        /\ \E level \in {DISABLED, INFO, Wrong} :
             CreateAppender(Tail(Head(keys)), 1, atoi(Options(Head(keys))[1]), level)
        /\ keys' = Tail(keys) /\ UNCHANGED phase
  /\ UNCHANGED <<configVars, loaded, loggers>>

AppendersRead ==
  /\ phase = "appenders" /\ keys = <<>>
  /\ phase' = "loggers" /\ keys' = GetKeysByString("Logger.")
  /\ UNCHANGED <<configVars, loaded, AppenderId, appenders, loggers>>

(***************************************************************************)
(* CreateLoggerFromConfig.                                                 *)
(***************************************************************************)
\* GetAppenderByName: any appender of that name (the map is a hash table).
Named(name) == {id \in DOMAIN appenders : appenders[id].name = name}

\* The sets of appenders a list may come to: one for every name that has one.
Picks(list) ==
  {ids \in SUBSET (DOMAIN appenders) :
     \A n \in {appenders[id].name : id \in DOMAIN appenders} :
       Cardinality(ids \cap Named(n)) = IF n \in list THEN 1 ELSE 0}

\* The words of a list of appenders, told apart by blanks.
Words(text) == ToSet(Tokenizer(text, " ")) \ {<<>>}

\* A value that has not two options is skipped; so is one whose logger was made before.
\* One with a wrong level leaves an empty logger, which can still be made.
CreateLogger(name, tokens) ==
  LET made == name \in DOMAIN loggers /\ loggers[name].name # <<>>
  IN  IF Len(tokens) # 2 \/ made THEN UNCHANGED loggers
      ELSE IF atoi(tokens[1]) > FATAL THEN loggers' = Put(loggers, name, NoLogger)
      ELSE \E ids \in Picks(Words(tokens[2])) :
             loggers' = Put(loggers, name, [name |-> name, level |-> atoi(tokens[1]), appenders |-> ids])

CreateLoggerFromConfig ==
  /\ phase = "loggers" /\ keys # <<>>
  /\ CreateLogger(Tail(Head(keys)), Options(Head(keys)))
  /\ keys' = Tail(keys)
  /\ UNCHANGED <<configVars, loaded, phase, AppenderId, appenders>>

LoggersRead ==
  /\ phase = "loggers" /\ keys = <<>> /\ LOGGER_ROOT \in DOMAIN loggers
  /\ phase' = "ready"
  /\ UNCHANGED <<configVars, loaded, keys, AppenderId, appenders, loggers>>

\* Mutant of CreateDefaults: what was created is not closed first.
CreateDefaultsUnclosed ==
  /\ phase = "loggers" /\ keys = <<>> /\ LOGGER_ROOT \notin DOMAIN loggers
  /\ phase' = "ready"
  /\ appenders' = Put(<<>>, AppenderId, [name |-> <<"Console">>, level |-> DEBUG])
  /\ AppenderId' = (AppenderId + 1) % IdRange
  /\ loggers' = Put(loggers, LOGGER_ROOT, [name |-> <<"server">>, level |-> ERROR, appenders |-> {AppenderId}])
  /\ UNCHANGED <<configVars, loaded, keys>>

\* Without a root logger everything is closed (but for the count of ids) and defaults
\* are made.  logger is a reference to the root's slot: logger = loggers["server"] makes
\* an empty server logger, copies it over the root and goes on with the root's slot.
CreateDefaults ==
  /\ phase = "loggers" /\ keys = <<>> /\ LOGGER_ROOT \notin DOMAIN loggers
  /\ phase' = "ready"
  /\ appenders' = Put(<<>>, AppenderId, [name |-> <<"Console">>, level |-> DEBUG])
  /\ AppenderId' = (AppenderId + 1) % IdRange
  /\ loggers' = Put(Put(<<>>, <<"server">>, NoLogger),
                    LOGGER_ROOT, [name |-> <<"server">>, level |-> ERROR, appenders |-> {AppenderId}])
  /\ UNCHANGED <<configVars, loaded, keys>>

Next == \/ Start \/ Reload \/ LoadFromConfig
        \/ CreateAppenderFromConfig \/ CreateAppenderFromGarbage \/ AppendersRead
        \/ CreateLoggerFromConfig \/ LoggersRead \/ CreateDefaults

Spec == Init /\ [][Next]_vars

(***************************************************************************)
(* Where a message goes.                                                   *)
(***************************************************************************)
\* Mutant of ParentType: a type without dots has no parent.
ParentTypeNone(type) == IF Len(type) > 1 THEN Front(type) ELSE type

ParentType(type) == IF Len(type) > 1 THEN Front(type) ELSE LOGGER_ROOT

\* GetLoggerByType: the type's logger, or its parent's and so on up to the root's; here
\* the type whose logger it is (<<>>: none).  Each step shortens the type by one part.
LoggerTypeOf(type) ==
  LET up[n \in 0 .. Len(type) + 1] ==      \* the type asked for in the n-th call
        IF n = 0 THEN type
        ELSE LET t == up[n - 1] IN IF t \in DOMAIN loggers \cup {LOGGER_ROOT} THEN t ELSE ParentType(t)
      last == up[Len(type) + 1]
  IN  IF last \in DOMAIN loggers THEN last ELSE <<>>

ShouldLog(type, level) ==
  LET t == LoggerTypeOf(type)
  IN  t # <<>> /\ loggers[t].level # DISABLED /\ loggers[t].level <= level

\* outMessage, Logger::write and Appender::write: the appenders that get the message.
Reaches(type, level) ==
  LET logger == loggers[LoggerTypeOf(type)]
  IN  IF ~ShouldLog(type, level) THEN {}
      ELSE {id \in logger.appenders : appenders[id].level # DISABLED /\ appenders[id].level <= level}

(***************************************************************************)
(* Properties.                                                             *)
(***************************************************************************)
MessageLevels == 1 .. FATAL

\* A logger's appenders are pointers: whatever is closed, skipped, made again or replaced
\* by one with the same id, they point to appenders there are.
AppendersExist == \A t \in DOMAIN loggers : loggers[t].appenders \subseteq DOMAIN appenders

\* What the file's lines of a kind stand for, in order.
Entries(kind) ==
  LET lines == Only(loaded, {l \in DOMAIN Meant : Meant[l].kind = kind})
  IN  [i \in DOMAIN lines |-> Meant[lines[i]]]

\* The first entry with a name.
First(entries, name) == entries[SelectInSeq(entries, LAMBDA e : e.name = name)]

\* The nearest type, from type upwards, with an entry in loggers.
Nearest(type, entries) ==
  LET above == {n \in 1 .. Len(type) : \E e \in ToSet(entries) : e.name = SubSeq(type, 1, n)}
  IN  IF above = {} THEN LOGGER_ROOT ELSE SubSeq(type, 1, CHOOSE n \in above : \A m \in above : m <= n)

\* What line says when it is read is the entry e.
ReadsAs(line, e) ==
  LET tokens == Tokenizer(ValueOf(line), ",")
  IN  /\ IsSequence(line) /\ line # <<>> /\ line[1] # "#" /\ ~Broken(line)
      /\ IsSequence(e.name) /\ e.name # <<>>
      /\ e.kind = "appender" =>
           /\ KeyOf(line) = <<"Appender.">> \o e.name
           /\ Len(tokens) >= 2 /\ atoi(tokens[1]) \in {CONSOLE, FILE, DB}
           /\ atoi(tokens[1]) = FILE => Len(tokens) >= 4
           /\ e.level = atoi(tokens[2]) /\ e.level \in DISABLED .. FATAL
      /\ e.kind = "logger" =>
           /\ KeyOf(line) = <<"Logger.">> \o e.name
           /\ Len(tokens) = 2
           /\ e.level = atoi(tokens[1]) /\ e.level \in DISABLED .. FATAL
           /\ e.list = Words(tokens[2])

\* An entry is read as it is meant (tumors.cfg:72 "Appender.Console=1,3,0", :96
\* "Logger.server=3,Console Server"), be it written plainly or with blanks around its
\* parts and a carriage return at its end: two look-ups, Tokenizer, atoi and the stream
\* that takes the list apart each leave out something else.
MeantAsRead == \A line \in DOMAIN Meant : ReadsAs(line, Meant[line])

\* A file of comments and well-formed entries, the root logger's among them, that names
\* no more appenders than there are ids.
Valid ==
  /\ \A line \in ToSet(loaded) : line = <<>> \/ line[1] = "#" \/ line \in DOMAIN Meant
  /\ \E e \in ToSet(Entries("logger")) : e.name = LOGGER_ROOT
  /\ Len(Entries("appender")) <= IdRange

\* With every line well formed a message goes to the appenders the nearest logger's entry
\* lists, to each name once, when neither the logger's nor the appender's level forbids it
\* (tumors.cfg:12 "where to log" and :79 "What to log"), however often the file is read
\* again, and by the last file that could be read.
LogsAsConfigured ==
  phase = "ready" /\ Valid =>
    LET AE == Entries("appender")
        LE == Entries("logger")
    IN  \A type \in Types, level \in MessageLevels :
          LET entry == First(LE, Nearest(type, LE))
              allows(l) == l # DISABLED /\ l <= level
              wanted == {n \in entry.list :
                           /\ \E e \in ToSet(AE) : e.name = n
                           /\ allows(entry.level) /\ allows(First(AE, n).level)}
              got == Reaches(type, level)
          IN  /\ {appenders[id].name : id \in got} = wanted
              /\ Cardinality(got) = Cardinality(wanted)

\* Once loaded there is a root logger, so the search for a type's logger finds one.
RootFound == phase = "ready" => \A type \in Types : LoggerTypeOf(type) # <<>>

\* Log.cpp:222: "Creating default loggers [root (Error), server (Info)] to console".
DefaultServerLogs ==
  phase = "ready" /\ (\E id \in DOMAIN appenders : appenders[id].name = <<"Console">>) =>
    Reaches(<<"server", "loading">>, INFO) # {}
=============================================================================
