------------------------------- MODULE MCLog -------------------------------
(* Log with its files enumerated for TLC: entries, rendered as lines in two styles, odd
   lines and malformed ones. *)
EXTENDS Log

CONSTANTS MaxLoggers,       \* how many Logger. lines a file has at most
          AppenderLevels,   \* the levels of appenders
          LoggerLevels      \* the levels of loggers

\* The entries of a well-formed file.
AppenderEntries == [kind : {"appender"}, name : {<<"A">>, <<"B">>}, type : {"1"}, level : AppenderLevels]
LoggerEntries ==
  {e \in [kind : {"logger"}, name : {<<"root">>, <<"server">>, <<"server", "loading">>},
          level : LoggerLevels, list : {{<<"A">>}, {<<"A">>, <<"B">>, <<"C">>}}] :
     e.level = 0 => Cardinality(e.list) = 1}
Audible == {e \in AppenderEntries \cup LoggerEntries : e.level = 3}

Digit(n) == CHOOSE d \in DOMAIN NumberOf : NumberOf[d] = n

\* An entry as it is written plainly, and indented, spaced and ended by a carriage return.
Value(e) == IF e.kind = "appender" THEN <<e.type, ",", Digit(e.level), ",", "0">>
            ELSE <<Digit(e.level), ",">> \o FlattenSeq([i \in 1 .. Cardinality(e.list) |-> <<" ">> \o SetToSeq(e.list)[i]])
Key(e) == <<IF e.kind = "appender" THEN "Appender." ELSE "Logger.">> \o e.name
Plain(e) == Key(e) \o <<"=">> \o Value(e)
Untidy(e) == <<" ">> \o Key(e) \o <<" ", "=", " ">> \o Value(e) \o <<" ", "CR">>
Styles(e) == {Plain(e), Untidy(e)}

\* The constants are given by names of their own: TLC evaluates what a name stands for once.
Meaning ==
  LET entries == AppenderEntries \cup LoggerEntries
  IN  [line \in UNION {Styles(e) : e \in entries} |-> CHOOSE e \in entries : line \in Styles(e)]
MCMeant == Meaning

\* Each entry, in either style, is read as it is meant.
ASSUME EntriesAreRead == MeantAsRead

\* What else a file may say.
Others ==
  { <<"#", "Appender.", "A", "=", "1">>,                         \* a comment
    <<"LogsDir", "=", "Appender.", "B">>,                        \* a name inside a value
    <<"Appender.", "B", "=", "2", ",", "3", ",", "0">>,          \* a file without a name
    <<"Appender.", "B", "=", "2", ",", "3", ",", ",", "f">>,     \* a file, no flags
    <<"Appender.", "B", "=", "7", ",", "3">>,                    \* no such type
    <<"Appender.", "B", "=", "3", ",", "7">>,                    \* no such level
    <<"Appender.", "B", "=", "3">>,                              \* one option
    <<"Appender.", "B">>,                                        \* none
    <<"Appender.", " ", "B", "=", "3", ",", "3">> }              \* a key broken by a blank
OtherLoggers ==
  { <<"Logger.", "root", "=", "7", ",", "A">>,                   \* no such level
    <<"Logger.", "server", "=", "3">>,                           \* one option
    <<"Logger.", "server", "=", "3", ",", "A", ",">>,            \* an empty third option is none
    <<"Logger.", "server", "=", "3", ",", ",", "A">>,            \* three options
    <<"Logger.", "server">>,                                     \* none
    <<" ", "#", "Logger.", "root", "=", "3">> }                  \* an indented comment

\* Up to n lines, an odd one among two at most.
Half(entries, others, n) ==
  LET lines == {Plain(e) : e \in entries} \cup others
                 \cup {Untidy(e) : e \in {e \in entries \cap Audible : Len(e.name) = 1 /\ e.name # <<"server">>}}
  IN  {s \in BoundedSeq(lines, n) : Len(s) = 2 => ~(ToSet(s) \subseteq others)}

\* Three well-formed lines are more appenders than there are ids.
AppenderHalves == Half(AppenderEntries, Others, 2) \cup [1 .. 3 -> {Plain(e) : e \in AppenderEntries \cap Audible}]
LoggerHalves == Half(LoggerEntries, OtherLoggers, MaxLoggers)

AllFiles == {a \o l : a \in AppenderHalves, l \in LoggerHalves}
MCFiles == AllFiles

RootLine == Plain([kind |-> "logger", name |-> <<"root">>, level |-> 3, list |-> {<<"A">>}])
MCEdits == {<<>>, <<Plain([kind |-> "appender", name |-> <<"A">>, type |-> "1", level |-> 3]), RootLine>>}

MCTypes == {<<"root">>, <<"server">>, <<"server", "loading">>, <<"server", "loading", "map">>, <<"misc">>}
=============================================================================
