------------------------------- MODULE Config -------------------------------
(***************************************************************************)
(* The configuration: the file's lines, kept twice, as a map from keys to  *)
(* values and as the list of lines in which keys are searched by prefix.   *)
(* A line is a sequence of chunks: a blank, the carriage return of a line  *)
(* end, "=", ",", "#" and words; two words in a row are two parts of a     *)
(* name, with a dot between them.                                          *)
(***************************************************************************)
EXTENDS Util

CONSTANT Missing        \* stands for a file that cannot be opened

VARIABLES
  configMap,            \* _configMap: keys to values
  configLineList        \* _configLineList: the lines that are neither empty nor comments

configVars == <<configMap, configLineList>>

Blanks == {" ", "CR"}                          \* isspace
Ink(chunk) == chunk \notin Blanks

\* s from its first chunk that passes Test on, and s up to that chunk.
From(s, Test(_)) == IF SelectInSeq(s, Test) = 0 THEN <<>> ELSE SubSeq(s, SelectInSeq(s, Test), Len(s))
Until(s, Test(_)) == IF SelectInSeq(s, Test) = 0 THEN s ELSE SubSeq(s, 1, SelectInSeq(s, Test) - 1)

(***************************************************************************)
(* LoadInitial.                                                            *)
(***************************************************************************)
\* What is left of the first "=", without its blanks, ...
KeyOf(line) == Only(Until(line, LAMBDA c : c = "="), ToSet(line) \ Blanks)

\* ... and what is right of it, from its first ink to the line's end, without any "=".
ValueOf(line) ==
  LET right == From(line, LAMBDA c : c = "=")
      text  == IF right = <<>> THEN <<>> ELSE From(Tail(right), Ink)
  IN  Only(Until(text, LAMBDA c : c = "CR"), ToSet(line) \ {"="})

Lines(file) == Only(file, {line \in ToSet(file) : line # <<>> /\ line[1] # "#"})

\* Mutant of MapOf: a later line with a key replaces an earlier one.
MapOfLast(lines) ==
  [key \in {KeyOf(line) : line \in ToSet(lines)} |->
     ValueOf(lines[SelectLastInSeq(lines, LAMBDA line : KeyOf(line) = key)])]

\* insert keeps the value a key already has.
MapOf(lines) ==
  [key \in {KeyOf(line) : line \in ToSet(lines)} |->
     ValueOf(lines[SelectInSeq(lines, LAMBDA line : KeyOf(line) = key)])]

\* Both copies are cleared first, so a file that cannot be read leaves nothing.
LoadInitial(file) ==
  /\ configLineList' = IF file = Missing THEN <<>> ELSE Lines(file)
  /\ configMap' = IF file = Missing THEN <<>> ELSE MapOf(Lines(file))

(***************************************************************************)
(* The questions asked of it.                                              *)
(***************************************************************************)
\* Mutant of GetKeysByString: the name may stand anywhere in the line.
GetKeysByStringAnywhere(name) ==
  LET named == Only(configLineList, {line \in ToSet(configLineList) : name \in ToSet(line)})
  IN  [i \in DOMAIN named |-> Until(From(named[i], LAMBDA c : c = name), LAMBDA c : c \in Blanks \cup {"="})]

\* The keys of the lines whose first ink is the name, a line each: up to "=" or a blank.
GetKeysByString(name) ==
  LET named == Only(configLineList, {line \in ToSet(configLineList) : From(line, Ink) # <<>> /\ From(line, Ink)[1] = name})
  IN  [i \in DOMAIN named |-> Until(From(named[i], Ink), LAMBDA c : c \in Blanks \cup {"="})]

GetStringDefault(key, def) == IF key \in DOMAIN configMap THEN configMap[key] ELSE def

\* atoi: the number a text begins with, else 0.  Seven stands for every larger number.
NumberOf == ("0" :> 0) @@ ("1" :> 1) @@ ("2" :> 2) @@ ("3" :> 3) @@ ("5" :> 5) @@ ("6" :> 6) @@ ("7" :> 7)

atoi(text) ==
  LET ink == From(text, Ink)
  IN  IF ink # <<>> /\ ink[1] \in DOMAIN NumberOf THEN NumberOf[ink[1]] ELSE 0

(***************************************************************************)
(* Properties.                                                             *)
(***************************************************************************)
\* A key with a blank inside is stored without it but listed only up to it.
Broken(line) ==
  LET key == Until(line, LAMBDA c : c = "=")
  IN  \E i, j, k \in DOMAIN key : i < j /\ j < k /\ Ink(key[i]) /\ ~Ink(key[j]) /\ Ink(key[k])

\* The two copies agree: unless a key is broken by a blank, the keys found by a prefix in
\* the lines are those of the map that begin with it, so that each key read from the one
\* can be looked up in the other.
KeysAgree ==
  (\A line \in ToSet(configLineList) : ~Broken(line)) =>
    \A name \in {"Appender.", "Logger."} :
      ToSet(GetKeysByString(name)) = {key \in DOMAIN configMap : key # <<>> /\ key[1] = name}
=============================================================================
