-------------------------------- MODULE Util --------------------------------
(***************************************************************************)
(* The helpers of shared/Utilities: the Tokenizer the configuration's      *)
(* values are taken apart with, and the mapping between the cases of a     *)
(* wide character.  A string is a sequence of characters, or of the chunks *)
(* its user tells apart.                                                   *)
(***************************************************************************)
EXTENDS Integers, Sequences, FiniteSets, SequencesExt

\* s is a sequence; and what is left of it, in order, of the elements in S.
IsSequence(s) == s \in Seq(ToSet(s))

Only(s, S) == FlattenSeq([i \in DOMAIN s |-> IF s[i] \in S THEN <<s[i]>> ELSE <<>>])

(***************************************************************************)
(* Tokenizer(src, sep): the pieces of src between separators.  An empty    *)
(* piece counts, but for one at the very end.                              *)
(***************************************************************************)
\* The position of each piece's end.
Ends(src, sep) ==
  LET cuts == {i \in DOMAIN src : src[i] = sep}
  IN  IF Len(src) \in cuts \cup {0} THEN cuts ELSE cuts \cup {Len(src) + 1}

Tokenizer(src, sep) ==
  LET ends == SetToSortSeq(Ends(src, sep), <)
  IN  [k \in DOMAIN ends |-> SubSeq(src, IF k = 1 THEN 1 ELSE ends[k - 1] + 1, ends[k] - 1)]

(***************************************************************************)
(* wchar_t: the 16-bit character the uint16 casts leave.                   *)
(***************************************************************************)
WChar == 0 .. 2^16 - 1

wcharToUpper(c) ==
  CASE c \in 97 .. 122 \cup 224 .. 246 \cup 248 .. 254 -> c - 32       \* a-z and Latin-1's small letters
    [] c = 223                                         -> 7838         \* sharp s
    [] c \in 257 .. 303 /\ c % 2 = 1                   -> c - 1        \* Latin Extended-A, in pairs
    [] c \in 1072 .. 1103                              -> c - 32       \* Cyrillic
    [] c = 1105                                        -> 1025         \* io
    [] OTHER                                           -> c

wcharToLower(c) ==
  CASE c \in 65 .. 90 \cup 192 .. 214 \cup 216 .. 222  -> c + 32
    [] c \in 256 .. 302 /\ c % 2 = 0                   -> c + 1
    [] c = 7838                                        -> 223
    [] c = 1025                                        -> 1105
    [] c \in 1040 .. 1071                              -> c + 32
    [] OTHER                                           -> c

isBasicLatinCharacter(c) == c \in 97 .. 122 \cup 65 .. 90

wcharToUpperOnlyLatin(c) == IF isBasicLatinCharacter(c) THEN wcharToUpper(c) ELSE c

isExtendedLatinCharacter(c) ==
  \/ isBasicLatinCharacter(c)
  \/ c \in 192 .. 214 \cup 216 .. 222 \cup {223} \cup 224 .. 246 \cup 248 .. 254 \cup 256 .. 303 \cup {7838}

isCyrillicCharacter(c) == c \in 1040 .. 1103 \cup {1025, 1105}

\* wstrToUpper and wstrToLower.
wstrToUpper(str) == [i \in DOMAIN str |-> wcharToUpper(str[i])]
wstrToLower(str) == [i \in DOMAIN str |-> wcharToLower(str[i])]
=============================================================================
