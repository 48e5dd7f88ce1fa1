----------------------------- MODULE UtilProofs -----------------------------
(***************************************************************************)
(* What the helpers of Util do for every character and every string.       *)
(***************************************************************************)
EXTENDS Util, SequenceTheorems, WellFoundedInduction, TLAPS

\* The tables of wcharToUpper and wcharToLower are each other's inverse on the letters
\* that have a case, and leave every other character alone: changing the case first does
\* not change what a comparison without regard to case sees (wstrToLower in Utf8FitTo).
THEOREM CaseFolds ==
  ASSUME NEW c \in WChar
  PROVE  /\ wcharToUpper(c) \in WChar /\ wcharToLower(c) \in WChar
         /\ wcharToLower(wcharToUpper(c)) = wcharToLower(c)
         /\ wcharToUpper(wcharToLower(c)) = wcharToUpper(c)
  BY SMTT(60) DEF WChar, wcharToUpper, wcharToLower

\* So does changing a whole string, which stays a string of the same length.
THEOREM StringCaseFolds ==
  ASSUME NEW str \in Seq(WChar)
  PROVE  /\ wstrToUpper(str) \in Seq(WChar) /\ Len(wstrToUpper(str)) = Len(str)
         /\ wstrToLower(wstrToUpper(str)) = wstrToLower(str)
         /\ wstrToUpper(wstrToLower(str)) = wstrToUpper(str)
<1>1. \A i \in DOMAIN str : str[i] \in WChar
  OBVIOUS
<1>2. wstrToUpper(str) \in Seq(WChar) /\ Len(wstrToUpper(str)) = Len(str)
  <2>1. \A i \in 1 .. Len(str) : wcharToUpper(str[i]) \in WChar
    BY <1>1, CaseFolds
  <2> QED
    BY <2>1 DEF wstrToUpper
<1>3. wstrToLower(wstrToUpper(str)) = wstrToLower(str)
  <2>1. \A i \in DOMAIN str : wcharToLower(wcharToUpper(str[i])) = wcharToLower(str[i])
    BY <1>1, CaseFolds
  <2> QED
    BY <2>1 DEF wstrToUpper, wstrToLower
<1>4. wstrToUpper(wstrToLower(str)) = wstrToUpper(str)
  <2>1. \A i \in DOMAIN str : wcharToUpper(wcharToLower(str[i])) = wcharToUpper(str[i])
    BY <1>1, CaseFolds
  <2> QED
    BY <2>1 DEF wstrToUpper, wstrToLower
<1> QED
  BY <1>2, <1>3, <1>4

(***************************************************************************)
(* Induction.  The library's induction theorems are about any predicate,   *)
(* which no installed prover can supply; its theorem that < is well        *)
(* founded on Nat is about sets, and sets do as well.                      *)
(***************************************************************************)
LEMMA LessIsWellFounded ==
  \E R : IsWellFoundedOn(R, Nat) /\ \A x, y \in Nat : ~(<<x, y>> \in R) => ~(x < y)
<1>1. IsWellFoundedOn(OpToRel(<, Nat), Nat)
  BY NatLessThanWellFounded
<1>2. \A x, y \in Nat : ~(<<x,y>> \in OpToRel(<, Nat)) => ~(x < y)
  BY DEF OpToRel
<1> QED
  BY <1>1, <1>2, Zenon
\* A set of naturals with an element has a least one.
LEMMA Least ==
  ASSUME NEW S, S \subseteq Nat, S # {}
  PROVE \E m \in S : \A k \in S : m <= k
<1>1. PICK R : IsWellFoundedOn(R, Nat) /\ \A x, y \in Nat : ~(<<x, y>> \in R) => ~(x < y)
  BY LessIsWellFounded
<1>2. \E x \in S : \A y \in S : ~(<<y,x>> \in R)
  BY <1>1, WFMin, Zenon
<1>3. PICK m \in S : \A y \in S : ~(<<y,m>> \in R)
  BY <1>2, Zenon
<1>4. \A k \in S : ~(k < m)
  <2> TAKE k \in S
  <2>1. k \in Nat /\ m \in Nat
    OBVIOUS
  <2>2. ~(<<k, m>> \in R)
    BY <1>3, Zenon
  <2> QED
    BY <1>1, <2>1, <2>2, Zenon
<1> QED
  BY <1>4

\* What holds of 0, and of i + 1 when it holds of i, holds up to n.
LEMMA UpTo ==
  ASSUME NEW n \in Nat, NEW S, 0 \in S, \A i \in 0 .. n - 1 : i \in S => i + 1 \in S
  PROVE  \A i \in 0 .. n : i \in S
<1> DEFINE T == {i \in 0 .. n : i \notin S}
<1>1. SUFFICES T = {}
  OBVIOUS
<1>2. SUFFICES ASSUME T # {} PROVE FALSE
  OBVIOUS
<1>3. T \subseteq Nat
  OBVIOUS
<1>4. PICK m \in T : \A k \in T : m <= k
  <2> HIDE DEF T
  <2> QED
    BY <1>2, <1>3, Least
<1>5. m \in 0 .. n /\ m \notin S /\ m # 0
  OBVIOUS
<1>6. m - 1 \in 0 .. n - 1 /\ m - 1 \in S
  BY <1>4, <1>5
<1> QED
  BY <1>5, <1>6

\* A function of 0 .. n defined by recursion: base, and then step by step.
Recurs(n, V, base, step) ==
  \E f \in [0 .. n -> V] : f[0] = base /\ \A i \in 1 .. n : f[i] = step[i][f[i - 1]]
\* There is such a function.
LEMMA Recursion ==
  ASSUME NEW n \in Nat, NEW V, NEW base \in V, NEW step \in [1 .. n -> [V -> V]]
  PROVE  Recurs(n, V, base, step)
<1> DEFINE F(m) == {f \in [0 .. m -> V] : f[0] = base /\ \A i \in 1 .. m : f[i] = step[i][f[i - 1]]}
           S == {m \in 0 .. n : F(m) # {}}
<1>1. 0 \in S
  <2>1. [i \in 0 .. 0 |-> base] \in F(0)
    OBVIOUS
  <2> QED
    BY <2>1
<1>2. ASSUME NEW m \in 0 .. n - 1, m \in S PROVE m + 1 \in S
  <2>1. PICK f \in [0 .. m -> V] : f[0] = base /\ \A i \in 1 .. m : f[i] = step[i][f[i - 1]]
    BY <1>2
  <2> DEFINE g == [i \in 0 .. m + 1 |-> IF i = m + 1 THEN step[m + 1][f[m]] ELSE f[i]]
  <2>2. step[m + 1] \in [V -> V] /\ f[m] \in V
    OBVIOUS
  <2>2a. step[m + 1][f[m]] \in V
    BY <2>2
  <2>3. g \in [0 .. m + 1 -> V]
    BY <2>2a
  <2>4. g[0] = base
    BY <2>1
  <2>5. ASSUME NEW i \in 1 .. m + 1 PROVE g[i] = step[i][g[i - 1]]
    <3>1. i - 1 \in 0 .. m /\ g[i - 1] = f[i - 1]
      OBVIOUS
    <3>2. CASE i = m + 1
      BY <3>1, <3>2
    <3>3. CASE i # m + 1 
      <4>1. g[i] = f[i] /\ i \in 1 .. m
        BY <3>3
      <4> QED
        BY <3>1, <4>1, <2>1
    <3> QED
      BY <3>2, <3>3
  <2> HIDE DEF g
  <2>6. g \in F(m + 1)
    BY <2>3, <2>4, <2>5
  <2> QED
    BY <2>6
<1> HIDE DEF F
<1>3. \A i \in 0 .. n : i \in S
  <2> HIDE DEF S
  <2> QED
    BY <1>1, <1>2, UpTo
<1>4. F(n) # {}
  BY <1>3
<1> QED
  BY <1>4 DEF F, Recurs

(***************************************************************************)
(* FlattenSeq, which is defined by recursion.                              *)
(***************************************************************************)
IsFlatten(seqs, f) == f = [i \in 1 .. Len(seqs) |-> IF i = 1 THEN seqs[i] ELSE f[i - 1] \o seqs[i]]
\* Its steps: f[i] is what the first i sequences come to.
LEMMA FlattenSteps ==
  ASSUME NEW T, NEW seqs \in Seq(Seq(T))
  PROVE  \E f \in [0 .. Len(seqs) -> Seq(T)] :
          /\ f[0] = <<>> /\ \A i \in 1 .. Len(seqs) : f[i] = f[i - 1] \o seqs[i]
          /\ f[Len(seqs)] = FlattenSeq(seqs)
<1> DEFINE n == Len(seqs)
           step == [i \in 1 .. n |-> [v \in Seq(T) |-> v \o seqs[i]]]
<1>1. step \in [1 .. n -> [Seq(T) -> Seq(T)]]
  OBVIOUS
<1>2. <<>> \in Seq(T) /\ n \in Nat
  OBVIOUS
<1>3. \A i \in 1 .. n, v \in Seq(T) : step[i][v] = v \o seqs[i]
  OBVIOUS
<1>4. PICK f \in [0 .. n -> Seq(T)] : f[0] = <<>> /\ \A i \in 1 .. n : f[i] = step[i][f[i - 1]]
  <2> HIDE DEF step, n
  <2>1. Recurs(n, Seq(T), <<>>, step)
    BY <1>1, <1>2, Recursion
  <2> QED
    BY <2>1 DEF Recurs
<1> HIDE DEF step
<1>5. \A i \in 1 .. n : f[i] = f[i - 1] \o seqs[i]
  <2> TAKE i \in 1 .. n
  <2>1. i - 1 \in 0 .. n
    OBVIOUS
  <2>2. f[i - 1] \in Seq(T)
    BY <2>1
  <2> QED
    BY <1>3, <1>4, <2>2
<1>6. CASE n = 0
  <2>1. seqs = <<>>
    BY <1>6
  <2> QED
    BY <1>4, <1>5, <1>6, <2>1 DEF FlattenSeq
<1>7. CASE n # 0
  <2> DEFINE g == [i \in 1 .. n |-> f[i]]
             h == CHOOSE h : IsFlatten(seqs, h)
  <2>1. FlattenSeq(seqs) = h[n]
    BY <1>7 DEF FlattenSeq, IsFlatten
  <2>2. f[1] = seqs[1]
    <3>1. seqs[1] \in Seq(T) /\ 1 \in 1 .. n
      BY <1>2, <1>7
    <3>2. f[1] = f[1 - 1] \o seqs[1]
      BY <1>5, <3>1, Zenon
    <3>3. 1 - 1 = 0
      OBVIOUS
    <3>4. f[1] = <<>> \o seqs[1]
      BY <1>4, <3>2, <3>3, Zenon
    <3> QED
      BY <3>1, <3>4
  <2>3. IsFlatten(seqs, g)
    <3>1. ASSUME NEW i \in 1 .. n PROVE g[i] = IF i = 1 THEN seqs[i] ELSE g[i - 1] \o seqs[i]
      <4>1. CASE i = 1
        BY <2>2, <4>1
      <4>2. CASE i # 1
        <5>1. i - 1 \in 1 .. n
          BY <4>2, <1>2
        <5>2. g[i - 1] = f[i - 1] /\ g[i] = f[i]
          BY <5>1
        <5> HIDE DEF g
        <5> QED
          BY <1>5, <4>2, <5>2
      <4> QED
        BY <4>1, <4>2
    <3>2. g = [i \in 1 .. n |-> g[i]]
      OBVIOUS
    <3> HIDE DEF g
    <3> QED
      BY <3>1, <3>2 DEF IsFlatten
  <2>4. IsFlatten(seqs, h)
    <3> HIDE DEF g
    <3> QED
      BY <2>3
  <2> HIDE DEF h
  <2>5. \A i \in 1 .. n : h[i] = IF i = 1 THEN seqs[i] ELSE h[i - 1] \o seqs[i]
    BY <2>4 DEF IsFlatten
  <2> DEFINE S == {i \in 0 .. n : i = 0 \/ h[i] = f[i]}
  <2>6. 0 \in S
    BY <1>2
  <2>7. ASSUME NEW i \in 0 .. n - 1, i \in S PROVE i + 1 \in S
    <3>1. i + 1 \in 1 .. n /\ i + 1 - 1 = i
      BY <1>2
    <3>2. h[i + 1] = IF i = 0 THEN seqs[1] ELSE h[i] \o seqs[i + 1]
      BY <2>5, <3>1
    <3>3. f[i + 1] = f[i] \o seqs[i + 1]
      <4>1. ASSUME NEW j \in 1 .. n, j = i + 1 PROVE f[j] = f[i] \o seqs[j]
        <5>1. f[j] = f[j - 1] \o seqs[j]
          BY <1>5, Zenon
        <5>2. j - 1 = i
          BY <4>1
        <5> QED
          BY <5>1, <5>2, Zenon
      <4> QED
        BY <3>1, <4>1, Zenon
    <3>4. h[i + 1] = f[i + 1]
      <4>1. CASE i = 0
        <5>1. h[i + 1] = seqs[1]
          BY <3>2, <4>1
        <5>2. i + 1 = 1
          BY <4>1
        <5> QED
          BY <2>2, <5>1, <5>2, Zenon
      <4>2. CASE i # 0
        <5>1. h[i] = f[i]
          BY <2>7, <4>2
        <5>2. h[i + 1] = h[i] \o seqs[i + 1]
          BY <3>2, <4>2
        <5> QED
          BY <3>3, <5>1, <5>2, Zenon
      <4> QED
        BY <4>1, <4>2
    <3> QED
      BY <3>1, <3>4
  <2>8. \A i \in 0 .. n : i \in S
    <3> HIDE DEF S, n
    <3> QED
      BY <1>2, <2>6, <2>7, UpTo
  <2>9. h[n] = f[n]
    BY <1>2, <1>7, <2>8
  <2> QED
    BY <1>4, <1>5, <2>1, <2>9
<1> QED
  BY <1>6, <1>7

\* Nothing flattened is nothing.
LEMMA FlattenOfNone == FlattenSeq(<<>>) = <<>>
  BY DEF FlattenSeq

\* Two functions that make the same steps from the same start are the same.
LEMMA SameSteps ==
  ASSUME NEW n \in Nat, NEW f, NEW g, f[0] = g[0],
         \A i \in 0 .. n - 1 : f[i] = g[i] => f[i + 1] = g[i + 1]
  PROVE  \A i \in 0 .. n : f[i] = g[i]
<1> DEFINE S == {i \in 0 .. n : f[i] = g[i]}
<1>1. 0 \in S /\ \A i \in 0 .. n - 1 : i \in S => i + 1 \in S
  OBVIOUS
<1>2. \A i \in 0 .. n : i \in S
  <2> HIDE DEF S
  <2> QED
    BY <1>1, UpTo
<1> QED
  BY <1>2

\* A last sequence goes to the end.
LEMMA FlattenAppend ==
  ASSUME NEW T, NEW seqs \in Seq(Seq(T)), NEW x \in Seq(T)
  PROVE  FlattenSeq(Append(seqs, x)) = FlattenSeq(seqs) \o x
<1> DEFINE n == Len(seqs)
           all == Append(seqs, x)
<1>1. /\ all \in Seq(Seq(T)) /\ Len(all) = n + 1 /\ all[n + 1] = x /\ n \in Nat
      /\ \A i \in 1 .. n : all[i] = seqs[i]
  BY AppendProperties
<1> HIDE DEF all
<1>2. PICK f \in [0 .. Len(all) -> Seq(T)] :
        /\ f[0] = <<>> /\ \A i \in 1 .. Len(all) : f[i] = f[i - 1] \o all[i]
        /\ f[Len(all)] = FlattenSeq(all)
  BY <1>1, FlattenSteps, Zenon
<1>3. PICK g \in [0 .. n -> Seq(T)] :
        /\ g[0] = <<>> /\ \A i \in 1 .. n : g[i] = g[i - 1] \o seqs[i]
        /\ g[n] = FlattenSeq(seqs)
  BY FlattenSteps, Zenon
<1>4. ASSUME NEW i \in 0 .. n - 1, f[i] = g[i] PROVE f[i + 1] = g[i + 1]
  <2>1. ASSUME NEW j \in 1 .. n, j = i + 1 PROVE f[j] = g[j]
    <3>1. j - 1 = i /\ j \in 1 .. Len(all)
      BY <1>1, <2>1
    <3>2. f[j] = f[j - 1] \o all[j] /\ g[j] = g[j - 1] \o seqs[j] /\ all[j] = seqs[j]
      BY <1>1, <1>2, <1>3, <3>1, Zenon
    <3> QED
      BY <1>4, <3>1, <3>2, Zenon
  <2> QED
    BY <1>1, <2>1
<1>5. f[n] = g[n]
  <2>1. \A i \in 0 .. n : f[i] = g[i]
    <3>1. f[0] = g[0] /\ n \in Nat
      BY <1>1, <1>2, <1>3, Zenon
    <3>2. \A i \in 0 .. n - 1 : f[i] = g[i] => f[i + 1] = g[i + 1]
      BY <1>4, Zenon
    <3> HIDE DEF n
    <3> QED
      BY <3>1, <3>2, SameSteps, Zenon
  <2> QED
    BY <1>1, <2>1
<1>6. f[n + 1] = f[n] \o x
  <2>1. ASSUME NEW j \in 1 .. n + 1, j = n + 1 PROVE f[j] = f[n] \o x
    <3>1. j - 1 = n /\ j \in 1 .. Len(all)
      BY <1>1, <2>1
    <3>2. f[j] = f[j - 1] \o all[j] /\ all[j] = x
      BY <1>1, <1>2, <2>1, <3>1, Zenon
    <3> QED
      BY <3>1, <3>2, Zenon
  <2> QED
    BY <1>1, <2>1
<1> QED
  BY <1>1, <1>2, <1>3, <1>5, <1>6, Zenon DEF all

\* Flattening sequences over T gives a sequence over T.
LEMMA FlattenType ==
  ASSUME NEW T, NEW seqs \in Seq(Seq(T))
  PROVE  FlattenSeq(seqs) \in Seq(T)
<1>1. PICK f \in [0 .. Len(seqs) -> Seq(T)] : f[Len(seqs)] = FlattenSeq(seqs)
  BY FlattenSteps, Zenon
<1>2. Len(seqs) \in 0 .. Len(seqs)
  OBVIOUS
<1>3. f[Len(seqs)] \in Seq(T)
  BY <1>2
<1> QED
  BY <1>1, <1>3, Zenon

\* What is added to the last sequence goes to the end.
LEMMA FlattenExtend ==
  ASSUME NEW T, NEW seqs \in Seq(Seq(T)), seqs # <<>>, NEW x \in Seq(T)
  PROVE  FlattenSeq([seqs EXCEPT ![Len(seqs)] = @ \o x]) = FlattenSeq(seqs) \o x
<1>1. PICK front \in Seq(Seq(T)), last \in Seq(T) : seqs = Append(front, last)
  BY SequenceEmptyOrAppend
<1>2. /\ Len(seqs) = Len(front) + 1 /\ seqs[Len(seqs)] = last /\ Len(front) \in Nat
      /\ \A i \in 1 .. Len(front) : seqs[i] = front[i]
  BY <1>1, AppendProperties
<1> DEFINE y == last \o x
           all == [seqs EXCEPT ![Len(seqs)] = y]
           new == Append(front, y)
<1>3. y \in Seq(T)
  BY ConcatProperties
<1>4. all = [seqs EXCEPT ![Len(seqs)] = @ \o x]
  BY <1>2
<1> HIDE DEF y
<1>5. /\ all \in Seq(Seq(T)) /\ Len(all) = Len(seqs)
      /\ \A i \in 1 .. Len(seqs) : all[i] = IF i = Len(seqs) THEN y ELSE seqs[i]
  BY <1>2, <1>3, ExceptSeq
<1>6. /\ new \in Seq(Seq(T)) /\ Len(new) = Len(front) + 1 /\ new[Len(front) + 1] = y
      /\ \A i \in 1 .. Len(front) : new[i] = front[i]
  BY <1>3, AppendProperties
<1>7. all = new
  <2> HIDE DEF all, new
  <2>1. \A i \in 1 .. Len(all) : all[i] = new[i]
    <3> TAKE i \in 1 .. Len(all)
    <3>1. CASE i = Len(seqs)
      <4>1. all[i] = y
        BY <1>5, <3>1
      <4> QED
        BY <1>2, <1>6, <3>1, <4>1
    <3>2. CASE i # Len(seqs)
      <4>1. i \in 1 .. Len(front) /\ i \in 1 .. Len(seqs)
        BY <1>2, <1>5, <3>2
      <4> QED
        BY <1>2, <1>5, <1>6, <3>2, <4>1
    <3> QED
      BY <3>1, <3>2
  <2> QED
    BY <1>2, <1>5, <1>6, <2>1, SeqEqual
<1>8. FlattenSeq(new) = FlattenSeq(front) \o y
  BY <1>3, FlattenAppend
<1>9. FlattenSeq(seqs) = FlattenSeq(front) \o last
  BY <1>1, FlattenAppend
<1>10. (FlattenSeq(front) \o last) \o x = FlattenSeq(front) \o y
  <2>1. FlattenSeq(front) \in Seq(T)
    BY FlattenType
  <2> QED
    BY <2>1, ConcatAssociative, SMTT(60) DEF y
<1> QED
  BY <1>4, <1>7, <1>8, <1>9, <1>10, Zenon

\* Two runs, a over names and b over files, in step with each other: d[k] is the file of
\* the k-th name (0: none), and both are in order.  A name without a file leaves a where it
\* is, a file without a name leaves b, and a file with its name takes both to the same.
\* Cut: the names up to k and the files up to j are the same files.
Cut(d, K, k, j) ==
  \A n \in 1 .. K : (n <= k => d[n] <= j) /\ (n > k => d[n] = 0 \/ d[n] > j)

Together(d, K, N, a, b) ==
  /\ \A k, l \in 1 .. K : k < l /\ d[k] # 0 /\ d[l] # 0 => d[k] < d[l]
  /\ a[0] = b[0]
  /\ \A k \in 1 .. K : d[k] = 0 => a[k] = a[k - 1]
  /\ \A j \in 1 .. N : (\A k \in 1 .. K : d[k] # j) => b[j] = b[j - 1]
  /\ \A k \in 1 .. K, j \in 1 .. N : d[k] = j /\ a[k - 1] = b[j - 1] => a[k] = b[j]

\* Two ways through the same things, by name and by place, arrive at the same end.
LEMMA InStep ==
  ASSUME NEW K \in Nat, NEW N \in Nat, NEW d \in [1 .. K -> 0 .. N],
         NEW a, NEW b, Together(d, K, N, a, b)
  PROVE  a[K] = b[N]
<1> DEFINE P(s) == \A k \in 0 .. K, j \in 0 .. N : k + j <= s /\ Cut(d, K, k, j) => a[k] = b[j]
           S == {s \in 0 .. K + N : P(s)}
<1>0. \A n \in 1 .. K : d[n] \in 0 .. N
  OBVIOUS
<1>0a.
      /\ \A k, l \in 1 .. K : k < l /\ d[k] # 0 /\ d[l] # 0 => d[k] < d[l]
      /\ a[0] = b[0]
      /\ \A k \in 1 .. K : d[k] = 0 => a[k] = a[k - 1]
      /\ \A j \in 1 .. N : (\A k \in 1 .. K : d[k] # j) => b[j] = b[j - 1]
      /\ \A k \in 1 .. K, j \in 1 .. N : d[k] = j /\ a[k - 1] = b[j - 1] => a[k] = b[j]
  BY Zenon DEF Together
<1>1. 0 \in S
  <2>1. \A k \in 0 .. K, j \in 0 .. N : k + j <= 0 => k = 0 /\ j = 0
    OBVIOUS
  <2> QED
    BY <1>0a, <2>1
<1>2. ASSUME NEW s \in 0 .. K + N - 1, s \in S PROVE s + 1 \in S
  <2>2. \A m \in 0 .. K, i \in 0 .. N : m + i <= s /\ Cut(d, K, m, i) => a[m] = b[i]
    BY <1>2
  <2> HIDE DEF S
  <2>1. ASSUME NEW k \in 0 .. K, NEW j \in 0 .. N, k + j = s + 1, Cut(d, K, k, j)
        PROVE  a[k] = b[j]
    <3>1. CASE k = 0
      <4>1. j \in 1 .. N /\ j - 1 \in 0 .. N /\ k + (j - 1) <= s
        BY <2>1, <3>1
      <4>2. Cut(d, K, k, j - 1) /\ \A n \in 1 .. K : d[n] # j
        BY <1>0, <2>1, <3>1, <4>1 DEF Cut
      <4>3. a[k] = b[j - 1]
        BY <2>2, <4>1, <4>2
      <4> QED
        BY <1>0a, <4>1, <4>2, <4>3, Zenon
    <3>2. CASE k # 0 /\ d[k] = 0
      <4>1. k \in 1 .. K /\ k - 1 \in 0 .. K /\ (k - 1) + j <= s
        BY <2>1, <3>2
      <4>2. Cut(d, K, k - 1, j)
        BY <1>0, <2>1, <3>2, <4>1 DEF Cut
      <4>3. a[k - 1] = b[j]
        BY <2>2, <4>1, <4>2
      <4> QED
        BY <1>0a, <3>2, <4>1, <4>3
    <3>3. CASE k # 0 /\ d[k] # 0
      <4>1. k \in 1 .. K /\ k - 1 \in 0 .. K
        BY <3>3
      <4>2. d[k] <= j /\ d[k] \in 1 .. N
        BY <1>0, <2>1, <3>3, <4>1 DEF Cut
      <4>3. j \in 1 .. N /\ j - 1 \in 0 .. N
        BY <4>2
      <4>4. \A n \in 1 .. K : n < k => d[n] = 0 \/ d[n] < d[k]
        BY <1>0a, <3>3, <4>1
      <4>5. \A n \in 1 .. K : n > k => d[n] = 0 \/ d[n] > j
        BY <2>1, <4>1 DEF Cut
      <4>6. CASE d[k] = j
        <5>1. Cut(d, K, k - 1, j - 1)
          BY <1>0, <4>1, <4>3, <4>4, <4>5, <4>6 DEF Cut
        <5>2. (k - 1) + (j - 1) <= s
          BY <2>1, <4>1, <4>3
        <5>3. a[k - 1] = b[j - 1]
          BY <2>2, <4>1, <4>3, <5>1, <5>2
        <5> QED
          BY <1>0a, <4>1, <4>3, <4>6, <5>3, Zenon
      <4>7. CASE d[k] # j
        <5>1. ASSUME NEW n \in 1 .. K
              PROVE  d[n] # j /\ (n <= k => d[n] <= j - 1) /\ (n > k => d[n] = 0 \/ d[n] > j - 1)
          <6>1. d[n] \in 0 .. N
            BY <1>0
          <6>2. CASE n = k
            BY <4>2, <4>3, <4>7, <6>2
          <6>3. CASE n < k
            <7>1. d[n] = 0 \/ d[n] < d[k]
              BY <4>4, <6>3
            <7> QED
              BY <4>1, <4>2, <4>3, <6>1, <6>3, <7>1
          <6>4. CASE n > k
            <7>1. d[n] = 0 \/ d[n] > j
              BY <4>5, <6>4
            <7> QED
              BY <4>1, <4>3, <6>1, <6>4, <7>1
          <6> QED
            BY <4>1, <6>2, <6>3, <6>4
        <5>2. Cut(d, K, k, j - 1) /\ \A n \in 1 .. K : d[n] # j
          BY <5>1 DEF Cut
        <5>3. k + (j - 1) <= s
          BY <2>1, <4>1, <4>3
        <5>4. a[k] = b[j - 1]
          BY <2>2, <4>1, <4>3, <5>2, <5>3
        <5> QED
          BY <1>0a, <4>3, <5>2, <5>4, Zenon
      <4> QED
        BY <4>6, <4>7
    <3> QED
      BY <3>1, <3>2, <3>3
  <2>3. ASSUME NEW k \in 0 .. K, NEW j \in 0 .. N, k + j <= s + 1 PROVE k + j <= s \/ k + j = s + 1
    BY <2>3
  <2>4. P(s + 1)
    BY <2>1, <2>2, <2>3
  <2>5. s + 1 \in 0 .. K + N
    OBVIOUS
  <2> QED
    BY <2>4, <2>5 DEF S
<1>3. \A s \in 0 .. K + N : s \in S
  <2> DEFINE n == K + N
  <2>1. n \in Nat
    OBVIOUS
  <2> HIDE DEF S, P
  <2>2. \A s \in 0 .. n - 1 : s \in S => s + 1 \in S
    BY <1>2
  <2> HIDE DEF n
  <2>3. \A s \in 0 .. n : s \in S
    BY <1>1, <2>1, <2>2, UpTo, Zenon
  <2> QED
    BY <2>3 DEF n
<1>4. Cut(d, K, K, N) /\ K + N \in 0 .. K + N
  BY <1>0 DEF Cut
<1>5. P(K + N)
  BY <1>3, <1>4
<1>6. K \in 0 .. K /\ N \in 0 .. N /\ K + N <= K + N
  OBVIOUS
<1> HIDE DEF S
<1> QED
  BY <1>4, <1>5, <1>6

\* Directories: the files, numbered in order, that names in the same order stand for (0: for
\* none), give the same whether one goes through the names or through the named files.
Listed(d, names, files, kept) ==
  /\ d \in [1 .. Len(names) -> 0 .. Len(files)] /\ Len(kept) = Len(files)
  /\ \A k, l \in 1 .. Len(names) : k < l /\ d[k] # 0 /\ d[l] # 0 => d[k] < d[l]
  /\ \A k \in 1 .. Len(names) : names[k] = IF d[k] = 0 THEN <<>> ELSE files[d[k]]
  /\ \A j \in 1 .. Len(files) :
       kept[j] = IF \E k \in 1 .. Len(names) : d[k] = j THEN files[j] ELSE <<>>

\* Files taken in the order of their names are the files in order, without those that have none.
LEMMA FlattenNamed ==
  ASSUME NEW T, NEW files \in Seq(Seq(T)), NEW names \in Seq(Seq(T)), NEW kept \in Seq(Seq(T)),
         NEW d, Listed(d, names, files, kept)
  PROVE  FlattenSeq(names) = FlattenSeq(kept)
<1>0. /\ d \in [1 .. Len(names) -> 0 .. Len(files)] /\ Len(kept) = Len(files)
      /\ \A k, l \in 1 .. Len(names) : k < l /\ d[k] # 0 /\ d[l] # 0 => d[k] < d[l]
      /\ \A k \in 1 .. Len(names) : names[k] = IF d[k] = 0 THEN <<>> ELSE files[d[k]]
      /\ \A j \in 1 .. Len(files) :
           kept[j] = IF \E k \in 1 .. Len(names) : d[k] = j THEN files[j] ELSE <<>>
  BY Zenon DEF Listed
<1>1. PICK a \in [0 .. Len(names) -> Seq(T)] :
        /\ a[0] = <<>> /\ \A i \in 1 .. Len(names) : a[i] = a[i - 1] \o names[i]
        /\ a[Len(names)] = FlattenSeq(names)
  BY FlattenSteps, Zenon
<1>2. PICK b \in [0 .. Len(kept) -> Seq(T)] :
        /\ b[0] = <<>> /\ \A i \in 1 .. Len(kept) : b[i] = b[i - 1] \o kept[i]
        /\ b[Len(kept)] = FlattenSeq(kept)
  BY FlattenSteps, Zenon
<1>3. ASSUME NEW k \in 1 .. Len(names), d[k] = 0 PROVE a[k] = a[k - 1]
  <2>1. k - 1 \in 0 .. Len(names)
    OBVIOUS
  <2>1a. names[k] = <<>>
    BY <1>0, <1>3
  <2>2. a[k] = a[k - 1] \o <<>>
    BY <1>1, <2>1a, Zenon
  <2>3. a[k - 1] \in Seq(T)
    BY <2>1
  <2> QED
    BY <2>2, <2>3, ConcatEmptySeq
<1>4. ASSUME NEW j \in 1 .. Len(files), \A k \in 1 .. Len(names) : d[k] # j PROVE b[j] = b[j - 1]
  <2>0. kept[j] = IF \E k \in 1 .. Len(names) : d[k] = j THEN files[j] ELSE <<>>
    BY <1>0, Zenon
  <2>0a. kept[j] = <<>>
    BY <1>4, <2>0, Zenon
  <2>0b. Len(kept) = Len(files)
    BY <1>0, Zenon
  <2>0c. j - 1 \in 0 .. Len(kept) /\ j \in 1 .. Len(kept)
    BY <2>0b
  <2>1. j - 1 \in 0 .. Len(kept) /\ kept[j] = <<>> /\ j \in 1 .. Len(kept)
    BY <2>0a, <2>0c
  <2>2. b[j] = b[j - 1] \o <<>>
    BY <1>2, <2>1, Zenon
  <2>3. b[j - 1] \in Seq(T)
    BY <2>1
  <2> QED
    BY <2>2, <2>3, ConcatEmptySeq
<1>5. ASSUME NEW k \in 1 .. Len(names), NEW j \in 1 .. Len(files), d[k] = j, a[k - 1] = b[j - 1]
      PROVE  a[k] = b[j]
  <2>1. j \in 1 .. Len(kept) /\ d[k] # 0 /\ \E l \in 1 .. Len(names) : d[l] = j
    BY <1>0, <1>5, SMTT(30)
  <2>1a. names[k] = files[j] /\ kept[j] = files[j]
    BY <1>0, <1>5, <2>1, Zenon
  <2>2. a[k] = a[k - 1] \o names[k] /\ b[j] = b[j - 1] \o kept[j]
    BY <1>1, <1>2, <2>1, Zenon
  <2> QED
    BY <1>5, <2>1a, <2>2, Zenon
<1>6. a[Len(names)] = b[Len(files)]
  <2> DEFINE n == Len(names)
             m == Len(files)
  <2>1. n \in Nat /\ m \in Nat /\ d \in [1 .. n -> 0 .. m]
    BY <1>0
  <2>2. a[0] = b[0]
    BY <1>1, <1>2, Zenon
  <2>3. \A k, l \in 1 .. n : k < l /\ d[k] # 0 /\ d[l] # 0 => d[k] < d[l]
    BY <1>0, Zenon
  <2>4. \A k \in 1 .. n : d[k] = 0 => a[k] = a[k - 1]
    BY <1>3, Zenon
  <2>5. \A j \in 1 .. m : (\A k \in 1 .. n : d[k] # j) => b[j] = b[j - 1]
    BY <1>4, Zenon
  <2>6. \A k \in 1 .. n, j \in 1 .. m : d[k] = j /\ a[k - 1] = b[j - 1] => a[k] = b[j]
    BY <1>5, Zenon
  <2> HIDE DEF n, m
  <2>7. Together(d, n, m, a, b)
    BY <2>2, <2>3, <2>4, <2>5, <2>6, Zenon DEF Together
  <2>8. \A q \in [1 .. n -> 0 .. m] : \A x, y : Together(q, n, m, x, y) => x[n] = y[m]
    BY <2>1, InStep, Zenon
  <2>9. a[n] = b[m]
    BY <2>1, <2>7, <2>8, Zenon
  <2> QED
    BY <2>9 DEF n, m
<1> QED
  BY <1>0, <1>1, <1>2, <1>6, Zenon

(***************************************************************************)
(* Only, element by element.                                               *)
(***************************************************************************)
\* h[i] is what Only leaves of the first i elements of s.
OnlyRun(s, S, h) ==
  /\ h[0] = <<>> /\ h[Len(s)] = Only(s, S)
  /\ \A i \in 1 .. Len(s) : h[i] = IF s[i] \in S THEN Append(h[i - 1], s[i]) ELSE h[i - 1]

\* Only can be computed element by element.
LEMMA OnlySteps ==
  ASSUME NEW T, NEW s \in Seq(T), NEW S
  PROVE  \E h \in [0 .. Len(s) -> Seq(T)] : OnlyRun(s, S, h)
<1> DEFINE parts == [i \in DOMAIN s |-> IF s[i] \in S THEN <<s[i]>> ELSE <<>>]
<1>1. parts \in Seq(Seq(T)) /\ Len(parts) = Len(s)
  <2>1. Len(s) \in Nat /\ DOMAIN s = 1 .. Len(s) /\ \A i \in 1 .. Len(s) : s[i] \in T
    OBVIOUS
  <2>2. \A i \in 1 .. Len(s) : <<s[i]>> \in Seq(T)
    BY <2>1
  <2>3. <<>> \in Seq(T)
    BY EmptySeq
  <2>4. parts \in [1 .. Len(s) -> Seq(T)]
    BY <2>1, <2>2, <2>3
  <2> HIDE DEF parts
  <2> QED
    BY <2>1, <2>4
<1>2. \A i \in 1 .. Len(s) : parts[i] = IF s[i] \in S THEN <<s[i]>> ELSE <<>>
  OBVIOUS
<1>3. FlattenSeq(parts) = Only(s, S)
  BY DEF Only
<1> HIDE DEF parts
<1>4. PICK h \in [0 .. Len(parts) -> Seq(T)] :
        /\ h[0] = <<>> /\ \A i \in 1 .. Len(parts) : h[i] = h[i - 1] \o parts[i]
        /\ h[Len(parts)] = FlattenSeq(parts)
  BY <1>1, FlattenSteps, Zenon
<1>5. h \in [0 .. Len(s) -> Seq(T)] /\ h[0] = <<>> /\ h[Len(s)] = Only(s, S)
  BY <1>1, <1>3, <1>4
<1>6. ASSUME NEW i \in 1 .. Len(s)
      PROVE  h[i] = IF s[i] \in S THEN Append(h[i - 1], s[i]) ELSE h[i - 1]
  <2>1. h[i] = h[i - 1] \o parts[i]
    BY <1>1, <1>4, Zenon
  <2>2. h[i - 1] \in Seq(T)
    <3>1. i - 1 \in 0 .. Len(s)
      OBVIOUS
    <3> QED
      BY <1>5, <3>1
  <2>3. s[i] \in T
    OBVIOUS
  <2>4. parts[i] = IF s[i] \in S THEN <<s[i]>> ELSE <<>>
    BY <1>2
  <2>5. h[i - 1] \o <<>> = h[i - 1]
    BY <2>2, ConcatEmptySeq
  <2>6. h[i - 1] \o <<s[i]>> = Append(h[i - 1], s[i])
    BY <2>2, <2>3, AppendIsConcat
  <2> QED
    BY <2>1, <2>4, <2>5, <2>6, Zenon
<1> QED
  BY <1>5, <1>6 DEF OnlyRun

\* A step of the run, at any place.
LEMMA OnlyStep ==
  ASSUME NEW s, NEW S, NEW h, OnlyRun(s, S, h), Len(s) \in Nat, NEW i \in 0 .. Len(s) - 1
  PROVE  h[i + 1] = IF s[i + 1] \in S THEN Append(h[i], s[i + 1]) ELSE h[i]
<1>1. ASSUME NEW j \in 1 .. Len(s), j = i + 1
      PROVE  h[j] = IF s[j] \in S THEN Append(h[i], s[j]) ELSE h[i]
  <2>1. j - 1 = i
    BY <1>1
  <2>2. h[j] = IF s[j] \in S THEN Append(h[j - 1], s[j]) ELSE h[j - 1]
    BY Zenon DEF OnlyRun
  <2> QED
    BY <2>1, <2>2, Zenon
<1>2. i + 1 \in 1 .. Len(s)
  OBVIOUS
<1> QED
  BY <1>1, <1>2, Zenon

\* What Only leaves is a sequence of the elements that are in S.
LEMMA OnlyElements ==
  ASSUME NEW T, NEW s \in Seq(T), NEW S
  PROVE  Only(s, S) \in Seq(T) /\ ToSet(Only(s, S)) = ToSet(s) \cap S
<1>1. PICK h \in [0 .. Len(s) -> Seq(T)] : OnlyRun(s, S, h)
  BY OnlySteps, Zenon
<1>2. /\ Len(s) \in Nat /\ Len(s) \in 0 .. Len(s) /\ DOMAIN s = 1 .. Len(s)
      /\ \A i \in 1 .. Len(s) : s[i] \in T
      /\ h[0] = <<>> /\ h[Len(s)] = Only(s, S)
  BY <1>1 DEF OnlyRun
<1>2a. \A i \in 0 .. Len(s) - 1 : h[i + 1] = IF s[i + 1] \in S THEN Append(h[i], s[i + 1]) ELSE h[i]
  <2>1. Len(s) \in Nat
    OBVIOUS
  <2>2. ASSUME NEW i \in 0 .. Len(s) - 1
        PROVE  h[i + 1] = IF s[i + 1] \in S THEN Append(h[i], s[i + 1]) ELSE h[i]
    BY <1>1, <2>1, OnlyStep
  <2> QED
    BY <2>2
<1> DEFINE P(i) == ToSet(h[i]) = {s[k] : k \in 1 .. i} \cap S
           I == {i \in 0 .. Len(s) : P(i)}
<1>3. 0 \in I
  <2>1. ToSet(<<>>) = {}
    BY DEF ToSet
  <2> QED
    BY <1>2, <2>1
<1>4. ASSUME NEW i \in 0 .. Len(s) - 1, i \in I PROVE i + 1 \in I
  <2>1. h[i + 1] = IF s[i + 1] \in S THEN Append(h[i], s[i + 1]) ELSE h[i]
    BY <1>2a
  <2>2. h[i] \in Seq(T) /\ s[i + 1] \in T /\ i + 1 \in 0 .. Len(s) /\ P(i)
    BY <1>2, <1>4
  <2>3. ToSet(Append(h[i], s[i + 1])) = ToSet(h[i]) \cup {s[i + 1]}
    <3>1. DOMAIN Append(h[i], s[i + 1]) = 1 .. Len(h[i]) + 1 /\ DOMAIN h[i] = 1 .. Len(h[i]) /\ Len(h[i]) \in Nat
      BY <2>2, AppendProperties
    <3>2. /\ Append(h[i], s[i + 1])[Len(h[i]) + 1] = s[i + 1]
          /\ \A k \in 1 .. Len(h[i]) : Append(h[i], s[i + 1])[k] = h[i][k]
      BY <2>2, AppendProperties
    <3> DEFINE a == Append(h[i], s[i + 1])
    <3> HIDE DEF a
    <3>3. ToSet(a) = ToSet(h[i]) \cup {s[i + 1]}
      <4>1. \A k \in 1 .. Len(h[i]) + 1 : k \in 1 .. Len(h[i]) \/ k = Len(h[i]) + 1
        BY <3>1
      <4>2. Len(h[i]) + 1 \in 1 .. Len(h[i]) + 1 /\ \A k \in 1 .. Len(h[i]) : k \in 1 .. Len(h[i]) + 1
        BY <3>1
      <4>3. DOMAIN a = 1 .. Len(h[i]) + 1 /\ a[Len(h[i]) + 1] = s[i + 1] /\ \A k \in 1 .. Len(h[i]) : a[k] = h[i][k]
        BY <3>1, <3>2 DEF a
      <4> QED
        BY <3>1, <4>1, <4>2, <4>3, Zenon DEF ToSet
    <3> QED
      BY <3>3 DEF a
  <2>4. {s[k] : k \in 1 .. i + 1} = {s[k] : k \in 1 .. i} \cup {s[i + 1]}
    <3>1. \A k \in 1 .. i + 1 : k \in 1 .. i \/ k = i + 1
      OBVIOUS
    <3>2. i + 1 \in 1 .. i + 1 /\ \A k \in 1 .. i : k \in 1 .. i + 1
      OBVIOUS
    <3> QED
      BY <3>1, <3>2, Zenon
  <2>5. P(i + 1)
    BY <2>1, <2>2, <2>3, <2>4, Zenon
  <2> QED
    BY <2>2, <2>5
<1>5. P(Len(s))
  <2> DEFINE n == Len(s)
  <2>1. n \in Nat /\ n \in 0 .. n
    BY <1>2
  <2> HIDE DEF I
  <2>2. \A i \in 0 .. n - 1 : i \in I => i + 1 \in I
    BY <1>4
  <2> HIDE DEF n
  <2>3. \A i \in 0 .. n : i \in I
    BY <1>3, <2>1, <2>2, UpTo, Zenon
  <2> QED
    BY <2>1, <2>3 DEF I, n
<1>6. h[Len(s)] \in Seq(T)
  BY <1>2
<1>7. ToSet(s) = {s[k] : k \in 1 .. Len(s)}
  BY <1>2 DEF ToSet
<1> QED
  BY <1>2, <1>5, <1>6, <1>7, Zenon

\* When the elements in S stand together, they are what is left.
LEMMA OnlySpan ==
  ASSUME NEW T, NEW s \in Seq(T), NEW S, NEW f \in 1 .. Len(s) + 1, NEW g \in f - 1 .. Len(s),
         \A i \in 1 .. f - 1 : s[i] \notin S,
         \A i \in f .. g : s[i] \in S,
         \A i \in g + 1 .. Len(s) : s[i] \notin S
  PROVE  Only(s, S) = SubSeq(s, f, g)
<1>1. PICK h \in [0 .. Len(s) -> Seq(T)] : OnlyRun(s, S, h)
  BY OnlySteps, Zenon
<1>2. /\ Len(s) \in Nat /\ Len(s) \in 0 .. Len(s)
      /\ h[0] = <<>> /\ h[Len(s)] = Only(s, S)
  BY <1>1 DEF OnlyRun
<1> DEFINE To(i) == IF i <= g THEN i ELSE g
           P(i) == h[i] = SubSeq(s, f, To(i))
           I == {i \in 0 .. Len(s) : P(i)}
<1>3. 0 \in I
  <2>1. SubSeq(s, f, To(0)) = <<>>
    BY SubSeqEmpty
  <2> QED
    BY <1>2, <2>1
<1>4. ASSUME NEW i \in 0 .. Len(s) - 1, i \in I PROVE i + 1 \in I
  <2>1. h[i + 1] = IF s[i + 1] \in S THEN Append(h[i], s[i + 1]) ELSE h[i]
    BY <1>1, <1>2, OnlyStep
  <2>2. h[i] = SubSeq(s, f, To(i)) /\ i + 1 \in 0 .. Len(s)
    BY <1>4
  <2>3. CASE i + 1 \in f .. g
    <3>1. s[i + 1] \in S /\ To(i) = i /\ To(i + 1) = i + 1
      BY <2>3
    <3>2. Append(SubSeq(s, f, i), s[i + 1]) = SubSeq(s, f, i + 1)
      BY <2>3
    <3> QED
      BY <2>1, <2>2, <3>1, <3>2
  <2>4. CASE i + 1 \in 1 .. f - 1
    <3>1. s[i + 1] \notin S
      BY <2>4
    <3>2. To(i) < f /\ To(i + 1) < f /\ To(i) \in Int /\ To(i + 1) \in Int /\ f \in Int
      BY <2>4
    <3>3. SubSeq(s, f, To(i)) = <<>> /\ SubSeq(s, f, To(i + 1)) = <<>>
      BY <3>2, SubSeqEmpty
    <3> QED
      BY <2>1, <2>2, <3>1, <3>3
  <2>5. CASE i + 1 \in g + 1 .. Len(s) /\ i + 1 >= f
    <3>1. s[i + 1] \notin S /\ To(i) = To(i + 1)
      BY <2>5
    <3> QED
      BY <2>1, <2>2, <3>1
  <2> QED
    BY <2>3, <2>4, <2>5
<1>5. P(Len(s))
  <2> DEFINE n == Len(s)
  <2>1. n \in Nat /\ n \in 0 .. n
    BY <1>2
  <2> HIDE DEF I
  <2>2. \A i \in 0 .. n - 1 : i \in I => i + 1 \in I
    BY <1>4
  <2> HIDE DEF n
  <2>3. \A i \in 0 .. n : i \in I
    BY <1>3, <2>1, <2>2, UpTo, Zenon
  <2> QED
    BY <2>1, <2>3 DEF I, n
<1>6. To(Len(s)) = g
  OBVIOUS
<1> QED
  BY <1>2, <1>5, <1>6

(***************************************************************************)
(* Sequences.                                                              *)
(***************************************************************************)
\* IsSequence says sequence without naming a set of elements.
LEMMA SequenceOf ==
  ASSUME NEW s, IsSequence(s)
  PROVE  s \in Seq(ToSet(s)) /\ Len(s) \in Nat /\ DOMAIN s = 1 .. Len(s) /\ \A i \in 1 .. Len(s) : s[i] \in ToSet(s)
<1>1. s \in Seq(ToSet(s))
  BY DEF IsSequence
<1> QED
  BY <1>1

LEMMA NothingIsSequence == IsSequence(<<>>) /\ ToSet(<<>>) = {}
<1>1. ToSet(<<>>) = {}
  BY DEF ToSet
<1> QED
  BY <1>1, EmptySeq DEF IsSequence

\* OnlyElements, for IsSequence.
LEMMA OnlySequence ==
  ASSUME NEW s, IsSequence(s), NEW S
  PROVE  IsSequence(Only(s, S)) /\ ToSet(Only(s, S)) = ToSet(s) \cap S
<1>1. Only(s, S) \in Seq(ToSet(s)) /\ ToSet(Only(s, S)) = ToSet(s) \cap S
  BY OnlyElements DEF IsSequence
<1> DEFINE o == Only(s, S)
<1>2. o \in Seq(ToSet(s))
  BY <1>1
<1> HIDE DEF o
<1>3. o \in Seq(ToSet(o))
  BY <1>2 DEF ToSet
<1> QED
  BY <1>1, <1>3 DEF IsSequence, o

\* A last element stays when it is in S.
LEMMA OnlyAppend ==
  ASSUME NEW T, NEW s \in Seq(T), NEW x \in T, NEW S
  PROVE  Only(Append(s, x), S) = IF x \in S THEN Append(Only(s, S), x) ELSE Only(s, S)
<1> DEFINE Part(y) == IF y \in S THEN <<y>> ELSE <<>>
           parts == [i \in DOMAIN s |-> Part(s[i])]
           all   == [i \in DOMAIN Append(s, x) |-> Part(Append(s, x)[i])]
<1>1. Only(s, S) = FlattenSeq(parts) /\ Only(Append(s, x), S) = FlattenSeq(all)
  BY DEF Only
<1>2. ASSUME NEW y \in T PROVE Part(y) \in Seq(T)
  <2>1. <<y>> \in Seq(T) /\ <<>> \in Seq(T)
    OBVIOUS
  <2> QED
    BY <2>1
<1>3. Len(s) \in Nat /\ DOMAIN s = 1 .. Len(s) /\ \A i \in 1 .. Len(s) : s[i] \in T
  OBVIOUS
<1>4. /\ DOMAIN Append(s, x) = 1 .. Len(s) + 1 /\ Append(s, x)[Len(s) + 1] = x
      /\ \A i \in 1 .. Len(s) : Append(s, x)[i] = s[i]
  BY AppendProperties
<1> DEFINE a == Append(s, x)
<1> HIDE DEF Part, a
<1>5. parts \in Seq(Seq(T)) /\ Len(parts) = Len(s) /\ \A i \in 1 .. Len(s) : parts[i] = Part(s[i])
  <2>1. parts \in [1 .. Len(s) -> Seq(T)]
    BY <1>2, <1>3
  <2>2. \A i \in 1 .. Len(s) : parts[i] = Part(s[i])
    BY <1>3
  <2> HIDE DEF parts
  <2> QED
    BY <1>3, <2>1, <2>2
<1>6. DOMAIN all = 1 .. Len(s) + 1 /\ all[Len(s) + 1] = Part(x) /\ \A i \in 1 .. Len(s) : all[i] = Part(s[i])
  <2>1. all = [i \in 1 .. Len(s) + 1 |-> Part(a[i])]
    BY <1>4 DEF a
  <2> HIDE DEF all
  <2> QED
    BY <1>3, <1>4, <2>1 DEF a
<1>7. all = [i \in 1 .. Len(s) + 1 |-> all[i]]
  <2>1. all = [i \in DOMAIN all |-> all[i]]
    OBVIOUS
  <2> HIDE DEF all
  <2> QED
    BY <1>6, <2>1
<1> HIDE DEF parts, all
<1>8. all = Append(parts, Part(x))
  <2>1. Part(x) \in Seq(T)
    BY <1>2
  <2> DEFINE b == Append(parts, Part(x))
  <2>2. /\ b \in Seq(Seq(T)) /\ Len(b) = Len(s) + 1 /\ b[Len(s) + 1] = Part(x)
        /\ \A i \in 1 .. Len(s) : b[i] = parts[i]
    BY <1>5, <2>1, AppendProperties
  <2> HIDE DEF b
  <2>3. all \in Seq(Seq(T)) /\ Len(all) = Len(s) + 1
    <3>1. \A i \in 1 .. Len(s) + 1 : all[i] \in Seq(T)
      <4>1. \A i \in 1 .. Len(s) + 1 : i \in 1 .. Len(s) \/ i = Len(s) + 1
        BY <1>3
      <4> QED
        BY <1>2, <1>3, <1>6, <4>1
    <3>2. Len(s) + 1 \in Nat
      BY <1>3
    <3> QED
      BY <1>7, <3>1, <3>2, SeqDef
  <2>4. \A i \in 1 .. Len(s) + 1 : all[i] = b[i]
    <3>1. \A i \in 1 .. Len(s) + 1 : i \in 1 .. Len(s) \/ i = Len(s) + 1
      BY <1>3
    <3> QED
      BY <1>5, <1>6, <2>2, <3>1
  <2>5. all = b
    BY <2>2, <2>3, <2>4, SeqEqual
  <2> QED
    BY <2>5 DEF b
<1>9. Only(a, S) = Only(s, S) \o Part(x)
  <2>1. Part(x) \in Seq(T)
    BY <1>2
  <2> QED
    BY <1>1, <1>5, <1>8, <2>1, FlattenAppend DEF a
<1>10. Only(s, S) \in Seq(T)
  BY OnlyElements
<1> QED
  BY <1>9, <1>10, ConcatEmptySeq, AppendIsConcat DEF Part, a

\* What is left depends on the elements there are only.
LEMMA OnlySame ==
  ASSUME NEW s, IsSequence(s), NEW A, NEW B, A \cap ToSet(s) = B \cap ToSet(s)
  PROVE  Only(s, A) = Only(s, B)
<1>1. \A i \in DOMAIN s : s[i] \in A <=> s[i] \in B
  BY DEF ToSet
<1>2. [i \in DOMAIN s |-> IF s[i] \in A THEN <<s[i]>> ELSE <<>>]
        = [i \in DOMAIN s |-> IF s[i] \in B THEN <<s[i]>> ELSE <<>>]
  BY <1>1
<1> QED
  BY <1>2 DEF Only

\* What is left of what is left is what both sets leave.
LEMMA OnlyTwice ==
  ASSUME NEW T, NEW s \in Seq(T), NEW A, NEW B
  PROVE  Only(Only(s, A), B) = Only(s, A \cap B)
<1>1. Len(s) \in Nat /\ \A i \in 1 .. Len(s) : s[i] \in T
  OBVIOUS
<1>2. PICK h \in [0 .. Len(s) -> Seq(T)] : OnlyRun(s, A, h)
  BY <1>1, OnlySteps, Zenon
<1> DEFINE C == A \cap B
<1> HIDE DEF C
<1>3. PICK g \in [0 .. Len(s) -> Seq(T)] : OnlyRun(s, C, g)
  BY <1>1, OnlySteps, Zenon
<1> DEFINE f == [i \in 0 .. Len(s) |-> Only(h[i], B)]
<1>4. f[0] = g[0]
  <2>1. h[0] = <<>> /\ g[0] = <<>>
    BY <1>2, <1>3 DEF OnlyRun
  <2>2. Only(<<>>, B) = <<>>
    <3>1. [i \in DOMAIN <<>> |-> IF <<>>[i] \in B THEN <<<<>>[i]>> ELSE <<>>] = <<>>
      OBVIOUS
    <3> QED
      BY <3>1, FlattenOfNone DEF Only
  <2>3. 0 \in 0 .. Len(s)
    BY <1>1
  <2> QED
    BY <2>1, <2>2, <2>3
<1>5. ASSUME NEW i \in 0 .. Len(s) - 1, f[i] = g[i] PROVE f[i + 1] = g[i + 1]
  <2>0. i \in 0 .. Len(s) /\ i + 1 \in 0 .. Len(s)
    BY <1>1
  <2>5. f[i] = Only(h[i], B) /\ f[i + 1] = Only(h[i + 1], B)
    BY <2>0
  <2> HIDE DEF f
  <2>1. h[i + 1] = IF s[i + 1] \in A THEN Append(h[i], s[i + 1]) ELSE h[i]
    BY <1>1, <1>2, OnlyStep
  <2>2. g[i + 1] = IF s[i + 1] \in C THEN Append(g[i], s[i + 1]) ELSE g[i]
    BY <1>1, <1>3, OnlyStep
  <2>3. h[i] \in Seq(T) /\ s[i + 1] \in T
    BY <1>1, <2>0
  <2>4. Only(Append(h[i], s[i + 1]), B) = IF s[i + 1] \in B THEN Append(Only(h[i], B), s[i + 1]) ELSE Only(h[i], B)
    <3>1. \A r \in Seq(T), x \in T : Only(Append(r, x), B) = IF x \in B THEN Append(Only(r, B), x) ELSE Only(r, B)
      BY OnlyAppend
    <3> QED
      BY <2>3, <3>1
  <2> QED
    BY <1>5, <2>1, <2>2, <2>4, <2>5 DEF C
<1> HIDE DEF f
<1>6. \A i \in 0 .. Len(s) : f[i] = g[i]
  BY <1>1, <1>4, <1>5, SameSteps
<1>7. h[Len(s)] = Only(s, A) /\ g[Len(s)] = Only(s, C) /\ Len(s) \in 0 .. Len(s)
  BY <1>1, <1>2, <1>3 DEF OnlyRun
<1> QED
  BY <1>6, <1>7 DEF f, C

\* The first element in S is the first of those that are left.
LEMMA OnlyFirst ==
  ASSUME NEW T, NEW s \in Seq(T), NEW S, NEW m \in 1 .. Len(s),
         s[m] \in S, \A i \in 1 .. m - 1 : s[i] \notin S
  PROVE  Only(s, S) # <<>> /\ Only(s, S)[1] = s[m]
<1>1. Len(s) \in Nat /\ \A i \in 1 .. Len(s) : s[i] \in T
  OBVIOUS
<1>2. PICK h \in [0 .. Len(s) -> Seq(T)] : OnlyRun(s, S, h)
  BY <1>1, OnlySteps, Zenon
<1>3. h[0] = <<>> /\ h[Len(s)] = Only(s, S)
  BY <1>2 DEF OnlyRun
<1> DEFINE P(i) == IF i < m THEN h[i] = <<>> ELSE Len(h[i]) >= 1 /\ h[i][1] = s[m]
           I == {i \in 0 .. Len(s) : P(i)}
<1>4. 0 \in I
  BY <1>1, <1>3
<1>5. ASSUME NEW i \in 0 .. Len(s) - 1, i \in I PROVE i + 1 \in I
  <2>1. h[i + 1] = IF s[i + 1] \in S THEN Append(h[i], s[i + 1]) ELSE h[i]
    BY <1>1, <1>2, OnlyStep
  <2>2. h[i] \in Seq(T) /\ s[i + 1] \in T /\ i + 1 \in 0 .. Len(s) /\ P(i)
    BY <1>1, <1>5
  <2>3. CASE i + 1 < m
    <3>1. i + 1 \in 1 .. m - 1 /\ i < m
      BY <2>3
    <3> QED
      BY <2>1, <2>2, <2>3, <3>1
  <2>4. CASE i + 1 = m
    <3>1. h[i] = <<>> /\ h[i + 1] = Append(h[i], s[m])
      BY <2>1, <2>2, <2>4
    <3>2. h[i + 1] = <<s[m]>>
      BY <3>1
    <3> QED
      BY <2>2, <2>4, <3>2
  <2>5. CASE i + 1 > m
    <3>1. Len(h[i]) >= 1 /\ h[i][1] = s[m] /\ ~(i + 1 < m)
      BY <2>2, <2>5
    <3>2. Len(Append(h[i], s[i + 1])) = Len(h[i]) + 1 /\ Append(h[i], s[i + 1])[1] = h[i][1]
      BY <2>2, <3>1
    <3>3. Len(h[i]) \in Nat
      BY <2>2
    <3>4. Len(h[i + 1]) >= 1 /\ h[i + 1][1] = s[m]
      BY <2>1, <3>1, <3>2, <3>3
    <3> QED
      BY <2>2, <3>1, <3>4
  <2> QED
    BY <2>3, <2>4, <2>5
<1>6. P(Len(s))
  <2>1. Len(s) \in 0 .. Len(s)
    BY <1>1
  <2> HIDE DEF I
  <2>2. \A i \in 0 .. Len(s) : i \in I
    BY <1>1, <1>4, <1>5, UpTo
  <2> QED
    BY <2>1, <2>2 DEF I
<1> QED
  <2>1. Len(h[Len(s)]) >= 1 /\ h[Len(s)][1] = s[m]
    BY <1>1, <1>6
  <2> QED
    BY <1>3, <2>1, EmptySeq

\* Min is the least element.
LEMMA MinIs ==
  ASSUME NEW I, I \subseteq Nat, I # {}
  PROVE  Min(I) \in I /\ \A i \in I : Min(I) <= i
<1>1. \E m \in I : \A i \in I : m <= i
  BY Least
<1> QED
  BY <1>1 DEF Min

\* Until and From, at the place of the first element in I (Len(s) + 1: there is none).
LEMMA CutAt ==
  ASSUME NEW T, NEW s \in Seq(T), NEW I, I \subseteq 1 .. Len(s)
  PROVE  LET at == IF I # {} THEN Min(I) ELSE 0
         IN  \E e \in 1 .. Len(s) + 1 :
               /\ (IF at = 0 THEN s ELSE SubSeq(s, 1, at - 1)) = SubSeq(s, 1, e - 1)
               /\ (IF at = 0 THEN <<>> ELSE SubSeq(s, at, Len(s))) = SubSeq(s, e, Len(s))
               /\ \A i \in 1 .. e - 1 : i \notin I
               /\ e \in I \/ e = Len(s) + 1
<1>1. Len(s) \in Nat /\ I \subseteq Nat
  OBVIOUS
<1>2. CASE I = {}
  <2>1. SubSeq(s, 1, Len(s)) = s
    OBVIOUS
  <2>2. SubSeq(s, Len(s) + 1, Len(s)) = <<>>
    BY <1>1, SubSeqEmpty
  <2>3. Len(s) + 1 \in 1 .. Len(s) + 1 /\ (Len(s) + 1) - 1 = Len(s)
    BY <1>1
  <2> QED
    BY <1>2, <2>1, <2>2, <2>3
<1>3. CASE I # {}
  <2> DEFINE e == Min(I)
  <2>1. e \in I /\ \A i \in I : e <= i
    BY <1>1, <1>3, MinIs
  <2> HIDE DEF e
  <2>2. e \in 1 .. Len(s) + 1 /\ e # 0 /\ \A i \in 1 .. e - 1 : i \notin I
    BY <1>1, <2>1
  <2>3. (IF I # {} THEN Min(I) ELSE 0) = e
    BY <1>3 DEF e
  <2> QED
    BY <2>1, <2>2, <2>3
<1> QED
  BY <1>2, <1>3
=============================================================================
