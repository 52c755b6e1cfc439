---------------------------- MODULE FormatProofs ----------------------------
(***************************************************************************)
(* Proofs about one message, from the values that its statement puts into  *)
(* the ring to the line that is printed (module MsgFormat): nothing here   *)
(* depends on the state of a program or of qttail.                         *)
(*                                                                         *)
(* What is proved of them: Printing, for format() and length();            *)
(* UnitsMean, for QTFMT; AlikeShows and FormatAlike, for the formats of a  *)
(* line, which do not depend on its bytes.  FoldLeft and FlattenSeq are    *)
(* functions of a length first (FormatRuns, WalkRuns, FlattenRuns, ...),   *)
(* so that what they yield follows by induction over the natural numbers   *)
(* (Induction).                                                            *)
(***************************************************************************)
EXTENDS Messages, TLAPS, FiniteSetTheorems, SequenceTheorems, WellFoundedInduction

(***************************************************************************)
(* Sequences, and folds over them as functions of a length.                *)
(***************************************************************************)

\* A byte of the ring, as a message holds it.
Cells == [n : Nat, of : Nat]

\* The state of std::cout.
Stream == [width : BOOLEAN, fixed : BOOLEAN, precision : BOOLEAN, flags : BOOLEAN]

\* What init() holds.
Started == [list : {<<>>, Value(WallClock, FALSE)}, used : Nat, text : {<<>>}, stop : BOOLEAN]

\* init(), from a start, over a text.
Walk(key, start, text) == FoldLeft(LAMBDA st, t : InitStep(key, st, t), start, text)

\* parse(), over a list of descriptors.
ParsedTo(dict, list) == FoldLeft(LAMBDA d, e : ParseStep(d, e), dict, list)

\* The first k elements of a sequence.
First(ss, k) == [i \in 1 .. k |-> ss[i]]

\* Induction over the natural numbers, for a set.
LEMMA Induction ==
    ASSUME NEW T, 0 \in T, \A n \in Nat : n \in T => n + 1 \in T
    PROVE  Nat \subseteq T
<1> DEFINE U == Nat \ T
<1> DEFINE R == OpToRel(<, Nat)
<1>1. IsWellFoundedOn(R, Nat)
  BY NatLessThanWellFounded
<1>2. \A x, y \in Nat : <<y, x>> \in R <=> y < x
  BY DEF OpToRel
<1> HIDE DEF R
<1>3. SUFFICES ASSUME U # {} PROVE FALSE
  OBVIOUS
<1>4. PICK x \in U : \A y \in U : ~ (<<y, x>> \in R)
  BY <1>1, <1>3, WFMin
<1>5. x \in Nat /\ x # 0 /\ x - 1 \in Nat
  BY <1>4
<1>6. <<x - 1, x>> \in R
  BY <1>2, <1>5
<1>7. x - 1 \in T
  BY <1>4, <1>5, <1>6
<1>8. (x - 1) + 1 = x
  BY <1>5
<1> QED BY <1>4, <1>5, <1>7, <1>8

\* What the first elements of a sequence are.
LEMMA FirstOf ==
    ASSUME NEW S, NEW ss \in Seq(S)
    PROVE  /\ First(ss, 0) = <<>>
           /\ First(ss, Len(ss)) = ss
           /\ \A k \in 0 .. Len(ss) : /\ First(ss, k) \in Seq(S)
                                      /\ Len(First(ss, k)) = k
           /\ \A k \in 1 .. Len(ss) : First(ss, k) = Append(First(ss, k - 1), ss[k])
<1>1. First(ss, 0) = <<>>
  BY DEF First
<1>2. First(ss, Len(ss)) = ss
  BY DEF First
<1>3. \A k \in 0 .. Len(ss) : First(ss, k) \in Seq(S) /\ Len(First(ss, k)) = k
  BY DEF First
<1>4. ASSUME NEW k \in 1 .. Len(ss)
      PROVE  First(ss, k) = Append(First(ss, k - 1), ss[k])
  <2>1. First(ss, k) \in Seq(S) /\ First(ss, k - 1) \in Seq(S) /\ Len(First(ss, k - 1)) = k - 1 /\ Len(First(ss, k)) = k
    BY <1>3
  <2>2. Append(First(ss, k - 1), ss[k]) \in Seq(S) /\ Len(Append(First(ss, k - 1), ss[k])) = k
    BY <2>1
  <2>3. ASSUME NEW i \in 1 .. k
        PROVE  First(ss, k)[i] = Append(First(ss, k - 1), ss[k])[i]
    <3>1. First(ss, k)[i] = ss[i] /\ (i < k => First(ss, k - 1)[i] = ss[i])
      BY DEF First
    <3> QED BY <2>1, <3>1
  <2> QED BY <2>1, <2>2, <2>3, SeqEqual
<1> QED BY <1>1, <1>2, <1>3, <1>4

\* FlattenSeq as a function of how many elements are joined.
LEMMA FlattenRuns ==
    ASSUME NEW S, NEW ss \in Seq(Seq(S)), Len(ss) # 0
    PROVE  \E g \in [1 .. Len(ss) -> Seq(S)] :
              /\ g[1] = ss[1]
              /\ \A i \in 1 .. Len(ss) - 1 : g[i + 1] = g[i] \o ss[i + 1]
              /\ FlattenSeq(ss) = g[Len(ss)]
<1> DEFINE Runs(g, n) == /\ g \in [1 .. n -> Seq(S)]
                         /\ n > 0 => g[1] = ss[1]
                         /\ \A i \in 1 .. n - 1 : g[i + 1] = g[i] \o ss[i + 1]
           Has(n) == \E g : Runs(g, n)
           T == {n \in Nat : n <= Len(ss) => Has(n)}
<1>0. /\ Len(ss) \in Nat /\ Len(ss) > 0
      /\ \A i \in 1 .. Len(ss) : ss[i] \in Seq(S)
  OBVIOUS
<1>1. Has(0)
  <2>1. Runs(<<>>, 0)
    OBVIOUS
  <2> QED BY <2>1
<1>2. ASSUME NEW n \in Nat, n + 1 <= Len(ss), Has(n)
      PROVE  Has(n + 1)
  <2>2. PICK g : Runs(g, n)
    BY <1>2
  <2> DEFINE last == IF n = 0 THEN ss[1] ELSE g[n] \o ss[n + 1]
             h == [i \in 1 .. n + 1 |-> IF i = n + 1 THEN last ELSE g[i]]
  <2>3. last \in Seq(S)
    <3>1. ss[n + 1] \in Seq(S) /\ ss[1] \in Seq(S)
      BY <1>0, <1>2
    <3> QED BY <2>2, <3>1
  <2> HIDE DEF last
  <2>4. h \in [1 .. n + 1 -> Seq(S)]
    BY <2>2, <2>3
  <2>5. h[n + 1] = last /\ \A i \in 1 .. n : h[i] = g[i]
    OBVIOUS
  <2> HIDE DEF h
  <2>6. h[1] = ss[1]
    BY <2>2, <2>5 DEF last
  <2>7. ASSUME NEW i \in 1 .. n
        PROVE  h[i + 1] = h[i] \o ss[i + 1]
    <3>1. CASE i = n
      <4>1. n # 0 /\ n \in 1 .. n
        BY <3>1
      <4>2. h[n] = g[n] /\ h[n + 1] = g[n] \o ss[n + 1]
        BY <2>5, <4>1 DEF last
      <4> QED BY <3>1, <4>2
    <3>2. CASE i # n
      <4>1. i \in 1 .. n - 1 /\ i + 1 \in 1 .. n
        BY <3>2
      <4> QED BY <2>2, <2>5, <4>1
    <3> QED BY <3>1, <3>2
  <2>8. (n + 1) - 1 = n
    OBVIOUS
  <2>9. Runs(h, n + 1)
    BY <2>4, <2>6, <2>7, <2>8
  <2> QED BY <2>9
<1>3. Has(Len(ss))
  <2> HIDE DEF Has
  <2>1. 0 \in T
    BY <1>1
  <2>2. ASSUME NEW n \in Nat, n \in T PROVE n + 1 \in T
    BY <1>0, <1>2, <2>2
  <2> HIDE DEF T
  <2>3. Nat \subseteq T
    BY <2>1, <2>2, Induction
  <2> QED BY <1>0, <2>3 DEF T
<1>4. PICK g : Runs(g, Len(ss))
  BY <1>3
<1> DEFINE Fix(f) == f = [i \in 1 .. Len(ss) |-> IF i = 1 THEN ss[i] ELSE f[i - 1] \o ss[i]]
           flatten == CHOOSE f : Fix(f)
<1>5. FlattenSeq(ss) = flatten[Len(ss)]
  BY <1>0 DEF FlattenSeq
<1>6. Fix(g)
  <2>1. ASSUME NEW i \in 1 .. Len(ss)
        PROVE  g[i] = IF i = 1 THEN ss[i] ELSE g[i - 1] \o ss[i]
    <3>1. CASE i = 1
      BY <1>0, <1>4, <3>1
    <3>2. CASE i # 1
      <4>1. i - 1 \in 1 .. Len(ss) - 1 /\ (i - 1) + 1 = i
        BY <1>0, <3>2
      <4> QED BY <1>4, <3>2, <4>1
    <3> QED BY <3>1, <3>2
  <2> QED BY <1>4, <2>1
<1>7. Fix(flatten)
  <2> HIDE DEF Fix
  <2> QED BY <1>6
<1> HIDE DEF flatten
<1>8. flatten[1] = ss[1]
  BY <1>0, <1>7
<1>9. \A i \in 1 .. Len(ss) - 1 : flatten[i + 1] = flatten[i] \o ss[i + 1]
  <2> TAKE i \in 1 .. Len(ss) - 1
  <2>1. i + 1 \in 1 .. Len(ss) /\ i + 1 # 1 /\ (i + 1) - 1 = i
    BY <1>0
  <2> DEFINE j == i + 1
  <2>2. flatten[j] = IF j = 1 THEN ss[j] ELSE flatten[j - 1] \o ss[j]
    <3> HIDE DEF j
    <3>1. j \in 1 .. Len(ss)
      BY <2>1 DEF j
    <3> QED BY <1>7, <3>1
  <2> QED BY <2>1, <2>2
<1> HIDE DEF Fix
<1>10. \A i \in 1 .. Len(ss) : flatten[i] = g[i]
  <2> DEFINE E == {i \in Nat : i + 1 <= Len(ss) => flatten[i + 1] = g[i + 1]}
  <2>1. 0 \in E
    BY <1>4, <1>8, <1>0
  <2>2. ASSUME NEW n \in Nat, n \in E
        PROVE  n + 1 \in E
    <3>1. SUFFICES ASSUME (n + 1) + 1 <= Len(ss)
                   PROVE  flatten[(n + 1) + 1] = g[(n + 1) + 1]
      OBVIOUS
    <3>2. n + 1 \in 1 .. Len(ss) - 1 /\ flatten[n + 1] = g[n + 1]
      BY <2>2, <3>1, <1>0
    <3> QED BY <1>4, <1>9, <3>2
  <2>3. Nat \subseteq E
    <3> HIDE DEF E
    <3> QED BY <2>1, <2>2, Induction
  <2>4. ASSUME NEW i \in 1 .. Len(ss)
        PROVE  flatten[i] = g[i]
    <3>1. i - 1 \in Nat /\ (i - 1) + 1 = i /\ i <= Len(ss)
      BY <1>0
    <3>2. i - 1 \in E
      BY <2>3, <3>1
    <3> QED BY <3>1, <3>2
  <2> QED BY <2>4
<1>11. FlattenSeq(ss) = g[Len(ss)]
  BY <1>0, <1>5, <1>10
<1> HIDE DEF flatten, T, Has
<1> QED
  <2>1. g \in [1 .. Len(ss) -> Seq(S)] /\ g[1] = ss[1]
    BY <1>0, <1>4
  <2>2. \A i \in 1 .. Len(ss) - 1 : g[i + 1] = g[i] \o ss[i + 1]
    BY <1>4
  <2> HIDE DEF Runs
  <2> QED BY <2>1, <2>2, <1>11

\* Joining one sequence more.
LEMMA FlattenMore ==
    ASSUME NEW S, NEW ss \in Seq(Seq(S)), NEW s \in Seq(S)
    PROVE  /\ FlattenSeq(<<>>) = <<>>
           /\ FlattenSeq(ss) \in Seq(S)
           /\ FlattenSeq(Append(ss, s)) = FlattenSeq(ss) \o s
<1>1. FlattenSeq(<<>>) = <<>>
  BY DEF FlattenSeq
<1> DEFINE tt == Append(ss, s)
           N == Len(ss)
<1>2. /\ tt \in Seq(Seq(S)) /\ Len(tt) = N + 1 /\ tt[N + 1] = s /\ N \in Nat
      /\ \A i \in 1 .. N : tt[i] = ss[i]
  OBVIOUS
<1> HIDE DEF tt
<1>3. PICK h \in [1 .. N + 1 -> Seq(S)] :
              /\ h[1] = tt[1]
              /\ \A i \in 1 .. N : h[i + 1] = h[i] \o tt[i + 1]
              /\ FlattenSeq(tt) = h[N + 1]
  <2>1. Len(tt) # 0 /\ (N + 1) - 1 = N
    BY <1>2
  <2>2. \E g \in [1 .. Len(tt) -> Seq(S)] :
              /\ g[1] = tt[1]
              /\ \A i \in 1 .. Len(tt) - 1 : g[i + 1] = g[i] \o tt[i + 1]
              /\ FlattenSeq(tt) = g[Len(tt)]
    BY <2>1, <1>2, FlattenRuns
  <2> QED BY <2>1, <2>2, <1>2
<1>4. CASE N = 0
  <2>1. ss = <<>>
    BY <1>4
  <2>2. FlattenSeq(tt) = s
    BY <1>2, <1>3, <1>4
  <2>3. FlattenSeq(ss) = <<>> /\ <<>> \o s = s /\ <<>> \in Seq(S)
    BY <1>1, <2>1
  <2> QED BY <1>1, <2>2, <2>3 DEF tt
<1>5. CASE N # 0
  <2>1. PICK g \in [1 .. N -> Seq(S)] :
              /\ g[1] = ss[1]
              /\ \A i \in 1 .. N - 1 : g[i + 1] = g[i] \o ss[i + 1]
              /\ FlattenSeq(ss) = g[N]
    BY <1>5, FlattenRuns
  <2> HIDE DEF N
  <2> DEFINE E == {i \in Nat : i + 1 <= N => h[i + 1] = g[i + 1]}
  <2>2. 0 \in E
    BY <1>2, <1>3, <2>1
  <2>3. ASSUME NEW n \in Nat, n \in E
        PROVE  n + 1 \in E
    <3>1. SUFFICES ASSUME (n + 1) + 1 <= N
                   PROVE  h[(n + 1) + 1] = g[(n + 1) + 1]
      OBVIOUS
    <3>2. n + 1 \in 1 .. N - 1 /\ n + 1 \in 1 .. N /\ h[n + 1] = g[n + 1]
          /\ (n + 1) + 1 \in 1 .. N
      BY <2>3, <3>1, <1>2
    <3>3. tt[(n + 1) + 1] = ss[(n + 1) + 1]
      BY <1>2, <3>2
    <3> QED BY <1>3, <2>1, <3>2, <3>3
  <2>4. Nat \subseteq E
    <3> HIDE DEF E
    <3> QED BY <2>2, <2>3, Induction
  <2>5. h[N] = g[N]
    <3>1. N - 1 \in Nat /\ (N - 1) + 1 = N /\ N <= N
      BY <1>2, <1>5
    <3>2. N - 1 \in E
      BY <2>4, <3>1
    <3> QED BY <3>1, <3>2
  <2>6. FlattenSeq(tt) = h[N] \o s
    <3>1. N \in 1 .. N
      BY <1>2, <1>5
    <3> QED BY <1>2, <1>3, <3>1
  <2>7. g[N] \in Seq(S)
    BY <1>2, <1>5, <2>1
  <2> QED BY <1>1, <2>1, <2>5, <2>6, <2>7 DEF tt
<1> QED BY <1>4, <1>5

\* format() as a function of how many formatters have run.
LEMMA FormatRuns ==
    ASSUME NEW S, NEW list \in Seq(S), NEW bytes \in Seq(Cells), NEW silent \in BOOLEAN, NEW os \in Stream
    PROVE  \E g : /\ g[0] = [n |-> 0, os |-> os, items |-> <<>>]
                  /\ \A i \in 0 .. Len(list) - 1 : g[i + 1] = FormatStep(bytes, silent, g[i], list[i + 1])
                  /\ Format(list, bytes, silent, os) = g[Len(list)]
<1> DEFINE N == Len(list)
           Fix(f, n) == f = [s \in SUBSET (1 .. n) |->
                                IF s = {} THEN [n |-> 0, os |-> os, items |-> <<>>]
                                ELSE FormatStep(bytes, silent, f[s \ {Max(s)}], list[Max(s)])]
           Has(n) == \E f : Fix(f, n)
           T == {n \in Nat : Has(n)}
<1>0. N \in Nat /\ DOMAIN list = 1 .. N
  OBVIOUS
<1> HIDE DEF N
<1>1. Has(0)
  <2> DEFINE f == [s \in SUBSET (1 .. 0) |-> [n |-> 0, os |-> os, items |-> <<>>]]
  <2>1. \A s \in SUBSET (1 .. 0) : s = {}
    OBVIOUS
  <2>2. Fix(f, 0)
    BY <2>1
  <2> QED BY <2>2
<1>2. ASSUME NEW n \in Nat, Has(n)
      PROVE  Has(n + 1)
  <2>1. PICK f : Fix(f, n)
    BY <1>2
  <2> DEFINE m == n + 1
             h == [s \in SUBSET (1 .. m) |->
                      IF m \in s THEN FormatStep(bytes, silent, f[s \ {m}], list[m]) ELSE f[s]]
  <2>2. m \in Nat /\ \A i \in 1 .. m : i <= m /\ (i # m => i \in 1 .. n)
    OBVIOUS
  <2>3. \A i \in 1 .. n : i # m /\ i \in 1 .. m
    OBVIOUS
  <2> HIDE DEF m
  <2>4. ASSUME NEW s \in SUBSET (1 .. m), m \in s
        PROVE  h[s] = FormatStep(bytes, silent, h[s \ {Max(s)}], list[Max(s)]) /\ s # {}
    <3>1. Max(s) = m
      <4>1. m \in s /\ \A y \in s : m >= y
        BY <2>2, <2>4
      <4>2. \A x \in s : (\A y \in s : x >= y) => x = m
        BY <2>2, <2>4
      <4> QED BY <4>1, <4>2 DEF Max
    <3>2. s \ {m} \in SUBSET (1 .. m) /\ m \notin s \ {m}
      BY <2>4
    <3>3. h[s \ {m}] = f[s \ {m}]
      BY <3>2
    <3>4. h[s] = FormatStep(bytes, silent, f[s \ {m}], list[m])
      BY <2>4
    <3> QED BY <2>4, <3>1, <3>3, <3>4
  <2>5. ASSUME NEW s \in SUBSET (1 .. m), m \notin s
        PROVE  h[s] = IF s = {} THEN [n |-> 0, os |-> os, items |-> <<>>]
                      ELSE FormatStep(bytes, silent, h[s \ {Max(s)}], list[Max(s)])
    <3>1. s \in SUBSET (1 .. n)
      BY <2>2, <2>5
    <3>2. h[s] = f[s]
      BY <2>5
    <3>3. s \ {Max(s)} \in SUBSET (1 .. m) /\ m \notin s \ {Max(s)}
      BY <2>5
    <3>4. h[s \ {Max(s)}] = f[s \ {Max(s)}]
      BY <3>3
    <3>5. f[s] = IF s = {} THEN [n |-> 0, os |-> os, items |-> <<>>]
                 ELSE FormatStep(bytes, silent, f[s \ {Max(s)}], list[Max(s)])
      BY <2>1, <3>1
    <3> QED BY <3>2, <3>4, <3>5
  <2>6. DOMAIN h = SUBSET (1 .. m) /\ h = [s \in DOMAIN h |-> h[s]]
    OBVIOUS
  <2> HIDE DEF h
  <2>7. Fix(h, m)
    BY <2>4, <2>5, <2>6
  <2>8. Has(m)
    BY <2>7
  <2> QED BY <2>8 DEF m
<1>3. Has(N)
  <2> HIDE DEF Has
  <2>1. 0 \in T
    BY <1>1
  <2>2. ASSUME NEW n \in Nat, n \in T PROVE n + 1 \in T
    BY <1>2, <2>2
  <2> HIDE DEF T
  <2>3. Nat \subseteq T
    BY <2>1, <2>2, Induction
  <2> QED BY <1>0, <2>3 DEF T
<1> DEFINE iter == CHOOSE f : Fix(f, N)
<1>4. Format(list, bytes, silent, os) = iter[1 .. N]
  BY <1>0 DEF Format, FoldLeft, MapThenFoldSet
<1>5. Fix(iter, N)
  <2> HIDE DEF Fix
  <2> QED BY <1>3
<1> HIDE DEF iter
<1>6. iter[1 .. 0] = [n |-> 0, os |-> os, items |-> <<>>]
  <2>1. 1 .. 0 = {} /\ 1 .. 0 \in SUBSET (1 .. N)
    BY <1>0
  <2> QED BY <1>5, <2>1
<1>7. ASSUME NEW i \in 0 .. N - 1
      PROVE  iter[1 .. i + 1] = FormatStep(bytes, silent, iter[1 .. i], list[i + 1])
  <2> DEFINE s == 1 .. i + 1
  <2>0. i \in Nat /\ i + 1 <= N
    BY <1>0
  <2>1. s \in SUBSET (1 .. N) /\ i + 1 \in s /\ \A y \in s : y <= i + 1 /\ y \in Nat
    BY <1>0, <2>0
  <2>2. s \ {i + 1} = 1 .. i
    BY <2>0
  <2> HIDE DEF s
  <2>3. Max(s) = i + 1
    <3>1. i + 1 \in s /\ \A y \in s : i + 1 >= y
      BY <2>1
    <3>2. \A x \in s : (\A y \in s : x >= y) => x = i + 1
      BY <2>1
    <3> QED BY <3>1, <3>2 DEF Max
  <2>4. iter[s] = FormatStep(bytes, silent, iter[s \ {Max(s)}], list[Max(s)])
    BY <1>5, <2>1
  <2>5. iter[s] = FormatStep(bytes, silent, iter[1 .. i], list[i + 1])
    BY <2>2, <2>3, <2>4
  <2> QED BY <2>5 DEF s
<1> DEFINE g == [k \in 0 .. N |-> iter[1 .. k]]
<1>8. /\ g[0] = iter[1 .. 0]
      /\ \A i \in 0 .. N - 1 : g[i] = iter[1 .. i] /\ g[i + 1] = iter[1 .. i + 1]
      /\ g[N] = iter[1 .. N]
  BY <1>0
<1> HIDE DEF g, Fix, Has, T
<1>9. /\ g[0] = [n |-> 0, os |-> os, items |-> <<>>]
      /\ \A i \in 0 .. N - 1 : g[i + 1] = FormatStep(bytes, silent, g[i], list[i + 1])
      /\ Format(list, bytes, silent, os) = g[N]
  BY <1>4, <1>6, <1>7, <1>8
<1> QED BY <1>9 DEF N

\* format() with one formatter more.
LEMMA FormatMore ==
    ASSUME NEW S, NEW list \in Seq(S), NEW x \in S, NEW bytes \in Seq(Cells), NEW silent \in BOOLEAN, NEW os \in Stream
    PROVE  /\ Format(<<>>, bytes, silent, os) = [n |-> 0, os |-> os, items |-> <<>>]
           /\ Format(Append(list, x), bytes, silent, os) = FormatStep(bytes, silent, Format(list, bytes, silent, os), x)
<1> DEFINE N == Len(list)
           tt == Append(list, x)
<1>0. N \in Nat /\ tt \in Seq(S) /\ Len(tt) = N + 1 /\ tt[N + 1] = x /\ \A i \in 1 .. N : tt[i] = list[i]
  OBVIOUS
<1>1. Format(<<>>, bytes, silent, os) = [n |-> 0, os |-> os, items |-> <<>>]
  <2>1. ASSUME NEW e \in Seq(S), Len(e) = 0
        PROVE  Format(e, bytes, silent, os) = [n |-> 0, os |-> os, items |-> <<>>]
    <3>1. PICK g : /\ g[0] = [n |-> 0, os |-> os, items |-> <<>>]
                   /\ \A i \in 0 .. Len(e) - 1 : g[i + 1] = FormatStep(bytes, silent, g[i], e[i + 1])
                   /\ Format(e, bytes, silent, os) = g[Len(e)]
      BY FormatRuns
    <3> QED BY <2>1, <3>1
  <2>2. <<>> \in Seq(S) /\ Len(<<>>) = 0
    OBVIOUS
  <2> QED BY <2>1, <2>2
<1>2. PICK g : /\ g[0] = [n |-> 0, os |-> os, items |-> <<>>]
               /\ \A i \in 0 .. N - 1 : g[i + 1] = FormatStep(bytes, silent, g[i], list[i + 1])
               /\ Format(list, bytes, silent, os) = g[N]
  BY FormatRuns
<1> HIDE DEF tt
<1>3. PICK h : /\ h[0] = [n |-> 0, os |-> os, items |-> <<>>]
               /\ \A i \in 0 .. (N + 1) - 1 : h[i + 1] = FormatStep(bytes, silent, h[i], tt[i + 1])
               /\ Format(tt, bytes, silent, os) = h[N + 1]
  <2>1. \E h : /\ h[0] = [n |-> 0, os |-> os, items |-> <<>>]
               /\ \A i \in 0 .. Len(tt) - 1 : h[i + 1] = FormatStep(bytes, silent, h[i], tt[i + 1])
               /\ Format(tt, bytes, silent, os) = h[Len(tt)]
    BY <1>0, FormatRuns
  <2>2. Len(tt) = N + 1
    BY <1>0
  <2> QED BY <2>1, <2>2
<1> HIDE DEF N
<1> DEFINE E == {i \in Nat : i <= N => h[i] = g[i]}
<1>4. 0 \in E
  BY <1>2, <1>3
<1>5. ASSUME NEW n \in Nat, n \in E
      PROVE  n + 1 \in E
  <2>1. SUFFICES ASSUME n + 1 <= N PROVE h[n + 1] = g[n + 1]
    OBVIOUS
  <2>2. n \in 0 .. N - 1 /\ n \in 0 .. (N + 1) - 1 /\ h[n] = g[n] /\ n + 1 \in 1 .. N
    BY <1>0, <1>5, <2>1
  <2>3. tt[n + 1] = list[n + 1]
    BY <1>0, <2>2
  <2> QED BY <1>2, <1>3, <2>2, <2>3
<1>6. h[N] = g[N]
  <2> HIDE DEF E
  <2>1. Nat \subseteq E
    BY <1>4, <1>5, Induction
  <2> QED BY <1>0, <2>1 DEF E
<1>7. h[N + 1] = FormatStep(bytes, silent, h[N], x)
  <2>1. N \in 0 .. (N + 1) - 1
    BY <1>0
  <2> QED BY <1>0, <1>3, <2>1
<1> QED BY <1>1, <1>2, <1>3, <1>6, <1>7 DEF tt

\* length() as a function of how many formatters it has asked.
LEMMA LengthRuns ==
    ASSUME NEW S, NEW list \in Seq(S), NEW bytes \in Seq(Cells)
    PROVE  \E g : /\ g[0] = 0
                  /\ \A i \in 0 .. Len(list) - 1 : g[i + 1] = LengthStep(bytes, g[i], list[i + 1])
                  /\ Length(list, bytes) = g[Len(list)]
<1> DEFINE N == Len(list)
           Fix(f, n) == f = [s \in SUBSET (1 .. n) |->
                                IF s = {} THEN 0
                                ELSE LengthStep(bytes, f[s \ {Max(s)}], list[Max(s)])]
           Has(n) == \E f : Fix(f, n)
           T == {n \in Nat : Has(n)}
<1>0. N \in Nat /\ DOMAIN list = 1 .. N
  OBVIOUS
<1> HIDE DEF N
<1>1. Has(0)
  <2> DEFINE f == [s \in SUBSET (1 .. 0) |-> 0]
  <2>1. \A s \in SUBSET (1 .. 0) : s = {}
    OBVIOUS
  <2>2. Fix(f, 0)
    BY <2>1
  <2> QED BY <2>2
<1>2. ASSUME NEW n \in Nat, Has(n)
      PROVE  Has(n + 1)
  <2>1. PICK f : Fix(f, n)
    BY <1>2
  <2> DEFINE m == n + 1
             h == [s \in SUBSET (1 .. m) |->
                      IF m \in s THEN LengthStep(bytes, f[s \ {m}], list[m]) ELSE f[s]]
  <2>2. m \in Nat /\ \A i \in 1 .. m : i <= m /\ (i # m => i \in 1 .. n)
    OBVIOUS
  <2>3. \A i \in 1 .. n : i # m /\ i \in 1 .. m
    OBVIOUS
  <2> HIDE DEF m
  <2>4. ASSUME NEW s \in SUBSET (1 .. m), m \in s
        PROVE  h[s] = LengthStep(bytes, h[s \ {Max(s)}], list[Max(s)]) /\ s # {}
    <3>1. Max(s) = m
      <4>1. m \in s /\ \A y \in s : m >= y
        BY <2>2, <2>4
      <4>2. \A x \in s : (\A y \in s : x >= y) => x = m
        BY <2>2, <2>4
      <4> QED BY <4>1, <4>2 DEF Max
    <3>2. s \ {m} \in SUBSET (1 .. m) /\ m \notin s \ {m}
      BY <2>4
    <3>3. h[s \ {m}] = f[s \ {m}]
      BY <3>2
    <3>4. h[s] = LengthStep(bytes, f[s \ {m}], list[m])
      BY <2>4
    <3> QED BY <2>4, <3>1, <3>3, <3>4
  <2>5. ASSUME NEW s \in SUBSET (1 .. m), m \notin s
        PROVE  h[s] = IF s = {} THEN 0
                      ELSE LengthStep(bytes, h[s \ {Max(s)}], list[Max(s)])
    <3>1. s \in SUBSET (1 .. n)
      BY <2>2, <2>5
    <3>2. h[s] = f[s]
      BY <2>5
    <3>3. s \ {Max(s)} \in SUBSET (1 .. m) /\ m \notin s \ {Max(s)}
      BY <2>5
    <3>4. h[s \ {Max(s)}] = f[s \ {Max(s)}]
      BY <3>3
    <3>5. f[s] = IF s = {} THEN 0
                 ELSE LengthStep(bytes, f[s \ {Max(s)}], list[Max(s)])
      BY <2>1, <3>1
    <3> QED BY <3>2, <3>4, <3>5
  <2>6. DOMAIN h = SUBSET (1 .. m) /\ h = [s \in DOMAIN h |-> h[s]]
    OBVIOUS
  <2> HIDE DEF h
  <2>7. Fix(h, m)
    BY <2>4, <2>5, <2>6
  <2>8. Has(m)
    BY <2>7
  <2> QED BY <2>8 DEF m
<1>3. Has(N)
  <2> HIDE DEF Has
  <2>1. 0 \in T
    BY <1>1
  <2>2. ASSUME NEW n \in Nat, n \in T PROVE n + 1 \in T
    BY <1>2, <2>2
  <2> HIDE DEF T
  <2>3. Nat \subseteq T
    BY <2>1, <2>2, Induction
  <2> QED BY <1>0, <2>3 DEF T
<1> DEFINE iter == CHOOSE f : Fix(f, N)
<1>4. Length(list, bytes) = iter[1 .. N]
  BY <1>0 DEF Length, FoldLeft, MapThenFoldSet
<1>5. Fix(iter, N)
  <2> HIDE DEF Fix
  <2> QED BY <1>3
<1> HIDE DEF iter
<1>6. iter[1 .. 0] = 0
  <2>1. 1 .. 0 = {} /\ 1 .. 0 \in SUBSET (1 .. N)
    BY <1>0
  <2> QED BY <1>5, <2>1
<1>7. ASSUME NEW i \in 0 .. N - 1
      PROVE  iter[1 .. i + 1] = LengthStep(bytes, iter[1 .. i], list[i + 1])
  <2> DEFINE s == 1 .. i + 1
  <2>0. i \in Nat /\ i + 1 <= N
    BY <1>0
  <2>1. s \in SUBSET (1 .. N) /\ i + 1 \in s /\ \A y \in s : y <= i + 1 /\ y \in Nat
    BY <1>0, <2>0
  <2>2. s \ {i + 1} = 1 .. i
    BY <2>0
  <2> HIDE DEF s
  <2>3. Max(s) = i + 1
    <3>1. i + 1 \in s /\ \A y \in s : i + 1 >= y
      BY <2>1
    <3>2. \A x \in s : (\A y \in s : x >= y) => x = i + 1
      BY <2>1
    <3> QED BY <3>1, <3>2 DEF Max
  <2>4. iter[s] = LengthStep(bytes, iter[s \ {Max(s)}], list[Max(s)])
    BY <1>5, <2>1
  <2>5. iter[s] = LengthStep(bytes, iter[1 .. i], list[i + 1])
    BY <2>2, <2>3, <2>4
  <2> QED BY <2>5 DEF s
<1> DEFINE g == [k \in 0 .. N |-> iter[1 .. k]]
<1>8. /\ g[0] = iter[1 .. 0]
      /\ \A i \in 0 .. N - 1 : g[i] = iter[1 .. i] /\ g[i + 1] = iter[1 .. i + 1]
      /\ g[N] = iter[1 .. N]
  BY <1>0
<1> HIDE DEF g, Fix, Has, T
<1>9. /\ g[0] = 0
      /\ \A i \in 0 .. N - 1 : g[i + 1] = LengthStep(bytes, g[i], list[i + 1])
      /\ Length(list, bytes) = g[N]
  BY <1>4, <1>6, <1>7, <1>8
<1> QED BY <1>9 DEF N

\* length() with one formatter more.
LEMMA LengthMore ==
    ASSUME NEW S, NEW list \in Seq(S), NEW x \in S, NEW bytes \in Seq(Cells)
    PROVE  /\ Length(<<>>, bytes) = 0
           /\ Length(Append(list, x), bytes) = LengthStep(bytes, Length(list, bytes), x)
<1> DEFINE N == Len(list)
           tt == Append(list, x)
<1>0. N \in Nat /\ tt \in Seq(S) /\ Len(tt) = N + 1 /\ tt[N + 1] = x /\ \A i \in 1 .. N : tt[i] = list[i]
  OBVIOUS
<1>1. Length(<<>>, bytes) = 0
  <2>1. ASSUME NEW e \in Seq(S), Len(e) = 0
        PROVE  Length(e, bytes) = 0
    <3>1. PICK g : /\ g[0] = 0
                   /\ \A i \in 0 .. Len(e) - 1 : g[i + 1] = LengthStep(bytes, g[i], e[i + 1])
                   /\ Length(e, bytes) = g[Len(e)]
      BY LengthRuns
    <3> QED BY <2>1, <3>1
  <2>2. <<>> \in Seq(S) /\ Len(<<>>) = 0
    OBVIOUS
  <2> QED BY <2>1, <2>2
<1>2. PICK g : /\ g[0] = 0
               /\ \A i \in 0 .. N - 1 : g[i + 1] = LengthStep(bytes, g[i], list[i + 1])
               /\ Length(list, bytes) = g[N]
  BY LengthRuns
<1> HIDE DEF tt
<1>3. PICK h : /\ h[0] = 0
               /\ \A i \in 0 .. (N + 1) - 1 : h[i + 1] = LengthStep(bytes, h[i], tt[i + 1])
               /\ Length(tt, bytes) = h[N + 1]
  <2>1. \E h : /\ h[0] = 0
               /\ \A i \in 0 .. Len(tt) - 1 : h[i + 1] = LengthStep(bytes, h[i], tt[i + 1])
               /\ Length(tt, bytes) = h[Len(tt)]
    BY <1>0, LengthRuns
  <2>2. Len(tt) = N + 1
    BY <1>0
  <2> QED BY <2>1, <2>2
<1> HIDE DEF N
<1> DEFINE E == {i \in Nat : i <= N => h[i] = g[i]}
<1>4. 0 \in E
  BY <1>2, <1>3
<1>5. ASSUME NEW n \in Nat, n \in E
      PROVE  n + 1 \in E
  <2>1. SUFFICES ASSUME n + 1 <= N PROVE h[n + 1] = g[n + 1]
    OBVIOUS
  <2>2. n \in 0 .. N - 1 /\ n \in 0 .. (N + 1) - 1 /\ h[n] = g[n] /\ n + 1 \in 1 .. N
    BY <1>0, <1>5, <2>1
  <2>3. tt[n + 1] = list[n + 1]
    BY <1>0, <2>2
  <2> QED BY <1>2, <1>3, <2>2, <2>3
<1>6. h[N] = g[N]
  <2> HIDE DEF E
  <2>1. Nat \subseteq E
    BY <1>4, <1>5, Induction
  <2> QED BY <1>0, <2>1 DEF E
<1>7. h[N + 1] = LengthStep(bytes, h[N], x)
  <2>1. N \in 0 .. (N + 1) - 1
    BY <1>0
  <2> QED BY <1>0, <1>3, <2>1
<1> QED BY <1>1, <1>2, <1>3, <1>6, <1>7 DEF tt

\* init() as a function of how many tokens it has met.
LEMMA WalkRuns ==
    ASSUME NEW S, NEW list \in Seq(S), NEW key \in Seq(Entry), NEW start \in Started
    PROVE  \E g : /\ g[0] = start
                  /\ \A i \in 0 .. Len(list) - 1 : g[i + 1] = InitStep(key, g[i], list[i + 1])
                  /\ Walk(key, start, list) = g[Len(list)]
<1> DEFINE N == Len(list)
           Fix(f, n) == f = [s \in SUBSET (1 .. n) |->
                                IF s = {} THEN start
                                ELSE InitStep(key, f[s \ {Max(s)}], list[Max(s)])]
           Has(n) == \E f : Fix(f, n)
           T == {n \in Nat : Has(n)}
<1>0. N \in Nat /\ DOMAIN list = 1 .. N
  OBVIOUS
<1> HIDE DEF N
<1>1. Has(0)
  <2> DEFINE f == [s \in SUBSET (1 .. 0) |-> start]
  <2>1. \A s \in SUBSET (1 .. 0) : s = {}
    OBVIOUS
  <2>2. Fix(f, 0)
    BY <2>1
  <2> QED BY <2>2
<1>2. ASSUME NEW n \in Nat, Has(n)
      PROVE  Has(n + 1)
  <2>1. PICK f : Fix(f, n)
    BY <1>2
  <2> DEFINE m == n + 1
             h == [s \in SUBSET (1 .. m) |->
                      IF m \in s THEN InitStep(key, f[s \ {m}], list[m]) ELSE f[s]]
  <2>2. m \in Nat /\ \A i \in 1 .. m : i <= m /\ (i # m => i \in 1 .. n)
    OBVIOUS
  <2>3. \A i \in 1 .. n : i # m /\ i \in 1 .. m
    OBVIOUS
  <2> HIDE DEF m
  <2>4. ASSUME NEW s \in SUBSET (1 .. m), m \in s
        PROVE  h[s] = InitStep(key, h[s \ {Max(s)}], list[Max(s)]) /\ s # {}
    <3>1. Max(s) = m
      <4>1. m \in s /\ \A y \in s : m >= y
        BY <2>2, <2>4
      <4>2. \A x \in s : (\A y \in s : x >= y) => x = m
        BY <2>2, <2>4
      <4> QED BY <4>1, <4>2 DEF Max
    <3>2. s \ {m} \in SUBSET (1 .. m) /\ m \notin s \ {m}
      BY <2>4
    <3>3. h[s \ {m}] = f[s \ {m}]
      BY <3>2
    <3>4. h[s] = InitStep(key, f[s \ {m}], list[m])
      BY <2>4
    <3> QED BY <2>4, <3>1, <3>3, <3>4
  <2>5. ASSUME NEW s \in SUBSET (1 .. m), m \notin s
        PROVE  h[s] = IF s = {} THEN start
                      ELSE InitStep(key, h[s \ {Max(s)}], list[Max(s)])
    <3>1. s \in SUBSET (1 .. n)
      BY <2>2, <2>5
    <3>2. h[s] = f[s]
      BY <2>5
    <3>3. s \ {Max(s)} \in SUBSET (1 .. m) /\ m \notin s \ {Max(s)}
      BY <2>5
    <3>4. h[s \ {Max(s)}] = f[s \ {Max(s)}]
      BY <3>3
    <3>5. f[s] = IF s = {} THEN start
                 ELSE InitStep(key, f[s \ {Max(s)}], list[Max(s)])
      BY <2>1, <3>1
    <3> QED BY <3>2, <3>4, <3>5
  <2>6. DOMAIN h = SUBSET (1 .. m) /\ h = [s \in DOMAIN h |-> h[s]]
    OBVIOUS
  <2> HIDE DEF h
  <2>7. Fix(h, m)
    BY <2>4, <2>5, <2>6
  <2>8. Has(m)
    BY <2>7
  <2> QED BY <2>8 DEF m
<1>3. Has(N)
  <2> HIDE DEF Has
  <2>1. 0 \in T
    BY <1>1
  <2>2. ASSUME NEW n \in Nat, n \in T PROVE n + 1 \in T
    BY <1>2, <2>2
  <2> HIDE DEF T
  <2>3. Nat \subseteq T
    BY <2>1, <2>2, Induction
  <2> QED BY <1>0, <2>3 DEF T
<1> DEFINE iter == CHOOSE f : Fix(f, N)
<1>4. Walk(key, start, list) = iter[1 .. N]
  BY <1>0 DEF Walk, FoldLeft, MapThenFoldSet
<1>5. Fix(iter, N)
  <2> HIDE DEF Fix
  <2> QED BY <1>3
<1> HIDE DEF iter
<1>6. iter[1 .. 0] = start
  <2>1. 1 .. 0 = {} /\ 1 .. 0 \in SUBSET (1 .. N)
    BY <1>0
  <2> QED BY <1>5, <2>1
<1>7. ASSUME NEW i \in 0 .. N - 1
      PROVE  iter[1 .. i + 1] = InitStep(key, iter[1 .. i], list[i + 1])
  <2> DEFINE s == 1 .. i + 1
  <2>0. i \in Nat /\ i + 1 <= N
    BY <1>0
  <2>1. s \in SUBSET (1 .. N) /\ i + 1 \in s /\ \A y \in s : y <= i + 1 /\ y \in Nat
    BY <1>0, <2>0
  <2>2. s \ {i + 1} = 1 .. i
    BY <2>0
  <2> HIDE DEF s
  <2>3. Max(s) = i + 1
    <3>1. i + 1 \in s /\ \A y \in s : i + 1 >= y
      BY <2>1
    <3>2. \A x \in s : (\A y \in s : x >= y) => x = i + 1
      BY <2>1
    <3> QED BY <3>1, <3>2 DEF Max
  <2>4. iter[s] = InitStep(key, iter[s \ {Max(s)}], list[Max(s)])
    BY <1>5, <2>1
  <2>5. iter[s] = InitStep(key, iter[1 .. i], list[i + 1])
    BY <2>2, <2>3, <2>4
  <2> QED BY <2>5 DEF s
<1> DEFINE g == [k \in 0 .. N |-> iter[1 .. k]]
<1>8. /\ g[0] = iter[1 .. 0]
      /\ \A i \in 0 .. N - 1 : g[i] = iter[1 .. i] /\ g[i + 1] = iter[1 .. i + 1]
      /\ g[N] = iter[1 .. N]
  BY <1>0
<1> HIDE DEF g, Fix, Has, T
<1>9. /\ g[0] = start
      /\ \A i \in 0 .. N - 1 : g[i + 1] = InitStep(key, g[i], list[i + 1])
      /\ Walk(key, start, list) = g[N]
  BY <1>4, <1>6, <1>7, <1>8
<1> QED BY <1>9 DEF N

\* init() with one token more.
LEMMA WalkMore ==
    ASSUME NEW S, NEW list \in Seq(S), NEW x \in S, NEW key \in Seq(Entry), NEW start \in Started
    PROVE  /\ Walk(key, start, <<>>) = start
           /\ Walk(key, start, Append(list, x)) = InitStep(key, Walk(key, start, list), x)
<1> DEFINE N == Len(list)
           tt == Append(list, x)
<1>0. N \in Nat /\ tt \in Seq(S) /\ Len(tt) = N + 1 /\ tt[N + 1] = x /\ \A i \in 1 .. N : tt[i] = list[i]
  OBVIOUS
<1>1. Walk(key, start, <<>>) = start
  <2>1. ASSUME NEW e \in Seq(S), Len(e) = 0
        PROVE  Walk(key, start, e) = start
    <3>1. PICK g : /\ g[0] = start
                   /\ \A i \in 0 .. Len(e) - 1 : g[i + 1] = InitStep(key, g[i], e[i + 1])
                   /\ Walk(key, start, e) = g[Len(e)]
      BY WalkRuns
    <3> QED BY <2>1, <3>1
  <2>2. <<>> \in Seq(S) /\ Len(<<>>) = 0
    OBVIOUS
  <2> QED BY <2>1, <2>2
<1>2. PICK g : /\ g[0] = start
               /\ \A i \in 0 .. N - 1 : g[i + 1] = InitStep(key, g[i], list[i + 1])
               /\ Walk(key, start, list) = g[N]
  BY WalkRuns
<1> HIDE DEF tt
<1>3. PICK h : /\ h[0] = start
               /\ \A i \in 0 .. (N + 1) - 1 : h[i + 1] = InitStep(key, h[i], tt[i + 1])
               /\ Walk(key, start, tt) = h[N + 1]
  <2>1. \E h : /\ h[0] = start
               /\ \A i \in 0 .. Len(tt) - 1 : h[i + 1] = InitStep(key, h[i], tt[i + 1])
               /\ Walk(key, start, tt) = h[Len(tt)]
    BY <1>0, WalkRuns
  <2>2. Len(tt) = N + 1
    BY <1>0
  <2> QED BY <2>1, <2>2
<1> HIDE DEF N
<1> DEFINE E == {i \in Nat : i <= N => h[i] = g[i]}
<1>4. 0 \in E
  BY <1>2, <1>3
<1>5. ASSUME NEW n \in Nat, n \in E
      PROVE  n + 1 \in E
  <2>1. SUFFICES ASSUME n + 1 <= N PROVE h[n + 1] = g[n + 1]
    OBVIOUS
  <2>2. n \in 0 .. N - 1 /\ n \in 0 .. (N + 1) - 1 /\ h[n] = g[n] /\ n + 1 \in 1 .. N
    BY <1>0, <1>5, <2>1
  <2>3. tt[n + 1] = list[n + 1]
    BY <1>0, <2>2
  <2> QED BY <1>2, <1>3, <2>2, <2>3
<1>6. h[N] = g[N]
  <2> HIDE DEF E
  <2>1. Nat \subseteq E
    BY <1>4, <1>5, Induction
  <2> QED BY <1>0, <2>1 DEF E
<1>7. h[N + 1] = InitStep(key, h[N], x)
  <2>1. N \in 0 .. (N + 1) - 1
    BY <1>0
  <2> QED BY <1>0, <1>3, <2>1
<1> QED BY <1>1, <1>2, <1>3, <1>6, <1>7 DEF tt

\* parse() as a function of how many descriptors it has read.
LEMMA ParseRuns ==
    ASSUME NEW S, NEW list \in Seq(S), NEW D, NEW dict \in D
    PROVE  \E g : /\ g[0] = dict
                  /\ \A i \in 0 .. Len(list) - 1 : g[i + 1] = ParseStep(g[i], list[i + 1])
                  /\ ParsedTo(dict, list) = g[Len(list)]
<1> DEFINE N == Len(list)
           Fix(f, n) == f = [s \in SUBSET (1 .. n) |->
                                IF s = {} THEN dict
                                ELSE ParseStep(f[s \ {Max(s)}], list[Max(s)])]
           Has(n) == \E f : Fix(f, n)
           T == {n \in Nat : Has(n)}
<1>0. N \in Nat /\ DOMAIN list = 1 .. N
  OBVIOUS
<1> HIDE DEF N
<1>1. Has(0)
  <2> DEFINE f == [s \in SUBSET (1 .. 0) |-> dict]
  <2>1. \A s \in SUBSET (1 .. 0) : s = {}
    OBVIOUS
  <2>2. Fix(f, 0)
    BY <2>1
  <2> QED BY <2>2
<1>2. ASSUME NEW n \in Nat, Has(n)
      PROVE  Has(n + 1)
  <2>1. PICK f : Fix(f, n)
    BY <1>2
  <2> DEFINE m == n + 1
             h == [s \in SUBSET (1 .. m) |->
                      IF m \in s THEN ParseStep(f[s \ {m}], list[m]) ELSE f[s]]
  <2>2. m \in Nat /\ \A i \in 1 .. m : i <= m /\ (i # m => i \in 1 .. n)
    OBVIOUS
  <2>3. \A i \in 1 .. n : i # m /\ i \in 1 .. m
    OBVIOUS
  <2> HIDE DEF m
  <2>4. ASSUME NEW s \in SUBSET (1 .. m), m \in s
        PROVE  h[s] = ParseStep(h[s \ {Max(s)}], list[Max(s)]) /\ s # {}
    <3>1. Max(s) = m
      <4>1. m \in s /\ \A y \in s : m >= y
        BY <2>2, <2>4
      <4>2. \A x \in s : (\A y \in s : x >= y) => x = m
        BY <2>2, <2>4
      <4> QED BY <4>1, <4>2 DEF Max
    <3>2. s \ {m} \in SUBSET (1 .. m) /\ m \notin s \ {m}
      BY <2>4
    <3>3. h[s \ {m}] = f[s \ {m}]
      BY <3>2
    <3>4. h[s] = ParseStep(f[s \ {m}], list[m])
      BY <2>4
    <3> QED BY <2>4, <3>1, <3>3, <3>4
  <2>5. ASSUME NEW s \in SUBSET (1 .. m), m \notin s
        PROVE  h[s] = IF s = {} THEN dict
                      ELSE ParseStep(h[s \ {Max(s)}], list[Max(s)])
    <3>1. s \in SUBSET (1 .. n)
      BY <2>2, <2>5
    <3>2. h[s] = f[s]
      BY <2>5
    <3>3. s \ {Max(s)} \in SUBSET (1 .. m) /\ m \notin s \ {Max(s)}
      BY <2>5
    <3>4. h[s \ {Max(s)}] = f[s \ {Max(s)}]
      BY <3>3
    <3>5. f[s] = IF s = {} THEN dict
                 ELSE ParseStep(f[s \ {Max(s)}], list[Max(s)])
      BY <2>1, <3>1
    <3> QED BY <3>2, <3>4, <3>5
  <2>6. DOMAIN h = SUBSET (1 .. m) /\ h = [s \in DOMAIN h |-> h[s]]
    OBVIOUS
  <2> HIDE DEF h
  <2>7. Fix(h, m)
    BY <2>4, <2>5, <2>6
  <2>8. Has(m)
    BY <2>7
  <2> QED BY <2>8 DEF m
<1>3. Has(N)
  <2> HIDE DEF Has
  <2>1. 0 \in T
    BY <1>1
  <2>2. ASSUME NEW n \in Nat, n \in T PROVE n + 1 \in T
    BY <1>2, <2>2
  <2> HIDE DEF T
  <2>3. Nat \subseteq T
    BY <2>1, <2>2, Induction
  <2> QED BY <1>0, <2>3 DEF T
<1> DEFINE iter == CHOOSE f : Fix(f, N)
<1>4. ParsedTo(dict, list) = iter[1 .. N]
  BY <1>0 DEF ParsedTo, FoldLeft, MapThenFoldSet
<1>5. Fix(iter, N)
  <2> HIDE DEF Fix
  <2> QED BY <1>3
<1> HIDE DEF iter
<1>6. iter[1 .. 0] = dict
  <2>1. 1 .. 0 = {} /\ 1 .. 0 \in SUBSET (1 .. N)
    BY <1>0
  <2> QED BY <1>5, <2>1
<1>7. ASSUME NEW i \in 0 .. N - 1
      PROVE  iter[1 .. i + 1] = ParseStep(iter[1 .. i], list[i + 1])
  <2> DEFINE s == 1 .. i + 1
  <2>0. i \in Nat /\ i + 1 <= N
    BY <1>0
  <2>1. s \in SUBSET (1 .. N) /\ i + 1 \in s /\ \A y \in s : y <= i + 1 /\ y \in Nat
    BY <1>0, <2>0
  <2>2. s \ {i + 1} = 1 .. i
    BY <2>0
  <2> HIDE DEF s
  <2>3. Max(s) = i + 1
    <3>1. i + 1 \in s /\ \A y \in s : i + 1 >= y
      BY <2>1
    <3>2. \A x \in s : (\A y \in s : x >= y) => x = i + 1
      BY <2>1
    <3> QED BY <3>1, <3>2 DEF Max
  <2>4. iter[s] = ParseStep(iter[s \ {Max(s)}], list[Max(s)])
    BY <1>5, <2>1
  <2>5. iter[s] = ParseStep(iter[1 .. i], list[i + 1])
    BY <2>2, <2>3, <2>4
  <2> QED BY <2>5 DEF s
<1> DEFINE g == [k \in 0 .. N |-> iter[1 .. k]]
<1>8. /\ g[0] = iter[1 .. 0]
      /\ \A i \in 0 .. N - 1 : g[i] = iter[1 .. i] /\ g[i + 1] = iter[1 .. i + 1]
      /\ g[N] = iter[1 .. N]
  BY <1>0
<1> HIDE DEF g, Fix, Has, T
<1>9. /\ g[0] = dict
      /\ \A i \in 0 .. N - 1 : g[i + 1] = ParseStep(g[i], list[i + 1])
      /\ ParsedTo(dict, list) = g[N]
  BY <1>4, <1>6, <1>7, <1>8
<1> QED BY <1>9 DEF N

\* parse() with one descriptor more.
LEMMA ParseMore ==
    ASSUME NEW S, NEW list \in Seq(S), NEW x \in S, NEW D, NEW dict \in D
    PROVE  /\ ParsedTo(dict, <<>>) = dict
           /\ ParsedTo(dict, Append(list, x)) = ParseStep(ParsedTo(dict, list), x)
<1> DEFINE N == Len(list)
           tt == Append(list, x)
<1>0. N \in Nat /\ tt \in Seq(S) /\ Len(tt) = N + 1 /\ tt[N + 1] = x /\ \A i \in 1 .. N : tt[i] = list[i]
  OBVIOUS
<1>1. ParsedTo(dict, <<>>) = dict
  <2>1. ASSUME NEW e \in Seq(S), Len(e) = 0
        PROVE  ParsedTo(dict, e) = dict
    <3>1. PICK g : /\ g[0] = dict
                   /\ \A i \in 0 .. Len(e) - 1 : g[i + 1] = ParseStep(g[i], e[i + 1])
                   /\ ParsedTo(dict, e) = g[Len(e)]
      BY ParseRuns
    <3> QED BY <2>1, <3>1
  <2>2. <<>> \in Seq(S) /\ Len(<<>>) = 0
    OBVIOUS
  <2> QED BY <2>1, <2>2
<1>2. PICK g : /\ g[0] = dict
               /\ \A i \in 0 .. N - 1 : g[i + 1] = ParseStep(g[i], list[i + 1])
               /\ ParsedTo(dict, list) = g[N]
  BY ParseRuns
<1> HIDE DEF tt
<1>3. PICK h : /\ h[0] = dict
               /\ \A i \in 0 .. (N + 1) - 1 : h[i + 1] = ParseStep(h[i], tt[i + 1])
               /\ ParsedTo(dict, tt) = h[N + 1]
  <2>1. \E h : /\ h[0] = dict
               /\ \A i \in 0 .. Len(tt) - 1 : h[i + 1] = ParseStep(h[i], tt[i + 1])
               /\ ParsedTo(dict, tt) = h[Len(tt)]
    BY <1>0, ParseRuns
  <2>2. Len(tt) = N + 1
    BY <1>0
  <2> QED BY <2>1, <2>2
<1> HIDE DEF N
<1> DEFINE E == {i \in Nat : i <= N => h[i] = g[i]}
<1>4. 0 \in E
  BY <1>2, <1>3
<1>5. ASSUME NEW n \in Nat, n \in E
      PROVE  n + 1 \in E
  <2>1. SUFFICES ASSUME n + 1 <= N PROVE h[n + 1] = g[n + 1]
    OBVIOUS
  <2>2. n \in 0 .. N - 1 /\ n \in 0 .. (N + 1) - 1 /\ h[n] = g[n] /\ n + 1 \in 1 .. N
    BY <1>0, <1>5, <2>1
  <2>3. tt[n + 1] = list[n + 1]
    BY <1>0, <2>2
  <2> QED BY <1>2, <1>3, <2>2, <2>3
<1>6. h[N] = g[N]
  <2> HIDE DEF E
  <2>1. Nat \subseteq E
    BY <1>4, <1>5, Induction
  <2> QED BY <1>0, <2>1 DEF E
<1>7. h[N + 1] = ParseStep(h[N], x)
  <2>1. N \in 0 .. (N + 1) - 1
    BY <1>0
  <2> QED BY <1>0, <1>3, <2>1
<1> QED BY <1>1, <1>2, <1>3, <1>6, <1>7 DEF tt

\* The bytes of each value of a message.
PutAll(key, vals, limit) == [i \in 1 .. Len(key) |-> Put(key[i], vals[i], limit, i)]

(***************************************************************************)
(* What a statement puts.                                                  *)
(***************************************************************************)

\* The smaller of two numbers.
LEMMA MinOf ==
    ASSUME NEW a \in Nat, NEW b \in Nat
    PROVE  Min({a, b}) = IF a <= b THEN a ELSE b
<1>1. \A x \in {a, b} : (\A y \in {a, b} : x <= y) => x = IF a <= b THEN a ELSE b
  OBVIOUS
<1>2. \E x \in {a, b} : \A y \in {a, b} : x <= y
  OBVIOUS
<1> QED BY <1>1, <1>2 DEF Min

\* A cell is a cell.
LEMMA CellType ==
    ASSUME NEW n \in Nat, NEW of \in Nat
    PROVE  Cell(n, of) \in Cells
BY DEF Cell, Cells

\* So many bytes that are the same.
LEMMA Fill ==
    ASSUME NEW n \in Nat, NEW c \in Cells
    PROVE  /\ [k \in 1 .. n |-> c] \in Seq(Cells)
           /\ Len([k \in 1 .. n |-> c]) = n
           /\ \A k \in 1 .. n : [j \in 1 .. n |-> c][k] = c
OBVIOUS

\* The parts of an entry.
LEMMA SizeType ==
    ASSUME NEW e \in Entry
    PROVE  /\ e.opt \in Nat
           /\ e.type \in {"u", "c", "b", "s", "i", "f", "q", "d", "p"}
           /\ e.type # "p" => Size[e.type] \in Nat \ {0}
BY DEF Entry, Size

\* The bytes of a value.
LEMMA PutType ==
    ASSUME NEW e \in Entry, NEW v \in ValueType, NEW limit \in Nat, NEW of \in Nat
    PROVE  Put(e, v, limit, of) \in Seq(Cells)
<1>1. [k \in 1 .. v.given |-> Cell(1, of)] \in Seq(Cells)
  <2>1. v.given \in Nat /\ Cell(1, of) \in Cells
    BY CellType DEF ValueType
  <2> QED BY <2>1, Fill
<1>2. <<Cell(0, of)>> \in Seq(Cells)
  BY DEF Cell, Cells
<1>3. e.type # "p" => [k \in 1 .. Size[e.type] |-> Cell(0, of)] \in Seq(Cells)
  <2>1. Cell(0, of) \in Cells
    BY CellType
  <2> QED BY <2>1, SizeType, Fill
<1>4. v.len # -1 => PutString(v.len, limit, of) \in Seq(Cells)
  <2>1. SUFFICES ASSUME v.len # -1 PROVE PutString(v.len, limit, of) \in Seq(Cells)
    OBVIOUS
  <2> DEFINE n == Min({v.len, limit})
  <2>2. n \in Nat
    BY <2>1, MinOf DEF ValueType
  <2> HIDE DEF n
  <2>3. <<Cell(n, of)>> \in Seq(Cells) /\ [k \in 1 .. n |-> Cell(0, of)] \in Seq(Cells)
    BY <2>2 DEF Cell, Cells
  <2>4. PutString(v.len, limit, of) = <<Cell(n, of)>> \o [k \in 1 .. n |-> Cell(0, of)]
    BY DEF PutString, n
  <2> QED BY <2>3, <2>4
<1>5. <<>> \in Seq(Cells)
  OBVIOUS
<1> DEFINE rest == IF v.given < e.opt THEN <<Cell(0, of)>>
                   ELSE IF e.type # "p" THEN [k \in 1 .. Size[e.type] |-> Cell(0, of)]
                   ELSE IF v.len = -1 THEN <<>> ELSE PutString(v.len, limit, of)
<1>6. rest \in Seq(Cells)
  BY <1>2, <1>3, <1>4, <1>5
<1>7. Put(e, v, limit, of) = [k \in 1 .. v.given |-> Cell(1, of)] \o rest
  BY DEF Put
<1> HIDE DEF rest
<1> QED BY <1>1, <1>6, <1>7

\* The bytes of a message.
LEMMA StoredType ==
    ASSUME NEW key \in Seq(Entry), NEW vals \in Seq(ValueType), Len(vals) = Len(key), NEW limit \in Nat
    PROVE  /\ PutAll(key, vals, limit) \in Seq(Seq(Cells))
           /\ FlattenSeq(PutAll(key, vals, limit)) \in Seq(Cells)
           /\ Stored(key, vals, limit) \in Seq(Cells)
<1>1. \A i \in 1 .. Len(key) : Put(key[i], vals[i], limit, i) \in Seq(Cells)
  <2> TAKE i \in 1 .. Len(key)
  <2>1. key[i] \in Entry /\ vals[i] \in ValueType /\ i \in Nat
    OBVIOUS
  <2> QED BY <2>1, PutType
<1>2. PutAll(key, vals, limit) \in Seq(Seq(Cells))
  BY <1>1 DEF PutAll
<1> DEFINE data == FlattenSeq(PutAll(key, vals, limit))
<1>3. data \in Seq(Cells)
  <2>1. <<>> \in Seq(Cells)
    OBVIOUS
  <2> QED BY <1>2, <2>1, FlattenMore
<1>4. Stored(key, vals, limit) = Append(data, Cell((Header + Len(data)) % Base, 0))
  BY DEF Stored, PutAll
<1> HIDE DEF data
<1>5. Cell((Header + Len(data)) % Base, 0) \in Cells
  <2>1. Len(data) \in Nat /\ Base \in Nat \ {0} /\ Header = 12
    BY <1>3, WidthAssumption DEF Header
  <2>2. (Header + Len(data)) % Base \in Nat
    BY <2>1
  <2> QED BY <2>2 DEF Cell, Cells
<1>6. Append(data, Cell((Header + Len(data)) % Base, 0)) \in Seq(Cells)
  BY <1>3, <1>5
<1> QED BY <1>2, <1>3, <1>4, <1>6 DEF data

(***************************************************************************)
(* Where the bytes of a value are, and how a reader knows.                 *)
(***************************************************************************)

\* Where the k-th of several sequences ends when they are put together.
Off(tt, k) == Len(FlattenSeq(First(tt, k)))

\* Where the parts of a joined sequence begin.
LEMMA OffIs ==
    ASSUME NEW S, NEW tt \in Seq(Seq(S))
    PROVE  /\ Off(tt, 0) = 0 /\ Off(tt, Len(tt)) = Len(FlattenSeq(tt))
           /\ \A k \in 0 .. Len(tt) : FlattenSeq(First(tt, k)) \in Seq(S) /\ Off(tt, k) \in Nat
           /\ \A k \in 1 .. Len(tt) : /\ FlattenSeq(First(tt, k)) = FlattenSeq(First(tt, k - 1)) \o tt[k]
                                      /\ Off(tt, k) = Off(tt, k - 1) + Len(tt[k])
<1>1. <<>> \in Seq(S) /\ FlattenSeq(<<>>) = <<>> /\ First(tt, 0) = <<>> /\ First(tt, Len(tt)) = tt
  <2>1. <<>> \in Seq(S)
    OBVIOUS
  <2>2. FlattenSeq(<<>>) = <<>>
    BY <2>1, FlattenMore
  <2>3. First(tt, 0) = <<>> /\ First(tt, Len(tt)) = tt
    <3>1. \A T : tt \in Seq(T) => First(tt, 0) = <<>> /\ First(tt, Len(tt)) = tt
      BY FirstOf
    <3> QED BY <3>1
  <2> QED BY <2>1, <2>2, <2>3
<1>2. \A k \in 0 .. Len(tt) : First(tt, k) \in Seq(Seq(S))
  BY FirstOf
<1>3. \A k \in 0 .. Len(tt) : FlattenSeq(First(tt, k)) \in Seq(S)
  BY <1>1, <1>2, FlattenMore
<1>4. \A k \in 0 .. Len(tt) : Off(tt, k) \in Nat
  BY <1>3 DEF Off
<1>5. ASSUME NEW k \in 1 .. Len(tt)
      PROVE  /\ FlattenSeq(First(tt, k)) = FlattenSeq(First(tt, k - 1)) \o tt[k]
             /\ Off(tt, k) = Off(tt, k - 1) + Len(tt[k])
  <2>1. k - 1 \in 0 .. Len(tt) /\ tt[k] \in Seq(S)
    OBVIOUS
  <2>2. First(tt, k) = Append(First(tt, k - 1), tt[k])
    BY FirstOf
  <2>3. FlattenSeq(Append(First(tt, k - 1), tt[k])) = FlattenSeq(First(tt, k - 1)) \o tt[k]
    BY <1>2, <2>1, FlattenMore
  <2>4. FlattenSeq(First(tt, k - 1)) \in Seq(S)
    BY <1>3, <2>1
  <2>5. Len(FlattenSeq(First(tt, k - 1)) \o tt[k]) = Len(FlattenSeq(First(tt, k - 1))) + Len(tt[k])
    BY <2>1, <2>4
  <2> QED BY <2>2, <2>3, <2>5 DEF Off
<1>6. Off(tt, 0) = 0 /\ Off(tt, Len(tt)) = Len(FlattenSeq(tt))
  BY <1>1 DEF Off
<1> QED BY <1>3, <1>4, <1>5, <1>6

\* What stands in a joined sequence.
LEMMA FlattenSplit ==
    ASSUME NEW S, NEW tt \in Seq(Seq(S))
    PROVE  /\ \A k \in 0 .. Len(tt) : Off(tt, k) <= Len(FlattenSeq(tt))
           /\ \A k \in 1 .. Len(tt) : \A j \in 1 .. Len(tt[k]) :
                 FlattenSeq(tt)[Off(tt, k - 1) + j] = tt[k][j]
<1> DEFINE F(n) == FlattenSeq(First(tt, n))
           Good(n) == /\ \A k \in 0 .. n : Off(tt, k) <= Len(F(n))
                      /\ \A k \in 1 .. n : \A j \in 1 .. Len(tt[k]) : F(n)[Off(tt, k - 1) + j] = tt[k][j]
           T == {n \in Nat : n <= Len(tt) => Good(n)}
<1>0. /\ \A k \in 1 .. Len(tt) : tt[k] \in Seq(S) /\ Len(tt[k]) \in Nat
      /\ Len(tt) \in Nat
      /\ \A k \in 0 .. Len(tt) : F(k) \in Seq(S) /\ Len(F(k)) = Off(tt, k) /\ Off(tt, k) \in Nat
      /\ \A k \in 1 .. Len(tt) : F(k) = F(k - 1) \o tt[k] /\ Off(tt, k) = Off(tt, k - 1) + Len(tt[k])
      /\ Off(tt, 0) = 0 /\ F(Len(tt)) = FlattenSeq(tt)
  <2>1. \A k \in 1 .. Len(tt) : tt[k] \in Seq(S) /\ Len(tt[k]) \in Nat
    OBVIOUS
  <2>2. Len(tt) \in Nat
    OBVIOUS
  <2>3. F(Len(tt)) = FlattenSeq(tt)
    BY FirstOf
  <2> QED BY <2>1, <2>2, <2>3, OffIs DEF Off
<1> HIDE DEF F
<1>1. 0 \in T
  BY <1>0
<1>2. ASSUME NEW n \in Nat, n \in T
      PROVE  n + 1 \in T
  <2>1. SUFFICES ASSUME n + 1 <= Len(tt) PROVE Good(n + 1)
    OBVIOUS
  <2>2. Good(n) /\ n + 1 \in 1 .. Len(tt) /\ n \in 0 .. Len(tt) /\ (n + 1) - 1 = n /\ n + 1 \in 0 .. Len(tt)
    BY SMTT(30), <1>0, <1>2, <2>1
  <2>3. F(n + 1) = F(n) \o tt[n + 1] /\ Off(tt, n + 1) = Off(tt, n) + Len(tt[n + 1])
    BY <1>0, <2>2
  <2>4. /\ F(n) \in Seq(S) /\ F(n + 1) \in Seq(S) /\ Len(F(n)) = Off(tt, n) /\ Len(F(n + 1)) = Off(tt, n + 1)
        /\ Off(tt, n) \in Nat /\ Len(tt[n + 1]) \in Nat /\ tt[n + 1] \in Seq(S)
    BY <1>0, <2>2
  <2>5. ASSUME NEW k \in 0 .. n + 1 PROVE Off(tt, k) <= Len(F(n + 1))
    <3>1. CASE k = n + 1
      BY <2>4, <3>1
    <3>2. CASE k # n + 1
      <4>1. k \in 0 .. n /\ k \in 0 .. Len(tt)
        BY <3>2, <2>1, <1>0
      <4>2. Off(tt, k) <= Len(F(n)) /\ Off(tt, k) \in Nat
        BY <4>1, <2>2, <1>0
      <4> QED BY <4>2, <2>3, <2>4
    <3> QED BY <3>1, <3>2
  <2>6. ASSUME NEW k \in 1 .. n + 1, NEW j \in 1 .. Len(tt[k])
        PROVE  F(n + 1)[Off(tt, k - 1) + j] = tt[k][j]
    <3>1. CASE k = n + 1
      <4>1. Off(tt, k - 1) = Len(F(n)) /\ j \in 1 .. Len(tt[n + 1])
        BY <3>1, <2>2, <2>4
      <4>2. (F(n) \o tt[n + 1])[Len(F(n)) + j] = tt[n + 1][j]
        <5>1. PICK a \in Seq(S), b \in Seq(S) : a = F(n) /\ b = tt[n + 1]
          BY <2>4
        <5>2. Len(a) \in Nat /\ Len(b) \in Nat /\ j \in 1 .. Len(b)
          BY <4>1, <5>1
        <5>3. (a \o b)[Len(a) + j] = b[j]
          <6>1. /\ Len(a) + j \in 1 .. Len(a) + Len(b) /\ ~(Len(a) + j <= Len(a))
                /\ (Len(a) + j) - Len(a) = j
            BY <5>2
          <6>2. (a \o b)[Len(a) + j] = IF Len(a) + j <= Len(a) THEN a[Len(a) + j] ELSE b[(Len(a) + j) - Len(a)]
            BY <6>1, ConcatProperties
          <6> QED BY <6>1, <6>2
        <5> QED BY <5>1, <5>3
      <4> QED BY <3>1, <4>1, <4>2, <2>3
    <3>2. CASE k # n + 1
      <4>1. k \in 1 .. n /\ k \in 1 .. Len(tt) /\ k \in 0 .. n /\ k - 1 \in 0 .. Len(tt)
        BY SMTT(30), <3>2, <2>1, <1>0
      <4>2. F(n)[Off(tt, k - 1) + j] = tt[k][j] /\ Off(tt, k) <= Len(F(n))
        BY <4>1, <2>2
      <4>3. Off(tt, k) = Off(tt, k - 1) + Len(tt[k]) /\ Off(tt, k - 1) \in Nat /\ Len(tt[k]) \in Nat
        BY <4>1, <1>0
      <4>4. Off(tt, k - 1) + j \in 1 .. Len(F(n))
        <5>1. PICK a \in Nat, b \in Nat, c \in Nat :
                 a = Off(tt, k - 1) /\ b = Len(tt[k]) /\ c = Len(F(n))
          BY <4>3, <2>4
        <5>2. a + b <= c /\ j \in 1 .. b
          BY <4>2, <4>3, <5>1
        <5>3. a + j \in 1 .. c
          BY <5>2
        <5> QED BY <5>1, <5>3
      <4>5. (F(n) \o tt[n + 1])[Off(tt, k - 1) + j] = F(n)[Off(tt, k - 1) + j]
        BY <2>4, <4>4
      <4> QED BY <4>2, <4>5, <2>3
    <3> QED BY <3>1, <3>2
  <2> QED BY <2>5, <2>6
<1> HIDE DEF Good
<1>3. Nat \subseteq T
  <2> HIDE DEF T
  <2> QED BY <1>1, <1>2, Induction
<1>4. Good(Len(tt))
  BY <1>0, <1>3
<1> QED BY <1>0, <1>4 DEF Good

\* Values that a key can take, and str() of none raised.
Takes(key, vals) == /\ vals \in Seq(ValueType) /\ Len(vals) = Len(key)
                    /\ \A i \in 1 .. Len(key) : vals[i].given <= key[i].opt /\ vals[i].len # -1

\* A value says itself how long it is.
LEMMA PutLength ==
    ASSUME NEW e \in Entry, e.opt <= 1, NEW v \in ValueType, v.given <= e.opt, v.len # -1,
           NEW limit \in Nat, NEW of \in Nat,
           NEW p \in Seq(Cells), p = Put(e, v, limit, of)
    PROVE  /\ p \in Seq(Cells) /\ Len(p) >= 1
           /\ Len(p) = IF e.opt = 1 /\ p[1].n = 0 THEN 1
                       ELSE e.opt + (IF e.type = "p" THEN 1 + p[e.opt + 1].n ELSE Size[e.type])
           /\ e.type = "p" /\ ~(e.opt = 1 /\ p[1].n = 0) => Len(p) >= e.opt + 1
<1>0. p \in Seq(Cells)
  BY PutType
<1>1. /\ e.opt \in {0, 1} /\ v.given \in {0, 1} /\ v.len \in Nat
      /\ e.type # "p" => Size[e.type] \in Nat \ {0}
  BY SizeType DEF ValueType
<1> DEFINE rest == IF e.type # "p" THEN [k \in 1 .. Size[e.type] |-> Cell(0, of)]
                   ELSE PutString(v.len, limit, of)
<1>2. /\ rest \in Seq(Cells) /\ Len(rest) >= 1
      /\ e.type # "p" => Len(rest) = Size[e.type]
      /\ e.type = "p" => Len(rest) = 1 + rest[1].n
  <2>1. CASE e.type # "p"
    <3>1. Cell(0, of) \in Cells
      BY CellType
    <3>2. [k \in 1 .. Size[e.type] |-> Cell(0, of)] \in Seq(Cells) /\ Len([k \in 1 .. Size[e.type] |-> Cell(0, of)]) = Size[e.type]
      BY <1>1, <2>1, <3>1, Fill
    <3> QED BY <1>1, <2>1, <3>2
  <2>2. CASE e.type = "p"
    <3> DEFINE n == Min({v.len, limit})
    <3>1. n \in Nat
      BY <1>1, MinOf
    <3>2. rest = <<Cell(n, of)>> \o [k \in 1 .. n |-> Cell(0, of)]
      BY <2>2 DEF PutString
    <3> HIDE DEF n, rest
    <3>3. Cell(0, of) \in Cells /\ Cell(n, of) \in Cells /\ Cell(n, of).n = n
      BY <3>1, CellType DEF Cell
    <3>4. [k \in 1 .. n |-> Cell(0, of)] \in Seq(Cells) /\ Len([k \in 1 .. n |-> Cell(0, of)]) = n
      BY <3>1, <3>3, Fill
    <3>5. PICK t \in Seq(Cells) : t = [k \in 1 .. n |-> Cell(0, of)]
      BY <3>4
    <3>6. rest = <<Cell(n, of)>> \o t /\ Len(t) = n
      BY <3>2, <3>4, <3>5
    <3>7. rest \in Seq(Cells) /\ Len(rest) = 1 + n /\ rest[1] = Cell(n, of)
      BY <3>1, <3>3, <3>6
    <3> QED BY <2>2, <3>1, <3>3, <3>7
  <2> QED BY <2>1, <2>2
<1>3. p = [k \in 1 .. v.given |-> Cell(1, of)] \o (IF v.given < e.opt THEN <<Cell(0, of)>> ELSE rest)
  BY DEF Put
<1> HIDE DEF rest
<1>4. Cell(0, of) \in Cells /\ Cell(1, of) \in Cells /\ Cell(0, of).n = 0 /\ Cell(1, of).n = 1
  BY CellType DEF Cell
<1>5. CASE v.given < e.opt
  <2>1. e.opt = 1 /\ v.given = 0
    BY <1>1, <1>5
  <2>2. [k \in 1 .. v.given |-> Cell(1, of)] = <<>>
    BY <2>1
  <2>3. p = <<>> \o <<Cell(0, of)>>
    BY <1>3, <1>5, <2>2
  <2>4. p = <<Cell(0, of)>>
    BY <1>4, <2>3
  <2>5. Len(p) = 1 /\ p[1].n = 0
    BY <1>4, <2>4
  <2> QED BY <1>0, <2>1, <2>5
<1>6. CASE v.given = 0 /\ e.opt = 0
  <2>1. [k \in 1 .. v.given |-> Cell(1, of)] = <<>>
    BY <1>6
  <2>2. p = <<>> \o rest
    BY <1>3, <1>6, <2>1
  <2>3. p = rest
    BY <1>2, <2>2
  <2> QED BY <1>2, <1>6, <2>3
<1>7. CASE v.given = 1 /\ e.opt = 1
  <2>1. [k \in 1 .. v.given |-> Cell(1, of)] = <<Cell(1, of)>>
    BY <1>7
  <2>2. p = <<Cell(1, of)>> \o rest
    BY <1>3, <1>7, <2>1
  <2>3. Len(p) = 1 + Len(rest) /\ p[1].n = 1 /\ p[2] = rest[1] /\ Len(rest) \in Nat
    BY <1>2, <1>4, <2>2
  <2>4. CASE e.type = "p"
    <3>1. Len(rest) = 1 + p[2].n
      BY <1>2, <2>3, <2>4
    <3>2. e.opt + 1 = 2 /\ p[e.opt + 1].n = p[2].n /\ e.opt = 1
      BY <1>7
    <3>3. Len(p) = e.opt + (1 + p[e.opt + 1].n)
      BY <2>3, <3>1, <3>2
    <3>4. Len(p) >= e.opt + 1
      BY <2>3, <1>2, <3>2
    <3> QED BY <1>0, <1>7, <2>3, <2>4, <3>3, <3>4
  <2>5. CASE e.type # "p"
    BY <1>0, <1>1, <1>2, <1>7, <2>3, <2>5
  <2> QED BY <2>4, <2>5
<1>8. (v.given = 0 \/ v.given = 1) /\ (e.opt = 0 \/ e.opt = 1)
  BY <1>1
<1> QED BY <1>5, <1>6, <1>7, <1>8

\* What is read where the values were put.
LEMMA PeekIs ==
    ASSUME NEW key \in Seq(Entry), NEW vals \in Seq(ValueType), Len(vals) = Len(key), NEW limit \in Nat
    PROVE  LET bytes == Stored(key, vals, limit)
               puts == PutAll(key, vals, limit)
           IN  /\ puts \in Seq(Seq(Cells)) /\ Len(puts) = Len(key) /\ bytes \in Seq(Cells)
               /\ \A i \in 1 .. Len(key) : puts[i] = Put(key[i], vals[i], limit, i)
               /\ Off(puts, Len(key)) \in Nat
               /\ Len(bytes) = Off(puts, Len(key)) + 1
               /\ Peek(bytes, Off(puts, Len(key)) + 1) = (Header + Off(puts, Len(key))) % Base
               /\ \A i \in 1 .. Len(key) : \A j \in 1 .. Len(puts[i]) :
                     /\ Off(puts, i - 1) + j \in 1 .. Off(puts, Len(key))
                     /\ bytes[Off(puts, i - 1) + j] = puts[i][j]
                     /\ Peek(bytes, Off(puts, i - 1) + j) = puts[i][j].n
<1> DEFINE bytes == Stored(key, vals, limit)
           puts == PutAll(key, vals, limit)
<1>1. /\ puts \in Seq(Seq(Cells)) /\ bytes \in Seq(Cells) /\ FlattenSeq(puts) \in Seq(Cells)
  BY StoredType
<1>2. Len(puts) = Len(key) /\ \A i \in 1 .. Len(key) : puts[i] = Put(key[i], vals[i], limit, i)
  BY DEF PutAll
<1>3. bytes = Append(FlattenSeq(puts), Cell((Header + Len(FlattenSeq(puts))) % Base, 0))
  BY DEF Stored, PutAll
<1> HIDE DEF bytes, puts
<1>4. /\ Off(puts, Len(key)) = Len(FlattenSeq(puts)) /\ Off(puts, Len(key)) \in Nat
  <2>1. Off(puts, Len(puts)) = Len(FlattenSeq(puts))
    BY <1>1, OffIs
  <2>2. Len(FlattenSeq(puts)) \in Nat
    BY <1>1
  <2> QED BY <1>2, <2>1, <2>2
<1>5. /\ Len(bytes) = Len(FlattenSeq(puts)) + 1
      /\ bytes[Len(FlattenSeq(puts)) + 1] = Cell((Header + Len(FlattenSeq(puts))) % Base, 0)
      /\ \A j \in 1 .. Len(FlattenSeq(puts)) : bytes[j] = FlattenSeq(puts)[j]
  BY <1>1, <1>3
<1>6. Peek(bytes, Off(puts, Len(key)) + 1) = (Header + Off(puts, Len(key))) % Base
  BY <1>4, <1>5 DEF Peek, Cell
<1>7. ASSUME NEW i \in 1 .. Len(key), NEW j \in 1 .. Len(puts[i])
      PROVE  /\ Off(puts, i - 1) + j \in 1 .. Off(puts, Len(key))
             /\ bytes[Off(puts, i - 1) + j] = puts[i][j]
             /\ Peek(bytes, Off(puts, i - 1) + j) = puts[i][j].n
  <2>1. FlattenSeq(puts)[Off(puts, i - 1) + j] = puts[i][j] /\ Off(puts, i) <= Len(FlattenSeq(puts))
    <3>1. i \in 1 .. Len(puts) /\ i \in 0 .. Len(puts)
      BY <1>2
    <3>2. Off(puts, i) <= Len(FlattenSeq(puts))
      BY <1>1, <3>1, FlattenSplit
    <3>3. FlattenSeq(puts)[Off(puts, i - 1) + j] = puts[i][j]
      BY <1>1, <3>1, FlattenSplit
    <3> QED BY <3>2, <3>3
  <2>2. /\ Off(puts, i) = Off(puts, i - 1) + Len(puts[i]) /\ Off(puts, i - 1) \in Nat
        /\ Off(puts, i) \in Nat /\ Len(puts[i]) \in Nat
    <3>1. i \in 1 .. Len(puts) /\ i \in 0 .. Len(puts) /\ i - 1 \in 0 .. Len(puts) /\ Len(puts[i]) \in Nat
      BY <1>1, <1>2
    <3> QED BY <1>1, <3>1, OffIs
  <2>3. PICK a \in Nat, b \in Nat, c \in Nat :
           a = Off(puts, i - 1) /\ b = Len(puts[i]) /\ c = Len(FlattenSeq(puts))
    BY <1>4, <2>2
  <2>4. a + b <= c /\ j \in 1 .. b
    BY <2>1, <2>2, <2>3
  <2>5. a + j \in 1 .. c /\ a + j <= c + 1
    BY <2>4
  <2>6. bytes[a + j] = puts[i][j]
    BY <1>5, <2>1, <2>3, <2>5
  <2>7. Peek(bytes, a + j) = puts[i][j].n
    BY <1>5, <2>3, <2>5, <2>6 DEF Peek
  <2> QED BY <1>4, <2>3, <2>5, <2>6, <2>7
<1> QED BY <1>1, <1>2, <1>4, <1>5, <1>6, <1>7 DEF bytes, puts

\* A value is found as long as it was put.
LEMMA LengthAt ==
    ASSUME NEW key \in Seq(Entry), Supported(key), NEW vals \in Seq(ValueType), Takes(key, vals),
           NEW limit \in Nat, NEW i \in 1 .. Len(key)
    PROVE  LET bytes == Stored(key, vals, limit)
               puts == PutAll(key, vals, limit)
           IN  /\ LengthOf(key[i], bytes, Off(puts, i - 1) + 1) = Len(puts[i])
               /\ Off(puts, i) = Off(puts, i - 1) + Len(puts[i])
               /\ Off(puts, i) \in Nat /\ Off(puts, i - 1) \in Nat /\ Len(puts[i]) \in Nat
               /\ Off(puts, i) < Len(bytes)
<1> DEFINE bytes == Stored(key, vals, limit)
           puts == PutAll(key, vals, limit)
<1>0. Len(vals) = Len(key)
  BY DEF Takes
<1>1. /\ puts \in Seq(Seq(Cells)) /\ Len(puts) = Len(key) /\ bytes \in Seq(Cells)
      /\ puts[i] = Put(key[i], vals[i], limit, i)
      /\ \A j \in 1 .. Len(puts[i]) : Peek(bytes, Off(puts, i - 1) + j) = puts[i][j].n
      /\ Len(bytes) = Off(puts, Len(key)) + 1 /\ Off(puts, Len(key)) \in Nat
  BY <1>0, PeekIs
<1> HIDE DEF bytes, puts
<1>2. /\ Off(puts, i) = Off(puts, i - 1) + Len(puts[i])
      /\ Off(puts, i) \in Nat /\ Off(puts, i - 1) \in Nat /\ Len(puts[i]) \in Nat
      /\ Off(puts, i) <= Off(puts, Len(key))
  <2>1. Off(puts, Len(puts)) = Len(FlattenSeq(puts)) /\ \A k \in 0 .. Len(puts) : Off(puts, k) \in Nat
    BY <1>1, OffIs
  <2>2. Off(puts, i) <= Len(FlattenSeq(puts))
    BY <1>1, FlattenSplit
  <2>3. Off(puts, i) = Off(puts, i - 1) + Len(puts[i])
    BY <1>1, OffIs
  <2>4. i \in 0 .. Len(puts) /\ i - 1 \in 0 .. Len(puts) /\ Len(puts[i]) \in Nat
    BY <1>1
  <2> QED BY <1>1, <2>1, <2>2, <2>3, <2>4
<1>3. PICK e \in Entry, v \in ValueType, p \in Seq(Cells), a \in Nat :
         e = key[i] /\ v = vals[i] /\ p = puts[i] /\ a = Off(puts, i - 1)
  <2>1. key[i] \in Entry /\ vals[i] \in ValueType /\ puts[i] \in Seq(Cells)
    BY <1>1 DEF Takes
  <2> QED BY <1>2, <2>1
<1>4. e.opt <= 1 /\ v.given <= e.opt /\ v.len # -1
  <2>1. key[i].opt <= 1
    BY DEF Supported
  <2>2. vals[i].given <= key[i].opt /\ vals[i].len # -1
    BY DEF Takes
  <2> QED BY <1>3, <2>1, <2>2
<1>5. /\ p \in Seq(Cells) /\ Len(p) >= 1
      /\ Len(p) = IF e.opt = 1 /\ p[1].n = 0 THEN 1
                  ELSE e.opt + (IF e.type = "p" THEN 1 + p[e.opt + 1].n ELSE Size[e.type])
      /\ e.type = "p" /\ ~(e.opt = 1 /\ p[1].n = 0) => Len(p) >= e.opt + 1
  <2>1. p = Put(e, v, limit, i) /\ i \in Nat
    BY <1>1, <1>3
  <2> QED BY <1>4, <2>1, PutLength
<1>6. e.opt \in {0, 1} /\ e.type # "w" /\ Len(p) \in Nat
  <2>1. e.opt \in {0, 1}
    BY <1>4, SizeType
  <2>2. e.type # "w"
    BY SizeType
  <2>3. Len(p) \in Nat
    BY <1>5
  <2> QED BY <2>1, <2>2, <2>3
<1>7. Peek(bytes, a + 1) = p[1].n
  <2>1. 1 \in 1 .. Len(puts[i])
    BY <1>3, <1>5, <1>6
  <2>2. Peek(bytes, Off(puts, i - 1) + 1) = puts[i][1].n
    BY <1>1, <2>1
  <2> QED BY <1>3, <2>2
<1>8. e.type = "p" /\ ~(e.opt = 1 /\ p[1].n = 0) => Peek(bytes, (a + 1) + e.opt) = p[e.opt + 1].n
  <2>1. SUFFICES ASSUME e.type = "p", ~(e.opt = 1 /\ p[1].n = 0)
                 PROVE  Peek(bytes, (a + 1) + e.opt) = p[e.opt + 1].n
    OBVIOUS
  <2>2. e.opt + 1 \in 1 .. Len(p) /\ (a + 1) + e.opt = a + (e.opt + 1)
    BY <1>5, <1>6, <2>1
  <2>3. PICK j \in 1 .. Len(puts[i]) : j = e.opt + 1
    BY <1>3, <2>2
  <2>4. Peek(bytes, Off(puts, i - 1) + j) = puts[i][j].n
    BY <1>1
  <2> QED BY <1>3, <2>2, <2>3, <2>4
<1>9. LengthOf(e, bytes, a + 1) = Len(p)
  BY <1>5, <1>6, <1>7, <1>8 DEF LengthOf
<1> QED BY <1>1, <1>2, <1>3, <1>9 DEF bytes, puts

(***************************************************************************)
(* init(): the formatters of a text.                                       *)
(***************************************************************************)

\* Characters, and the words that init() puts among them.
Letter == STRING \cup {"%", "a", "{", "}", ":", "#", "x", "s", "p", "0x", ",", " % (", ") "}

\* Tokens, those of QTFMT included.
TokenType == {Percent, Lone} \cup [k : {"char"}, c : Letter]
             \cup [k : {"arg"}, conv : {"s", "x", "p"}, spec : SUBSET {"width", "precision", "flags"}]

\* How many of the first k tokens are placeholders.
Count(text, k) == Cardinality({j \in 1 .. k : IsArg(text[j])})

\* Placeholders are counted one by one.
LEMMA CountIs ==
    ASSUME NEW text \in Seq(TokenType)
    PROVE  /\ Count(text, 0) = 0
           /\ \A k \in 0 .. Len(text) : Count(text, k) \in Nat
           /\ \A k \in 1 .. Len(text) :
                 Count(text, k) = Count(text, k - 1) + (IF IsArg(text[k]) THEN 1 ELSE 0)
           /\ \A k \in 0 .. Len(text) : \A j \in 0 .. k : Count(text, j) <= Count(text, k)
           /\ \A j, k \in 1 .. Len(text) :
                 IsArg(text[j]) /\ IsArg(text[k]) /\ Count(text, j) = Count(text, k) => j = k
<1> DEFINE A(k) == {j \in 1 .. k : IsArg(text[j])}
<1>1. ASSUME NEW k \in Nat
      PROVE  IsFiniteSet(A(k)) /\ Cardinality(A(k)) \in Nat
  <2>1. IsFiniteSet(1 .. k)
    BY FS_Interval
  <2>2. IsFiniteSet(A(k))
    BY <2>1, FS_Subset
  <2> QED BY <2>2, FS_CardinalityType
<1>2. Count(text, 0) = 0
  <2>1. A(0) = {}
    OBVIOUS
  <2> QED BY <2>1, FS_EmptySet DEF Count
<1>3. \A k \in 0 .. Len(text) : Count(text, k) \in Nat
  <2> TAKE k \in 0 .. Len(text)
  <2>1. k \in Nat /\ Count(text, k) = Cardinality(A(k))
    BY DEF Count
  <2> HIDE DEF A
  <2> QED BY <1>1, <2>1
<1>4. ASSUME NEW k \in 1 .. Len(text)
      PROVE  Count(text, k) = Count(text, k - 1) + (IF IsArg(text[k]) THEN 1 ELSE 0)
  <2>0. k - 1 \in Nat
    OBVIOUS
  <2>1. CASE IsArg(text[k])
    <3>1. A(k) = A(k - 1) \cup {k} /\ k \notin A(k - 1)
      BY <2>1
    <3>2. Cardinality(A(k - 1) \cup {k}) = Cardinality(A(k - 1)) + 1
      <4> HIDE DEF A
      <4> QED BY <1>1, <2>0, <3>1, FS_AddElement
    <3> QED BY <2>1, <3>1, <3>2 DEF Count
  <2>2. CASE ~IsArg(text[k])
    <3>1. A(k) = A(k - 1)
      BY <2>2
    <3>2. Count(text, k - 1) \in Nat /\ Count(text, k) = Count(text, k - 1)
      <4>1. k - 1 \in 0 .. Len(text) /\ Count(text, k) = Cardinality(A(k)) /\ Count(text, k - 1) = Cardinality(A(k - 1))
        BY DEF Count
      <4> HIDE DEF A
      <4> QED BY <1>3, <3>1, <4>1
    <3> QED BY <2>2, <3>2
  <2> QED BY <2>1, <2>2
<1>5. ASSUME NEW k \in 0 .. Len(text), NEW j \in 0 .. k
      PROVE  Count(text, j) <= Count(text, k)
  <2>1. A(j) \subseteq A(k) /\ k \in Nat
    OBVIOUS
  <2>2. Cardinality(A(j)) <= Cardinality(A(k))
    <3> HIDE DEF A
    <3> QED BY <1>1, <2>1, FS_Subset
  <2> QED BY <2>2 DEF Count
<1>6. ASSUME NEW j \in 1 .. Len(text), NEW k \in 1 .. Len(text), IsArg(text[k]), j < k
      PROVE  Count(text, j) # Count(text, k)
  <2>1. k - 1 \in 0 .. Len(text) /\ j \in 0 .. k - 1 /\ j \in 0 .. Len(text)
    BY <1>6
  <2>2. Count(text, j) <= Count(text, k - 1) /\ Count(text, k) = Count(text, k - 1) + 1
    BY <1>4, <1>5, <1>6, <2>1
  <2>3. Count(text, j) \in Nat /\ Count(text, k - 1) \in Nat
    BY <1>3, <2>1
  <2> QED BY <2>2, <2>3
<1>7. ASSUME NEW j \in 1 .. Len(text), NEW k \in 1 .. Len(text),
             IsArg(text[j]), IsArg(text[k]), Count(text, j) = Count(text, k)
      PROVE  j = k
  <2>1. ~ (j < k) /\ ~ (k < j)
    BY <1>6, <1>7
  <2> QED BY <2>1
<1> QED BY <1>2, <1>3, <1>4, <1>5, <1>7

\* What a formatter is, and what init() holds on its way.
FormatterType == [f : {"static"}, of : Seq(Letter)]
                 \cup [f : {"apply", "reset"}, spec : SUBSET {"width", "precision", "flags"}]
                 \cup [f : {"value"}, e : Entry \cup {WallClock}, hex : BOOLEAN]

\* What init() holds while it walks a text.
WalkType == [list : Seq(FormatterType), used : Nat, text : Seq(Letter), stop : BOOLEAN]

\* The formatters of letters, of a value and of a specification.
LEMMA FormatterIs ==
    /\ \A str \in Seq(Letter) : Static(str) \in Seq(FormatterType) /\ Static(str) = <<[f |-> "static", of |-> str]>>
    /\ \A e \in Entry \cup {WallClock}, hex \in BOOLEAN :
          Value(e, hex) \in Seq(FormatterType)
    /\ \A t \in TokenType : IsArg(t) => /\ SpecOf("apply", t) \in Seq(FormatterType)
                                    /\ SpecOf("reset", t) \in Seq(FormatterType)
<1>1. ASSUME NEW str \in Seq(Letter) PROVE Static(str) \in Seq(FormatterType) /\ Static(str) = <<[f |-> "static", of |-> str]>>
  BY DEF Static, FormatterType
<1>2. ASSUME NEW e \in Entry \cup {WallClock}, NEW hex \in BOOLEAN PROVE Value(e, hex) \in Seq(FormatterType)
  BY DEF Value, FormatterType
<1>3. ASSUME NEW t \in TokenType, IsArg(t)
      PROVE SpecOf("apply", t) \in Seq(FormatterType) /\ SpecOf("reset", t) \in Seq(FormatterType)
  <2>1. t.spec \in SUBSET {"width", "precision", "flags"}
    BY <1>3 DEF TokenType, IsArg, Percent, Lone
  <2>2. [f |-> "apply", spec |-> t.spec] \in FormatterType /\ [f |-> "reset", spec |-> t.spec] \in FormatterType
    BY <2>1 DEF FormatterType
  <2> QED BY <2>2 DEF SpecOf
<1> QED BY <1>1, <1>2, <1>3

\* The parts of a token.
LEMMA TokenIs ==
    ASSUME NEW t \in TokenType
    PROVE  /\ t.k \in {"char", "percent", "lone", "arg"}
           /\ Raw(t) \in Seq(Letter)
           /\ IsArg(t) => t.conv \in {"s", "x", "p"} /\ t.spec \in SUBSET {"width", "precision", "flags"}
<1>1. "%" \in Letter /\ "s" \in Letter /\ "x" \in Letter /\ "p" \in Letter
  BY DEF Letter
<1>2. CASE t = Percent
  BY <1>1, <1>2 DEF Percent, IsArg, Raw
<1>3. CASE t = Lone
  BY <1>1, <1>3 DEF Lone, IsArg, Raw
<1>4. CASE t \in [k : {"char"}, c : Letter]
  <2>1. t.k = "char" /\ t.c \in Letter
    BY <1>4
  <2>2. Raw(t) = <<t.c>>
    BY <2>1 DEF Raw
  <2> QED BY <2>1, <2>2 DEF IsArg
<1>5. CASE t \in [k : {"arg"}, conv : {"s", "x", "p"}, spec : SUBSET {"width", "precision", "flags"}]
  <2>1. t.k = "arg" /\ t.conv \in {"s", "x", "p"} /\ t.spec \in SUBSET {"width", "precision", "flags"}
    BY <1>5
  <2>2. Raw(t) = <<"%", t.conv>> /\ t.conv \in Letter
    BY <1>1, <2>1 DEF Raw
  <2> QED BY <1>1, <2>1, <2>2 DEF IsArg
<1> QED BY <1>2, <1>3, <1>4, <1>5 DEF TokenType

\* Words that init() puts among the characters.
LEMMA LettersAre ==
    /\ \A str \in Seq(Letter) : Append(str, "%") \in Seq(Letter)
    /\ \A c \in Letter : <<c>> \in Seq(Letter)
    /\ <<"0x">> \in Seq(Letter) /\ <<"%">> \in Seq(Letter) /\ <<" % (">> \in Seq(Letter)
    /\ <<") ">> \in Seq(Letter) /\ <<",">> \in Seq(Letter) /\ <<>> \in Seq(Letter)
<1>1. ASSUME NEW str \in Seq(Letter), NEW c \in Letter
      PROVE  Append(str, c) \in Seq(Letter) /\ <<c>> \in Seq(Letter)
  OBVIOUS
<1>2. "0x" \in Letter /\ "%" \in Letter /\ " % (" \in Letter /\ ") " \in Letter /\ "," \in Letter
  BY DEF Letter
<1>4. <<>> \in Seq(Letter)
  OBVIOUS
<1>5. ASSUME NEW str \in Seq(Letter) PROVE Append(str, "%") \in Seq(Letter)
  BY <1>1, <1>2
<1>6. ASSUME NEW c \in Letter PROVE <<c>> \in Seq(Letter)
  OBVIOUS
<1>7. <<"0x">> \in Seq(Letter)
  BY <1>2, <1>6
<1>8. <<"%">> \in Seq(Letter)
  BY <1>2, <1>6
<1>9. <<" % (">> \in Seq(Letter)
  BY <1>2, <1>6
<1>10. <<") ">> \in Seq(Letter)
  BY <1>2, <1>6
<1>11. <<",">> \in Seq(Letter)
  BY <1>2, <1>6
<1> QED BY <1>4, <1>5, <1>6, <1>7, <1>8, <1>9, <1>10, <1>11

\* What a placeholder adds to the list, in five parts that are empty or have one formatter.
Pending(st) == IF st.text = <<>> THEN <<>> ELSE Static(st.text)

\* The formatters that init() appends for a placeholder.
Prefix(t) == IF t.conv = "p" THEN Static(<<"0x">>) ELSE <<>>

\* The formatter of its value.
ValueFor(key, st, t) == Value(key[st.used + 1], t.conv \in {"x", "p"})

\* They are formatters.
LEMMA PartsAre ==
    ASSUME NEW key \in Seq(Entry), NEW st \in WalkType, NEW t \in TokenType, IsArg(t), st.used < Len(key)
    PROVE  /\ Pending(st) \in Seq(FormatterType) /\ Prefix(t) \in Seq(FormatterType)
           /\ SpecOf("apply", t) \in Seq(FormatterType) /\ SpecOf("reset", t) \in Seq(FormatterType)
           /\ ValueFor(key, st, t) \in Seq(FormatterType)
           /\ key[st.used + 1] \in Entry
<1>1. st.text \in Seq(Letter) /\ st.used \in Nat
  BY DEF WalkType
<1>2. Pending(st) \in Seq(FormatterType)
  <2>1. Static(st.text) \in Seq(FormatterType) /\ <<>> \in Seq(FormatterType)
    BY <1>1, FormatterIs
  <2> QED BY <2>1 DEF Pending
<1>3. Prefix(t) \in Seq(FormatterType)
  <2>1. PICK o \in Seq(Letter) : o = <<"0x">>
    BY LettersAre
  <2>2. Static(o) \in Seq(FormatterType)
    BY FormatterIs
  <2>3. <<>> \in Seq(FormatterType)
    OBVIOUS
  <2> QED BY <2>1, <2>2, <2>3 DEF Prefix
<1>4. key[st.used + 1] \in Entry
  BY <1>1
<1>5. ValueFor(key, st, t) \in Seq(FormatterType)
  <2>1. key[st.used + 1] \in Entry \cup {WallClock} /\ (t.conv \in {"x", "p"}) \in BOOLEAN
    BY <1>4
  <2> QED BY <2>1, FormatterIs DEF ValueFor
<1>6. SpecOf("apply", t) \in Seq(FormatterType) /\ SpecOf("reset", t) \in Seq(FormatterType)
  BY FormatterIs
<1> QED BY <1>2, <1>3, <1>4, <1>5, <1>6

\* A step of init().
LEMMA InitStepIs ==
    ASSUME NEW key \in Seq(Entry), NEW st \in WalkType, st.used <= Len(key), NEW t \in TokenType
    PROVE  LET new == InitStep(key, st, t)
           IN  /\ new \in WalkType /\ new.used <= Len(key)
               /\ st.stop => new = st
               /\ ~st.stop /\ t.k \in {"char", "lone"} =>
                    /\ new.text = st.text \o Raw(t) /\ new.list = st.list
                    /\ new.used = st.used /\ ~new.stop
               /\ ~st.stop /\ t.k = "percent" =>
                    /\ new.text = <<>> /\ new.list = st.list \o Static(Append(st.text, "%"))
                    /\ new.used = st.used /\ ~new.stop
               /\ ~st.stop /\ IsArg(t) /\ st.used = Len(key) => new.stop /\ new.used = st.used
               /\ ~st.stop /\ IsArg(t) /\ st.used < Len(key) =>
                    /\ new.text = <<>>
                    /\ new.list = ((((st.list \o Pending(st)) \o Prefix(t)) \o SpecOf("apply", t))
                                  \o ValueFor(key, st, t)) \o SpecOf("reset", t)
                    /\ new.used = st.used + 1 /\ ~new.stop
<1> DEFINE new == InitStep(key, st, t)
<1>0. /\ DOMAIN st = {"list", "used", "text", "stop"}
      /\ st.list \in Seq(FormatterType) /\ st.used \in Nat /\ st.text \in Seq(Letter) /\ st.stop \in BOOLEAN
      /\ Len(key) \in Nat
  BY DEF WalkType
<1>1. t.k \in {"char", "percent", "lone", "arg"} /\ Raw(t) \in Seq(Letter)
  BY TokenIs
<1>2. CASE st.stop
  <2>1. new = st
    BY <1>2 DEF InitStep
  <2> QED BY <1>2, <2>1
<1>3. CASE ~st.stop /\ t.k \in {"char", "lone"}
  <2>1. new = [st EXCEPT !.text = @ \o Raw(t)]
    BY <1>3 DEF InitStep, IsArg
  <2>2. st.text \o Raw(t) \in Seq(Letter)
    BY <1>0, <1>1
  <2> DEFINE x == st.text \o Raw(t)
  <2>3. new = [st EXCEPT !.text = x] /\ x \in Seq(Letter)
    BY <2>1, <2>2
  <2> HIDE DEF x, new
  <2>4. new \in WalkType /\ new.text = x /\ new.list = st.list /\ new.used = st.used /\ new.stop = st.stop
    BY <2>3 DEF WalkType
  <2> QED BY <1>3, <2>4 DEF IsArg, new, x
<1>4. CASE ~st.stop /\ t.k = "percent"
  <2>1. new = [st EXCEPT !.list = @ \o Static(Append(st.text, "%")), !.text = <<>>]
    BY <1>4 DEF InitStep, IsArg
  <2>2. Append(st.text, "%") \in Seq(Letter)
    BY <1>0, LettersAre
  <2>3. Static(Append(st.text, "%")) \in Seq(FormatterType)
    BY <2>2, FormatterIs
  <2> DEFINE x == st.list \o Static(Append(st.text, "%"))
  <2>4. x \in Seq(FormatterType) /\ <<>> \in Seq(Letter)
    BY <1>0, <2>3
  <2>5. new = [st EXCEPT !.list = x, !.text = <<>>]
    BY <2>1
  <2> HIDE DEF x, new
  <2>6. new \in WalkType /\ new.text = <<>> /\ new.list = x /\ new.used = st.used /\ new.stop = st.stop
    BY <2>4, <2>5 DEF WalkType
  <2> QED BY <1>4, <2>6 DEF IsArg, new, x
<1>5. CASE ~st.stop /\ IsArg(t) /\ st.used = Len(key)
  <2>1. new = [st EXCEPT !.stop = TRUE]
    BY <1>0, <1>5 DEF InitStep, IsArg
  <2> HIDE DEF new
  <2>2. new \in WalkType /\ new.stop /\ new.used = st.used
    BY <2>1 DEF WalkType
  <2> QED BY <1>5, <2>2, <1>0 DEF IsArg, new
<1>6. CASE ~st.stop /\ IsArg(t) /\ st.used < Len(key)
  <2> DEFINE x == ((((st.list \o Pending(st)) \o Prefix(t)) \o SpecOf("apply", t))
                                  \o ValueFor(key, st, t)) \o SpecOf("reset", t)
  <2>1. new = [st EXCEPT !.used = st.used + 1, !.text = <<>>, !.list = x]
    BY <1>0, <1>6 DEF InitStep, IsArg, Pending, Prefix, ValueFor
  <2>2. x \in Seq(FormatterType)
    <3>1. ASSUME NEW l \in Seq(FormatterType), NEW a \in Seq(FormatterType), NEW b \in Seq(FormatterType),
                 NEW c \in Seq(FormatterType), NEW d \in Seq(FormatterType), NEW e \in Seq(FormatterType)
          PROVE  ((((l \o a) \o b) \o c) \o d) \o e \in Seq(FormatterType)
      OBVIOUS
    <3>2. /\ Pending(st) \in Seq(FormatterType) /\ Prefix(t) \in Seq(FormatterType)
          /\ SpecOf("apply", t) \in Seq(FormatterType) /\ SpecOf("reset", t) \in Seq(FormatterType)
          /\ ValueFor(key, st, t) \in Seq(FormatterType)
      BY <1>6, PartsAre
    <3> QED BY <1>0, <3>1, <3>2
  <2> HIDE DEF x, new
  <2>3. new \in WalkType /\ new.text = <<>> /\ new.list = x /\ new.used = st.used + 1 /\ new.stop = st.stop
    <3>1. <<>> \in Seq(Letter) /\ st.used + 1 \in Nat
      BY <1>0
    <3> QED BY <2>1, <2>2, <3>1 DEF WalkType
  <2>4. new.used <= Len(key)
    BY <1>0, <1>6, <2>3
  <2> QED BY <1>6, <2>3, <2>4 DEF IsArg, new, x
<1>7. IsArg(t) <=> t.k = "arg"
  BY DEF IsArg
<1> QED BY <1>0, <1>1, <1>2, <1>3, <1>4, <1>5, <1>6, <1>7

\* init() after k tokens.
WalkTo(key, start, text, k) == Walk(key, start, First(text, k))

\* init() gives up when the placeholders are more than what the key still has.
LEMMA WalkIs ==
    ASSUME NEW key \in Seq(Entry), NEW text \in Seq(TokenType),
           NEW start \in Started, ~start.stop, start.used <= Len(key)
    PROVE  /\ WalkTo(key, start, text, 0) = start
           /\ \A k \in 0 .. Len(text) :
                 /\ WalkTo(key, start, text, k) \in WalkType /\ WalkTo(key, start, text, k).used <= Len(key)
                 /\ WalkTo(key, start, text, k).stop <=> start.used + Count(text, k) > Len(key)
                 /\ ~WalkTo(key, start, text, k).stop => WalkTo(key, start, text, k).used = start.used + Count(text, k)
           /\ \A k \in 1 .. Len(text) :
                 WalkTo(key, start, text, k) = InitStep(key, WalkTo(key, start, text, k - 1), text[k])
<1> DEFINE W(k) == WalkTo(key, start, text, k)
           Good(k) == /\ W(k) \in WalkType /\ W(k).used <= Len(key)
                      /\ W(k).stop <=> start.used + Count(text, k) > Len(key)
                      /\ ~W(k).stop => W(k).used = start.used + Count(text, k)
           T == {k \in Nat : k <= Len(text) => Good(k)}
<1>1. /\ Len(text) \in Nat /\ Len(key) \in Nat /\ start.used \in Nat
      /\ Count(text, 0) = 0 /\ \A k \in 0 .. Len(text) : Count(text, k) \in Nat
      /\ \A k \in 1 .. Len(text) : Count(text, k) = Count(text, k - 1) + (IF IsArg(text[k]) THEN 1 ELSE 0)
  BY CountIs DEF Started
<1>2. W(0) = start
  <2>1. First(text, 0) = <<>>
    BY FirstOf
  <2>2. \A x \in TokenType : Walk(key, start, <<>>) = start
    <3>1. <<>> \in Seq(TokenType)
      OBVIOUS
    <3> QED BY <3>1, WalkMore
  <2>3. Percent \in TokenType
    BY DEF TokenType
  <2> QED BY <2>1, <2>2, <2>3 DEF WalkTo
<1>3. ASSUME NEW k \in 1 .. Len(text)
      PROVE  W(k) = InitStep(key, W(k - 1), text[k])
  <2>1. k - 1 \in 0 .. Len(text) /\ text[k] \in TokenType
    OBVIOUS
  <2>2. First(text, k - 1) \in Seq(TokenType) /\ First(text, k) = Append(First(text, k - 1), text[k])
    BY <2>1, FirstOf
  <2>3. Walk(key, start, Append(First(text, k - 1), text[k])) = InitStep(key, Walk(key, start, First(text, k - 1)), text[k])
    BY <2>1, <2>2, WalkMore
  <2> QED BY <2>2, <2>3 DEF WalkTo
<1>4. start \in WalkType
  <2>1. WallClock \in Entry \cup {WallClock} /\ FALSE \in BOOLEAN
    OBVIOUS
  <2>2. Value(WallClock, FALSE) \in Seq(FormatterType)
    BY <2>1, FormatterIs
  <2>3. <<>> \in Seq(FormatterType) /\ <<>> \in Seq(Letter)
    OBVIOUS
  <2> QED BY <2>2, <2>3 DEF Started, WalkType
<1>5. Good(0)
  BY <1>1, <1>2, <1>4
<1>6. ASSUME NEW n \in Nat, n + 1 <= Len(text), Good(n)
      PROVE  Good(n + 1)
  <2>1. n + 1 \in 1 .. Len(text) /\ (n + 1) - 1 = n /\ n \in 0 .. Len(text) /\ n + 1 \in 0 .. Len(text)
    BY <1>1, <1>6
  <2>2. W(n + 1) = InitStep(key, W(n), text[n + 1])
    BY <1>3, <2>1
  <2>3. Count(text, n + 1) = Count(text, n) + (IF IsArg(text[n + 1]) THEN 1 ELSE 0)
    BY <1>1, <2>1
  <2>4. Count(text, n + 1) \in Nat /\ Count(text, n) \in Nat
    BY <1>1, <2>1
  <2>5. PICK t \in TokenType : t = text[n + 1]
    BY <2>1
  <2>6. PICK st \in WalkType : st = W(n)
    BY <1>6
  <2>7. PICK new : new = InitStep(key, st, t)
    OBVIOUS
  <2>8. st.used <= Len(key) /\ st.used \in Nat /\ st.stop \in BOOLEAN
    BY <1>6, <2>6 DEF WalkType
  <2>9. /\ new \in WalkType /\ new.used <= Len(key)
        /\ st.stop => new = st
        /\ ~st.stop /\ t.k \in {"char", "lone"} => new.used = st.used /\ ~new.stop
        /\ ~st.stop /\ t.k = "percent" => new.used = st.used /\ ~new.stop
        /\ ~st.stop /\ IsArg(t) /\ st.used = Len(key) => new.stop /\ new.used = st.used
        /\ ~st.stop /\ IsArg(t) /\ st.used < Len(key) => new.used = st.used + 1 /\ ~new.stop
        /\ IsArg(t) <=> t.k = "arg"
        /\ t.k \in {"char", "percent", "lone", "arg"}
    <3>1. /\ InitStep(key, st, t) \in WalkType /\ InitStep(key, st, t).used <= Len(key)
          /\ st.stop => InitStep(key, st, t) = st
          /\ ~st.stop /\ t.k \in {"char", "lone"} =>
                InitStep(key, st, t).used = st.used /\ ~InitStep(key, st, t).stop
          /\ ~st.stop /\ t.k = "percent" =>
                InitStep(key, st, t).used = st.used /\ ~InitStep(key, st, t).stop
          /\ ~st.stop /\ IsArg(t) /\ st.used = Len(key) =>
                InitStep(key, st, t).stop /\ InitStep(key, st, t).used = st.used
          /\ ~st.stop /\ IsArg(t) /\ st.used < Len(key) =>
                InitStep(key, st, t).used = st.used + 1 /\ ~InitStep(key, st, t).stop
      BY <2>8, InitStepIs
    <3>2. (IsArg(t) <=> t.k = "arg") /\ t.k \in {"char", "percent", "lone", "arg"}
      BY TokenIs DEF IsArg
    <3> QED BY <2>7, <3>1, <3>2
  <2>10. W(n + 1) = new
    BY <2>2, <2>5, <2>6, <2>7
  <2>11. /\ st.stop <=> start.used + Count(text, n) > Len(key)
         /\ ~st.stop => st.used = start.used + Count(text, n)
    BY <1>6, <2>6
  <2>13. PICK c \in Nat : c = Count(text, n)
    BY <2>4
  <2>14. Count(text, n + 1) = c + (IF IsArg(t) THEN 1 ELSE 0)
    BY <2>3, <2>5, <2>13
  <2> HIDE DEF W, Good
  <2>12. /\ new.stop <=> start.used + Count(text, n + 1) > Len(key)
         /\ ~new.stop => new.used = start.used + Count(text, n + 1)
    <3>1. CASE st.stop
      BY <1>1, <2>9, <2>11, <2>13, <2>14, <3>1
    <3>2. CASE ~st.stop /\ ~IsArg(t)
      BY <1>1, <2>8, <2>9, <2>11, <2>13, <2>14, <3>2
    <3>3. CASE ~st.stop /\ IsArg(t) /\ st.used = Len(key)
      BY <1>1, <2>8, <2>9, <2>11, <2>13, <2>14, <3>3
    <3>4. CASE ~st.stop /\ IsArg(t) /\ st.used < Len(key)
      <4>1. /\ new.used = st.used + 1 /\ ~new.stop /\ st.used = start.used + c
            /\ Count(text, n + 1) = c + 1
        BY SMTT(30), <2>9, <2>11, <2>13, <2>14, <3>4
      <4> QED BY SMTT(30), <1>1, <2>8, <3>4, <4>1
    <3> QED BY <1>1, <2>8, <3>1, <3>2, <3>3, <3>4
  <2> QED BY <2>9, <2>10, <2>12 DEF Good
<1>7. \A k \in 0 .. Len(text) : Good(k)
  <2> HIDE DEF Good
  <2>1. 0 \in T
    BY <1>5
  <2>2. ASSUME NEW n \in Nat, n \in T PROVE n + 1 \in T
    <3>1. SUFFICES ASSUME n + 1 <= Len(text) PROVE Good(n + 1)
      OBVIOUS
    <3>2. Good(n)
      BY <1>1, <2>2, <3>1
    <3> QED BY <1>6, <3>1, <3>2
  <2> HIDE DEF T
  <2>3. Nat \subseteq T
    BY <2>1, <2>2, Induction
  <2>4. ASSUME NEW k \in 0 .. Len(text) PROVE Good(k)
    <3>1. k \in T /\ k <= Len(text)
      BY <1>1, <2>3
    <3> QED BY <3>1 DEF T
  <2> QED BY <2>4
<1> QED BY <1>2, <1>3, <1>7 DEF Good

(***************************************************************************)
(* format(): one formatter more.                                           *)
(***************************************************************************)

\* What a line consists of, and what format() holds on its way.
ItemType == [of : Seq(Letter), pad : BOOLEAN]
            \cup [bytes : Seq(Cells), hex : BOOLEAN, pad : BOOLEAN, precise : BOOLEAN, flags : BOOLEAN]

\* What format() has done so far: bytes read, std::cout, and what was printed.
PrintType == [n : Nat, os : Stream, items : Seq(ItemType)]

\* A length is a number.
LEMMA LengthOfType ==
    ASSUME NEW e \in Entry \cup {WallClock}, NEW bytes \in Seq(Cells), NEW at \in Nat \ {0}
    PROVE  LengthOf(e, bytes, at) \in Nat /\ e.opt \in Nat /\ (e.type = "w" <=> e = WallClock)
<1>1. \A k \in Nat \ {0} : Peek(bytes, k) \in Nat
  <2> TAKE k \in Nat \ {0}
  <2>0. Len(bytes) \in Nat
    OBVIOUS
  <2>1. CASE k <= Len(bytes) /\ k # 0
    <3>1. k \in 1 .. Len(bytes)
      BY <2>0, <2>1
    <3>2. bytes[k] \in Cells
      BY <3>1
    <3> QED BY <2>1, <3>2 DEF Peek, Cells
  <2>2. CASE k > Len(bytes)
    BY <2>0, <2>2 DEF Peek
  <2> QED BY <2>0, <2>1, <2>2
<1>2. CASE e = WallClock
  BY <1>2 DEF LengthOf, WallClock
<1>3. CASE e \in Entry
  <2>1. e.opt \in Nat /\ e.type # "w" /\ e # WallClock /\ (e.type # "p" => Size[e.type] \in Nat)
    BY <1>3, SizeType DEF WallClock
  <2>2. Peek(bytes, at + e.opt) \in Nat
    BY <1>1, <2>1
  <2> QED BY <2>1, <2>2 DEF LengthOf
<1> QED BY <1>2, <1>3

\* What a specification may set.
SpecType == SUBSET {"width", "precision", "flags"}

\* A formatter is one of these.
LEMMA FormatterKinds ==
    ASSUME NEW f \in FormatterType
    PROVE  \/ f.f = "static" /\ f.of \in Seq(Letter)
           \/ f.f \in {"apply", "reset"} /\ f.spec \in SpecType
           \/ f.f = "value" /\ f.e \in Entry \cup {WallClock} /\ f.hex \in BOOLEAN
BY DEF FormatterType, SpecType

\* The bytes of a value.
LEMMA BytesOf ==
    ASSUME NEW bytes \in Seq(Cells), NEW n \in Nat, NEW len \in Nat
    PROVE  SubSeq(bytes, n + 1, Min({n + len, Len(bytes)})) \in Seq(Cells)
<1>1. Len(bytes) \in Nat /\ n + len \in Nat
  OBVIOUS
<1>2. PICK l \in Nat : l = Len(bytes)
  BY <1>1
<1>3. Min({n + len, l}) = IF n + len <= l THEN n + len ELSE l
  BY <1>1, MinOf
<1>4. PICK m \in 0 .. Len(bytes) : m = Min({n + len, Len(bytes)})
  BY <1>1, <1>2, <1>3
<1>5. SubSeq(bytes, n + 1, m) \in Seq(Cells)
  OBVIOUS
<1> QED BY <1>4, <1>5

\* std::cout after a formatter.
LEMMA Streams ==
    ASSUME NEW os \in Stream, NEW silent \in BOOLEAN, NEW spec \in SpecType
    PROVE  /\ [os EXCEPT !.width = silent /\ @] \in Stream
           /\ [os EXCEPT !.width = silent /\ @].width = (silent /\ os.width)
           /\ [os EXCEPT !.width = silent /\ @].fixed = os.fixed
           /\ [os EXCEPT !.width = silent /\ @].precision = os.precision
           /\ [os EXCEPT !.width = silent /\ @].flags = os.flags
           /\ applyCFormatSpec(spec, os) \in Stream /\ resetCFormatSpec(os) \in Stream
           /\ FreshStream \in Stream
BY DEF Stream, SpecType, applyCFormatSpec, resetCFormatSpec, FreshStream

\* Output that formats uses a width up, unless nothing is put out.
UsedUp(os, silent) == [os EXCEPT !.width = silent /\ @]

\* What is left of a stream that output was formatted by.
LEMMA Used ==
    ASSUME NEW os \in Stream, NEW silent \in BOOLEAN
    PROVE  /\ UsedUp(os, silent) \in Stream
           /\ UsedUp(os, silent).width = (silent /\ os.width)
           /\ UsedUp(os, silent).fixed = os.fixed
           /\ UsedUp(os, silent).precision = os.precision
           /\ UsedUp(os, silent).flags = os.flags
<1>1. {} \in SpecType
  BY DEF SpecType
<1>2. UsedUp(os, silent) = [os EXCEPT !.width = silent /\ @]
  BY DEF UsedUp
<1> QED BY <1>1, <1>2, Streams

\* formatString writes the characters of a string unformatted.
Formats(e, bytes, n) == e.type # "p" \/ (e.opt = 1 /\ Peek(bytes, n + 1) = 0)

\* The item of a value.
ItemOf(f, bytes, st) ==
    [bytes |-> SubSeq(bytes, st.n + 1, Min({st.n + LengthOf(f.e, bytes, st.n + 1), Len(bytes)})),
     hex |-> f.hex /\ f.e.type \in {"u", "s", "i", "q"},
     pad |-> st.os.width /\ Formats(f.e, bytes, st.n),
     precise |-> st.os.fixed /\ st.os.precision /\ f.e.type \in {"f", "d"},
     flags |-> st.os.flags]

\* A formatter at work.
LEMMA FormatStepIs ==
    ASSUME NEW bytes \in Seq(Cells), NEW silent \in BOOLEAN, NEW st \in PrintType, NEW f \in FormatterType
    PROVE  LET new == FormatStep(bytes, silent, st, f)
           IN  /\ new \in PrintType
               /\ new.n = LengthStep(bytes, st.n, f)
               /\ f.f = "static" => /\ new.n = st.n /\ new.os = UsedUp(st.os, silent)
                                    /\ new.items = Append(st.items, [of |-> f.of, pad |-> st.os.width])
               /\ f.f = "apply" => new.n = st.n /\ new.os = applyCFormatSpec(f.spec, st.os) /\ new.items = st.items
               /\ f.f = "reset" => new.n = st.n /\ new.os = resetCFormatSpec(st.os) /\ new.items = st.items
               /\ f.f = "value" /\ f.e.type = "w" => new.n = st.n + 16 /\ new.os = st.os /\ new.items = st.items
               /\ f.f = "value" /\ f.e.type # "w" =>
                     /\ new.n = st.n + LengthOf(f.e, bytes, st.n + 1)
                     /\ new.os = (IF Formats(f.e, bytes, st.n) THEN UsedUp(st.os, silent) ELSE st.os)
                     /\ new.items = Append(st.items, ItemOf(f, bytes, st)) /\ ItemOf(f, bytes, st) \in ItemType
<1> DEFINE new == FormatStep(bytes, silent, st, f)
           used == UsedUp(st.os, silent)
           len == LengthOf(f.e, bytes, st.n + 1)
           formats == Formats(f.e, bytes, st.n)
<1>1. /\ DOMAIN st = {"n", "os", "items"}
      /\ st.n \in Nat /\ st.os \in Stream /\ st.items \in Seq(ItemType)
      /\ st.os.width \in BOOLEAN /\ st.os.fixed \in BOOLEAN /\ st.os.precision \in BOOLEAN /\ st.os.flags \in BOOLEAN
  BY DEF PrintType, Stream
<1>2. used \in Stream
  <2>1. {} \in SpecType
    BY DEF SpecType
  <2> QED BY <1>1, <2>1, Streams DEF UsedUp
<1>3. CASE f.f = "static" /\ f.of \in Seq(Letter)
  <2> DEFINE x == [of |-> f.of, pad |-> st.os.width]
             items == Append(st.items, x)
  <2>1. new = [st EXCEPT !.os = used, !.items = items]
    BY <1>3 DEF FormatStep, UsedUp
  <2>2. x \in ItemType
    BY <1>1, <1>3 DEF ItemType
  <2>3. items \in Seq(ItemType)
    BY <1>1, <2>2
  <2> HIDE DEF items, used, new
  <2>4. new \in PrintType /\ new.n = st.n /\ new.os = used /\ new.items = items
    BY <1>1, <1>2, <2>1, <2>3 DEF PrintType
  <2>5. LengthStep(bytes, st.n, f) = st.n
    BY <1>3 DEF LengthStep
  <2> QED BY <1>3, <2>4, <2>5 DEF items, used, new
<1>4. CASE f.f = "apply" /\ f.spec \in SpecType
  <2> DEFINE os == applyCFormatSpec(f.spec, st.os)
  <2>1. new = [st EXCEPT !.os = os]
    BY <1>4 DEF FormatStep
  <2>2. os \in Stream
    <3>1. PICK sp \in SpecType : sp = f.spec
      BY <1>4
    <3> QED BY <1>1, <3>1, Streams
  <2> HIDE DEF os, new
  <2>3. new \in PrintType /\ new.n = st.n /\ new.os = os /\ new.items = st.items
    BY <1>1, <2>1, <2>2 DEF PrintType
  <2>4. LengthStep(bytes, st.n, f) = st.n
    BY <1>4 DEF LengthStep
  <2> QED BY <1>4, <2>3, <2>4 DEF os, new
<1>5. CASE f.f = "reset"
  <2> DEFINE os == resetCFormatSpec(st.os)
  <2>1. new = [st EXCEPT !.os = os]
    BY <1>5 DEF FormatStep
  <2>2. os \in Stream
    BY <1>1 DEF resetCFormatSpec, Stream
  <2> HIDE DEF os, new
  <2>3. new \in PrintType /\ new.n = st.n /\ new.os = os /\ new.items = st.items
    BY <1>1, <2>1, <2>2 DEF PrintType
  <2>4. LengthStep(bytes, st.n, f) = st.n
    BY <1>5 DEF LengthStep
  <2> QED BY <1>5, <2>3, <2>4 DEF os, new
<1>6. CASE f.f = "value" /\ f.e \in Entry \cup {WallClock} /\ f.e.type = "w"
  <2>1. LengthOf(f.e, bytes, st.n + 1) = 16
    BY <1>6 DEF LengthOf
  <2>2. new = [st EXCEPT !.n = @ + LengthOf(f.e, bytes, st.n + 1)]
    BY <1>6 DEF FormatStep
  <2>3. new = [st EXCEPT !.n = st.n + 16]
    BY <2>1, <2>2
  <2> HIDE DEF new
  <2>4. new \in PrintType /\ new.n = st.n + 16 /\ new.os = st.os /\ new.items = st.items
    <3>1. st.n + 16 \in Nat
      BY <1>1
    <3> QED BY <1>1, <2>3, <3>1 DEF PrintType
  <2>5. LengthStep(bytes, st.n, f) = st.n + 16
    BY <1>6, <2>1 DEF LengthStep
  <2> QED BY <1>6, <2>4, <2>5 DEF new
<1>7. CASE f.f = "value" /\ f.e \in Entry \cup {WallClock} /\ f.hex \in BOOLEAN /\ f.e.type # "w"
  <2> DEFINE cut == SubSeq(bytes, st.n + 1, Min({st.n + len, Len(bytes)}))
             x == ItemOf(f, bytes, st)
             items == Append(st.items, x)
             os == IF formats THEN used ELSE st.os
  <2>1. new = [n |-> st.n + len, os |-> os, items |-> items]
    BY <1>7 DEF FormatStep, ItemOf, Formats, UsedUp
  <2>2. len \in Nat
    <3>1. st.n + 1 \in Nat \ {0}
      BY <1>1
    <3> QED BY <1>7, <3>1, LengthOfType
  <2>3. cut \in Seq(Cells)
    <3> HIDE DEF len
    <3> QED BY <1>1, <2>2, BytesOf
  <2>4. x \in ItemType
    <3>1. x = [bytes |-> cut, hex |-> f.hex /\ f.e.type \in {"u", "s", "i", "q"},
               pad |-> st.os.width /\ formats,
               precise |-> st.os.fixed /\ st.os.precision /\ f.e.type \in {"f", "d"},
               flags |-> st.os.flags]
      BY DEF ItemOf
    <3>2. /\ (f.hex /\ f.e.type \in {"u", "s", "i", "q"}) \in BOOLEAN
          /\ (st.os.width /\ formats) \in BOOLEAN
          /\ (st.os.fixed /\ st.os.precision /\ f.e.type \in {"f", "d"}) \in BOOLEAN
      BY DEF Formats
    <3> HIDE DEF cut, formats
    <3> QED BY <1>1, <2>3, <3>1, <3>2 DEF ItemType
  <2>5. items \in Seq(ItemType)
    <3> HIDE DEF x
    <3> QED BY <1>1, <2>4
  <2>6. os \in Stream
    BY <1>1, <1>2
  <2>7. LengthStep(bytes, st.n, f) = st.n + len
    BY <1>7 DEF LengthStep
  <2>8. st.n + len \in Nat
    BY <1>1, <2>2
  <2> HIDE DEF items, os, len, new
  <2>9. new \in PrintType /\ new.n = st.n + len /\ new.os = os /\ new.items = items
    BY <2>1, <2>5, <2>6, <2>8 DEF PrintType
  <2>10. new.n = LengthStep(bytes, st.n, f)
    BY <2>7, <2>9
  <2>11. f.f # "static" /\ f.f # "apply" /\ f.f # "reset" /\ f.e.type # "w"
    BY <1>7
  <2> QED BY <2>4, <2>9, <2>10, <2>11 DEF items, os, new, len
<1> QED BY <1>3, <1>4, <1>5, <1>6, <1>7, FormatterKinds

\* Two sequences in one.
LEMMA Joined ==
    ASSUME NEW S, NEW x \in Seq(S), NEW y \in Seq(S), NEW z \in Seq(S), Len(z) = Len(x) + Len(y),
           \A k \in 1 .. Len(x) : z[k] = x[k],
           \A k \in 1 .. Len(y) : z[Len(x) + k] = y[k]
    PROVE  z = x \o y
<1>1. /\ x \o y \in Seq(S) /\ Len(x \o y) = Len(x) + Len(y)
      /\ \A i \in 1 .. Len(x) + Len(y) : (x \o y)[i] = IF i <= Len(x) THEN x[i] ELSE y[i - Len(x)]
  BY ConcatProperties
<1>2. ASSUME NEW i \in 1 .. Len(z) PROVE z[i] = (x \o y)[i]
  <2>1. i \in 1 .. Len(x) + Len(y) /\ Len(x) \in Nat /\ Len(y) \in Nat
    OBVIOUS
  <2>2. (x \o y)[i] = IF i <= Len(x) THEN x[i] ELSE y[i - Len(x)]
    BY <1>1, <2>1
  <2>3. CASE i <= Len(x)
    <3>1. i \in 1 .. Len(x)
      BY <2>1, <2>3
    <3> QED BY <2>2, <2>3, <3>1
  <2>4. CASE ~(i <= Len(x))
    <3>1. i - Len(x) \in 1 .. Len(y) /\ Len(x) + (i - Len(x)) = i
      BY <2>1, <2>4
    <3>2. z[Len(x) + (i - Len(x))] = y[i - Len(x)]
      BY <3>1
    <3> QED BY <2>2, <2>4, <3>1, <3>2
  <2> QED BY <2>3, <2>4
<1>3. Len(z) = Len(x \o y)
  BY <1>1
<1> QED BY <1>1, <1>2, <1>3, SeqEqual

\* A stream that was left as it started is so still.
LEMMA FreshUsed ==
    ASSUME NEW silent \in BOOLEAN
    PROVE  UsedUp(FreshStream, silent) = FreshStream
<1>1. (silent /\ FreshStream.width) = FALSE
  BY DEF FreshStream
<1>2. UsedUp(FreshStream, silent) = [FreshStream EXCEPT !.width = FALSE]
  BY <1>1 DEF UsedUp
<1> QED BY <1>2 DEF FreshStream

\* format() and length() with one formatter more, and the parts of FormatStepIs.
LEMMA FormatNext ==
    ASSUME NEW list \in Seq(FormatterType), NEW f \in FormatterType, NEW bytes \in Seq(Cells),
           NEW silent \in BOOLEAN, NEW os \in Stream
    PROVE  /\ Format(<<>>, bytes, silent, os) = [n |-> 0, os |-> os, items |-> <<>>]
           /\ Format(Append(list, f), bytes, silent, os) = FormatStep(bytes, silent, Format(list, bytes, silent, os), f)
BY FormatMore

\* length() with one formatter more.
LEMMA LengthNext ==
    ASSUME NEW list \in Seq(FormatterType), NEW f \in FormatterType, NEW bytes \in Seq(Cells)
    PROVE  /\ Length(<<>>, bytes) = 0
           /\ Length(Append(list, f), bytes) = LengthStep(bytes, Length(list, bytes), f)
BY LengthMore

\* A formatter keeps the types.
LEMMA FormatStepType ==
    ASSUME NEW bytes \in Seq(Cells), NEW silent \in BOOLEAN, NEW st \in PrintType, NEW f \in FormatterType
    PROVE  /\ FormatStep(bytes, silent, st, f) \in PrintType
           /\ FormatStep(bytes, silent, st, f).n = LengthStep(bytes, st.n, f)
BY FormatStepIs

\* A formatter of letters prints them, and a width is used up.
LEMMA FormatStatic ==
    ASSUME NEW bytes \in Seq(Cells), NEW silent \in BOOLEAN, NEW st \in PrintType, NEW f \in FormatterType,
           f.f = "static"
    PROVE  /\ FormatStep(bytes, silent, st, f).n = st.n
           /\ FormatStep(bytes, silent, st, f).os = UsedUp(st.os, silent)
           /\ FormatStep(bytes, silent, st, f).items = Append(st.items, [of |-> f.of, pad |-> st.os.width])
BY FormatStepIs

\* A formatter that applies or resets a specification prints nothing.
LEMMA FormatSpec ==
    ASSUME NEW bytes \in Seq(Cells), NEW silent \in BOOLEAN, NEW st \in PrintType, NEW f \in FormatterType,
           f.f \in {"apply", "reset"}
    PROVE  /\ FormatStep(bytes, silent, st, f).n = st.n
           /\ FormatStep(bytes, silent, st, f).items = st.items
           /\ FormatStep(bytes, silent, st, f).os = IF f.f = "apply" THEN applyCFormatSpec(f.spec, st.os)
                                                   ELSE resetCFormatSpec(st.os)
<1>1. CASE f.f = "apply"
  BY <1>1, FormatStepIs
<1>2. CASE f.f = "reset"
  BY <1>2, FormatStepIs
<1> QED BY <1>1, <1>2

\* The internal type of a wall clock prints nothing.
LEMMA FormatClock ==
    ASSUME NEW bytes \in Seq(Cells), NEW silent \in BOOLEAN, NEW st \in PrintType, NEW f \in FormatterType,
           f.f = "value", f.e.type = "w"
    PROVE  /\ FormatStep(bytes, silent, st, f).n = st.n + 16
           /\ FormatStep(bytes, silent, st, f).os = st.os
           /\ FormatStep(bytes, silent, st, f).items = st.items
BY FormatStepIs

\* A formatter of a value prints it.
LEMMA FormatValue ==
    ASSUME NEW bytes \in Seq(Cells), NEW silent \in BOOLEAN, NEW st \in PrintType, NEW f \in FormatterType,
           f.f = "value", f.e.type # "w"
    PROVE  /\ FormatStep(bytes, silent, st, f).n = st.n + LengthOf(f.e, bytes, st.n + 1)
           /\ FormatStep(bytes, silent, st, f).os = (IF Formats(f.e, bytes, st.n) THEN UsedUp(st.os, silent) ELSE st.os)
           /\ FormatStep(bytes, silent, st, f).items = Append(st.items, ItemOf(f, bytes, st))
           /\ ItemOf(f, bytes, st) \in ItemType
BY FormatStepIs

\* length() counts what format() reads.
LEMMA FormatIs ==
    ASSUME NEW list \in Seq(FormatterType), NEW bytes \in Seq(Cells), NEW silent \in BOOLEAN, NEW os \in Stream
    PROVE  /\ Format(list, bytes, silent, os) \in PrintType
           /\ Length(list, bytes) = Format(list, bytes, silent, os).n
<1> DEFINE F(k) == Format(First(list, k), bytes, silent, os)
           L(k) == Length(First(list, k), bytes)
           Good(k) == F(k) \in PrintType /\ L(k) = F(k).n
           T == {k \in Nat : k <= Len(list) => Good(k)}
<1>1. First(list, 0) = <<>> /\ First(list, Len(list)) = list /\ Len(list) \in Nat
  BY FirstOf
<1>2. /\ Format(<<>>, bytes, silent, os) = [n |-> 0, os |-> os, items |-> <<>>]
      /\ Length(<<>>, bytes) = 0
  <2>1. PICK x \in FormatterType : x = [f |-> "reset", spec |-> {}]
    BY DEF FormatterType
  <2>2. <<>> \in Seq(FormatterType)
    OBVIOUS
  <2> QED BY <2>1, <2>2, FormatNext, LengthNext
<1>3. Good(0)
  <2>1. <<>> \in Seq(ItemType) /\ 0 \in Nat
    OBVIOUS
  <2>2. [n |-> 0, os |-> os, items |-> <<>>] \in PrintType
    BY <2>1 DEF PrintType
  <2> QED BY <1>1, <1>2, <2>2
<1>4. ASSUME NEW n \in Nat, n + 1 <= Len(list), Good(n)
      PROVE  Good(n + 1)
  <2>1. n + 1 \in 1 .. Len(list) /\ (n + 1) - 1 = n /\ n \in 0 .. Len(list) /\ list[n + 1] \in FormatterType
    BY <1>1, <1>4
  <2>2. First(list, n) \in Seq(FormatterType) /\ First(list, n + 1) = Append(First(list, n), list[n + 1])
    BY <2>1, FirstOf
  <2>3. /\ F(n + 1) = FormatStep(bytes, silent, F(n), list[n + 1])
        /\ L(n + 1) = LengthStep(bytes, L(n), list[n + 1])
    <3>0. PICK l \in Seq(FormatterType), g \in FormatterType : l = First(list, n) /\ g = list[n + 1]
      BY <2>1, <2>2
    <3>1. F(n + 1) = FormatStep(bytes, silent, F(n), list[n + 1])
      <4>1. Format(Append(l, g), bytes, silent, os) = FormatStep(bytes, silent, Format(l, bytes, silent, os), g)
        BY FormatNext
      <4> QED BY <2>2, <3>0, <4>1
    <3>2. L(n + 1) = LengthStep(bytes, L(n), list[n + 1])
      <4>1. Length(Append(l, g), bytes) = LengthStep(bytes, Length(l, bytes), g)
        BY LengthNext
      <4> QED BY <2>2, <3>0, <4>1
    <3> QED BY <3>1, <3>2
  <2>4. PICK f \in FormatterType : f = list[n + 1]
    BY <2>1
  <2>5. PICK st \in PrintType : st = F(n)
    BY <1>4
  <2>6. FormatStep(bytes, silent, st, f) \in PrintType /\ FormatStep(bytes, silent, st, f).n = LengthStep(bytes, st.n, f)
    BY FormatStepType
  <2> QED BY <1>4, <2>3, <2>4, <2>5, <2>6
<1>5. Good(Len(list))
  <2> HIDE DEF Good
  <2>1. 0 \in T
    BY <1>3
  <2>2. ASSUME NEW n \in Nat, n \in T PROVE n + 1 \in T
    <3>1. SUFFICES ASSUME n + 1 <= Len(list) PROVE Good(n + 1)
      OBVIOUS
    <3>2. Good(n)
      BY <1>1, <2>2, <3>1
    <3> QED BY <1>4, <3>1, <3>2
  <2> HIDE DEF T
  <2>3. Len(list) \in T /\ Len(list) <= Len(list)
    BY <1>1, <2>1, <2>2, Induction
  <2> QED BY <2>3 DEF T
<1> QED BY <1>1, <1>5

\* format() goes on with one formatter more, if there is one.
LEMMA FormatOn ==
    ASSUME NEW list \in Seq(FormatterType), NEW bytes \in Seq(Cells), NEW silent \in BOOLEAN, NEW os \in Stream
    PROVE  /\ Format(<<>>, bytes, silent, os) = [n |-> 0, os |-> os, items |-> <<>>]
           /\ Format(list \o <<>>, bytes, silent, os) = Format(list, bytes, silent, os)
           /\ \A f \in FormatterType :
                 /\ list \o <<f>> \in Seq(FormatterType)
                 /\ Format(list \o <<f>>, bytes, silent, os)
                       = FormatStep(bytes, silent, Format(list, bytes, silent, os), f)
<1>1. Format(<<>>, bytes, silent, os) = [n |-> 0, os |-> os, items |-> <<>>]
  <2>1. PICK x \in FormatterType : x = [f |-> "reset", spec |-> {}]
    BY DEF FormatterType
  <2>2. <<>> \in Seq(FormatterType)
    OBVIOUS
  <2> QED BY <2>1, <2>2, FormatNext
<1>2. list \o <<>> = list
  OBVIOUS
<1>3. ASSUME NEW f \in FormatterType
      PROVE  /\ list \o <<f>> \in Seq(FormatterType)
             /\ Format(list \o <<f>>, bytes, silent, os) = FormatStep(bytes, silent, Format(list, bytes, silent, os), f)
  <2>1. list \o <<f>> = Append(list, f) /\ list \o <<f>> \in Seq(FormatterType)
    OBVIOUS
  <2>2. Format(Append(list, f), bytes, silent, os) = FormatStep(bytes, silent, Format(list, bytes, silent, os), f)
    BY FormatNext
  <2> QED BY <2>1, <2>2
<1> QED BY <1>1, <1>2, <1>3

\* What a line shows, without its layout.
OutType == [c : Letter] \cup [bytes : Seq(Cells), hex : BOOLEAN]

\* An item without its layout.
BareOf(item) == IF IsValue(item) THEN <<[bytes |-> item.bytes, hex |-> item.hex]>> ELSE Letters(item.of)

\* How many of the first k items are values.
Values(items, k) == Cardinality({j \in 1 .. k : IsValue(items[j])})

\* Letters are joined as their characters are.
LEMMA LettersMore ==
    ASSUME NEW a \in Seq(Letter), NEW b \in Seq(Letter)
    PROVE  /\ Letters(a) \in Seq(OutType)
           /\ Letters(a \o b) = Letters(a) \o Letters(b)
           /\ Letters(<<>>) = <<>>
<1>1. ASSUME NEW str \in Seq(Letter)
      PROVE  Letters(str) \in Seq(OutType) /\ Len(Letters(str)) = Len(str) /\ \A k \in 1 .. Len(str) : Letters(str)[k] = [c |-> str[k]]
  <2>1. \A k \in 1 .. Len(str) : [c |-> str[k]] \in OutType
    <3> TAKE k \in 1 .. Len(str)
    <3>1. str[k] \in Letter
      OBVIOUS
    <3> QED BY <3>1 DEF OutType
  <2>2. Letters(str) = [k \in 1 .. Len(str) |-> [c |-> str[k]]]
    BY DEF Letters
  <2> QED BY <2>1, <2>2
<1>2. Letters(a \o b) = Letters(a) \o Letters(b)
  <2>1. a \o b \in Seq(Letter) /\ Len(a \o b) = Len(a) + Len(b)
    OBVIOUS
  <2>2. /\ Letters(a) \in Seq(OutType) /\ Letters(b) \in Seq(OutType) /\ Letters(a \o b) \in Seq(OutType)
        /\ Len(Letters(a)) = Len(a) /\ Len(Letters(b)) = Len(b) /\ Len(Letters(a \o b)) = Len(a) + Len(b)
    BY <1>1, <2>1
  <2>3. \A k \in 1 .. Len(a) : Letters(a \o b)[k] = Letters(a)[k]
    <3> TAKE k \in 1 .. Len(a)
    <3>1. k \in 1 .. Len(a \o b) /\ (a \o b)[k] = a[k]
      BY <2>1
    <3>2. PICK l \in Seq(Letter) : l = a \o b
      BY <2>1
    <3>3. Letters(l)[k] = [c |-> l[k]] /\ Letters(a)[k] = [c |-> a[k]]
      BY <1>1, <3>1, <3>2
    <3> QED BY <3>1, <3>2, <3>3
  <2>4. \A k \in 1 .. Len(b) : Letters(a \o b)[Len(a) + k] = Letters(b)[k]
    <3> TAKE k \in 1 .. Len(b)
    <3>1. Len(a) + k \in 1 .. Len(a \o b) /\ (a \o b)[Len(a) + k] = b[k]
      BY <2>1
    <3>2. PICK l \in Seq(Letter), j \in 1 .. Len(a \o b) : l = a \o b /\ j = Len(a) + k
      BY <2>1, <3>1
    <3>3. Letters(l)[j] = [c |-> l[j]]
      BY <1>1, <3>2
    <3>4. Letters(b)[k] = [c |-> b[k]]
      BY <1>1
    <3> QED BY <3>1, <3>2, <3>3, <3>4
  <2>5. PICK x \in Seq(OutType), y \in Seq(OutType), z \in Seq(OutType) :
           x = Letters(a) /\ y = Letters(b) /\ z = Letters(a \o b)
    BY <2>2
  <2>6. /\ Len(z) = Len(x) + Len(y)
        /\ \A k \in 1 .. Len(x) : z[k] = x[k]
        /\ \A k \in 1 .. Len(y) : z[Len(x) + k] = y[k]
    BY <2>2, <2>3, <2>4, <2>5
  <2>7. z = x \o y
    BY <2>6, Joined
  <2> QED BY <2>5, <2>7
<1>3. Letters(<<>>) = <<>>
  BY DEF Letters
<1> QED BY <1>1, <1>2, <1>3

\* An item is letters or a value.
LEMMA ItemIs ==
    ASSUME NEW x \in ItemType
    PROVE  /\ BareOf(x) \in Seq(OutType)
           /\ x \in [of : Seq(Letter), pad : BOOLEAN] => ~IsValue(x)
           /\ x \notin [of : Seq(Letter), pad : BOOLEAN] => IsValue(x)
<1>1. CASE x \in [of : Seq(Letter), pad : BOOLEAN]
  <2>1. ~IsValue(x) /\ x.of \in Seq(Letter)
    <3>1. DOMAIN x = {"of", "pad"} /\ x.of \in Seq(Letter)
      BY <1>1
    <3> QED BY <3>1 DEF IsValue
  <2> QED BY <1>1, <2>1, LettersMore DEF BareOf
<1>2. CASE x \in [bytes : Seq(Cells), hex : BOOLEAN, pad : BOOLEAN, precise : BOOLEAN, flags : BOOLEAN]
  <2>1. DOMAIN x = {"bytes", "hex", "pad", "precise", "flags"} /\ x.bytes \in Seq(Cells) /\ x.hex \in BOOLEAN
    BY <1>2
  <2>2. IsValue(x)
    BY <2>1 DEF IsValue
  <2>3. x \notin [of : Seq(Letter), pad : BOOLEAN]
    BY <2>1
  <2>4. [bytes |-> x.bytes, hex |-> x.hex] \in OutType
    BY <2>1 DEF OutType
  <2> QED BY <2>2, <2>3, <2>4 DEF BareOf
<1> QED BY <1>1, <1>2 DEF ItemType

\* A line with one item more, without its layout.
LEMMA BareMore ==
    ASSUME NEW items \in Seq(ItemType), NEW x \in ItemType
    PROVE  /\ Bare(<<>>) = <<>> /\ Bare(items) \in Seq(OutType)
           /\ Bare(Append(items, x)) = Bare(items) \o BareOf(x)
<1> DEFINE B(its) == [k \in DOMAIN its |-> BareOf(its[k])]
<1>1. ASSUME NEW its \in Seq(ItemType)
      PROVE  Bare(its) = FlattenSeq(B(its)) /\ B(its) \in Seq(Seq(OutType)) /\ Len(B(its)) = Len(its)
  <2>1. Bare(its) = FlattenSeq(B(its))
    BY DEF Bare, BareOf
  <2>2. \A k \in 1 .. Len(its) : BareOf(its[k]) \in Seq(OutType)
    <3> TAKE k \in 1 .. Len(its)
    <3>1. its[k] \in ItemType
      OBVIOUS
    <3> QED BY <3>1, ItemIs
  <2>3. B(its) = [k \in 1 .. Len(its) |-> BareOf(its[k])]
    OBVIOUS
  <2> QED BY <2>1, <2>2, <2>3
<1>2. Append(items, x) \in Seq(ItemType) /\ <<>> \in Seq(ItemType) /\ BareOf(x) \in Seq(OutType)
  BY ItemIs
<1>3. B(Append(items, x)) = Append(B(items), BareOf(x))
  <2> DEFINE a == Append(items, x)
  <2>1. B(a) \in Seq(Seq(OutType)) /\ Len(B(a)) = Len(items) + 1 /\ B(items) \in Seq(Seq(OutType)) /\ Len(B(items)) = Len(items)
    BY <1>1, <1>2
  <2>2. \A k \in 1 .. Len(items) : B(a)[k] = B(items)[k]
    OBVIOUS
  <2>3. B(a)[Len(items) + 1] = BareOf(x)
    OBVIOUS
  <2>4. Append(B(items), BareOf(x)) \in Seq(Seq(OutType)) /\ Len(Append(B(items), BareOf(x))) = Len(items) + 1
        /\ \A k \in 1 .. Len(items) : Append(B(items), BareOf(x))[k] = B(items)[k]
        /\ Append(B(items), BareOf(x))[Len(items) + 1] = BareOf(x)
    <3> HIDE DEF B
    <3> QED BY <1>2, <2>1
  <2> HIDE DEF B
  <2> QED BY <2>1, <2>2, <2>3, <2>4
<1>4. B(<<>>) = <<>>
  OBVIOUS
<1>5. /\ Bare(items) = FlattenSeq(B(items)) /\ B(items) \in Seq(Seq(OutType))
      /\ Bare(Append(items, x)) = FlattenSeq(B(Append(items, x)))
      /\ Bare(<<>>) = FlattenSeq(B(<<>>))
  BY <1>1, <1>2
<1> HIDE DEF B
<1>6. /\ FlattenSeq(<<>>) = <<>>
      /\ FlattenSeq(B(items)) \in Seq(OutType)
      /\ FlattenSeq(Append(B(items), BareOf(x))) = FlattenSeq(B(items)) \o BareOf(x)
  BY <1>2, <1>5, FlattenMore
<1> QED BY <1>3, <1>4, <1>5, <1>6

\* A line with one item more, and its values.
LEMMA ValuesMore ==
    ASSUME NEW items \in Seq(ItemType), NEW x \in ItemType
    PROVE  /\ Values(<<>>, 0) = 0
           /\ \A k \in 0 .. Len(items) : /\ Values(items, k) \in Nat
                                         /\ Values(Append(items, x), k) = Values(items, k)
           /\ Values(Append(items, x), Len(items) + 1) =
                 Values(items, Len(items)) + (IF IsValue(x) THEN 1 ELSE 0)
<1> DEFINE A(its, k) == {j \in 1 .. k : IsValue(its[j])}
           b == Append(items, x)
<1>1. \A k \in Nat : IsFiniteSet(A(items, k)) /\ Cardinality(A(items, k)) \in Nat
  <2> TAKE k \in Nat
  <2>1. IsFiniteSet(1 .. k)
    BY FS_Interval
  <2>2. IsFiniteSet(A(items, k))
    BY <2>1, FS_Subset
  <2> QED BY <2>2, FS_CardinalityType
<1>2. Values(<<>>, 0) = 0
  <2>1. A(<<>>, 0) = {}
    OBVIOUS
  <2> QED BY <2>1, FS_EmptySet DEF Values
<1>3. \A k \in 0 .. Len(items) : A(b, k) = A(items, k)
  OBVIOUS
<1>4. Len(items) \in Nat /\ Len(items) \in 0 .. Len(items) /\ b[Len(items) + 1] = x
  OBVIOUS
<1>5. A(b, Len(items) + 1) = A(b, Len(items)) \cup (IF IsValue(x) THEN {Len(items) + 1} ELSE {})
      /\ Len(items) + 1 \notin A(items, Len(items))
  BY <1>4
<1>6. A(b, Len(items)) = A(items, Len(items))
  BY <1>3, <1>4
<1>7. \A k \in 0 .. Len(items) : Values(items, k) \in Nat /\ Values(b, k) = Values(items, k)
  <2> TAKE k \in 0 .. Len(items)
  <2>1. k \in Nat
    OBVIOUS
  <2> QED BY <1>1, <1>3, <2>1 DEF Values
<1>8. Values(b, Len(items) + 1) = Cardinality(A(b, Len(items) + 1)) /\ Values(items, Len(items)) = Cardinality(A(items, Len(items)))
  BY DEF Values
<1> HIDE DEF A, b
<1>9. Cardinality(A(b, Len(items) + 1)) = Cardinality(A(items, Len(items))) + (IF IsValue(x) THEN 1 ELSE 0)
  <2>1. CASE IsValue(x)
    <3>1. Cardinality(A(items, Len(items)) \cup {Len(items) + 1}) = Cardinality(A(items, Len(items))) + 1
      BY <1>1, <1>4, <1>5, FS_AddElement
    <3> QED BY <1>5, <1>6, <2>1, <3>1
  <2>2. CASE ~IsValue(x)
    <3>1. A(b, Len(items) + 1) = A(items, Len(items))
      BY <1>5, <1>6, <2>2
    <3>2. Cardinality(A(items, Len(items))) \in Nat
      BY <1>1, <1>4
    <3> QED BY <2>2, <3>1, <3>2
  <2> QED BY <2>1, <2>2
<1> QED BY <1>2, <1>7, <1>8, <1>9 DEF b

(***************************************************************************)
(* The formats of a text, and where they are seen.                         *)
(***************************************************************************)

\* The formats of a text do not reach beyond their values: no precision, and no
\* width where there are strings or nothing is put out.
StaysIn(text, key, silent) ==
    \A k \in DOMAIN text : IsArg(text[k]) =>
        /\ "precision" \notin text[k].spec
        /\ "width" \in text[k].spec => ~silent /\ \A i \in DOMAIN key : key[i].type # "p"

\* Item x shows the format of its placeholder, one of the first k tokens, and of no other.
ShowsFormat(text, k, items, x) ==
    IF IsValue(items[x])
    THEN \E j \in 1 .. k : /\ IsArg(text[j]) /\ Count(text, j) = Values(items, x)
                           /\ items[x].pad = ("width" \in text[j].spec)
                           /\ items[x].flags = ("flags" \in text[j].spec)
                           /\ ~items[x].precise
    ELSE ~items[x].pad

\* All items do.
ShowFormats(text, k, items) == \A x \in DOMAIN items : ShowsFormat(text, k, items, x)

\* One more item that does.
LEMMA FormatsMore ==
    ASSUME NEW text \in Seq(TokenType), NEW k \in 0 .. Len(text), NEW items \in Seq(ItemType), NEW x \in ItemType,
           ShowFormats(text, k, items)
    PROVE  /\ ~IsValue(x) /\ ~x.pad => ShowFormats(text, k, Append(items, x))
           /\ k > 0 /\ IsValue(x) /\ IsArg(text[k]) /\ Count(text, k) = Values(items, Len(items)) + 1
                /\ x.pad = ("width" \in text[k].spec) /\ x.flags = ("flags" \in text[k].spec) /\ ~x.precise
              => ShowFormats(text, k, Append(items, x))
<1> DEFINE b == Append(items, x)
<1>1. Len(items) \in Nat /\ b[Len(items) + 1] = x /\ DOMAIN b = 1 .. Len(items) + 1
      /\ \A y \in 1 .. Len(items) : b[y] = items[y]
  OBVIOUS
<1>2. \A y \in 0 .. Len(items) : Values(b, y) = Values(items, y)
  BY ValuesMore
<1>3. Values(b, Len(items) + 1) = Values(items, Len(items)) + (IF IsValue(x) THEN 1 ELSE 0)
  BY ValuesMore
<1> HIDE DEF b
<1>4. \A y \in 1 .. Len(items) : ShowsFormat(text, k, b, y)
  <2> TAKE y \in 1 .. Len(items)
  <2>1. ShowsFormat(text, k, items, y) /\ b[y] = items[y] /\ Values(b, y) = Values(items, y)
    BY <1>1, <1>2 DEF ShowFormats
  <2> QED BY <2>1 DEF ShowsFormat
<1>5. ShowsFormat(text, k, b, Len(items) + 1) => ShowFormats(text, k, b)
  <2>1. \A y \in DOMAIN b : y \in 1 .. Len(items) \/ y = Len(items) + 1
    BY <1>1
  <2> QED BY <1>4, <2>1 DEF ShowFormats
<1>6. ~IsValue(x) /\ ~x.pad => ShowsFormat(text, k, b, Len(items) + 1)
  BY <1>1 DEF ShowsFormat
<1>7. k > 0 /\ IsValue(x) /\ IsArg(text[k]) /\ Count(text, k) = Values(items, Len(items)) + 1
                /\ x.pad = ("width" \in text[k].spec) /\ x.flags = ("flags" \in text[k].spec) /\ ~x.precise
              => ShowsFormat(text, k, b, Len(items) + 1)
  <2>1. k > 0 => k \in 1 .. k
    OBVIOUS
  <2> QED BY <1>1, <1>3, <2>1 DEF ShowsFormat
<1> QED BY <1>5, <1>6, <1>7 DEF b

\* One more token takes nothing away.
LEMMA FormatsStay ==
    ASSUME NEW text, NEW k \in Nat, NEW items, ShowFormats(text, k, items)
    PROVE  ShowFormats(text, k + 1, items)
<1>1. 1 .. k \subseteq 1 .. k + 1
  OBVIOUS
<1> QED BY <1>1 DEF ShowFormats, ShowsFormat

\* What a piece of text, if there is one, adds to a line.
StaticGoes(list, part, str, bytes, silent, os, text, k) ==
    LET R == Format(list, bytes, silent, os)
        S == Format(list \o part, bytes, silent, os)
    IN  /\ list \o part \in Seq(FormatterType)
        /\ R \in PrintType /\ S \in PrintType /\ S.n = R.n
        /\ Bare(S.items) = Bare(R.items) \o Letters(str)
        /\ Values(S.items, Len(S.items)) = Values(R.items, Len(R.items))
        /\ R.os = FreshStream => S.os = FreshStream
        /\ R.os = FreshStream /\ ShowFormats(text, k, R.items) => ShowFormats(text, k, S.items)

\* A list that ends in letters prints these at the end.
LEMMA StaticOn ==
    ASSUME NEW list \in Seq(FormatterType), NEW bytes \in Seq(Cells), NEW silent \in BOOLEAN, NEW os \in Stream,
           NEW str \in Seq(Letter), NEW part \in Seq(FormatterType),
           part = Static(str) \/ (part = <<>> /\ str = <<>>),
           NEW text \in Seq(TokenType), NEW k \in 0 .. Len(text)
    PROVE  StaticGoes(list, part, str, bytes, silent, os, text, k)
<1> DEFINE R == Format(list, bytes, silent, os)
           S == Format(list \o part, bytes, silent, os)
<1>0. list \o part \in Seq(FormatterType)
  OBVIOUS
<1>1. R \in PrintType /\ S \in PrintType
  BY <1>0, FormatIs
<1>2. R.items \in Seq(ItemType) /\ R.os \in Stream
  BY <1>1 DEF PrintType
<1>3. CASE part = <<>> /\ str = <<>>
  <2>1. S = R
    BY <1>3, FormatOn
  <2>2. Letters(str) = <<>> /\ Bare(R.items) \in Seq(OutType)
    <3>1. Letters(<<>>) = <<>>
      BY LettersMore
    <3>2. PICK x \in ItemType : x = [of |-> str, pad |-> FALSE]
      BY DEF ItemType
    <3> QED BY <1>2, <1>3, <3>1, <3>2, BareMore
  <2>3. Bare(R.items) = Bare(R.items) \o <<>>
    BY <2>2
  <2> QED BY <1>0, <1>1, <2>1, <2>2, <2>3 DEF StaticGoes
<1>4. CASE part = Static(str)
  <2>1. PICK f : f = [f |-> "static", of |-> str]
    OBVIOUS
  <2>2. f \in FormatterType /\ f.f = "static" /\ f.of = str /\ part = <<f>>
    BY <1>4, <2>1 DEF FormatterType, Static
  <2>3. S = FormatStep(bytes, silent, R, f)
    BY <2>2, FormatOn
  <2>4. PICK r \in PrintType : r = R
    BY <1>1
  <2>5. PICK x : x = [of |-> str, pad |-> r.os.width]
    OBVIOUS
  <2> DEFINE new == FormatStep(bytes, silent, r, f)
  <2>6. /\ new.n = r.n /\ new.items = Append(r.items, x)
        /\ new.os = UsedUp(r.os, silent)
    BY <2>2, <2>5, FormatStatic
  <2>7. S = new
    BY <2>3, <2>4
  <2> HIDE DEF R, S, new
  <2>8. r.items \in Seq(ItemType) /\ r.os.width \in BOOLEAN /\ x \in ItemType /\ ~IsValue(x) /\ x.pad = r.os.width
        /\ BareOf(x) = Letters(str)
    <3>1. r.items \in Seq(ItemType) /\ r.os.width \in BOOLEAN
      BY DEF PrintType, Stream
    <3>2. x \in [of : Seq(Letter), pad : BOOLEAN] /\ x.pad = r.os.width /\ x.of = str
      BY <2>5, <3>1
    <3>3. x \in ItemType
      BY <3>2 DEF ItemType
    <3> QED BY <3>1, <3>2, <3>3, ItemIs DEF BareOf
  <2>9. Bare(Append(r.items, x)) = Bare(r.items) \o Letters(str)
    BY <2>8, BareMore
  <2>10. Values(Append(r.items, x), Len(Append(r.items, x))) = Values(r.items, Len(r.items))
    <3>1. Len(Append(r.items, x)) = Len(r.items) + 1 /\ Len(r.items) \in 0 .. Len(r.items)
      BY <2>8
    <3>2. Values(Append(r.items, x), Len(r.items) + 1) = Values(r.items, Len(r.items)) + 0 /\ Values(r.items, Len(r.items)) \in Nat
      BY <2>8, <3>1, ValuesMore
    <3> QED BY <3>1, <3>2
  <2>11. r.os = FreshStream => ~x.pad /\ new.os = FreshStream
    <3>1. FreshStream.width = FALSE
      BY DEF FreshStream
    <3>2. UsedUp(FreshStream, silent) = FreshStream
      BY FreshUsed
    <3> QED BY <2>6, <2>8, <3>1, <3>2
  <2>12. r.os = FreshStream /\ ShowFormats(text, k, r.items) => ShowFormats(text, k, Append(r.items, x))
    BY <2>8, <2>11, FormatsMore
  <2> QED BY <1>0, <1>1, <2>4, <2>6, <2>7, <2>9, <2>10, <2>11, <2>12 DEF R, S, StaticGoes
<1> QED BY <1>3, <1>4

\* A format is applied or undone, if there is one.
SpecGoes(list, which, t, bytes, silent, os) ==
    LET R == Format(list, bytes, silent, os)
        S == Format(list \o SpecOf(which, t), bytes, silent, os)
    IN  /\ list \o SpecOf(which, t) \in Seq(FormatterType)
        /\ R \in PrintType /\ S \in PrintType /\ S.n = R.n /\ S.items = R.items
        /\ S.os = IF t.spec = {} THEN R.os
                  ELSE IF which = "apply" THEN applyCFormatSpec(t.spec, R.os) ELSE resetCFormatSpec(R.os)

\* A list that ends in a specification prints nothing more.
LEMMA SpecOn ==
    ASSUME NEW list \in Seq(FormatterType), NEW bytes \in Seq(Cells), NEW silent \in BOOLEAN, NEW os \in Stream,
           NEW t \in TokenType, IsArg(t), NEW which \in {"apply", "reset"}
    PROVE  SpecGoes(list, which, t, bytes, silent, os)
<1> DEFINE R == Format(list, bytes, silent, os)
           S == Format(list \o SpecOf(which, t), bytes, silent, os)
<1>0. list \o SpecOf(which, t) \in Seq(FormatterType)
  <2>1. SpecOf(which, t) \in Seq(FormatterType)
    BY FormatterIs
  <2> QED BY <2>1
<1>1. R \in PrintType /\ S \in PrintType
  BY <1>0, FormatIs
<1>2. CASE t.spec = {}
  <2>1. SpecOf(which, t) = <<>>
    BY <1>2 DEF SpecOf
  <2>2. S = R
    BY <2>1, FormatOn
  <2> QED BY <1>0, <1>1, <1>2, <2>2 DEF SpecGoes
<1>3. CASE t.spec # {}
  <2>1. PICK f : f = [f |-> which, spec |-> t.spec]
    OBVIOUS
  <2>2. t.spec \in SUBSET {"width", "precision", "flags"}
    BY TokenIs
  <2>3. f \in FormatterType /\ f.f = which /\ f.spec = t.spec /\ SpecOf(which, t) = <<f>>
    BY <1>3, <2>1, <2>2 DEF FormatterType, SpecOf
  <2>4. S = FormatStep(bytes, silent, R, f)
    BY <2>3, FormatOn
  <2>5. PICK r \in PrintType : r = R
    BY <1>1
  <2> DEFINE new == FormatStep(bytes, silent, r, f)
  <2>6. /\ f.f = "apply" => new.n = r.n /\ new.os = applyCFormatSpec(f.spec, r.os) /\ new.items = r.items
        /\ f.f = "reset" => new.n = r.n /\ new.os = resetCFormatSpec(r.os) /\ new.items = r.items
    BY <2>3, FormatSpec
  <2>7. S = new
    BY <2>4, <2>5
  <2> HIDE DEF R, S, new
  <2> QED BY <1>0, <1>1, <1>3, <2>3, <2>5, <2>6, <2>7 DEF R, S, SpecGoes
<1> QED BY <1>2, <1>3

(***************************************************************************)
(* A value, from its bytes to the line.                                    *)
(***************************************************************************)

\* The bytes that a reader takes for a value are those that were put for it.
LEMMA BytesAt ==
    ASSUME NEW key \in Seq(Entry), Supported(key), NEW vals \in Seq(ValueType), Takes(key, vals),
           NEW limit \in Nat, NEW i \in 1 .. Len(key)
    PROVE  LET bytes == Stored(key, vals, limit)
               puts == PutAll(key, vals, limit)
               n == Off(puts, i - 1)
           IN  SubSeq(bytes, n + 1, Min({n + LengthOf(key[i], bytes, n + 1), Len(bytes)})) = puts[i]
<1> DEFINE bytes == Stored(key, vals, limit)
           puts == PutAll(key, vals, limit)
           n == Off(puts, i - 1)
<1>1. /\ LengthOf(key[i], bytes, n + 1) = Len(puts[i])
      /\ Off(puts, i) = n + Len(puts[i])
      /\ Off(puts, i) \in Nat /\ n \in Nat /\ Len(puts[i]) \in Nat
      /\ Off(puts, i) < Len(bytes)
  BY LengthAt
<1>2. Len(vals) = Len(key)
  BY DEF Takes
<1>3. /\ puts \in Seq(Seq(Cells)) /\ Len(puts) = Len(key) /\ bytes \in Seq(Cells)
      /\ \A j \in 1 .. Len(puts[i]) : bytes[n + j] = puts[i][j]
  BY <1>2, PeekIs
<1> HIDE DEF bytes, puts, n
<1>4. Len(bytes) \in Nat /\ puts[i] \in Seq(Cells)
  BY <1>3
<1>5. Min({n + Len(puts[i]), Len(bytes)}) = n + Len(puts[i])
  BY <1>1, <1>4, MinOf
<1> DEFINE piece == SubSeq(bytes, n + 1, n + Len(puts[i]))
<1>6. piece \in Seq(Cells) /\ Len(piece) = Len(puts[i]) /\ \A j \in 1 .. Len(puts[i]) : piece[j] = bytes[n + j]
  <2>1. n + Len(puts[i]) <= Len(bytes)
    BY <1>1, <1>4
  <2> QED BY <1>1, <1>3, <1>4, <2>1
<1> HIDE DEF piece
<1>7. piece = puts[i]
  BY <1>3, <1>4, <1>6, SeqEqual
<1> QED BY <1>1, <1>5, <1>7 DEF piece, bytes, puts, n

\* A value is printed that stands where its bytes were put.
ValueGoes(list, key, vals, limit, i, hex, silent, os) ==
    LET bytes == Stored(key, vals, limit)
        puts == PutAll(key, vals, limit)
        e == key[i]
        R == Format(list, bytes, silent, os)
        S == Format(list \o Value(e, hex), bytes, silent, os)
    IN  /\ list \o Value(e, hex) \in Seq(FormatterType)
        /\ R \in PrintType /\ S \in PrintType /\ S.n = Off(puts, i)
        /\ S.os = (IF Formats(e, bytes, R.n) THEN UsedUp(R.os, silent) ELSE R.os)
        /\ \E x \in ItemType :
              /\ S.items = Append(R.items, x) /\ IsValue(x)
              /\ x.bytes = puts[i] /\ x.hex = (hex /\ e.type \in {"u", "s", "i", "q"})
              /\ x.pad = (R.os.width /\ Formats(e, bytes, R.n))
              /\ x.precise = (R.os.fixed /\ R.os.precision /\ e.type \in {"f", "d"})
              /\ x.flags = R.os.flags

\* A list that ends in a value prints its bytes at the end, and reads on behind them.
LEMMA ValueOn ==
    ASSUME NEW key \in Seq(Entry), Supported(key), NEW vals \in Seq(ValueType), Takes(key, vals),
           NEW limit \in Nat, NEW i \in 1 .. Len(key), NEW hex \in BOOLEAN,
           NEW list \in Seq(FormatterType), NEW silent \in BOOLEAN, NEW os \in Stream,
           Format(list, Stored(key, vals, limit), silent, os).n = Off(PutAll(key, vals, limit), i - 1)
    PROVE  ValueGoes(list, key, vals, limit, i, hex, silent, os)
<1> DEFINE bytes == Stored(key, vals, limit)
           puts == PutAll(key, vals, limit)
           e == key[i]
           R == Format(list, bytes, silent, os)
           S == Format(list \o Value(e, hex), bytes, silent, os)
<1>1. Len(vals) = Len(key) /\ e \in Entry
  BY DEF Takes
<1>2. bytes \in Seq(Cells)
  BY <1>1, PeekIs
<1>3. /\ LengthOf(e, bytes, Off(puts, i - 1) + 1) = Len(puts[i])
      /\ Off(puts, i) = Off(puts, i - 1) + Len(puts[i])
  BY LengthAt
<1>4. SubSeq(bytes, Off(puts, i - 1) + 1, Min({Off(puts, i - 1) + LengthOf(e, bytes, Off(puts, i - 1) + 1), Len(bytes)})) = puts[i]
  BY BytesAt
<1>5. R.n = Off(puts, i - 1)
  OBVIOUS
<1>6. e \in Entry \cup {WallClock} /\ e.type # "w"
  BY <1>1 DEF Entry, Size
<1> HIDE DEF bytes, puts, e
<1>7. PICK f : f = [f |-> "value", e |-> e, hex |-> hex]
  OBVIOUS
<1>8. f \in FormatterType /\ f.f = "value" /\ f.e = e /\ f.hex = hex /\ Value(e, hex) = <<f>>
  BY <1>6, <1>7 DEF FormatterType, Value
<1>9. list \o Value(e, hex) \in Seq(FormatterType) /\ S = FormatStep(bytes, silent, R, f)
  BY <1>2, <1>8, FormatOn
<1>10. R \in PrintType /\ S \in PrintType
  BY <1>2, <1>9, FormatIs
<1>11. PICK r \in PrintType : r = R
  BY <1>10
<1> DEFINE new == FormatStep(bytes, silent, r, f)
<1>12. /\ new.n = r.n + LengthOf(f.e, bytes, r.n + 1)
       /\ new.os = (IF Formats(f.e, bytes, r.n) THEN UsedUp(r.os, silent) ELSE r.os)
       /\ new.items = Append(r.items, ItemOf(f, bytes, r))
       /\ ItemOf(f, bytes, r) \in ItemType
  BY <1>2, <1>6, <1>8, FormatValue
<1>13. S = new
  BY <1>9, <1>11
<1> HIDE DEF R, S, new
<1>14. PICK x \in ItemType : x = ItemOf(f, bytes, r)
  BY <1>12
<1>15. r.n = Off(puts, i - 1)
  BY <1>5, <1>11
<1>16. /\ x.bytes = SubSeq(bytes, r.n + 1, Min({r.n + LengthOf(e, bytes, r.n + 1), Len(bytes)}))
       /\ x.hex = (hex /\ e.type \in {"u", "s", "i", "q"})
       /\ x.pad = (r.os.width /\ Formats(e, bytes, r.n))
       /\ x.precise = (r.os.fixed /\ r.os.precision /\ e.type \in {"f", "d"})
       /\ x.flags = r.os.flags
       /\ IsValue(x)
  BY <1>8, <1>14 DEF ItemOf, IsValue
<1>17. x.bytes = puts[i]
  BY <1>4, <1>15, <1>16
<1>18. new.n = Off(puts, i)
  BY <1>3, <1>8, <1>12, <1>15
<1>19. new.os = (IF Formats(e, bytes, r.n) THEN UsedUp(r.os, silent) ELSE r.os) /\ new.items = Append(r.items, x)
  BY <1>8, <1>12, <1>14
<1> QED BY <1>9, <1>10, <1>11, <1>13, <1>16, <1>17, <1>18, <1>19 DEF bytes, puts, e, R, S, ValueGoes

\* What a value adds to what a line shows.
LEMMA ValueBare ==
    ASSUME NEW items \in Seq(ItemType), NEW x \in ItemType, IsValue(x)
    PROVE  /\ Bare(Append(items, x)) = Bare(items) \o <<[bytes |-> x.bytes, hex |-> x.hex]>>
           /\ Values(Append(items, x), Len(Append(items, x))) = Values(items, Len(items)) + 1
<1>1. Bare(Append(items, x)) = Bare(items) \o BareOf(x)
  BY BareMore
<1>2. Len(Append(items, x)) = Len(items) + 1
  OBVIOUS
<1>3. Values(Append(items, x), Len(items) + 1) = Values(items, Len(items)) + 1
  BY ValuesMore
<1> QED BY <1>1, <1>2, <1>3 DEF BareOf

(***************************************************************************)
(* A placeholder: its specification, its value, and the specification undone.*)
(***************************************************************************)

\* A format is applied to a stream that was left as it started.
LEMMA Applied ==
    ASSUME NEW spec \in SpecType, "precision" \notin spec,
           NEW A, spec = {} => A = FreshStream, spec # {} => A = applyCFormatSpec(spec, FreshStream)
    PROVE  /\ A \in Stream /\ (A.width <=> "width" \in spec) /\ (A.flags <=> "flags" \in spec)
           /\ (A.fixed <=> "width" \in spec) /\ ~A.precision
<1>1. CASE spec = {}
  <2>1. A = [width |-> FALSE, fixed |-> FALSE, precision |-> FALSE, flags |-> FALSE]
    BY <1>1 DEF FreshStream
  <2>2. A \in Stream
    BY <2>1 DEF Stream
  <2>3. A.width = FALSE /\ A.fixed = FALSE /\ A.precision = FALSE /\ A.flags = FALSE
    BY <2>1
  <2> QED BY <1>1, <2>2, <2>3
<1>2. CASE spec # {}
  <2>1. A = applyCFormatSpec(spec, FreshStream)
    BY <1>2
  <2>2. PICK w \in BOOLEAN, p \in BOOLEAN, x \in BOOLEAN, g \in BOOLEAN :
           /\ A = [width |-> w, fixed |-> x, precision |-> p, flags |-> g]
           /\ w = (FreshStream.width \/ "width" \in spec)
           /\ x = (FreshStream.fixed \/ spec \cap {"width", "precision"} # {})
           /\ p = (FreshStream.precision \/ "precision" \in spec)
           /\ g = (FreshStream.flags \/ "flags" \in spec)
    BY <2>1 DEF applyCFormatSpec
  <2>3. A \in Stream /\ A.width = w /\ A.fixed = x /\ A.precision = p /\ A.flags = g
    BY <2>2 DEF Stream
  <2>4. FreshStream.width = FALSE /\ FreshStream.fixed = FALSE /\ FreshStream.precision = FALSE /\ FreshStream.flags = FALSE
    BY DEF FreshStream
  <2>5. spec \cap {"width", "precision"} # {} <=> "width" \in spec
    OBVIOUS
  <2> HIDE DEF FreshStream
  <2>6. (w <=> "width" \in spec) /\ (g <=> "flags" \in spec) /\ (x <=> "width" \in spec) /\ ~p
    BY <2>2, <2>4, <2>5
  <2> QED BY <2>3, <2>6
<1> QED BY <1>1, <1>2

\* What undoes it.
LEMMA Undone ==
    ASSUME NEW spec \in SpecType, NEW B \in Stream, ~B.width, ~B.precision,
           B.fixed <=> "width" \in spec, B.flags <=> "flags" \in spec,
           NEW C, C = IF spec = {} THEN B ELSE resetCFormatSpec(B)
    PROVE  C = FreshStream
<1>1. CASE spec = {}
  BY <1>1 DEF FreshStream, Stream
<1>2. CASE spec # {}
  BY <1>2 DEF FreshStream, Stream, resetCFormatSpec
<1> QED BY <1>1, <1>2

\* The word before a pointer.
PrefixOf(t) == IF t.conv = "p" THEN <<"0x">> ELSE <<>>

\* The lists that a placeholder goes through.
List1(st) == st.list \o Pending(st)

\* ... then the letters "0x", for %p ...
List2(st, t) == List1(st) \o Prefix(t)

\* ... then the specification is applied ...
List3(st, t) == List2(st, t) \o SpecOf("apply", t)

\* ... then the value ...
List4(key, st, t) == List3(st, t) \o ValueFor(key, st, t)

\* ... then the specification is reset.
List5(key, st, t) == List4(key, st, t) \o SpecOf("reset", t)

\* The text before a placeholder is printed, and its format applied.
LEMMA ArgBegins ==
    ASSUME NEW st \in WalkType, NEW t \in TokenType, IsArg(t),
           NEW bytes \in Seq(Cells), NEW silent \in BOOLEAN, NEW os \in Stream,
           NEW text \in Seq(TokenType), NEW k \in 0 .. Len(text)
    PROVE  LET R == Format(st.list, bytes, silent, os)
               S == Format(List3(st, t), bytes, silent, os)
           IN  /\ List3(st, t) \in Seq(FormatterType) /\ st.list \in Seq(FormatterType)
               /\ R \in PrintType /\ S \in PrintType /\ S.n = R.n
               /\ Bare(S.items) = (Bare(R.items) \o Letters(st.text)) \o Letters(PrefixOf(t))
               /\ Values(S.items, Len(S.items)) = Values(R.items, Len(R.items))
               /\ R.os = FreshStream /\ ShowFormats(text, k, R.items) =>
                    /\ ShowFormats(text, k, S.items)
                    /\ S.os = IF t.spec = {} THEN FreshStream ELSE applyCFormatSpec(t.spec, FreshStream)
<1> DEFINE R == Format(st.list, bytes, silent, os)
           R1 == Format(List1(st), bytes, silent, os)
           R2 == Format(List2(st, t), bytes, silent, os)
           S == Format(List3(st, t), bytes, silent, os)
<1>1. st.list \in Seq(FormatterType) /\ st.text \in Seq(Letter)
  BY DEF WalkType
<1>2. Pending(st) \in Seq(FormatterType) /\ (Pending(st) = Static(st.text) \/ (Pending(st) = <<>> /\ st.text = <<>>))
  BY <1>1, FormatterIs DEF Pending
<1>3. /\ List1(st) \in Seq(FormatterType)
      /\ R \in PrintType /\ R1 \in PrintType /\ R1.n = R.n
      /\ Bare(R1.items) = Bare(R.items) \o Letters(st.text)
      /\ Values(R1.items, Len(R1.items)) = Values(R.items, Len(R.items))
      /\ R.os = FreshStream => R1.os = FreshStream
      /\ R.os = FreshStream /\ ShowFormats(text, k, R.items) => ShowFormats(text, k, R1.items)
  <2>1. StaticGoes(st.list, Pending(st), st.text, bytes, silent, os, text, k)
    BY <1>1, <1>2, StaticOn
  <2> QED BY <2>1 DEF StaticGoes, List1
<1>4. PrefixOf(t) \in Seq(Letter)
  BY LettersAre DEF PrefixOf
<1>5. Prefix(t) \in Seq(FormatterType) /\ (Prefix(t) = Static(PrefixOf(t)) \/ (Prefix(t) = <<>> /\ PrefixOf(t) = <<>>))
  <2>1. <<"0x">> \in Seq(Letter)
    BY LettersAre
  <2>2. Static(<<"0x">>) \in Seq(FormatterType)
    BY <2>1, FormatterIs
  <2> QED BY <2>2 DEF Prefix, PrefixOf
<1>6. /\ List2(st, t) \in Seq(FormatterType)
      /\ R2 \in PrintType /\ R2.n = R1.n
      /\ Bare(R2.items) = Bare(R1.items) \o Letters(PrefixOf(t))
      /\ Values(R2.items, Len(R2.items)) = Values(R1.items, Len(R1.items))
      /\ R1.os = FreshStream => R2.os = FreshStream
      /\ R1.os = FreshStream /\ ShowFormats(text, k, R1.items) => ShowFormats(text, k, R2.items)
  <2>1. StaticGoes(List1(st), Prefix(t), PrefixOf(t), bytes, silent, os, text, k)
    BY <1>3, <1>4, <1>5, StaticOn
  <2> QED BY <2>1 DEF StaticGoes, List2
<1>7. /\ List3(st, t) \in Seq(FormatterType)
      /\ S \in PrintType /\ S.n = R2.n /\ S.items = R2.items
      /\ S.os = IF t.spec = {} THEN R2.os ELSE applyCFormatSpec(t.spec, R2.os)
  <2>1. SpecGoes(List2(st, t), "apply", t, bytes, silent, os)
    BY <1>6, SpecOn
  <2> QED BY <2>1 DEF SpecGoes, List3
<1> HIDE DEF R, R1, R2, S
<1> QED BY <1>1, <1>3, <1>6, <1>7 DEF R, R1, R2, S

\* What a placeholder adds to a line.
ArgGoes(st, t, key, vals, limit, silent, os) ==
    LET bytes == Stored(key, vals, limit)
        puts == PutAll(key, vals, limit)
        R == Format(st.list, bytes, silent, os)
        S == Format(List5(key, st, t), bytes, silent, os)
        i == st.used + 1
    IN  /\ S.n = Off(puts, i)
        /\ Bare(S.items) = ((Bare(R.items) \o Letters(st.text)) \o Letters(PrefixOf(t)))
              \o <<[bytes |-> puts[i], hex |-> t.conv \in {"x", "p"} /\ key[i].type \in {"u", "s", "i", "q"}]>>
        /\ Values(S.items, Len(S.items)) = Values(R.items, Len(R.items)) + 1

\* The letters that come before a placeholder.
LEMMA ArgText ==
    ASSUME NEW key \in Seq(Entry), Supported(key), NEW vals \in Seq(ValueType), Takes(key, vals), NEW limit \in Nat,
           NEW st \in WalkType, st.used < Len(key), NEW t \in TokenType, IsArg(t),
           NEW silent \in BOOLEAN, NEW os \in Stream,
           Format(st.list, Stored(key, vals, limit), silent, os).n = Off(PutAll(key, vals, limit), st.used)
    PROVE  ArgGoes(st, t, key, vals, limit, silent, os)
<1> DEFINE bytes == Stored(key, vals, limit)
           puts == PutAll(key, vals, limit)
           R == Format(st.list, bytes, silent, os)
           R3 == Format(List3(st, t), bytes, silent, os)
           R4 == Format(List4(key, st, t), bytes, silent, os)
           S == Format(List5(key, st, t), bytes, silent, os)
           i == st.used + 1
<1>1. Len(vals) = Len(key)
  BY DEF Takes
<1>2. bytes \in Seq(Cells)
  BY <1>1, PeekIs
<1>3. <<>> \in Seq(TokenType) /\ 0 \in 0 .. Len(<<>>)
  OBVIOUS
<1>4. /\ List3(st, t) \in Seq(FormatterType) /\ st.list \in Seq(FormatterType)
      /\ R \in PrintType /\ R3 \in PrintType /\ R3.n = R.n
      /\ Bare(R3.items) = (Bare(R.items) \o Letters(st.text)) \o Letters(PrefixOf(t))
      /\ Values(R3.items, Len(R3.items)) = Values(R.items, Len(R.items))
  <2> HIDE DEF bytes
  <2>1. PICK tx \in Seq(TokenType) : 0 \in 0 .. Len(tx)
    BY <1>3
  <2>2. LET R0 == Format(st.list, bytes, silent, os)
            S0 == Format(List3(st, t), bytes, silent, os)
        IN  /\ List3(st, t) \in Seq(FormatterType) /\ st.list \in Seq(FormatterType)
            /\ R0 \in PrintType /\ S0 \in PrintType /\ S0.n = R0.n
            /\ Bare(S0.items) = (Bare(R0.items) \o Letters(st.text)) \o Letters(PrefixOf(t))
            /\ Values(S0.items, Len(S0.items)) = Values(R0.items, Len(R0.items))
    BY <1>2, <2>1, ArgBegins
  <2> QED BY <2>2
<1>5. st.used \in Nat /\ i \in 1 .. Len(key) /\ i - 1 = st.used
  BY DEF WalkType
<1>6. R3.n = Off(puts, i - 1) /\ (t.conv \in {"x", "p"}) \in BOOLEAN
  BY <1>4, <1>5
<1>7. /\ List4(key, st, t) \in Seq(FormatterType)
      /\ R4 \in PrintType /\ R4.n = Off(puts, i)
      /\ \E x \in ItemType :
            /\ R4.items = Append(R3.items, x) /\ IsValue(x)
            /\ x.bytes = puts[i] /\ x.hex = (t.conv \in {"x", "p"} /\ key[i].type \in {"u", "s", "i", "q"})
  <2>1. /\ List3(st, t) \in Seq(FormatterType) /\ i \in 1 .. Len(key)
        /\ Format(List3(st, t), Stored(key, vals, limit), silent, os).n = Off(PutAll(key, vals, limit), i - 1)
    BY <1>4, <1>5, <1>6
  <2>2. PICK hex \in BOOLEAN : hex = (t.conv \in {"x", "p"})
    BY <1>6
  <2>3. ValueGoes(List3(st, t), key, vals, limit, i, hex, silent, os)
    BY <2>1, ValueOn
  <2> QED BY <2>2, <2>3 DEF ValueGoes, List4, ValueFor
<1>8. S.n = R4.n /\ S.items = R4.items
  <2> HIDE DEF bytes
  <2>1. SpecGoes(List4(key, st, t), "reset", t, bytes, silent, os)
    BY <1>2, <1>7, SpecOn
  <2> QED BY <2>1 DEF SpecGoes, List5
<1> HIDE DEF R, R3, R4, S, bytes, puts
<1>9. PICK x \in ItemType :
            /\ R4.items = Append(R3.items, x) /\ IsValue(x)
            /\ x.bytes = puts[i] /\ x.hex = (t.conv \in {"x", "p"} /\ key[i].type \in {"u", "s", "i", "q"})
  BY <1>7
<1>10. R3.items \in Seq(ItemType)
  BY <1>4 DEF PrintType
<1>11. /\ Bare(R4.items) = Bare(R3.items) \o <<[bytes |-> x.bytes, hex |-> x.hex]>>
       /\ Values(R4.items, Len(R4.items)) = Values(R3.items, Len(R3.items)) + 1
  BY <1>9, <1>10, ValueBare
<1> QED BY <1>4, <1>7, <1>8, <1>9, <1>11 DEF R, R3, R4, S, bytes, puts, ArgGoes

\* A placeholder shows its format, and undoes it.
LEMMA ArgFormats ==
    ASSUME NEW key \in Seq(Entry), Supported(key), NEW vals \in Seq(ValueType), Takes(key, vals), NEW limit \in Nat,
           NEW text \in Seq(TokenType), NEW k \in 1 .. Len(text), IsArg(text[k]),
           NEW st \in WalkType, st.used < Len(key),
           NEW silent \in BOOLEAN, NEW os \in Stream, StaysIn(text, key, silent),
           Format(st.list, Stored(key, vals, limit), silent, os).n = Off(PutAll(key, vals, limit), st.used),
           LET R == Format(st.list, Stored(key, vals, limit), silent, os)
           IN  /\ R.os = FreshStream /\ ShowFormats(text, k - 1, R.items)
               /\ Values(R.items, Len(R.items)) = Count(text, k - 1)
    PROVE  LET S == Format(List5(key, st, text[k]), Stored(key, vals, limit), silent, os)
           IN  S.os = FreshStream /\ ShowFormats(text, k, S.items)
<1> DEFINE bytes == Stored(key, vals, limit)
           puts == PutAll(key, vals, limit)
           t == text[k]
           R == Format(st.list, bytes, silent, os)
           R3 == Format(List3(st, t), bytes, silent, os)
           R4 == Format(List4(key, st, t), bytes, silent, os)
           S == Format(List5(key, st, t), bytes, silent, os)
           i == st.used + 1
           e == key[i]
<1>1. Len(vals) = Len(key) /\ t \in TokenType
  BY DEF Takes
<1>2. bytes \in Seq(Cells)
  BY <1>1, PeekIs
<1>3. k - 1 \in 0 .. Len(text) /\ (k - 1) + 1 = k /\ k - 1 \in Nat
  OBVIOUS
<1>4. /\ List3(st, t) \in Seq(FormatterType)
      /\ R3 \in PrintType /\ R3.n = R.n
      /\ Values(R3.items, Len(R3.items)) = Values(R.items, Len(R.items))
      /\ ShowFormats(text, k - 1, R3.items)
      /\ R3.os = IF t.spec = {} THEN FreshStream ELSE applyCFormatSpec(t.spec, FreshStream)
  <2>1. R.os = FreshStream /\ ShowFormats(text, k - 1, R.items)
    OBVIOUS
  <2> HIDE DEF bytes, t
  <2> QED BY <1>1, <1>2, <1>3, <2>1, ArgBegins DEF t
<1>5. st.used \in Nat /\ i \in 1 .. Len(key) /\ i - 1 = st.used
  BY DEF WalkType
<1>6. R3.n = Off(puts, i - 1) /\ (t.conv \in {"x", "p"}) \in BOOLEAN
  BY <1>4, <1>5
<1>7. /\ List4(key, st, t) \in Seq(FormatterType)
      /\ R4 \in PrintType
      /\ R4.os = (IF Formats(e, bytes, R3.n) THEN UsedUp(R3.os, silent) ELSE R3.os)
      /\ \E x \in ItemType :
            /\ R4.items = Append(R3.items, x) /\ IsValue(x)
            /\ x.pad = (R3.os.width /\ Formats(e, bytes, R3.n))
            /\ x.precise = (R3.os.fixed /\ R3.os.precision /\ e.type \in {"f", "d"})
            /\ x.flags = R3.os.flags
  <2>1. /\ List3(st, t) \in Seq(FormatterType) /\ i \in 1 .. Len(key)
        /\ Format(List3(st, t), Stored(key, vals, limit), silent, os).n = Off(PutAll(key, vals, limit), i - 1)
    BY <1>4, <1>5, <1>6
  <2>2. PICK hex \in BOOLEAN : hex = (t.conv \in {"x", "p"})
    BY <1>6
  <2>3. ValueGoes(List3(st, t), key, vals, limit, i, hex, silent, os)
    BY <2>1, ValueOn
  <2> QED BY <2>2, <2>3 DEF ValueGoes, List4, ValueFor
<1>8. S.items = R4.items /\ S.os = IF t.spec = {} THEN R4.os ELSE resetCFormatSpec(R4.os)
  <2> HIDE DEF bytes, t
  <2>1. IsArg(t)
    BY DEF t
  <2>2. SpecGoes(List4(key, st, t), "reset", t, bytes, silent, os)
    BY <1>1, <1>2, <1>7, <2>1, SpecOn
  <2> QED BY <2>2 DEF SpecGoes, List5
<1>9. t.spec \in SpecType
  BY <1>1, TokenIs DEF SpecType
<1>10. "precision" \notin t.spec /\ ("width" \in t.spec => ~silent /\ Formats(e, bytes, R3.n))
  <2>1. k \in DOMAIN text /\ i \in DOMAIN key
    BY <1>5
  <2> QED BY <2>1 DEF StaysIn, Formats
<1>11. Values(R3.items, Len(R3.items)) + 1 = Count(text, k)
  <2>1. Values(R.items, Len(R.items)) = Count(text, k - 1)
    OBVIOUS
  <2>2. Count(text, k) = Count(text, k - 1) + 1
    BY CountIs
  <2> QED BY <1>4, <2>1, <2>2
<1> HIDE DEF R, R3, R4, S, bytes, puts, t, e
<1>12. /\ R3.os \in Stream /\ (R3.os.width <=> "width" \in t.spec) /\ (R3.os.flags <=> "flags" \in t.spec)
       /\ (R3.os.fixed <=> "width" \in t.spec) /\ ~R3.os.precision
  BY <1>4, <1>9, <1>10, Applied
<1>13. PICK x \in ItemType :
            /\ R4.items = Append(R3.items, x) /\ IsValue(x)
            /\ x.pad = (R3.os.width /\ Formats(e, bytes, R3.n))
            /\ x.precise = (R3.os.fixed /\ R3.os.precision /\ e.type \in {"f", "d"})
            /\ x.flags = R3.os.flags
  BY <1>7
<1>14. x.pad = ("width" \in t.spec) /\ x.flags = ("flags" \in t.spec) /\ ~x.precise
  <2>1. (x.pad <=> "width" \in t.spec) /\ ~x.precise
    BY <1>10, <1>12, <1>13
  <2>2. R3.os.flags \in BOOLEAN
    BY <1>12 DEF Stream
  <2>3. x.pad \in BOOLEAN /\ x.flags \in BOOLEAN
    BY <1>13, <2>2
  <2>4. x.flags <=> "flags" \in t.spec
    BY <1>12, <1>13
  <2> QED BY <2>1, <2>3, <2>4
<1>15. ShowFormats(text, k, R4.items)
  <2>1. ShowFormats(text, k, R3.items)
    BY <1>3, <1>4, FormatsStay
  <2>2. R3.items \in Seq(ItemType)
    BY <1>4 DEF PrintType
  <2>3. /\ k \in 0 .. Len(text) /\ k > 0 /\ IsArg(text[k]) /\ Count(text, k) = Values(R3.items, Len(R3.items)) + 1
        /\ x.pad = ("width" \in text[k].spec) /\ x.flags = ("flags" \in text[k].spec)
    BY <1>11, <1>14 DEF t
  <2> QED BY <1>13, <1>14, <2>1, <2>2, <2>3, FormatsMore
<1>16. /\ R4.os \in Stream /\ ~R4.os.width /\ ~R4.os.precision
       /\ (R4.os.fixed <=> "width" \in t.spec) /\ (R4.os.flags <=> "flags" \in t.spec)
  <2>1. CASE Formats(e, bytes, R3.n)
    <3>1. R4.os = UsedUp(R3.os, silent)
      BY <1>7, <2>1
    <3>3. /\ UsedUp(R3.os, silent) \in Stream
          /\ UsedUp(R3.os, silent).width = (silent /\ R3.os.width)
          /\ UsedUp(R3.os, silent).fixed = R3.os.fixed
          /\ UsedUp(R3.os, silent).precision = R3.os.precision
          /\ UsedUp(R3.os, silent).flags = R3.os.flags
      BY <1>12, Used
    <3> QED BY <1>10, <1>12, <3>1, <3>3
  <2>2. CASE ~Formats(e, bytes, R3.n)
    BY <1>7, <1>10, <1>12, <2>2
  <2> QED BY <2>1, <2>2
<1>17. S.os = FreshStream
  BY <1>8, <1>9, <1>16, Undone
<1> QED BY <1>8, <1>15, <1>17 DEF S, t, bytes

(***************************************************************************)
(* A token, and a text of tokens.                                          *)
(***************************************************************************)

\* What a token is printed as, but for a value.
WordOf(t) == IF t.k = "percent" THEN <<"%">> ELSE Raw(t)

\* What a token is to be printed as: pieces says it of every token.
Piece(t, i, key, puts) ==
    IF IsArg(t)
    THEN Letters(PrefixOf(t))
         \o <<[bytes |-> puts[i], hex |-> t.conv \in {"x", "p"} /\ key[i].type \in {"u", "s", "i", "q"}]>>
    ELSE Letters(WordOf(t))

\* What init() has made of the first k tokens prints these, and the text it still holds.
Shown(st, text, k, pieces, key, vals, limit, silent, os) ==
    LET R == Format(st.list, Stored(key, vals, limit), silent, os)
    IN  /\ R.n = Off(PutAll(key, vals, limit), st.used)
        /\ Bare(R.items) \o Letters(st.text) = FlattenSeq(First(pieces, k))
        /\ Values(R.items, Len(R.items)) = Count(text, k)
        /\ os = FreshStream /\ StaysIn(text, key, silent) => R.os = FreshStream /\ ShowFormats(text, k, R.items)

\* Three sequences in one.
LEMMA Together ==
    ASSUME NEW a \in Seq(OutType), NEW b \in Seq(OutType), NEW c \in Seq(OutType)
    PROVE  (a \o b) \o c = a \o (b \o c)
OBVIOUS

\* Appending is joining a sequence of one.
LEMMA OneMore ==
    ASSUME NEW S, NEW s \in Seq(S), NEW c \in S
    PROVE  Append(s, c) = s \o <<c>>
OBVIOUS

\* A character is kept.
LEMMA CharShown ==
    ASSUME NEW key \in Seq(Entry), NEW vals \in Seq(ValueType), Len(vals) = Len(key), NEW limit \in Nat,
           NEW text \in Seq(TokenType), NEW k \in 1 .. Len(text), text[k].k \in {"char", "lone"},
           NEW pieces \in Seq(Seq(OutType)), Len(pieces) = Len(text), pieces[k] = Letters(Raw(text[k])),
           NEW silent \in BOOLEAN, NEW os \in Stream,
           NEW st \in WalkType, Shown(st, text, k - 1, pieces, key, vals, limit, silent, os),
           NEW new \in WalkType, new.list = st.list, new.used = st.used, new.text = st.text \o Raw(text[k])
    PROVE  Shown(new, text, k, pieces, key, vals, limit, silent, os)
<1> DEFINE bytes == Stored(key, vals, limit)
           R == Format(st.list, bytes, silent, os)
           T == Format(new.list, bytes, silent, os)
<1>1. bytes \in Seq(Cells)
  BY PeekIs
<1>2. T = R
  OBVIOUS
<1>3. /\ R.n = Off(PutAll(key, vals, limit), st.used)
      /\ Bare(R.items) \o Letters(st.text) = FlattenSeq(First(pieces, k - 1))
      /\ Values(R.items, Len(R.items)) = Count(text, k - 1)
      /\ os = FreshStream /\ StaysIn(text, key, silent) => R.os = FreshStream /\ ShowFormats(text, k - 1, R.items)
  BY DEF Shown
<1> HIDE DEF bytes
<1>4. st.list \in Seq(FormatterType) /\ st.text \in Seq(Letter)
  BY DEF WalkType
<1>5. R \in PrintType
  BY <1>1, <1>4, FormatIs
<1>6. R.items \in Seq(ItemType)
  BY <1>5 DEF PrintType
<1> HIDE DEF R, T
<1>7. Bare(R.items) \in Seq(OutType)
  <2>1. PICK x \in ItemType : x = [of |-> <<>>, pad |-> FALSE]
    BY LettersAre DEF ItemType
  <2> QED BY <1>6, <2>1, BareMore
<1>8. Raw(text[k]) \in Seq(Letter) /\ ~IsArg(text[k])
  <2>1. text[k] \in TokenType
    OBVIOUS
  <2> QED BY <2>1, TokenIs DEF IsArg
<1>9. /\ Letters(st.text) \in Seq(OutType) /\ Letters(Raw(text[k])) \in Seq(OutType)
      /\ Letters(st.text \o Raw(text[k])) = Letters(st.text) \o Letters(Raw(text[k]))
  BY <1>4, <1>8, LettersMore
<1>10. FlattenSeq(First(pieces, k)) = FlattenSeq(First(pieces, k - 1)) \o pieces[k]
  BY OffIs
<1>11. (Bare(R.items) \o Letters(st.text)) \o Letters(Raw(text[k])) = Bare(R.items) \o (Letters(st.text) \o Letters(Raw(text[k])))
  BY <1>7, <1>9, Together
<1>12. Bare(R.items) \o Letters(new.text) = FlattenSeq(First(pieces, k))
  BY <1>3, <1>9, <1>10, <1>11
<1>13. Count(text, k) = Count(text, k - 1)
  <2>1. Count(text, k) = Count(text, k - 1) + 0 /\ Count(text, k - 1) \in Nat
    BY <1>8, CountIs
  <2> QED BY <2>1
<1>14. ShowFormats(text, k - 1, R.items) => ShowFormats(text, k, R.items)
  <2>1. k - 1 \in Nat /\ (k - 1) + 1 = k
    OBVIOUS
  <2>2. ShowFormats(text, k - 1, R.items) => ShowFormats(text, (k - 1) + 1, R.items)
    BY <2>1, FormatsStay
  <2> QED BY <2>1, <2>2
<1>15. /\ T.n = Off(PutAll(key, vals, limit), new.used)
       /\ Bare(T.items) \o Letters(new.text) = FlattenSeq(First(pieces, k))
       /\ Values(T.items, Len(T.items)) = Count(text, k)
       /\ os = FreshStream /\ StaysIn(text, key, silent) => T.os = FreshStream /\ ShowFormats(text, k, T.items)
  BY <1>2, <1>3, <1>12, <1>13, <1>14
<1> QED BY <1>15 DEF Shown, T, bytes

\* "%%" ends a piece of text.
LEMMA PercentShown ==
    ASSUME NEW key \in Seq(Entry), NEW vals \in Seq(ValueType), Len(vals) = Len(key), NEW limit \in Nat,
           NEW text \in Seq(TokenType), NEW k \in 1 .. Len(text), text[k].k = "percent",
           NEW pieces \in Seq(Seq(OutType)), Len(pieces) = Len(text), pieces[k] = Letters(<<"%">>),
           NEW silent \in BOOLEAN, NEW os \in Stream,
           NEW st \in WalkType, Shown(st, text, k - 1, pieces, key, vals, limit, silent, os),
           NEW new \in WalkType, new.list = st.list \o Static(Append(st.text, "%")),
           new.used = st.used, new.text = <<>>
    PROVE  Shown(new, text, k, pieces, key, vals, limit, silent, os)
<1> DEFINE bytes == Stored(key, vals, limit)
           str == Append(st.text, "%")
           R == Format(st.list, bytes, silent, os)
           T == Format(new.list, bytes, silent, os)
<1>1. bytes \in Seq(Cells)
  BY PeekIs
<1>3. /\ R.n = Off(PutAll(key, vals, limit), st.used)
      /\ Bare(R.items) \o Letters(st.text) = FlattenSeq(First(pieces, k - 1))
      /\ Values(R.items, Len(R.items)) = Count(text, k - 1)
      /\ os = FreshStream /\ StaysIn(text, key, silent) => R.os = FreshStream /\ ShowFormats(text, k - 1, R.items)
  BY DEF Shown
<1>4. st.list \in Seq(FormatterType) /\ st.text \in Seq(Letter)
  BY DEF WalkType
<1>5. str \in Seq(Letter) /\ Static(str) \in Seq(FormatterType)
  <2>1. str \in Seq(Letter)
    BY <1>4, LettersAre
  <2> HIDE DEF str
  <2> QED BY <2>1, FormatterIs
<1>6. str = st.text \o <<"%">>
  <2>1. PICK c \in Letter : c = "%"
    BY DEF Letter
  <2> QED BY <1>4, <2>1, OneMore
<1> HIDE DEF bytes
<1>7. k - 1 \in 0 .. Len(text)
  OBVIOUS
<1>8. StaticGoes(st.list, Static(str), str, bytes, silent, os, text, k - 1)
  <2> HIDE DEF str
  <2> QED BY <1>1, <1>4, <1>5, <1>7, StaticOn
<1>9. /\ R \in PrintType /\ T.n = R.n
      /\ Bare(T.items) = Bare(R.items) \o Letters(str)
      /\ Values(T.items, Len(T.items)) = Values(R.items, Len(R.items))
      /\ R.os = FreshStream => T.os = FreshStream
      /\ R.os = FreshStream /\ ShowFormats(text, k - 1, R.items) => ShowFormats(text, k - 1, T.items)
  BY <1>8 DEF StaticGoes
<1>10. R.items \in Seq(ItemType)
  BY <1>9 DEF PrintType
<1> HIDE DEF R, T, str
<1>11. Bare(R.items) \in Seq(OutType)
  <2>1. PICK x \in ItemType : x = [of |-> <<>>, pad |-> FALSE]
    BY LettersAre DEF ItemType
  <2> QED BY <1>10, <2>1, BareMore
<1>12. <<"%">> \in Seq(Letter) /\ ~IsArg(text[k])
  BY LettersAre DEF IsArg
<1>13. /\ Letters(st.text) \in Seq(OutType) /\ Letters(<<"%">>) \in Seq(OutType) /\ Letters(<<>>) = <<>>
       /\ Letters(str) = Letters(st.text) \o Letters(<<"%">>)
  BY <1>4, <1>6, <1>12, LettersMore
<1>14. FlattenSeq(First(pieces, k)) = FlattenSeq(First(pieces, k - 1)) \o pieces[k]
  BY OffIs
<1>15. (Bare(R.items) \o Letters(st.text)) \o Letters(<<"%">>) = Bare(R.items) \o (Letters(st.text) \o Letters(<<"%">>))
  BY <1>11, <1>13, Together
<1>16. Bare(T.items) = FlattenSeq(First(pieces, k))
  BY <1>3, <1>9, <1>13, <1>14, <1>15
<1>17. Bare(T.items) \in Seq(OutType)
  BY <1>9, <1>11, <1>13
<1>18. Bare(T.items) \o Letters(new.text) = FlattenSeq(First(pieces, k))
  <2>1. Letters(new.text) = <<>>
    BY <1>13
  <2>2. Bare(T.items) \o <<>> = Bare(T.items)
    BY <1>17, ConcatEmptySeq
  <2> QED BY <1>16, <2>1, <2>2
<1>19. Count(text, k) = Count(text, k - 1)
  <2>1. Count(text, k) = Count(text, k - 1) + 0 /\ Count(text, k - 1) \in Nat
    BY <1>12, CountIs
  <2> QED BY <2>1
<1>20. ShowFormats(text, k - 1, T.items) => ShowFormats(text, k, T.items)
  <2>1. k - 1 \in Nat /\ (k - 1) + 1 = k
    OBVIOUS
  <2>2. ShowFormats(text, k - 1, T.items) => ShowFormats(text, (k - 1) + 1, T.items)
    BY <2>1, FormatsStay
  <2> QED BY <2>1, <2>2
<1>21. /\ T.n = Off(PutAll(key, vals, limit), new.used)
       /\ Values(T.items, Len(T.items)) = Count(text, k)
       /\ os = FreshStream /\ StaysIn(text, key, silent) => T.os = FreshStream /\ ShowFormats(text, k, T.items)
  BY <1>3, <1>9, <1>19, <1>20
<1> QED BY <1>18, <1>21 DEF Shown, T, bytes

\* A placeholder takes the next value.
LEMMA ArgShown ==
    ASSUME NEW key \in Seq(Entry), Supported(key), NEW vals \in Seq(ValueType), Takes(key, vals), NEW limit \in Nat,
           NEW text \in Seq(TokenType), NEW k \in 1 .. Len(text), IsArg(text[k]),
           NEW pieces \in Seq(Seq(OutType)), Len(pieces) = Len(text),
           NEW silent \in BOOLEAN, NEW os \in Stream,
           NEW st \in WalkType, st.used < Len(key), Shown(st, text, k - 1, pieces, key, vals, limit, silent, os),
           pieces[k] = Piece(text[k], st.used + 1, key, PutAll(key, vals, limit)),
           NEW new \in WalkType, new.list = List5(key, st, text[k]), new.used = st.used + 1, new.text = <<>>
    PROVE  Shown(new, text, k, pieces, key, vals, limit, silent, os)
<1> DEFINE bytes == Stored(key, vals, limit)
           puts == PutAll(key, vals, limit)
           t == text[k]
           i == st.used + 1
           R == Format(st.list, bytes, silent, os)
           T == Format(new.list, bytes, silent, os)
           show == [bytes |-> puts[i], hex |-> t.conv \in {"x", "p"} /\ key[i].type \in {"u", "s", "i", "q"}]
<1>1. Len(vals) = Len(key) /\ t \in TokenType
  BY DEF Takes
<1>2. bytes \in Seq(Cells) /\ puts \in Seq(Seq(Cells)) /\ Len(puts) = Len(key)
  BY <1>1, PeekIs
<1>3. /\ R.n = Off(puts, st.used)
      /\ Bare(R.items) \o Letters(st.text) = FlattenSeq(First(pieces, k - 1))
      /\ Values(R.items, Len(R.items)) = Count(text, k - 1)
      /\ os = FreshStream /\ StaysIn(text, key, silent) => R.os = FreshStream /\ ShowFormats(text, k - 1, R.items)
  BY DEF Shown
<1>4. st.list \in Seq(FormatterType) /\ st.text \in Seq(Letter) /\ st.used \in Nat
  BY DEF WalkType
<1>5. /\ T.n = Off(puts, i)
      /\ Bare(T.items) = ((Bare(R.items) \o Letters(st.text)) \o Letters(PrefixOf(t))) \o <<show>>
      /\ Values(T.items, Len(T.items)) = Values(R.items, Len(R.items)) + 1
  <2>1. ArgGoes(st, t, key, vals, limit, silent, os)
    <3>1. Format(st.list, Stored(key, vals, limit), silent, os).n = Off(PutAll(key, vals, limit), st.used)
      BY <1>3
    <3> QED BY <1>1, <3>1, ArgText
  <2> QED BY <2>1 DEF ArgGoes
<1>6. os = FreshStream /\ StaysIn(text, key, silent) => T.os = FreshStream /\ ShowFormats(text, k, T.items)
  <2>1. SUFFICES ASSUME os = FreshStream, StaysIn(text, key, silent)
                 PROVE  T.os = FreshStream /\ ShowFormats(text, k, T.items)
    OBVIOUS
  <2>2. /\ Format(st.list, Stored(key, vals, limit), silent, os).n = Off(PutAll(key, vals, limit), st.used)
        /\ LET R0 == Format(st.list, Stored(key, vals, limit), silent, os)
           IN  /\ R0.os = FreshStream /\ ShowFormats(text, k - 1, R0.items)
               /\ Values(R0.items, Len(R0.items)) = Count(text, k - 1)
    BY <1>3, <2>1
  <2>3. LET S == Format(List5(key, st, text[k]), Stored(key, vals, limit), silent, os)
        IN  S.os = FreshStream /\ ShowFormats(text, k, S.items)
    BY SMTT(30), <2>1, <2>2, ArgFormats
  <2> QED BY <2>3
<1>7. R \in PrintType
  <2> HIDE DEF bytes
  <2> QED BY <1>2, <1>4, FormatIs
<1>8. R.items \in Seq(ItemType)
  BY <1>7 DEF PrintType
<1>9. show \in OutType
  <2>1. i \in 1 .. Len(puts)
    <3>1. Len(key) \in Nat /\ st.used + 1 \in 1 .. Len(key)
      BY SMTT(30), <1>4
    <3> HIDE DEF puts
    <3> QED BY <1>2, <3>1
  <2>2. puts[i] \in Seq(Cells)
    BY <1>2, <2>1
  <2> HIDE DEF puts
  <2> QED BY <2>2 DEF OutType
<1>10. pieces[k] = Letters(PrefixOf(t)) \o <<show>>
  BY DEF Piece
<1>11. new.used = i /\ new.text = <<>>
  OBVIOUS
<1> HIDE DEF R, T, show, bytes, puts, t, i
<1>12. Bare(R.items) \in Seq(OutType)
  <2>1. PICK x \in ItemType : x = [of |-> <<>>, pad |-> FALSE]
    BY LettersAre DEF ItemType
  <2> QED BY <1>8, <2>1, BareMore
<1>13. PrefixOf(t) \in Seq(Letter) /\ <<>> \in Seq(Letter)
  BY LettersAre DEF PrefixOf
<1>14. /\ Letters(st.text) \in Seq(OutType) /\ Letters(PrefixOf(t)) \in Seq(OutType) /\ Letters(<<>>) = <<>>
  BY <1>4, <1>13, LettersMore
<1>15. FlattenSeq(First(pieces, k)) = FlattenSeq(First(pieces, k - 1)) \o pieces[k]
  BY OffIs
<1>16. Bare(R.items) \o Letters(st.text) \in Seq(OutType) /\ <<show>> \in Seq(OutType)
  BY <1>9, <1>12, <1>14
<1>17. ((Bare(R.items) \o Letters(st.text)) \o Letters(PrefixOf(t))) \o <<show>>
          = (Bare(R.items) \o Letters(st.text)) \o (Letters(PrefixOf(t)) \o <<show>>)
  BY <1>14, <1>16, Together
<1>18. Bare(T.items) = FlattenSeq(First(pieces, k))
  BY <1>3, <1>5, <1>10, <1>15, <1>17
<1>19. Bare(T.items) \in Seq(OutType)
  BY <1>5, <1>14, <1>16
<1>20. Bare(T.items) \o Letters(new.text) = FlattenSeq(First(pieces, k))
  <2>1. Letters(new.text) = <<>>
    BY <1>11, <1>14
  <2>2. Bare(T.items) \o <<>> = Bare(T.items)
    BY <1>19, ConcatEmptySeq
  <2> QED BY <1>18, <2>1, <2>2
<1>21. Values(T.items, Len(T.items)) = Count(text, k)
  <2>1. Count(text, k) = Count(text, k - 1) + 1
    BY CountIs DEF t
  <2> QED BY <1>3, <1>5, <2>1
<1> QED BY <1>5, <1>6, <1>11, <1>20, <1>21 DEF Shown, T, bytes, puts

\* What a text with its values is to be printed as, from the value behind the first base ones.
IsPieces(pieces, text, base, key, puts) ==
    /\ pieces \in Seq(Seq(OutType)) /\ Len(pieces) = Len(text)
    /\ \A k \in 1 .. Len(text) : pieces[k] = Piece(text[k], base + Count(text, k), key, puts)

\* How format() begins: where it has skipped what init() did not take.
Begins(start, key, vals, limit, silent, os) ==
    /\ start \in Started /\ ~start.stop /\ start.used <= Len(key)
    /\ LET R == Format(start.list, Stored(key, vals, limit), silent, os)
       IN  R.n = Off(PutAll(key, vals, limit), start.used) /\ R.os = os /\ R.items = <<>>

\* Nothing is shown before the first token.
LEMMA NothingShown ==
    ASSUME NEW key \in Seq(Entry), NEW vals \in Seq(ValueType), Len(vals) = Len(key), NEW limit \in Nat,
           NEW text \in Seq(TokenType), NEW start \in Started, NEW silent \in BOOLEAN, NEW os \in Stream,
           Begins(start, key, vals, limit, silent, os),
           NEW pieces \in Seq(Seq(OutType))
    PROVE  Shown(start, text, 0, pieces, key, vals, limit, silent, os)
<1> DEFINE R == Format(start.list, Stored(key, vals, limit), silent, os)
<1>1. R.n = Off(PutAll(key, vals, limit), start.used) /\ R.os = os /\ R.items = <<>> /\ start.text = <<>>
  BY DEF Begins, Started
<1> HIDE DEF R
<1>2. <<>> \in Seq(ItemType) /\ Len(<<>>) = 0 /\ <<>> \in Seq(Letter)
  OBVIOUS
<1>3. PICK x \in ItemType : x = [of |-> <<>>, pad |-> FALSE]
  BY <1>2 DEF ItemType
<1>4. Bare(<<>>) = <<>>
  BY <1>2, <1>3, BareMore
<1>5. Letters(<<>>) = <<>>
  BY <1>2, LettersMore
<1>6. Values(<<>>, 0) = 0
  BY <1>2, <1>3, ValuesMore
<1>7. Count(text, 0) = 0
  BY CountIs
<1>8. FlattenSeq(First(pieces, 0)) = <<>>
  <2>1. First(pieces, 0) = <<>>
    BY FirstOf
  <2>2. <<>> \in Seq(OutType)
    OBVIOUS
  <2>3. FlattenSeq(<<>>) = <<>>
    BY <2>2, FlattenMore
  <2> QED BY <2>1, <2>3
<1>9. ShowFormats(text, 0, <<>>)
  BY DEF ShowFormats
<1>10. <<>> \o <<>> = <<>>
  OBVIOUS
<1>11. /\ Bare(R.items) \o Letters(start.text) = FlattenSeq(First(pieces, 0))
       /\ Values(R.items, Len(R.items)) = Count(text, 0)
       /\ os = FreshStream => R.os = FreshStream /\ ShowFormats(text, 0, R.items)
  BY <1>1, <1>2, <1>4, <1>5, <1>6, <1>7, <1>8, <1>9, <1>10
<1> QED BY <1>1, <1>11 DEF Shown, R

\* What init() makes of the text and the key, where the key has enough.
LEMMA WalkShown ==
    ASSUME NEW key \in Seq(Entry), Supported(key), NEW vals \in Seq(ValueType), Takes(key, vals), NEW limit \in Nat,
           NEW text \in Seq(TokenType), NEW start \in Started, NEW silent \in BOOLEAN, NEW os \in Stream,
           Begins(start, key, vals, limit, silent, os),
           start.used + Count(text, Len(text)) <= Len(key),
           NEW pieces \in Seq(Seq(OutType)), IsPieces(pieces, text, start.used, key, PutAll(key, vals, limit))
    PROVE  \A k \in 0 .. Len(text) :
              /\ Shown(WalkTo(key, start, text, k), text, k, pieces, key, vals, limit, silent, os)
              /\ WalkTo(key, start, text, k) \in WalkType /\ ~WalkTo(key, start, text, k).stop
              /\ WalkTo(key, start, text, k).used = start.used + Count(text, k)
<1> DEFINE W(k) == WalkTo(key, start, text, k)
           Good(k) == Shown(W(k), text, k, pieces, key, vals, limit, silent, os)
<1>1. start \in Started /\ ~start.stop /\ start.used <= Len(key) /\ start.used \in Nat
  BY DEF Begins, Started
<1>2. /\ W(0) = start
      /\ \A k \in 0 .. Len(text) :
            /\ W(k) \in WalkType /\ W(k).used <= Len(key)
            /\ W(k).stop <=> start.used + Count(text, k) > Len(key)
            /\ ~W(k).stop => W(k).used = start.used + Count(text, k)
      /\ \A k \in 1 .. Len(text) : W(k) = InitStep(key, W(k - 1), text[k])
  BY <1>1, WalkIs
<1>3. /\ \A k \in 0 .. Len(text) : Count(text, k) \in Nat
      /\ \A k \in 1 .. Len(text) : Count(text, k) = Count(text, k - 1) + (IF IsArg(text[k]) THEN 1 ELSE 0)
      /\ \A k \in 0 .. Len(text) : Count(text, k) <= Count(text, Len(text))
  <2>1. Len(text) \in 0 .. Len(text) /\ \A k \in 0 .. Len(text) : k \in 0 .. Len(text)
    OBVIOUS
  <2>2. \A m \in 0 .. Len(text) : \A j \in 0 .. m : Count(text, j) <= Count(text, m)
    BY CountIs
  <2>3. \A k \in 0 .. Len(text) : Count(text, k) <= Count(text, Len(text))
    BY <2>1, <2>2
  <2> QED BY <2>3, CountIs
<1>4. Len(vals) = Len(key)
  BY DEF Takes
<1>5. /\ pieces \in Seq(Seq(OutType)) /\ Len(pieces) = Len(text)
      /\ \A k \in 1 .. Len(text) : pieces[k] = Piece(text[k], start.used + Count(text, k), key, PutAll(key, vals, limit))
  BY DEF IsPieces
<1> HIDE DEF W
<1>6. \A k \in 0 .. Len(text) : W(k) \in WalkType /\ ~W(k).stop /\ W(k).used = start.used + Count(text, k)
  <2>1. SUFFICES ASSUME NEW k \in 0 .. Len(text)
                 PROVE  W(k) \in WalkType /\ ~W(k).stop /\ W(k).used = start.used + Count(text, k)
    OBVIOUS
  <2>2. Count(text, k) \in Nat /\ Count(text, k) <= Count(text, Len(text)) /\ Count(text, Len(text)) \in Nat /\ Len(key) \in Nat
    BY <1>3
  <2>3. ~(start.used + Count(text, k) > Len(key))
    BY <1>1, <2>2
  <2> QED BY <1>2, <2>3
<1>7. Good(0)
  <2>1. Shown(start, text, 0, pieces, key, vals, limit, silent, os)
    BY <1>4, <1>5, NothingShown
  <2> QED BY <1>2, <2>1
<1>8. ASSUME NEW k \in 1 .. Len(text), Good(k - 1)
      PROVE  Good(k)
  <2>1. k - 1 \in 0 .. Len(text) /\ k \in 0 .. Len(text)
    OBVIOUS
  <2>2. PICK st \in WalkType : st = W(k - 1)
    BY <1>6, <2>1
  <2>3. PICK new \in WalkType : new = W(k)
    BY <1>6, <2>1
  <2>4. /\ new = InitStep(key, st, text[k]) /\ ~st.stop /\ ~new.stop
        /\ st.used = start.used + Count(text, k - 1) /\ new.used = start.used + Count(text, k) /\ new.used <= Len(key)
    BY <1>2, <1>6, <2>1, <2>2, <2>3
  <2>5. st.used \in Nat /\ new.used \in Nat /\ st.used <= Len(key)
    BY <1>2, <2>1, <2>2, <2>3 DEF WalkType
  <2>6. Shown(st, text, k - 1, pieces, key, vals, limit, silent, os)
    BY <1>8, <2>2
  <2>7. text[k] \in TokenType
    OBVIOUS
  <2>8. text[k].k \in {"char", "percent", "lone", "arg"}
    BY <2>7, TokenIs
  <2>9. pieces[k] = Piece(text[k], start.used + Count(text, k), key, PutAll(key, vals, limit))
    BY <1>5
  <2> HIDE DEF Good
  <2>10. CASE text[k].k \in {"char", "lone"}
    <3>1. new.text = st.text \o Raw(text[k]) /\ new.list = st.list /\ new.used = st.used
      BY <2>4, <2>5, <2>7, <2>10, InitStepIs
    <3>2. pieces[k] = Letters(Raw(text[k]))
      BY <2>9, <2>10 DEF Piece, WordOf, IsArg
    <3>3. Shown(new, text, k, pieces, key, vals, limit, silent, os)
      BY <1>4, <1>5, <2>6, <2>10, <3>1, <3>2, CharShown
    <3> QED BY <2>3, <3>3 DEF Good
  <2>11. CASE text[k].k = "percent"
    <3>1. new.text = <<>> /\ new.list = st.list \o Static(Append(st.text, "%")) /\ new.used = st.used
      BY <2>4, <2>5, <2>7, <2>11, InitStepIs
    <3>2. pieces[k] = Letters(<<"%">>)
      BY <2>9, <2>11 DEF Piece, WordOf, IsArg
    <3>3. Shown(new, text, k, pieces, key, vals, limit, silent, os)
      BY <1>4, <1>5, <2>6, <2>11, <3>1, <3>2, PercentShown
    <3> QED BY <2>3, <3>3 DEF Good
  <2>12. CASE text[k].k = "arg"
    <3>1. IsArg(text[k])
      BY <2>12 DEF IsArg
    <3>2. Count(text, k) = Count(text, k - 1) + 1 /\ Count(text, k - 1) \in Nat
      BY <1>3, <2>1, <3>1
    <3>3. st.used < Len(key) /\ start.used + Count(text, k) = st.used + 1 /\ new.used = st.used + 1
      <4>1. Len(key) \in Nat
        OBVIOUS
      <4>2. new.used = st.used + 1
        BY <1>1, <2>4, <3>2
      <4> QED BY <2>4, <2>5, <4>1, <4>2
    <3>4. /\ new.text = <<>>
          /\ new.list = ((((st.list \o Pending(st)) \o Prefix(text[k])) \o SpecOf("apply", text[k]))
                        \o ValueFor(key, st, text[k])) \o SpecOf("reset", text[k])
      BY <2>4, <2>5, <2>7, <3>1, <3>3, InitStepIs
    <3>5. new.list = List5(key, st, text[k])
      BY <3>4 DEF List5, List4, List3, List2, List1
    <3>6. pieces[k] = Piece(text[k], st.used + 1, key, PutAll(key, vals, limit))
      BY <2>9, <3>3
    <3>7. Shown(new, text, k, pieces, key, vals, limit, silent, os)
      BY <1>5, <2>6, <3>1, <3>3, <3>4, <3>5, <3>6, ArgShown
    <3> QED BY <2>3, <3>7 DEF Good
  <2> QED BY <2>8, <2>10, <2>11, <2>12
<1> DEFINE T == {n \in Nat : n <= Len(text) => Good(n)}
<1>9. Nat \subseteq T
  <2> HIDE DEF Good
  <2>1. 0 \in T
    BY <1>7
  <2>2. ASSUME NEW n \in Nat, n \in T PROVE n + 1 \in T
    <3>1. SUFFICES ASSUME n + 1 <= Len(text) PROVE Good(n + 1)
      OBVIOUS
    <3>2. n + 1 \in 1 .. Len(text) /\ (n + 1) - 1 = n /\ n <= Len(text)
      BY <3>1
    <3>3. Good(n)
      BY <2>2, <3>2
    <3>4. Good((n + 1) - 1)
      BY <3>2, <3>3
    <3> QED BY <1>8, <3>2, <3>4
  <2> HIDE DEF T
  <2> QED BY <2>1, <2>2, Induction
<1>10. \A k \in 0 .. Len(text) : Good(k)
  <2> HIDE DEF Good
  <2> QED BY <1>9
<1> QED BY <1>6, <1>10 DEF W

(***************************************************************************)
(* As many placeholders as values.                                         *)
(***************************************************************************)

\* Where init() and format() start: behind the numbers of a wall clock, if there is one.
Skips(m) == m.clock /\ Len(m.key) > 2 /\ SubSeq(m.key, 1, 2) = <<Quad, Quad>>

\* What init() begins with.
Start(m) == [list |-> IF Skips(m) THEN Value(WallClock, FALSE) ELSE <<>>,
             used |-> IF Skips(m) THEN 2 ELSE 0, text |-> <<>>, stop |-> FALSE]

\* A descriptor as MessageFormatter is given it.
DescType0 == [text : Seq(TokenType), key : Seq(Entry), clock : BOOLEAN]

\* Nothing is printed by no formatter.
LEMMA EmptyFormat ==
    ASSUME NEW bytes \in Seq(Cells), NEW silent \in BOOLEAN, NEW os \in Stream
    PROVE  LET R == Format(<<>>, bytes, silent, os)
           IN  R \in PrintType /\ R.n = 0 /\ R.os = os /\ R.items = <<>>
<1>1. PICK list \in Seq(FormatterType) : TRUE
  <2>1. \A S : <<>> \in Seq(S)
    OBVIOUS
  <2> QED BY <2>1
<1>2. Format(<<>>, bytes, silent, os) = [n |-> 0, os |-> os, items |-> <<>>]
  BY <1>1, FormatOn
<1>3. [n |-> 0, os |-> os, items |-> <<>>] \in PrintType
  BY DEF PrintType
<1> QED BY <1>2, <1>3

\* The numbers of a wall clock are skipped.
LEMMA ClockFormat ==
    ASSUME NEW bytes \in Seq(Cells), NEW silent \in BOOLEAN, NEW os \in Stream
    PROVE  LET R == Format(Value(WallClock, FALSE), bytes, silent, os)
           IN  R.n = 16 /\ R.os = os /\ R.items = <<>>
<1>1. PICK f : f = [f |-> "value", e |-> WallClock, hex |-> FALSE]
  OBVIOUS
<1>2. f \in FormatterType /\ f.f = "value" /\ f.e.type = "w" /\ Value(WallClock, FALSE) = <<f>>
  BY <1>1 DEF FormatterType, Value, WallClock
<1> DEFINE R0 == Format(<<>>, bytes, silent, os)
<1>3. R0 \in PrintType /\ R0.n = 0 /\ R0.os = os /\ R0.items = <<>>
  BY EmptyFormat
<1>4. PICK list \in Seq(FormatterType) : list = <<>>
  <2>1. \A S : <<>> \in Seq(S)
    OBVIOUS
  <2> QED BY <2>1
<1>5. Format(list \o <<f>>, bytes, silent, os) = FormatStep(bytes, silent, Format(list, bytes, silent, os), f)
  BY <1>2, FormatOn
<1>6. list \o <<f>> = <<f>>
  BY <1>4
<1>7. Format(<<f>>, bytes, silent, os) = FormatStep(bytes, silent, R0, f)
  BY <1>4, <1>5, <1>6
<1>8. PICK r \in PrintType : r = R0
  BY <1>3
<1>9. /\ FormatStep(bytes, silent, r, f).n = r.n + 16
      /\ FormatStep(bytes, silent, r, f).os = r.os
      /\ FormatStep(bytes, silent, r, f).items = r.items
  BY <1>2, FormatClock
<1> HIDE DEF R0
<1>10. Format(Value(WallClock, FALSE), bytes, silent, os) = FormatStep(bytes, silent, r, f)
  BY <1>2, <1>7, <1>8
<1>11. r.n + 16 = 16
  BY <1>3, <1>8
<1> QED BY <1>3, <1>8, <1>9, <1>10, <1>11

\* A 64-bit number takes eight bytes.
LEMMA QuadPut ==
    ASSUME NEW v \in ValueType, v.given <= 0, v.len # -1, NEW limit \in Nat, NEW of \in Nat
    PROVE  Len(Put(Quad, v, limit, of)) = 8
<1>1. Quad \in Entry /\ Quad.opt = 0 /\ Quad.type = "q" /\ Size["q"] = 8
  BY DEF Quad, Entry, Size
<1>2. PICK p \in Seq(Cells) : p = Put(Quad, v, limit, of)
  BY <1>1, PutType
<1>3. PICK e \in Entry : e = Quad
  BY <1>1
<1>4. e.opt <= 1 /\ v.given <= e.opt /\ p = Put(e, v, limit, of)
  BY <1>1, <1>2, <1>3
<1>5. Len(p) = IF e.opt = 1 /\ p[1].n = 0 THEN 1
               ELSE e.opt + (IF e.type = "p" THEN 1 + p[e.opt + 1].n ELSE Size[e.type])
  BY <1>4, PutLength
<1> QED BY <1>1, <1>2, <1>3, <1>5

\* Where the values behind a wall clock begin.
LEMMA ClockOff ==
    ASSUME NEW key \in Seq(Entry), NEW vals \in Seq(ValueType), Takes(key, vals), NEW limit \in Nat,
           Len(key) > 2, key[1] = Quad, key[2] = Quad
    PROVE  Off(PutAll(key, vals, limit), 2) = 16
<1> DEFINE puts == PutAll(key, vals, limit)
<1>1. Len(vals) = Len(key)
  BY DEF Takes
<1>2. /\ puts \in Seq(Seq(Cells)) /\ Len(puts) = Len(key)
      /\ \A i \in 1 .. Len(key) : puts[i] = Put(key[i], vals[i], limit, i)
  BY <1>1, PeekIs
<1>3. 1 \in 1 .. Len(key) /\ 2 \in 1 .. Len(key) /\ Quad.opt = 0
  BY DEF Quad
<1>4. ASSUME NEW i \in 1 .. Len(key), key[i] = Quad
      PROVE  Len(puts[i]) = 8
  <2>1. PICK v \in ValueType : v = vals[i]
    BY <1>1
  <2>2. v.given <= 0 /\ v.len # -1 /\ i \in Nat
    BY <1>3, <1>4, <2>1 DEF Takes
  <2>3. Len(Put(Quad, v, limit, i)) = 8
    BY <2>2, QuadPut
  <2>4. puts[i] = Put(Quad, v, limit, i)
    BY <1>2, <1>4, <2>1
  <2> HIDE DEF puts
  <2> QED BY <2>3, <2>4
<1>5. Len(puts[1]) = 8 /\ Len(puts[2]) = 8
  BY <1>3, <1>4
<1> HIDE DEF puts
<1>6. /\ Off(puts, 0) = 0 /\ Off(puts, 1) = Off(puts, 1 - 1) + Len(puts[1])
      /\ Off(puts, 2) = Off(puts, 2 - 1) + Len(puts[2])
  BY <1>2, <1>3, OffIs
<1>7. 1 - 1 = 0 /\ 2 - 1 = 1
  OBVIOUS
<1> QED BY <1>5, <1>6, <1>7 DEF puts

\* It begins behind the numbers of a wall clock.
LEMMA StartBegins ==
    ASSUME NEW m \in DescType0, NEW vals \in Seq(ValueType), Takes(m.key, vals), NEW limit \in Nat,
           NEW silent \in BOOLEAN, NEW os \in Stream
    PROVE  Begins(Start(m), m.key, vals, limit, silent, os)
<1>0. PICK key \in Seq(Entry) : key = m.key
  BY DEF DescType0
<1>1. Takes(key, vals) /\ Len(vals) = Len(key) /\ Len(key) \in Nat
  BY <1>0 DEF Takes
<1> DEFINE bytes == Stored(key, vals, limit)
           puts == PutAll(key, vals, limit)
<1>2. bytes \in Seq(Cells) /\ puts \in Seq(Seq(Cells))
  BY <1>1, PeekIs
<1>3. CASE ~Skips(m)
  <2>1. Start(m) = [list |-> <<>>, used |-> 0, text |-> <<>>, stop |-> FALSE]
    BY <1>3 DEF Start
  <2>2. Start(m) \in Started
    BY <2>1 DEF Started
  <2>3. Start(m).used = 0 /\ Start(m).list = <<>> /\ ~Start(m).stop
    BY <2>1
  <2> HIDE DEF bytes, puts
  <2>4. LET R == Format(<<>>, bytes, silent, os)
        IN  R.n = 0 /\ R.os = os /\ R.items = <<>>
    BY <1>2, EmptyFormat
  <2>5. Off(puts, 0) = 0
    BY <1>2, OffIs
  <2>6. 0 <= Len(key)
    BY <1>1
  <2> QED BY <1>0, <2>2, <2>3, <2>4, <2>5, <2>6 DEF Begins, bytes, puts
<1>4. CASE Skips(m)
  <2>1. Start(m) = [list |-> Value(WallClock, FALSE), used |-> 2, text |-> <<>>, stop |-> FALSE]
    BY <1>4 DEF Start
  <2>2. Start(m) \in Started
    BY <2>1 DEF Started
  <2>3. Start(m).used = 2 /\ Start(m).list = Value(WallClock, FALSE) /\ ~Start(m).stop
    BY <2>1
  <2>4. Len(key) > 2 /\ key[1] = Quad /\ key[2] = Quad
    <3>1. SubSeq(key, 1, 2) = <<Quad, Quad>> /\ Len(key) > 2
      BY <1>0, <1>4 DEF Skips
    <3>2. SubSeq(key, 1, 2)[1] = key[1] /\ SubSeq(key, 1, 2)[2] = key[2]
      <4>1. 1 \in 1 .. 2 /\ 2 \in 1 .. 2
        OBVIOUS
      <4> QED BY <1>1, <3>1, <4>1
    <3>3. <<Quad, Quad>>[1] = Quad /\ <<Quad, Quad>>[2] = Quad
      OBVIOUS
    <3>4. key[1] = Quad /\ key[2] = Quad
      BY <3>1, <3>2, <3>3
    <3> QED BY <3>1, <3>4
  <2>5. Off(puts, 2) = 16
    BY <1>1, <2>4, ClockOff
  <2>6. 2 <= Len(key)
    BY <1>1, <2>4
  <2> HIDE DEF bytes, puts
  <2>7. LET R == Format(Value(WallClock, FALSE), bytes, silent, os)
        IN  R.n = 16 /\ R.os = os /\ R.items = <<>>
    BY <1>2, ClockFormat
  <2> QED BY <1>0, <2>2, <2>3, <2>5, <2>6, <2>7 DEF Begins, bytes, puts
<1> QED BY <1>3, <1>4

\* The list that init() ends with.
ListOf(key, start, text) ==
    LET last == WalkTo(key, start, text, Len(text))
    IN  IF last.text = <<>> THEN last.list ELSE last.list \o Static(last.text)

\* formatters_, with the words of these proofs.
LEMMA FormattersAre ==
    ASSUME NEW m \in DescType0
    PROVE  LET last == WalkTo(m.key, Start(m), m.text, Len(m.text))
           IN  Formatters(m) = IF last.stop \/ last.used < Len(m.key) THEN Apart(m.text, m.key)
                               ELSE ListOf(m.key, Start(m), m.text)
<1>1. First(m.text, Len(m.text)) = m.text
  BY FirstOf DEF DescType0
<1> QED BY <1>1 DEF Formatters, WalkTo, Walk, Start, Skips, ListOf

\* What a line shows of its values' formats.
Formatted(text, items) == ShowFormats(text, Len(text), items)

\* As many placeholders as values: each is replaced by its value.
AgreedGoes(key, vals, limit, text, start, silent, os, pieces) ==
    LET S == Format(ListOf(key, start, text), Stored(key, vals, limit), silent, os)
    IN  /\ ListOf(key, start, text) \in Seq(FormatterType)
        /\ S.n = Off(PutAll(key, vals, limit), Len(key))
        /\ Bare(S.items) = FlattenSeq(pieces)
        /\ os = FreshStream /\ StaysIn(text, key, silent) => S.os = FreshStream /\ Formatted(text, S.items)

\* With as many placeholders as values, each placeholder is replaced by its value.
LEMMA AgreedShown ==
    ASSUME NEW key \in Seq(Entry), Supported(key), NEW vals \in Seq(ValueType), Takes(key, vals), NEW limit \in Nat,
           NEW text \in Seq(TokenType), NEW start \in Started, NEW silent \in BOOLEAN, NEW os \in Stream,
           Begins(start, key, vals, limit, silent, os),
           start.used + Count(text, Len(text)) = Len(key),
           NEW pieces \in Seq(Seq(OutType)), IsPieces(pieces, text, start.used, key, PutAll(key, vals, limit))
    PROVE  AgreedGoes(key, vals, limit, text, start, silent, os, pieces)
<1> DEFINE last == WalkTo(key, start, text, Len(text))
           bytes == Stored(key, vals, limit)
           puts == PutAll(key, vals, limit)
           R == Format(last.list, bytes, silent, os)
           list == ListOf(key, start, text)
           S == Format(list, bytes, silent, os)
<1>1. start.used + Count(text, Len(text)) <= Len(key)
  OBVIOUS
<1>2. Len(text) \in 0 .. Len(text)
  OBVIOUS
<1>3. /\ Shown(last, text, Len(text), pieces, key, vals, limit, silent, os)
      /\ last \in WalkType /\ last.used = Len(key)
  <2>1. \A k \in 0 .. Len(text) :
              /\ Shown(WalkTo(key, start, text, k), text, k, pieces, key, vals, limit, silent, os)
              /\ WalkTo(key, start, text, k) \in WalkType
              /\ WalkTo(key, start, text, k).used = start.used + Count(text, k)
    BY <1>1, WalkShown
  <2> QED BY <1>2, <2>1
<1>4. list = last.list \o Pending(last)
  <2>1. last.list \in Seq(FormatterType)
    BY <1>3 DEF WalkType
  <2>2. last.list \o <<>> = last.list
    <3> HIDE DEF last
    <3> QED BY <2>1
  <2> QED BY <2>2 DEF Pending, ListOf
<1>5. Len(vals) = Len(key)
  BY DEF Takes
<1>6. bytes \in Seq(Cells)
  BY <1>5, PeekIs
<1>7. pieces \in Seq(Seq(OutType)) /\ Len(pieces) = Len(text)
  BY DEF IsPieces
<1> HIDE DEF last, bytes, puts, list
<1>8. last.list \in Seq(FormatterType) /\ last.text \in Seq(Letter)
  BY <1>3 DEF WalkType
<1>9. Pending(last) \in Seq(FormatterType) /\ (Pending(last) = Static(last.text) \/ (Pending(last) = <<>> /\ last.text = <<>>))
  BY <1>8, FormatterIs DEF Pending
<1>10. StaticGoes(last.list, Pending(last), last.text, bytes, silent, os, text, Len(text))
  BY <1>2, <1>6, <1>8, <1>9, StaticOn
<1>11. /\ R.n = Off(puts, last.used)
       /\ Bare(R.items) \o Letters(last.text) = FlattenSeq(First(pieces, Len(text)))
       /\ os = FreshStream /\ StaysIn(text, key, silent) => R.os = FreshStream /\ ShowFormats(text, Len(text), R.items)
  BY <1>3 DEF Shown, bytes, puts
<1>12. /\ list \in Seq(FormatterType)
       /\ S.n = R.n
       /\ Bare(S.items) = Bare(R.items) \o Letters(last.text)
       /\ R.os = FreshStream => S.os = FreshStream
       /\ R.os = FreshStream /\ ShowFormats(text, Len(text), R.items) => ShowFormats(text, Len(text), S.items)
  BY <1>4, <1>10 DEF StaticGoes
<1>13. First(pieces, Len(text)) = pieces
  BY <1>7, FirstOf
<1> HIDE DEF R, S
<1> QED BY <1>3, <1>11, <1>12, <1>13 DEF Formatted, S, list, bytes, puts, AgreedGoes

(***************************************************************************)
(* Text and values apart.                                                  *)
(***************************************************************************)

\* What stands before a value where text and values are apart, and the parts of that list.
Comma(i) == IF i > 1 THEN <<",">> ELSE <<>>

\* The formatters of value i, where text and values are apart.
Part(key, i) == (IF i > 1 THEN Static(<<",">>) ELSE <<>>) \o Value(key[i], FALSE)

\* Those of all of them.
Parts(key) == [i \in 1 .. Len(key) |-> Part(key, i)]

\* The text as it stands.
RawText(text) == FlattenSeq([k \in 1 .. Len(text) |-> Raw(text[k])])

\* The formatters of the text, where it stands apart.
ApartHead(text) == Static(RawText(text)) \o Static(<<" % (">>)

\* Followed by those of the first k values.
ApartTo(text, key, k) == ApartHead(text) \o FlattenSeq(First(Parts(key), k))

\* What it is printed as.
Listed(key, puts) == [i \in 1 .. Len(key) |-> Letters(Comma(i)) \o <<[bytes |-> puts[i], hex |-> FALSE]>>]

\* What the former print.
HeadShown(text) == Letters(RawText(text)) \o Letters(<<" % (">>)

\* Its values have no format: they are printed as if each had a bare placeholder.
Blank == Arg("s", {})

\* A text that asks for every value plainly.
Blanks(key) == [i \in 1 .. Len(key) |-> Blank]

\* Such a text has as many placeholders as there are values, and no formats.
LEMMA BlankIs ==
    ASSUME NEW key \in Seq(Entry), NEW silent \in BOOLEAN
    PROVE  /\ Blank \in TokenType /\ IsArg(Blank) /\ Blank.spec = {} /\ Blank.conv = "s"
           /\ Blanks(key) \in Seq(TokenType) /\ Len(Blanks(key)) = Len(key)
           /\ \A i \in 1 .. Len(key) : Blanks(key)[i] = Blank
           /\ StaysIn(Blanks(key), key, silent)
           /\ \A k \in 0 .. Len(key) : Count(Blanks(key), k) = k
<1>1. Blank \in TokenType /\ IsArg(Blank) /\ Blank.spec = {} /\ Blank.conv = "s"
  BY DEF Blank, Arg, IsArg, TokenType
<1> DEFINE text == Blanks(key)
<1>2. /\ text \in Seq(TokenType) /\ Len(text) = Len(key) /\ DOMAIN text = 1 .. Len(key)
      /\ \A i \in 1 .. Len(key) : text[i] = Blank
  BY <1>1 DEF Blanks
<1> HIDE DEF text
<1>3. StaysIn(text, key, silent)
  BY <1>1, <1>2 DEF StaysIn
<1> DEFINE T == {n \in Nat : n <= Len(key) => Count(text, n) = n}
<1>4. /\ Count(text, 0) = 0
      /\ \A k \in 1 .. Len(key) : Count(text, k) = Count(text, k - 1) + 1
  <2>1. /\ Count(text, 0) = 0
        /\ \A k \in 1 .. Len(text) : Count(text, k) = Count(text, k - 1) + (IF IsArg(text[k]) THEN 1 ELSE 0)
    BY <1>2, CountIs
  <2> QED BY <1>1, <1>2, <2>1
<1>5. Nat \subseteq T
  <2>1. 0 \in T
    BY <1>4
  <2>2. ASSUME NEW n \in Nat, n \in T PROVE n + 1 \in T
    <3>1. n + 1 <= Len(key) => n + 1 \in 1 .. Len(key) /\ (n + 1) - 1 = n /\ n <= Len(key)
      OBVIOUS
    <3> QED BY <1>4, <2>2, <3>1
  <2> HIDE DEF T
  <2> QED BY <2>1, <2>2, Induction
<1>6. \A k \in 0 .. Len(key) : Count(text, k) = k
  BY <1>5
<1> QED BY <1>1, <1>2, <1>3, <1>6 DEF text

\* Sequences of formatters, and of what is shown, put together.
LEMMA ListsJoin ==
    ASSUME NEW a \in Seq(FormatterType), NEW b \in Seq(FormatterType)
    PROVE  a \o b \in Seq(FormatterType) /\ a \o <<>> = a /\ <<>> \o a = a
OBVIOUS

\* Joining is associative.
LEMMA ListsTogether ==
    ASSUME NEW a \in Seq(FormatterType), NEW b \in Seq(FormatterType), NEW c \in Seq(FormatterType)
    PROVE  (a \o b) \o c = a \o (b \o c)
OBVIOUS

\* What is printed is joined.
LEMMA OutsJoin ==
    ASSUME NEW a \in Seq(OutType), NEW b \in Seq(OutType)
    PROVE  a \o b \in Seq(OutType) /\ a \o <<>> = a /\ <<>> \o a = a
OBVIOUS

\* The formatters of the parts.
LEMMA PartsType ==
    ASSUME NEW key \in Seq(Entry)
    PROVE  /\ Parts(key) \in Seq(Seq(FormatterType)) /\ Len(Parts(key)) = Len(key)
           /\ \A i \in 1 .. Len(key) : /\ Parts(key)[i] = Part(key, i)
                                       /\ Comma(i) \in Seq(Letter)
                                       /\ Value(key[i], FALSE) \in Seq(FormatterType)
<1>1. Static(<<",">>) \in Seq(FormatterType) /\ <<",">> \in Seq(Letter)
  <2>1. <<",">> \in Seq(Letter)
    BY LettersAre
  <2> QED BY <2>1, FormatterIs
<1>2. ASSUME NEW i \in 1 .. Len(key)
      PROVE  Part(key, i) \in Seq(FormatterType) /\ Comma(i) \in Seq(Letter) /\ Value(key[i], FALSE) \in Seq(FormatterType)
  <2>1. key[i] \in Entry \cup {WallClock} /\ FALSE \in BOOLEAN
    OBVIOUS
  <2>2. Value(key[i], FALSE) \in Seq(FormatterType)
    BY <2>1, FormatterIs
  <2>3. <<>> \in Seq(FormatterType) /\ <<>> \in Seq(Letter)
    OBVIOUS
  <2>4. Comma(i) \in Seq(Letter)
    BY <1>1, <2>3 DEF Comma
  <2>5. CASE i > 1
    <3>1. Part(key, i) = Static(<<",">>) \o Value(key[i], FALSE)
      BY <2>5 DEF Part
    <3>2. Part(key, i) \in Seq(FormatterType)
      BY <1>1, <2>2, <3>1, ListsJoin
    <3> QED BY <2>2, <2>4, <3>2
  <2>6. CASE ~(i > 1)
    <3>1. Part(key, i) = <<>> \o Value(key[i], FALSE)
      BY <2>6 DEF Part
    <3>2. Part(key, i) \in Seq(FormatterType)
      BY <2>2, <2>3, <3>1, ListsJoin
    <3> QED BY <2>2, <2>4, <3>2
  <2> QED BY <2>5, <2>6
<1>3. Len(key) \in Nat
  OBVIOUS
<1>4. Parts(key) \in Seq(Seq(FormatterType)) /\ Len(Parts(key)) = Len(key)
  <2>1. \A i \in 1 .. Len(key) : Part(key, i) \in Seq(FormatterType)
    BY <1>2
  <2> QED BY <1>3, <2>1 DEF Parts
<1>5. \A i \in 1 .. Len(key) : Parts(key)[i] = Part(key, i)
  BY DEF Parts
<1> QED BY <1>2, <1>4, <1>5

\* The raw text.
LEMMA RawType ==
    ASSUME NEW text \in Seq(TokenType)
    PROVE  RawText(text) \in Seq(Letter)
<1> DEFINE raws == [k \in 1 .. Len(text) |-> Raw(text[k])]
<1>1. \A k \in 1 .. Len(text) : Raw(text[k]) \in Seq(Letter)
  <2>1. \A k \in 1 .. Len(text) : text[k] \in TokenType
    OBVIOUS
  <2> QED BY <2>1, TokenIs
<1>2. raws \in Seq(Seq(Letter))
  BY <1>1
<1> HIDE DEF raws
<1>3. FlattenSeq(First(raws, Len(raws))) \in Seq(Letter)
  <2>1. Len(raws) \in 0 .. Len(raws)
    BY <1>2
  <2> QED BY <1>2, <2>1, OffIs
<1>4. First(raws, Len(raws)) = raws
  BY <1>2, FirstOf
<1> QED BY <1>3, <1>4 DEF RawText, raws

\* What the list has printed with the first k values.
ApartGood(text, key, vals, limit, silent, os, k) ==
    LET puts == PutAll(key, vals, limit)
        R == Format(ApartTo(text, key, k), Stored(key, vals, limit), silent, os)
    IN  /\ ApartTo(text, key, k) \in Seq(FormatterType)
        /\ R.n = Off(puts, k)
        /\ Bare(R.items) = HeadShown(text) \o FlattenSeq(First(Listed(key, puts), k))
        /\ Values(R.items, Len(R.items)) = k
        /\ os = FreshStream => R.os = FreshStream /\ ShowFormats(Blanks(key), k, R.items)

\* Before the first value.
LEMMA ApartBegins ==
    ASSUME NEW key \in Seq(Entry), NEW vals \in Seq(ValueType), Len(vals) = Len(key), NEW limit \in Nat,
           NEW text \in Seq(TokenType), NEW silent \in BOOLEAN, NEW os \in Stream
    PROVE  ApartGood(text, key, vals, limit, silent, os, 0)
<1> DEFINE bytes == Stored(key, vals, limit)
           puts == PutAll(key, vals, limit)
           raw == RawText(text)
           one == <<" % (">>
           R0 == Format(<<>>, bytes, silent, os)
           R1 == Format(<<>> \o Static(raw), bytes, silent, os)
           R2 == Format((<<>> \o Static(raw)) \o Static(one), bytes, silent, os)
<1>1. bytes \in Seq(Cells) /\ puts \in Seq(Seq(Cells)) /\ Len(puts) = Len(key)
  BY PeekIs
<1>2. raw \in Seq(Letter) /\ one \in Seq(Letter)
  BY RawType, LettersAre
<1>3. Static(raw) \in Seq(FormatterType) /\ Static(one) \in Seq(FormatterType)
  <2> HIDE DEF raw, one
  <2> QED BY <1>2, FormatterIs
<1>4. Blanks(key) \in Seq(TokenType) /\ 0 \in 0 .. Len(Blanks(key)) /\ Len(Blanks(key)) = Len(key)
  <2>1. Blanks(key) \in Seq(TokenType) /\ Len(Blanks(key)) = Len(key)
    BY BlankIs
  <2> QED BY <2>1
<1>5. PICK none \in Seq(FormatterType) : none = <<>>
  <2>1. \A S : <<>> \in Seq(S)
    OBVIOUS
  <2> QED BY <2>1
<1> HIDE DEF bytes, puts, raw, one
<1>6. StaticGoes(none, Static(raw), raw, bytes, silent, os, Blanks(key), 0)
  BY <1>1, <1>2, <1>3, <1>4, <1>5, StaticOn
<1>7. none \o Static(raw) \in Seq(FormatterType)
  BY <1>6 DEF StaticGoes
<1>8. StaticGoes(none \o Static(raw), Static(one), one, bytes, silent, os, Blanks(key), 0)
  BY <1>1, <1>2, <1>3, <1>4, <1>7, StaticOn
<1>9. R0 \in PrintType /\ R0.n = 0 /\ R0.os = os /\ R0.items = <<>>
  BY <1>1, EmptyFormat
<1>10. /\ R1.n = R0.n /\ Bare(R1.items) = Bare(R0.items) \o Letters(raw)
       /\ Values(R1.items, Len(R1.items)) = Values(R0.items, Len(R0.items))
       /\ R0.os = FreshStream => R1.os = FreshStream
       /\ R0.os = FreshStream /\ ShowFormats(Blanks(key), 0, R0.items) => ShowFormats(Blanks(key), 0, R1.items)
  BY <1>5, <1>6 DEF StaticGoes
<1>11. /\ (<<>> \o Static(raw)) \o Static(one) \in Seq(FormatterType)
       /\ R2.n = R1.n /\ Bare(R2.items) = Bare(R1.items) \o Letters(one)
       /\ Values(R2.items, Len(R2.items)) = Values(R1.items, Len(R1.items))
       /\ R1.os = FreshStream => R2.os = FreshStream
       /\ R1.os = FreshStream /\ ShowFormats(Blanks(key), 0, R1.items) => ShowFormats(Blanks(key), 0, R2.items)
  BY <1>5, <1>8 DEF StaticGoes
<1>12. Bare(<<>>) = <<>> /\ Values(<<>>, Len(<<>>)) = 0
  <2>1. <<>> \in Seq(ItemType) /\ Len(<<>>) = 0 /\ <<>> \in Seq(Letter)
    OBVIOUS
  <2>2. PICK x \in ItemType : x = [of |-> <<>>, pad |-> FALSE]
    BY <2>1 DEF ItemType
  <2>3. Bare(<<>>) = <<>>
    BY <2>1, <2>2, BareMore
  <2>4. Values(<<>>, 0) = 0
    BY <2>1, <2>2, ValuesMore
  <2> QED BY <2>1, <2>3, <2>4
<1>13. Letters(raw) \in Seq(OutType) /\ Letters(one) \in Seq(OutType)
  BY <1>2, LettersMore
<1>14. FlattenSeq(First(Listed(key, puts), 0)) = <<>> /\ FlattenSeq(First(Parts(key), 0)) = <<>>
  <2>1. First(Listed(key, puts), 0) = <<>> /\ First(Parts(key), 0) = <<>>
    BY DEF First
  <2>2. FlattenSeq(<<>>) = <<>>
    BY DEF FlattenSeq
  <2> QED BY <2>1, <2>2
<1>15. ApartTo(text, key, 0) = (<<>> \o Static(raw)) \o Static(one)
  <2>1. ApartTo(text, key, 0) = (Static(raw) \o Static(one)) \o <<>>
    BY <1>14 DEF ApartTo, ApartHead, raw, one
  <2>2. (Static(raw) \o Static(one)) \o <<>> = Static(raw) \o Static(one) /\ <<>> \o Static(raw) = Static(raw)
    BY <1>3
  <2> QED BY <2>1, <2>2
<1>16. Bare(R2.items) = HeadShown(text) \o FlattenSeq(First(Listed(key, puts), 0))
  <2>1. (<<>> \o Letters(raw)) \o Letters(one) = (Letters(raw) \o Letters(one)) \o <<>>
    BY <1>13
  <2> QED BY <1>9, <1>10, <1>11, <1>12, <1>14, <2>1 DEF HeadShown, raw, one
<1>17. ShowFormats(Blanks(key), 0, <<>>)
  BY DEF ShowFormats
<1>18. Off(puts, 0) = 0
  BY <1>1, OffIs
<1> HIDE DEF R0, R1
<1>19. /\ R2.n = Off(puts, 0) /\ Values(R2.items, Len(R2.items)) = 0
       /\ os = FreshStream => R2.os = FreshStream /\ ShowFormats(Blanks(key), 0, R2.items)
  BY <1>9, <1>10, <1>11, <1>12, <1>17, <1>18
<1>20. R2 = Format(ApartTo(text, key, 0), bytes, silent, os) /\ ApartTo(text, key, 0) \in Seq(FormatterType)
  BY <1>11, <1>15
<1> HIDE DEF R2
<1> QED BY <1>16, <1>19, <1>20 DEF ApartGood, bytes, puts

\* A value more.
LEMMA ApartMore ==
    ASSUME NEW key \in Seq(Entry), Supported(key), NEW vals \in Seq(ValueType), Takes(key, vals), NEW limit \in Nat,
           NEW text \in Seq(TokenType), NEW silent \in BOOLEAN, NEW os \in Stream,
           NEW k \in 1 .. Len(key), ApartGood(text, key, vals, limit, silent, os, k - 1)
    PROVE  ApartGood(text, key, vals, limit, silent, os, k)
<1> DEFINE bytes == Stored(key, vals, limit)
           puts == PutAll(key, vals, limit)
           before == ApartTo(text, key, k - 1)
           st == [list |-> before, used |-> k - 1, text |-> Comma(k), stop |-> FALSE]
           R == Format(before, bytes, silent, os)
           S == Format(List5(key, st, Blank), bytes, silent, os)
           show == [bytes |-> puts[k], hex |-> FALSE]
           texts == Blanks(key)
<1>1. Len(vals) = Len(key)
  BY DEF Takes
<1>2. bytes \in Seq(Cells) /\ puts \in Seq(Seq(Cells)) /\ Len(puts) = Len(key)
  BY <1>1, PeekIs
<1>3. /\ before \in Seq(FormatterType)
      /\ R.n = Off(puts, k - 1)
      /\ Bare(R.items) = HeadShown(text) \o FlattenSeq(First(Listed(key, puts), k - 1))
      /\ Values(R.items, Len(R.items)) = k - 1
      /\ os = FreshStream => R.os = FreshStream /\ ShowFormats(texts, k - 1, R.items)
  BY DEF ApartGood
<1>4. /\ Parts(key) \in Seq(Seq(FormatterType)) /\ Len(Parts(key)) = Len(key)
      /\ Parts(key)[k] = Part(key, k) /\ Comma(k) \in Seq(Letter) /\ Value(key[k], FALSE) \in Seq(FormatterType)
  BY PartsType
<1>5. /\ Blank \in TokenType /\ IsArg(Blank) /\ Blank.spec = {} /\ Blank.conv = "s"
      /\ texts \in Seq(TokenType) /\ Len(texts) = Len(key) /\ texts[k] = Blank
      /\ StaysIn(texts, key, silent)
      /\ Count(texts, k - 1) = k - 1
  <2>1. k - 1 \in 0 .. Len(key)
    OBVIOUS
  <2> QED BY <2>1, BlankIs
<1> HIDE DEF before, texts
<1>6. k - 1 \in Nat /\ k - 1 < Len(key) /\ (k - 1) + 1 = k
  OBVIOUS
<1>7. st \in WalkType /\ st.list = before /\ st.used = k - 1 /\ st.text = Comma(k)
  BY <1>3, <1>4, <1>6 DEF WalkType
<1> HIDE DEF st
<1>8. List5(key, st, Blank) = ApartTo(text, key, k) /\ ApartTo(text, key, k) \in Seq(FormatterType)
  <2>1. SpecOf("apply", Blank) = <<>> /\ SpecOf("reset", Blank) = <<>> /\ Prefix(Blank) = <<>>
    BY <1>5 DEF SpecOf, Prefix
  <2>2. ValueFor(key, st, Blank) = Value(key[k], FALSE)
    <3>1. ("s" \in {"x", "p"}) = FALSE
      OBVIOUS
    <3>2. (Blank.conv \in {"x", "p"}) = FALSE
      BY <1>5, <3>1
    <3> QED BY <1>6, <1>7, <3>2 DEF ValueFor
  <2>3. Pending(st) = (IF k > 1 THEN Static(<<",">>) ELSE <<>>)
    <3>1. <<",">> # <<>>
      OBVIOUS
    <3>2. CASE k > 1
      <4>1. st.text = <<",">>
        BY <1>7, <3>2 DEF Comma
      <4> QED BY <3>1, <3>2, <4>1 DEF Pending
    <3>3. CASE ~(k > 1)
      <4>1. st.text = <<>>
        BY <1>7, <3>3 DEF Comma
      <4> QED BY <3>3, <4>1 DEF Pending
    <3> QED BY <3>2, <3>3
  <2>4. Pending(st) \in Seq(FormatterType)
    <3>1. st.used < Len(key)
      BY <1>6, <1>7
    <3> QED BY <1>5, <1>7, <3>1, PartsAre
  <2> DEFINE v == Value(key[k], FALSE)
             p == Pending(st)
  <2>5. Part(key, k) = p \o v
    BY <2>3 DEF Part
  <2>6. p \in Seq(FormatterType) /\ v \in Seq(FormatterType)
    BY <1>4, <2>4
  <2>7. List5(key, st, Blank) = ((((before \o p) \o <<>>) \o <<>>) \o v) \o <<>>
    BY <1>7, <2>1, <2>2 DEF List5, List4, List3, List2, List1
  <2> HIDE DEF v, p
  <2>8. ((((before \o p) \o <<>>) \o <<>>) \o v) \o <<>> = before \o (p \o v)
    <3>1. before \o p \in Seq(FormatterType)
      BY <1>3, <2>6, ListsJoin
    <3>2. (before \o p) \o <<>> = before \o p
      BY <2>6, <3>1, ListsJoin
    <3>3. (before \o p) \o v \in Seq(FormatterType)
      BY <2>6, <3>1, ListsJoin
    <3>4. ((before \o p) \o v) \o <<>> = (before \o p) \o v
      BY <2>6, <3>3, ListsJoin
    <3>5. (before \o p) \o v = before \o (p \o v)
      BY <1>3, <2>6, ListsTogether
    <3> QED BY <3>2, <3>4, <3>5
  <2>9. /\ FlattenSeq(First(Parts(key), k)) = FlattenSeq(First(Parts(key), k - 1)) \o (p \o v)
        /\ FlattenSeq(First(Parts(key), k - 1)) \in Seq(FormatterType)
    <3>1. k \in 1 .. Len(Parts(key)) /\ k - 1 \in 0 .. Len(Parts(key))
      BY <1>4
    <3>2. FlattenSeq(First(Parts(key), k)) = FlattenSeq(First(Parts(key), k - 1)) \o Parts(key)[k]
      BY <1>4, <3>1, OffIs
    <3>3. FlattenSeq(First(Parts(key), k - 1)) \in Seq(FormatterType)
      BY <1>4, <3>1, OffIs
    <3> QED BY <1>4, <2>5, <3>2, <3>3
  <2>10. ApartHead(text) \in Seq(FormatterType)
    <3>1. RawText(text) \in Seq(Letter)
      BY RawType
    <3>2. <<" % (">> \in Seq(Letter)
      BY LettersAre
    <3>3. Static(RawText(text)) \in Seq(FormatterType) /\ Static(<<" % (">>) \in Seq(FormatterType)
      BY <3>1, <3>2, FormatterIs
    <3>4. Static(RawText(text)) \o Static(<<" % (">>) \in Seq(FormatterType)
      BY <3>3, ListsJoin
    <3> QED BY <3>4 DEF ApartHead
  <2> DEFINE h == ApartHead(text)
             a == FlattenSeq(First(Parts(key), k - 1))
  <2>11. before = h \o a /\ ApartTo(text, key, k) = h \o (a \o (p \o v))
    BY <2>9 DEF before, ApartTo
  <2>12. h \in Seq(FormatterType) /\ a \in Seq(FormatterType)
    BY <2>9, <2>10
  <2> HIDE DEF h, a
  <2>13. h \o (a \o (p \o v)) = (h \o a) \o (p \o v)
    <3>1. p \o v \in Seq(FormatterType)
      BY <2>6, ListsJoin
    <3> QED BY <2>12, <3>1, ListsTogether
  <2>14. before \o (p \o v) \in Seq(FormatterType)
    <3>1. p \o v \in Seq(FormatterType)
      BY <2>6, ListsJoin
    <3> QED BY <1>3, <3>1, ListsJoin
  <2> QED BY <2>7, <2>8, <2>11, <2>13, <2>14
<1>9. /\ S.n = Off(puts, k)
      /\ Bare(S.items) = ((Bare(R.items) \o Letters(Comma(k))) \o Letters(PrefixOf(Blank))) \o <<show>>
      /\ Values(S.items, Len(S.items)) = (k - 1) + 1
  <2>1. Format(st.list, Stored(key, vals, limit), silent, os).n = Off(PutAll(key, vals, limit), st.used)
    BY <1>3, <1>7
  <2>2. st.used < Len(key)
    BY <1>6, <1>7
  <2>3. ArgGoes(st, Blank, key, vals, limit, silent, os)
    BY <1>5, <1>7, <2>1, <2>2, ArgText
  <2>4. (Blank.conv \in {"x", "p"} /\ key[k].type \in {"u", "s", "i", "q"}) = FALSE
    BY <1>5
  <2>5. st.used + 1 = k
    BY <1>6, <1>7
  <2>6. /\ S.n = Off(puts, k)
        /\ Bare(S.items) = ((Bare(Format(st.list, bytes, silent, os).items) \o Letters(st.text)) \o Letters(PrefixOf(Blank)))
              \o <<[bytes |-> puts[k], hex |-> (Blank.conv \in {"x", "p"} /\ key[k].type \in {"u", "s", "i", "q"})]>>
        /\ Values(S.items, Len(S.items))
              = Values(Format(st.list, bytes, silent, os).items, Len(Format(st.list, bytes, silent, os).items)) + 1
    BY <2>3, <2>5 DEF ArgGoes
  <2> HIDE DEF bytes, puts
  <2> QED BY <1>3, <1>7, <2>4, <2>6
<1>10. os = FreshStream => S.os = FreshStream /\ ShowFormats(texts, k, S.items)
  <2>1. SUFFICES ASSUME os = FreshStream PROVE S.os = FreshStream /\ ShowFormats(texts, k, S.items)
    OBVIOUS
  <2>2. /\ Format(st.list, Stored(key, vals, limit), silent, os).n = Off(PutAll(key, vals, limit), st.used)
        /\ LET R0 == Format(st.list, Stored(key, vals, limit), silent, os)
           IN  /\ R0.os = FreshStream /\ ShowFormats(texts, k - 1, R0.items)
               /\ Values(R0.items, Len(R0.items)) = Count(texts, k - 1)
    BY <1>3, <1>5, <1>7, <2>1
  <2>3. st.used < Len(key) /\ k \in 1 .. Len(texts) /\ IsArg(texts[k])
    BY <1>5, <1>6, <1>7
  <2>4. LET T == Format(List5(key, st, texts[k]), Stored(key, vals, limit), silent, os)
        IN  T.os = FreshStream /\ ShowFormats(texts, k, T.items)
    BY <1>5, <1>7, <2>2, <2>3, ArgFormats
  <2> QED BY <1>5, <2>4
<1> HIDE DEF bytes, puts
<1>11. Bare(R.items) \in Seq(OutType)
  <2>1. R \in PrintType
    BY <1>2, <1>3, FormatIs
  <2>2. R.items \in Seq(ItemType)
    BY <2>1 DEF PrintType
  <2>3. <<>> \in Seq(Letter)
    OBVIOUS
  <2>4. PICK x \in ItemType : x = [of |-> <<>>, pad |-> FALSE]
    BY <2>3 DEF ItemType
  <2> HIDE DEF R
  <2> QED BY <2>2, <2>4, BareMore
<1>12. puts[k] \in Seq(Cells)
  BY <1>2
<1>13. /\ Listed(key, puts) \in Seq(Seq(OutType)) /\ Len(Listed(key, puts)) = Len(key)
       /\ Listed(key, puts)[k] = Letters(Comma(k)) \o <<show>>
  <2>1. ASSUME NEW i \in 1 .. Len(key)
        PROVE  Letters(Comma(i)) \o <<[bytes |-> puts[i], hex |-> FALSE]>> \in Seq(OutType)
    <3>1. Comma(i) \in Seq(Letter)
      BY PartsType
    <3>2. Letters(Comma(i)) \in Seq(OutType)
      BY <3>1, LettersMore
    <3>3. puts[i] \in Seq(Cells)
      BY <1>2
    <3>4. [bytes |-> puts[i], hex |-> FALSE] \in OutType
      BY <3>3 DEF OutType
    <3> QED BY <3>2, <3>4
  <2>2. Len(key) \in Nat
    OBVIOUS
  <2> QED BY <2>1, <2>2 DEF Listed
<1>14. FlattenSeq(First(Listed(key, puts), k)) = FlattenSeq(First(Listed(key, puts), k - 1)) \o Listed(key, puts)[k]
       /\ FlattenSeq(First(Listed(key, puts), k - 1)) \in Seq(OutType)
  <2>1. k \in 1 .. Len(Listed(key, puts)) /\ k - 1 \in 0 .. Len(Listed(key, puts))
    BY <1>13
  <2>2. FlattenSeq(First(Listed(key, puts), k - 1)) \in Seq(OutType)
    BY <1>13, <2>1, OffIs
  <2> QED BY <1>13, <2>1, <2>2, OffIs
<1>15. Letters(Comma(k)) \in Seq(OutType) /\ Letters(PrefixOf(Blank)) = <<>> /\ HeadShown(text) \in Seq(OutType)
  <2>1. PrefixOf(Blank) = <<>>
    BY <1>5 DEF PrefixOf
  <2>2. RawText(text) \in Seq(Letter) /\ <<" % (">> \in Seq(Letter) /\ <<>> \in Seq(Letter)
    BY RawType, LettersAre
  <2>3. Letters(Comma(k)) \in Seq(OutType) /\ Letters(<<>>) = <<>>
    BY <1>4, <2>2, LettersMore
  <2>4. Letters(RawText(text)) \in Seq(OutType) /\ Letters(<<" % (">>) \in Seq(OutType)
    BY <2>2, LettersMore
  <2>5. Letters(RawText(text)) \o Letters(<<" % (">>) \in Seq(OutType)
    BY <2>4, OutsJoin
  <2> QED BY <2>1, <2>3, <2>5 DEF HeadShown
<1>16. show \in OutType
  BY <1>12 DEF OutType
<1> DEFINE hd == HeadShown(text)
           ls == FlattenSeq(First(Listed(key, puts), k - 1))
           cm == Letters(Comma(k))
<1>17. hd \in Seq(OutType) /\ ls \in Seq(OutType) /\ cm \in Seq(OutType)
  BY <1>14, <1>15
<1>18. /\ Bare(R.items) = hd \o ls
       /\ Bare(S.items) = ((Bare(R.items) \o cm) \o <<>>) \o <<show>>
       /\ FlattenSeq(First(Listed(key, puts), k)) = ls \o (cm \o <<show>>)
  BY <1>3, <1>9, <1>13, <1>14, <1>15
<1> HIDE DEF hd, ls, cm, show
<1>19. (((hd \o ls) \o cm) \o <<>>) \o <<show>> = hd \o (ls \o (cm \o <<show>>))
  <2> DEFINE sh == <<show>>
  <2>1. sh \in Seq(OutType)
    BY <1>16
  <2> HIDE DEF sh
  <2>2. hd \o ls \in Seq(OutType) /\ cm \o sh \in Seq(OutType)
    BY <1>17, <2>1, OutsJoin
  <2>3. (hd \o ls) \o cm \in Seq(OutType)
    BY <1>17, <2>2, OutsJoin
  <2>4. ((hd \o ls) \o cm) \o <<>> = (hd \o ls) \o cm
    BY <2>2, <2>3, OutsJoin
  <2>5. ((hd \o ls) \o cm) \o sh = (hd \o ls) \o (cm \o sh)
    <3>1. PICK x \in Seq(OutType) : x = hd \o ls
      BY <2>2
    <3>2. (x \o cm) \o sh = x \o (cm \o sh)
      BY <1>17, <2>1, Together
    <3> QED BY <3>1, <3>2
  <2>6. (hd \o ls) \o (cm \o sh) = hd \o (ls \o (cm \o sh))
    BY <1>17, <2>2, Together
  <2> QED BY <2>4, <2>5, <2>6 DEF sh
<1>20. Bare(S.items) = HeadShown(text) \o FlattenSeq(First(Listed(key, puts), k))
  <2> HIDE DEF R, S
  <2> QED BY <1>18, <1>19 DEF hd
<1>21. Values(S.items, Len(S.items)) = k
  BY <1>6, <1>9
<1> HIDE DEF R, S
<1>22. S = Format(ApartTo(text, key, k), bytes, silent, os)
  BY <1>8 DEF S
<1> QED BY <1>8, <1>9, <1>10, <1>20, <1>21, <1>22 DEF ApartGood, bytes, puts, texts

\* Text and values apart, as they are printed.
ApartShown(text, key, puts) == (HeadShown(text) \o FlattenSeq(Listed(key, puts))) \o Letters(<<") ">>)

\* Behind the last value.
LEMMA ApartAll ==
    ASSUME NEW key \in Seq(Entry), Supported(key), NEW vals \in Seq(ValueType), Takes(key, vals), NEW limit \in Nat,
           NEW text \in Seq(TokenType), NEW silent \in BOOLEAN, NEW os \in Stream
    PROVE  ApartGood(text, key, vals, limit, silent, os, Len(key))
<1> DEFINE Good(k) == ApartGood(text, key, vals, limit, silent, os, k)
           T == {n \in Nat : n <= Len(key) => Good(n)}
<1>1. Good(0)
  <2>1. Len(vals) = Len(key)
    BY DEF Takes
  <2> QED BY <2>1, ApartBegins
<1>2. \A k \in 1 .. Len(key) : Good(k - 1) => Good(k)
  BY ApartMore
<1>3. Nat \subseteq T
  <2> HIDE DEF Good
  <2>1. 0 \in T
    BY <1>1
  <2>2. ASSUME NEW n \in Nat, n \in T PROVE n + 1 \in T
    <3>1. n + 1 <= Len(key) => n + 1 \in 1 .. Len(key) /\ (n + 1) - 1 = n /\ n <= Len(key)
      OBVIOUS
    <3>2. SUFFICES ASSUME n + 1 <= Len(key) PROVE Good(n + 1)
      OBVIOUS
    <3>3. Good((n + 1) - 1)
      BY <2>2, <3>1, <3>2
    <3> QED BY <1>2, <3>1, <3>2, <3>3
  <2> HIDE DEF T
  <2> QED BY <2>1, <2>2, Induction
<1>4. Len(key) \in Nat /\ Len(key) <= Len(key)
  OBVIOUS
<1> HIDE DEF Good
<1>5. Good(Len(key))
  BY <1>3, <1>4
<1> QED BY <1>5 DEF Good

\* With text and values apart, the text is printed as it stands, then each value.
LEMMA ApartPrinted ==
    ASSUME NEW key \in Seq(Entry), Supported(key), NEW vals \in Seq(ValueType), Takes(key, vals), NEW limit \in Nat,
           NEW text \in Seq(TokenType), NEW silent \in BOOLEAN, NEW os \in Stream
    PROVE  LET puts == PutAll(key, vals, limit)
               S == Format(Apart(text, key), Stored(key, vals, limit), silent, os)
           IN  /\ Apart(text, key) \in Seq(FormatterType)
               /\ S.n = Off(puts, Len(key))
               /\ Bare(S.items) = ApartShown(text, key, puts)
               /\ os = FreshStream => S.os = FreshStream /\ ShowFormats(Blanks(key), Len(key), S.items)
<1> DEFINE bytes == Stored(key, vals, limit)
           puts == PutAll(key, vals, limit)
           all == ApartTo(text, key, Len(key))
           tail == <<") ">>
           R == Format(all, bytes, silent, os)
           S == Format(all \o Static(tail), bytes, silent, os)
<1>1. Len(vals) = Len(key)
  BY DEF Takes
<1>2. bytes \in Seq(Cells)
  BY <1>1, PeekIs
<1>3. ApartGood(text, key, vals, limit, silent, os, Len(key))
  BY ApartAll
<1>4. /\ all \in Seq(FormatterType)
      /\ R.n = Off(puts, Len(key))
      /\ Bare(R.items) = HeadShown(text) \o FlattenSeq(First(Listed(key, puts), Len(key)))
      /\ os = FreshStream => R.os = FreshStream /\ ShowFormats(Blanks(key), Len(key), R.items)
  BY <1>3 DEF ApartGood
<1>5. tail \in Seq(Letter) /\ Static(tail) \in Seq(FormatterType)
  <2>1. tail \in Seq(Letter)
    BY LettersAre
  <2> HIDE DEF tail
  <2> QED BY <2>1, FormatterIs
<1>6. Blanks(key) \in Seq(TokenType) /\ Len(key) \in 0 .. Len(Blanks(key))
  <2>1. Blanks(key) \in Seq(TokenType) /\ Len(Blanks(key)) = Len(key)
    BY BlankIs
  <2> QED BY <2>1
<1> HIDE DEF bytes, puts, all, tail
<1>7. StaticGoes(all, Static(tail), tail, bytes, silent, os, Blanks(key), Len(key))
  BY <1>2, <1>4, <1>5, <1>6, StaticOn
<1>8. /\ all \o Static(tail) \in Seq(FormatterType)
      /\ S.n = R.n /\ Bare(S.items) = Bare(R.items) \o Letters(tail)
      /\ R.os = FreshStream => S.os = FreshStream
      /\ R.os = FreshStream /\ ShowFormats(Blanks(key), Len(key), R.items) => ShowFormats(Blanks(key), Len(key), S.items)
  BY <1>7 DEF StaticGoes
<1>9. Apart(text, key) = all \o Static(tail)
  <2>1. Parts(key) \in Seq(Seq(FormatterType)) /\ Len(Parts(key)) = Len(key)
    BY PartsType
  <2>2. First(Parts(key), Len(key)) = Parts(key)
    BY <2>1, FirstOf
  <2>3. Parts(key) = [i \in 1 .. Len(key) |-> (IF i > 1 THEN Static(<<",">>) ELSE <<>>) \o Value(key[i], FALSE)]
    BY DEF Parts, Part
  <2> QED BY <2>2, <2>3 DEF Apart, all, tail, ApartTo, ApartHead, RawText
<1>10. First(Listed(key, puts), Len(key)) = Listed(key, puts)
  BY DEF First, Listed
<1>11. Bare(S.items) = ApartShown(text, key, puts)
  BY <1>4, <1>8, <1>10 DEF ApartShown, tail
<1> HIDE DEF R
<1>12. /\ S.n = Off(puts, Len(key))
       /\ os = FreshStream => S.os = FreshStream /\ ShowFormats(Blanks(key), Len(key), S.items)
  BY <1>4, <1>8
<1>13. S = Format(Apart(text, key), bytes, silent, os)
  BY <1>9
<1> HIDE DEF S
<1> QED BY <1>8, <1>9, <1>11, <1>12, <1>13 DEF bytes, puts

(***************************************************************************)
(* Every descriptor.                                                       *)
(***************************************************************************)

\* What each token is to be printed as.
PiecesOf(text, base, key, puts) == [k \in 1 .. Len(text) |-> Piece(text[k], base + Count(text, k), key, puts)]

\* Each piece is that of its token.
LEMMA PiecesAre ==
    ASSUME NEW key \in Seq(Entry), NEW puts \in Seq(Seq(Cells)), Len(puts) = Len(key),
           NEW text \in Seq(TokenType), NEW base \in Nat, base + Count(text, Len(text)) = Len(key)
    PROVE  /\ PiecesOf(text, base, key, puts) \in Seq(Seq(OutType))
           /\ IsPieces(PiecesOf(text, base, key, puts), text, base, key, puts)
<1>1. ASSUME NEW k \in 1 .. Len(text)
      PROVE  Piece(text[k], base + Count(text, k), key, puts) \in Seq(OutType)
  <2> DEFINE t == text[k]
             i == base + Count(text, k)
  <2>1. t \in TokenType
    OBVIOUS
  <2>2. CASE IsArg(t)
    <3>1. i \in 1 .. Len(puts)
      <4>1. k \in 0 .. Len(text) /\ k - 1 \in 0 .. Len(text) /\ Len(text) \in 0 .. Len(text)
        OBVIOUS
      <4>2. Count(text, k) \in Nat /\ Count(text, k - 1) \in Nat /\ Count(text, Len(text)) \in Nat
        BY <4>1, CountIs
      <4>3. \A m \in 0 .. Len(text) : \A j \in 0 .. m : Count(text, j) <= Count(text, m)
        BY CountIs
      <4>4. Count(text, k) = Count(text, k - 1) + 1
        BY <2>2, CountIs
      <4>5. Count(text, k) <= Count(text, Len(text))
        BY <4>1, <4>3
      <4>6. Len(key) \in Nat
        OBVIOUS
      <4> QED BY <4>2, <4>4, <4>5, <4>6
    <3> HIDE DEF t, i
    <3>2. puts[i] \in Seq(Cells)
      BY <3>1
    <3>3. PICK x : x = [bytes |-> puts[i], hex |-> t.conv \in {"x", "p"} /\ key[i].type \in {"u", "s", "i", "q"}]
      OBVIOUS
    <3>4. x \in OutType
      BY <3>2, <3>3 DEF OutType
    <3>5. PrefixOf(t) \in Seq(Letter)
      BY LettersAre DEF PrefixOf
    <3>6. Letters(PrefixOf(t)) \in Seq(OutType)
      BY <3>5, LettersMore
    <3>7. Piece(t, i, key, puts) = Letters(PrefixOf(t)) \o <<x>>
      BY <2>2, <3>3 DEF Piece
    <3>8. <<x>> \in Seq(OutType)
      BY <3>4
    <3>9. Piece(t, i, key, puts) \in Seq(OutType)
      BY <3>6, <3>7, <3>8, OutsJoin
    <3> QED BY <3>9 DEF t, i
  <2>3. CASE ~IsArg(t)
    <3>1. WordOf(t) \in Seq(Letter)
      <4>1. Raw(t) \in Seq(Letter)
        BY <2>1, TokenIs
      <4>2. <<"%">> \in Seq(Letter)
        BY LettersAre
      <4> QED BY <4>1, <4>2 DEF WordOf
    <3>2. Letters(WordOf(t)) \in Seq(OutType)
      BY <3>1, LettersMore
    <3> QED BY <2>3, <3>2 DEF Piece
  <2> QED BY <2>2, <2>3
<1>2. Len(text) \in Nat
  OBVIOUS
<1>3. \A k \in 1 .. Len(text) : Piece(text[k], base + Count(text, k), key, puts) \in Seq(OutType)
  BY <1>1
<1>4. PiecesOf(text, base, key, puts) \in Seq(Seq(OutType)) /\ Len(PiecesOf(text, base, key, puts)) = Len(text)
  BY <1>2, <1>3 DEF PiecesOf
<1>5. \A k \in 1 .. Len(text) : PiecesOf(text, base, key, puts)[k] = Piece(text[k], base + Count(text, k), key, puts)
  BY DEF PiecesOf
<1> QED BY <1>4, <1>5 DEF IsPieces

\* Placeholders and values agree in number, as init() counts them.
Agreed(m) == Start(m).used + Count(m.text, Len(m.text)) = Len(m.key)

\* What a line shows of a description and the values put for it, and how long it takes them to be.
DescShown(m, vals, limit, silent, os) ==
    LET puts == PutAll(m.key, vals, limit)
        bytes == Stored(m.key, vals, limit)
        S == Format(Formatters(m), bytes, silent, os)
    IN  /\ Formatters(m) \in Seq(FormatterType)
        /\ S \in PrintType
        /\ S.n = Off(puts, Len(m.key)) /\ Length(Formatters(m), bytes) = S.n
        /\ Bare(S.items) = IF Agreed(m) THEN FlattenSeq(PiecesOf(m.text, Start(m).used, m.key, puts))
                           ELSE ApartShown(m.text, m.key, puts)
        /\ os = FreshStream /\ StaysIn(m.text, m.key, silent) =>
              /\ S.os = FreshStream
              /\ IF Agreed(m) THEN Formatted(m.text, S.items) ELSE Formatted(Blanks(m.key), S.items)

\* MessageFormatter::format() prints what was put, and length() knows how long it
\* is: for every descriptor that the formatter knows, all values that
\* it takes, any limit of a string, and whatever state std::cout is in.
THEOREM Printing ==
    ASSUME NEW m \in DescType0, Supported(m.key), NEW vals \in Seq(ValueType), Takes(m.key, vals), NEW limit \in Nat,
           NEW silent \in BOOLEAN, NEW os \in Stream
    PROVE  DescShown(m, vals, limit, silent, os)
<1> DEFINE key == m.key
           text == m.text
           bytes == Stored(key, vals, limit)
           puts == PutAll(key, vals, limit)
           last == WalkTo(key, Start(m), text, Len(text))
           S == Format(Formatters(m), bytes, silent, os)
<1>1. key \in Seq(Entry) /\ text \in Seq(TokenType)
  BY DEF DescType0
<1>2. Supported(key) /\ Takes(key, vals) /\ Len(vals) = Len(key)
  BY DEF Takes
<1>3. Begins(Start(m), key, vals, limit, silent, os)
  BY StartBegins
<1>4. Formatters(m) = IF last.stop \/ last.used < Len(key) THEN Apart(text, key)
                      ELSE ListOf(key, Start(m), text)
  BY FormattersAre
<1> HIDE DEF key, text
<1>5. bytes \in Seq(Cells) /\ puts \in Seq(Seq(Cells)) /\ Len(puts) = Len(key)
  BY <1>1, <1>2, PeekIs
<1>6. Start(m) \in Started /\ ~Start(m).stop /\ Start(m).used <= Len(key)
  BY <1>3 DEF Begins
<1>7. Start(m).used \in Nat /\ Len(text) \in 0 .. Len(text)
  BY <1>1, <1>6 DEF Started
<1>8. /\ last.used <= Len(key)
      /\ last.stop <=> Start(m).used + Count(text, Len(text)) > Len(key)
      /\ ~last.stop => last.used = Start(m).used + Count(text, Len(text))
  <2>1. \A k \in 0 .. Len(text) :
           /\ WalkTo(key, Start(m), text, k).used <= Len(key)
           /\ WalkTo(key, Start(m), text, k).stop <=> Start(m).used + Count(text, k) > Len(key)
           /\ ~WalkTo(key, Start(m), text, k).stop => WalkTo(key, Start(m), text, k).used = Start(m).used + Count(text, k)
    BY <1>1, <1>6, WalkIs
  <2> QED BY <1>7, <2>1
<1>9. Count(text, Len(text)) \in Nat /\ Len(key) \in Nat
  BY <1>1, <1>7, CountIs
<1>10. Agreed(m) <=> Start(m).used + Count(text, Len(text)) = Len(key)
  BY DEF Agreed, key, text
<1> HIDE DEF last, bytes, puts
<1>11. Agreed(m) <=> ~(last.stop \/ last.used < Len(key))
  BY <1>7, <1>8, <1>9, <1>10
<1>12. CASE Agreed(m)
  <2>1. /\ PiecesOf(text, Start(m).used, key, puts) \in Seq(Seq(OutType))
        /\ IsPieces(PiecesOf(text, Start(m).used, key, puts), text, Start(m).used, key, puts)
    BY <1>1, <1>5, <1>7, <1>10, <1>12, PiecesAre
  <2>2. Formatters(m) = ListOf(key, Start(m), text)
    BY <1>4, <1>11, <1>12
  <2>3. Start(m).used + Count(text, Len(text)) = Len(key)
    BY <1>10, <1>12
  <2>4. /\ Formatters(m) \in Seq(FormatterType)
        /\ S.n = Off(puts, Len(key))
        /\ Bare(S.items) = FlattenSeq(PiecesOf(text, Start(m).used, key, puts))
        /\ os = FreshStream /\ StaysIn(text, key, silent) => S.os = FreshStream /\ Formatted(text, S.items)
    <3>1. PICK start \in Started : start = Start(m)
      BY <1>6
    <3>2. PICK pieces \in Seq(Seq(OutType)) : pieces = PiecesOf(text, start.used, key, puts)
      BY <2>1, <3>1
    <3>3. /\ Begins(start, key, vals, limit, silent, os)
          /\ start.used + Count(text, Len(text)) = Len(key)
          /\ IsPieces(pieces, text, start.used, key, PutAll(key, vals, limit))
      BY <1>3, <2>1, <2>3, <3>1, <3>2 DEF puts
    <3>4. AgreedGoes(key, vals, limit, text, start, silent, os, pieces)
      BY <1>1, <1>2, <3>3, AgreedShown
    <3> QED BY <2>2, <3>1, <3>2, <3>4 DEF AgreedGoes, bytes, puts
  <2>5. S \in PrintType /\ Length(Formatters(m), bytes) = S.n
    BY <1>5, <2>4, FormatIs
  <2> HIDE DEF S
  <2> QED BY <1>12, <2>4, <2>5 DEF DescShown, S, key, text, bytes, puts
<1>13. CASE ~Agreed(m)
  <2>1. Formatters(m) = Apart(text, key)
    BY <1>4, <1>11, <1>13
  <2>2. /\ Formatters(m) \in Seq(FormatterType)
        /\ S.n = Off(puts, Len(key))
        /\ Bare(S.items) = ApartShown(text, key, puts)
        /\ os = FreshStream => S.os = FreshStream /\ ShowFormats(Blanks(key), Len(key), S.items)
    <3>1. LET S0 == Format(Apart(text, key), Stored(key, vals, limit), silent, os)
          IN  /\ Apart(text, key) \in Seq(FormatterType)
              /\ S0.n = Off(PutAll(key, vals, limit), Len(key))
              /\ Bare(S0.items) = ApartShown(text, key, PutAll(key, vals, limit))
              /\ os = FreshStream => S0.os = FreshStream /\ ShowFormats(Blanks(key), Len(key), S0.items)
      BY <1>1, <1>2, ApartPrinted
    <3> QED BY <2>1, <3>1 DEF bytes, puts
  <2>3. S \in PrintType /\ Length(Formatters(m), bytes) = S.n
    BY <1>5, <2>2, FormatIs
  <2>4. Len(Blanks(key)) = Len(key)
    BY <1>1, BlankIs
  <2>5. os = FreshStream => S.os = FreshStream /\ Formatted(Blanks(key), S.items)
    BY <2>2, <2>4 DEF Formatted
  <2> HIDE DEF S
  <2> QED BY <1>13, <2>2, <2>3, <2>5 DEF DescShown, S, key, text, bytes, puts
<1> QED BY <1>12, <1>13

(***************************************************************************)
(* QTFMT: the text as its pieces mean it.                                  *)
(***************************************************************************)

\* What FmtTokens asks of the text, and what it makes of the rest.
Reads(chars, i, s) == SubSeq(chars, i, Min({Len(chars), i + Len(s) - 1})) = s

\* What FmtTokens makes of the characters from i on, if f is what it makes of those
\* behind.
RestAt(chars, f, i) ==
    CASE i > Len(chars) -> <<>>
      [] Reads(chars, i, <<"{", "{">>) -> <<Char("{")>> \o f[i + 2]
      [] Reads(chars, i, <<"}", "}">>) -> <<Char("}")>> \o f[i + 2]
      [] Reads(chars, i, <<"{", "}">>) -> <<Arg("s", {})>> \o f[i + 2]
      [] Reads(chars, i, <<"{", ":", "x", "}">>) -> <<Arg("x", {})>> \o f[i + 4]
      [] Reads(chars, i, <<"{", ":", "#", "x", "}">>) -> <<Arg("x", {"flags"})>> \o f[i + 5]
      [] OTHER -> IF chars[i] \in {"{", "}"}
                  THEN [k \in 1 .. Len(chars) - i + 1 |-> Char(chars[i + k - 1])]
                  ELSE <<Char(chars[i])>> \o f[i + 1]

\* f is what FmtTokens makes of them.
FixOf(chars, f) == f = [i \in 1 .. Len(chars) + 1 |-> RestAt(chars, f, i)]

\* A word stands at i.
Stands(chars, i, s) == /\ i + Len(s) - 1 <= Len(chars)
                       /\ \A j \in 1 .. Len(s) : chars[i + j - 1] = s[j]

\* A piece of text stands there.
LEMMA ReadsIs ==
    ASSUME NEW chars \in Seq(Letter), NEW i \in 1 .. Len(chars) + 1, NEW s \in Seq(Letter), Len(s) >= 1
    PROVE  Reads(chars, i, s) <=> Stands(chars, i, s)
<1> DEFINE last == i + Len(s) - 1
           m == Min({Len(chars), last})
<1>1. last \in Nat /\ Len(chars) \in Nat /\ i >= 1 /\ i <= Len(chars) + 1 /\ last >= i
  OBVIOUS
<1> HIDE DEF last
<1>2. m = IF Len(chars) <= last THEN Len(chars) ELSE last
  BY <1>1, MinOf
<1> HIDE DEF m
<1>3. m \in Nat /\ m >= i - 1 /\ m <= Len(chars)
  BY <1>1, <1>2
<1>4. /\ SubSeq(chars, i, m) \in Seq(Letter) /\ Len(SubSeq(chars, i, m)) = m - i + 1
      /\ \A j \in 1 .. m - i + 1 : SubSeq(chars, i, m)[j] = chars[i + j - 1]
  BY <1>1, <1>3
<1>5. Reads(chars, i, s) <=> SubSeq(chars, i, m) = s
  BY DEF Reads, m, last
<1> DEFINE sub == SubSeq(chars, i, m)
<1> HIDE DEF sub
<1>6. ASSUME sub = s
      PROVE  last <= Len(chars) /\ \A j \in 1 .. Len(s) : chars[i + j - 1] = s[j]
  <2>1. Len(s) = m - i + 1
    BY <1>4, <1>6 DEF sub
  <2>2. m = last
    BY <1>1, <1>3, <2>1 DEF last
  <2> QED BY <1>3, <1>4, <1>6, <2>1, <2>2 DEF sub
<1>7. ASSUME last <= Len(chars), \A j \in 1 .. Len(s) : chars[i + j - 1] = s[j]
      PROVE  sub = s
  <2>1. m = last
    BY <1>1, <1>2, <1>7
  <2>2. m - i + 1 = Len(s)
    BY <1>1, <2>1 DEF last
  <2>3. Len(sub) = Len(s) /\ \A j \in 1 .. Len(s) : sub[j] = s[j]
    BY <1>4, <1>7, <2>2 DEF sub
  <2>4. sub \in Seq(Letter)
    BY <1>4 DEF sub
  <2> QED BY <2>3, <2>4, SeqEqual
<1> QED BY <1>5, <1>6, <1>7 DEF sub, last, Stands

\* The patterns are texts.
LEMMA Patterns ==
    /\ \A a, b \in Letter : <<a, b>> \in Seq(Letter) /\ Len(<<a, b>>) = 2
    /\ \A a, b, c, d \in Letter : <<a, b, c, d>> \in Seq(Letter) /\ Len(<<a, b, c, d>>) = 4
    /\ \A a, b, c, d, e \in Letter : <<a, b, c, d, e>> \in Seq(Letter) /\ Len(<<a, b, c, d, e>>) = 5
    /\ "{" \in Letter /\ "}" \in Letter /\ ":" \in Letter /\ "#" \in Letter /\ "x" \in Letter /\ "a" \in Letter
<1>1. /\ \A a, b \in Letter : <<a, b>> \in Seq(Letter) /\ Len(<<a, b>>) = 2
      /\ \A a, b, c, d \in Letter : <<a, b, c, d>> \in Seq(Letter) /\ Len(<<a, b, c, d>>) = 4
      /\ \A a, b, c, d, e \in Letter : <<a, b, c, d, e>> \in Seq(Letter) /\ Len(<<a, b, c, d, e>>) = 5
  OBVIOUS
<1>2. "{" \in Letter /\ "}" \in Letter /\ ":" \in Letter /\ "#" \in Letter /\ "x" \in Letter /\ "a" \in Letter
  BY DEF Letter
<1> QED BY <1>1, <1>2

\* Where a piece of text of two, four or five characters stands.
LEMMA ReadsTwo ==
    ASSUME NEW chars \in Seq(Letter), NEW i \in 1 .. Len(chars) + 1, NEW a \in Letter, NEW b \in Letter
    PROVE  Reads(chars, i, <<a, b>>) <=> i + 1 <= Len(chars) /\ chars[i] = a /\ chars[i + 1] = b
<1>0. <<a, b>> \in Seq(Letter)
  OBVIOUS
<1>1. PICK s \in Seq(Letter) : s = <<a, b>>
  BY <1>0
<1>2. s \in Seq(Letter) /\ Len(s) = 2 /\ s[1] = a /\ s[2] = b
  BY <1>1
<1>3. Len(s) >= 1
  BY <1>2
<1>4. Reads(chars, i, s) <=> Stands(chars, i, s)
  BY <1>3, ReadsIs
<1>5. 1 .. 2 = {1, 2} /\ i + 1 - 1 = i /\ i + 2 - 1 = i + 1
  OBVIOUS
<1> QED BY <1>1, <1>2, <1>4, <1>5 DEF Stands

\* What it is to read a word of four characters.
LEMMA ReadsFour ==
    ASSUME NEW chars \in Seq(Letter), NEW i \in 1 .. Len(chars) + 1,
           NEW a \in Letter, NEW b \in Letter, NEW c \in Letter, NEW d \in Letter
    PROVE  Reads(chars, i, <<a, b, c, d>>) <=>
              i + 3 <= Len(chars) /\ chars[i] = a /\ chars[i + 1] = b /\ chars[i + 2] = c /\ chars[i + 3] = d
<1>0. <<a, b, c, d>> \in Seq(Letter)
  OBVIOUS
<1>1. PICK s \in Seq(Letter) : s = <<a, b, c, d>>
  BY <1>0
<1>2. s \in Seq(Letter) /\ Len(s) = 4 /\ s[1] = a /\ s[2] = b /\ s[3] = c /\ s[4] = d
  BY <1>1
<1>3. Len(s) >= 1
  BY <1>2
<1>4. Reads(chars, i, s) <=> Stands(chars, i, s)
  BY <1>3, ReadsIs
<1>5. 1 .. 4 = {1, 2, 3, 4} /\ i + 1 - 1 = i /\ i + 2 - 1 = i + 1 /\ i + 3 - 1 = i + 2 /\ i + 4 - 1 = i + 3
  OBVIOUS
<1> QED BY <1>1, <1>2, <1>4, <1>5 DEF Stands

\* Five characters stand at i.
Five(chars, i, a, b, c, d, e) ==
    /\ i + 4 <= Len(chars) /\ chars[i] = a /\ chars[i + 1] = b /\ chars[i + 2] = c
    /\ chars[i + 3] = d /\ chars[i + 4] = e

\* What it is to read a word of five characters.
LEMMA ReadsFive ==
    ASSUME NEW chars \in Seq(Letter), NEW i \in 1 .. Len(chars) + 1,
           NEW a \in Letter, NEW b \in Letter, NEW c \in Letter, NEW d \in Letter, NEW e \in Letter
    PROVE  Reads(chars, i, <<a, b, c, d, e>>) <=> Five(chars, i, a, b, c, d, e)
<1>0. <<a, b, c, d, e>> \in Seq(Letter)
  OBVIOUS
<1>1. PICK s \in Seq(Letter) : s = <<a, b, c, d, e>>
  BY <1>0
<1>2. s \in Seq(Letter) /\ Len(s) = 5 /\ s[1] = a /\ s[2] = b /\ s[3] = c /\ s[4] = d /\ s[5] = e
  BY <1>1
<1>3. Len(s) >= 1
  BY <1>2
<1>4. Reads(chars, i, s) <=> Stands(chars, i, s)
  BY <1>3, ReadsIs
<1>5. 1 .. 5 = {1, 2, 3, 4, 5} /\ i + 1 - 1 = i /\ i + 2 - 1 = i + 1 /\ i + 3 - 1 = i + 2 /\ i + 4 - 1 = i + 3
      /\ i + 5 - 1 = i + 4
  OBVIOUS
<1> QED BY <1>1, <1>2, <1>4, <1>5 DEF Stands, Five

\* The tokens of QTFMT.
LEMMA FmtTokenIs ==
    /\ \A c \in Letter : Char(c) \in TokenType
    /\ Arg("s", {}) \in TokenType /\ Arg("x", {}) \in TokenType /\ Arg("x", {"flags"}) \in TokenType
BY DEF Char, Arg, TokenType

\* The characters of a text that FmtTokens looks for, and what it makes of the rest where it finds them.
AtOpen(chars, i) == i + 1 <= Len(chars) /\ chars[i] = "{" /\ chars[i + 1] = "{"

\* "}}" stands at i.
AtClose(chars, i) == i + 1 <= Len(chars) /\ chars[i] = "}" /\ chars[i + 1] = "}"

\* "{}" stands at i.
AtValue(chars, i) == i + 1 <= Len(chars) /\ chars[i] = "{" /\ chars[i + 1] = "}"

\* "{:x}" stands at i.
AtHex(chars, i) == /\ i + 3 <= Len(chars) /\ chars[i] = "{" /\ chars[i + 1] = ":" /\ chars[i + 2] = "x"
                   /\ chars[i + 3] = "}"

\* "{:#x}" stands at i.
AtAlt(chars, i) == /\ i + 4 <= Len(chars) /\ chars[i] = "{" /\ chars[i + 1] = ":" /\ chars[i + 2] = "#"
                   /\ chars[i + 3] = "x" /\ chars[i + 4] = "}"

\* None of these does.
AtOther(chars, i) == ~AtOpen(chars, i) /\ ~AtClose(chars, i) /\ ~AtValue(chars, i) /\ ~AtHex(chars, i) /\ ~AtAlt(chars, i)

\* The characters from i on, as they are.
TheRest(chars, i) == [k \in 1 .. Len(chars) - i + 1 |-> Char(chars[i + k - 1])]

\* What FmtTokens makes of them, word by word.
RestGoes(chars, f, i) ==
    /\ AtOpen(chars, i) => RestAt(chars, f, i) = <<Char("{")>> \o f[i + 2]
    /\ AtClose(chars, i) => RestAt(chars, f, i) = <<Char("}")>> \o f[i + 2]
    /\ AtValue(chars, i) => RestAt(chars, f, i) = <<Arg("s", {})>> \o f[i + 2]
    /\ AtHex(chars, i) => RestAt(chars, f, i) = <<Arg("x", {})>> \o f[i + 4]
    /\ AtAlt(chars, i) => RestAt(chars, f, i) = <<Arg("x", {"flags"})>> \o f[i + 5]
    /\ AtOther(chars, i) /\ i > Len(chars) => RestAt(chars, f, i) = <<>>
    /\ AtOther(chars, i) /\ ~(i > Len(chars)) /\ chars[i] \in {"{", "}"} => RestAt(chars, f, i) = TheRest(chars, i)
    /\ AtOther(chars, i) /\ ~(i > Len(chars)) /\ chars[i] \notin {"{", "}"} =>
          RestAt(chars, f, i) = <<Char(chars[i])>> \o f[i + 1]

\* It is what the definition says.
LEMMA RestCases ==
    ASSUME NEW chars \in Seq(Letter), NEW i \in 1 .. Len(chars) + 1, NEW f
    PROVE  RestGoes(chars, f, i)
<1>0. Len(chars) \in Nat /\ i \in Nat
  OBVIOUS
<1> DEFINE A == Reads(chars, i, <<"{", "{">>)
           B == Reads(chars, i, <<"}", "}">>)
           C == Reads(chars, i, <<"{", "}">>)
           D == Reads(chars, i, <<"{", ":", "x", "}">>)
           E == Reads(chars, i, <<"{", ":", "#", "x", "}">>)
           all == TheRest(chars, i)
<1>1. RestAt(chars, f, i) =
            CASE i > Len(chars) -> <<>>
              [] A -> <<Char("{")>> \o f[i + 2]
              [] B -> <<Char("}")>> \o f[i + 2]
              [] C -> <<Arg("s", {})>> \o f[i + 2]
              [] D -> <<Arg("x", {})>> \o f[i + 4]
              [] E -> <<Arg("x", {"flags"})>> \o f[i + 5]
              [] OTHER -> IF chars[i] \in {"{", "}"} THEN all ELSE <<Char(chars[i])>> \o f[i + 1]
  BY DEF RestAt, TheRest
<1>2. PICK open \in Letter, close \in Letter, colon \in Letter, sharp \in Letter, x \in Letter :
         open = "{" /\ close = "}" /\ colon = ":" /\ sharp = "#" /\ x = "x"
  BY Patterns
<1>3. A <=> i + 1 <= Len(chars) /\ chars[i] = open /\ chars[i + 1] = open
  <2>1. Reads(chars, i, <<open, open>>) <=> i + 1 <= Len(chars) /\ chars[i] = open /\ chars[i + 1] = open
    BY ReadsTwo
  <2> QED BY <1>2, <2>1
<1>4. B <=> i + 1 <= Len(chars) /\ chars[i] = close /\ chars[i + 1] = close
  <2>1. Reads(chars, i, <<close, close>>) <=> i + 1 <= Len(chars) /\ chars[i] = close /\ chars[i + 1] = close
    BY ReadsTwo
  <2> QED BY <1>2, <2>1
<1>5. C <=> i + 1 <= Len(chars) /\ chars[i] = open /\ chars[i + 1] = close
  <2>1. Reads(chars, i, <<open, close>>) <=> i + 1 <= Len(chars) /\ chars[i] = open /\ chars[i + 1] = close
    BY ReadsTwo
  <2> QED BY <1>2, <2>1
<1>6. D <=> i + 3 <= Len(chars) /\ chars[i] = open /\ chars[i + 1] = colon /\ chars[i + 2] = x /\ chars[i + 3] = close
  <2>1. Reads(chars, i, <<open, colon, x, close>>) <=>
          i + 3 <= Len(chars) /\ chars[i] = open /\ chars[i + 1] = colon /\ chars[i + 2] = x /\ chars[i + 3] = close
    BY ReadsFour
  <2> QED BY <1>2, <2>1
<1>7. E <=> /\ i + 4 <= Len(chars) /\ chars[i] = open /\ chars[i + 1] = colon /\ chars[i + 2] = sharp
            /\ chars[i + 3] = x /\ chars[i + 4] = close
  <2>1. Reads(chars, i, <<open, colon, sharp, x, close>>) <=> Five(chars, i, open, colon, sharp, x, close)
    BY ReadsFive
  <2>2. E = Reads(chars, i, <<open, colon, sharp, x, close>>)
    BY <1>2
  <2> HIDE DEF E
  <2> QED BY <2>1, <2>2 DEF Five
<1>8. open # close /\ open # colon /\ close # colon /\ sharp # x
  BY <1>2
<1> HIDE DEF A, B, C, D, E, all
<1>9. /\ (A => ~B /\ ~C /\ ~D /\ ~E) /\ (B => ~C /\ ~D /\ ~E) /\ (C => ~D /\ ~E) /\ (D => ~E)
      /\ A \/ B \/ C => i + 1 <= Len(chars)
      /\ D => i + 3 <= Len(chars)
      /\ E => i + 4 <= Len(chars)
  BY <1>3, <1>4, <1>5, <1>6, <1>7, <1>8
<1>10. /\ A <=> AtOpen(chars, i)
       /\ B <=> AtClose(chars, i)
       /\ C <=> AtValue(chars, i)
       /\ D <=> AtHex(chars, i)
       /\ E <=> AtAlt(chars, i)
  BY <1>2, <1>3, <1>4, <1>5, <1>6, <1>7 DEF AtOpen, AtClose, AtValue, AtHex, AtAlt
<1>11. /\ A \/ B \/ C => ~(i > Len(chars))
       /\ D => ~(i > Len(chars))
       /\ E => ~(i > Len(chars))
  BY <1>0, <1>9
<1>12. A => RestAt(chars, f, i) = <<Char("{")>> \o f[i + 2]
  BY <1>1, <1>9, <1>11
<1>13. B => RestAt(chars, f, i) = <<Char("}")>> \o f[i + 2]
  BY <1>1, <1>9, <1>11
<1>14. C => RestAt(chars, f, i) = <<Arg("s", {})>> \o f[i + 2]
  BY <1>1, <1>9, <1>11
<1>15. D => RestAt(chars, f, i) = <<Arg("x", {})>> \o f[i + 4]
  BY <1>1, <1>9, <1>11
<1>16. E => RestAt(chars, f, i) = <<Arg("x", {"flags"})>> \o f[i + 5]
  BY <1>1, <1>9, <1>11
<1>17. ~A /\ ~B /\ ~C /\ ~D /\ ~E =>
          /\ i > Len(chars) => RestAt(chars, f, i) = <<>>
          /\ ~(i > Len(chars)) /\ chars[i] \in {"{", "}"} => RestAt(chars, f, i) = all
          /\ ~(i > Len(chars)) /\ chars[i] \notin {"{", "}"} => RestAt(chars, f, i) = <<Char(chars[i])>> \o f[i + 1]
  BY <1>1
<1> QED BY <1>10, <1>12, <1>13, <1>14, <1>15, <1>16, <1>17 DEF RestGoes, AtOther, all

\* What one piece of text is rewritten to.
Ends(chars, i) == \E h \in Seq(TokenType) : \A f : RestAt(chars, f, i) = h

\* A word is replaced, and FmtTokens goes on behind it.
Goes(chars, i) == \E h \in Seq(TokenType), n \in i + 1 .. Len(chars) + 1 : \A f : RestAt(chars, f, i) = h \o f[n]

\* FmtTokens ends at i or goes on behind i.
LEMMA RestShape ==
    ASSUME NEW chars \in Seq(Letter), NEW i \in 1 .. Len(chars) + 1
    PROVE  Ends(chars, i) \/ Goes(chars, i)
<1>0. Len(chars) \in Nat /\ i \in Nat
  OBVIOUS
<1>1. \A f : RestGoes(chars, f, i)
  BY RestCases
<1>9. /\ AtOpen(chars, i) \/ AtClose(chars, i) \/ AtValue(chars, i) => i + 2 \in i + 1 .. Len(chars) + 1
      /\ AtHex(chars, i) => i + 4 \in i + 1 .. Len(chars) + 1
      /\ AtAlt(chars, i) => i + 5 \in i + 1 .. Len(chars) + 1
  <2>1. /\ i + 1 <= Len(chars) => i + 2 \in i + 1 .. Len(chars) + 1
        /\ i + 3 <= Len(chars) => i + 4 \in i + 1 .. Len(chars) + 1
        /\ i + 4 <= Len(chars) => i + 5 \in i + 1 .. Len(chars) + 1
    BY <1>0
  <2>2. /\ AtOpen(chars, i) \/ AtClose(chars, i) \/ AtValue(chars, i) => i + 1 <= Len(chars)
        /\ AtHex(chars, i) => i + 3 <= Len(chars)
        /\ AtAlt(chars, i) => i + 4 <= Len(chars)
    BY DEF AtOpen, AtClose, AtValue, AtHex, AtAlt
  <2> QED BY <2>1, <2>2
<1>10. ~(i > Len(chars)) => i + 1 \in i + 1 .. Len(chars) + 1
  BY <1>0
<1>11. /\ <<Char("{")>> \in Seq(TokenType) /\ <<Char("}")>> \in Seq(TokenType)
       /\ <<Arg("s", {})>> \in Seq(TokenType) /\ <<Arg("x", {})>> \in Seq(TokenType)
       /\ <<Arg("x", {"flags"})>> \in Seq(TokenType)
  <2>1. Char("{") \in TokenType /\ Char("}") \in TokenType
    BY Patterns, FmtTokenIs
  <2>2. Arg("s", {}) \in TokenType /\ Arg("x", {}) \in TokenType /\ Arg("x", {"flags"}) \in TokenType
    BY FmtTokenIs
  <2>3. \A t \in TokenType : <<t>> \in Seq(TokenType)
    OBVIOUS
  <2> QED BY <2>1, <2>2, <2>3
<1>12. CASE AtOpen(chars, i)
  <2>1. \A f : RestAt(chars, f, i) = <<Char("{")>> \o f[i + 2]
    BY <1>1, <1>12 DEF RestGoes
  <2> QED BY <1>9, <1>11, <1>12, <2>1 DEF Goes
<1>13. CASE AtClose(chars, i)
  <2>1. \A f : RestAt(chars, f, i) = <<Char("}")>> \o f[i + 2]
    BY <1>1, <1>13 DEF RestGoes
  <2> QED BY <1>9, <1>11, <1>13, <2>1 DEF Goes
<1>14. CASE AtValue(chars, i)
  <2>1. \A f : RestAt(chars, f, i) = <<Arg("s", {})>> \o f[i + 2]
    BY <1>1, <1>14 DEF RestGoes
  <2> QED BY <1>9, <1>11, <1>14, <2>1 DEF Goes
<1>15. CASE AtHex(chars, i)
  <2>1. \A f : RestAt(chars, f, i) = <<Arg("x", {})>> \o f[i + 4]
    BY <1>1, <1>15 DEF RestGoes
  <2> QED BY <1>9, <1>11, <1>15, <2>1 DEF Goes
<1>16. CASE AtAlt(chars, i)
  <2>1. \A f : RestAt(chars, f, i) = <<Arg("x", {"flags"})>> \o f[i + 5]
    BY <1>1, <1>16 DEF RestGoes
  <2> QED BY <1>9, <1>11, <1>16, <2>1 DEF Goes
<1>17. CASE AtOther(chars, i)
  <2>0. ~(i > Len(chars)) => i \in 1 .. Len(chars) /\ Len(chars) - i + 1 \in Nat
    BY <1>0
  <2>1. CASE i > Len(chars)
    <3>1. \A f : RestAt(chars, f, i) = <<>>
      BY <1>1, <1>17, <2>1 DEF RestGoes
    <3>2. <<>> \in Seq(TokenType)
      OBVIOUS
    <3> QED BY <3>1, <3>2 DEF Ends
  <2>2. CASE ~(i > Len(chars)) /\ chars[i] \in {"{", "}"}
    <3>1. \A f : RestAt(chars, f, i) = TheRest(chars, i)
      BY <1>1, <1>17, <2>2 DEF RestGoes
    <3>2. \A k \in 1 .. Len(chars) - i + 1 : Char(chars[i + k - 1]) \in TokenType
      <4> TAKE k \in 1 .. Len(chars) - i + 1
      <4>1. i + k - 1 \in 1 .. Len(chars)
        BY <1>0
      <4>2. chars[i + k - 1] \in Letter
        BY <4>1
      <4> QED BY <4>2, FmtTokenIs
    <3>3. TheRest(chars, i) \in Seq(TokenType)
      <4>1. Len(chars) - i + 1 \in Nat
        BY <2>0, <2>2
      <4> QED BY <3>2, <4>1 DEF TheRest
    <3> QED BY <3>1, <3>3 DEF Ends
  <2>3. CASE ~(i > Len(chars)) /\ chars[i] \notin {"{", "}"}
    <3>1. \A f : RestAt(chars, f, i) = <<Char(chars[i])>> \o f[i + 1]
      BY <1>1, <1>17, <2>3 DEF RestGoes
    <3>2. <<Char(chars[i])>> \in Seq(TokenType)
      <4>0. i \in 1 .. Len(chars)
        BY <2>0, <2>3
      <4>1. chars[i] \in Letter
        BY <4>0
      <4>2. Char(chars[i]) \in TokenType
        BY <4>1, FmtTokenIs
      <4> QED BY <4>2
    <3> QED BY <1>10, <2>3, <3>1, <3>2 DEF Goes
  <2> QED BY <2>1, <2>2, <2>3
<1> QED BY <1>12, <1>13, <1>14, <1>15, <1>16, <1>17 DEF AtOther

\* The rest of the text, where every rest is what the next ones make of it.
LEMMA RestRuns ==
    ASSUME NEW chars \in Seq(Letter)
    PROVE  \E g \in [1 .. Len(chars) + 1 -> Seq(TokenType)] : FixOf(chars, g)
<1> DEFINE N == Len(chars)
           Runs(g, n) == /\ g \in [N + 1 - n .. N + 1 -> Seq(TokenType)]
                         /\ \A i \in N + 1 - n .. N + 1 : g[i] = RestAt(chars, g, i)
           Has(n) == \E g : Runs(g, n)
           T == {n \in Nat : n <= N => Has(n)}
<1>0. N \in Nat
  OBVIOUS
<1> HIDE DEF N
<1>1. ASSUME NEW i \in 1 .. N + 1
      PROVE  \/ \E h \in Seq(TokenType) : \A f : RestAt(chars, f, i) = h
             \/ \E h \in Seq(TokenType), n \in i + 1 .. N + 1 : \A f : RestAt(chars, f, i) = h \o f[n]
  BY RestShape DEF Ends, Goes, N
<1>2. ASSUME NEW i \in 1 .. N + 1, NEW f, NEW g, \A n \in i + 1 .. N + 1 : f[n] = g[n]
      PROVE  RestAt(chars, f, i) = RestAt(chars, g, i)
  BY <1>1, <1>2
<1>3. ASSUME NEW i \in 1 .. N + 1, NEW f, \A n \in i + 1 .. N + 1 : f[n] \in Seq(TokenType)
      PROVE  RestAt(chars, f, i) \in Seq(TokenType)
  <2>1. CASE \E h \in Seq(TokenType) : RestAt(chars, f, i) = h
    BY <2>1
  <2>2. CASE \E h \in Seq(TokenType), n \in i + 1 .. N + 1 : RestAt(chars, f, i) = h \o f[n]
    <3>1. PICK h \in Seq(TokenType), n \in i + 1 .. N + 1 : RestAt(chars, f, i) = h \o f[n]
      BY <2>2
    <3>2. PICK r \in Seq(TokenType) : r = f[n]
      BY <1>3
    <3>3. h \o r \in Seq(TokenType)
      OBVIOUS
    <3> QED BY <3>1, <3>2, <3>3
  <2> QED BY <1>1, <2>1, <2>2
<1>4. Has(0)
  <2> DEFINE g == [i \in N + 1 .. N + 1 |-> RestAt(chars, <<>>, i)]
  <2>1. RestAt(chars, <<>>, N + 1) \in Seq(TokenType) /\ RestAt(chars, g, N + 1) = RestAt(chars, <<>>, N + 1)
    <3>1. N + 1 \in 1 .. N + 1 /\ \A n \in (N + 1) + 1 .. N + 1 : FALSE
      BY <1>0
    <3> HIDE DEF g
    <3> QED BY <1>2, <1>3, <3>1
  <2>2. \A i \in N + 1 .. N + 1 : i = N + 1
    BY <1>0
  <2>3. g \in [N + 1 .. N + 1 -> Seq(TokenType)]
    BY <2>1, <2>2
  <2>4. \A i \in N + 1 .. N + 1 : g[i] = RestAt(chars, g, i)
    <3>1. \A i \in N + 1 .. N + 1 : g[i] = RestAt(chars, <<>>, i)
      OBVIOUS
    <3> HIDE DEF g
    <3> QED BY <2>1, <2>2, <3>1
  <2>5. N + 1 - 0 = N + 1
    BY <1>0
  <2>6. Runs(g, 0)
    <3> HIDE DEF g
    <3> QED BY <2>3, <2>4, <2>5
  <2> QED BY <2>6
<1>5. ASSUME NEW n \in Nat, n + 1 <= N, Has(n)
      PROVE  Has(n + 1)
  <2>1. PICK f : Runs(f, n)
    BY <1>5
  <2> DEFINE i0 == N + 1 - (n + 1)
             new == RestAt(chars, f, i0)
             g == [i \in i0 .. N + 1 |-> IF i = i0 THEN new ELSE f[i]]
  <2>2. /\ i0 \in 1 .. N + 1 /\ i0 + 1 = N + 1 - n /\ i0 \in i0 .. N + 1
        /\ \A i \in i0 .. N + 1 : i # i0 => i \in i0 + 1 .. N + 1 /\ i \in 1 .. N + 1
        /\ \A i \in i0 + 1 .. N + 1 : i \in i0 .. N + 1 /\ i # i0
    BY <1>0, <1>5
  <2> HIDE DEF i0
  <2>3. \A i \in i0 + 1 .. N + 1 : f[i] \in Seq(TokenType) /\ f[i] = RestAt(chars, f, i)
    BY <2>1, <2>2
  <2>4. new \in Seq(TokenType)
    BY <1>3, <2>2, <2>3
  <2> HIDE DEF new
  <2>5. g \in [i0 .. N + 1 -> Seq(TokenType)]
    BY <2>2, <2>3, <2>4
  <2>6. g[i0] = new /\ \A i \in i0 + 1 .. N + 1 : g[i] = f[i]
    BY <2>2
  <2> HIDE DEF g
  <2>7. RestAt(chars, g, i0) = new
    BY <1>2, <2>2, <2>6 DEF new
  <2>8. ASSUME NEW i \in i0 + 1 .. N + 1
        PROVE  g[i] = RestAt(chars, g, i)
    <3>1. i \in 1 .. N + 1 /\ \A k \in i + 1 .. N + 1 : k \in i0 + 1 .. N + 1
      BY <1>0, <2>2
    <3>2. RestAt(chars, g, i) = RestAt(chars, f, i)
      BY <1>2, <2>6, <3>1
    <3> QED BY <2>3, <2>6, <3>2
  <2>9. \A i \in i0 .. N + 1 : g[i] = RestAt(chars, g, i)
    BY <2>2, <2>6, <2>7, <2>8
  <2>10. Runs(g, n + 1)
    BY <2>5, <2>9 DEF i0
  <2> QED BY <2>10
<1>6. Has(N)
  <2> HIDE DEF Has
  <2>1. 0 \in T
    BY <1>4
  <2>2. ASSUME NEW n \in Nat, n \in T PROVE n + 1 \in T
    BY <1>0, <1>5, <2>2
  <2> HIDE DEF T
  <2>3. Nat \subseteq T
    BY <2>1, <2>2, Induction
  <2> QED BY <1>0, <2>3 DEF T
<1>7. PICK g : Runs(g, N)
  BY <1>6
<1>8. N + 1 - N = 1
  BY <1>0
<1>9. g \in [1 .. N + 1 -> Seq(TokenType)] /\ \A i \in 1 .. N + 1 : g[i] = RestAt(chars, g, i)
  BY <1>7, <1>8
<1>10. g = [i \in 1 .. N + 1 |-> RestAt(chars, g, i)]
  BY <1>9
<1> QED BY <1>9, <1>10 DEF FixOf, N

\* So FmtTokens is, too.
LEMMA RestIs ==
    ASSUME NEW chars \in Seq(Letter)
    PROVE  \E rest \in [1 .. Len(chars) + 1 -> Seq(TokenType)] :
              /\ FmtTokens(chars) = rest[1]
              /\ \A i \in 1 .. Len(chars) + 1 : rest[i] = RestAt(chars, rest, i)
<1> DEFINE rest == CHOOSE f : FixOf(chars, f)
<1>1. FixOf(chars, rest)
  <2>1. \E g : FixOf(chars, g)
    BY RestRuns
  <2> QED BY <2>1
<1>2. FmtTokens(chars) = rest[1]
  BY DEF FmtTokens, RestAt, FixOf, Reads
<1> HIDE DEF rest
<1> DEFINE N == Len(chars)
<1>3. N \in Nat
  OBVIOUS
<1> HIDE DEF N
<1>4. DOMAIN rest = 1 .. N + 1 /\ \A i \in 1 .. N + 1 : rest[i] = RestAt(chars, rest, i)
  BY <1>1 DEF FixOf, N
<1> DEFINE T == {n \in Nat : n <= N => \A i \in N + 1 - n .. N + 1 : rest[i] \in Seq(TokenType)}
<1>5. ASSUME NEW i \in 1 .. N + 1, \A n \in i + 1 .. N + 1 : rest[n] \in Seq(TokenType)
      PROVE  rest[i] \in Seq(TokenType)
  <2>1. CASE Ends(chars, i)
    <3>1. PICK h \in Seq(TokenType) : RestAt(chars, rest, i) = h
      BY <2>1 DEF Ends
    <3> QED BY <1>4, <3>1
  <2>2. CASE Goes(chars, i)
    <3>1. PICK h \in Seq(TokenType), n \in i + 1 .. N + 1 : RestAt(chars, rest, i) = h \o rest[n]
      BY <2>2 DEF Goes, N
    <3>2. PICK r \in Seq(TokenType) : r = rest[n]
      BY <1>5
    <3>3. h \o r \in Seq(TokenType)
      OBVIOUS
    <3> QED BY <1>4, <3>1, <3>2, <3>3
  <2> QED BY <2>1, <2>2, RestShape DEF N
<1>6. 0 \in T
  <2>1. N + 1 \in 1 .. N + 1 /\ \A n \in (N + 1) + 1 .. N + 1 : FALSE
    BY <1>3
  <2>2. rest[N + 1] \in Seq(TokenType)
    BY <1>5, <2>1
  <2>3. \A i \in N + 1 - 0 .. N + 1 : i = N + 1
    BY <1>3
  <2> QED BY <2>2, <2>3
<1>7. ASSUME NEW n \in Nat, n \in T PROVE n + 1 \in T
  <2>1. SUFFICES ASSUME n + 1 <= N, NEW i \in N + 1 - (n + 1) .. N + 1 PROVE rest[i] \in Seq(TokenType)
    OBVIOUS
  <2>2. \A k \in N + 1 - n .. N + 1 : rest[k] \in Seq(TokenType)
    BY <1>3, <1>7, <2>1
  <2>3. i \in 1 .. N + 1 /\ \A k \in i + 1 .. N + 1 : k \in N + 1 - n .. N + 1
    BY <1>3, <2>1
  <2> QED BY <1>5, <2>2, <2>3
<1>8. N \in T
  <2> HIDE DEF T
  <2>1. Nat \subseteq T
    BY <1>6, <1>7, Induction
  <2> QED BY <1>3, <2>1
<1>9. \A i \in 1 .. N + 1 : rest[i] \in Seq(TokenType)
  <2>1. N + 1 - N = 1 /\ N <= N
    BY <1>3
  <2> QED BY <1>8, <2>1
<1>10. rest = [i \in 1 .. N + 1 |-> rest[i]]
  BY <1>1 DEF FixOf, N
<1>11. rest \in [1 .. N + 1 -> Seq(TokenType)]
  BY <1>9, <1>10
<1> QED BY <1>2, <1>4, <1>11 DEF N

\* The units of a text, what they are written with and what they are rewritten to.
LEMMA UnitIs ==
    ASSUME NEW u \in DOMAIN Unit
    PROVE  /\ u \in {"text", "open", "close", "value", "hex", "alt", "loose", "odd"}
           /\ u = "text" => Unit[u].of = <<"a">> /\ Unit[u].is = <<Char("a")>>
           /\ u = "open" => Unit[u].of = <<"{", "{">> /\ Unit[u].is = <<Char("{")>>
           /\ u = "close" => Unit[u].of = <<"}", "}">> /\ Unit[u].is = <<Char("}")>>
           /\ u = "value" => Unit[u].of = <<"{", "}">> /\ Unit[u].is = <<Arg("s", {})>>
           /\ u = "hex" => Unit[u].of = <<"{", ":", "x", "}">> /\ Unit[u].is = <<Arg("x", {})>>
           /\ u = "alt" => Unit[u].of = <<"{", ":", "#", "x", "}">> /\ Unit[u].is = <<Arg("x", {"flags"})>>
           /\ u = "loose" => Unit[u].of = <<"}">> /\ Unit[u].is = <<Char("}")>>
           /\ u = "odd" => Unit[u].of = <<"{", ":", "a">> /\ Unit[u].is = <<Char("{"), Char(":"), Char("a")>>
<1>1. PICK t : t = [of |-> <<"a">>, is |-> <<Char("a")>>]
  OBVIOUS
<1>2. PICK o : o = [of |-> <<"{", "{">>, is |-> <<Char("{")>>]
  OBVIOUS
<1>3. PICK c : c = [of |-> <<"}", "}">>, is |-> <<Char("}")>>]
  OBVIOUS
<1>4. PICK v : v = [of |-> <<"{", "}">>, is |-> <<Arg("s", {})>>]
  OBVIOUS
<1>5. PICK h : h = [of |-> <<"{", ":", "x", "}">>, is |-> <<Arg("x", {})>>]
  OBVIOUS
<1>6. PICK a : a = [of |-> <<"{", ":", "#", "x", "}">>, is |-> <<Arg("x", {"flags"})>>]
  OBVIOUS
<1>7. PICK l : l = [of |-> <<"}">>, is |-> <<Char("}")>>]
  OBVIOUS
<1>8. PICK d : d = [of |-> <<"{", ":", "a">>, is |-> <<Char("{"), Char(":"), Char("a")>>]
  OBVIOUS
<1>9. Unit = [text |-> t, open |-> o, close |-> c, value |-> v, hex |-> h, alt |-> a, loose |-> l, odd |-> d]
  BY <1>1, <1>2, <1>3, <1>4, <1>5, <1>6, <1>7, <1>8 DEF Unit
<1>10. /\ u \in {"text", "open", "close", "value", "hex", "alt", "loose", "odd"}
       /\ u = "text" => Unit[u] = t
       /\ u = "open" => Unit[u] = o
       /\ u = "close" => Unit[u] = c
       /\ u = "value" => Unit[u] = v
       /\ u = "hex" => Unit[u] = h
       /\ u = "alt" => Unit[u] = a
       /\ u = "loose" => Unit[u] = l
       /\ u = "odd" => Unit[u] = d
  BY <1>9
<1>11. u = "text" => Unit[u].of = <<"a">> /\ Unit[u].is = <<Char("a")>>
  BY <1>1, <1>10
<1>12. u = "open" => Unit[u].of = <<"{", "{">> /\ Unit[u].is = <<Char("{")>>
  <2>1. o.of = <<"{", "{">> /\ o.is = <<Char("{")>>
    BY <1>2
  <2>2. u = "open" => Unit[u] = o
    BY <1>10
  <2> QED BY <2>1, <2>2
<1>13. u = "close" => Unit[u].of = <<"}", "}">> /\ Unit[u].is = <<Char("}")>>
  <2>1. c.of = <<"}", "}">> /\ c.is = <<Char("}")>>
    BY <1>3
  <2>2. u = "close" => Unit[u] = c
    BY <1>10
  <2> QED BY <2>1, <2>2
<1>14. u = "value" => Unit[u].of = <<"{", "}">> /\ Unit[u].is = <<Arg("s", {})>>
  <2>1. v.of = <<"{", "}">> /\ v.is = <<Arg("s", {})>>
    BY <1>4
  <2>2. u = "value" => Unit[u] = v
    BY <1>10
  <2> QED BY <2>1, <2>2
<1>15. u = "hex" => Unit[u].of = <<"{", ":", "x", "}">> /\ Unit[u].is = <<Arg("x", {})>>
  <2>1. h.of = <<"{", ":", "x", "}">> /\ h.is = <<Arg("x", {})>>
    BY <1>5
  <2>2. u = "hex" => Unit[u] = h
    BY <1>10
  <2> QED BY <2>1, <2>2
<1>16. u = "alt" => Unit[u].of = <<"{", ":", "#", "x", "}">> /\ Unit[u].is = <<Arg("x", {"flags"})>>
  <2>1. a.of = <<"{", ":", "#", "x", "}">> /\ a.is = <<Arg("x", {"flags"})>>
    BY <1>6
  <2>2. u = "alt" => Unit[u] = a
    BY <1>10
  <2> QED BY <2>1, <2>2
<1>17. u = "loose" => Unit[u].of = <<"}">> /\ Unit[u].is = <<Char("}")>>
  <2>1. l.of = <<"}">> /\ l.is = <<Char("}")>>
    BY <1>7
  <2>2. u = "loose" => Unit[u] = l
    BY <1>10
  <2> QED BY <2>1, <2>2
<1>18. u = "odd" => Unit[u].of = <<"{", ":", "a">> /\ Unit[u].is = <<Char("{"), Char(":"), Char("a")>>
  <2>1. d.of = <<"{", ":", "a">> /\ d.is = <<Char("{"), Char(":"), Char("a")>>
    BY <1>8
  <2>2. u = "odd" => Unit[u] = d
    BY <1>10
  <2> QED BY <2>1, <2>2
<1> QED BY <1>10, <1>11, <1>12, <1>13, <1>14, <1>15, <1>16, <1>17, <1>18

\* The characters and the tokens of a unit.
LEMMA UnitType ==
    ASSUME NEW u \in DOMAIN Unit
    PROVE  Unit[u].of \in Seq(Letter) /\ Unit[u].is \in Seq(TokenType) /\ Len(Unit[u].of) \in 1 .. 5
<1>0. /\ "{" \in Letter /\ "}" \in Letter /\ ":" \in Letter /\ "#" \in Letter /\ "x" \in Letter /\ "a" \in Letter
      /\ \A c \in Letter : Char(c) \in TokenType
      /\ Arg("s", {}) \in TokenType /\ Arg("x", {}) \in TokenType /\ Arg("x", {"flags"}) \in TokenType
  BY Patterns, FmtTokenIs
<1>1. /\ \A a \in Letter : <<a>> \in Seq(Letter) /\ Len(<<a>>) = 1
      /\ \A a, b \in Letter : <<a, b>> \in Seq(Letter) /\ Len(<<a, b>>) = 2
      /\ \A a, b, c \in Letter : <<a, b, c>> \in Seq(Letter) /\ Len(<<a, b, c>>) = 3
      /\ \A a, b, c, d \in Letter : <<a, b, c, d>> \in Seq(Letter) /\ Len(<<a, b, c, d>>) = 4
      /\ \A a, b, c, d, e \in Letter : <<a, b, c, d, e>> \in Seq(Letter) /\ Len(<<a, b, c, d, e>>) = 5
  OBVIOUS
<1>2. /\ \A t \in TokenType : <<t>> \in Seq(TokenType)
      /\ \A a, b, c \in TokenType : <<a, b, c>> \in Seq(TokenType)
  OBVIOUS
<1>3. PICK open \in Letter, close \in Letter, colon \in Letter, sharp \in Letter, x \in Letter, a \in Letter :
         open = "{" /\ close = "}" /\ colon = ":" /\ sharp = "#" /\ x = "x" /\ a = "a"
  BY <1>0
<1>4. /\ <<a>> \in Seq(Letter) /\ <<open, open>> \in Seq(Letter) /\ <<close, close>> \in Seq(Letter)
      /\ <<open, close>> \in Seq(Letter) /\ <<close>> \in Seq(Letter) /\ <<open, colon, a>> \in Seq(Letter)
      /\ Len(<<a>>) = 1 /\ Len(<<open, open>>) = 2 /\ Len(<<close, close>>) = 2 /\ Len(<<open, close>>) = 2
      /\ Len(<<close>>) = 1 /\ Len(<<open, colon, a>>) = 3
  BY <1>1
<1>5. <<open, colon, x, close>> \in Seq(Letter) /\ Len(<<open, colon, x, close>>) = 4
  OBVIOUS
<1>6. <<open, colon, sharp, x, close>> \in Seq(Letter) /\ Len(<<open, colon, sharp, x, close>>) = 5
  OBVIOUS
<1>7. PICK p \in TokenType, q \in TokenType, r \in TokenType, s \in TokenType :
         p = Char("{") /\ q = Char("}") /\ r = Char(":") /\ s = Char("a")
  BY <1>0
<1>8. PICK v \in TokenType, w \in TokenType, z \in TokenType :
         v = Arg("s", {}) /\ w = Arg("x", {}) /\ z = Arg("x", {"flags"})
  BY <1>0
<1>9. /\ <<p>> \in Seq(TokenType) /\ <<q>> \in Seq(TokenType) /\ <<s>> \in Seq(TokenType) /\ <<p, r, s>> \in Seq(TokenType)
      /\ <<v>> \in Seq(TokenType) /\ <<w>> \in Seq(TokenType) /\ <<z>> \in Seq(TokenType)
  BY <1>2
<1>10. 1 \in 1 .. 5 /\ 2 \in 1 .. 5 /\ 3 \in 1 .. 5 /\ 4 \in 1 .. 5 /\ 5 \in 1 .. 5
  OBVIOUS
<1>11. CASE u = "text"
  BY <1>3, <1>4, <1>7, <1>9, <1>10, <1>11, UnitIs
<1>12. CASE u = "open"
  BY <1>3, <1>4, <1>7, <1>9, <1>10, <1>12, UnitIs
<1>13. CASE u = "close"
  BY <1>3, <1>4, <1>7, <1>9, <1>10, <1>13, UnitIs
<1>14. CASE u = "value"
  BY <1>3, <1>4, <1>8, <1>9, <1>10, <1>14, UnitIs
<1>15. CASE u = "hex"
  BY <1>3, <1>5, <1>8, <1>9, <1>10, <1>15, UnitIs
<1>16. CASE u = "alt"
  BY <1>3, <1>6, <1>8, <1>9, <1>10, <1>16, UnitIs
<1>17. CASE u = "loose"
  BY <1>3, <1>4, <1>7, <1>9, <1>10, <1>17, UnitIs
<1>18. CASE u = "odd"
  BY <1>3, <1>4, <1>7, <1>9, <1>10, <1>18, UnitIs
<1> QED BY <1>11, <1>12, <1>13, <1>14, <1>15, <1>16, <1>17, <1>18, UnitIs

\* A unit is rewritten to what is meant by it, and so is what comes behind it.
LEMMA UnitRead ==
    ASSUME NEW chars \in Seq(Letter), NEW i \in 1 .. Len(chars), NEW u \in DOMAIN Unit,
           Stands(chars, i, Unit[u].of),
           u \in {"loose", "odd"} => i + Len(Unit[u].of) - 1 = Len(chars),
           NEW f, \A j \in 1 .. Len(chars) + 1 : f[j] \in Seq(TokenType), f[Len(chars) + 1] = <<>>
    PROVE  RestAt(chars, f, i) = Unit[u].is \o f[i + Len(Unit[u].of)]
<1>0. Len(chars) \in Nat /\ i \in Nat /\ i \in 1 .. Len(chars) + 1 /\ ~(i > Len(chars))
  OBVIOUS
<1>1. RestGoes(chars, f, i)
  BY <1>0, RestCases
<1>2. /\ i + Len(Unit[u].of) - 1 <= Len(chars)
      /\ \A j \in 1 .. Len(Unit[u].of) : chars[i + j - 1] = Unit[u].of[j]
  BY DEF Stands
<1>3. i + 1 - 1 = i /\ i + 2 - 1 = i + 1 /\ i + 3 - 1 = i + 2 /\ i + 4 - 1 = i + 3 /\ i + 5 - 1 = i + 4
  BY <1>0
<1>4. ASSUME chars[i] = "a" PROVE AtOther(chars, i)
  BY <1>4 DEF AtOther, AtOpen, AtClose, AtValue, AtHex, AtAlt
<1>5. CASE u = "text"
  <2>1. Unit[u].of = <<"a">> /\ Unit[u].is = <<Char("a")>>
    BY <1>5, UnitIs
  <2>2. Len(<<"a">>) = 1 /\ <<"a">>[1] = "a" /\ 1 \in 1 .. 1
    OBVIOUS
  <2>3. chars[i] = "a"
    BY <1>2, <1>3, <2>1, <2>2
  <2>4. chars[i] \notin {"{", "}"}
    BY <2>3
  <2> QED BY <1>0, <1>1, <1>4, <2>1, <2>2, <2>3, <2>4 DEF RestGoes
<1>6. CASE u \in {"open", "close", "value"}
  <2>1. PICK a, b : Unit[u].of = <<a, b>>
    BY <1>6, UnitIs
  <2>2. Len(<<a, b>>) = 2 /\ <<a, b>>[1] = a /\ <<a, b>>[2] = b /\ 1 \in 1 .. 2 /\ 2 \in 1 .. 2
    OBVIOUS
  <2>3. i + 1 <= Len(chars) /\ chars[i] = a /\ chars[i + 1] = b
    BY <1>2, <1>3, <2>1, <2>2
  <2>4. CASE u = "open"
    <3>0. PICK s : s = <<"{", "{">>
      OBVIOUS
    <3>1. a = "{" /\ b = "{" /\ Unit[u].is = <<Char("{")>>
      <4>1. s = <<a, b>> /\ Unit[u].is = <<Char("{")>>
        BY <2>1, <2>4, <3>0, UnitIs
      <4>2. s[1] = "{" /\ s[2] = "{"
        BY <3>0
      <4>3. s[1] = a /\ s[2] = b
        BY <4>1
      <4> QED BY <4>1, <4>2, <4>3
    <3>2. AtOpen(chars, i)
      BY <2>3, <3>1 DEF AtOpen
    <3> QED BY <1>1, <2>1, <2>2, <3>1, <3>2 DEF RestGoes
  <2>5. CASE u = "close"
    <3>0. PICK s : s = <<"}", "}">>
      OBVIOUS
    <3>1. a = "}" /\ b = "}" /\ Unit[u].is = <<Char("}")>>
      <4>1. s = <<a, b>> /\ Unit[u].is = <<Char("}")>>
        BY <2>1, <2>5, <3>0, UnitIs
      <4>2. s[1] = "}" /\ s[2] = "}"
        BY <3>0
      <4>3. s[1] = a /\ s[2] = b
        BY <4>1
      <4> QED BY <4>1, <4>2, <4>3
    <3>2. AtClose(chars, i)
      BY <2>3, <3>1 DEF AtClose
    <3> QED BY <1>1, <2>1, <2>2, <3>1, <3>2 DEF RestGoes
  <2>6. CASE u = "value"
    <3>0. PICK s : s = <<"{", "}">>
      OBVIOUS
    <3>1. a = "{" /\ b = "}" /\ Unit[u].is = <<Arg("s", {})>>
      <4>1. s = <<a, b>> /\ Unit[u].is = <<Arg("s", {})>>
        BY <2>1, <2>6, <3>0, UnitIs
      <4>2. s[1] = "{" /\ s[2] = "}"
        BY <3>0
      <4>3. s[1] = a /\ s[2] = b
        BY <4>1
      <4> QED BY <4>1, <4>2, <4>3
    <3>2. AtValue(chars, i)
      BY <2>3, <3>1 DEF AtValue
    <3> QED BY <1>1, <2>1, <2>2, <3>1, <3>2 DEF RestGoes
  <2> QED BY <1>6, <2>4, <2>5, <2>6
<1>7. CASE u = "hex"
  <2>1. PICK s : s = <<"{", ":", "x", "}">>
    OBVIOUS
  <2>2. Unit[u].of = s /\ Unit[u].is = <<Arg("x", {})>>
    BY <1>7, <2>1, UnitIs
  <2>3. Len(s) = 4 /\ s[1] = "{" /\ s[2] = ":" /\ s[3] = "x" /\ s[4] = "}"
    BY <2>1
  <2>4. 1 \in 1 .. 4 /\ 2 \in 1 .. 4 /\ 3 \in 1 .. 4 /\ 4 \in 1 .. 4
    OBVIOUS
  <2>5. i + 3 <= Len(chars)
    BY <1>2, <1>3, <2>2, <2>3
  <2>6. chars[i] = "{" /\ chars[i + 1] = ":" /\ chars[i + 2] = "x" /\ chars[i + 3] = "}"
    BY <1>2, <1>3, <2>2, <2>3, <2>4
  <2>7. AtHex(chars, i)
    BY <2>5, <2>6 DEF AtHex
  <2> QED BY <1>1, <2>2, <2>3, <2>7 DEF RestGoes
<1>8. CASE u = "alt"
  <2>1. PICK s : s = <<"{", ":", "#", "x", "}">>
    OBVIOUS
  <2>2. Unit[u].of = s /\ Unit[u].is = <<Arg("x", {"flags"})>>
    BY <1>8, <2>1, UnitIs
  <2>3. Len(s) = 5 /\ s[1] = "{" /\ s[2] = ":" /\ s[3] = "#" /\ s[4] = "x" /\ s[5] = "}"
    BY <2>1
  <2>4. 1 \in 1 .. 5 /\ 2 \in 1 .. 5 /\ 3 \in 1 .. 5 /\ 4 \in 1 .. 5 /\ 5 \in 1 .. 5
    OBVIOUS
  <2>5. i + 4 <= Len(chars)
    BY <1>2, <1>3, <2>2, <2>3
  <2>6. chars[i] = "{" /\ chars[i + 1] = ":" /\ chars[i + 2] = "#" /\ chars[i + 3] = "x" /\ chars[i + 4] = "}"
    BY <1>2, <1>3, <2>2, <2>3, <2>4
  <2>7. AtAlt(chars, i)
    BY <2>5, <2>6 DEF AtAlt
  <2> QED BY <1>1, <2>2, <2>3, <2>7 DEF RestGoes
<1>9. CASE u = "loose"
  <2>1. PICK s : s = <<"}">>
    OBVIOUS
  <2>2. Unit[u].of = s /\ Unit[u].is = <<Char("}")>>
    BY <1>9, <2>1, UnitIs
  <2>3. Len(s) = 1 /\ s[1] = "}" /\ 1 \in 1 .. 1
    <3>1. 1 \in 1 .. 1
      OBVIOUS
    <3>2. \A c : Len(<<c>>) = 1 /\ <<c>>[1] = c
      OBVIOUS
    <3> QED BY <2>1, <3>1, <3>2
  <2>4. i = Len(chars)
    BY <1>0, <1>3, <1>9, <2>2, <2>3
  <2>5. chars[i] = "}"
    BY <1>2, <1>3, <2>2, <2>3
  <2>6. ~(i + 1 <= Len(chars))
    BY <1>0, <2>4
  <2>7. AtOther(chars, i)
    BY <2>5, <2>6 DEF AtOther, AtOpen, AtClose, AtValue, AtHex, AtAlt
  <2>8. RestAt(chars, f, i) = TheRest(chars, i)
    BY <1>0, <1>1, <2>5, <2>7 DEF RestGoes
  <2>9. TheRest(chars, i) = <<Char("}")>>
    <3>1. Len(chars) - i + 1 = 1
      BY <1>0, <2>4
    <3>2. TheRest(chars, i) = [k \in 1 .. 1 |-> Char(chars[i + k - 1])]
      BY <3>1 DEF TheRest
    <3>3. [k \in 1 .. 1 |-> Char(chars[i + k - 1])] = [k \in 1 .. 1 |-> Char("}")]
      <4>1. \A k \in 1 .. 1 : chars[i + k - 1] = "}"
        <5>1. \A k \in 1 .. 1 : k = 1
          OBVIOUS
        <5> QED BY <1>3, <2>5, <5>1
      <4> QED BY <4>1
    <3>4. PICK c : c = Char("}")
      OBVIOUS
    <3>5. [k \in 1 .. 1 |-> c] = <<c>>
      OBVIOUS
    <3> QED BY <3>2, <3>3, <3>4, <3>5
  <2>10. f[i + 1] = <<>>
    BY <2>4
  <2>11. <<Char("}")>> \o <<>> = <<Char("}")>>
    <3>1. Unit[u].is \in Seq(TokenType)
      BY UnitType
    <3>2. Unit[u].is \o <<>> = Unit[u].is
      BY <3>1
    <3> QED BY <2>2, <3>2
  <2> QED BY <2>2, <2>3, <2>8, <2>9, <2>10, <2>11
<1>10. CASE u = "odd"
  <2>1. PICK s : s = <<"{", ":", "a">>
    OBVIOUS
  <2>2. Unit[u].of = s /\ Unit[u].is = <<Char("{"), Char(":"), Char("a")>>
    BY <1>10, <2>1, UnitIs
  <2>3. Len(s) = 3 /\ s[1] = "{" /\ s[2] = ":" /\ s[3] = "a"
    BY <2>1
  <2>4. i + 2 = Len(chars)
    BY <1>0, <1>3, <1>10, <2>2, <2>3
  <2>5. chars[i] = "{" /\ chars[i + 1] = ":" /\ chars[i + 2] = "a"
    <3>1. 1 \in 1 .. 3 /\ 2 \in 1 .. 3 /\ 3 \in 1 .. 3
      OBVIOUS
    <3> QED BY <1>2, <1>3, <2>2, <2>3, <3>1
  <2>6. ~(i + 3 <= Len(chars))
    BY <1>0, <2>4
  <2>7. AtOther(chars, i)
    BY <2>5, <2>6 DEF AtOther, AtOpen, AtClose, AtValue, AtHex, AtAlt
  <2>8. RestAt(chars, f, i) = TheRest(chars, i)
    BY <1>0, <1>1, <2>5, <2>7 DEF RestGoes
  <2>9. TheRest(chars, i) = Unit[u].is
    <3>1. Len(chars) - i + 1 = 3
      BY <1>0, <2>4
    <3>2. TheRest(chars, i) = [k \in 1 .. 3 |-> Char(chars[i + k - 1])]
      BY <3>1 DEF TheRest
    <3>3. PICK a, b, c : a = Char("{") /\ b = Char(":") /\ c = Char("a")
      OBVIOUS
    <3>4. [k \in 1 .. 3 |-> Char(chars[i + k - 1])] = [k \in 1 .. 3 |-> <<a, b, c>>[k]]
      <4>1. \A k \in 1 .. 3 : k = 1 \/ k = 2 \/ k = 3
        OBVIOUS
      <4>2. <<a, b, c>>[1] = a /\ <<a, b, c>>[2] = b /\ <<a, b, c>>[3] = c
        OBVIOUS
      <4>3. \A k \in 1 .. 3 : Char(chars[i + k - 1]) = <<a, b, c>>[k]
        BY <1>3, <2>5, <3>3, <4>1, <4>2
      <4> QED BY <4>3
    <3>5. [k \in 1 .. 3 |-> <<a, b, c>>[k]] = <<a, b, c>>
      OBVIOUS
    <3> QED BY <2>2, <3>2, <3>3, <3>4, <3>5
  <2>10. f[i + 3] = <<>>
    <3>1. i + 3 = Len(chars) + 1
      BY <1>0, <2>4
    <3> QED BY <3>1
  <2>11. Unit[u].is \o <<>> = Unit[u].is
    <3>1. Unit[u].is \in Seq(TokenType)
      BY UnitType
    <3> QED BY <3>1
  <2> QED BY <2>2, <2>3, <2>8, <2>9, <2>10, <2>11
<1> QED BY <1>5, <1>6, <1>7, <1>8, <1>9, <1>10, UnitIs

\* QTFMT (msgDesc of QtFmtGeneric.cpp) makes of a text what its units mean:
\* "{}", "{:x}" and "{:#x}" become conversions, "{{" and "}}" braces, and what a
\* brace begins otherwise ends it and stays as it is.
THEOREM UnitsMean ==
    ASSUME NEW units \in Seq(DOMAIN Unit),
           \A k \in DOMAIN units : units[k] \in {"loose", "odd"} => k = Len(units)
    PROVE  /\ FlattenSeq([k \in DOMAIN units |-> Unit[units[k]].is]) \in Seq(TokenType)
           /\ FmtTokens(FlattenSeq([k \in DOMAIN units |-> Unit[units[k]].of])) =
                 FlattenSeq([k \in DOMAIN units |-> Unit[units[k]].is])
<1> DEFINE of == [k \in DOMAIN units |-> Unit[units[k]].of]
           is == [k \in DOMAIN units |-> Unit[units[k]].is]
           chars == FlattenSeq(of)
           N == Len(units)
<1>0. /\ N \in Nat /\ DOMAIN units = 1 .. N
      /\ \A k \in 1 .. N : units[k] \in DOMAIN Unit
      /\ \A k \in 1 .. N : units[k] \in {"loose", "odd"} => k = N
  OBVIOUS
<1>1. /\ of \in Seq(Seq(Letter)) /\ Len(of) = N /\ \A k \in 1 .. N : of[k] = Unit[units[k]].of
      /\ is \in Seq(Seq(TokenType)) /\ Len(is) = N /\ \A k \in 1 .. N : is[k] = Unit[units[k]].is
  <2>1. \A k \in 1 .. N : Unit[units[k]].of \in Seq(Letter) /\ Unit[units[k]].is \in Seq(TokenType)
    BY <1>0, UnitType
  <2>2. of \in [1 .. N -> Seq(Letter)] /\ is \in [1 .. N -> Seq(TokenType)]
    BY <1>0, <2>1
  <2>3. of \in Seq(Seq(Letter)) /\ is \in Seq(Seq(TokenType)) /\ Len(of) = N /\ Len(is) = N
    <3> HIDE DEF of, is, N
    <3> QED BY <1>0, <2>2
  <2>4. \A k \in 1 .. N : of[k] = Unit[units[k]].of /\ is[k] = Unit[units[k]].is
    BY <1>0
  <2> QED BY <2>3, <2>4
<1> HIDE DEF of, is, N
<1>a. of \in Seq(Seq(Letter)) /\ is \in Seq(Seq(TokenType))
  BY <1>1
<1>b. Len(of) = N /\ Len(is) = N
  BY <1>1
<1>2. chars \in Seq(Letter) /\ FlattenSeq(is) \in Seq(TokenType)
  BY <1>a, FlattenMore
<1> DEFINE L == Len(chars)
           A(k) == Off(of, k)
           P(k) == FlattenSeq(First(is, k))
<1>3. /\ L \in Nat /\ A(0) = 0 /\ A(N) = L
      /\ \A k \in 0 .. N : A(k) \in Nat
      /\ \A k \in 1 .. N : A(k) = A(k - 1) + Len(of[k])
  <2>1. /\ Off(of, 0) = 0 /\ Off(of, Len(of)) = Len(FlattenSeq(of))
        /\ \A k \in 0 .. Len(of) : Off(of, k) \in Nat
        /\ \A k \in 1 .. Len(of) : Off(of, k) = Off(of, k - 1) + Len(of[k])
    BY <1>a, OffIs
  <2>2. Len(chars) \in Nat
    BY <1>2
  <2> QED BY <1>b, <2>1, <2>2
<1>4. /\ \A k \in 0 .. N : A(k) <= L
      /\ \A k \in 1 .. N : \A j \in 1 .. Len(of[k]) : chars[A(k - 1) + j] = of[k][j]
  <2>1. /\ \A k \in 0 .. Len(of) : Off(of, k) <= Len(FlattenSeq(of))
        /\ \A k \in 1 .. Len(of) : \A j \in 1 .. Len(of[k]) :
              FlattenSeq(of)[Off(of, k - 1) + j] = of[k][j]
    BY <1>a, FlattenSplit
  <2> QED BY <1>b, <2>1
<1>5. /\ \A k \in 0 .. N : P(k) \in Seq(TokenType)
      /\ \A k \in 1 .. N : P(k) = P(k - 1) \o is[k]
  BY <1>1, OffIs
<1>6. P(0) = <<>> /\ P(N) = FlattenSeq(is)
  <2>1. First(is, 0) = <<>> /\ First(is, N) = is
    BY <1>1, FirstOf
  <2>2. FlattenSeq(<<>>) = <<>>
    <3>1. <<>> \in Seq(Seq(Letter)) /\ <<>> \in Seq(Letter)
      OBVIOUS
    <3>2. \A tt \in Seq(Seq(Letter)) : Off(tt, 0) = 0
      BY OffIs
    <3>3. First(is, 0) = <<>> /\ FlattenSeq(First(is, 0)) \in Seq(TokenType) /\ Off(is, 0) = 0
      <4>1. 0 \in 0 .. Len(is)
        BY <1>0, <1>b
      <4> QED BY <1>a, <2>1, <4>1, OffIs
    <3>4. \A q \in Seq(TokenType) : Len(q) = 0 => q = <<>>
      OBVIOUS
    <3> QED BY <3>3, <3>4 DEF Off
  <2> QED BY <2>1, <2>2
<1> HIDE DEF A, P
<1>7. PICK rest \in [1 .. L + 1 -> Seq(TokenType)] :
         /\ FmtTokens(chars) = rest[1]
         /\ \A i \in 1 .. L + 1 : rest[i] = RestAt(chars, rest, i)
  BY <1>2, RestIs
<1> HIDE DEF chars
<1>8. \A j \in 1 .. L + 1 : rest[j] \in Seq(TokenType)
  BY <1>7
<1>9. rest[L + 1] = <<>>
  <2>1. L + 1 > Len(chars) /\ L + 1 \in 1 .. L + 1
    BY <1>3
  <2>2. RestAt(chars, rest, L + 1) = <<>>
    <3>1. PICK i \in 1 .. L + 1 : i = L + 1
      BY <2>1
    <3>2. ~(i + 1 <= Len(chars)) /\ ~(i + 3 <= Len(chars)) /\ ~(i + 4 <= Len(chars))
      BY <1>3, <3>1
    <3>3. AtOther(chars, i)
      BY <3>2 DEF AtOther, AtOpen, AtClose, AtValue, AtHex, AtAlt
    <3>4. RestGoes(chars, rest, i)
      BY <1>2, RestCases
    <3> QED BY <2>1, <3>1, <3>3, <3>4 DEF RestGoes
  <2> QED BY <1>7, <2>1, <2>2
<1>10. ASSUME NEW k \in 1 .. N
       PROVE  rest[A(k - 1) + 1] = is[k] \o rest[A(k) + 1]
  <2>1. k - 1 \in 0 .. N /\ k \in 0 .. N
    BY <1>0
  <2>2. Len(of[k]) \in 1 .. 5 /\ of[k] = Unit[units[k]].of /\ is[k] = Unit[units[k]].is /\ units[k] \in DOMAIN Unit
    BY <1>0, <1>1, UnitType
  <2>3. A(k - 1) \in Nat /\ A(k) \in Nat /\ A(k) <= L /\ A(k) = A(k - 1) + Len(of[k])
    BY <1>3, <1>4, <2>1
  <2>a. PICK a \in Nat, c \in 1 .. 5, z \in Nat : a = A(k - 1) /\ c = Len(of[k]) /\ z = A(k)
    BY <2>2, <2>3
  <2>b. z = a + c /\ z <= L /\ L \in Nat
    BY <1>3, <2>3, <2>a
  <2>4. PICK i \in 1 .. L : i = A(k - 1) + 1
    <3>1. a + 1 \in 1 .. L
      BY <2>b
    <3> QED BY <2>a, <3>1
  <2>5. i + Len(of[k]) = A(k) + 1 /\ i + Len(of[k]) - 1 = A(k)
    <3>1. i = a + 1
      BY <2>a, <2>4
    <3>2. i + c = z + 1 /\ i + c - 1 = z
      BY <2>b, <3>1
    <3> QED BY <2>a, <3>2
  <2>6. Stands(chars, i, Unit[units[k]].of)
    <3>1. \A j \in 1 .. Len(of[k]) : chars[i + j - 1] = of[k][j]
      <4>1. \A j \in 1 .. Len(of[k]) : i + j - 1 = A(k - 1) + j
        <5>1. i = a + 1 /\ \A j \in 1 .. c : i + j - 1 = a + j
          BY <2>a, <2>4
        <5> QED BY <2>a, <5>1
      <4> QED BY <1>4, <4>1
    <3> QED BY <2>2, <2>3, <2>5, <3>1 DEF Stands
  <2>7. units[k] \in {"loose", "odd"} => i + Len(Unit[units[k]].of) - 1 = Len(chars)
    BY <1>0, <1>3, <2>2, <2>5
  <2>8. RestAt(chars, rest, i) = Unit[units[k]].is \o rest[i + Len(Unit[units[k]].of)]
    BY <1>2, <1>8, <1>9, <2>2, <2>6, <2>7, UnitRead
  <2>9. i \in 1 .. L + 1
    BY <1>3
  <2> QED BY <1>7, <2>2, <2>4, <2>5, <2>8, <2>9
<1> DEFINE T == {n \in Nat : n <= N => P(n) \o rest[A(n) + 1] = rest[1]}
<1>11. 0 \in T
  <2>1. rest[1] \in Seq(TokenType)
    BY <1>3, <1>8
  <2>2. <<>> \o rest[1] = rest[1]
    BY <2>1
  <2> QED BY <1>3, <1>6, <2>2
<1>12. ASSUME NEW n \in Nat, n \in T
       PROVE  n + 1 \in T
  <2>1. SUFFICES ASSUME n + 1 <= N PROVE P(n + 1) \o rest[A(n + 1) + 1] = rest[1]
    <3>1. n + 1 \in Nat
      OBVIOUS
    <3> QED BY <3>1
  <2>2. n + 1 \in 1 .. N /\ n \in 0 .. N /\ n + 1 \in 0 .. N /\ (n + 1) - 1 = n
    BY <1>0, <2>1
  <2>3. P(n) \o rest[A(n) + 1] = rest[1]
    BY <1>0, <1>12, <2>1
  <2>4. P(n + 1) = P(n) \o is[n + 1] /\ P(n) \in Seq(TokenType)
    BY <1>5, <2>2
  <2>5. rest[A(n) + 1] = is[n + 1] \o rest[A(n + 1) + 1]
    BY <1>10, <2>2
  <2>6. is[n + 1] \in Seq(TokenType)
    BY <1>1, <2>2
  <2>7. rest[A(n + 1) + 1] \in Seq(TokenType)
    <3>1. A(n + 1) + 1 \in 1 .. L + 1
      BY <1>3, <1>4, <2>2
    <3> QED BY <1>8, <3>1
  <2>8. PICK p \in Seq(TokenType), q \in Seq(TokenType), r \in Seq(TokenType) :
           p = P(n) /\ q = is[n + 1] /\ r = rest[A(n + 1) + 1]
    BY <2>4, <2>6, <2>7
  <2>9. (p \o q) \o r = p \o (q \o r)
    OBVIOUS
  <2> QED BY <2>3, <2>4, <2>5, <2>8, <2>9
<1>13. P(N) \o rest[A(N) + 1] = rest[1]
  <2> HIDE DEF T
  <2>1. Nat \subseteq T
    BY <1>11, <1>12, Induction
  <2> QED BY <1>0, <2>1 DEF T
<1>14. FlattenSeq(is) \o <<>> = FlattenSeq(is)
  BY <1>2
<1>15. FmtTokens(chars) = FlattenSeq(is)
  BY <1>3, <1>6, <1>7, <1>9, <1>13, <1>14
<1> QED BY <1>2, <1>15 DEF of, is, chars

(***************************************************************************)
(* How a line is laid out, whatever its bytes are.                         *)
(***************************************************************************)

\* A set with the formatters that a text and a key can give rise to.
Covers(G, text, key) ==
    /\ G \subseteq FormatterType
    /\ \A str \in Seq(Letter) : [f |-> "static", of |-> str] \in G
    /\ \A hex \in BOOLEAN : /\ [f |-> "value", e |-> WallClock, hex |-> hex] \in G
                            /\ \A i \in DOMAIN key : [f |-> "value", e |-> key[i], hex |-> hex] \in G
    /\ \A j \in DOMAIN text : IsArg(text[j]) => /\ [f |-> "apply", spec |-> text[j].spec] \in G
                                                /\ [f |-> "reset", spec |-> text[j].spec] \in G

\* Lists of such formatters are joined.
LEMMA CoveredJoin ==
    ASSUME NEW G, NEW a \in Seq(G), NEW b \in Seq(G)
    PROVE  a \o b \in Seq(G)
OBVIOUS

\* What they are, one by one.
LEMMA CoveredParts ==
    ASSUME NEW G, NEW text \in Seq(TokenType), NEW key \in Seq(Entry), Covers(G, text, key)
    PROVE  /\ <<>> \in Seq(G)
           /\ \A str \in Seq(Letter) : Static(str) \in Seq(G)
           /\ \A hex \in BOOLEAN : /\ Value(WallClock, hex) \in Seq(G)
                                   /\ \A i \in DOMAIN key : Value(key[i], hex) \in Seq(G)
           /\ \A j \in DOMAIN text : IsArg(text[j]) => /\ SpecOf("apply", text[j]) \in Seq(G)
                                                       /\ SpecOf("reset", text[j]) \in Seq(G)
<1>1. \A x \in G : <<x>> \in Seq(G)
  OBVIOUS
<1>2. <<>> \in Seq(G)
  OBVIOUS
<1>3. \A str \in Seq(Letter) : Static(str) \in Seq(G)
  BY <1>1 DEF Static, Covers
<1>4. ASSUME NEW hex \in BOOLEAN
      PROVE  Value(WallClock, hex) \in Seq(G) /\ \A i \in DOMAIN key : Value(key[i], hex) \in Seq(G)
  BY <1>1 DEF Value, Covers
<1>5. ASSUME NEW j \in DOMAIN text, IsArg(text[j])
      PROVE  SpecOf("apply", text[j]) \in Seq(G) /\ SpecOf("reset", text[j]) \in Seq(G)
  BY <1>1, <1>2, <1>5 DEF SpecOf, Covers
<1> QED BY <1>2, <1>3, <1>4, <1>5

\* init() makes no other ones, as long as it goes on.
LEMMA WalkCovered ==
    ASSUME NEW text \in Seq(TokenType), NEW key \in Seq(Entry), NEW G, Covers(G, text, key),
           NEW start \in Started, ~start.stop, start.used <= Len(key)
    PROVE  ~WalkTo(key, start, text, Len(text)).stop =>
              WalkTo(key, start, text, Len(text)).list \in Seq(G)
<1> DEFINE W(k) == WalkTo(key, start, text, k)
           Good(k) == ~W(k).stop => W(k).list \in Seq(G)
           T == {k \in Nat : k <= Len(text) => Good(k)}
<1>1. Len(text) \in Nat /\ Len(key) \in Nat
  OBVIOUS
<1>2. W(0) = start
  BY WalkIs
<1>3. \A k \in 0 .. Len(text) : W(k) \in WalkType /\ W(k).used <= Len(key)
  BY WalkIs
<1>4. \A k \in 1 .. Len(text) : W(k) = InitStep(key, W(k - 1), text[k])
  BY WalkIs
<1> HIDE DEF W
<1>5. Good(0)
  <2>1. start.list \in {<<>>, Value(WallClock, FALSE)}
    BY DEF Started
  <2>2. <<>> \in Seq(G) /\ Value(WallClock, FALSE) \in Seq(G)
    BY CoveredParts
  <2> QED BY <1>2, <2>1, <2>2
<1>6. ASSUME NEW n \in Nat, n + 1 <= Len(text), Good(n)
      PROVE  Good(n + 1)
  <2>1. n + 1 \in 1 .. Len(text) /\ (n + 1) - 1 = n /\ n \in 0 .. Len(text) /\ text[n + 1] \in TokenType
        /\ n + 1 \in DOMAIN text
    BY <1>1, <1>6
  <2>2. PICK st \in WalkType, t \in TokenType : st = W(n) /\ t = text[n + 1]
    BY <1>3, <2>1
  <2> DEFINE new == InitStep(key, st, t)
  <2>3. new = W(n + 1) /\ st.used <= Len(key)
    BY <1>3, <1>4, <2>1, <2>2
  <2>4. /\ st.stop => new = st
        /\ ~st.stop /\ t.k \in {"char", "lone"} => new.list = st.list
        /\ ~st.stop /\ t.k = "percent" => new.list = st.list \o Static(Append(st.text, "%"))
        /\ ~st.stop /\ IsArg(t) /\ st.used = Len(key) => new.stop
        /\ ~st.stop /\ IsArg(t) /\ st.used < Len(key) =>
              new.list = ((((st.list \o Pending(st)) \o Prefix(t)) \o SpecOf("apply", t))
                          \o ValueFor(key, st, t)) \o SpecOf("reset", t)
    BY <2>3, InitStepIs
  <2> HIDE DEF new
  <2>5. t.k \in {"char", "percent", "lone", "arg"} /\ (IsArg(t) <=> t.k = "arg")
    BY TokenIs DEF IsArg
  <2>6. st.text \in Seq(Letter) /\ st.used \in Nat
    BY DEF WalkType
  <2>7. CASE st.stop
    BY <2>2, <2>3, <2>4, <2>7
  <2>8. CASE ~st.stop /\ t.k \in {"char", "lone"}
    BY <1>6, <2>2, <2>3, <2>4, <2>8
  <2>9. CASE ~st.stop /\ t.k = "percent"
    <3>1. Append(st.text, "%") \in Seq(Letter)
      BY <2>6, LettersAre
    <3>2. st.list \in Seq(G) /\ Static(Append(st.text, "%")) \in Seq(G)
      BY <1>6, <2>2, <2>9, <3>1, CoveredParts
    <3>3. new.list \in Seq(G)
      BY <2>4, <2>9, <3>2, CoveredJoin
    <3> QED BY <2>3, <3>3
  <2>10. CASE ~st.stop /\ IsArg(t) /\ st.used = Len(key)
    BY <2>3, <2>4, <2>10
  <2>11. CASE ~st.stop /\ IsArg(t) /\ st.used < Len(key)
    <3>1. st.list \in Seq(G)
      BY <1>6, <2>2, <2>11
    <3>2. Pending(st) \in Seq(G)
      BY <2>6, CoveredParts DEF Pending
    <3>3. Prefix(t) \in Seq(G)
      <4>1. PICK o \in Seq(Letter) : o = <<"0x">>
        BY LettersAre
      <4> QED BY <4>1, CoveredParts DEF Prefix
    <3>4. SpecOf("apply", t) \in Seq(G) /\ SpecOf("reset", t) \in Seq(G)
      BY <2>1, <2>2, <2>11, CoveredParts
    <3>5. ValueFor(key, st, t) \in Seq(G)
      <4>1. st.used + 1 \in DOMAIN key /\ (t.conv \in {"x", "p"}) \in BOOLEAN
        BY <1>1, <2>6, <2>11
      <4> QED BY <4>1, CoveredParts DEF ValueFor
    <3>6. st.list \o Pending(st) \in Seq(G)
      BY <3>1, <3>2, CoveredJoin
    <3>7. (st.list \o Pending(st)) \o Prefix(t) \in Seq(G)
      BY <3>3, <3>6, CoveredJoin
    <3>8. ((st.list \o Pending(st)) \o Prefix(t)) \o SpecOf("apply", t) \in Seq(G)
      BY <3>4, <3>7, CoveredJoin
    <3>9. (((st.list \o Pending(st)) \o Prefix(t)) \o SpecOf("apply", t)) \o ValueFor(key, st, t) \in Seq(G)
      BY <3>5, <3>8, CoveredJoin
    <3>10. ((((st.list \o Pending(st)) \o Prefix(t)) \o SpecOf("apply", t)) \o ValueFor(key, st, t)) \o SpecOf("reset", t) \in Seq(G)
      BY <3>4, <3>9, CoveredJoin
    <3>11. new.list \in Seq(G)
      BY <2>4, <2>11, <3>10
    <3> QED BY <2>3, <3>11
  <2>12. st.used < Len(key) \/ st.used = Len(key)
    BY <1>1, <2>3, <2>6
  <2> QED BY <2>5, <2>7, <2>8, <2>9, <2>10, <2>11, <2>12
<1>7. Good(Len(text))
  <2> HIDE DEF Good
  <2>1. 0 \in T
    BY <1>5
  <2>2. ASSUME NEW n \in Nat, n \in T PROVE n + 1 \in T
    <3>0. n + 1 \in Nat
      OBVIOUS
    <3>1. SUFFICES ASSUME n + 1 <= Len(text) PROVE Good(n + 1)
      BY <3>0
    <3>2. Good(n)
      BY <1>1, <2>2, <3>1
    <3> QED BY <1>6, <3>1, <3>2
  <2> HIDE DEF T
  <2>3. Len(text) \in T /\ Len(text) <= Len(text)
    BY <1>1, <2>1, <2>2, Induction
  <2> QED BY <2>3 DEF T
<1> QED BY <1>7 DEF W

\* Nor does it where text and values are apart.
LEMMA ApartCovered ==
    ASSUME NEW text \in Seq(TokenType), NEW key \in Seq(Entry), NEW G, Covers(G, text, key)
    PROVE  Apart(text, key) \in Seq(G)
<1>1. PICK raw \in Seq(Letter), one \in Seq(Letter), comma \in Seq(Letter), tail \in Seq(Letter) :
         raw = RawText(text) /\ one = <<" % (">> /\ comma = <<",">> /\ tail = <<") ">>
  BY RawType, LettersAre
<1>2. /\ Static(raw) \in Seq(G) /\ Static(one) \in Seq(G) /\ Static(comma) \in Seq(G) /\ Static(tail) \in Seq(G)
      /\ <<>> \in Seq(G)
      /\ \A i \in DOMAIN key : Value(key[i], FALSE) \in Seq(G)
  <2>1. FALSE \in BOOLEAN
    OBVIOUS
  <2> QED BY <2>1, CoveredParts
<1>3. Parts(key) \in Seq(Seq(G)) /\ Len(Parts(key)) = Len(key)
  <2>1. ASSUME NEW i \in 1 .. Len(key)
        PROVE  Part(key, i) \in Seq(G)
    <3>1. i \in DOMAIN key
      OBVIOUS
    <3>2. Value(key[i], FALSE) \in Seq(G)
      BY <1>2, <3>1
    <3>3. \A c \in Seq(G) : c \o Value(key[i], FALSE) \in Seq(G)
      BY <3>2, CoveredJoin
    <3> QED BY <1>1, <1>2, <3>3 DEF Part
  <2>2. Len(key) \in Nat
    OBVIOUS
  <2> QED BY <2>1, <2>2 DEF Parts
<1>4. FlattenSeq(Parts(key)) \in Seq(G)
  <2>1. First(Parts(key), Len(Parts(key))) = Parts(key)
    BY <1>3, FirstOf
  <2>2. Len(Parts(key)) \in 0 .. Len(Parts(key))
    BY <1>3
  <2>3. FlattenSeq(First(Parts(key), Len(Parts(key)))) \in Seq(G)
    BY <1>3, <2>2, OffIs
  <2> QED BY <2>1, <2>3
<1>5. Apart(text, key) = ((Static(raw) \o Static(one)) \o FlattenSeq(Parts(key))) \o Static(tail)
  BY <1>1 DEF Apart, Parts, Part, RawText
<1>6. Static(raw) \o Static(one) \in Seq(G)
  BY <1>2, CoveredJoin
<1>7. (Static(raw) \o Static(one)) \o FlattenSeq(Parts(key)) \in Seq(G)
  BY <1>4, <1>6, CoveredJoin
<1>8. ((Static(raw) \o Static(one)) \o FlattenSeq(Parts(key))) \o Static(tail) \in Seq(G)
  BY <1>2, <1>7, CoveredJoin
<1> QED BY <1>5, <1>8

\* The formatters of a descriptor are among them.
LEMMA FormattersCovered ==
    ASSUME NEW m \in DescType0, NEW G, Covers(G, m.text, m.key)
    PROVE  Formatters(m) \in Seq(G)
<1>1. PICK text \in Seq(TokenType), key \in Seq(Entry) : text = m.text /\ key = m.key
  BY DEF DescType0
<1>2. Covers(G, text, key)
  BY <1>1
<1>3. PICK start \in Started : start = Start(m) /\ ~start.stop /\ start.used <= Len(key)
  <2>1. Skips(m) => Len(key) > 2
    BY <1>1 DEF Skips
  <2>2. Start(m) \in Started /\ ~Start(m).stop /\ Start(m).used = IF Skips(m) THEN 2 ELSE 0
    BY DEF Start, Started
  <2>3. Len(key) \in Nat
    OBVIOUS
  <2>4. Start(m).used <= Len(key)
    BY <2>1, <2>2, <2>3
  <2> QED BY <2>2, <2>4
<1> DEFINE last == WalkTo(key, start, text, Len(text))
<1>4. Formatters(m) = IF last.stop \/ last.used < Len(key) THEN Apart(text, key) ELSE ListOf(key, start, text)
  BY <1>1, <1>3, FormattersAre
<1>5. Apart(text, key) \in Seq(G)
  BY <1>2, ApartCovered
<1>6. ~last.stop => last.list \in Seq(G)
  BY <1>2, <1>3, WalkCovered
<1>7. last.text \in Seq(Letter)
  <2>1. Len(text) \in 0 .. Len(text)
    OBVIOUS
  <2>2. last \in WalkType
    BY <1>3, <2>1, WalkIs
  <2> QED BY <2>2 DEF WalkType
<1>8. ~last.stop => ListOf(key, start, text) \in Seq(G)
  <2>1. SUFFICES ASSUME ~last.stop PROVE ListOf(key, start, text) \in Seq(G)
    OBVIOUS
  <2>2. last.list \in Seq(G) /\ Static(last.text) \in Seq(G)
    BY <1>2, <1>6, <1>7, <2>1, CoveredParts
  <2> HIDE DEF last
  <2>3. last.list \o Static(last.text) \in Seq(G)
    BY <2>2, CoveredJoin
  <2>4. ListOf(key, start, text) = IF last.text = <<>> THEN last.list ELSE last.list \o Static(last.text)
    BY DEF ListOf, last
  <2> QED BY <2>2, <2>3, <2>4
<1> QED BY <1>4, <1>5, <1>8

\* Formatters without strings, and those that set no width.
NoStrings == {f \in FormatterType : f.f = "value" => f.e.type # "p"}

\* Formatters that set no width.
NoWidths == {f \in FormatterType : f.f = "apply" => "width" \notin f.spec}

\* Two lines with the same layout.
AlikeItem(x, y) == /\ (IsValue(x) <=> IsValue(y)) /\ (x.pad <=> y.pad)
                   /\ IsValue(x) => (x.precise <=> y.precise) /\ (x.flags <=> y.flags)

\* Two lines with the same layout, and the same state of std::cout behind them.
Alike(a, b) == /\ a.os = b.os /\ Len(a.items) = Len(b.items)
               /\ \A x \in DOMAIN a.items : AlikeItem(a.items[x], b.items[x])

\* A stream without a width has none to use up.
LEMMA NoneUsed ==
    ASSUME NEW os \in Stream, ~os.width, NEW silent \in BOOLEAN
    PROVE  UsedUp(os, silent) = os
<1>1. os.width = FALSE /\ (silent /\ os.width) = FALSE
  BY DEF Stream
<1>2. UsedUp(os, silent) = [os EXCEPT !.width = FALSE]
  BY <1>1 DEF UsedUp
<1> QED BY <1>1, <1>2 DEF Stream

\* One item more.
LEMMA AlikeMore ==
    ASSUME NEW a \in Seq(ItemType), NEW b \in Seq(ItemType), Len(a) = Len(b),
           \A x \in DOMAIN a : AlikeItem(a[x], b[x]),
           NEW i \in ItemType, NEW j \in ItemType, AlikeItem(i, j)
    PROVE  /\ Len(Append(a, i)) = Len(Append(b, j))
           /\ \A x \in DOMAIN Append(a, i) : AlikeItem(Append(a, i)[x], Append(b, j)[x])
<1>1. /\ DOMAIN a = 1 .. Len(a) /\ DOMAIN b = 1 .. Len(a) /\ Len(a) \in Nat
      /\ Len(Append(a, i)) = Len(a) + 1 /\ Len(Append(b, j)) = Len(a) + 1
      /\ DOMAIN Append(a, i) = 1 .. Len(a) + 1
      /\ \A x \in 1 .. Len(a) : Append(a, i)[x] = a[x] /\ Append(b, j)[x] = b[x]
      /\ Append(a, i)[Len(a) + 1] = i /\ Append(b, j)[Len(a) + 1] = j
  OBVIOUS
<1>2. \A x \in 1 .. Len(a) + 1 : x \in 1 .. Len(a) \/ x = Len(a) + 1
  BY <1>1
<1> QED BY <1>1, <1>2

\* A formatter keeps them alike, whatever the bytes say.
LEMMA AlikeStep ==
    ASSUME NEW bytes \in Seq(Cells), NEW other \in Seq(Cells), NEW silent \in BOOLEAN,
           NEW a \in PrintType, NEW b \in PrintType, Alike(a, b),
           NEW f \in FormatterType, f \in NoStrings \/ ~a.os.width
    PROVE  /\ Alike(FormatStep(bytes, silent, a, f), FormatStep(other, silent, b, f))
           /\ f \in NoWidths /\ ~a.os.width => ~FormatStep(bytes, silent, a, f).os.width
<1> DEFINE A == FormatStep(bytes, silent, a, f)
           B == FormatStep(other, silent, b, f)
<1>1. /\ a.os \in Stream /\ b.os = a.os /\ a.items \in Seq(ItemType) /\ b.items \in Seq(ItemType)
      /\ a.os.width \in BOOLEAN
      /\ Len(a.items) = Len(b.items) /\ \A x \in DOMAIN a.items : AlikeItem(a.items[x], b.items[x])
  BY DEF PrintType, Stream, Alike
<1>2. ~a.os.width => ~UsedUp(a.os, silent).width
  BY <1>1, NoneUsed
<1>3. CASE f.f = "static" /\ f.of \in Seq(Letter)
  <2> DEFINE i == [of |-> f.of, pad |-> a.os.width]
  <2>1. /\ A.os = UsedUp(a.os, silent) /\ A.items = Append(a.items, i)
        /\ B.os = UsedUp(a.os, silent) /\ B.items = Append(b.items, i)
    BY <1>1, <1>3, FormatStatic
  <2>2. i \in ItemType
    BY <1>1, <1>3 DEF ItemType
  <2> HIDE DEF i, A, B
  <2>3. AlikeItem(i, i)
    BY DEF AlikeItem
  <2>4. Alike(A, B)
    BY <1>1, <2>1, <2>2, <2>3, AlikeMore DEF Alike
  <2> QED BY <1>2, <2>1, <2>4 DEF A, B
<1>4. CASE f.f \in {"apply", "reset"} /\ f.spec \in SpecType
  <2>1. /\ A.items = a.items /\ B.items = b.items
        /\ A.os = IF f.f = "apply" THEN applyCFormatSpec(f.spec, a.os) ELSE resetCFormatSpec(a.os)
        /\ B.os = IF f.f = "apply" THEN applyCFormatSpec(f.spec, a.os) ELSE resetCFormatSpec(a.os)
    BY <1>1, <1>4, FormatSpec
  <2> HIDE DEF A, B
  <2>2. Alike(A, B)
    BY <1>1, <2>1 DEF Alike
  <2>3. applyCFormatSpec(f.spec, a.os).width = (a.os.width \/ "width" \in f.spec)
    BY DEF applyCFormatSpec
  <2>4. resetCFormatSpec(a.os).width = a.os.width
    BY <1>1 DEF resetCFormatSpec, Stream
  <2>5. f \in NoWidths /\ f.f = "apply" => "width" \notin f.spec
    BY DEF NoWidths
  <2>6. f \in NoWidths /\ ~a.os.width => ~A.os.width
    BY <2>1, <2>3, <2>4, <2>5
  <2> QED BY <2>2, <2>6 DEF A, B
<1>5. CASE f.f = "value" /\ f.e.type = "w"
  <2>1. A.os = a.os /\ A.items = a.items /\ B.os = b.os /\ B.items = b.items
    BY <1>5, FormatClock
  <2> HIDE DEF A, B
  <2> QED BY <1>1, <2>1 DEF Alike, A, B
<1>6. CASE f.f = "value" /\ f.e.type # "w"
  <2> DEFINE i == ItemOf(f, bytes, a)
             j == ItemOf(f, other, b)
  <2>1. /\ A.os = (IF Formats(f.e, bytes, a.n) THEN UsedUp(a.os, silent) ELSE a.os)
        /\ A.items = Append(a.items, i) /\ i \in ItemType
    BY <1>6, FormatValue
  <2>2. /\ B.os = (IF Formats(f.e, other, b.n) THEN UsedUp(b.os, silent) ELSE b.os)
        /\ B.items = Append(b.items, j) /\ j \in ItemType
    BY <1>6, FormatValue
  <2>3. /\ f.e.type # "p" => Formats(f.e, bytes, a.n) /\ Formats(f.e, other, b.n)
        /\ f \in NoStrings => f.e.type # "p"
    BY <1>6 DEF Formats, NoStrings
  <2>4. ~a.os.width => UsedUp(a.os, silent) = a.os
    BY <1>1, NoneUsed
  <2>5. A.os = B.os
    BY <1>1, <2>1, <2>2, <2>3, <2>4
  <2>6. AlikeItem(i, j)
    <3>1. IsValue(i) /\ IsValue(j)
      BY DEF ItemOf, IsValue
    <3>2. /\ i.pad = (a.os.width /\ Formats(f.e, bytes, a.n))
          /\ j.pad = (a.os.width /\ Formats(f.e, other, b.n))
          /\ i.precise = (a.os.fixed /\ a.os.precision /\ f.e.type \in {"f", "d"})
          /\ j.precise = (a.os.fixed /\ a.os.precision /\ f.e.type \in {"f", "d"})
          /\ i.flags = a.os.flags /\ j.flags = a.os.flags
      BY <1>1 DEF ItemOf
    <3> HIDE DEF i, j
    <3>3. i.pad <=> j.pad
      BY <2>3, <3>2
    <3> QED BY <3>1, <3>2, <3>3 DEF AlikeItem
  <2> HIDE DEF i, j, A, B
  <2>7. Alike(A, B)
    BY SMTT(30), <1>1, <2>1, <2>2, <2>5, <2>6, AlikeMore DEF Alike
  <2>8. ~a.os.width => ~A.os.width
    BY <1>2, <2>1
  <2> QED BY <2>7, <2>8 DEF A, B
<1> QED BY <1>3, <1>4, <1>5, <1>6, FormatterKinds

\* So does a list of them.
LEMMA FormatAlike ==
    ASSUME NEW list \in Seq(FormatterType), list \in Seq(NoStrings) \/ list \in Seq(NoWidths),
           NEW bytes \in Seq(Cells), NEW other \in Seq(Cells), NEW silent \in BOOLEAN,
           NEW os \in Stream, ~os.width
    PROVE  Alike(Format(list, bytes, silent, os), Format(list, other, silent, os))
<1> DEFINE F(k) == Format(First(list, k), bytes, silent, os)
           E(k) == Format(First(list, k), other, silent, os)
           Good(k) == /\ F(k) \in PrintType /\ E(k) \in PrintType /\ Alike(F(k), E(k))
                      /\ list \in Seq(NoWidths) => ~F(k).os.width
           T == {k \in Nat : k <= Len(list) => Good(k)}
<1>1. /\ First(list, 0) = <<>> /\ First(list, Len(list)) = list /\ Len(list) \in Nat
      /\ \A k \in 0 .. Len(list) : First(list, k) \in Seq(FormatterType)
      /\ \A k \in 1 .. Len(list) : First(list, k) = Append(First(list, k - 1), list[k])
  BY FirstOf
<1>2. Good(0)
  <2>1. F(0) \in PrintType /\ F(0).os = os /\ F(0).items = <<>>
    BY <1>1, EmptyFormat
  <2>2. E(0) \in PrintType /\ E(0).os = os /\ E(0).items = <<>>
    BY <1>1, EmptyFormat
  <2>3. DOMAIN <<>> = {}
    OBVIOUS
  <2> HIDE DEF F, E
  <2> QED BY <2>1, <2>2, <2>3 DEF Alike
<1>3. \A k \in 0 .. Len(list) : F(k) \in PrintType /\ E(k) \in PrintType
  BY <1>1, FormatIs
<1>4. ASSUME NEW n \in Nat, n + 1 <= Len(list), Good(n)
      PROVE  Good(n + 1)
  <2>1. n + 1 \in 1 .. Len(list) /\ (n + 1) - 1 = n /\ n \in 0 .. Len(list) /\ list[n + 1] \in FormatterType
        /\ n + 1 \in 0 .. Len(list)
    BY <1>1, <1>4
  <2>2. PICK l \in Seq(FormatterType), f \in FormatterType : l = First(list, n) /\ f = list[n + 1]
    BY <1>1, <2>1
  <2>3. First(list, n + 1) = Append(l, f)
    BY <1>1, <2>1, <2>2
  <2>4. /\ Format(Append(l, f), bytes, silent, os) = FormatStep(bytes, silent, Format(l, bytes, silent, os), f)
        /\ Format(Append(l, f), other, silent, os) = FormatStep(other, silent, Format(l, other, silent, os), f)
    BY FormatNext
  <2>5. F(n + 1) = FormatStep(bytes, silent, F(n), f) /\ E(n + 1) = FormatStep(other, silent, E(n), f)
    BY <2>2, <2>3, <2>4
  <2>6. list \in Seq(NoStrings) => f \in NoStrings
    BY <2>1, <2>2
  <2>7. list \in Seq(NoWidths) => f \in NoWidths
    BY <2>1, <2>2
  <2> HIDE DEF F, E
  <2>8. PICK a \in PrintType, b \in PrintType : a = F(n) /\ b = E(n)
    BY <1>4
  <2>9. Alike(a, b) /\ (f \in NoStrings \/ ~a.os.width) /\ (list \in Seq(NoWidths) => ~a.os.width)
    BY <1>4, <2>6, <2>8
  <2>10. /\ Alike(FormatStep(bytes, silent, a, f), FormatStep(other, silent, b, f))
         /\ f \in NoWidths /\ ~a.os.width => ~FormatStep(bytes, silent, a, f).os.width
    BY <2>9, AlikeStep
  <2> QED BY <1>3, <2>1, <2>5, <2>7, <2>8, <2>9, <2>10
<1>5. Good(Len(list))
  <2> HIDE DEF Good
  <2>1. 0 \in T
    BY <1>2
  <2>2. ASSUME NEW n \in Nat, n \in T PROVE n + 1 \in T
    <3>0. n + 1 \in Nat
      OBVIOUS
    <3>1. SUFFICES ASSUME n + 1 <= Len(list) PROVE Good(n + 1)
      BY <3>0
    <3>2. Good(n)
      BY <1>1, <2>2, <3>1
    <3> QED BY <1>4, <3>1, <3>2
  <2> HIDE DEF T
  <2>3. Nat \subseteq T
    BY <2>1, <2>2, Induction
  <2>4. PICK n \in Nat : n = Len(list)
    BY <1>1
  <2>5. n \in T /\ n <= n
    BY <2>3
  <2>6. n \in {k \in Nat : k <= Len(list) => Good(k)}
    BY <2>5 DEF T
  <2> QED BY <2>4, <2>5, <2>6
<1> QED BY <1>1, <1>5

\* How a value is laid out is said by three bits.
LEMMA LayoutOf ==
    ASSUME NEW x \in ItemType, IsValue(x)
    PROVE  x.pad \in BOOLEAN /\ x.precise \in BOOLEAN /\ x.flags \in BOOLEAN
<1>1. x \notin [of : Seq(Letter), pad : BOOLEAN]
  BY ItemIs
<1> QED BY <1>1 DEF ItemType

\* What one of two such lines shows, the other one does.
LEMMA AlikeShows ==
    ASSUME NEW text, NEW k, NEW a \in PrintType, NEW b \in PrintType, Alike(a, b), ShowFormats(text, k, a.items)
    PROVE  ShowFormats(text, k, b.items)
<1>1. /\ DOMAIN b.items = DOMAIN a.items /\ DOMAIN a.items = 1 .. Len(a.items)
      /\ \A x \in DOMAIN a.items : AlikeItem(a.items[x], b.items[x])
  BY DEF PrintType, Alike
<1>2. ASSUME NEW x \in DOMAIN a.items
      PROVE  ShowsFormat(text, k, b.items, x)
  <2>1. ShowsFormat(text, k, a.items, x) /\ AlikeItem(a.items[x], b.items[x])
    BY <1>1, <1>2 DEF ShowFormats
  <2>2. {j \in 1 .. x : IsValue(a.items[j])} = {j \in 1 .. x : IsValue(b.items[j])}
    <3>1. \A j \in 1 .. x : j \in DOMAIN a.items
      BY <1>1
    <3>2. \A j \in 1 .. x : IsValue(a.items[j]) <=> IsValue(b.items[j])
      BY <1>1, <3>1 DEF AlikeItem
    <3> QED BY <3>2
  <2>3. Values(a.items, x) = Values(b.items, x)
    BY <2>2 DEF Values
  <2>4. PICK y \in ItemType, z \in ItemType : y = a.items[x] /\ z = b.items[x]
    BY <1>1 DEF PrintType
  <2>5. AlikeItem(y, z) /\ y.pad \in BOOLEAN /\ z.pad \in BOOLEAN
    BY <2>1, <2>4 DEF ItemType
  <2>6. CASE IsValue(y)
    <3>1. IsValue(z)
      BY <2>5, <2>6 DEF AlikeItem
    <3>2. /\ y.precise \in BOOLEAN /\ y.flags \in BOOLEAN /\ z.precise \in BOOLEAN /\ z.flags \in BOOLEAN
      BY <2>6, <3>1, LayoutOf
    <3>3. y.pad = z.pad /\ y.flags = z.flags /\ y.precise = z.precise
      BY <2>5, <2>6, <3>2 DEF AlikeItem
    <3>4. PICK j \in 1 .. k : /\ IsArg(text[j]) /\ Count(text, j) = Values(a.items, x)
                              /\ y.pad = ("width" \in text[j].spec)
                              /\ y.flags = ("flags" \in text[j].spec)
                              /\ ~y.precise
      BY <2>1, <2>4, <2>6 DEF ShowsFormat
    <3>5. /\ IsArg(text[j]) /\ Count(text, j) = Values(b.items, x)
          /\ z.pad = ("width" \in text[j].spec) /\ z.flags = ("flags" \in text[j].spec) /\ ~z.precise
      BY <2>3, <3>3, <3>4
    <3> QED BY <2>4, <3>1, <3>5 DEF ShowsFormat
  <2>7. CASE ~IsValue(y)
    <3>1. ~IsValue(z) /\ ~y.pad
      BY <2>1, <2>4, <2>5, <2>7 DEF AlikeItem, ShowsFormat
    <3>2. ~z.pad
      BY <2>5, <3>1 DEF AlikeItem
    <3> QED BY <2>4, <3>1, <3>2 DEF ShowsFormat
  <2> QED BY <2>6, <2>7
<1> QED BY <1>1, <1>2 DEF ShowFormats
=============================================================================
