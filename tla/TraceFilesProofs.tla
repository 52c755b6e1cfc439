-------------------------- MODULE TraceFilesProofs --------------------------
(***************************************************************************)
(* Proofs about TraceFiles: whatever is asked for, the rings of a file lie *)
(* in the file (RingsFit).  SizeInv of SizeSpec is inductive; it needs no  *)
(* more of TraceFiles than which of the steps of SizeSpec its actions are. *)
(***************************************************************************)
EXTENDS TraceFiles, FiniteSetTheorems, TLAPS

(***************************************************************************)
(* The inductive invariant behind RingsFit: what every loop has done when  *)
(* it has come to i.  Sums are claimed to be exact only below Width: that  *)
(* they are follows from the limit, or from the caller being reasonable.   *)
(***************************************************************************)

\* f has the sums of the first n sizes of s, none of which is 0.
AddsUp(f, s, n) ==
    /\ f[0] = 0
    /\ \A l \in Level : l < n => s[l] >= 1 /\ f[l + 1] = f[l] + s[l]
    /\ \A j \in Upto : j <= n => f[j] <= f[n]

Summed(f, n) == f[n] < Width => sum = f[n]

Adding == step = "add" =>
    /\ AddsUp(asked, sizeSpec, i) /\ Summed(asked, i)
    /\ limit => asked[i] <= i * MaxLevel

Scaling == step = "scale" =>
    /\ limit /\ total = asked[NumTraceLevels] /\ total > MaxTotal
    /\ total <= NumTraceLevels * MaxLevel
    /\ AddsUp(got, sizeSpec, i) /\ Summed(got, i)
    /\ got[i] <= asked[i]
    /\ got[i] * total <= asked[i] * MaxTotal + i * total
    /\ \A l \in Level : l >= i => sizeSpec[l] >= 1 /\ asked[l + 1] = asked[l] + sizeSpec[l]

Settled == step \in {"map", "mapped", "place"} =>
    /\ AddsUp(got, sizeSpec, NumTraceLevels)
    /\ limit => /\ got[NumTraceLevels] <= NumTraceLevels * MaxLevel
                /\ got[NumTraceLevels] <= MaxTotal + NumTraceLevels
    /\ ~limit => got = asked

Mapping ==
    /\ step = "map" => Summed(got, NumTraceLevels)
    /\ step \in {"mapped", "place"} /\ Reasonable => mapped = Bytes(got)

Placing == step = "place" =>
    /\ Summed(got, i)
    /\ Reasonable => \A l \in Level : l < i =>
          ring[l] = [start |-> Headers + got[l] * KB, size |-> sizeSpec[l] * KB]

SizeInv == SizeTypes /\ Adding /\ Scaling /\ Settled /\ Mapping /\ Placing

(***************************************************************************)
(* The inductive invariant behind RotationKeeps: what the calls of         *)
(* saveOldFiles may rely on, as long as nobody compresses in between, and  *)
(* where the first and the last file are.                                  *)
(***************************************************************************)

Old == There("1") \/ There("1.gz")
Oldest == There("2") \/ There("2.gz")
IsOld(gen) == gen \in {fs["1"].gen, fs["1.gz"].gen}
IsOldest(gen) == gen \in {fs["2"].gen, fs["2.gz"].gen}

\* A file is compressed or not.
OnceEach == ~(There("1") /\ There("1.gz")) /\ ~(There("2") /\ There("2.gz"))

FirstKept ==
    IF first = 0 THEN ~Old /\ ~Oldest
    ELSE IsOldest(first) \/ (~Oldest /\ IsOld(first))

LastKept == prev = 0 \/ bare \/ IsOld(prev) \/ (~Old /\ IsOldest(prev))

\* What access() has found is still so; the old file gives way only to be kept as
\* the oldest, or when there is an oldest.
Looked ==
    /\ pc \in {"look", "look again", "oldest"} => (oldGz <=> There("1.gz"))
    /\ pc \in {"look again", "oldest"} => ~There("2.gz")
    /\ pc = "oldest" => ~There("2")
    /\ pc \in {"clear", "old"} => Oldest \/ ~Old
    /\ pc = "clear" /\ ~oldGz => ~There("1.gz")
    /\ pc = "old" => ~There("1.gz")

FileInv == FileTypes /\ OnceEach /\ FirstKept /\ LastKept /\ Looked

(***************************************************************************)
(* The inductive invariant behind BackupsHoldEverything: whenever a ring   *)
(* begins another lap, all laps before it have been seen to; when a        *)
(* message is stored at the very beginning of one, so has the last.        *)
(***************************************************************************)
Safe(gen, l, k) ==
    \/ \E b \in Backups : fs[b].gen = gen /\ fs[b].copy /\ k \in Holds(fs[b], l)
    \/ <<gen, l, k>> \in missed

SafeUpTo(l, n) == \A k \in 1 .. n : Safe(fs["qt"].gen, l, k)

\* What had been traced when the ring began its last lap.
LapStart(w, c) == IF w % c = 0 THEN w - c ELSE w - (w % c)

LapsSafe ==
    pc \in {"lay", "run", "backup", "store"} =>
        \A l \in Level : LET w == fs["qt"].written[l]
                             c == fs["qt"].cap[l]
                         IN  c >= 1 /\ SafeUpTo(l, LapStart(w, c))

BackedUpFirst ==
    /\ pc = "backup" => Full(level)
    /\ pc = "store" /\ Full(level) => SafeUpTo(level, fs["qt"].written[level])

BackupInv == FileTypes /\ BackupsHoldEverything /\ LapsSafe /\ BackedUpFirst


(***************************************************************************)
(* Arithmetic                                                              *)
(***************************************************************************)

\* A remainder of what is small enough is the number itself: no overflow.
LEMMA NoOverflow ==
    ASSUME NEW w \in Nat \ {0}, NEW n \in Nat, n < w
    PROVE  n % w = n
OBVIOUS

\* The same for offsets, which are int.
LEMMA NoOverflowOfInt ==
    ASSUME NEW n \in Nat, 2 * n < Width
    PROVE  Int32(n) = n
<1>1. Width \in Nat \ {0} /\ n < Width
  BY SizeAssumption
<1>2. n % Width = n
  BY <1>1, NoOverflow
<1> QED BY <1>1, <1>2 DEF Int32

\* A product with a larger factor is no smaller.
LEMMA TimesMonotone ==
    ASSUME NEW a \in Nat, NEW b \in Nat, NEW c \in Nat, a <= b
    PROVE  a * c <= b * c
OBVIOUS

\* A common factor cancels from a comparison.
LEMMA TimesCancel ==
    ASSUME NEW a \in Nat, NEW b \in Nat, NEW c \in Nat \ {0}, a * c <= b * c
    PROVE  a <= b
OBVIOUS

\* A product distributes over a sum.
LEMMA TimesSum ==
    ASSUME NEW a \in Int, NEW b \in Int, NEW c \in Int
    PROVE  (a + b) * c = a * c + b * c
OBVIOUS

\* A sum kept in uint32_t is exact as long as it fits.
LEMMA SumGoesOn ==
    ASSUME NEW a \in Nat, NEW s \in Nat, NEW x \in Nat,
           a < Width => s = a,
           a + x < Width
    PROVE  (s + x) % Width = a + x
<1>1. Width \in Nat \ {0} /\ a < Width
  BY SizeAssumption
<1> QED BY <1>1, NoOverflow

(***************************************************************************)
(* What follows from the invariant                                         *)
(***************************************************************************)

\* A file that is limited, or reasonable, is small enough for int offsets.
LEMMA Small ==
    ASSUME SizeTypes, Reasonable,
           limit => got[NumTraceLevels] <= NumTraceLevels * MaxLevel,
           ~limit => got = asked
    PROVE  /\ got[NumTraceLevels] \in Nat
           /\ Bytes(got) \in Nat
           /\ 2 * Bytes(got) < Width
           /\ got[NumTraceLevels] < Width
<1> DEFINE g == got[NumTraceLevels]
           m == NumTraceLevels * MaxLevel
<1>1. g \in Nat /\ m \in Nat /\ KB \in Nat \ {0} /\ Headers \in Nat /\ Width \in Nat
  <2>1. {NumTraceLevels, MaxLevel, KB, Width} \subseteq Nat \ {0} /\ Headers \in Nat
    BY SizeAssumption
  <2>2. got \in [Upto -> Nat] /\ NumTraceLevels \in Upto
    BY <2>1 DEF SizeTypes, Upto
  <2> QED BY <2>1, <2>2
<1>2. Bytes(got) = g * KB + Headers /\ g * KB \in Nat
  BY <1>1 DEF Bytes
<1>3. 2 * Bytes(got) < Width
  <2>1. CASE limit
    <3>1. g * KB <= m * KB
      BY <1>1, <2>1, TimesMonotone
    <3>2. 2 * (m * KB + Headers) < Width
      BY SizeAssumption
    <3>3. m * KB \in Nat
      BY <1>1
    <3> HIDE DEF g, m
    <3> QED BY <1>1, <1>2, <3>1, <3>2, <3>3
  <2>2. CASE ~limit
    BY <2>2 DEF Reasonable
  <2> QED BY <2>1, <2>2
<1>4. g <= g * KB
  <2>1. 1 * g <= KB * g
    BY <1>1, TimesMonotone
  <2> QED BY <1>1, <2>1
<1> HIDE DEF g, m
<1> QED BY <1>1, <1>2, <1>3, <1>4 DEF g

\* The bound on the sum of sizes that were scaled down.
LEMMA ScaledEnough ==
    ASSUME SizeTypes, Scaling, step = "scale", i = NumTraceLevels
    PROVE  got[i] <= MaxTotal + NumTraceLevels
<1> DEFINE g == got[i]
<1>1. g \in Nat /\ total \in Nat \ {0} /\ MaxTotal \in Nat /\ NumTraceLevels \in Nat
  BY SizeAssumption DEF SizeTypes, Scaling
<1>2. g * total <= total * MaxTotal + NumTraceLevels * total
  BY DEF Scaling
<1>3. total * MaxTotal + NumTraceLevels * total = (MaxTotal + NumTraceLevels) * total
  BY <1>1, TimesSum
<1> HIDE DEF g
<1>4. g * total <= (MaxTotal + NumTraceLevels) * total
  BY <1>2, <1>3
<1>5. g <= MaxTotal + NumTraceLevels
  BY <1>1, <1>4, TimesCancel
<1> QED BY <1>5 DEF g

\* The invariant implies the property.
LEMMA InvImpliesRingsFit == SizeInv => RingsFit
<1> SUFFICES ASSUME SizeInv, step = "place", Reasonable
             PROVE  RingsFit
  BY DEF RingsFit
<1> USE SizeAssumption DEF SizeInv
<1>0. step \in {"map", "mapped", "place"} /\ Settled /\ SizeTypes
  OBVIOUS
<1>1. 2 * Bytes(got) < Width /\ mapped = Bytes(got)
  BY Small DEF Settled, Mapping
<1>2. limit => got[NumTraceLevels] <= MaxTotal + NumTraceLevels
  BY DEF Settled
<1>3. ASSUME NEW l \in Level, l < i
      PROVE  /\ ring[l].start >= Headers
             /\ ring[l].size >= KB
             /\ ring[l].start + ring[l].size <= mapped
             /\ l > 0 => ring[l].start = ring[l - 1].start + ring[l - 1].size
  <2> DEFINE N == NumTraceLevels
  <2>1. ring[l] = [start |-> Headers + got[l] * KB, size |-> sizeSpec[l] * KB]
    BY <1>3 DEF Placing
  <2>2. /\ got[l] \in Nat /\ got[l + 1] \in Nat /\ got[N] \in Nat /\ sizeSpec[l] \in Nat
        /\ sizeSpec[l] >= 1 /\ got[l + 1] = got[l] + sizeSpec[l]
        /\ got[l + 1] <= got[N]
    <3>1. N \in Nat \ {0} /\ l \in Upto /\ l + 1 \in Upto /\ N \in Upto /\ l < N /\ l + 1 <= N
      BY DEF Level, Upto
    <3>2. got \in [Upto -> Nat] /\ sizeSpec \in [Level -> Nat] /\ AddsUp(got, sizeSpec, N)
      BY <1>0 DEF SizeTypes, Settled
    <3> QED BY <3>1, <3>2 DEF AddsUp
  <2>3. 1 * KB <= sizeSpec[l] * KB
    BY <2>2, TimesMonotone
  <2>4. got[l + 1] * KB = got[l] * KB + sizeSpec[l] * KB
    BY <2>2, TimesSum
  <2>5. got[l + 1] * KB <= got[N] * KB
    BY <2>2, TimesMonotone
  <2>6. /\ got[l] * KB \in Nat /\ sizeSpec[l] * KB \in Nat
        /\ got[l + 1] * KB \in Nat /\ got[N] * KB \in Nat
    BY <2>2
  <2>7. mapped = got[N] * KB + Headers
    BY <1>1 DEF Bytes
  <2>8. ASSUME l > 0
        PROVE  ring[l].start = ring[l - 1].start + ring[l - 1].size
    <3> DEFINE k == l - 1
    <3>1. k \in Level /\ k < i /\ k < NumTraceLevels /\ k + 1 = l
      BY <1>3, <2>8 DEF Level, SizeTypes, Upto
    <3>2. ring[k] = [start |-> Headers + got[k] * KB, size |-> sizeSpec[k] * KB]
      BY <3>1 DEF Placing
    <3>3. got[k] \in Nat /\ sizeSpec[k] \in Nat /\ got[l] = got[k] + sizeSpec[k]
      <4>1. got \in [Upto -> Nat] /\ sizeSpec \in [Level -> Nat] /\ AddsUp(got, sizeSpec, NumTraceLevels)
        BY <1>0 DEF SizeTypes, Settled
      <4>2. k \in Upto
        BY <3>1 DEF Level, Upto
      <4> HIDE DEF k
      <4> QED BY <2>2, <3>1, <4>1, <4>2 DEF AddsUp
    <3> HIDE DEF k
    <3>4. got[l] * KB = got[k] * KB + sizeSpec[k] * KB
      BY <3>3, TimesSum
    <3>5. got[k] * KB \in Nat /\ sizeSpec[k] * KB \in Nat
      BY <3>3
    <3>6. ring[l].start = ring[k].start + ring[k].size
      BY <2>1, <3>2, <3>4, <3>5
    <3> QED BY <3>6 DEF k
  <2> HIDE DEF N
  <2> QED BY <1>1, <2>1, <2>3, <2>4, <2>5, <2>6, <2>7, <2>8
<1> QED BY <1>1, <1>2, <1>3 DEF RingsFit

(***************************************************************************)
(* The steps                                                               *)
(***************************************************************************)
\* No program has any sizes yet.
LEMMA InitInv == SizeInit => SizeInv
BY SizeAssumption DEF SizeInit, SizeInv, SizeTypes, Adding, Scaling, Settled, Mapping, Placing,
   Upto, Level, NoRing, NoSums

\* Nor has one that has ended.
LEMMA ForgetInv == Forget => SizeInv'
BY SizeAssumption DEF Forget, SizeInv, SizeTypes, Adding, Scaling, Settled, Mapping, Placing,
   Upto, Level, NoRing, NoSums

\* Steps that leave the sizes alone.
LEMMA StutterInv == SizeInv /\ UNCHANGED sizeVars => SizeInv'
BY DEF sizeVars, SizeInv, SizeTypes, Adding, Scaling, Settled, Mapping, Placing, AddsUp, Summed,
   Reasonable, Bytes

\* adjustSizeSpec is called: nothing is summed up yet.
LEMMA AdjustInv ==
    ASSUME SizeInv, NEW spec \in [Level -> Nat], NEW lim \in BOOLEAN, Adjust(spec, lim)
    PROVE  SizeInv'
<1>1. SizeTypes'
  BY SizeAssumption DEF SizeInv, SizeTypes, Adjust, Upto, NoSums
<1>2. Adding'
  <2>1. 0 \in Upto /\ NumTraceLevels \in Nat /\ MaxLevel \in Nat
    BY SizeAssumption DEF Upto
  <2>2. asked' = [j \in Upto |-> 0] /\ i' = 0 /\ sum' = 0
    BY DEF Adjust, NoSums
  <2>3. AddsUp(asked, sizeSpec, i)'
    BY <2>1, <2>2 DEF AddsUp, Level, Upto
  <2> QED BY <2>1, <2>2, <2>3 DEF Adding, Summed
<1>3. Scaling' /\ Settled' /\ Mapping' /\ Placing'
  BY DEF Adjust, Scaling, Settled, Mapping, Placing
<1> QED BY <1>1, <1>2, <1>3 DEF SizeInv

\* A function of sums with one more sum.
LEMMA AddsUpGoesOn ==
    ASSUME NEW f \in [Upto -> Nat], NEW s \in [Level -> Nat],
           NEW n \in Level, NEW size \in Nat \ {0},
           AddsUp(f, s, n)
    PROVE  AddsUp([f EXCEPT ![n + 1] = f[n] + size], [s EXCEPT ![n] = size], n + 1)
<1> DEFINE g == [f EXCEPT ![n + 1] = f[n] + size]
           t == [s EXCEPT ![n] = size]
<1>1. NumTraceLevels \in Nat \ {0}
  BY SizeAssumption
<1>2. n \in Upto /\ n + 1 \in Upto /\ n + 1 # 0 /\ n \in Nat
  BY <1>1 DEF Level, Upto
<1>3. g[n + 1] = f[n] + size /\ \A j \in Upto : j # n + 1 => g[j] = f[j]
  BY <1>2
<1>4. g[0] = 0
  BY <1>1, <1>2, <1>3 DEF AddsUp, Upto
<1>5. ASSUME NEW l \in Level, l < n + 1
      PROVE  t[l] >= 1 /\ g[l + 1] = g[l] + t[l]
  <2>0. l \in Nat /\ l \in Upto /\ l + 1 \in Upto
    BY <1>1 DEF Level, Upto
  <2>1. CASE l = n
    <3>1. g[n] = f[n] /\ t[n] = size
      BY <1>2, <1>3
    <3> QED BY <1>3, <2>1, <3>1
  <2>2. CASE l # n
    <3>1. l < n
      BY <1>2, <1>5, <2>0, <2>2
    <3>2. t[l] = s[l]
      BY <2>2
    <3>3. g[l] = f[l] /\ g[l + 1] = f[l + 1]
      BY <1>2, <1>3, <2>0, <3>1
    <3> QED BY <3>1, <3>2, <3>3 DEF AddsUp
  <2> QED BY <2>1, <2>2
<1>6. ASSUME NEW j \in Upto, j <= n + 1
      PROVE  g[j] <= g[n + 1]
  <2>1. CASE j = n + 1
    BY <1>2, <1>3, <2>1
  <2>2. CASE j # n + 1
    <3>1. j <= n
      BY <1>2, <1>6, <2>2 DEF Upto
    <3>2. g[j] = f[j] /\ f[j] <= f[n] /\ f[j] \in Nat /\ f[n] \in Nat
      BY <1>2, <1>3, <2>2, <3>1 DEF AddsUp
    <3> QED BY <1>3, <3>2
  <2> QED BY <2>1, <2>2
<1> HIDE DEF g, t
<1>7. AddsUp(g, t, n + 1)
  BY <1>4, <1>5, <1>6 DEF AddsUp
<1> QED BY <1>7 DEF g, t

\* One pass of the loop of addAndLimitSizes.
LEMMA AddAndLimitInv == SizeInv /\ AddAndLimit => SizeInv'
<1> SUFFICES ASSUME SizeInv, AddAndLimit
             PROVE  SizeInv'
  OBVIOUS
<1> DEFINE size == Within(sizeSpec[i])
<1>1. SizeTypes /\ AddsUp(asked, sizeSpec, i) /\ Summed(asked, i) /\ (limit => asked[i] <= i * MaxLevel)
  BY DEF SizeInv, Adding, AddAndLimit
<1>2. {NumTraceLevels, MaxLevel, MaxTotal, KB, Width} \subseteq Nat \ {0}
  BY SizeAssumption
<1>3. /\ i \in Level /\ i \in Nat /\ i + 1 \in Upto /\ sizeSpec[i] \in Nat /\ asked[i] \in Nat
      /\ step = "add"
  <2>1. i \in Upto /\ i < NumTraceLevels /\ step = "add"
    BY <1>1 DEF SizeTypes, AddAndLimit
  <2>2. i \in Level /\ i \in Nat /\ i + 1 \in Upto
    BY <1>2, <2>1 DEF Upto, Level
  <2> QED BY <1>1, <2>1, <2>2 DEF SizeTypes
<1>4. size \in Nat \ {0} /\ (limit => size <= MaxLevel)
  BY <1>1, <1>2, <1>3 DEF Within, SizeTypes
<1> HIDE DEF size
<1>5. /\ sizeSpec' = [sizeSpec EXCEPT ![i] = size]
      /\ sum' = (sum + size) % Width
      /\ asked' = [asked EXCEPT ![i + 1] = asked[i] + size]
      /\ i' = i + 1
      /\ UNCHANGED <<limit, step, total, mapped, ring, got>>
  BY DEF AddAndLimit, size
<1>6. SizeTypes'
  <2>1. sum' \in Nat
    BY <1>1, <1>2, <1>4, <1>5 DEF SizeTypes
  <2> QED BY <1>1, <1>3, <1>4, <1>5, <2>1 DEF SizeTypes
<1>7. asked'[i'] = asked[i] + size
  BY <1>1, <1>3, <1>5 DEF SizeTypes
<1>8. AddsUp(asked, sizeSpec, i)'
  <2>1. asked \in [Upto -> Nat] /\ sizeSpec \in [Level -> Nat]
    BY <1>1 DEF SizeTypes
  <2>2. AddsUp([asked EXCEPT ![i + 1] = asked[i] + size], [sizeSpec EXCEPT ![i] = size], i + 1)
    BY <1>1, <1>3, <1>4, <2>1, AddsUpGoesOn
  <2> QED BY <1>5, <2>2
<1>9. Summed(asked, i)'
  <2> SUFFICES ASSUME asked[i] + size < Width
               PROVE  sum' = asked[i] + size
    BY <1>7 DEF Summed
  <2> QED BY <1>1, <1>3, <1>4, <1>5, SumGoesOn DEF Summed, SizeTypes
<1>10. limit' => asked'[i'] <= i' * MaxLevel
  <2>1. (i + 1) * MaxLevel = i * MaxLevel + 1 * MaxLevel
    BY <1>2, <1>3, TimesSum
  <2>2. i * MaxLevel \in Nat
    BY <1>2, <1>3
  <2> QED BY <1>1, <1>2, <1>3, <1>4, <1>5, <1>7, <2>1, <2>2
<1>11. Adding' /\ Scaling' /\ Settled' /\ Mapping' /\ Placing'
  BY <1>3, <1>5, <1>8, <1>9, <1>10 DEF Adding, Scaling, Settled, Mapping, Placing
<1> QED BY <1>6, <1>11 DEF SizeInv

\* What the first loop leaves is what the others start from.
LEMMA AddedInv == SizeInv /\ Added => SizeInv'
<1> SUFFICES ASSUME SizeInv, Added
             PROVE  SizeInv'
  OBVIOUS
<1> DEFINE N == NumTraceLevels
<1>1. /\ SizeTypes /\ AddsUp(asked, sizeSpec, N) /\ Summed(asked, N)
      /\ limit => asked[N] <= N * MaxLevel
  BY DEF SizeInv, Adding, Added
<1>2. {N, MaxLevel, MaxTotal, KB, Width} \subseteq Nat \ {0} /\ Headers \in Nat
      /\ 2 * (N * MaxLevel * KB + Headers) < Width
  BY SizeAssumption
<1>3. N \in Upto /\ 0 \in Upto /\ asked[N] \in Nat /\ asked \in [Upto -> Nat]
  BY <1>1, <1>2 DEF Upto, SizeTypes
<1>4. /\ total' = sum /\ got' = asked /\ i = N
      /\ UNCHANGED <<sizeSpec, limit, mapped, ring, asked>>
      /\ \/ step' = "scale" /\ limit /\ sum > MaxTotal /\ i' = 0 /\ sum' = 0
         \/ step' = "map" /\ ~(limit /\ sum > MaxTotal) /\ UNCHANGED <<i, sum>>
  BY DEF Added
<1> HIDE DEF N
<1>5. limit => sum = asked[N]
  <2> SUFFICES ASSUME limit
               PROVE  asked[N] < Width
    BY <1>1 DEF Summed
  <2>1. N * MaxLevel \in Nat
    BY <1>2
  <2>2. 1 * (N * MaxLevel) <= KB * (N * MaxLevel)
    BY <1>2, <2>1, TimesMonotone
  <2>3. N * MaxLevel * KB = KB * (N * MaxLevel) /\ N * MaxLevel * KB \in Nat
    BY <1>2
  <2> QED BY <1>1, <1>2, <1>3, <2>1, <2>2, <2>3
<1>6. SizeTypes'
  BY <1>1, <1>3, <1>4 DEF SizeTypes
<1>7. AddsUp(asked, sizeSpec, N)' /\ AddsUp(got, sizeSpec, N)'
  BY <1>1, <1>4 DEF AddsUp, N
<1>8. Adding' /\ Placing'
  BY <1>4 DEF Adding, Placing
<1>9. Scaling'
  <2> SUFFICES ASSUME step' = "scale"
               PROVE  Scaling'
    BY DEF Scaling
  <2>1. limit /\ sum > MaxTotal /\ i' = 0 /\ sum' = 0 /\ total' = asked[N]
    BY <1>4, <1>5
  <2>2. asked[0] = 0
    BY <1>1 DEF AddsUp
  <2>3. AddsUp(got, sizeSpec, i)'
    BY <1>2, <1>3, <1>4, <2>1, <2>2 DEF AddsUp, Level, Upto
  <2>4. \A l \in Level : sizeSpec'[l] >= 1 /\ asked'[l + 1] = asked'[l] + sizeSpec'[l]
    BY <1>2, <1>7 DEF AddsUp, Level, N
  <2>5. /\ (got[i] <= asked[i])' /\ (got[i] * total <= asked[i] * MaxTotal + i * total)'
        /\ Summed(got, i)'
    BY <1>2, <1>3, <1>4, <2>1, <2>2 DEF Summed
  <2>6. limit' /\ total' = asked'[N] /\ total' > MaxTotal /\ total' <= N * MaxLevel
    BY <1>1, <1>4, <1>5, <2>1
  <2> QED BY <2>3, <2>4, <2>5, <2>6 DEF Scaling, N
<1>10. Settled' /\ Mapping'
  <2> SUFFICES ASSUME step' = "map"
               PROVE  Settled' /\ Mapping'
    BY <1>4 DEF Settled, Mapping
  <2>1. ~(limit /\ sum > MaxTotal) /\ UNCHANGED <<i, sum>>
    BY <1>4
  <2>2. limit' => got'[N] <= N * MaxLevel /\ got'[N] <= MaxTotal + N
    BY <1>1, <1>2, <1>3, <1>4, <1>5, <2>1
  <2>3. Summed(got, N)'
    BY <1>1, <1>4, <2>1 DEF Summed, N
  <2> QED BY <1>4, <1>7, <2>2, <2>3 DEF Settled, Mapping, N
<1> QED BY <1>6, <1>8, <1>9, <1>10 DEF SizeInv

\* Scaling makes no size larger, and the sum at most a KB per level larger than
\* its share of the maximum.
LEMMA ScaleDownInv == SizeInv /\ ScaleDown => SizeInv'
<1> SUFFICES ASSUME SizeInv, ScaleDown
             PROVE  SizeInv'
  OBVIOUS
<1>1. PICK k \in Scaled(sizeSpec[i]) :
        LET size == IF k < 1 THEN 1 ELSE k
        IN  /\ sizeSpec' = [sizeSpec EXCEPT ![i] = size]
            /\ sum' = (sum + size) % Width
            /\ got' = [got EXCEPT ![i + 1] = got[i] + size]
  BY DEF ScaleDown
<1> DEFINE size == IF k < 1 THEN 1 ELSE k
           s == sizeSpec[i]
<1>2. /\ sizeSpec' = [sizeSpec EXCEPT ![i] = size]
      /\ sum' = (sum + size) % Width
      /\ got' = [got EXCEPT ![i + 1] = got[i] + size]
      /\ i' = i + 1 /\ step = "scale" /\ i < NumTraceLevels
      /\ UNCHANGED <<limit, step, total, mapped, ring, asked>>
  BY <1>1 DEF ScaleDown
<1>3. {NumTraceLevels, MaxLevel, MaxTotal, KB, Width} \subseteq Nat \ {0}
      /\ FloatError \in 0 .. MaxTotal
  BY SizeAssumption
<1>4. SizeTypes /\ Scaling
  BY DEF SizeInv
<1>5. i \in Level /\ i \in Nat /\ i \in Upto /\ i + 1 \in Upto
  BY <1>2, <1>3, <1>4 DEF SizeTypes, Level, Upto
<1>6. /\ s \in Nat /\ s >= 1 /\ asked[i] \in Nat /\ got[i] \in Nat /\ total \in Nat
      /\ got \in [Upto -> Nat] /\ sizeSpec \in [Level -> Nat]
  BY <1>2, <1>4, <1>5 DEF SizeTypes, Scaling
<1>7. /\ limit /\ total = asked[NumTraceLevels] /\ total > MaxTotal
      /\ total <= NumTraceLevels * MaxLevel
      /\ AddsUp(got, sizeSpec, i) /\ Summed(got, i)
      /\ got[i] <= asked[i]
      /\ got[i] * total <= asked[i] * MaxTotal + i * total
      /\ asked[i + 1] = asked[i] + s
      /\ \A l \in Level : l >= i => sizeSpec[l] >= 1 /\ asked[l + 1] = asked[l] + sizeSpec[l]
  BY <1>2, <1>4, <1>5 DEF Scaling
<1>8. k \in 0 .. s /\ k * total <= s * MaxTotal + FloatError
  BY DEF Scaled
<1>9. size \in Nat \ {0} /\ size <= s
  BY <1>6, <1>8
<1>10. size * total <= s * MaxTotal + total
  <2>0. s * MaxTotal \in Nat
    BY <1>3, <1>6
  <2>1. CASE k < 1
    <3>1. size * total = total
      BY <1>6, <2>1
    <3> QED BY <1>6, <2>0, <3>1
  <2>2. CASE ~(k < 1)
    <3>1. size = k
      BY <2>2
    <3>2. k * total \in Nat
      BY <1>6, <1>8
    <3> HIDE DEF s, size
    <3> QED BY <1>3, <1>6, <1>7, <1>8, <2>0, <3>1, <3>2
  <2> QED BY <2>1, <2>2
<1> HIDE DEF size, s
<1>11. got'[i + 1] = got[i] + size
  BY <1>2, <1>5, <1>6
<1>12. SizeTypes'
  <2>1. sum' \in Nat
    BY <1>2, <1>3, <1>4, <1>9 DEF SizeTypes
  <2> QED BY <1>2, <1>4, <1>5, <1>6, <1>9, <2>1 DEF SizeTypes
<1>13. AddsUp(got, sizeSpec, i)'
  <2>1. AddsUp([got EXCEPT ![i + 1] = got[i] + size], [sizeSpec EXCEPT ![i] = size], i + 1)
    BY <1>5, <1>6, <1>7, <1>9, AddsUpGoesOn
  <2> QED BY <1>2, <2>1
<1>14. Summed(got, i)'
  <2> SUFFICES ASSUME got[i] + size < Width
               PROVE  sum' = got[i] + size
    BY <1>2, <1>11 DEF Summed
  <2>1. sum \in Nat
    BY <1>4 DEF SizeTypes
  <2> QED BY <1>2, <1>6, <1>7, <1>9, <2>1, SumGoesOn DEF Summed
<1>15. got'[i + 1] <= asked'[i + 1]
  BY <1>2, <1>6, <1>7, <1>9, <1>11
<1>16. got'[i + 1] * total <= asked'[i + 1] * MaxTotal + (i + 1) * total
  <2>1. (got[i] + size) * total = got[i] * total + size * total
    BY <1>6, <1>9, TimesSum
  <2>2. (asked[i] + s) * MaxTotal = asked[i] * MaxTotal + s * MaxTotal
    BY <1>3, <1>6, TimesSum
  <2>3. (i + 1) * total = i * total + 1 * total /\ 1 * total = total
    BY <1>5, <1>6, TimesSum
  <2>4. {got[i] * total, size * total, asked[i] * MaxTotal, s * MaxTotal, i * total} \subseteq Nat
    BY <1>3, <1>5, <1>6, <1>9
  <2>5. got[i] * total + size * total
           <= asked[i] * MaxTotal + i * total + (s * MaxTotal + total)
    BY <1>6, <1>7, <1>10, <2>4
  <2> QED BY <1>2, <1>6, <1>7, <1>11, <2>1, <2>2, <2>3, <2>4, <2>5
<1>17. \A l \in Level : l >= i + 1 => sizeSpec'[l] >= 1 /\ asked'[l + 1] = asked'[l] + sizeSpec'[l]
  BY <1>2, <1>5, <1>6, <1>7 DEF Level
<1>18. Scaling'
  BY <1>2, <1>7, <1>13, <1>14, <1>15, <1>16, <1>17 DEF Scaling
<1>19. Adding' /\ Settled' /\ Mapping' /\ Placing'
  BY <1>2 DEF Adding, Settled, Mapping, Placing
<1> QED BY <1>12, <1>18, <1>19 DEF SizeInv

\* The end of scaleDownSizes: the sum is as small as it has to be.
LEMMA ScaledDownInv == SizeInv /\ ScaledDown => SizeInv'
<1> SUFFICES ASSUME SizeInv, ScaledDown
             PROVE  SizeInv'
  OBVIOUS
<1>1. SizeTypes /\ Scaling /\ step = "scale" /\ i = NumTraceLevels /\ step' = "map"
      /\ UNCHANGED <<sizeSpec, limit, i, sum, total, mapped, ring, asked, got>>
  BY DEF SizeInv, ScaledDown
<1>2. got[i] <= MaxTotal + NumTraceLevels
  BY <1>1, ScaledEnough
<1>3. limit /\ AddsUp(got, sizeSpec, i) /\ Summed(got, i) /\ got[i] <= NumTraceLevels * MaxLevel
  <2>1. {got[i], asked[i], total, NumTraceLevels * MaxLevel} \subseteq Nat
    BY <1>1, SizeAssumption DEF SizeTypes, Upto
  <2> QED BY <1>1, <2>1 DEF Scaling
<1>4. SizeTypes'
  BY <1>1 DEF SizeTypes
<1>5. Settled' /\ Mapping'
  BY <1>1, <1>2, <1>3 DEF Settled, Mapping, AddsUp, Summed
<1>6. Adding' /\ Scaling' /\ Placing'
  BY <1>1 DEF Adding, Scaling, Placing
<1> QED BY <1>4, <1>5, <1>6 DEF SizeInv

\* The size of the mapping does not overflow.
LEMMA MapInv == SizeInv /\ Map => SizeInv'
<1> SUFFICES ASSUME SizeInv, Map
             PROVE  SizeInv'
  OBVIOUS
<1>1. SizeTypes /\ Settled /\ Mapping /\ step = "map" /\ step' = "mapped"
      /\ mapped' = (sum * KB + Headers) % Width
      /\ UNCHANGED <<sizeSpec, limit, i, sum, total, ring, asked, got>>
  BY DEF SizeInv, Map
<1>2. {KB, Width} \subseteq Nat \ {0} /\ Headers \in Nat
  BY SizeAssumption
<1>3. SizeTypes'
  <2>1. sum * KB + Headers \in Nat
    BY <1>1, <1>2 DEF SizeTypes
  <2>2. mapped' \in Nat
    BY <1>1, <1>2, <2>1
  <2> QED BY <1>1, <2>2 DEF SizeTypes
<1>4. Reasonable => mapped' = Bytes(got)
  <2> SUFFICES ASSUME Reasonable
               PROVE  mapped' = Bytes(got)
    OBVIOUS
  <2>1. Bytes(got) \in Nat /\ 2 * Bytes(got) < Width /\ got[NumTraceLevels] < Width
    BY <1>1, Small DEF Settled
  <2>2. sum = got[NumTraceLevels]
    BY <1>1, <2>1 DEF Mapping, Summed
  <2>3. Bytes(got) % Width = Bytes(got)
    BY <1>2, <2>1, NoOverflow
  <2> QED BY <1>1, <2>2, <2>3 DEF Bytes
<1>5. Mapping'
  BY <1>1, <1>4 DEF Mapping, Reasonable, Bytes
<1>6. Settled'
  BY <1>1 DEF Settled, AddsUp
<1>7. Adding' /\ Scaling' /\ Placing'
  BY <1>1 DEF Adding, Scaling, Placing
<1> QED BY <1>3, <1>5, <1>6, <1>7 DEF SizeInv

\* The constructor of TraceFile begins to lay out the rings.
LEMMA LayOutInv == SizeInv /\ LayOut => SizeInv'
<1> SUFFICES ASSUME SizeInv, LayOut
             PROVE  SizeInv'
  OBVIOUS
<1>1. SizeTypes /\ Settled /\ Mapping /\ step = "mapped" /\ step' = "place" /\ i' = 0 /\ sum' = 0
      /\ UNCHANGED <<sizeSpec, limit, total, mapped, ring, asked, got>>
  BY DEF SizeInv, LayOut
<1>2. SizeTypes'
  BY <1>1, SizeAssumption DEF SizeTypes, Upto
<1>3. Settled' /\ Mapping'
  BY <1>1 DEF Settled, Mapping, AddsUp, Reasonable, Bytes
<1>4. Placing'
  BY <1>1, SizeAssumption DEF Placing, Settled, AddsUp, Summed, Level
<1>5. Adding' /\ Scaling'
  BY <1>1 DEF Adding, Scaling
<1> QED BY <1>2, <1>3, <1>4, <1>5 DEF SizeInv

\* Where a ring begins, and its size, are not cut to a negative int.
LEMMA PlaceInv == SizeInv /\ Place => SizeInv'
<1> SUFFICES ASSUME SizeInv, Place
             PROVE  SizeInv'
  OBVIOUS
<1> DEFINE N == NumTraceLevels
<1>1. SizeTypes /\ Settled /\ Mapping /\ Placing /\ step = "place" /\ i < N
      /\ ring' = [ring EXCEPT ![i] = [start |-> Headers + Int32(sum * KB),
                                      size |-> Int32(sizeSpec[i] * KB)]]
      /\ sum' = (sum + sizeSpec[i]) % Width /\ i' = i + 1
      /\ UNCHANGED <<sizeSpec, limit, step, total, mapped, asked, got>>
  BY DEF SizeInv, Place
<1>2. {N, KB, Width} \subseteq Nat \ {0} /\ Headers \in Nat
  BY SizeAssumption
<1>3. i \in Level /\ i \in Nat /\ i \in Upto /\ i + 1 \in Upto /\ N \in Upto /\ i + 1 <= N /\ i <= N
  BY <1>1, <1>2 DEF SizeTypes, Level, Upto
<1>4. /\ got[i] \in Nat /\ got[i + 1] \in Nat /\ got[N] \in Nat /\ sizeSpec[i] \in Nat
      /\ got[i + 1] = got[i] + sizeSpec[i] /\ got[i] <= got[N] /\ got[i + 1] <= got[N]
      /\ sum \in Nat
  <2>1. got \in [Upto -> Nat] /\ sizeSpec \in [Level -> Nat] /\ AddsUp(got, sizeSpec, N) /\ sum \in Nat
    BY <1>1 DEF SizeTypes, Settled
  <2> QED BY <1>1, <1>3, <2>1 DEF AddsUp
<1>5. SizeTypes'
  <2>1. Int32(sum * KB) \in Int /\ Int32(sizeSpec[i] * KB) \in Int
    <3>1. sum * KB \in Nat /\ sizeSpec[i] * KB \in Nat
      BY <1>2, <1>4
    <3>2. (sum * KB) % Width \in Nat /\ (sizeSpec[i] * KB) % Width \in Nat
      BY <1>2, <3>1
    <3> QED BY <1>2, <3>2 DEF Int32
  <2>2. sum' \in Nat
    BY <1>1, <1>2, <1>4
  <2> QED BY <1>1, <1>2, <1>3, <2>1, <2>2 DEF SizeTypes
<1>6. Summed(got, i)'
  <2> SUFFICES ASSUME got[i] + sizeSpec[i] < Width
               PROVE  sum' = got[i] + sizeSpec[i]
    BY <1>1, <1>4 DEF Summed
  <2> QED BY <1>1, <1>4, SumGoesOn DEF Placing, Summed
<1>7. ASSUME Reasonable, NEW l \in Level, l < i + 1
      PROVE  ring'[l] = [start |-> Headers + got[l] * KB, size |-> sizeSpec[l] * KB]
  <2>1. CASE l < i
    <3>1. ring'[l] = ring[l]
      BY <1>1, <1>3, <2>1 DEF SizeTypes
    <3> QED BY <1>1, <1>7, <2>1, <3>1 DEF Placing
  <2>2. CASE l = i
    <3>1. Bytes(got) \in Nat /\ 2 * Bytes(got) < Width /\ got[N] < Width
      BY <1>1, <1>7, Small DEF Settled
    <3>2. Bytes(got) = got[N] * KB + Headers
      BY DEF Bytes
    <3>3. sum = got[i]
      BY <1>1, <1>2, <1>4, <3>1 DEF Placing, Summed
    <3>4. got[i] * KB <= got[N] * KB /\ sizeSpec[i] * KB <= got[N] * KB
      BY <1>2, <1>4, TimesMonotone
    <3>5. {got[i] * KB, got[N] * KB, sizeSpec[i] * KB} \subseteq Nat
      BY <1>2, <1>4
    <3>6. 2 * (got[i] * KB) < Width /\ 2 * (sizeSpec[i] * KB) < Width
      BY <1>2, <3>1, <3>2, <3>4, <3>5
    <3>7. Int32(got[i] * KB) = got[i] * KB /\ Int32(sizeSpec[i] * KB) = sizeSpec[i] * KB
      BY <3>5, <3>6, NoOverflowOfInt
    <3>8. ring'[i] = [start |-> Headers + Int32(sum * KB), size |-> Int32(sizeSpec[i] * KB)]
      BY <1>1, <1>3 DEF SizeTypes
    <3> QED BY <2>2, <3>3, <3>7, <3>8
  <2> QED BY <1>3, <1>7, <2>1, <2>2 DEF Level
<1>8. Placing'
  BY <1>1, <1>6, <1>7 DEF Placing, Reasonable, Bytes
<1>9. Settled' /\ Mapping'
  BY <1>1 DEF Settled, Mapping, AddsUp, Reasonable, Bytes
<1>10. Adding' /\ Scaling'
  BY <1>1 DEF Adding, Scaling
<1> QED BY <1>5, <1>8, <1>9, <1>10 DEF SizeInv

\* The rings are laid out.
LEMMA PlacedInv == SizeInv /\ Placed => SizeInv'
BY DEF Placed, SizeInv, SizeTypes, Adding, Scaling, Settled, Mapping, Placing

(***************************************************************************)
(* Every step of TraceFiles is one of these, or leaves sizes alone.        *)
(***************************************************************************)
\* Every step of TraceFiles preserves the invariant of the sizes.
LEMMA StepInv == SizeInv /\ [Next]_vars => SizeInv'
<1> SUFFICES ASSUME SizeInv, [Next]_vars
             PROVE  SizeInv'
  OBVIOUS
<1>1. CASE \E spec \in Sizes, rot \in BOOLEAN, from \in 0 .. MaxIndex : Construct(spec, rot, from)
  BY <1>1, AdjustInv, FilesAssumption DEF Construct
<1>2. CASE \E spec \in Sizes : Resize(spec)
  BY <1>2, AdjustInv, FilesAssumption DEF Resize
<1>3. CASE Size
  BY <1>3, AddAndLimitInv, AddedInv, ScaleDownInv, ScaledDownInv, MapInv, PlaceInv DEF Size
<1>4. CASE Keep \/ LookAtOld \/ LookAtOldestGz \/ LookAtOldest \/ RenameOldest \/ UnlinkOld \/ RenameOld
  BY <1>4, StutterInv DEF Keep, LookAtOld, LookAtOldestGz, LookAtOldest, RenameOldest, UnlinkOld, RenameOld
<1>5. CASE Create
  BY <1>5, LayOutInv DEF Create
<1>6. CASE Ready
  BY <1>6, PlacedInv DEF Ready
<1>7. CASE \/ \E how \in {"open", "full", "map"} : CreateFails(how)
           \/ Crash
  BY <1>7, ForgetInv DEF CreateFails, Crash, Down
<1>8. CASE \/ \E l \in Level : StartMsg(l)
           \/ \E outcome \in {"none", "error", "short", "whole"} : Backup(outcome)
           \/ Store \/ Compress("1", "1.gz") \/ Compress("2", "2.gz")
  BY <1>8, StutterInv DEF StartMsg, Backup, Store, Compress
<1>9. CASE UNCHANGED vars
  BY <1>9, StutterInv DEF vars
<1> QED BY <1>1, <1>2, <1>3, <1>4, <1>5, <1>6, <1>7, <1>8, <1>9 DEF Next

\* The inductive invariant holds for any number of levels, sizes and bounds.
THEOREM Invariance == Spec => []SizeInv
<1>1. Init => SizeInv
  BY InitInv DEF Init
<1> QED BY <1>1, StepInv, PTL DEF Spec

\* RingsFit: rings lie back to back in the mapping (adjustSizeSpec and the
\* constructor of TraceFile agree), whatever sizes a program asks for.
THEOREM RingsFitTheFile == Spec => []RingsFit
<1> QED BY Invariance, InvImpliesRingsFit, PTL

(***************************************************************************)
(* Rotation: FileInv is inductive if backups have names of their own and   *)
(* nobody compresses files while they are being renamed.                   *)
(***************************************************************************)
Apart == Backups \cap Saved = {} /\ ~CompressAnyTime

\* The saved files have names of the directory, and numbers.
LEMMA Names ==
    ASSUME FileTypes
    PROVE  /\ {"qt", "1", "1.gz", "2", "2.gz"} \subseteq Name
           /\ \A n \in Name : fs[n] \in File /\ fs[n].gen \in Nat
BY DEF FileTypes, Name, Saved, File

\* The absence of a file is a file without a number.
LEMMA NoneIsFile == None \in File /\ None.gen = 0
BY DEF None, File

\* A step that leaves the saved files alone.
LEMMA Quiet ==
    ASSUME FileInv, FileTypes', Looked',
           \A n \in {"1", "1.gz", "2", "2.gz"} : fs'[n].gen = fs[n].gen,
           UNCHANGED <<first, prev, bare>>
    PROVE  FileInv'
BY DEF FileInv, OnceEach, FirstKept, LastKept, IsOld, IsOldest, Old, Oldest, There

\* The directory is empty at first.
LEMMA FileInit == Init => FileInv
<1> SUFFICES ASSUME Init
             PROVE  FileInv
  OBVIOUS
<1>1. /\ fs = [n \in Name |-> None] /\ pc = "down" /\ level = 0 /\ index = 0 /\ oldGz = FALSE
      /\ files = 0 /\ first = 0 /\ prev = 0 /\ bare = FALSE
  BY DEF Init, NoProgram
<1>2. FileTypes
  <2>1. 0 \in Level
    BY SizeAssumption DEF Level
  <2>2. fs \in [Name -> File]
    BY <1>1, NoneIsFile
  <2>3. 0 \in Nat /\ FALSE \in BOOLEAN /\ pc # "backup"
    BY <1>1
  <2> QED BY <1>1, <2>1, <2>2, <2>3 DEF FileTypes
<1>3. \A n \in Saved : ~There(n)
  BY <1>1, NoneIsFile DEF There, Name
<1> QED BY <1>1, <1>2, <1>3
        DEF FileInv, OnceEach, FirstKept, LastKept, Looked, Old, Oldest, Saved

\* Nothing happens.
LEMMA StutterFiles == FileInv /\ UNCHANGED vars => FileInv'
<1> SUFFICES ASSUME FileInv, UNCHANGED vars
             PROVE  FileInv'
  OBVIOUS
<1>1. UNCHANGED <<fs, pc, oldGz, level, index, files, first, prev, bare>>
  BY DEF vars, fileVars
<1>2. FileTypes'
  BY <1>1 DEF FileInv, FileTypes
<1>3. Looked'
  BY <1>1 DEF FileInv, Looked, Old, Oldest, There
<1> QED BY <1>1, <1>2, <1>3, Quiet

\* Steps that do not touch a file, and end outside saveOldFiles.
LEMMA FilesUntouched ==
    ASSUME FileInv, UNCHANGED <<fs, files, first, prev, bare>>,
           level' \in Level, index' \in Nat, oldGz' \in BOOLEAN,
           pc' \notin {"look", "look again", "oldest", "clear", "old"},
           pc' = "backup" => index' <= MaxIndex
    PROVE  FileInv'
<1>1. FileTypes'
  BY DEF FileInv, FileTypes
<1>2. Looked'
  BY DEF Looked
<1> QED BY <1>1, <1>2, Quiet

\* The calls of access: what they find is remembered in pc and oldGz.
LEMMA LookFiles ==
    ASSUME FileInv, LookAtOld \/ LookAtOldestGz \/ LookAtOldest
    PROVE  FileInv'
<1>1. FileTypes'
  <2>1. CASE LookAtOld
    BY <2>1 DEF FileInv, FileTypes, LookAtOld, hist, There
  <2>2. CASE LookAtOldestGz
    BY <2>2 DEF FileInv, FileTypes, LookAtOldestGz, hist
  <2>3. CASE LookAtOldest
    BY <2>3 DEF FileInv, FileTypes, LookAtOldest, hist
  <2> QED BY <2>1, <2>2, <2>3
<1>2. Looked'
  <2>1. CASE LookAtOld
    BY <2>1 DEF LookAtOld, Looked, There
  <2>2. CASE LookAtOldestGz
    BY <2>2 DEF FileInv, OnceEach, LookAtOldestGz, Looked, There, Old, Oldest
  <2>3. CASE LookAtOldest
    BY <2>3 DEF FileInv, OnceEach, LookAtOldest, Looked, There, Old, Oldest
  <2> QED BY <2>1, <2>2, <2>3
<1>3. UNCHANGED <<fs, first, prev, bare>>
  BY DEF LookAtOld, LookAtOldestGz, LookAtOldest, hist
<1> QED BY <1>1, <1>2, <1>3, Quiet

\* What a file was called does not matter to its type.
LEMMA RenamedFiles ==
    ASSUME FileTypes, NEW from \in Name, NEW to \in Name, from # to
    PROVE  /\ Renamed(from, to) \in [Name -> File]
           /\ \A n \in Name \ {from, to} : Renamed(from, to)[n] = fs[n]
           /\ There(from) => Renamed(from, to)[to] = fs[from] /\ Renamed(from, to)[from] = None
           /\ ~There(from) => Renamed(from, to) = fs
<1>1. fs \in [Name -> File] /\ None \in File /\ fs[from] \in File
  BY NoneIsFile DEF FileTypes
<1> QED BY <1>1 DEF Renamed

\* rename( old, oldest ): the first file moves on, or nothing does.
LEMMA RenameOldestFiles == FileInv /\ RenameOldest => FileInv'
<1> SUFFICES ASSUME FileInv, RenameOldest
             PROVE  FileInv'
  OBVIOUS
<1>1. /\ FileTypes /\ OnceEach /\ FirstKept /\ LastKept
      /\ pc = "oldest" /\ pc' = "clear"
      /\ oldGz <=> There("1.gz")
      /\ ~There("2") /\ ~There("2.gz")
      /\ UNCHANGED <<oldGz, level, index, files, first, prev, bare>>
      /\ fs' = IF oldGz THEN Renamed("1.gz", "2.gz") ELSE Renamed("1", "2")
  BY DEF FileInv, Looked, RenameOldest, hist
<1>2. {"1", "1.gz", "2", "2.gz"} \subseteq Name /\ \A n \in Name : fs[n].gen \in Nat
  BY <1>1, Names
<1>3. CASE oldGz
  <2>1. /\ fs' \in [Name -> File]
        /\ fs'["2.gz"] = fs["1.gz"] /\ fs'["1.gz"] = None
        /\ fs'["1"] = fs["1"] /\ fs'["2"] = fs["2"]
    BY <1>1, <1>2, <1>3, RenamedFiles
  <2>2. FileTypes'
    BY <1>1, <2>1 DEF FileTypes
  <2>3. OnceEach' /\ Looked'
    BY <1>1, <1>3, <2>1, NoneIsFile DEF OnceEach, Looked, There, Old, Oldest
  <2>4. FirstKept' /\ LastKept'
    BY <1>1, <1>2, <1>3, <2>1, NoneIsFile
    DEF OnceEach, FirstKept, LastKept, There, Old, Oldest, IsOld, IsOldest
  <2> QED BY <2>2, <2>3, <2>4 DEF FileInv
<1>4. CASE ~oldGz /\ There("1")
  <2>1. /\ fs' \in [Name -> File]
        /\ fs'["2"] = fs["1"] /\ fs'["1"] = None
        /\ fs'["1.gz"] = fs["1.gz"] /\ fs'["2.gz"] = fs["2.gz"]
    BY <1>1, <1>2, <1>4, RenamedFiles
  <2>2. FileTypes'
    BY <1>1, <2>1 DEF FileTypes
  <2>3. OnceEach' /\ Looked'
    BY <1>1, <1>4, <2>1, NoneIsFile DEF OnceEach, Looked, There, Old, Oldest
  <2>4. FirstKept' /\ LastKept'
    BY <1>1, <1>2, <1>4, <2>1, NoneIsFile
    DEF OnceEach, FirstKept, LastKept, There, Old, Oldest, IsOld, IsOldest
  <2> QED BY <2>2, <2>3, <2>4 DEF FileInv
<1>5. CASE ~oldGz /\ ~There("1")
  <2>1. fs' = fs
    BY <1>1, <1>2, <1>5, RenamedFiles
  <2>2. FileTypes'
    BY <1>1, <2>1 DEF FileTypes
  <2>3. Looked'
    BY <1>1, <1>5, <2>1 DEF Looked, There, Old, Oldest
  <2> QED BY <1>1, <2>1, <2>2, <2>3, Quiet
<1> QED BY <1>1, <1>3, <1>4, <1>5 DEF FileTypes

\* unlink( old ): the last file may be lost, the first one is not.
LEMMA UnlinkOldFiles == FileInv /\ UnlinkOld => FileInv'
<1> SUFFICES ASSUME FileInv, UnlinkOld
             PROVE  FileInv'
  OBVIOUS
<1>1. /\ FileTypes /\ OnceEach /\ FirstKept /\ LastKept
      /\ pc = "clear" /\ pc' = "old"
      /\ Oldest \/ ~Old
      /\ ~oldGz => ~There("1.gz")
      /\ UNCHANGED <<oldGz, level, index, files, first, prev>>
      /\ fs' = IF oldGz THEN [fs EXCEPT !["1.gz"] = None] ELSE fs
      /\ bare' = (bare \/ oldGz)
  BY DEF FileInv, Looked, UnlinkOld
<1>2. {"1", "1.gz", "2", "2.gz"} \subseteq Name /\ \A n \in Name : fs[n].gen \in Nat
  BY <1>1, Names
<1>3. CASE oldGz
  <2>1. /\ fs' \in [Name -> File] /\ fs'["1.gz"] = None
        /\ fs'["1"] = fs["1"] /\ fs'["2"] = fs["2"] /\ fs'["2.gz"] = fs["2.gz"]
    BY <1>1, <1>2, <1>3, NoneIsFile DEF FileTypes
  <2>2. bare' = TRUE
    BY <1>1, <1>3
  <2>3. FileTypes'
    BY <1>1, <2>1, <2>2 DEF FileTypes
  <2>4. OnceEach' /\ Looked' /\ LastKept'
    BY <1>1, <2>1, <2>2, NoneIsFile DEF OnceEach, Looked, LastKept, There, Old, Oldest
  <2>5. FirstKept'
    BY <1>1, <1>2, <2>1, NoneIsFile DEF OnceEach, FirstKept, There, Old, Oldest, IsOld, IsOldest
  <2> QED BY <2>3, <2>4, <2>5 DEF FileInv
<1>4. CASE ~oldGz
  <2>1. fs' = fs /\ bare' = bare
    BY <1>1, <1>4 DEF FileTypes
  <2>2. FileTypes'
    BY <1>1, <2>1 DEF FileTypes
  <2>3. Looked'
    BY <1>1, <1>4, <2>1 DEF Looked, There, Old, Oldest
  <2> QED BY <1>1, <2>1, <2>2, <2>3, Quiet
<1> QED BY <1>1, <1>3, <1>4 DEF FileTypes

\* The old file gives way to the last one: it is the oldest by now, or neither
\* the first nor in the way.
LEMMA RenameOldFiles == FileInv /\ RenameOld => FileInv'
<1> SUFFICES ASSUME FileInv, RenameOld
             PROVE  FileInv'
  OBVIOUS
<1>1. /\ FileTypes /\ OnceEach /\ FirstKept /\ LastKept
      /\ pc = "old" /\ pc' = "create"
      /\ Oldest \/ ~Old
      /\ ~There("1.gz")
      /\ UNCHANGED <<oldGz, level, index, files>>
      /\ fs' = Renamed("qt", "1")
      /\ IF There("qt") THEN /\ first' = IF first = 0 THEN fs["qt"].gen ELSE first
                             /\ prev' = fs["qt"].gen
                             /\ bare' = FALSE
                        ELSE UNCHANGED <<first, prev, bare>>
  BY DEF FileInv, Looked, RenameOld
<1>2. /\ {"qt", "1", "1.gz", "2", "2.gz"} \subseteq Name
      /\ \A n \in Name : fs[n] \in File /\ fs[n].gen \in Nat
  BY <1>1, Names
<1>3. Looked'
  BY <1>1 DEF Looked
<1>4. CASE There("qt")
  <2>1. /\ fs' \in [Name -> File] /\ fs'["1"] = fs["qt"]
        /\ fs'["1.gz"] = fs["1.gz"] /\ fs'["2"] = fs["2"] /\ fs'["2.gz"] = fs["2.gz"]
    BY <1>1, <1>2, <1>4, RenamedFiles
  <2>2. FileTypes'
    BY <1>1, <1>2, <1>4, <2>1 DEF FileTypes
  <2>3. OnceEach' /\ LastKept'
    BY <1>1, <1>4, <2>1 DEF OnceEach, LastKept, IsOld, There
  <2>4. FirstKept'
    BY <1>1, <1>2, <1>4, <2>1 DEF FirstKept, There, Old, Oldest, IsOld, IsOldest
  <2> QED BY <1>3, <2>2, <2>3, <2>4 DEF FileInv
<1>5. CASE ~There("qt")
  <2>1. fs' = fs
    BY <1>1, <1>2, <1>5, RenamedFiles
  <2>2. FileTypes'
    BY <1>1, <1>5, <2>1 DEF FileTypes
  <2> QED BY <1>1, <1>3, <1>5, <2>1, <2>2, Quiet
<1> QED BY <1>4, <1>5

\* What happens to the file that is being traced into.
LEMMA CurrentFile ==
    ASSUME FileInv, NEW f \in File, fs' = [fs EXCEPT !["qt"] = f],
           UNCHANGED <<first, prev, bare>>,
           level' \in Level, index' \in Nat, oldGz' \in BOOLEAN, files' \in Nat,
           pc' \notin {"look", "look again", "oldest", "clear", "old", "backup"}
    PROVE  FileInv'
<1>1. FileTypes'
  BY DEF FileInv, FileTypes
<1>2. Looked'
  BY DEF Looked
<1>3. \A n \in {"1", "1.gz", "2", "2.gz"} : fs'[n] = fs[n]
  <2>1. {"1", "1.gz", "2", "2.gz"} \subseteq Name /\ fs \in [Name -> File]
    BY Names DEF FileInv, FileTypes
  <2> QED BY <2>1
<1> QED BY <1>1, <1>2, <1>3, Quiet

\* What getfile creates.
LEMMA NewIsFile == SizeInv /\ FileInv => New \in File
<1> SUFFICES ASSUME SizeInv, FileInv
             PROVE  New \in File
  OBVIOUS
<1>1. sizeSpec \in [Level -> Nat] /\ mapped \in Nat /\ files \in Nat
  BY DEF SizeInv, SizeTypes, FileInv, FileTypes
<1>2. files + 1 \in Nat /\ [l \in Level |-> 0] \in [Level -> Nat]
  BY <1>1
<1> QED BY <1>1, <1>2 DEF New, File

\* A saved file is compressed, and keeps its place.
LEMMA CompressFiles ==
    ASSUME Apart, FileInv, Compress("1", "1.gz") \/ Compress("2", "2.gz")
    PROVE  FileInv'
<1>1. /\ FileTypes /\ OnceEach /\ FirstKept /\ LastKept
      /\ pc' \in {"down", "run"}
      /\ UNCHANGED <<oldGz, level, index, files, first, prev, bare>>
  BY DEF FileInv, Compress, Apart, hist
<1>2. {"1", "1.gz", "2", "2.gz"} \subseteq Name /\ \A n \in Name : fs[n].gen \in Nat
  BY <1>1, Names
<1>3. Looked'
  BY <1>1 DEF Looked
<1>4. CASE Compress("1", "1.gz")
  <2>1. /\ fs' \in [Name -> File] /\ fs'["1.gz"] = fs["1"] /\ fs'["1"] = None
        /\ fs'["2"] = fs["2"] /\ fs'["2.gz"] = fs["2.gz"]
        /\ There("1") /\ ~There("1.gz")
    BY <1>1, <1>2, <1>4, RenamedFiles DEF Compress
  <2>2. FileTypes'
    BY <1>1, <2>1 DEF FileTypes
  <2>3. OnceEach' /\ FirstKept' /\ LastKept'
    BY <1>1, <1>2, <2>1, NoneIsFile
    DEF OnceEach, FirstKept, LastKept, There, Old, Oldest, IsOld, IsOldest
  <2> QED BY <1>3, <2>2, <2>3 DEF FileInv
<1>5. CASE Compress("2", "2.gz")
  <2>1. /\ fs' \in [Name -> File] /\ fs'["2.gz"] = fs["2"] /\ fs'["2"] = None
        /\ fs'["1"] = fs["1"] /\ fs'["1.gz"] = fs["1.gz"]
        /\ There("2") /\ ~There("2.gz")
    BY <1>1, <1>2, <1>5, RenamedFiles DEF Compress
  <2>2. FileTypes'
    BY <1>1, <2>1 DEF FileTypes
  <2>3. OnceEach' /\ FirstKept' /\ LastKept'
    BY <1>1, <1>2, <2>1, NoneIsFile
    DEF OnceEach, FirstKept, LastKept, There, Old, Oldest, IsOld, IsOldest
  <2> QED BY <1>3, <2>2, <2>3 DEF FileInv
<1> QED BY <1>4, <1>5

\* A message is stored.
LEMMA StoreFiles == FileInv /\ Store => FileInv'
<1> SUFFICES ASSUME FileInv, Store
             PROVE  FileInv'
  OBVIOUS
<1> DEFINE f == [fs["qt"] EXCEPT !.written[level] = @ + 1]
<1>1. fs["qt"] \in File /\ level \in Level
  BY Names DEF FileInv, FileTypes
<1>2. f \in File
  BY <1>1 DEF File
<1>3. /\ fs' = [fs EXCEPT !["qt"] = f]
      /\ UNCHANGED <<oldGz, level, index, files, first, prev, bare>>
      /\ pc' = "run"
  BY DEF Store
<1> HIDE DEF f
<1> QED BY <1>2, <1>3, CurrentFile DEF FileInv, FileTypes

\* The file is copied to a backup, whose name is no saved file's.
LEMMA BackupFiles ==
    ASSUME Apart, FileInv, NEW outcome, Backup(outcome)
    PROVE  FileInv'
<1> DEFINE to == BackupName[index]
           this == fs["qt"]
           whole == outcome = "whole" /\ fs[to].len <= this.len
           longer == IF fs[to].len > this.len THEN fs[to].len ELSE this.len
           f == [this EXCEPT !.copy = whole, !.len = longer]
<1>1. /\ pc = "backup" /\ pc' = "store"
      /\ fs' = fs \/ fs' = [fs EXCEPT ![to] = f]
      /\ index' \in {index, index + 1}
      /\ UNCHANGED <<oldGz, level, files, first, prev, bare>>
  BY DEF Backup
<1>2. FileTypes /\ index \in 0 .. MaxIndex
  BY <1>1, FilesAssumption DEF FileInv, FileTypes
<1>3. to \in Backups /\ to \in Name /\ to \notin Saved
  BY <1>2 DEF Backups, Name, Apart
<1>4. this \in File /\ fs[to] \in File
  BY <1>2, <1>3, Names
<1>5. whole \in BOOLEAN /\ longer \in Nat
  BY <1>4 DEF File
<1> HIDE DEF whole, longer, to
<1>6. f \in File
  BY <1>4, <1>5 DEF File
<1> HIDE DEF f
<1>7. FileTypes'
  BY <1>1, <1>2, <1>3, <1>6 DEF FileTypes
<1>8. Looked'
  BY <1>1 DEF Looked
<1>9. \A n \in {"1", "1.gz", "2", "2.gz"} : fs'[n].gen = fs[n].gen
  <2>1. \A n \in Saved : n \in Name /\ n # to
    BY <1>3 DEF Name
  <2>2. fs \in [Name -> File]
    BY <1>2 DEF FileTypes
  <2>3. \A n \in Saved : fs'[n] = fs[n]
    BY <1>1, <2>1, <2>2
  <2> QED BY <2>3 DEF Saved
<1> QED BY <1>1, <1>7, <1>8, <1>9, Quiet

\* Every step of TraceFiles preserves the invariant of the files.
LEMMA FileStep ==
    ASSUME Apart, SizeInv, FileInv, [Next]_vars
    PROVE  FileInv'
<1>0. FileTypes /\ 0 \in Level
  BY SizeAssumption DEF FileInv, Level
<1>1. CASE \E spec \in Sizes, rot \in BOOLEAN, from \in 0 .. MaxIndex : Construct(spec, rot, from)
  <2>1. /\ UNCHANGED <<fs, oldGz, level, files, first, prev, bare>> /\ index' \in Nat
        /\ pc' = "size"
    BY <1>1, FilesAssumption DEF Construct, hist
  <2> QED BY <1>0, <2>1, FilesUntouched DEF FileTypes
<1>2. CASE \/ \E spec \in Sizes : Resize(spec)
           \/ Keep \/ Ready \/ Size
           \/ \E l \in Level : StartMsg(l)
  <2>1. /\ UNCHANGED <<fs, oldGz, index, files, first, prev, bare>>
        /\ level' \in Level
        /\ pc' \notin {"look", "look again", "oldest", "clear", "old"}
        /\ pc' = "backup" => index' <= MaxIndex
    <3>1. CASE \E spec \in Sizes : Resize(spec)
      BY <1>0, <3>1 DEF Resize, hist, FileTypes
    <3>2. CASE Keep \/ Ready
      BY <1>0, <3>2 DEF Keep, Ready, hist, FileTypes
    <3>3. CASE Size
      BY <1>0, <3>3 DEF Size, fileVars, FileTypes
    <3>4. CASE \E l \in Level : StartMsg(l)
      BY <1>0, <3>4 DEF StartMsg, hist, FileTypes
    <3> QED BY <1>2, <3>1, <3>2, <3>3, <3>4
  <2> QED BY <1>0, <2>1, FilesUntouched DEF FileTypes
<1>3. CASE LookAtOld \/ LookAtOldestGz \/ LookAtOldest
  BY <1>3, LookFiles
<1>4. CASE RenameOldest \/ UnlinkOld \/ RenameOld
  BY <1>4, RenameOldestFiles, UnlinkOldFiles, RenameOldFiles
<1>5. CASE Create
  <2>1. /\ fs' = [fs EXCEPT !["qt"] = New] /\ files' = files + 1 /\ pc' = "lay"
        /\ UNCHANGED <<oldGz, level, index, first, prev, bare>>
    BY <1>5 DEF Create
  <2>2. New \in File
    BY NewIsFile
  <2>3. level' \in Level /\ index' \in Nat /\ oldGz' \in BOOLEAN /\ files' \in Nat
    BY <1>0, <2>1 DEF FileTypes
  <2> QED BY <2>1, <2>2, <2>3, CurrentFile
<1>6. CASE \E how \in {"open", "full", "map"} : CreateFails(how)
  <2>1. /\ \E f \in {fs["qt"], None, New} : fs' = [fs EXCEPT !["qt"] = f]
        /\ files' \in {files, files + 1} /\ pc' = "down"
        /\ oldGz' = FALSE /\ level' = 0 /\ index' = 0
        /\ UNCHANGED <<first, prev, bare>>
    <3>1. fs = [fs EXCEPT !["qt"] = fs["qt"]]
      BY <1>0 DEF FileTypes
    <3> QED BY <1>6, <3>1 DEF CreateFails, Down
  <2>2. {fs["qt"], None, New} \subseteq File
    BY <1>0, Names, NoneIsFile, NewIsFile
  <2>3. level' \in Level /\ index' \in Nat /\ oldGz' \in BOOLEAN /\ files' \in Nat
    <3>1. files \in Nat
      BY <1>0 DEF FileTypes
    <3>2. files' \in Nat
      BY <2>1, <3>1
    <3> QED BY <1>0, <2>1, <3>2
  <2> QED BY <2>1, <2>2, <2>3, CurrentFile
<1>7. CASE Crash
  <2>1. /\ UNCHANGED <<fs, files, first, prev, bare>>
        /\ pc' = "down" /\ oldGz' = FALSE /\ level' = 0 /\ index' = 0
    BY <1>7 DEF Crash, Down, hist
  <2> QED BY <1>0, <2>1, FilesUntouched
<1>8. CASE Store \/ \E outcome \in {"none", "error", "short", "whole"} : Backup(outcome)
  BY <1>8, StoreFiles, BackupFiles
<1>9. CASE Compress("1", "1.gz") \/ Compress("2", "2.gz")
  BY <1>9, CompressFiles
<1>10. CASE UNCHANGED vars
  BY <1>10, StutterFiles
<1> QED BY <1>1, <1>2, <1>3, <1>4, <1>5, <1>6, <1>7, <1>8, <1>9, <1>10 DEF Next

\* A file, a file before it, and one before that.
LEMMA InvImpliesRotationKeeps == FileInv => RotationKeeps
<1> SUFFICES ASSUME FileInv
             PROVE  RotationKeeps
  OBVIOUS
<1>1. FirstKept /\ LastKept /\ OnceEach
  BY DEF FileInv
<1>2. first # 0 => first \in Gens
  BY <1>1 DEF FirstKept, IsOld, IsOldest, Gens, Saved
<1>3. prev # 0 => prev \in Gens \/ bare
  BY <1>1 DEF LastKept, IsOld, IsOldest, Gens, Saved
<1>4. Cardinality({n \in Saved : There(n)}) <= 3
  <2> DEFINE S == {n \in Saved : There(n)}
             a == IF There("1") THEN "1" ELSE "1.gz"
             b == IF There("2") THEN "2" ELSE "2.gz"
             T == ({} \cup {"qt"}) \cup {a} \cup {b}
  <2>1. S \subseteq T
    BY <1>1 DEF OnceEach, Saved
  <2>2. /\ IsFiniteSet({"qt"}) /\ Cardinality({"qt"}) = 1
    BY FS_Singleton
  <2>3. /\ IsFiniteSet({"qt"} \cup {a}) /\ Cardinality({"qt"} \cup {a}) <= 2
    BY <2>2, FS_AddElement
  <2>4. /\ IsFiniteSet(({"qt"} \cup {a}) \cup {b}) /\ Cardinality(({"qt"} \cup {a}) \cup {b}) <= 3
    <3>1. Cardinality({"qt"} \cup {a}) \in Nat
      BY <2>3, FS_CardinalityType
    <3> QED BY <2>3, <3>1, FS_AddElement
  <2>5. T = ({"qt"} \cup {a}) \cup {b}
    OBVIOUS
  <2>6. Cardinality(T) \in Nat /\ Cardinality(S) <= Cardinality(T) /\ Cardinality(S) \in Nat
    BY <2>1, <2>4, <2>5, FS_Subset, FS_CardinalityType
  <2> HIDE DEF S, T
  <2>7. Cardinality(S) <= 3
    BY <2>4, <2>5, <2>6
  <2> QED BY <2>7 DEF S
<1> QED BY <1>2, <1>3, <1>4 DEF RotationKeeps

\* RotationKeeps: the first file and the last one that saveOldFiles moved away
\* are kept, at most three in all, however often the program crashes in between
\* its calls, if backups have names of their own and nothing is compressed just
\* then.
THEOREM RotationKeepsFiles ==
    ASSUME Apart
    PROVE  Spec => []RotationKeeps
<1>1. Init => FileInv
  BY FileInit
<1>2. SizeInv /\ FileInv /\ [Next]_vars => FileInv'
  BY FileStep
<1> QED BY <1>1, <1>2, Invariance, InvImpliesRotationKeeps, PTL DEF Spec

(***************************************************************************)
(* Backups: BackupInv is inductive if backups have names of their own,     *)
(* whatever is compressed, and when.                                       *)
(***************************************************************************)
NamesApart == Backups \cap Saved = {}

\* Types depend on nothing else.
LEMMA TypesStep ==
    ASSUME SizeInv, FileTypes, [Next]_vars
    PROVE  FileTypes'
<1>0. /\ fs \in [Name -> File] /\ level \in Level /\ index \in Nat /\ oldGz \in BOOLEAN
      /\ files \in Nat /\ first \in Nat /\ prev \in Nat /\ bare \in BOOLEAN
      /\ pc = "backup" => index <= MaxIndex
      /\ 0 \in Level /\ MaxIndex \in Nat
      /\ Saved \subseteq Name
  BY SizeAssumption, FilesAssumption DEF FileTypes, Level, Name
<1>1. New \in File
  <2>1. sizeSpec \in [Level -> Nat] /\ mapped \in Nat /\ files + 1 \in Nat
    BY <1>0 DEF SizeInv, SizeTypes
  <2> QED BY <2>1 DEF New, File
<1>2. CASE \E spec \in Sizes, rot \in BOOLEAN, from \in 0 .. MaxIndex : Construct(spec, rot, from)
  BY <1>0, <1>2 DEF Construct, hist, FileTypes
<1>3. CASE \/ \E spec \in Sizes : Resize(spec)
           \/ Keep \/ LookAtOld \/ LookAtOldestGz \/ LookAtOldest \/ Ready
  BY <1>0, <1>3 DEF Resize, Keep, LookAtOld, LookAtOldestGz, LookAtOldest, Ready, hist, FileTypes, There
<1>4. CASE Size \/ UNCHANGED vars
  BY <1>0, <1>4 DEF Size, vars, fileVars, FileTypes
<1>5. CASE RenameOldest
  BY <1>0, <1>5, RenamedFiles DEF RenameOldest, hist, FileTypes, Saved
<1>6. CASE UnlinkOld
  BY <1>0, <1>6, NoneIsFile DEF UnlinkOld, FileTypes
<1>7. CASE RenameOld
  <2>1. fs' \in [Name -> File]
    BY <1>0, <1>7, RenamedFiles DEF RenameOld, Saved
  <2>2. fs["qt"].gen \in Nat
    BY <1>0 DEF Saved, File
  <2> QED BY <1>0, <1>7, <2>1, <2>2 DEF RenameOld, FileTypes
<1>8. CASE Create
  <2>1. fs' \in [Name -> File]
    BY <1>0, <1>1, <1>8 DEF Create
  <2>2. files' \in Nat /\ pc' = "lay" /\ UNCHANGED <<oldGz, level, index, first, prev, bare>>
    BY <1>0, <1>8 DEF Create
  <2> QED BY <1>0, <2>1, <2>2 DEF FileTypes
<1>9. CASE \E how \in {"open", "full", "map"} : CreateFails(how)
  <2>1. fs' \in [Name -> File]
    BY <1>0, <1>1, <1>9, NoneIsFile DEF CreateFails
  <2>2. /\ pc' = "down" /\ files' \in {files, files + 1}
        /\ oldGz' = FALSE /\ level' = 0 /\ index' = 0
        /\ UNCHANGED <<first, prev, bare>>
    BY <1>9 DEF CreateFails, Down
  <2>3. files' \in Nat
    BY <1>0, <2>2
  <2> QED BY <1>0, <2>1, <2>2, <2>3 DEF FileTypes
<1>10. CASE \E l \in Level : StartMsg(l)
  BY <1>0, <1>10 DEF StartMsg, hist, FileTypes
<1>11. ASSUME NEW outcome \in {"none", "error", "short", "whole"}, Backup(outcome)
       PROVE  FileTypes'
  <2> DEFINE to == BackupName[index]
             this == fs["qt"]
             whole == outcome = "whole" /\ fs[to].len <= this.len
             longer == IF fs[to].len > this.len THEN fs[to].len ELSE this.len
             f == [this EXCEPT !.copy = whole, !.len = longer]
  <2>1. /\ pc = "backup" /\ pc' = "store"
        /\ fs' = fs \/ fs' = [fs EXCEPT ![to] = f]
        /\ index' \in {index, index + 1}
        /\ UNCHANGED <<oldGz, level, files, first, prev, bare>>
    BY <1>11 DEF Backup
  <2>2. to \in Name
    BY <1>0, <2>1, FilesAssumption DEF Backups, Name
  <2>3. this \in File /\ fs[to] \in File
    BY <1>0, <2>2 DEF Saved
  <2>4. whole \in BOOLEAN /\ longer \in Nat
    BY <2>3 DEF File
  <2> HIDE DEF whole, longer, to
  <2>5. f \in File
    BY <2>3, <2>4 DEF File
  <2> HIDE DEF f
  <2>6. fs' \in [Name -> File]
    BY <1>0, <2>1, <2>5
  <2> QED BY <1>0, <2>1, <2>6 DEF FileTypes
<1>12. CASE Store
  <2> DEFINE f == [fs["qt"] EXCEPT !.written[level] = @ + 1]
  <2>1. f \in File
    <3>1. fs["qt"] \in File
      BY <1>0 DEF Saved
    <3> QED BY <1>0, <3>1 DEF File
  <2>2. /\ fs' = [fs EXCEPT !["qt"] = f] /\ pc' = "run"
        /\ UNCHANGED <<oldGz, level, index, files, first, prev, bare>>
    BY <1>12 DEF Store
  <2> HIDE DEF f
  <2>3. fs' \in [Name -> File]
    BY <1>0, <2>1, <2>2
  <2> QED BY <1>0, <2>2, <2>3 DEF FileTypes
<1>13. CASE Crash
  BY <1>0, <1>13 DEF Crash, Down, hist, FileTypes
<1>14. CASE Compress("1", "1.gz") \/ Compress("2", "2.gz")
  <2>1. /\ fs' \in [Name -> File] /\ pc' = pc
        /\ UNCHANGED <<oldGz, level, index, files, first, prev, bare>>
    BY <1>0, <1>14, RenamedFiles DEF Compress, hist, Saved
  <2> QED BY <1>0, <2>1 DEF FileTypes
<1> QED BY <1>2, <1>3, <1>4, <1>5, <1>6, <1>7, <1>8, <1>9, <1>10, <1>11, <1>12, <1>13, <1>14 DEF Next

\* Remainders of the number of messages: the next one is one larger, or 0.
LEMMA RemainderSmall ==
    ASSUME NEW w \in Nat, NEW c \in Nat \ {0}
    PROVE  w % c \in 0 .. c - 1
OBVIOUS

\* What is left of a sum of a multiple and of something small.
LEMMA RemainderOf ==
    ASSUME NEW q \in Nat, NEW r \in Nat, NEW c \in Nat \ {0}, r < c
    PROVE  (c * q + r) % c = r
OBVIOUS

\* As long as the lap is not over, its place is one further.
LEMMA RemainderGoesOn ==
    ASSUME NEW w \in Nat, NEW c \in Nat \ {0}, (w % c) + 1 < c
    PROVE  (w + 1) % c = (w % c) + 1
<1> DEFINE q == w \div c
           r == w % c
<1>1. w = c * q + r /\ q \in Nat /\ r \in Nat
  OBVIOUS
<1>2. w + 1 = c * q + (r + 1)
  <2>1. c * q \in Nat
    BY <1>1
  <2> QED BY <1>1, <2>1
<1>3. (c * q + (r + 1)) % c = r + 1
  <2>1. r + 1 \in Nat /\ r + 1 < c
    BY <1>1
  <2> QED BY <1>1, <2>1, RemainderOf
<1> QED BY <1>2, <1>3

\* When it is over, the next one begins.
LEMMA RemainderRestarts ==
    ASSUME NEW w \in Nat, NEW c \in Nat \ {0}, (w % c) + 1 = c
    PROVE  (w + 1) % c = 0
<1> DEFINE q == w \div c
<1>1. w = c * q + (w % c) /\ q \in Nat
  OBVIOUS
<1>2. w + 1 = c * (q + 1) + 0
  <2>1. c * q \in Nat /\ c * (q + 1) = c * q + c
    BY <1>1
  <2> QED BY <1>1, <2>1
<1>3. (c * (q + 1) + 0) % c = 0
  <2>1. q + 1 \in Nat /\ 0 < c
    BY <1>1
  <2> QED BY <2>1, RemainderOf
<1> QED BY <1>2, <1>3

\* Where the last lap begins when one more message is there: no earlier than the
\* ring reaches back to, and where it began before, unless it was full.
LEMMA LapGoesOn ==
    ASSUME NEW w \in Nat, NEW c \in Nat \ {0}
    PROVE  /\ LapStart(w, c) \in Int /\ LapStart(w + 1, c) \in Int
           /\ w - c <= LapStart(w, c)
           /\ LapStart(w, c) <= w
           /\ LapStart(w + 1, c) <= w
           /\ w % c # 0 => /\ LapStart(w + 1, c) <= LapStart(w, c)
                           /\ w + 1 - c <= LapStart(w, c)
           /\ w % c = 0 => LapStart(w, c) = w - c
<1> DEFINE r == w % c
           s == (w + 1) % c
<1>1. r \in 0 .. c - 1 /\ s \in 0 .. c - 1
  BY RemainderSmall
<1>2. /\ r + 1 < c => s = r + 1
      /\ r + 1 = c => s = 0
  <2>1. r + 1 < c => s = r + 1
    BY RemainderGoesOn
  <2>2. r + 1 = c => s = 0
    BY RemainderRestarts
  <2> QED BY <2>1, <2>2
<1>3. LapStart(w, c) = IF r = 0 THEN w - c ELSE w - r
  BY DEF LapStart
<1>4. LapStart(w + 1, c) = IF s = 0 THEN w + 1 - c ELSE w + 1 - s
  BY DEF LapStart
<1> HIDE DEF r, s
<1>5. r # 0 => LapStart(w + 1, c) <= LapStart(w, c) /\ w + 1 - c <= LapStart(w, c)
  BY <1>1, <1>2, <1>3, <1>4
<1>6. /\ LapStart(w, c) \in Int /\ LapStart(w + 1, c) \in Int
      /\ w - c <= LapStart(w, c) /\ LapStart(w, c) <= w /\ LapStart(w + 1, c) <= w
      /\ r = 0 => LapStart(w, c) = w - c
  BY <1>1, <1>3, <1>4
<1> QED BY <1>5, <1>6 DEF r

\* What is in a backup stays there as long as no backup is made.
LEMMA SafeStays ==
    ASSUME UNCHANGED missed, \A b \in Backups : fs'[b] = fs[b],
           NEW gen, NEW l, NEW k, Safe(gen, l, k)
    PROVE  Safe(gen, l, k)'
BY DEF Safe

\* Renaming, removing and creating files: what is found under a name was under
\* another one, or is empty.
LEMMA FilesMoved ==
    ASSUME BackupsHoldEverything,
           UNCHANGED missed, \A b \in Backups : fs'[b] = fs[b],
           \A n \in Saved : \/ \E m \in Saved : fs'[n] = fs[m]
                            \/ \A l \in Level : fs'[n].written[l] = 0
    PROVE  BackupsHoldEverything'
<1> SUFFICES ASSUME NEW n \in Saved, NEW l \in Level, NEW k \in 1 .. fs'[n].written[l],
                    ~(k \in Holds(fs'[n], l))
             PROVE  Safe(fs[n].gen, l, k)'
  BY DEF BackupsHoldEverything, Safe
<1>1. CASE \A j \in Level : fs'[n].written[j] = 0
  BY <1>1
<1>2. CASE \E m \in Saved : fs'[n] = fs[m]
  <2>1. PICK m \in Saved : fs'[n] = fs[m]
    BY <1>2
  <2>2. Safe(fs[m].gen, l, k)
    BY <2>1 DEF BackupsHoldEverything, Safe
  <2> QED BY <2>1, <2>2 DEF Safe
<1> QED BY <1>1, <1>2

\* The file that is traced into, and the backups, stay what they are.
LEMMA LapsStay ==
    ASSUME LapsSafe,
           UNCHANGED missed, \A b \in Backups : fs'[b] = fs[b], fs'["qt"] = fs["qt"],
           pc' \in {"lay", "run", "backup", "store"} => pc \in {"lay", "run", "backup", "store"}
    PROVE  LapsSafe'
<1> SUFFICES ASSUME pc' \in {"lay", "run", "backup", "store"}, NEW l \in Level
             PROVE  /\ fs["qt"].cap[l] >= 1
                    /\ SafeUpTo(l, LapStart(fs["qt"].written[l], fs["qt"].cap[l]))'
  BY DEF LapsSafe
<1>1. /\ fs["qt"].cap[l] >= 1
      /\ SafeUpTo(l, LapStart(fs["qt"].written[l], fs["qt"].cap[l]))
  BY DEF LapsSafe
<1>2. ASSUME NEW k \in 1 .. LapStart(fs["qt"].written[l], fs["qt"].cap[l])
      PROVE  Safe(fs["qt"].gen, l, k)'
  <2>1. Safe(fs["qt"].gen, l, k)
    BY <1>1 DEF SafeUpTo
  <2> QED BY <2>1 DEF Safe
<1> QED BY <1>1, <1>2 DEF SafeUpTo

\* What a file has to offer.
LEMMA MessagesOf ==
    ASSUME NEW f, NEW l \in Level, NEW k \in Holds(f, l)
    PROVE  <<f.gen, l, k>> \in Messages(f)
BY DEF Messages

\* maybeBackupBuffer: what is lost with the copy it is written over is noted as
\* missed; before the message is stored, the whole ring is in the copy, or missed.
LEMMA BackupKeeps ==
    ASSUME NamesApart, BackupInv, NEW outcome, Backup(outcome)
    PROVE  BackupsHoldEverything' /\ LapsSafe' /\ BackedUpFirst'
<1> DEFINE to == BackupName[index]
           this == fs["qt"]
           whole == outcome = "whole" /\ fs[to].len <= this.len
           longer == IF fs[to].len > this.len THEN fs[to].len ELSE this.len
           f == [this EXCEPT !.copy = whole, !.len = longer]
<1>1. /\ pc = "backup" /\ pc' = "store" /\ level' = level /\ level \in Level
      /\ index \in 0 .. MaxIndex
      /\ fs \in [Name -> File]
      /\ Full(level)
  BY FilesAssumption DEF Backup, BackupInv, FileTypes, BackedUpFirst
<1>2. /\ to \in Backups /\ Backups \subseteq Name /\ Saved \subseteq Name /\ "qt" \in Saved
      /\ \A n \in Saved : n # to
  BY <1>1 DEF Backups, Name, Saved, NamesApart
<1>3. /\ this \in File /\ fs[to] \in File
  BY <1>1, <1>2
<1>4. /\ f.gen = this.gen /\ f.written = this.written /\ f.cap = this.cap /\ f.copy = whole
  BY <1>3 DEF File
<1>5. /\ outcome = "none" => fs' = fs /\ ~whole
      /\ outcome # "none" => fs' = [fs EXCEPT ![to] = f]
      /\ missed \subseteq missed'
      /\ outcome # "none" /\ fs[to].copy => Messages(fs[to]) \subseteq missed'
      /\ ~whole => Messages(this) \subseteq missed'
  BY DEF Backup
<1> HIDE DEF f, whole, longer
<1>6. /\ \A n \in Saved : fs'[n] = fs[n]
      /\ \A b \in Backups : fs'[b] = fs[b] \/ (b = to /\ outcome # "none")
      /\ whole => fs'[to] = f
  <2>1. CASE outcome = "none"
    BY <1>5, <2>1
  <2>2. CASE outcome # "none"
    BY <1>1, <1>2, <1>5, <2>2
  <2> QED BY <2>1, <2>2
<1>7. ASSUME NEW gen, NEW l \in Level, NEW k, Safe(gen, l, k)
      PROVE  Safe(gen, l, k)'
  <2>1. CASE <<gen, l, k>> \in missed
    BY <1>5, <2>1 DEF Safe
  <2>2. CASE \E b \in Backups : fs[b].gen = gen /\ fs[b].copy /\ k \in Holds(fs[b], l)
    <3>1. PICK b \in Backups : fs[b].gen = gen /\ fs[b].copy /\ k \in Holds(fs[b], l)
      BY <2>2
    <3>2. CASE fs'[b] = fs[b]
      BY <3>1, <3>2 DEF Safe
    <3>3. CASE b = to /\ outcome # "none"
      <4>1. <<gen, l, k>> \in Messages(fs[to])
        BY <3>1, <3>3, MessagesOf
      <4> QED BY <1>5, <3>1, <3>3, <4>1 DEF Safe
    <3> QED BY <1>6, <3>2, <3>3
  <2> QED BY <1>7, <2>1, <2>2 DEF Safe
<1>8. BackupsHoldEverything'
  <2> SUFFICES ASSUME NEW n \in Saved, NEW l \in Level, NEW k \in 1 .. fs'[n].written[l],
                      ~(k \in Holds(fs'[n], l))
               PROVE  Safe(fs[n].gen, l, k)'
    BY DEF BackupsHoldEverything, Safe
  <2>1. Safe(fs[n].gen, l, k)
    BY <1>6 DEF BackupInv, BackupsHoldEverything, Safe
  <2>2. PICK gen : gen = fs[n].gen
    OBVIOUS
  <2>3. Safe(gen, l, k)'
    BY <1>7, <2>1, <2>2
  <2>4. gen = fs'[n].gen
    BY <1>6, <2>2
  <2> QED BY <2>3, <2>4 DEF Safe
<1>9. ASSUME NEW l \in Level, NEW k, Safe(this.gen, l, k)
      PROVE  Safe(fs["qt"].gen, l, k)'
  <2>1. PICK gen : gen = this.gen
    OBVIOUS
  <2>2. Safe(gen, l, k)'
    BY <1>7, <1>9, <2>1
  <2>3. gen = fs'["qt"].gen
    BY <1>2, <1>6, <2>1
  <2> QED BY <2>2, <2>3 DEF Safe
<1>10. ASSUME NEW l \in Level
       PROVE  /\ this.cap[l] >= 1
              /\ SafeUpTo(l, LapStart(this.written[l], this.cap[l]))'
  <2>1. /\ this.cap[l] >= 1
        /\ SafeUpTo(l, LapStart(this.written[l], this.cap[l]))
    BY <1>1 DEF BackupInv, LapsSafe
  <2>2. \A k \in 1 .. LapStart(this.written[l], this.cap[l]) : Safe(fs["qt"].gen, l, k)'
    BY <1>9, <2>1 DEF SafeUpTo
  <2>3. fs'["qt"] = fs["qt"]
    BY <1>2, <1>6
  <2> QED BY <2>1, <2>2, <2>3 DEF SafeUpTo
<1>11. LapsSafe'
  BY <1>2, <1>6, <1>10 DEF LapsSafe
<1>12. BackedUpFirst'
  <2> DEFINE w == this.written[level]
             c == this.cap[level]
  <2>1. w \in Nat /\ c \in Nat \ {0} /\ w # 0 /\ w % c = 0
    BY <1>1, <1>3, <1>10 DEF File, Full
  <2>2. LapStart(w, c) = w - c
    BY <2>1, LapGoesOn
  <2>3. ASSUME NEW k \in 1 .. w
        PROVE  Safe(fs["qt"].gen, level, k)'
    <3>1. CASE k <= w - c
      <4>1. Safe(this.gen, level, k)
        <5>1. k \in 1 .. LapStart(w, c)
          BY <2>1, <2>2, <3>1
        <5>2. SafeUpTo(level, LapStart(w, c))
          BY <1>1 DEF BackupInv, LapsSafe
        <5> QED BY <5>1, <5>2 DEF SafeUpTo
      <4> QED BY <1>1, <1>9, <4>1
    <3>2. CASE k > w - c
      <4>1. k \in Holds(this, level)
        BY <2>1, <3>2 DEF Holds
      <4>2. CASE whole
        <5>1. /\ fs'[to] = f /\ f.gen = this.gen /\ f.copy /\ k \in Holds(f, level)
          BY <1>4, <1>6, <4>1, <4>2 DEF Holds
        <5>2. fs'["qt"].gen = this.gen
          BY <1>2, <1>6
        <5> QED BY <1>1, <1>2, <5>1, <5>2 DEF Safe
      <4>3. CASE ~whole
        <5>1. <<this.gen, level, k>> \in missed'
          BY <1>1, <1>5, <4>1, <4>3, MessagesOf
        <5>2. fs'["qt"].gen = this.gen
          BY <1>2, <1>6
        <5> QED BY <1>1, <5>1, <5>2 DEF Safe
      <4> QED BY <4>2, <4>3
    <3> QED BY <2>1, <3>1, <3>2
  <2>4. fs'["qt"] = fs["qt"] /\ level' = level
    BY <1>1, <1>2, <1>6
  <2> QED BY <1>1, <2>3, <2>4 DEF BackedUpFirst, SafeUpTo
<1> QED BY <1>8, <1>11, <1>12

\* A message is stored: what it overwrites is of a lap that has been seen to.
LEMMA StoreKeeps ==
    ASSUME NamesApart, BackupInv, Store
    PROVE  BackupsHoldEverything' /\ LapsSafe' /\ BackedUpFirst'
<1> DEFINE this == fs["qt"]
           w == this.written[level]
           c == this.cap[level]
           f == [this EXCEPT !.written[level] = @ + 1]
<1>1. /\ pc = "store" /\ pc' = "run" /\ level \in Level /\ missed' = missed
      /\ fs' = [fs EXCEPT !["qt"] = f]
      /\ fs \in [Name -> File]
      /\ \A b \in Backups : b \in Name /\ b # "qt"
      /\ Saved \subseteq Name /\ "qt" \in Saved
  BY DEF Store, BackupInv, FileTypes, Name, Saved, NamesApart
<1>2. this \in File
  BY <1>1
<1>3. /\ f.gen = this.gen /\ f.cap = this.cap
      /\ \A l \in Level : f.written[l] = IF l = level THEN w + 1 ELSE this.written[l]
      /\ w \in Nat /\ c \in Nat
  BY <1>1, <1>2 DEF File
<1> HIDE DEF f
<1>4. /\ fs'["qt"] = f
      /\ \A b \in Backups : fs'[b] = fs[b]
      /\ \A n \in Saved \ {"qt"} : fs'[n] = fs[n]
  BY <1>1
<1>5. \A l \in Level : /\ this.cap[l] >= 1
                       /\ SafeUpTo(l, LapStart(this.written[l], this.cap[l]))
  BY <1>1 DEF BackupInv, LapsSafe
<1>6. c \in Nat \ {0}
  BY <1>1, <1>3, <1>5
<1>7. ASSUME NEW gen, NEW l, NEW k, Safe(gen, l, k)
      PROVE  Safe(gen, l, k)'
  BY <1>1, <1>4, <1>7, SafeStays
<1>8. ASSUME NEW k \in 1 .. w, k <= w + 1 - c \/ k <= LapStart(w + 1, c)
      PROVE  Safe(this.gen, level, k)
  <2>1. CASE w % c = 0
    <3>1. Full(level)
      BY <1>3, <2>1 DEF Full
    <3>2. SafeUpTo(level, w)
      BY <1>1, <3>1 DEF BackupInv, BackedUpFirst
    <3> QED BY <3>2 DEF SafeUpTo
  <2>2. CASE w % c # 0
    <3>1. k \in 1 .. LapStart(w, c)
      <4>1. /\ LapStart(w, c) \in Int /\ LapStart(w + 1, c) \in Int
            /\ LapStart(w + 1, c) <= LapStart(w, c)
            /\ w + 1 - c <= LapStart(w, c)
        BY <1>3, <1>6, <2>2, LapGoesOn
      <4> QED BY <1>3, <1>8, <4>1
    <3>2. SafeUpTo(level, LapStart(w, c))
      BY <1>1, <1>5
    <3> QED BY <3>1, <3>2 DEF SafeUpTo
  <2> QED BY <2>1, <2>2
<1>9. BackupsHoldEverything'
  <2> SUFFICES ASSUME NEW n \in Saved, NEW l \in Level, NEW k \in 1 .. fs'[n].written[l],
                      ~(k \in Holds(fs'[n], l))
               PROVE  \E gen : gen = fs'[n].gen /\ Safe(gen, l, k)'
    BY DEF BackupsHoldEverything, Safe
  <2>1. Safe(fs[n].gen, l, k)
    <3>1. CASE n = "qt" /\ l = level
      <4>1. k \in 1 .. w + 1 /\ ~(k > w + 1 - c)
        BY <1>3, <1>4, <3>1 DEF Holds
      <4>2. k \in 1 .. w /\ k <= w + 1 - c
        BY <1>3, <1>6, <4>1
      <4> QED BY <1>8, <3>1, <4>2
    <3>2. CASE n # "qt" \/ l # level
      <4>1. /\ fs'[n].gen = fs[n].gen /\ fs'[n].cap = fs[n].cap
            /\ fs'[n].written[l] = fs[n].written[l]
        BY <1>3, <1>4, <3>2
      <4>2. k \in 1 .. fs[n].written[l] /\ ~(k \in Holds(fs[n], l))
        BY <4>1 DEF Holds
      <4> QED BY <4>2 DEF BackupInv, BackupsHoldEverything, Safe
    <3> QED BY <3>1, <3>2
  <2>2. PICK gen : gen = fs[n].gen
    OBVIOUS
  <2>3. Safe(gen, l, k)'
    BY <1>7, <2>1, <2>2
  <2>4. gen = fs'[n].gen
    BY <1>3, <1>4, <2>2
  <2> QED BY <2>3, <2>4
<1>10. ASSUME NEW l \in Level, NEW k, Safe(this.gen, l, k)
       PROVE  Safe(fs["qt"].gen, l, k)'
  <2>1. PICK gen : gen = this.gen
    OBVIOUS
  <2>2. Safe(gen, l, k)'
    BY <1>7, <1>10, <2>1
  <2>3. gen = fs'["qt"].gen
    BY <1>3, <1>4, <2>1
  <2> QED BY <2>2, <2>3 DEF Safe
<1>11. ASSUME NEW l \in Level
       PROVE  /\ f.cap[l] >= 1
              /\ \A k \in 1 .. LapStart(f.written[l], f.cap[l]) : Safe(this.gen, l, k)
  <2>1. CASE l = level
    <3>1. f.written[l] = w + 1 /\ f.cap[l] = c
      BY <1>3, <2>1
    <3>2. LapStart(w + 1, c) \in Int /\ LapStart(w + 1, c) <= w
      BY <1>3, <1>6, LapGoesOn
    <3>3. \A k \in 1 .. LapStart(w + 1, c) : k \in 1 .. w /\ k <= LapStart(w + 1, c)
      BY <1>3, <3>2
    <3> QED BY <1>6, <1>8, <2>1, <3>1, <3>3
  <2>2. CASE l # level
    <3>1. f.written[l] = this.written[l] /\ f.cap[l] = this.cap[l]
      BY <1>3, <2>2
    <3> QED BY <1>5, <3>1 DEF SafeUpTo
  <2> QED BY <2>1, <2>2
<1>12. LapsSafe'
  <2>1. \A l \in Level : /\ fs'["qt"].cap[l] >= 1
                         /\ SafeUpTo(l, LapStart(fs["qt"].written[l], fs["qt"].cap[l]))'
    BY <1>4, <1>10, <1>11 DEF SafeUpTo
  <2> QED BY <2>1 DEF LapsSafe
<1>13. BackedUpFirst'
  BY <1>1 DEF BackedUpFirst
<1> QED BY <1>9, <1>12, <1>13

\* In a new file nothing has been traced, and its rings have a size.
LEMMA NewFileFits ==
    ASSUME SizeInv, step = "mapped"
    PROVE  \A l \in Level : New.written[l] = 0 /\ New.cap[l] >= 1
<1>1. AddsUp(got, sizeSpec, NumTraceLevels)
  BY DEF SizeInv, Settled
<1>2. \A l \in Level : sizeSpec[l] >= 1
  <2>1. \A l \in Level : l < NumTraceLevels
    BY SizeAssumption DEF Level
  <2> QED BY <1>1, <2>1 DEF AddsUp
<1> QED BY <1>2 DEF New

\* No lap has been begun in it.
LEMMA NoLapYet == \A c \in Nat \ {0} : LapStart(0, c) \in Int /\ LapStart(0, c) <= 0
BY LapGoesOn

\* getfile creates the file: nothing is to be backed up yet.
LEMMA CreateKeeps ==
    ASSUME NamesApart, SizeInv, BackupInv, Create
    PROVE  BackupsHoldEverything' /\ LapsSafe' /\ BackedUpFirst'
<1>1. /\ pc' = "lay" /\ missed' = missed /\ step = "mapped"
      /\ fs' = [fs EXCEPT !["qt"] = New]
      /\ fs \in [Name -> File]
      /\ \A b \in Backups : b \in Name /\ b # "qt"
      /\ Saved \subseteq Name /\ "qt" \in Saved
  BY DEF Create, LayOut, BackupInv, FileTypes, Name, Saved, NamesApart
<1>2. \A l \in Level : New.written[l] = 0 /\ New.cap[l] >= 1 /\ New.cap[l] \in Nat
  BY <1>1, NewFileFits DEF New, SizeInv, SizeTypes
<1>3. /\ fs'["qt"] = New
      /\ \A b \in Backups : fs'[b] = fs[b]
      /\ \A n \in Saved \ {"qt"} : fs'[n] = fs[n]
  BY <1>1
<1>4. BackupsHoldEverything'
  <2>1. \A n \in Saved : \/ \E m \in Saved : fs'[n] = fs[m]
                         \/ \A l \in Level : fs'[n].written[l] = 0
    BY <1>2, <1>3
  <2> QED BY <1>1, <1>3, <2>1, FilesMoved DEF BackupInv
<1>5. LapsSafe'
  <2>1. ASSUME NEW l \in Level
        PROVE  /\ fs'["qt"].cap[l] >= 1
               /\ SafeUpTo(l, LapStart(fs["qt"].written[l], fs["qt"].cap[l]))'
    <3>1. /\ fs'["qt"].written[l] = 0 /\ fs'["qt"].cap[l] = New.cap[l]
          /\ New.cap[l] \in Nat \ {0}
      BY <1>2, <1>3
    <3>2. LapStart(0, New.cap[l]) \in Int /\ LapStart(0, New.cap[l]) <= 0
      BY <3>1, NoLapYet
    <3>3. 1 .. LapStart(0, New.cap[l]) = {}
      BY <3>2
    <3> QED BY <3>1, <3>3 DEF SafeUpTo
  <2> QED BY <2>1 DEF LapsSafe
<1>6. BackedUpFirst'
  BY <1>1 DEF BackedUpFirst
<1> QED BY <1>4, <1>5, <1>6

\* Steps after which nothing is being traced: the file that was traced into is
\* under another name, or gone, or begun anew.
LEMMA Stopped ==
    ASSUME NamesApart, BackupInv,
           pc' \notin {"lay", "run", "backup", "store"}, UNCHANGED missed,
           \A b \in Backups : fs'[b] = fs[b],
           \A n \in Saved : \/ \E m \in Saved : fs'[n] = fs[m]
                            \/ \A l \in Level : fs'[n].written[l] = 0
    PROVE  BackupsHoldEverything' /\ LapsSafe' /\ BackedUpFirst'
<1>1. BackupsHoldEverything'
  BY FilesMoved DEF BackupInv
<1>2. LapsSafe' /\ BackedUpFirst'
  BY DEF LapsSafe, BackedUpFirst
<1> QED BY <1>1, <1>2

\* rename: what was under a name is under another one.
LEMMA RenamedMoves ==
    ASSUME NamesApart, FileTypes, NEW from \in Saved, NEW to \in Saved, from # to,
           fs' = Renamed(from, to) \/ fs' = fs
    PROVE  /\ \A b \in Backups : fs'[b] = fs[b]
           /\ \A n \in Saved : \/ \E m \in Saved : fs'[n] = fs[m]
                               \/ \A l \in Level : fs'[n].written[l] = 0
<1>1. /\ Saved \subseteq Name
      /\ \A b \in Backups : b \in Name \ {from, to}
      /\ \A l \in Level : None.written[l] = 0
  BY DEF Name, NamesApart, None
<1>2. CASE fs' = fs
  BY <1>2
<1>3. CASE fs' = Renamed(from, to)
  <2>1. \A n \in Name \ {from, to} : fs'[n] = fs[n]
    BY <1>1, <1>3, RenamedFiles
  <2>2. (fs'[to] = fs[from] /\ fs'[from] = None) \/ fs' = fs
    BY <1>1, <1>3, RenamedFiles
  <2> QED BY <1>1, <2>1, <2>2
<1> QED BY <1>2, <1>3

\* Every step of TraceFiles preserves the invariant of the backups.
LEMMA BackupStep ==
    ASSUME NamesApart, SizeInv, BackupInv, [Next]_vars
    PROVE  BackupInv'
<1>0. FileTypes /\ BackupsHoldEverything /\ LapsSafe /\ BackedUpFirst
  BY DEF BackupInv
<1>1. FileTypes'
  BY <1>0, TypesStep
<1> SUFFICES BackupsHoldEverything' /\ LapsSafe' /\ BackedUpFirst'
  BY <1>1 DEF BackupInv
<1>2. /\ "qt" \in Saved /\ "1" \in Saved /\ "1.gz" \in Saved /\ "2" \in Saved /\ "2.gz" \in Saved
      /\ Saved \subseteq Name
      /\ \A b \in Backups : b \in Name /\ b \notin Saved
      /\ fs \in [Name -> File]
      /\ \A l \in Level : None.written[l] = 0
  BY <1>0 DEF Saved, Name, NamesApart, FileTypes, None
<1>3. CASE \/ \E spec \in Sizes, rot \in BOOLEAN, from \in 0 .. MaxIndex : Construct(spec, rot, from)
           \/ \E spec \in Sizes : Resize(spec)
           \/ Keep \/ LookAtOld \/ LookAtOldestGz \/ LookAtOldest \/ Crash
  <2>1. /\ fs' = fs /\ missed' = missed
        /\ pc' \notin {"lay", "run", "backup", "store"}
    BY <1>3 DEF Construct, Resize, Keep, LookAtOld, LookAtOldestGz, LookAtOldest, Crash, Down, hist
  <2> QED BY <2>1, Stopped
<1>4. CASE RenameOldest \/ UnlinkOld \/ RenameOld
  <2>1. pc' \notin {"lay", "run", "backup", "store"} /\ missed' = missed
    BY <1>4 DEF RenameOldest, UnlinkOld, RenameOld, hist
  <2>2. /\ \A b \in Backups : fs'[b] = fs[b]
        /\ \A n \in Saved : \/ \E m \in Saved : fs'[n] = fs[m]
                            \/ \A l \in Level : fs'[n].written[l] = 0
    <3>1. CASE RenameOldest
      <4>1. fs' = Renamed("1.gz", "2.gz") \/ fs' = Renamed("1", "2")
        BY <3>1 DEF RenameOldest
      <4>2. CASE fs' = Renamed("1.gz", "2.gz")
        BY <1>0, <1>2, <4>2, RenamedMoves
      <4>3. CASE fs' = Renamed("1", "2")
        BY <1>0, <1>2, <4>3, RenamedMoves
      <4> QED BY <4>1, <4>2, <4>3
    <3>2. CASE UnlinkOld
      BY <1>2, <3>2 DEF UnlinkOld
    <3>3. CASE RenameOld
      <4>1. fs' = Renamed("qt", "1")
        BY <3>3 DEF RenameOld
      <4> QED BY <1>0, <1>2, <4>1, RenamedMoves
    <3> QED BY <1>4, <3>1, <3>2, <3>3
  <2> QED BY <2>1, <2>2, Stopped
<1>5. CASE Create
  BY <1>5, CreateKeeps
<1>6. CASE \E how \in {"open", "full", "map"} : CreateFails(how)
  <2>1. /\ pc' = "down" /\ missed' = missed
        /\ \/ fs' = fs \/ fs' = [fs EXCEPT !["qt"] = None] \/ fs' = [fs EXCEPT !["qt"] = New]
    BY <1>6 DEF CreateFails, Down
  <2>2. \A l \in Level : New.written[l] = 0
    BY DEF New
  <2>3. \A b \in Backups : fs'[b] = fs[b]
    BY <1>2, <2>1
  <2>4. \A n \in Saved : \/ \E m \in Saved : fs'[n] = fs[m]
                         \/ \A l \in Level : fs'[n].written[l] = 0
    BY <1>2, <2>1, <2>2
  <2> QED BY <2>1, <2>3, <2>4, Stopped
<1>7. CASE Ready
  <2>1. fs' = fs /\ missed' = missed /\ pc = "lay" /\ pc' = "run"
    BY <1>7 DEF Ready, hist
  <2> QED BY <1>0, <2>1, FilesMoved, LapsStay DEF BackedUpFirst
<1>8. CASE Size \/ UNCHANGED vars
  <2>1. fs' = fs /\ missed' = missed /\ pc' = pc /\ level' = level
    BY <1>8 DEF Size, vars, fileVars
  <2>2. BackedUpFirst'
    BY <1>0, <2>1 DEF BackedUpFirst, Full, SafeUpTo, Safe
  <2> QED BY <1>0, <2>1, <2>2, FilesMoved, LapsStay
<1>9. ASSUME NEW l \in Level, StartMsg(l)
      PROVE  BackupsHoldEverything' /\ LapsSafe' /\ BackedUpFirst'
  <2>1. /\ fs' = fs /\ missed' = missed /\ pc = "run" /\ level' = l
        /\ pc' = IF Full(l) THEN "backup" ELSE "store"
    BY <1>9 DEF StartMsg, hist
  <2>2. BackedUpFirst'
    BY <2>1 DEF BackedUpFirst, Full
  <2> QED BY <1>0, <2>1, <2>2, FilesMoved, LapsStay
<1>10. CASE \E outcome \in {"none", "error", "short", "whole"} : Backup(outcome)
  BY <1>10, BackupKeeps
<1>11. CASE Store
  BY <1>11, StoreKeeps
<1>12. CASE Compress("1", "1.gz") \/ Compress("2", "2.gz")
  <2>1. missed' = missed /\ pc' = pc /\ level' = level
    BY <1>12 DEF Compress, hist
  <2>2. /\ \A b \in Backups : fs'[b] = fs[b]
        /\ \A n \in Saved : \/ \E m \in Saved : fs'[n] = fs[m]
                            \/ \A l \in Level : fs'[n].written[l] = 0
    <3>1. CASE fs' = Renamed("1", "1.gz")
      BY <1>0, <1>2, <3>1, RenamedMoves
    <3>2. CASE fs' = Renamed("2", "2.gz")
      BY <1>0, <1>2, <3>2, RenamedMoves
    <3> QED BY <1>12, <3>1, <3>2 DEF Compress
  <2>3. fs'["qt"] = fs["qt"]
    <3>1. fs' = Renamed("1", "1.gz") \/ fs' = Renamed("2", "2.gz")
      BY <1>12 DEF Compress
    <3> QED BY <1>0, <1>2, <3>1, RenamedFiles
  <2>4. BackedUpFirst'
    BY <1>0, <2>1, <2>2, <2>3 DEF BackedUpFirst, Full, SafeUpTo, Safe
  <2> QED BY <1>0, <2>1, <2>2, <2>3, <2>4, FilesMoved, LapsStay
<1> QED BY <1>3, <1>4, <1>5, <1>6, <1>7, <1>8, <1>9, <1>10, <1>11, <1>12 DEF Next

\* At first nothing has been traced.
LEMMA BackupInit == Init => BackupInv
<1> SUFFICES ASSUME Init
             PROVE  BackupInv
  OBVIOUS
<1>1. FileTypes
  BY FileInit DEF FileInv
<1>2. pc = "down" /\ \A n \in Saved : \A l \in Level : fs[n].written[l] = 0
  BY DEF Init, NoProgram, None, Name
<1>3. BackupsHoldEverything
  BY <1>2 DEF BackupsHoldEverything
<1> QED BY <1>1, <1>2, <1>3 DEF BackupInv, LapsSafe, BackedUpFirst

\* BackupsHoldEverything: whatever saveOldFiles moves, wherever the program
\* crashes, and whenever files are compressed, every message that a ring has
\* overwritten is in a backup, or was reported missed when a backup failed, fell
\* short or was written over, if the backups have names of their own.
THEOREM BackupsAreComplete ==
    ASSUME NamesApart
    PROVE  Spec => []BackupsHoldEverything
<1>1. Init => BackupInv
  BY BackupInit
<1>2. SizeInv /\ BackupInv /\ [Next]_vars => BackupInv'
  BY BackupStep
<1>3. BackupInv => BackupsHoldEverything
  BY DEF BackupInv
<1> QED BY <1>1, <1>2, <1>3, Invariance, PTL DEF Spec

=============================================================================
