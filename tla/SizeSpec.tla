------------------------------ MODULE SizeSpec ------------------------------
(***************************************************************************)
(* The sizes of the rings of a trace file: TraceHandle::adjustSizeSpec     *)
(* (QuickTrace.cpp 446-537) makes every size positive, limits it, scales   *)
(* all of them down if their sum is too large and computes the size of the *)
(* mapping; the constructor of TraceFile (625-645) lays the rings out in   *)
(* it.  Each pass of a loop is a step.  All of it is computed in 32 bits,  *)
(* and offsets and sizes of rings are int.                                 *)
(***************************************************************************)
EXTENDS Integers

CONSTANTS
    NumTraceLevels,   \* 10
    MaxLevel,         \* 16384, the largest size of one level, in KB
    MaxTotal,         \* DEFAULT_MAX_SIZE, or SMALL_MEMORY_MAX_SIZE
    KB,               \* 1024
    Headers,          \* sizeof( TraceFileHeader ), with the counters
    Width,            \* of uint32_t: 2^32
    FloatError        \* of a product with the factor, in parts of the total

ASSUME SizeAssumption ==
    /\ {NumTraceLevels, MaxLevel, MaxTotal, KB, Width} \subseteq Nat \ {0}
    /\ Headers \in Nat
    /\ FloatError \in 0 .. MaxTotal
    /\ 2 * (NumTraceLevels * MaxLevel * KB + Headers) < Width

Level == 0 .. NumTraceLevels - 1
Upto == 0 .. NumTraceLevels

VARIABLES
    sizeSpec,    \* sizeSpec_
    limit,       \* the parameter of adjustSizeSpec
    step,        \* the loop under way
    i, sum,      \* its variables
    total,       \* what addAndLimitSizes returned
    mapped,      \* mappedTraceFileSize_
    ring,        \* log_: where a ring begins, and its size
    asked,       \* history: the sums of the sizes after addAndLimitSizes
    got          \* history: the sums of the sizes in the end

sizeVars == <<sizeSpec, limit, step, i, sum, total, mapped, ring, asked, got>>

Int32(n) == LET m == n % Width IN IF 2 * m >= Width THEN m - Width ELSE m

NoRing == [start |-> 0, size |-> 0]
NoSums == [j \in Upto |-> 0]

SizeInit ==
    /\ sizeSpec = [l \in Level |-> 1]
    /\ limit = TRUE
    /\ step = "none"
    /\ i = 0 /\ sum = 0 /\ total = 0 /\ mapped = 0
    /\ ring = [l \in Level |-> NoRing]
    /\ asked = NoSums /\ got = NoSums

(* The process ends. *)
Forget ==
    /\ sizeSpec' = [l \in Level |-> 1]
    /\ limit' = TRUE
    /\ step' = "none"
    /\ i' = 0 /\ sum' = 0 /\ total' = 0 /\ mapped' = 0
    /\ ring' = [l \in Level |-> NoRing]
    /\ asked' = NoSums /\ got' = NoSums

(* A call of adjustSizeSpec, from the constructor of a handle or from resize. *)
Adjust(spec, lim) ==
    /\ sizeSpec' = spec
    /\ limit' = lim
    /\ step' = "add"
    /\ i' = 0 /\ sum' = 0
    /\ asked' = NoSums /\ got' = NoSums
    /\ UNCHANGED <<total, mapped, ring>>

Within(s) == CASE s > MaxLevel /\ limit -> MaxLevel
               [] ~(s > MaxLevel /\ limit) /\ s = 0 -> 1
               [] ~(s > MaxLevel /\ limit) /\ s # 0 -> s

AddAndLimit ==
    LET size == Within(sizeSpec[i])
    IN  /\ step = "add" /\ i < NumTraceLevels
        /\ sizeSpec' = [sizeSpec EXCEPT ![i] = size]
        /\ sum' = (sum + size) % Width
        /\ asked' = [asked EXCEPT ![i + 1] = asked[i] + size]
        /\ i' = i + 1
        /\ UNCHANGED <<limit, step, total, mapped, ring, got>>

\* Mutant: sizes are scaled by resize only.
AddedScaleUnlimited ==
    /\ step = "add" /\ i = NumTraceLevels
    /\ total' = sum
    /\ step' = IF ~limit /\ sum > MaxTotal THEN "scale" ELSE "map"
    /\ IF step' = "scale" THEN i' = 0 /\ sum' = 0 ELSE UNCHANGED <<i, sum>>
    /\ got' = asked
    /\ UNCHANGED <<sizeSpec, limit, mapped, ring, asked>>

Added ==
    /\ step = "add" /\ i = NumTraceLevels
    /\ total' = sum
    /\ step' = IF limit /\ sum > MaxTotal THEN "scale" ELSE "map"
    /\ IF step' = "scale" THEN i' = 0 /\ sum' = 0 ELSE UNCHANGED <<i, sum>>
    /\ got' = asked
    /\ UNCHANGED <<sizeSpec, limit, mapped, ring, asked>>

(* The factor is a float: the product is cut to an integer, which may be *)
(* off by one where it is almost an integer.                             *)
Scaled(s) == {n \in 0 .. s : /\ n * total <= s * MaxTotal + FloatError
                             /\ s * MaxTotal < (n + 1) * total + FloatError}

ScaleDown ==
    /\ step = "scale" /\ i < NumTraceLevels
    /\ \E n \in Scaled(sizeSpec[i]) :
          LET size == IF n < 1 THEN 1 ELSE n
          IN  /\ sizeSpec' = [sizeSpec EXCEPT ![i] = size]
              /\ sum' = (sum + size) % Width
              /\ got' = [got EXCEPT ![i + 1] = got[i] + size]
    /\ i' = i + 1
    /\ UNCHANGED <<limit, step, total, mapped, ring, asked>>

ScaledDown ==
    /\ step = "scale" /\ i = NumTraceLevels
    /\ step' = "map"
    /\ UNCHANGED <<sizeSpec, limit, i, sum, total, mapped, ring, asked, got>>

Map ==
    /\ step = "map"
    /\ mapped' = (sum * KB + Headers) % Width
    /\ step' = "mapped"
    /\ UNCHANGED <<sizeSpec, limit, i, sum, total, ring, asked, got>>

(* The file is created; then its rings are laid out.  addLevelSizes adds up *)
(* anew, for every level, the sizes of those before it: here sum goes on.   *)
LayOut ==
    /\ step = "mapped"
    /\ step' = "place"
    /\ i' = 0 /\ sum' = 0
    /\ UNCHANGED <<sizeSpec, limit, total, mapped, ring, asked, got>>

Place ==
    /\ step = "place" /\ i < NumTraceLevels
    /\ ring' = [ring EXCEPT ![i] = [start |-> Headers + Int32(sum * KB),
                                    size |-> Int32(sizeSpec[i] * KB)]]
    /\ sum' = (sum + sizeSpec[i]) % Width
    /\ i' = i + 1
    /\ UNCHANGED <<sizeSpec, limit, step, total, mapped, asked, got>>

Placed ==
    /\ step = "place" /\ i = NumTraceLevels
    /\ step' = "none"
    /\ UNCHANGED <<sizeSpec, limit, i, sum, total, mapped, ring, asked, got>>

SizeNext == AddAndLimit \/ Added \/ ScaleDown \/ ScaledDown \/ Map \/ Place \/ Placed

(* What resize must be given, as nothing limits it: a file of less than 2 GB. *)
Bytes(sums) == sums[NumTraceLevels] * KB + Headers
Reasonable == limit \/ 2 * Bytes(asked) < Width

\* Every ring that is laid out lies behind the headers and inside the mapping,
\* has at least one KB, and begins where the one before it ends, as long as
\* resize is given reasonable sizes; the constructor's are limited, so that
\* whatever is asked for there, the file is at most a KB per level larger than
\* the maximum.
RingsFit ==
    step = "place" /\ Reasonable =>
        /\ mapped = Bytes(got)
        /\ limit => got[NumTraceLevels] <= MaxTotal + NumTraceLevels
        /\ \A l \in Level : l < i =>
              /\ ring[l].start >= Headers
              /\ ring[l].size >= KB
              /\ ring[l].start + ring[l].size <= mapped
              /\ l > 0 => ring[l].start = ring[l - 1].start + ring[l - 1].size

SizeTypes ==
    /\ sizeSpec \in [Level -> Nat]
    /\ limit \in BOOLEAN
    /\ step \in {"none", "add", "scale", "map", "mapped", "place"}
    /\ i \in Upto
    /\ {sum, total, mapped} \subseteq Nat
    /\ ring \in [Level -> [start : Int, size : Int]]
    /\ asked \in [Upto -> Nat] /\ got \in [Upto -> Nat]

=============================================================================
