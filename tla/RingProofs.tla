----------------------------- MODULE RingProofs -----------------------------
(***************************************************************************)
(* Proofs about the ring and its reader.                                   *)
(*                                                                         *)
(* Of RingBuf: the layout of the ring, for every set of messages, every    *)
(* ring size and every number of trace statements.                         *)
(*                                                                         *)
(* Of RingTail: whatever the program overwrites and however the loads of   *)
(* qttail and the stores of the program fall, no line that passes the      *)
(* checks is a false one unless its message was overwritten while it was   *)
(* read, and lines come in order, none twice.  It holds for every set of   *)
(* messages, every size of the ring and any number of laps, threshold and  *)
(* patience, as long as no single message fills the ring.                  *)
(*                                                                         *)
(* If the program lets its reader keep up, ring and reader implement the   *)
(* log of TraceLog: no message is passed over, and every line is what was  *)
(* traced, unless an old id was loaded behind a new timestamp.             *)
(*                                                                         *)
(* Of QtCat: wherever the program stopped, rewind and dump print the       *)
(* newest messages, none missing, and miss at most the oldest, except in   *)
(* the one case that CatComplete names.                                    *)
(***************************************************************************)
EXTENDS RingTail, QtCat, TLAPS, FiniteSetTheorems, WellFoundedInduction

(***************************************************************************)
(* The inductive invariant behind them.                                    *)
(***************************************************************************)

\* Where the current lap ends, complete messages only.
LapEnd == IF lapFrom = Len(log) THEN Start ELSE EndOf(log[Len(log)])

\* Where the writer stands in relation to the lap.
Position ==
    /\ pc \in {"idle", "seal", "turned", "end"} => ptr = LapEnd
    /\ pc \in {"id", "put"} => msgStart = LapEnd /\ msgStart # 0
    /\ pc = "seal" => ptr >= BufEnd /\ mem[ptr] = Ones
    /\ pc = "turned" => lapFrom = Len(log)
    /\ pc = "idle" /\ lapFrom < Len(log) => mem[ptr] = Zero
    /\ tailPtr = 0 <=> lapFrom = 0

\* What the ring holds of the message being written.
Partial ==
    /\ pc = "id" => ptr = msgStart + 1
    /\ pc = "put" => /\ ptr - msgStart \in 2 .. LenOf(msg.id)
                     /\ mem[msgStart + 1] = IdCell(msg.id)
    /\ pc \in {"id", "put"} =>
        /\ mem[msgStart] = Tsc(msg.tsc)
        /\ \A w \in 1 .. ptr - msgStart - 2 : mem[msgStart + 1 + w] = Word(msg.tsc)

\* Messages start in the usable area, those of the lap before its end, and
\* timestamps increase in the order of completion.
Laid ==
    /\ \A i \in 1 .. Len(log) : log[i].at < BufEnd /\ log[i].tsc <= clock
    /\ \A i \in lapFrom + 1 .. Len(log) : EndOf(log[i]) <= LapEnd
    /\ \A i \in 2 .. Len(log) : log[i - 1].tsc < log[i].tsc
    /\ pc \in {"id", "put"} => /\ msg.tsc = clock
                               /\ \A i \in 1 .. Len(log) : log[i].tsc < clock

IInv ==
    /\ TypeOK /\ Position /\ Partial /\ Laid
    /\ LapReadable /\ OldLapReadable /\ Delimited

(***************************************************************************)
(* The ring, by what can be told from its cells.                           *)
(***************************************************************************)

\* A timestamp in the ring, of a message that somebody traced.
Stamped(a) == mem[a].kind = "tsc" /\ mem[a].val # 0

Begun(a) == pc \in {"id", "put"} /\ msgStart = a

\* What the ring holds wherever the writer is.  A timestamp is in one place
\* only, and none is from the future ...
Dated == \A a \in Addr : mem[a].kind = "tsc" => mem[a].val <= clock
Single == \A a \in Addr : Stamped(a) => /\ a < BufEnd
                                        /\ \A b \in Addr : mem[b] = mem[a] => a = b

\* ... behind it is all of its message, unless that is the one being written ...
Kept ==
    \A a \in Addr : Stamped(a) =>
        \/ Begun(a)
        \/ \E i \in 1 .. Len(log) :
               /\ log[i].at = a /\ log[i].tsc = mem[a].val /\ Intact(log[i])
               /\ \/ a >= ptr
                  \/ EndOf(log[i]) <= IF pc \in {"id", "put"} THEN msgStart ELSE ptr

\* ... and behind a length byte that is left from before comes another message,
\* or the ones of the trailer.
Followed ==
    \A a \in Addr : mem[a].kind = "len" /\ a + 1 # ptr =>
        a + 1 \in Addr /\ (mem[a + 1] = Ones \/ Stamped(a + 1))

\* The first message of a lap is at the start.
Begins == (ptr # Start => Stamped(Start)) /\ (pc = "end" => ptr # Start)

RingHolds == Dated /\ Single /\ Kept /\ Followed /\ Begins

\* Timestamps increase from message to message.
Rising == \A i, j \in 1 .. Len(log) : i < j => log[i].tsc < log[j].tsc

(***************************************************************************)
(* The inductive invariant behind NoFalseLine and LinesInOrder, for a ring *)
(* that no single message fills.                                           *)
(***************************************************************************)

\* What the reader may rely on.  The time that reset adds to lastTsc_ lies
\* before that of any message to come.
Reading == rpc \in {"id", "len", "next", "start", "format"}
ReaderHolds ==
    /\ ~ skipping => cur < BufEnd
    /\ lastTsc <= clock \/ (lastTsc = clock + 1 /\ cur = Start)
    /\ Reading => /\ reg.tsc > 0 /\ reg.tsc >= lastTsc /\ reg.tsc <= clock
                  /\ cur < BufEnd
                  /\ \A a \in Addr : mem[a] = Tsc(reg.tsc) => a = cur
                  /\ \A i \in 1 .. Len(out) : out[i].ok => out[i].tsc < reg.tsc
    /\ rpc = "start" => After >= BufEnd
    /\ IF rpc = "format" THEN ~ skipping ELSE reg.words = <<>>
    /\ skipping => out = <<>>

\* As long as the program does not store into the message being read, what was
\* read is what is there, and what was found valid is complete.
ReadsTrue ==
    Reading /\ ~ touched =>
        /\ mem[cur] = Tsc(reg.tsc)
        /\ rpc # "id" => mem[cur + 1] = IdCell(reg.id)
        /\ rpc \in {"next", "start", "format"} =>
               mem[cur + LenOf(reg.id)] = LenCell(LenOf(reg.id))
        /\ Len(reg.words) <= Words[reg.id]
        /\ \A w \in 1 .. Len(reg.words) : reg.words[w] = mem[cur + 1 + w]
        /\ rpc = "format" => ~ Begun(cur)

\* No line that was fine will be printed again.
Printed ==
    \A i \in 1 .. Len(out) : out[i].ok =>
        /\ 0 < out[i].tsc /\ out[i].tsc <= lastTsc
        /\ out[i].tsc = lastTsc => mem[cur] # Tsc(lastTsc)

TailIInv ==
    /\ IInv /\ RingHolds
    /\ ReaderTypeOK /\ ReaderHolds /\ ReadsTrue /\ Printed
    /\ NoFalseLine /\ LinesInOrder

(***************************************************************************)
(* The inductive invariant behind HoldsItsPlace, LinesExact and the        *)
(* refinement, for a reader that the program lets keep up.                 *)
(***************************************************************************)
KeptUpWith ==
    KeepsUp /\ Patient /\ QtctlIds = {} /\ Threshold >= 2 /\ MessageFits

\* The messages and their laps, when none is disabled.
Laps ==
    /\ off = {}
    /\ lapFrom = Len(log) => Len(log) = 0 \/ pc \in {"turned", "id", "put"}
    /\ lapFrom > 0 => prevFrom < lapFrom
    /\ Len(log) = 0 => pc \in {"idle", "id", "put"}
    /\ Len(log) = 0 /\ pc = "idle" => mem[Start] = Zero
    /\ pc = "turned" => lapFrom > 0 /\ mem[Start] = Tsc(log[prevFrom + 1].tsc)
    /\ \A i \in 1 .. Len(log) : log[i].tsc > 0
    /\ pc \in {"id", "put"} => clock > 0

\* Where the ring holds zero: behind the newest message between two trace
\* statements, and in the first lap where nothing was written yet.
Zeros ==
    /\ tailPtr = 0 => \A a \in Addr : a >= ptr => mem[a].kind \in {"tsc", "ones"}
    /\ \A a \in Addr : mem[a] = Zero =>
           (a = ptr /\ pc = "idle") \/ (tailPtr = 0 /\ ptr <= a /\ a < BufEnd)

\* Message m has its timestamp in the ring.
Traced(m) == m <= Len(log) \/ (m = Len(log) + 1 /\ pc \in {"id", "put"})
TscOf(m) == IF m <= Len(log) THEN log[m].tsc ELSE msg.tsc

\* How far the writer is sure to come.
Reach == IF pc \in {"id", "put"} THEN msgStart + LenOf(msg.id) + 1 ELSE ptr

\* The reader stands behind message k; in fastforward it may have gone too far
\* behind the last one of a lap, from where it turns to the start as well ...
Passed(k) ==
    /\ IF lastTsc = 0 THEN k = lapFrom ELSE k > 0 /\ lastTsc = log[k].tsc
    /\ lapFrom > 0 => k > prevFrom
    /\ lastTsc = 0 /\ lapFrom > 0 => pc = "idle" /\ skipping
    /\ \/ cur = Start /\ (lastTsc = 0 \/ (~ skipping /\ EndOf(log[k]) >= BufEnd))
       \/ cur = EndOf(log[k]) /\ lastTsc # 0 /\ cur < BufEnd
       \/ skipping /\ lastTsc # 0 /\ ~ (cur < BufEnd) /\ EndOf(log[k]) >= BufEnd
    /\ k = Len(log) /\ pc = "end" /\ cur = ptr /\ cur < BufEnd => mem[cur] = Zero

\* ... and the writer will not overwrite what comes after it ...
Ahead(k) ==
    \A i \in k + 1 .. Len(log) :
        /\ pc \in {"seal", "turned"} => log[i].at > Start + LenMax + 1
        /\ i <= lapFrom => log[i].at > Reach

\* ... which is the message that was chosen ...
Asked(k) ==
    /\ skipping => /\ rpc \in {"tsc", "id", "len", "next", "start"}
                   /\ curTsc = AllOnes /\ next = 0 /\ corruption = 0
    /\ ~ skipping /\ rpc = "tsc" => next # 0
    /\ next # 0 => Traced(k + 1) /\ next = TscOf(k + 1)
    /\ ~ skipping /\ rpc # "poll" => curTsc <= clock + 1

\* ... and is being read.  If its id was loaded too early, it may have another
\* format, but not by the time it is printed ...
Reads(k) == Reading =>
    /\ Traced(k + 1) /\ reg.tsc = TscOf(k + 1) /\ reg.tsc < curTsc
    /\ ~ skipping => reg.tsc = next
    /\ rpc \in {"next", "start"} /\ ~ early =>
           mem[cur + LenOf(reg.id)] = LenCell(LenOf(reg.id))
    /\ rpc = "format" =>
           /\ k < Len(log)
           /\ LenOf(reg.id) = LenOf(log[k + 1].id)
           /\ early \/ reg.id = log[k + 1].id
           /\ Len(reg.words) <= Words[reg.id]
           /\ \A w \in 1 .. Len(reg.words) : reg.words[w] = Word(reg.tsc)
           /\ k + 1 = Len(log) /\ pc = "end" /\ ptr < BufEnd => mem[ptr] = Zero

\* ... The id that was read is the one that is stored there, or it was loaded
\* between the two stores of startMsg: then the program has turned round before,
\* and the reader, in its first try, knows of no message behind this one.
IdIs(k) == Reading /\ rpc # "id" =>
    /\ early => /\ tailPtr # 0 /\ lastTsc # 0
                /\ ~ skipping => /\ corruption = 0
                                 /\ Traced(k + 2) => curTsc < TscOf(k + 2)
    /\ ~ early => /\ mem[cur + 1] = IdCell(reg.id)
                  /\ k = Len(log) => pc = "put"

\* A try fails and is counted at most twice: once because the message, or once
\* because the start of the ring, was read too early, and once because the
\* following message began after the poll.
Tries(k) ==
    /\ corruption <= 2
    /\ k = Len(log) => corruption = 0
    /\ k + 1 = Len(log) /\ ~ Traced(k + 2) /\ corruption > 0 =>
           /\ corruption = 1 /\ pc # "end"
           /\ rpc = "start" => pc # "idle"
           /\ rpc \in {"order", "tsc"} => TscOf(k + 1) < curTsc
    /\ Traced(k + 2) /\ corruption = 2 /\ rpc # "poll" => TscOf(k + 2) < curTsc

AtPlace(k) == Passed(k) /\ Ahead(k) /\ Asked(k) /\ Reads(k) /\ IdIs(k) /\ Tries(k)

KeepsPlace ==
    IF rpc = "open"
    THEN lastTsc = 0 /\ cur = Start /\ corruption = 0 /\ next = 0 /\ skipping
    ELSE \E k \in 0 .. Len(log) : AtPlace(k)

KeepsUpInv == Rising /\ Laps /\ Zeros /\ LinesExact /\ (misled \/ KeepsPlace)

(***************************************************************************)
(* The inductive invariant behind them, for a ring that no single message  *)
(* fills.                                                                  *)
(***************************************************************************)

\* Laps have messages, and those of a lap lie one behind the other.
Filled ==
    /\ lapFrom > 0 => prevFrom < lapFrom
    /\ \A i \in 1 .. Len(log) : log[i].tsc > 0
    /\ pc \in {"id", "put"} => clock > 0
InPlace ==
    \A i, j \in prevFrom + 1 .. Len(log) :
        i < j /\ (j <= lapFrom \/ i > lapFrom) => EndOf(log[i]) <= log[j].at

\* Of the old lap remain the length bytes beyond the writer, and its first
\* message until the one of the new lap begins.
OldRemains ==
    /\ \A i \in prevFrom + 1 .. lapFrom :
           EndOf(log[i]) - 1 > ptr =>
               mem[EndOf(log[i]) - 1] = LenCell(LenOf(log[i].id))
    /\ lapFrom = Len(log) /\ lapFrom > 0 /\ pc \in {"idle", "turned"} =>
           Intact(log[prevFrom + 1])

\* In the first lap nothing lies beyond the writer.
Fresh ==
    lapFrom = 0 =>
        \A a \in Addr : a >= ptr =>
            mem[a] = (IF a >= BufEnd THEN Ones ELSE Zero) \/ (a = ptr /\ mem[a] = Zero)

\* Ones are beyond the usable area only.
OnesBeyond == \A a \in Addr : mem[a].kind = "ones" => a >= BufEnd

LapsHold == Rising /\ Filled /\ InPlace /\ OldRemains /\ Fresh /\ OnesBeyond

\* What follows the newest message does not contradict it ...
Finished ==
    pc = "end" => LoadTsc(ptr) = 0 \/ (ptr >= BufEnd /\ LoadTsc(ptr) = AllOnes)

\* ... and the message being written passes for one, up to the end of the lap,
\* by its timestamp and a length byte of the message that was there before.
TornEnd == msgStart + LenOf(mem[msgStart + 1].val) + 1
Passes ==
    pc \in {"id", "put"} =>
        /\ mem[msgStart + 1].kind = "id"
        /\ mem[TornEnd - 1] = LenCell(LenOf(mem[msgStart + 1].val))
        /\ TornEnd >= BufEnd

\* The first loop of rewind is at the start, behind message k of the lap, or
\* behind the one being written.
Walked(k) ==
    /\ cur = EndOf(log[k]) /\ lastTsc = log[k].tsc
    /\ k <= lapFrom => lapFrom = Len(log) /\ pc \in {"idle", "turned"}
    /\ k = Len(log) /\ k > lapFrom => Finished
WalkedTorn ==
    pc \in {"id", "put"} /\ Passes /\ cur = TornEnd /\ lastTsc = clock
AtSplit ==
    /\ tailPtr # 0 /\ lines = <<>> /\ moved = 0
    /\ \/ cur = Start /\ lastTsc = 0
       \/ \E k \in prevFrom + 1 .. Len(log) : Walked(k)
       \/ WalkedTorn

\* The second loop has gone back behind message j of the old lap.
WentBack(j) ==
    /\ moved = lapFrom - j
    /\ p = IF j = prevFrom THEN Start ELSE EndOf(log[j])
    /\ moved > 0 => cur = EndOf(log[j + 1]) /\ cur > split
AtBack ==
    /\ tailPtr # 0 /\ lapFrom < Len(log) /\ lines = <<>>
    /\ Finished /\ Passes
    /\ split \in Nat /\ split > ptr /\ split < tailPtr
    /\ pc \notin {"id", "put"} => split = ptr + 1
    /\ \E j \in prevFrom .. lapFrom : WentBack(j)

\* The messages after f will be printed: the new lap alone, or the old one as
\* far as it is left, but for the first that is left.
Oldest(f) ==
    /\ Finished /\ (tailPtr # 0 => Passes)
    /\ lapFrom = Len(log) => f = prevFrom
    /\ lapFrom < Len(log) /\ f < lapFrom => f > prevFrom /\ log[f + 1].at > ptr + 1
    /\ lapFrom < Len(log) /\ f > prevFrom /\ pc = "idle" => log[f].at <= ptr + 1

\* They are, and the next is number k + 1 ...
Prints(f, k) ==
    /\ lines = [i \in 1 .. k - f |-> Faithful(log[f + i])]
    /\ cur = IF k < Len(log) THEN log[k + 1].at ELSE IF LapEnd < BufEnd THEN LapEnd ELSE Start
    /\ lastTsc = IF k = f THEN LoadTsc(cur) ELSE log[k].tsc
    /\ f = lapFrom /\ f > 0 /\ pc = "idle" => log[f].at <= ptr

\* ... or was the one being written ...
PrintedTorn(f) ==
    /\ pc \in {"id", "put"} /\ tailPtr # 0
    /\ Len(lines) = Len(log) - f + 1
    /\ \A i \in 1 .. Len(log) - f : lines[i] = Faithful(log[f + i])
    /\ lines[Len(lines)].tsc = clock /\ lines[Len(lines)].id = mem[msgStart + 1].val
    /\ cur = Start /\ lastTsc = clock

\* ... or nothing is printed, because rewind went back over one message only.
StuckAtTail ==
    /\ lapFrom < Len(log) /\ lines = <<>>
    /\ cur = tailPtr /\ tailPtr > ptr
    /\ pc = "idle" => log[lapFrom].at = ptr + 1

AtDump ==
    \E f \in prevFrom .. lapFrom :
        /\ Oldest(f)
        /\ \/ \E k \in f .. Len(log) : Prints(f, k)
           \/ PrintedTorn(f)
           \/ StuckAtTail

AtDone ==
    \E f \in prevFrom .. lapFrom :
        /\ Oldest(f)
        /\ Prints(f, Len(log)) \/ PrintedTorn(f) \/ StuckAtTail

CatHolds ==
    /\ stage \in {"off", "split", "refused", "back", "dump", "done"}
    /\ stage = "off" => cur = Start /\ lastTsc = 0 /\ moved = 0 /\ lines = <<>>
    /\ stage = "split" => AtSplit
    /\ CatRefusesOnlyTorn
    /\ stage = "back" => AtBack
    /\ stage = "dump" => AtDump
    /\ stage = "done" => AtDone

CatIInv == IInv /\ RingHolds /\ LapsHold /\ CatHolds


(***************************************************************************)
(* The writer: the layout of the ring (RingBuf)                            *)
(***************************************************************************)

\* Sizes of the parts of a message.
LEMMA LenOfType == \A id \in Id : /\ LenOf(id) \in Nat /\ LenOf(id) >= 2
                                  /\ LenOf(id) + 1 <= TrailerSize
                                  /\ Words[id] \in Nat
                                  /\ LenOf(id) = 2 + Words[id]
<1> TAKE id \in Id
<1>1. Words[id] \in Nat
  BY WordsAssumption
<1>2. TrailerSize \in Nat /\ Words[id] + 3 <= TrailerSize
  BY TrailerAssumption
<1> QED BY <1>1, <1>2 DEF LenOf

\* The last cell of the ring.
LEMMA LastType == TrailerSize \in Nat /\ Last \in Nat /\ BufEnd <= Last + 1
BY BufEndAssumption, TrailerAssumption DEF Last

\* A message that starts in the usable area ends in the ring.
LEMMA EndOfType ==
    ASSUME NEW m \in Msg, m.at < BufEnd
    PROVE  EndOf(m) \in Addr /\ EndOf(m) >= m.at + 3
<1>1. m.id \in Id /\ m.at \in Addr
  BY DEF Msg
<1>2. LenOf(m.id) \in Nat /\ LenOf(m.id) >= 2 /\ LenOf(m.id) + 1 <= TrailerSize
  BY <1>1, LenOfType
<1> QED BY <1>1, <1>2, LastType, BufEndAssumption DEF EndOf, Addr, Start, Last

\* The initial ring.
LEMMA InitIInv == Init => IInv
<1> SUFFICES ASSUME Init PROVE IInv
  OBVIOUS
<1> USE DEF Init, BufIs
<1>1. TypeOK
  <2>1. mem \in [Addr -> Cell]
    BY DEF Cell, Ones, Zero, Tsc
  <2>2. ptr \in Addr
    BY BufEndAssumption, TrailerAssumption, WordsAssumption
       DEF Addr, Start, Last
  <2>3. msg \in [id : Id, tsc : Nat]
    OBVIOUS
  <2> QED BY <2>1, <2>2, <2>3, MaxTscAssumption DEF TypeOK
<1>2. Position
  BY BufEndAssumption DEF Position, LapEnd
<1>3. Partial
  BY DEF Partial
<1>4. Laid
  BY DEF Laid
<1>5. LapReadable /\ OldLapReadable
  BY DEF LapReadable, OldLapReadable
<1>6. Delimited
  BY DEF Delimited, Start
<1> QED BY <1>1, <1>2, <1>3, <1>4, <1>5, <1>6 DEF IInv

\* What the type invariant says of every completed message.
LEMMA LogType ==
    ASSUME TypeOK
    PROVE  /\ Len(log) \in Nat /\ lapFrom \in Nat /\ prevFrom \in Nat
           /\ lapFrom <= Len(log) /\ prevFrom <= lapFrom
           /\ \A i \in 1 .. Len(log) :
                 /\ log[i] \in Msg /\ log[i].at \in Nat /\ log[i].at >= Start
                 /\ log[i].tsc \in Nat /\ log[i].id \in Id
           /\ \A i \in lapFrom + 1 .. Len(log) : i \in 1 .. Len(log)
           /\ \A i \in prevFrom + 1 .. lapFrom : i \in 1 .. Len(log)
<1>1. log \in Seq(Msg) /\ Len(log) \in Nat
  BY DEF TypeOK
<1>2. /\ lapFrom \in Nat /\ prevFrom \in Nat
      /\ lapFrom <= Len(log) /\ prevFrom <= lapFrom
  BY <1>1 DEF TypeOK
<1>3. ASSUME NEW i \in 1 .. Len(log)
      PROVE  /\ log[i] \in Msg /\ log[i].at \in Nat /\ log[i].at >= Start
             /\ log[i].tsc \in Nat /\ log[i].id \in Id
  <2>1. log[i] \in Msg
    BY <1>1
  <2> QED BY <2>1 DEF Msg, Addr, Start
<1> QED BY <1>1, <1>2, <1>3

\* A store outside a message leaves the message intact.
LEMMA StoreElsewhere ==
    ASSUME NEW m \in Msg, m.at < BufEnd, Intact(m),
           NEW a \in Addr, EndOf(m) <= a \/ m.at > a,
           NEW c, Store(a, c), mem \in [Addr -> Cell]
    PROVE  Intact(m)'
<1>1. m.id \in Id /\ m.at \in Addr /\ m.at \in Nat /\ a \in Nat
  BY DEF Msg, Addr, Start
<1>2. LenOf(m.id) \in Nat /\ Words[m.id] \in Nat /\ LenOf(m.id) = 2 + Words[m.id]
  BY <1>1, LenOfType
<1>3. ASSUME NEW b \in m.at .. m.at + LenOf(m.id) PROVE mem'[b] = mem[b]
  <2>1. b # a
    BY <1>1, <1>2 DEF EndOf
  <2>2. EndOf(m) \in Addr
    BY EndOfType
  <2>3. b \in Nat /\ m.at <= b /\ b < EndOf(m)
    BY <1>1, <1>2 DEF EndOf
  <2>4. b \in Addr
    BY <1>1, <2>2, <2>3, LastType DEF Addr, Start
  <2> QED BY <2>1, <2>4 DEF Store
<1>4. /\ m.at \in m.at .. m.at + LenOf(m.id)
      /\ m.at + 1 \in m.at .. m.at + LenOf(m.id)
      /\ m.at + LenOf(m.id) \in m.at .. m.at + LenOf(m.id)
      /\ \A w \in 1 .. Words[m.id] :
            m.at + 1 + w \in m.at .. m.at + LenOf(m.id)
  BY <1>1, <1>2
<1> QED BY <1>3, <1>4 DEF Intact


\* doWrap, first store: the terminator of the newest message becomes ones.
LEMMA WrapSealIInv == IInv /\ WrapSeal => IInv'
<1> SUFFICES ASSUME IInv, WrapSeal PROVE IInv'
  OBVIOUS
<1> USE DEF WrapSeal, Store, histVars
<1>0. /\ ptr \in Addr /\ mem \in [Addr -> Cell] /\ log \in Seq(Msg)
      /\ lapFrom \in 0 .. Len(log) /\ prevFrom \in 0 .. lapFrom
      /\ ptr = LapEnd
  BY DEF IInv, TypeOK, Position
<1>1. TypeOK'
  <2>1. mem' \in [Addr -> Cell]
    BY <1>0 DEF Cell, Ones
  <2> QED BY <2>1 DEF IInv, TypeOK
<1>2. Position'
  BY <1>0 DEF IInv, Position, LapEnd, EndOf
<1>3. Partial'
  BY DEF Partial
<1>4. Laid'
  BY DEF IInv, Laid, LapEnd, EndOf
<1>5. ASSUME NEW m \in Msg, m.at < BufEnd, Intact(m),
             EndOf(m) <= ptr \/ m.at > ptr
      PROVE  Intact(m)'
  BY <1>0, <1>5, StoreElsewhere
<1>6. LapReadable'
  BY <1>0, <1>5 DEF IInv, LapReadable, Laid
<1>7. OldLapReadable'
  BY <1>0, <1>5 DEF IInv, OldLapReadable, Laid
<1>8. Delimited'
  BY <1>0 DEF IInv, Delimited, EndOf
<1> QED BY <1>1, <1>2, <1>3, <1>4, <1>6, <1>7, <1>8 DEF IInv


\* doWrap, second part: the current lap becomes the old one.
LEMMA WrapTurnIInv == IInv /\ WrapTurn => IInv'
<1> SUFFICES ASSUME IInv, WrapTurn PROVE IInv'
  OBVIOUS
<1> USE DEF WrapTurn
<1>0. /\ ptr \in Addr /\ log \in Seq(Msg) /\ Len(log) \in Nat
      /\ lapFrom \in 0 .. Len(log) /\ prevFrom \in 0 .. lapFrom
      /\ ptr = LapEnd /\ ptr >= BufEnd /\ mem[ptr] = Ones
      /\ BufEnd \in Nat /\ BufEnd > 1 /\ Last \in Nat
      /\ Start \in Addr
  BY LastType, BufEndAssumption DEF IInv, TypeOK, Position, Addr, Start
<1>1. lapFrom < Len(log) /\ ptr = EndOf(log[Len(log)]) /\ ptr > Start
  BY <1>0 DEF LapEnd, Start
<1>2. TypeOK'
  BY <1>0, <1>1 DEF IInv, TypeOK, Addr
<1>3. Position'
  BY <1>0, <1>1 DEF IInv, Position, LapEnd, Start
<1>4. Partial'
  BY DEF Partial
<1>5. Laid'
  <2>1. log' = log /\ clock' = clock /\ lapFrom' = Len(log) /\ pc' = "turned"
    OBVIOUS
  <2>2. /\ \A i \in 1 .. Len(log) : log[i].at < BufEnd /\ log[i].tsc <= clock
        /\ \A i \in 2 .. Len(log) : log[i - 1].tsc < log[i].tsc
    BY DEF IInv, Laid
  <2>3. \A i \in lapFrom' + 1 .. Len(log') : EndOf(log'[i]) <= LapEnd'
    BY <2>1, <1>0
  <2> HIDE DEF WrapTurn
  <2> QED BY <2>1, <2>2, <2>3 DEF Laid, EndOf
<1>6. LapReadable'
  BY <1>0 DEF LapReadable
<1>7. OldLapReadable'
  <2>1. ASSUME NEW j \in prevFrom' + 1 .. lapFrom'
        PROVE  /\ Intact(log[j])'
               /\ log'[j].at = IF j = prevFrom' + 1 THEN Start
                                                     ELSE EndOf(log'[j - 1])
    BY <1>0, <2>1 DEF IInv, LapReadable, Intact
  <2> QED BY <2>1, <1>0, <1>1 DEF OldLapReadable, EndOf, Start
<1>8. Delimited'
  BY <1>0 DEF Delimited
<1> QED BY <1>2, <1>3, <1>4, <1>5, <1>6, <1>7, <1>8 DEF IInv

\* startMsg on an enabled message stores its timestamp.
LEMMA StartMsgIInv == ASSUME NEW id \in Id, IInv, StartMsg(id) PROVE IInv'
<1> USE DEF StartMsg, Stamps, Rdtsc, Store, histVars
<1>0. /\ ptr \in Addr /\ mem \in [Addr -> Cell] /\ log \in Seq(Msg)
      /\ lapFrom \in 0 .. Len(log) /\ prevFrom \in 0 .. lapFrom
      /\ ptr = LapEnd /\ clock \in Nat /\ Len(log) \in Nat
      /\ MaxTsc \in Nat /\ clock \in 0 .. MaxTsc
      /\ BufEnd \in Nat /\ BufEnd > 1 /\ Last \in Nat /\ BufEnd <= Last + 1
  BY LastType, BufEndAssumption, MaxTscAssumption DEF IInv, TypeOK, Position
<1>1. ptr < BufEnd /\ ptr >= Start /\ ptr \in Nat
  BY <1>0 DEF IInv, Position, LapEnd, Addr, Start
<1>2. ptr + 1 \in Addr
  <2>1. LenOf(id) >= 2 /\ LenOf(id) \in Nat /\ LenOf(id) + 1 <= TrailerSize
    BY LenOfType
  <2> QED BY <2>1, <1>0, <1>1, LastType DEF Addr, Start, Last
<1>3. TypeOK'
  <2>1. mem' \in [Addr -> Cell]
    BY <1>0 DEF Cell, Tsc
  <2>2. msgStart' \in Start .. BufEnd - 1
    BY <1>0, <1>1 DEF Start
  <2>3. hits' \in [Id -> Nat]
    BY DEF IInv, TypeOK
  <2>4. msg' \in [id : Id, tsc : Nat] /\ clock' \in 0 .. MaxTsc
    BY <1>0
  <2> QED BY <2>1, <2>2, <2>3, <2>4, <1>2 DEF IInv, TypeOK
<1>4. Position'
  BY <1>0, <1>1 DEF IInv, Position, LapEnd, EndOf, Start
<1>5. Partial'
  BY <1>0, <1>1 DEF Partial, Tsc
<1>6. Laid'
  <2>1. \A i \in 1 .. Len(log) : log[i].tsc \in Nat /\ log[i].tsc <= clock
    BY LogType DEF IInv, Laid
  <2> QED BY <2>1, <1>0 DEF IInv, Laid, LapEnd, EndOf
<1>7. ASSUME NEW m \in Msg, m.at < BufEnd, Intact(m),
             EndOf(m) <= ptr \/ m.at > ptr
      PROVE  Intact(m)'
  BY <1>0, <1>7, StoreElsewhere
<1>8. LapReadable'
  <2>1. ASSUME NEW i \in lapFrom + 1 .. Len(log) PROVE Intact(log[i])'
    <3>1. /\ log[i] \in Msg /\ log[i].at < BufEnd /\ Intact(log[i])
          /\ EndOf(log[i]) <= ptr
      BY <1>0, LogType DEF IInv, LapReadable, Laid
    <3> QED BY <3>1, <1>7
  <2> QED BY <2>1 DEF IInv, LapReadable, EndOf
<1>9. OldLapReadable'
  <2>1. ASSUME NEW i \in prevFrom + 1 .. lapFrom, log[i].at > ptr + 1
        PROVE  Intact(log[i])'
    <3>1. log[i] \in Msg /\ log[i].at \in Nat
      BY LogType DEF IInv
    <3>2. log[i].at > ptr
      BY <3>1, <1>1, <2>1
    <3> QED BY <3>1, <3>2, <1>0, <1>7 DEF IInv, OldLapReadable, Laid
  <2> QED BY <2>1, <1>0 DEF IInv, OldLapReadable
<1>10. Delimited'
  <2>1. tailPtr \in Nat
    BY <1>0 DEF IInv, TypeOK
  <2> QED BY <2>1, <1>0, <1>1 DEF IInv, Delimited
<1> QED BY <1>3, <1>4, <1>5, <1>6, <1>8, <1>9, <1>10 DEF IInv

\* startMsg on a disabled message leaves the ring alone.
LEMMA StartMsgOffIInv == ASSUME NEW id \in Id, IInv, StartMsgOff(id) PROVE IInv'
<1> USE DEF StartMsgOff, Stamps, Rdtsc, histVars
<1>0. clock \in 0 .. MaxTsc /\ clock' \in 0 .. MaxTsc /\ ptr = LapEnd
  BY MaxTscAssumption DEF IInv, TypeOK, Position
<1>1. TypeOK'
  BY <1>0 DEF IInv, TypeOK
<1>2. Position'
  BY <1>0 DEF IInv, Position, LapEnd, EndOf
<1>3. Partial'
  BY DEF Partial
<1>4. Laid'
  <2>1. \A i \in 1 .. Len(log) : log[i].tsc \in Nat /\ log[i].tsc <= clock
    BY LogType DEF IInv, Laid
  <2>2. clock' \in Nat /\ clock \in Nat /\ clock <= clock'
    BY <1>0, MaxTscAssumption
  <2>3. \A i \in 1 .. Len(log) : log[i].tsc <= clock'
    BY <2>1, <2>2
  <2> QED BY <2>3 DEF IInv, Laid, LapEnd, EndOf
<1>5. LapReadable' /\ OldLapReadable'
  BY DEF IInv, LapReadable, OldLapReadable, Intact, EndOf
<1>6. Delimited'
  BY <1>0 DEF IInv, Delimited, EndOf, Position
<1> QED BY <1>1, <1>2, <1>3, <1>4, <1>5, <1>6 DEF IInv


\* Where the message being written lies.
LEMMA Writing ==
    ASSUME IInv, pc \in {"id", "put"}
    PROVE  /\ ptr \in Addr /\ ptr \in Nat /\ mem \in [Addr -> Cell]
           /\ log \in Seq(Msg) /\ msgStart = LapEnd /\ msgStart < BufEnd
           /\ msgStart \in Nat /\ msgStart > 0 /\ msgStart \in Addr
           /\ BufEnd \in Nat /\ Last \in Nat /\ BufEnd <= Last + 1
           /\ msg.id \in Id /\ msg.tsc \in Nat
<1>1. /\ msgStart \in Start .. BufEnd - 1 /\ msgStart = LapEnd
      /\ ptr \in Addr /\ mem \in [Addr -> Cell] /\ log \in Seq(Msg)
      /\ msg \in [id : Id, tsc : Nat]
  BY DEF IInv, TypeOK, Position
<1>2. BufEnd \in Nat /\ Last \in Nat /\ BufEnd <= Last + 1
  BY LastType, BufEndAssumption
<1> QED BY <1>1, <1>2 DEF Addr, Start

\* The second store of startMsg.
LEMMA PutIdIInv == IInv /\ PutId => IInv'
<1> SUFFICES ASSUME IInv, PutId PROVE IInv'
  OBVIOUS
<1> USE DEF PutId, Store, histVars
<1>0. /\ ptr \in Addr /\ mem \in [Addr -> Cell] /\ log \in Seq(Msg)
      /\ ptr = msgStart + 1 /\ msgStart = LapEnd /\ msgStart < BufEnd
      /\ msgStart \in Nat /\ msgStart > 0 /\ msgStart \in Addr
      /\ BufEnd \in Nat /\ Last \in Nat /\ BufEnd <= Last + 1
      /\ msg.id \in Id /\ mem[msgStart] = Tsc(msg.tsc)
  BY Writing DEF IInv, Partial
<1>1. LenOf(msg.id) \in Nat /\ LenOf(msg.id) >= 2 /\ LenOf(msg.id) + 1 <= TrailerSize
  BY <1>0, LenOfType
<1>2. ptr + 1 \in Addr
  BY <1>0, <1>1, LastType DEF Addr, Start, Last
<1>3. TypeOK'
  <2>1. mem' \in [Addr -> Cell]
    BY <1>0 DEF Cell, IdCell
  <2> QED BY <2>1, <1>2 DEF IInv, TypeOK
<1>4. Position'
  BY <1>0 DEF IInv, Position, LapEnd, EndOf
<1>5. Partial'
  BY <1>0, <1>1 DEF IInv, Partial
<1>6. Laid'
  BY DEF IInv, Laid, LapEnd, EndOf
<1>7. ASSUME NEW m \in Msg, m.at < BufEnd, Intact(m),
             EndOf(m) <= ptr \/ m.at > ptr
      PROVE  Intact(m)'
  BY <1>0, <1>7, StoreElsewhere
<1>8. LapReadable'
  <2>1. ASSUME NEW i \in lapFrom + 1 .. Len(log) PROVE Intact(log[i])'
    <3>1. /\ log[i] \in Msg /\ log[i].at < BufEnd /\ Intact(log[i])
          /\ EndOf(log[i]) <= LapEnd
      BY LogType DEF IInv, LapReadable, Laid
    <3>2. EndOf(log[i]) \in Nat
      BY <3>1, EndOfType DEF Addr, Start
    <3> QED BY <3>1, <3>2, <1>0, <1>7
  <2> QED BY <2>1 DEF IInv, LapReadable, EndOf
<1>9. OldLapReadable'
  <2>1. ASSUME NEW i \in prevFrom + 1 .. lapFrom, log[i].at > ptr + 1
        PROVE  Intact(log[i])'
    <3>1. log[i] \in Msg /\ log[i].at \in Nat
      BY LogType DEF IInv
    <3>2. log[i].at > ptr
      BY <3>1, <1>0, <2>1
    <3> QED BY <3>1, <3>2, <1>7, LogType DEF IInv, OldLapReadable, Laid
  <2> QED BY <2>1 DEF IInv, OldLapReadable, EndOf
<1>10. Delimited'
  <2>1. tailPtr \in Nat
    BY <1>0 DEF IInv, TypeOK
  <2> QED BY <2>1, <1>0 DEF IInv, Delimited
<1> QED BY <1>3, <1>4, <1>5, <1>6, <1>8, <1>9, <1>10 DEF IInv

\* A word of traced data.
LEMMA PutWordIInv == IInv /\ PutWord => IInv'
<1> SUFFICES ASSUME IInv, PutWord PROVE IInv'
  OBVIOUS
<1> USE DEF PutWord, Store, histVars
<1>0. /\ ptr \in Addr /\ mem \in [Addr -> Cell] /\ log \in Seq(Msg)
      /\ msgStart = LapEnd /\ msgStart < BufEnd
      /\ msgStart \in Nat /\ msgStart > 0 /\ msgStart \in Addr
      /\ BufEnd \in Nat /\ Last \in Nat /\ BufEnd <= Last + 1
      /\ msg.id \in Id /\ msg.tsc \in Nat /\ ptr \in Nat
      /\ ptr - msgStart \in 2 .. LenOf(msg.id) /\ ptr - msgStart < LenOf(msg.id)
  BY Writing DEF IInv, Partial
<1>1. LenOf(msg.id) \in Nat /\ LenOf(msg.id) >= 2 /\ LenOf(msg.id) + 1 <= TrailerSize
  BY <1>0, LenOfType
<1>2. ptr + 1 \in Addr /\ ptr >= msgStart + 2
  BY <1>0, <1>1, LastType DEF Addr, Start, Last
<1>3. TypeOK'
  <2>1. mem' \in [Addr -> Cell]
    BY <1>0 DEF Cell, Word
  <2> QED BY <2>1, <1>2 DEF IInv, TypeOK
<1>4. Position'
  BY <1>0 DEF IInv, Position, LapEnd, EndOf
<1>5. Partial'
  <2>1. ptr' - msgStart' \in 2 .. LenOf(msg'.id)
    BY <1>0, <1>1
  <2>2. mem'[msgStart] = mem[msgStart] /\ mem'[msgStart + 1] = mem[msgStart + 1]
    BY <1>0, <1>2
  <2>3. ASSUME NEW w \in 1 .. ptr' - msgStart - 2
        PROVE  mem'[msgStart + 1 + w] = Word(msg.tsc)
    <3>1. CASE msgStart + 1 + w = ptr
      BY <3>1, <1>0
    <3>2. CASE msgStart + 1 + w # ptr
      <4>1. w \in 1 .. ptr - msgStart - 2
        BY <3>2, <1>0
      <4>2. mem[msgStart + 1 + w] = Word(msg.tsc)
        BY <4>1 DEF IInv, Partial
      <4> QED BY <4>2, <3>2, <1>0
    <3> QED BY <3>1, <3>2
  <2> QED BY <2>1, <2>2, <2>3 DEF IInv, Partial
<1>6. Laid'
  BY DEF IInv, Laid, LapEnd, EndOf
<1>7. ASSUME NEW m \in Msg, m.at < BufEnd, Intact(m),
             EndOf(m) <= ptr \/ m.at > ptr
      PROVE  Intact(m)'
  BY <1>0, <1>7, StoreElsewhere
<1>8. LapReadable'
  <2>1. ASSUME NEW i \in lapFrom + 1 .. Len(log) PROVE Intact(log[i])'
    <3>1. /\ log[i] \in Msg /\ log[i].at < BufEnd /\ Intact(log[i])
          /\ EndOf(log[i]) <= LapEnd
      BY LogType DEF IInv, LapReadable, Laid
    <3>2. EndOf(log[i]) \in Nat
      BY <3>1, EndOfType DEF Addr, Start
    <3> QED BY <3>1, <3>2, <1>0, <1>2, <1>7
  <2> QED BY <2>1 DEF IInv, LapReadable, EndOf
<1>9. OldLapReadable'
  <2>1. ASSUME NEW i \in prevFrom + 1 .. lapFrom, log[i].at > ptr + 1
        PROVE  Intact(log[i])'
    <3>1. log[i] \in Msg /\ log[i].at \in Nat
      BY LogType DEF IInv
    <3>2. log[i].at > ptr
      BY <3>1, <1>0, <2>1
    <3> QED BY <3>1, <3>2, <1>7, LogType DEF IInv, OldLapReadable, Laid
  <2> QED BY <2>1 DEF IInv, OldLapReadable, EndOf
<1>10. Delimited'
  <2>1. tailPtr \in Nat
    BY <1>0 DEF IInv, TypeOK
  <2> QED BY <2>1, <1>0 DEF IInv, Delimited
<1> QED BY <1>3, <1>4, <1>5, <1>6, <1>8, <1>9, <1>10 DEF IInv


\* The length byte completes the message: it joins the current lap.
LEMMA EndMsgLenIInv == IInv /\ EndMsgLen => IInv'
<1> SUFFICES ASSUME IInv, EndMsgLen PROVE IInv'
  OBVIOUS
<1> DEFINE new == [at |-> msgStart, id |-> msg.id, tsc |-> msg.tsc]
<1>0. /\ ptr \in Addr /\ mem \in [Addr -> Cell] /\ log \in Seq(Msg)
      /\ msgStart = LapEnd /\ msgStart < BufEnd /\ ptr \in Nat
      /\ msgStart \in Nat /\ msgStart > 0 /\ msgStart \in Addr
      /\ msg.id \in Id /\ msg.tsc \in Nat
      /\ ptr = msgStart + LenOf(msg.id)
      /\ LenOf(msg.id) \in Nat /\ LenOf(msg.id) >= 2
      /\ LenOf(msg.id) = 2 + Words[msg.id] /\ Words[msg.id] \in Nat
  BY SMTT(30), Writing, LenOfType DEF EndMsgLen
<1>a. LapEnd \in Nat /\ LapEnd <= ptr
  BY <1>0
<1>c. \A n \in Nat : n > ptr + 1 => n > ptr
  BY <1>0
<1>b. ASSUME NEW w \in 1 .. Words[msg.id]
      PROVE  w \in 1 .. ptr - msgStart - 2 /\ msgStart + 1 + w # ptr
            /\ msgStart + 1 + w \in Addr
  <2>1. w \in Nat /\ w >= 1 /\ w <= Words[msg.id]
    BY <1>0
  <2>2. /\ ptr = msgStart + 2 + Words[msg.id] /\ Words[msg.id] \in Nat
        /\ msgStart \in Nat /\ msgStart > 0
    <3>1. /\ ptr = msgStart + LenOf(msg.id) /\ LenOf(msg.id) = 2 + Words[msg.id]
          /\ msgStart \in Nat /\ Words[msg.id] \in Nat /\ msgStart > 0
      BY <1>0
    <3> QED BY <3>1
  <2>3. w \in 1 .. ptr - msgStart - 2 /\ msgStart + 1 + w < ptr
    BY <2>1, <2>2
  <2>4. msgStart + 1 + w \in Addr
    BY <2>1, <2>2, <2>3, <1>0, LastType DEF Addr, Start
  <2> QED BY <2>2, <2>3, <2>4, <2>1
<1> USE DEF EndMsgLen, Store
<1>1. new \in Msg /\ EndOf(new) = ptr + 1 /\ EndOf(new) \in Addr
  <2>1. new \in Msg
    BY <1>0 DEF Msg
  <2> QED BY <2>1, <1>0, EndOfType DEF EndOf
<1> HIDE DEF new
<1>2. /\ log' \in Seq(Msg) /\ Len(log') = Len(log) + 1 /\ Len(log) \in Nat
      /\ log'[Len(log) + 1] = new
      /\ \A i \in 1 .. Len(log) : log'[i] = log[i]
  BY SMTT(30), <1>0, <1>1 DEF new
<1>3. /\ lapFrom \in Nat /\ lapFrom <= Len(log)
      /\ prevFrom \in Nat /\ prevFrom <= lapFrom
  BY LogType DEF IInv
<1>4. LapEnd' = ptr + 1
  BY <1>1, <1>2, <1>3 DEF LapEnd, EndOf
<1>5. TypeOK'
  <2>1. mem' \in [Addr -> Cell]
    BY <1>0 DEF Cell, LenCell
  <2> QED BY <2>1, <1>1, <1>2, <1>3 DEF IInv, TypeOK
<1>6. Position'
  BY <1>4 DEF IInv, Position
<1>7. Partial'
  BY DEF Partial
<1>8. Laid'
  <2>1. new.at < BufEnd /\ new.tsc = clock
    BY <1>0 DEF IInv, Laid, new
  <2>2. clock \in Nat
    BY MaxTscAssumption DEF IInv, TypeOK
  <2>3. ASSUME NEW i \in 1 .. Len(log')
        PROVE  log'[i].at < BufEnd /\ log'[i].tsc <= clock'
    BY <1>2, <2>1, <2>2, <2>3 DEF IInv, Laid
  <2>4. ASSUME NEW i \in lapFrom' + 1 .. Len(log') PROVE EndOf(log'[i]) <= LapEnd'
    <3>1. CASE i = Len(log) + 1
      BY SMTT(30), <3>1, <1>0, <1>1, <1>2, <1>4
    <3>2. CASE i \in lapFrom + 1 .. Len(log)
      <4>1. i \in 1 .. Len(log) /\ log[i] \in Msg /\ log[i].at < BufEnd
        BY <3>2, LogType DEF IInv, Laid
      <4>2. EndOf(log[i]) <= LapEnd /\ EndOf(log[i]) \in Nat
        BY <3>2, <4>1, EndOfType DEF IInv, Laid, Addr, Start
      <4> QED BY SMTT(30), <4>1, <4>2, <1>0, <1>2, <1>4
    <3> QED BY <3>1, <3>2, <1>2, <1>3
  <2>5. ASSUME NEW i \in 2 .. Len(log') PROVE log'[i - 1].tsc < log'[i].tsc
    <3>1. CASE i = Len(log) + 1
      <4>1. log'[i] = new /\ log'[i - 1] = log[i - 1] /\ i - 1 \in 1 .. Len(log)
        BY <3>1, <1>2, <2>5
      <4> QED BY <4>1, <2>1 DEF IInv, Laid
    <3>2. CASE i \in 2 .. Len(log)
      <4>1. log'[i] = log[i] /\ log'[i - 1] = log[i - 1]
        BY <3>2, <1>2
      <4> QED BY <4>1, <3>2 DEF IInv, Laid
    <3> QED BY <3>1, <3>2, <1>2
  <2> QED BY <2>3, <2>4, <2>5 DEF Laid
<1>9. ASSUME NEW m \in Msg, m.at < BufEnd, Intact(m),
             EndOf(m) <= ptr \/ m.at > ptr
      PROVE  Intact(m)'
  BY <1>0, <1>9, StoreElsewhere
<1>10. Intact(new)'
  <2>1. /\ mem'[msgStart] = Tsc(msg.tsc) /\ mem'[msgStart + 1] = IdCell(msg.id)
        /\ mem'[ptr] = LenCell(LenOf(msg.id))
    <3>1. mem' = [mem EXCEPT ![ptr] = LenCell(ptr - msgStart)] /\ pc = "put"
      OBVIOUS
    <3>2. mem[msgStart] = Tsc(msg.tsc) /\ mem[msgStart + 1] = IdCell(msg.id)
      BY <3>1 DEF IInv, Partial
    <3>3. ptr - msgStart = LenOf(msg.id) /\ msgStart # ptr /\ msgStart + 1 # ptr
      BY SMTT(30), <1>0
    <3>4. msgStart + 1 \in Addr
      BY <1>0, LastType DEF Addr, Start
    <3> HIDE DEF EndMsgLen, Store
    <3> QED BY <3>1, <3>2, <3>3, <3>4, <1>0
  <2>2. ASSUME NEW w \in 1 .. Words[msg.id]
        PROVE  mem'[msgStart + 1 + w] = Word(msg.tsc)
    <3>1. /\ w \in 1 .. ptr - msgStart - 2 /\ msgStart + 1 + w # ptr
          /\ msgStart + 1 + w \in Addr
      BY <1>b
    <3>2. mem[msgStart + 1 + w] = Word(msg.tsc)
      BY <3>1 DEF IInv, Partial
    <3> QED BY <3>1, <3>2, <1>0
  <2> QED BY <2>1, <2>2, <1>0 DEF Intact, new
<1>11. LapReadable'
  <2>1. ASSUME NEW i \in lapFrom + 1 .. Len(log)
        PROVE /\ \A m : m = log[i] => Intact(m)'
              /\ log[i].at = IF i = lapFrom + 1 THEN Start ELSE EndOf(log[i - 1])
    <3>1. /\ log[i] \in Msg /\ log[i].at < BufEnd /\ Intact(log[i])
          /\ EndOf(log[i]) <= LapEnd
      BY LogType DEF IInv, LapReadable, Laid
    <3>2. EndOf(log[i]) \in Nat
      BY <3>1, EndOfType DEF Addr, Start
    <3>3. EndOf(log[i]) <= ptr
      BY <3>1, <3>2, <1>a, <1>0
    <3>4. \A m : m = log[i] => Intact(m)'
      BY <3>1, <3>3, <1>9
    <3>5. log[i].at = IF i = lapFrom + 1 THEN Start ELSE EndOf(log[i - 1])
      BY DEF IInv, LapReadable
    <3> QED BY <3>4, <3>5
  <2>2. new.at = IF Len(log) = lapFrom THEN Start ELSE EndOf(log[Len(log)])
    BY <1>0 DEF new, LapEnd
  <2>3. ASSUME NEW i \in lapFrom' + 1 .. Len(log')
        PROVE  /\ Intact(log[i])'
               /\ log'[i].at = IF i = lapFrom' + 1 THEN Start
                                                   ELSE EndOf(log'[i - 1])
    <3>1. CASE i = Len(log) + 1
      <4>1. log'[i] = new
        BY <3>1, <1>2
      <4>2. i # lapFrom + 1 => log'[i - 1] = log[Len(log)]
        BY <3>1, <1>2, <1>3
      <4>3. \A m : m = new => Intact(m)'
        BY <1>10 DEF Intact, new
      <4>4. Intact(log[i])'
        BY <4>1, <4>3
      <4> QED BY <4>1, <4>2, <4>4, <2>2, <3>1, <1>3
    <3>2. CASE i \in lapFrom + 1 .. Len(log)
      <4>1. i \in 1 .. Len(log) /\ (i # lapFrom + 1 => i - 1 \in 1 .. Len(log))
        BY <3>2, <1>3, <1>2
      <4>2. log'[i] = log[i] /\ (i # lapFrom + 1 => log'[i - 1] = log[i - 1])
        BY <4>1, <1>2
      <4>3. Intact(log[i])'
        BY <3>2, <2>1, <4>2
      <4> QED BY <4>2, <4>3, <2>1, <3>2, <1>2
    <3> QED BY <3>1, <3>2, <1>2, <1>3
  <2> QED BY <2>3 DEF LapReadable
<1>12. OldLapReadable'
  <2>1. ASSUME NEW i \in prevFrom + 1 .. lapFrom
        PROVE  /\ log'[i].at > ptr + 1 => Intact(log[i])'
               /\ log'[i].at = IF i = prevFrom + 1 THEN Start
                                                   ELSE EndOf(log'[i - 1])
    <3>1. i \in 1 .. Len(log) /\ (i # prevFrom + 1 => i - 1 \in 1 .. Len(log))
      BY <1>2, <1>3
    <3>2. log'[i] = log[i] /\ (i # prevFrom + 1 => log'[i - 1] = log[i - 1])
      BY <3>1, <1>2
    <3>3. ASSUME log[i].at > ptr + 1 PROVE Intact(log[i])'
      <4>1. log[i] \in Msg /\ log[i].at \in Nat /\ log[i].at < BufEnd
        BY <3>1, LogType DEF IInv, Laid
      <4>2. log[i].at > ptr
        BY <4>1, <3>3, <1>c
      <4>3. Intact(log[i])
        BY <4>2 DEF IInv, OldLapReadable
      <4>4. \A m : m = log[i] => Intact(m)'
        BY <4>1, <4>2, <4>3, <1>9
      <4> QED BY <4>4, <3>2
    <3> QED BY <3>2, <3>3 DEF IInv, OldLapReadable
  <2>2. lapFrom > 0 => lapFrom \in 1 .. Len(log) /\ EndOf(log'[lapFrom]) = tailPtr
    BY <1>2, <1>3 DEF IInv, OldLapReadable
  <2> QED BY <2>1, <2>2 DEF IInv, OldLapReadable, EndOf
<1>13. Delimited'
  <2>1. tailPtr \in Nat
    BY BufEndAssumption, LastType DEF IInv, TypeOK
  <2> QED BY SMTT(30), <2>1, <1>0 DEF IInv, Delimited
<1> QED BY <1>5, <1>6, <1>7, <1>8, <1>11, <1>12, <1>13 DEF IInv

\* The terminator after the completed message.
LEMMA EndMsgZeroIInv == IInv /\ EndMsgZero => IInv'
<1> SUFFICES ASSUME IInv, EndMsgZero PROVE IInv'
  OBVIOUS
<1> USE DEF EndMsgZero, Store, histVars
<1>0. /\ ptr \in Addr /\ mem \in [Addr -> Cell] /\ ptr = LapEnd
      /\ tailPtr \in Nat /\ ptr \in Nat
  BY BufEndAssumption, LastType DEF IInv, TypeOK, Position, Addr, Start
<1>1. TypeOK'
  <2>1. mem' \in [Addr -> Cell]
    BY <1>0 DEF Cell, Zero, Tsc
  <2> QED BY <2>1 DEF IInv, TypeOK
<1>2. Position'
  BY <1>0 DEF IInv, Position, LapEnd, EndOf
<1>3. Partial'
  BY DEF Partial
<1>4. Laid'
  BY DEF IInv, Laid, LapEnd, EndOf
<1>5. ASSUME NEW m \in Msg, m.at < BufEnd, Intact(m),
             EndOf(m) <= ptr \/ m.at > ptr
      PROVE  Intact(m)'
  BY <1>0, <1>5, StoreElsewhere
<1>6. LapReadable'
  <2>1. ASSUME NEW i \in lapFrom + 1 .. Len(log) PROVE Intact(log[i])'
    <3>1. /\ log[i] \in Msg /\ log[i].at < BufEnd /\ Intact(log[i])
          /\ EndOf(log[i]) <= LapEnd
      BY LogType DEF IInv, LapReadable, Laid
    <3> QED BY <3>1, <1>0, <1>5
  <2> QED BY <2>1 DEF IInv, LapReadable, EndOf
<1>7. OldLapReadable'
  <2>1. ASSUME NEW i \in prevFrom + 1 .. lapFrom, log[i].at > ptr
        PROVE  Intact(log[i])'
    BY <2>1, <1>5, LogType DEF IInv, OldLapReadable, Laid
  <2> QED BY <2>1 DEF IInv, OldLapReadable, EndOf
<1>8. Delimited'
  BY <1>0 DEF IInv, Delimited, LapEnd, EndOf
<1> QED BY <1>1, <1>2, <1>3, <1>4, <1>6, <1>7, <1>8 DEF IInv

\* A step that leaves the ring and the writer alone.
LEMMA RingUnchangedIInv ==
    ASSUME IInv, UNCHANGED <<mem, tailPtr, ptr, msgStart, pc, msg, clock, hits,
                             histVars>>,
           off' \subseteq Id
    PROVE  IInv'
<1> USE DEF histVars
<1>1. TypeOK'
  BY DEF IInv, TypeOK
<1>2. Position' /\ Partial'
  BY DEF IInv, Position, Partial, LapEnd, EndOf
<1>3. Laid' /\ Delimited'
  BY DEF IInv, Laid, Delimited, LapEnd, EndOf
<1>4. LapReadable' /\ OldLapReadable'
  BY DEF IInv, LapReadable, OldLapReadable, Intact, EndOf
<1> QED BY <1>1, <1>2, <1>3, <1>4 DEF IInv

\* Every step of the writer, of qtctl, or of neither.
LEMMA NextIInv == IInv /\ [Next]_vars => IInv'
<1> SUFFICES ASSUME IInv, [Next]_vars PROVE IInv'
  OBVIOUS
<1>1. CASE WrapSeal
  BY <1>1, WrapSealIInv
<1>2. CASE WrapTurn
  BY <1>2, WrapTurnIInv
<1>3. CASE \E id \in Id : StartMsg(id) \/ StartMsgOff(id)
  BY <1>3, StartMsgIInv, StartMsgOffIInv
<1>4. CASE PutId
  BY <1>4, PutIdIInv
<1>5. CASE PutWord
  BY <1>5, PutWordIInv
<1>6. CASE EndMsgLen
  BY <1>6, EndMsgLenIInv
<1>7. CASE EndMsgZero
  BY <1>7, EndMsgZeroIInv
<1>8. CASE \E id \in QtctlIds : Qtctl(id)
  <2>1. PICK id \in Id : Qtctl(id)
    BY <1>8, QtctlIdsAssumption
  <2>2. off' \subseteq Id
    BY <2>1 DEF Qtctl, IInv, TypeOK
  <2> QED BY <2>1, <2>2, RingUnchangedIInv DEF Qtctl
<1>9. CASE UNCHANGED vars
  <2>1. off' \subseteq Id
    BY <1>9 DEF vars, ringVars, IInv, TypeOK
  <2> QED BY <2>1, <1>9, RingUnchangedIInv DEF vars, ringVars
<1> QED
  BY <1>1, <1>2, <1>3, <1>4, <1>5, <1>6, <1>7, <1>8, <1>9 DEF Next, Writer

\* The inductive invariant holds in every reachable state.
THEOREM Invariance == Spec => []IInv
BY InitIInv, NextIInv, PTL DEF Spec

\* Every store of the writer lands in the ring of its level (QuickTrace.cpp
\* 719-794), for every ring size and every set of messages that fit into the
\* trailer, although no store is checked against the end of the ring.
THEOREM TypeCorrect == Spec => []TypeOK
<1>1. IInv => TypeOK
  BY DEF IInv
<1> QED BY <1>1, Invariance, PTL

\* At every moment, also in the middle of a message, the messages completed in
\* the current lap can be read back by walking forward from the first cell.
THEOREM LapSafe == Spec => []LapReadable
<1>1. IInv => LapReadable
  BY DEF IInv
<1> QED BY <1>1, Invariance, PTL

\* At every moment the old messages beyond the writer can be read back by
\* walking backwards from tailPtr (rewind, qttail.cpp 345-402).
THEOREM OldLapSafe == Spec => []OldLapReadable
<1>1. IInv => OldLapReadable
  BY DEF IInv
<1> QED BY <1>1, Invariance, PTL

\* The forward walk ends at the zero timestamp of endMsg, the old lap at the
\* ones restored by doWrap.
THEOREM DelimitersSafe == Spec => []Delimited
<1>1. IInv => Delimited
  BY DEF IInv
<1> QED BY <1>1, Invariance, PTL

(***************************************************************************)
(* The reader: the ring, by what can be told from its cells                *)
(***************************************************************************)

\* A cell is what was stored in it.
LEMMA CellIs ==
    ASSUME TypeOK, NEW a \in Addr
    PROVE  /\ mem[a] \in Cell
           /\ mem[a].kind \in {"tsc", "ones", "word", "len", "id"}
           /\ mem[a].kind = "tsc" => mem[a].val \in Nat /\ mem[a] = Tsc(mem[a].val)
           /\ mem[a].kind = "id" => mem[a].val \in Id /\ mem[a] = IdCell(mem[a].val)
<1>1. mem[a] \in Cell
  BY DEF TypeOK
<1> QED BY <1>1 DEF Cell, Tsc, IdCell

\* What cells are made of.
LEMMA Kinds ==
    /\ \A t : Tsc(t).kind = "tsc" /\ Tsc(t).val = t
    /\ Zero.kind = "tsc" /\ Zero.val = 0
    /\ Ones.kind = "ones"
    /\ \A id : IdCell(id).kind = "id" /\ IdCell(id).val = id
    /\ \A t : Word(t).kind = "word"
    /\ \A n : LenCell(n).kind = "len"
BY DEF Tsc, Zero, Ones, IdCell, Word, LenCell

\* What the writer's invariant says of where it is.
LEMMA Writers ==
    ASSUME IInv
    PROVE  /\ mem \in [Addr -> Cell] /\ ptr \in Addr /\ ptr \in Nat /\ Start <= ptr
           /\ clock \in Nat /\ clock <= MaxTsc /\ log \in Seq(Msg) /\ Len(log) \in Nat
           /\ pc \in {"idle", "seal", "turned", "id", "put", "end"}
           /\ pc = "turned" => ptr = Start
           /\ pc = "seal" => ptr >= BufEnd /\ mem[ptr] = Ones
           /\ pc \in {"id", "put"} => /\ msgStart \in Addr /\ msgStart < ptr /\ msgStart < BufEnd
                                      /\ msg.id \in Id /\ msg.tsc = clock
                                      /\ mem[msgStart] = Tsc(clock)
                                      /\ mem[ptr - 1].kind # "len"
                                      /\ ptr <= msgStart + LenOf(msg.id)
           /\ \A i \in 1 .. Len(log) : log[i] \in Msg /\ log[i].at < BufEnd /\ log[i].tsc <= clock
<1>0. TypeOK /\ Position /\ Partial /\ Laid
  BY DEF IInv
<1>1. /\ mem \in [Addr -> Cell] /\ ptr \in Addr /\ ptr \in Nat /\ Start <= ptr
      /\ clock \in Nat /\ clock <= MaxTsc /\ log \in Seq(Msg) /\ Len(log) \in Nat
      /\ pc \in {"idle", "seal", "turned", "id", "put", "end"}
      /\ msg.id \in Id
  BY <1>0, MaxTscAssumption DEF TypeOK, Addr, Start
<1>2. pc = "turned" => ptr = Start
  BY <1>0 DEF Position, LapEnd
<1>3. ASSUME pc \in {"id", "put"}
      PROVE  /\ msgStart \in Addr /\ msgStart < ptr /\ msgStart < BufEnd
             /\ msg.tsc = clock /\ mem[msgStart] = Tsc(clock)
             /\ mem[ptr - 1].kind # "len"
             /\ ptr <= msgStart + LenOf(msg.id)
  <2>1. msgStart \in Start .. BufEnd - 1 /\ msgStart \in Nat /\ msgStart < BufEnd
    BY <1>0, <1>3, BufEndAssumption DEF TypeOK, Position, Start
  <2>2. msgStart \in Addr
    BY <2>1, LastType, BufEndAssumption DEF Addr, Start
  <2>3. LenOf(msg.id) \in Nat /\ LenOf(msg.id) >= 2
    BY <1>1, LenOfType
  <2>4. ptr = msgStart + 1 \/ ptr - msgStart \in 2 .. LenOf(msg.id)
    BY <1>0, <1>3 DEF Partial
  <2>5. msgStart < ptr /\ ptr <= msgStart + LenOf(msg.id)
    BY <1>1, <2>1, <2>3, <2>4
  <2>6. msg.tsc = clock /\ mem[msgStart] = Tsc(clock)
    BY <1>0, <1>3 DEF Laid, Partial
  <2>7. mem[ptr - 1].kind # "len"
    <3>1. CASE pc = "id"
      <4>1. ptr - 1 = msgStart
        BY <1>0, <2>1, <3>1 DEF Partial
      <4> QED BY <2>6, <4>1, Kinds
    <3>2. CASE pc = "put"
      <4>1. ptr - msgStart \in 2 .. LenOf(msg.id)
        BY <1>0, <3>2 DEF Partial
      <4>2. CASE ptr - msgStart = 2
        <5>1. ptr - 1 = msgStart + 1
          BY <1>1, <2>1, <4>2
        <5> QED BY <1>0, <3>2, <5>1, Kinds DEF Partial
      <4>3. CASE ptr - msgStart > 2
        <5> DEFINE w == ptr - msgStart - 2
        <5>1. w \in 1 .. ptr - msgStart - 2 /\ msgStart + 1 + w = ptr - 1
          BY <1>1, <2>1, <4>3
        <5>2. mem[msgStart + 1 + w] = Word(msg.tsc)
          BY <1>0, <3>2, <5>1 DEF Partial
        <5> QED BY <5>1, <5>2, Kinds
      <4> QED BY <1>1, <2>1, <2>3, <4>1, <4>2, <4>3
    <3> QED BY <1>3, <3>1, <3>2
  <2> QED BY <2>1, <2>2, <2>5, <2>6, <2>7
<1>5. pc = "seal" => ptr >= BufEnd /\ mem[ptr] = Ones
  BY <1>0 DEF Position
<1>6. ASSUME NEW i \in 1 .. Len(log)
      PROVE  log[i] \in Msg /\ log[i].at < BufEnd /\ log[i].tsc <= clock
  BY <1>0, <1>1 DEF Laid
<1> QED BY <1>1, <1>2, <1>3, <1>5, <1>6

\* What a store at the writer's place does to the cells.
LEMMA StoreAt ==
    ASSUME TypeOK, NEW c, Store(ptr, c), NEW a \in Addr
    PROVE  mem'[a] = IF a = ptr THEN c ELSE mem[a]
BY DEF TypeOK, Store

\* The effect of a step of the writer on a cell: a new timestamp, something
\* that is no timestamp of a message, or none.
LeavesAt(a) == mem'[a] = mem[a]
StampsAt(a) ==
    /\ a = ptr /\ ptr < BufEnd /\ mem'[a] = Tsc(clock') /\ clock' = clock + 2
    /\ ptr' = ptr + 1 /\ pc' = "id" /\ msgStart' = ptr
WritesAt(a) ==
    /\ a = ptr /\ ptr # Start /\ ~ Stamped(a)'
    /\ mem'[a].kind = "tsc" => mem'[a].val = 0
    /\ clock' = clock

\* The steps that store a timestamp, those that store something else, and those
\* that store nothing.
LEMMA Effects ==
    ASSUME IInv, Begins, Next
    PROVE  /\ clock' \in Nat /\ clock' >= clock
           /\ \A a \in Addr : LeavesAt(a) \/ StampsAt(a) \/ WritesAt(a)
           /\ \A a \in Addr : Begun(a)' => Begun(a) \/ StampsAt(a)
           /\ \A i \in 1 .. Len(log) : i \in 1 .. Len(log') /\ log'[i] = log[i]
<1>0. /\ TypeOK /\ ptr \in Addr /\ ptr \in Nat /\ Start <= ptr /\ BufEnd > Start
      /\ clock \in Nat /\ log \in Seq(Msg) /\ Len(log) \in Nat /\ BufEnd \in Nat
  BY Writers, BufEndAssumption DEF IInv, Start
<1>1. ASSUME NEW id \in Id, StartMsg(id)
      PROVE  /\ clock' \in Nat /\ clock' >= clock
             /\ \A a \in Addr : LeavesAt(a) \/ StampsAt(a)
             /\ \A a \in Addr : Begun(a)' => StampsAt(a)
             /\ UNCHANGED log
  <2>1. /\ clock' = clock + 2 /\ ptr' = ptr + 1 /\ pc' = "id" /\ msgStart' = ptr
        /\ Store(ptr, Tsc(clock')) /\ log' = log
    BY <1>1 DEF StartMsg, Stamps, Rdtsc, histVars
  <2>2. ptr < BufEnd
    BY <1>0, <1>1, Writers DEF StartMsg, Stamps
  <2>3. \A a \in Addr : mem'[a] = IF a = ptr THEN Tsc(clock') ELSE mem[a]
    BY <1>0, <2>1, StoreAt
  <2>4. \A a \in Addr : LeavesAt(a) \/ StampsAt(a)
    BY <2>1, <2>2, <2>3 DEF LeavesAt, StampsAt
  <2>5. \A a \in Addr : Begun(a)' => StampsAt(a)
    BY <2>1, <2>2, <2>3 DEF Begun, StampsAt
  <2> QED BY <1>0, <2>1, <2>4, <2>5
<1>2. ASSUME WrapSeal \/ PutId \/ PutWord \/ EndMsgLen \/ EndMsgZero
      PROVE  /\ clock' = clock
             /\ \A a \in Addr : LeavesAt(a) \/ WritesAt(a)
             /\ \A a \in Addr : Begun(a)' => Begun(a)
             /\ \A i \in 1 .. Len(log) : i \in 1 .. Len(log') /\ log'[i] = log[i]
  <2>1. ptr # Start /\ clock' = clock
    <3>1. CASE WrapSeal
      BY <1>0, <3>1 DEF WrapSeal
    <3>2. CASE PutId \/ PutWord \/ EndMsgLen
      <4>1. pc \in {"id", "put"} /\ clock' = clock
        BY <3>2 DEF PutId, PutWord, EndMsgLen
      <4>2. msgStart \in Nat /\ Start <= msgStart /\ msgStart < ptr
        BY <4>1, Writers DEF Addr, Start
      <4> QED BY <1>0, <4>1, <4>2 DEF Start
    <3>3. CASE EndMsgZero
      BY <3>3 DEF EndMsgZero, Begins
    <3> QED BY <1>2, <3>1, <3>2, <3>3
  <2>2. PICK c : /\ Store(ptr, c)
                 /\ c.kind = "tsc" => c.val = 0
    <3>1. \/ Store(ptr, Ones) \/ Store(ptr, IdCell(msg.id)) \/ Store(ptr, Word(msg.tsc))
          \/ Store(ptr, LenCell(ptr - msgStart)) \/ Store(ptr, Zero)
      BY <1>2 DEF WrapSeal, PutId, PutWord, EndMsgLen, EndMsgZero
    <3>2. \A c \in {Ones, IdCell(msg.id), Word(msg.tsc), LenCell(ptr - msgStart), Zero} :
              c.kind = "tsc" => c.val = 0
      BY Kinds
    <3> QED BY <3>1, <3>2
  <2>3. \A a \in Addr : mem'[a] = IF a = ptr THEN c ELSE mem[a]
    BY <1>0, <2>2, StoreAt
  <2>4. \A a \in Addr : LeavesAt(a) \/ WritesAt(a)
    BY <2>1, <2>2, <2>3 DEF LeavesAt, WritesAt, Stamped
  <2>5. \A a \in Addr : Begun(a)' => Begun(a)
    BY <1>2 DEF WrapSeal, PutId, PutWord, EndMsgLen, EndMsgZero, Begun
  <2>6. log' = log \/ \E m \in Msg : log' = Append(log, m)
    <3>1. CASE EndMsgLen
      <4>1. [at |-> msgStart, id |-> msg.id, tsc |-> msg.tsc] \in Msg
        BY <1>0, <3>1, Writers DEF EndMsgLen, Msg
      <4> QED BY <3>1, <4>1 DEF EndMsgLen
    <3>2. CASE WrapSeal \/ PutId \/ PutWord \/ EndMsgZero
      BY <3>2 DEF WrapSeal, PutId, PutWord, EndMsgZero, histVars
    <3> QED BY <1>2, <3>1, <3>2
  <2>7. \A i \in 1 .. Len(log) : i \in 1 .. Len(log') /\ log'[i] = log[i]
    BY <1>0, <2>6
  <2> QED BY <2>1, <2>4, <2>5, <2>7
<1>3. ASSUME WrapTurn \/ (\E id \in Id : StartMsgOff(id)) \/ (\E id \in QtctlIds : Qtctl(id))
      PROVE  /\ clock' \in Nat /\ clock' >= clock
             /\ \A a \in Addr : LeavesAt(a)
             /\ \A a \in Addr : Begun(a)' => Begun(a)
             /\ UNCHANGED log
  <2>1. CASE WrapTurn
    BY <1>0, <2>1 DEF WrapTurn, LeavesAt, Begun
  <2>2. CASE \E id \in Id : StartMsgOff(id)
    <3>1. clock' = clock + 2 /\ mem' = mem /\ log' = log /\ pc' = "idle"
      BY <2>2 DEF StartMsgOff, Stamps, Rdtsc, histVars
    <3> QED BY <1>0, <3>1 DEF LeavesAt, Begun
  <2>3. CASE \E id \in QtctlIds : Qtctl(id)
    <3>1. clock' = clock /\ mem' = mem /\ log' = log /\ pc' = pc /\ msgStart' = msgStart
      BY <2>3 DEF Qtctl, histVars
    <3> QED BY <1>0, <3>1 DEF LeavesAt, Begun
  <2> QED BY <1>3, <2>1, <2>2, <2>3
<1>4. CASE \E id \in Id : StartMsg(id)
  BY <1>1, <1>4
<1>5. CASE WrapSeal \/ PutId \/ PutWord \/ EndMsgLen \/ EndMsgZero
  <2>1. clock' \in Nat /\ clock' >= clock
    BY <1>0, <1>2, <1>5
  <2>2. /\ \A a \in Addr : LeavesAt(a) \/ StampsAt(a) \/ WritesAt(a)
        /\ \A a \in Addr : Begun(a)' => Begun(a) \/ StampsAt(a)
        /\ \A i \in 1 .. Len(log) : i \in 1 .. Len(log') /\ log'[i] = log[i]
    BY <1>2, <1>5
  <2> QED BY <2>1, <2>2
<1>6. CASE WrapTurn \/ (\E id \in Id : StartMsgOff(id)) \/ (\E id \in QtctlIds : Qtctl(id))
  BY <1>0, <1>3, <1>6
<1> QED BY <1>4, <1>5, <1>6 DEF Next, Writer

\* A timestamp is in one place, and that where messages begin.
LEMMA DatedSingleStep ==
    ASSUME IInv, RingHolds, Next, TypeOK'
    PROVE  Dated' /\ Single'
<1>0. TypeOK /\ Dated /\ Single /\ clock \in Nat /\ clock' \in Nat /\ clock' >= clock
  BY Effects, Writers DEF IInv, RingHolds
<1>1. \A a \in Addr : LeavesAt(a) \/ StampsAt(a) \/ WritesAt(a)
  BY Effects DEF RingHolds
<1>2. \A a \in Addr : mem[a].kind = "tsc" => mem[a].val \in Nat /\ mem[a].val <= clock
  BY <1>0, CellIs DEF Dated
<1>3. Dated'
  <2>1. ASSUME NEW a \in Addr, mem'[a].kind = "tsc"
        PROVE  mem'[a].val <= clock'
    <3>1. CASE LeavesAt(a)
      BY <1>0, <1>2, <2>1, <3>1 DEF LeavesAt
    <3>2. CASE StampsAt(a)
      BY <1>0, <3>2, Kinds DEF StampsAt
    <3>3. CASE WritesAt(a)
      BY <1>0, <2>1, <3>3 DEF WritesAt
    <3> QED BY <1>1, <3>1, <3>2, <3>3
  <2> QED BY <2>1 DEF Dated
<1>4. Single'
  <2>1. ASSUME NEW a \in Addr, Stamped(a)'
        PROVE  a < BufEnd /\ \A b \in Addr : mem'[b] = mem'[a] => a = b
    <3>1. CASE StampsAt(a)
      <4>1. a < BufEnd /\ mem'[a] = Tsc(clock + 2)
        BY <3>1 DEF StampsAt
      <4>2. ASSUME NEW b \in Addr, b # a, mem'[b] = mem'[a]
            PROVE  FALSE
        <5>1. LeavesAt(b)
          BY <1>1, <3>1, <4>2 DEF StampsAt, WritesAt
        <5>2. mem[b].kind = "tsc" /\ mem[b].val = clock + 2
          BY <4>1, <4>2, <5>1, Kinds DEF LeavesAt
        <5> QED BY <1>0, <1>2, <5>2
      <4> QED BY <4>1, <4>2
    <3>2. CASE LeavesAt(a)
      <4>1. Stamped(a) /\ mem'[a] = mem[a]
        BY <2>1, <3>2 DEF LeavesAt, Stamped
      <4>2. a < BufEnd /\ \A b \in Addr : mem[b] = mem[a] => a = b
        BY <1>0, <4>1 DEF Single
      <4>3. ASSUME NEW b \in Addr, mem'[b] = mem'[a]
            PROVE  a = b
        <5>1. CASE LeavesAt(b)
          BY <4>1, <4>2, <4>3, <5>1 DEF LeavesAt
        <5>2. CASE StampsAt(b)
          <6>1. mem[a].val = clock + 2
            BY <4>1, <4>3, <5>2, Kinds DEF StampsAt
          <6> QED BY <1>0, <1>2, <4>1, <6>1 DEF Stamped
        <5>3. CASE WritesAt(b)
          BY <4>1, <4>3, <5>3 DEF WritesAt, Stamped
        <5> QED BY <1>1, <5>1, <5>2, <5>3
      <4> QED BY <4>2, <4>3
    <3> QED BY <1>1, <2>1, <3>1, <3>2 DEF WritesAt
  <2> QED BY <2>1 DEF Single
<1> QED BY <1>3, <1>4

\* The first message of a lap stays at the start.
LEMMA BeginsStep ==
    ASSUME IInv, RingHolds, Next
    PROVE  Begins'
<1>0. /\ TypeOK /\ Begins /\ ptr \in Addr /\ ptr \in Nat /\ Start \in Addr /\ Start <= ptr
      /\ clock \in Nat
  BY Writers, LastType, BufEndAssumption DEF IInv, RingHolds, Addr, Start, Last
<1>1. LeavesAt(Start) \/ StampsAt(Start) \/ WritesAt(Start)
  BY <1>0, Effects
<1>2. ptr # Start => Stamped(Start)'
  BY <1>0, <1>1 DEF Begins, LeavesAt, StampsAt, WritesAt, Stamped
<1>3. CASE \E id \in Id : StartMsg(id)
  <2>1. PICK id \in Id : StartMsg(id)
    BY <1>3
  <2>2. Store(ptr, Tsc(clock + 2)) /\ ptr' = ptr + 1 /\ pc' = "id"
    BY <2>1 DEF StartMsg, Stamps, Rdtsc
  <2>3. mem'[Start] = Tsc(clock + 2) \/ ptr # Start
    BY <1>0, <2>2, StoreAt
  <2>4. Stamped(Start)'
    BY <1>0, <1>2, <2>3, Kinds DEF Stamped
  <2> QED BY <2>2, <2>4 DEF Begins
<1>4. CASE WrapTurn
  BY <1>4 DEF WrapTurn, Begins
<1>5. CASE PutId \/ PutWord \/ EndMsgLen
  <2>1. ptr # Start /\ ptr' = ptr + 1
    <3>1. pc \in {"id", "put"} /\ ptr' = ptr + 1
      BY <1>5 DEF PutId, PutWord, EndMsgLen
    <3>2. msgStart \in Nat /\ Start <= msgStart /\ msgStart < ptr
      BY <3>1, Writers DEF Addr, Start
    <3> QED BY <1>0, <3>1, <3>2 DEF Start
  <2> QED BY <1>0, <1>2, <2>1 DEF Begins, Start
<1>6. CASE WrapSeal \/ EndMsgZero \/ (\E id \in Id : StartMsgOff(id)) \/ \E id \in QtctlIds : Qtctl(id)
  <2>1. ptr' = ptr /\ (pc' = "end" => pc = "end")
    BY <1>6 DEF WrapSeal, EndMsgZero, StartMsgOff, Qtctl
  <2> QED BY <1>0, <1>2, <2>1 DEF Begins
<1> QED BY <1>3, <1>4, <1>5, <1>6 DEF Next, Writer

\* Behind a length byte comes a message or the ones, unless the writer is there.
LEMMA FollowedStep ==
    ASSUME IInv, RingHolds, Next
    PROVE  Followed'
<1>0. /\ TypeOK /\ Followed /\ ptr \in Addr /\ ptr \in Nat /\ clock \in Nat
      /\ \A a \in Addr : a \in Nat /\ Start <= a
  BY Writers DEF IInv, RingHolds, Addr, Start
<1>1. ASSUME NEW a \in Addr, NEW c, Store(ptr, c), a # ptr, a + 1 # ptr,
             mem'[a].kind = "len"
      PROVE  a + 1 \in Addr /\ (mem'[a + 1] = Ones \/ Stamped(a + 1)')
  <2>1. mem'[a] = mem[a]
    BY <1>0, <1>1, StoreAt
  <2>2. a + 1 \in Addr /\ (mem[a + 1] = Ones \/ Stamped(a + 1))
    BY <1>0, <1>1, <2>1 DEF Followed
  <2>3. mem'[a + 1] = mem[a + 1]
    BY <1>0, <1>1, <2>2, StoreAt
  <2> QED BY <2>2, <2>3 DEF Stamped
<1>2. CASE \E id \in Id : StartMsg(id)
  <2>1. Store(ptr, Tsc(clock + 2)) /\ ptr' = ptr + 1
    BY <1>2 DEF StartMsg, Stamps, Rdtsc
  <2>2. mem'[ptr] = Tsc(clock + 2)
    BY <1>0, <2>1, StoreAt
  <2>3. ASSUME NEW a \in Addr, mem'[a].kind = "len", a + 1 # ptr'
        PROVE  a + 1 \in Addr /\ (mem'[a + 1] = Ones \/ Stamped(a + 1)')
    <3>1. CASE a + 1 = ptr
      BY <1>0, <2>2, <3>1, Kinds DEF Stamped
    <3>2. CASE a + 1 # ptr
      BY <1>0, <1>1, <2>1, <2>3, <3>2
    <3> QED BY <3>1, <3>2
  <2> QED BY <2>3 DEF Followed
<1>3. CASE PutId \/ PutWord \/ EndMsgLen
  <2>1. PICK c : Store(ptr, c)
    BY <1>3 DEF PutId, PutWord, EndMsgLen
  <2>2. ptr' = ptr + 1 /\ mem[ptr - 1].kind # "len"
    BY <1>3, Writers DEF PutId, PutWord, EndMsgLen
  <2>3. ASSUME NEW a \in Addr, mem'[a].kind = "len", a + 1 # ptr'
        PROVE  a + 1 \in Addr /\ (mem'[a + 1] = Ones \/ Stamped(a + 1)')
    <3>1. a # ptr
      BY <1>0, <2>2, <2>3
    <3>2. a + 1 # ptr
      <4>1. mem'[a] = mem[a]
        BY <1>0, <2>1, <3>1, StoreAt
      <4>2. a = ptr - 1 \/ a + 1 # ptr
        BY <1>0
      <4> QED BY <2>2, <2>3, <4>1, <4>2
    <3> QED BY <1>1, <2>1, <2>3, <3>1, <3>2
  <2> QED BY <2>3 DEF Followed
<1>4. CASE WrapSeal \/ EndMsgZero
  <2>1. PICK c : Store(ptr, c) /\ c.kind # "len"
    <3>1. Store(ptr, Ones) \/ Store(ptr, Zero)
      BY <1>4 DEF WrapSeal, EndMsgZero
    <3> QED BY <3>1, Kinds
  <2>2. ptr' = ptr
    BY <1>4 DEF WrapSeal, EndMsgZero
  <2>3. mem'[ptr] = c
    BY <1>0, <2>1, StoreAt
  <2>4. ASSUME NEW a \in Addr, mem'[a].kind = "len", a + 1 # ptr'
        PROVE  a + 1 \in Addr /\ (mem'[a + 1] = Ones \/ Stamped(a + 1)')
    BY <1>1, <2>1, <2>2, <2>3, <2>4
  <2> QED BY <2>4 DEF Followed
<1>5. CASE WrapTurn
  <2>1. mem' = mem /\ ptr' = Start /\ mem[ptr] = Ones
    BY <1>5, Writers DEF WrapTurn
  <2> QED BY <1>0, <2>1 DEF Followed, Stamped
<1>6. CASE (\E id \in Id : StartMsgOff(id)) \/ \E id \in QtctlIds : Qtctl(id)
  <2>1. mem' = mem /\ ptr' = ptr
    BY <1>6 DEF StartMsgOff, Qtctl
  <2> QED BY <1>0, <2>1 DEF Followed, Stamped
<1> QED BY <1>2, <1>3, <1>4, <1>5, <1>6 DEF Next, Writer

\* A message stays what it was when something is stored elsewhere.
LEMMA KeptBy ==
    ASSUME IInv, RingHolds, Next, NEW a \in Addr, Stamped(a), ~ Begun(a), mem'[a] = mem[a],
           mem' = mem \/ (a # ptr /\ \E c : Store(ptr, c))
    PROVE  \E i \in 1 .. Len(log') :
               /\ log'[i].at = a /\ log'[i].tsc = mem'[a].val /\ Intact(log[i])'
               /\ \/ a >= ptr
                  \/ EndOf(log'[i]) <= IF pc \in {"id", "put"} THEN msgStart ELSE ptr
<1>1. PICK i \in 1 .. Len(log) :
        /\ log[i].at = a /\ log[i].tsc = mem[a].val /\ Intact(log[i])
        /\ \/ a >= ptr
           \/ EndOf(log[i]) <= IF pc \in {"id", "put"} THEN msgStart ELSE ptr
  BY DEF RingHolds, Kept
<1>2. PICK m \in Msg : m = log[i] /\ m.at < BufEnd /\ m.at = a /\ EndOf(m) \in Nat /\ a \in Nat
  <2>1. log[i] \in Msg /\ log[i].at < BufEnd
    BY Writers
  <2> QED BY <1>1, <2>1, EndOfType DEF Addr, Start
<1>3. Intact(m)'
  <2>1. CASE mem' = mem
    BY <1>1, <1>2, <2>1 DEF Intact
  <2>2. CASE a # ptr /\ \E c : Store(ptr, c)
    <3>1. EndOf(m) <= ptr \/ m.at > ptr
      BY <1>1, <1>2, <2>2, Writers DEF Addr, Start
    <3> QED BY <1>1, <1>2, <2>2, <3>1, StoreElsewhere, Writers
  <2> QED BY <2>1, <2>2
<1>4. i \in 1 .. Len(log') /\ log'[i] = log[i]
  BY Effects DEF RingHolds
<1>5. Intact(log[i])'
  BY <1>2, <1>3, <1>4 DEF Intact
<1> QED BY <1>1, <1>4, <1>5 DEF EndOf

\* Behind a timestamp is all of its message.
LEMMA KeptStep ==
    ASSUME IInv, RingHolds, Next, IInv'
    PROVE  Kept'
<1>0. /\ TypeOK /\ ptr \in Addr /\ ptr \in Nat /\ clock \in Nat /\ Len(log) \in Nat /\ log \in Seq(Msg)
      /\ \A a \in Addr : a \in Nat /\ Start <= a
  BY Writers DEF IInv, RingHolds, Addr, Start
<1> DEFINE Holds(a) ==
        \E i \in 1 .. Len(log') :
            /\ log'[i].at = a /\ log'[i].tsc = mem'[a].val /\ Intact(log[i])'
            /\ \/ a >= ptr
               \/ EndOf(log'[i]) <= IF pc \in {"id", "put"} THEN msgStart ELSE ptr
           Good(a) ==
        \/ Begun(a)'
        \/ \E i \in 1 .. Len(log') :
            /\ log'[i].at = a /\ log'[i].tsc = mem'[a].val /\ Intact(log[i])'
            /\ \/ a >= ptr'
               \/ EndOf(log'[i]) <= IF pc' \in {"id", "put"} THEN msgStart' ELSE ptr'
<1>h. ASSUME NEW a \in Addr, Holds(a), NEW b \in Nat, NEW d \in Nat, b <= d \/ a >= ptr',
             b = IF pc \in {"id", "put"} THEN msgStart ELSE ptr,
             d = IF pc' \in {"id", "put"} THEN msgStart' ELSE ptr',
             a >= ptr => a >= ptr'
      PROVE  Good(a)
  <2>1. PICK i \in 1 .. Len(log') :
            /\ log'[i].at = a /\ log'[i].tsc = mem'[a].val /\ Intact(log[i])'
            /\ a >= ptr \/ EndOf(log'[i]) <= b
    BY <1>h
  <2>2. log'[i] \in Msg /\ log'[i].at < BufEnd
    <3>1. Laid' /\ TypeOK'
      BY DEF IInv
    <3> QED BY <2>1, <3>1 DEF Laid, TypeOK
  <2>3. EndOf(log'[i]) \in Nat
    BY <2>2, EndOfType DEF Addr, Start
  <2>4. a >= ptr' \/ EndOf(log'[i]) <= d
    <3>1. /\ b \in Nat /\ d \in Nat /\ (b <= d \/ a >= ptr')
          /\ a >= ptr => a >= ptr'
      BY <1>h
    <3>2. a >= ptr \/ EndOf(log'[i]) <= b
      BY <2>1
    <3> HIDE DEF Holds, Good
    <3> QED BY <2>3, <3>1, <3>2
  <2> QED BY <1>h, <2>1, <2>4
<1>1. ASSUME NEW a \in Addr, Stamped(a)', NEW c, Store(ptr, c), a # ptr
      PROVE  Stamped(a) /\ (~ Begun(a) => Holds(a))
  <2>1. mem'[a] = mem[a]
    BY <1>0, <1>1, StoreAt
  <2>2. Stamped(a)
    BY <1>1, <2>1 DEF Stamped
  <2> QED BY <1>1, <2>1, <2>2, KeptBy
<1>1a. ASSUME NEW a \in Addr, Stamped(a)', NEW c, Store(ptr, c), c.kind = "tsc" => c.val = 0
       PROVE  a # ptr
  BY <1>0, <1>1a, StoreAt DEF Stamped
<1>2. ASSUME NEW a \in Addr, Stamped(a)', mem' = mem
      PROVE  ~ Begun(a) => Holds(a)
  BY <1>2, KeptBy DEF Stamped
<1>3. ASSUME NEW a \in Addr, Stamped(a)', \E id \in Id : StartMsg(id)
      PROVE  Good(a)
  <2>1. /\ Store(ptr, Tsc(clock + 2)) /\ ptr' = ptr + 1 /\ pc' = "id" /\ msgStart' = ptr
        /\ pc \notin {"id", "put"}
    BY <1>3 DEF StartMsg, Stamps, Rdtsc
  <2>2. CASE a = ptr
    BY <2>1, <2>2 DEF Begun
  <2>3. CASE a # ptr
    <3>1. Holds(a)
      BY <1>1, <1>3, <2>1, <2>3 DEF Begun
    <3>2. /\ ptr = IF pc \in {"id", "put"} THEN msgStart ELSE ptr
          /\ ptr = IF pc' \in {"id", "put"} THEN msgStart' ELSE ptr'
      BY <2>1
    <3>3. ptr <= ptr /\ (a >= ptr => a >= ptr')
      BY <1>0, <2>1, <2>3
    <3> QED BY <1>0, <1>h, <3>1, <3>2, <3>3
  <2> QED BY <2>2, <2>3
<1>4. ASSUME NEW a \in Addr, Stamped(a)', PutId \/ PutWord
      PROVE  Good(a)
  <2>1. /\ Store(ptr, IdCell(msg.id)) \/ Store(ptr, Word(msg.tsc))
        /\ ptr' = ptr + 1 /\ pc' = "put" /\ pc \in {"id", "put"} /\ msgStart' = msgStart
    BY <1>4 DEF PutId, PutWord
  <2>2. a # ptr
    BY <1>1a, <1>4, <2>1, Kinds
  <2>3. a # ptr /\ (~ Begun(a) => Holds(a))
    BY <1>1, <1>4, <2>1, <2>2
  <2>4. CASE Begun(a)
    BY <2>1, <2>4 DEF Begun
  <2>5. CASE Holds(a)
    <3>1. msgStart \in Nat
      BY <1>0, <2>1, Writers
    <3> QED BY <1>0, <1>h, <2>1, <2>3, <2>5, <3>1
  <2> QED BY <2>3, <2>4, <2>5
<1>5. ASSUME NEW a \in Addr, Stamped(a)', EndMsgLen
      PROVE  Good(a)
  <2>1. /\ Store(ptr, LenCell(ptr - msgStart))
        /\ ptr' = ptr + 1 /\ pc' = "end" /\ pc = "put" /\ lapFrom' = lapFrom
        /\ log' = Append(log, [at |-> msgStart, id |-> msg.id, tsc |-> msg.tsc])
        /\ ptr - msgStart = LenOf(msg.id)
    BY <1>5 DEF EndMsgLen
  <2>2. a # ptr
    BY <1>1a, <1>5, <2>1, Kinds
  <2>3. a # ptr /\ (~ Begun(a) => Holds(a))
    BY <1>1, <1>5, <2>1, <2>2
  <2>4. msgStart \in Nat /\ msgStart < ptr /\ msgStart \in Addr
    BY <1>0, <2>1, Writers
  <2>5. CASE Begun(a)
    <3>a. PICK k \in Nat : k = Len(log) + 1
      BY <1>0
    <3>1. /\ k \in 1 .. Len(log') /\ k = Len(log')
          /\ log'[k] = [at |-> msgStart, id |-> msg.id, tsc |-> msg.tsc]
      BY <1>0, <2>1, <3>a
    <3>2. Intact(log[k])'
      <4>1. lapFrom' \in Nat /\ lapFrom' < k
        BY <1>0, <2>1, <3>a DEF TypeOK
      <4>2. k \in lapFrom' + 1 .. Len(log')
        BY <3>1, <4>1
      <4>3. LapReadable'
        BY DEF IInv
      <4> QED BY <4>2, <4>3 DEF LapReadable
    <3>3. a = msgStart /\ mem'[a] = mem[a] /\ mem[a] = Tsc(msg.tsc)
      BY <1>0, <2>1, <2>3, <2>5, StoreAt, Writers DEF Begun
    <3>4. log'[k].at = a /\ log'[k].tsc = mem'[a].val
      BY <3>1, <3>3, Kinds
    <3>5. EndOf(log'[k]) <= ptr'
      <4>1. EndOf(log'[k]) = msgStart + LenOf(msg.id) + 1
        <5> DEFINE m == [at |-> msgStart, id |-> msg.id, tsc |-> msg.tsc]
        <5>1. EndOf(m) = m.at + LenOf(m.id) + 1
          BY DEF EndOf
        <5>2. m.at = msgStart /\ m.id = msg.id
          OBVIOUS
        <5>3. m = log'[k]
          BY <3>1
        <5> HIDE DEF m
        <5> QED BY <5>1, <5>2, <5>3
      <4>2. msgStart + LenOf(msg.id) + 1 = ptr' /\ ptr' \in Nat
        BY <1>0, <2>1, <2>4
      <4> QED BY <4>1, <4>2
    <3> QED BY <2>1, <3>1, <3>2, <3>4, <3>5
  <2>6. CASE Holds(a)
    <3>1. PICK i \in 1 .. Len(log') :
            /\ log'[i].at = a /\ log'[i].tsc = mem'[a].val /\ Intact(log[i])'
            /\ a >= ptr \/ EndOf(log'[i]) <= msgStart
      BY <2>1, <2>6
    <3>2. PICK m \in Msg : m = log'[i] /\ EndOf(m) \in Nat
      <4>1. log'[i] \in Msg /\ log'[i].at < BufEnd
        BY <3>1 DEF IInv, Laid, TypeOK
      <4> QED BY <4>1, EndOfType DEF Addr, Start
    <3>3. a >= ptr' \/ EndOf(log'[i]) <= ptr'
      <4>1. a \in Nat /\ (a >= ptr => a >= ptr')
        BY <1>0, <2>1, <2>3
      <4>2. EndOf(log'[i]) <= msgStart => EndOf(log'[i]) <= ptr'
        BY <1>0, <2>1, <2>4, <3>2
      <4> QED BY <3>1, <4>1, <4>2
    <3> QED BY <2>1, <3>1, <3>3
  <2> QED BY <2>3, <2>5, <2>6
<1>6. ASSUME NEW a \in Addr, Stamped(a)', WrapSeal \/ EndMsgZero
      PROVE  Good(a)
  <2>1. /\ Store(ptr, Ones) \/ Store(ptr, Zero)
        /\ ptr' = ptr /\ pc' \notin {"id", "put"} /\ pc \notin {"id", "put"}
    BY <1>6 DEF WrapSeal, EndMsgZero
  <2>2. a # ptr
    BY <1>1a, <1>6, <2>1, Kinds
  <2>3. Holds(a)
    BY <1>1, <1>6, <2>1, <2>2 DEF Begun
  <2> QED BY <1>0, <1>h, <2>1, <2>2, <2>3
<1>7. ASSUME NEW a \in Addr, Stamped(a)', WrapTurn
      PROVE  Good(a)
  <2>1. mem' = mem /\ ptr' = Start /\ pc = "seal"
    BY <1>7 DEF WrapTurn
  <2>2. Holds(a)
    BY <1>2, <1>7, <2>1 DEF Begun
  <2> QED BY <1>0, <2>1, <2>2
<1>8. ASSUME NEW a \in Addr, Stamped(a)', \E id \in Id : StartMsgOff(id)
      PROVE  Good(a)
  <2>1. mem' = mem /\ ptr' = ptr /\ pc \notin {"id", "put"} /\ pc' = "idle"
    BY <1>8 DEF StartMsgOff, Stamps
  <2>2. Holds(a)
    BY <1>2, <1>8, <2>1 DEF Begun
  <2> QED BY <2>1, <2>2
<1>9. ASSUME NEW a \in Addr, Stamped(a)', \E id \in QtctlIds : Qtctl(id)
      PROVE  Good(a)
  <2>1. mem' = mem /\ ptr' = ptr /\ pc' = pc /\ msgStart' = msgStart
    BY <1>9 DEF Qtctl
  <2>2. Begun(a) \/ Holds(a)
    BY <1>2, <1>9, <2>1
  <2> QED BY <2>1, <2>2 DEF Begun
<1>10. \A a \in Addr : Stamped(a)' => Good(a)
  BY <1>3, <1>4, <1>5, <1>6, <1>7, <1>8, <1>9 DEF Next, Writer
<1> QED BY <1>10 DEF Kept

\* Nothing of it depends on anything but the ring.
LEMMA Rests == RingHolds /\ UNCHANGED vars => RingHolds'
BY DEF RingHolds, Dated, Single, Kept, Followed, Begins, Stamped, Begun, Intact, EndOf,
       vars, ringVars, histVars

\* What the ring holds, wherever the writer goes.
LEMMA RingHoldsStep ==
    ASSUME IInv, RingHolds, Next
    PROVE  IInv' /\ RingHolds'
<1>1. IInv' /\ TypeOK'
  BY NextIInv DEF IInv
<1> QED BY <1>1, DatedSingleStep, BeginsStep, FollowedStep, KeptStep DEF RingHolds

\* At the start the ring is empty.
LEMMA InitRingHolds == Init => RingHolds
<1> SUFFICES ASSUME Init PROVE RingHolds
  OBVIOUS
<1>1. /\ \A a \in Addr : mem[a] = Ones \/ mem[a] = Zero
      /\ ptr = Start /\ pc = "idle" /\ clock = 0
  BY DEF Init, BufIs
<1>2. \A a \in Addr : mem[a].kind # "len" /\ (mem[a].kind = "tsc" => mem[a].val = 0)
  BY <1>1, Kinds
<1> QED BY <1>1, <1>2 DEF RingHolds, Dated, Single, Kept, Followed, Begins, Stamped

(***************************************************************************)
(* The reader and the writer                                               *)
(***************************************************************************)

\* A set of numbers has a smallest one.
LEMMA SmallestIn ==
    ASSUME NEW T \in SUBSET Nat, T # {}
    PROVE  \E x \in T : \A y \in T : x <= y
<1> DEFINE R == OpToRel(<, Nat)
<1>1. IsWellFoundedOn(R, Nat)
  BY NatLessThanWellFounded
<1>2. \A x, y \in Nat : <<y, x>> \in R <=> y < x
  BY DEF OpToRel
<1> HIDE DEF R
<1>3. PICK x \in T : \A y \in T : ~ (<<y, x>> \in R)
  BY <1>1, WFMin
<1>4. ASSUME NEW y \in T
      PROVE  x <= y
  <2>1. x \in Nat /\ y \in Nat
    OBVIOUS
  <2>2. ~ (<<y, x>> \in R)
    BY <1>3
  <2>3. ~ (y < x)
    BY <1>2, <2>1, <2>2
  <2> QED BY <2>1, <2>3
<1> QED BY <1>4

\* There is a longest message.
LEMMA LenMaxType == Id # {} => LenMax \in Nat /\ \A id \in Id : LenOf(id) <= LenMax
<1> SUFFICES ASSUME Id # {} PROVE LenMax \in Nat /\ \A id \in Id : LenOf(id) <= LenMax
  OBVIOUS
<1> DEFINE T == {TrailerSize - LenOf(id) : id \in Id}
<1>1. ASSUME NEW id \in Id
      PROVE  LenOf(id) \in Nat /\ TrailerSize \in Nat /\ TrailerSize - LenOf(id) \in Nat
  <2>1. LenOf(id) \in Nat /\ LenOf(id) + 1 <= TrailerSize /\ TrailerSize \in Nat
    BY LenOfType, LastType
  <2> QED BY <2>1
<1>2. PICK x \in T : \A y \in T : x <= y
  <2>1. T \in SUBSET Nat /\ T # {}
    BY <1>1
  <2> HIDE DEF T
  <2> QED BY <2>1, SmallestIn
<1>3. PICK m \in Id : x = TrailerSize - LenOf(m)
  BY <1>2
<1>4. \A id \in Id : LenOf(m) >= LenOf(id)
  <2>1. ASSUME NEW id \in Id
        PROVE  LenOf(m) >= LenOf(id)
    <3>1. TrailerSize - LenOf(m) <= TrailerSize - LenOf(id)
      BY <1>2, <1>3
    <3>2. LenOf(id) \in Nat /\ LenOf(m) \in Nat /\ TrailerSize \in Nat
      BY <1>1
    <3> QED BY <3>1, <3>2
  <2> QED BY <2>1
<1>5. \E n \in {LenOf(id) : id \in Id} : \A id \in Id : n >= LenOf(id)
  BY <1>4
<1>6. LenMax \in {LenOf(id) : id \in Id} /\ \A id \in Id : LenMax >= LenOf(id)
  BY <1>5 DEF LenMax
<1> QED BY <1>1, <1>6

\* The reader's part of the invariant.
ReaderInv ==
    /\ ReaderTypeOK /\ ReaderHolds /\ ReadsTrue /\ Printed
    /\ NoFalseLine /\ LinesInOrder

\* The reader looks at cells of the ring only.
LEMMA Cells ==
    ASSUME IInv, ReaderTypeOK
    PROVE  /\ cur \in Nat /\ Start <= cur /\ reg.id \in Id /\ reg.tsc \in Nat
           /\ reg.words \in Seq(Cell) /\ Len(reg.words) \in Nat
           /\ Words[reg.id] \in Nat /\ LenOf(reg.id) = 2 + Words[reg.id]
           /\ After \in Nat /\ After = cur + 3 + Words[reg.id]
           /\ cur < BufEnd => /\ cur + 1 \in Addr /\ cur + LenOf(reg.id) \in Addr /\ After \in Addr
                              /\ \A n \in Nat : n < Words[reg.id] => cur + 2 + n \in Addr
<1>1. /\ cur \in Nat /\ Start <= cur /\ reg.id \in Id /\ reg.tsc \in Nat
      /\ reg.words \in Seq(Cell) /\ Len(reg.words) \in Nat
  BY DEF ReaderTypeOK, Addr, Start
<1>2. /\ Words[reg.id] \in Nat /\ LenOf(reg.id) = 2 + Words[reg.id]
      /\ LenOf(reg.id) + 1 <= TrailerSize
  BY <1>1, LenOfType
<1>3. TrailerSize \in Nat /\ Last = BufEnd + TrailerSize - 1 /\ BufEnd \in Nat
  BY LastType, BufEndAssumption DEF Last
<1>4. After \in Nat /\ After = cur + 3 + Words[reg.id]
  <2>1. \A c, w \in Nat : c + (2 + w) + 1 \in Nat /\ c + (2 + w) + 1 = c + 3 + w
    OBVIOUS
  <2>2. After = cur + (2 + Words[reg.id]) + 1
    BY <1>2 DEF After
  <2> QED BY <1>1, <1>2, <2>1, <2>2
<1>5. ASSUME cur < BufEnd
      PROVE  /\ cur + 1 \in Addr /\ cur + LenOf(reg.id) \in Addr /\ After \in Addr
             /\ \A n \in Nat : n < Words[reg.id] => cur + 2 + n \in Addr
  <2>1. \A c, w, b, s \in Nat : c < b /\ 2 + w + 1 <= s =>
            /\ 1 <= c + 1 /\ c + 1 <= b + s - 1 /\ c + (2 + w) <= b + s - 1
            /\ c + 3 + w <= b + s - 1
            /\ \A n \in Nat : n < w => c + 2 + n <= b + s - 1
    OBVIOUS
  <2>2. /\ cur + 1 <= Last /\ cur + (2 + Words[reg.id]) <= Last /\ cur + 3 + Words[reg.id] <= Last
        /\ \A n \in Nat : n < Words[reg.id] => cur + 2 + n <= Last
    BY <1>1, <1>2, <1>3, <1>5, <2>1
  <2>3. \A x \in Nat : 1 <= x /\ x <= Last => x \in Addr
    BY LastType DEF Addr, Start
  <2>4. \A c, w \in Nat : /\ c + 1 \in Nat /\ 1 <= c + 1 /\ c + (2 + w) \in Nat /\ 1 <= c + (2 + w)
                          /\ 1 <= c + 3 + w /\ c + 2 + w \in Nat /\ 1 <= c + 2 + w
    OBVIOUS
  <2>5. cur + 1 \in Addr /\ cur + LenOf(reg.id) \in Addr /\ After \in Addr
    BY <1>1, <1>2, <1>4, <2>2, <2>3, <2>4
  <2>6. \A n \in Nat : n < Words[reg.id] => cur + 2 + n \in Addr
    BY <1>1, <2>2, <2>3, <2>4
  <2> QED BY <2>5, <2>6
<1> QED BY <1>1, <1>2, <1>4, <1>5

\* What is loaded from a cell, and what it says of the cell.
LEMMA Loads ==
    ASSUME IInv, RingHolds, NEW a \in Addr
    PROVE  /\ LoadTsc(a) \in Nat
           /\ mem[a] = Ones => LoadTsc(a) = AllOnes
           /\ Stamped(a) => /\ LoadTsc(a) = mem[a].val /\ mem[a] = Tsc(LoadTsc(a))
                            /\ LoadTsc(a) # 0 /\ LoadTsc(a) <= clock /\ a < BufEnd
           /\ 0 < LoadTsc(a) /\ LoadTsc(a) < AllOnes => Stamped(a)
           /\ AllOnes \in Nat /\ AllOnes > clock + 1
<1>1. MaxTsc \in Nat /\ AllOnes = MaxTsc + 2 /\ Garbage = MaxTsc + 3 /\ clock \in Nat /\ clock <= MaxTsc
  BY MaxTscAssumption, Writers DEF AllOnes, Garbage
<1>2. TypeOK /\ Dated /\ Single
  BY DEF IInv, RingHolds
<1>3. CASE mem[a].kind = "tsc"
  <2>1. LoadTsc(a) = mem[a].val /\ mem[a].val \in Nat /\ mem[a] = Tsc(mem[a].val) /\ mem[a] # Ones
    BY <1>2, <1>3, CellIs, Kinds DEF LoadTsc
  <2> QED BY <1>1, <1>2, <1>3, <2>1 DEF Stamped, Dated, Single
<1>4. CASE mem[a].kind = "ones"
  <2>1. LoadTsc(a) = AllOnes
    BY <1>4 DEF LoadTsc
  <2> QED BY <1>1, <1>4, <2>1 DEF Stamped
<1>5. CASE mem[a].kind \notin {"tsc", "ones"}
  <2>1. LoadTsc(a) = Garbage
    BY <1>5 DEF LoadTsc
  <2> QED BY <1>1, <1>5, <2>1, Kinds DEF Stamped
<1> QED BY <1>3, <1>4, <1>5

\* A load is a number.
LEMMA LoadType == ASSUME TypeOK, NEW a \in Addr PROVE LoadTsc(a) \in Nat
<1>1. MaxTsc + 2 \in Nat /\ MaxTsc + 3 \in Nat
  BY MaxTscAssumption
<1>2. mem[a].kind = "tsc" => mem[a].val \in Nat
  BY CellIs
<1> QED BY <1>1, <1>2 DEF LoadTsc, AllOnes, Garbage

\* What a timestamp to begin with tells, when the reader accepts it.
LEMMA Accepts ==
    ASSUME IInv, RingHolds, ReaderTypeOK, NextTsc > 0, NextTsc < curTsc
    PROVE  /\ mem[cur] = Tsc(NextTsc) /\ Stamped(cur) /\ cur < BufEnd
           /\ NextTsc \in Nat /\ NextTsc <= clock
<1>1. NextTsc = 0 \/ NextTsc = LoadTsc(cur)
  BY DEF NextTsc
<1>2. cur \in Addr /\ curTsc \in 0 .. AllOnes
  BY DEF ReaderTypeOK
<1>3. LoadTsc(cur) \in Nat /\ AllOnes \in Nat
  BY <1>2, Loads
<1>4. NextTsc = LoadTsc(cur) /\ 0 < LoadTsc(cur) /\ LoadTsc(cur) < AllOnes
  BY <1>1, <1>2, <1>3
<1> QED BY <1>2, <1>3, <1>4, Loads

\* A line printed.
OutLine == [tsc : Nat, ok : BOOLEAN, exact : BOOLEAN, data : BOOLEAN,
            touched : BOOLEAN, early : BOOLEAN]

LEMMA LineType ==
    ASSUME ReaderTypeOK, NEW i \in 1 .. Len(out)
    PROVE  out[i].tsc \in Nat
<1>1. out \in Seq(OutLine)
  BY DEF ReaderTypeOK, OutLine
<1>2. \A l \in OutLine : l.tsc \in Nat
  BY DEF OutLine
<1>3. out[i] \in OutLine
  BY <1>1
<1> QED BY <1>2, <1>3

\* What a new round needs to begin with: c is the count, q and t are where the
\* reader stands.
Round(c, q, t) ==
    /\ EndRound(c) /\ c \in Nat /\ next' \in Nat
    /\ cur' = q /\ lastTsc' = t /\ curTsc' = curTsc
    /\ \/ q = cur /\ t = lastTsc
       \/ q = Start /\ t = lastTsc /\ skipping
       \/ q = Start /\ t = lastTsc + 1 /\ cur # Start
    /\ skipping' \in BOOLEAN /\ (skipping' => skipping)
    /\ q < BufEnd

\* The histories of the reader stay what they are.
HistoryType == touched' \in BOOLEAN /\ early' \in BOOLEAN /\ misled' \in BOOLEAN

\* No line came out that passed the last check.
AddsNone ==
    /\ out' \in Seq(OutLine) /\ NoFalseLine' /\ LinesInOrder'
    /\ \A i \in 1 .. Len(out') : out'[i].ok => i \in 1 .. Len(out) /\ out'[i] = out[i]
    /\ skipping' => out' = <<>>

\* The end of a round in which the reader did not move past a message.
LEMMA RoundEnds ==
    ASSUME IInv, ReaderInv, NEW c, NEW q, NEW t, Round(c, q, t),
           UNCHANGED vars, HistoryType, out' = out \/ AddsNone
    PROVE  ReaderInv'
<1>a. AddsNone
  <2> SUFFICES ASSUME out' = out PROVE AddsNone
    OBVIOUS
  <2>1. out \in Seq(OutLine) /\ (skipping' => out = <<>>)
    BY DEF ReaderInv, ReaderTypeOK, OutLine, ReaderHolds, Round
  <2> QED BY <2>1 DEF AddsNone, ReaderInv, NoFalseLine, LinesInOrder
<1>0. /\ rpc' = "poll" /\ reg' = NoReg /\ corruption' = c /\ c \in Nat /\ next' \in Nat
      /\ cur' = q /\ lastTsc' = t /\ curTsc' = curTsc
      /\ mem' = mem /\ clock' = clock /\ q < BufEnd
      /\ clock \in Nat /\ lastTsc \in Nat /\ Start \in Addr
  <2>1. Start \in Addr
    BY LastType, BufEndAssumption DEF Addr, Start, Last
  <2>2. lastTsc \in Nat /\ clock \in Nat
    BY Writers DEF ReaderInv, ReaderTypeOK
  <2>3. mem' = mem /\ clock' = clock
    BY DEF vars, ringVars
  <2> QED BY <2>1, <2>2, <2>3 DEF Round, EndRound
<1>1. /\ q \in Addr /\ t \in Nat
      /\ \/ q = cur /\ t = lastTsc
         \/ q = Start /\ t = lastTsc /\ skipping
         \/ q = Start /\ t = lastTsc + 1 /\ cur # Start
      /\ skipping' \in BOOLEAN /\ (skipping' => skipping)
  BY <1>0 DEF Round, ReaderInv, ReaderTypeOK
<1>2. NoReg \in [tsc : Nat, id : Id, words : Seq(Cell)] /\ NoReg.words = <<>>
  <2>1. (CHOOSE id \in Id : TRUE) \in Id
    BY Writers DEF IInv, TypeOK
  <2> QED BY <2>1 DEF NoReg
<1>3. ReaderTypeOK'
  BY <1>a, <1>0, <1>1, <1>2 DEF ReaderInv, ReaderTypeOK, HistoryType, AddsNone, OutLine
<1>4. ReaderHolds'
  <2>1. ~ Reading' /\ rpc' # "start" /\ rpc' # "format" /\ (reg.words = <<>>)'
    BY <1>0, <1>2 DEF Reading
  <2>2. t <= clock \/ (t = clock + 1 /\ q = Start)
    BY <1>0, <1>1 DEF ReaderInv, ReaderHolds
  <2> QED BY <1>a, <1>0, <2>1, <2>2 DEF ReaderHolds, AddsNone
<1>5. ReadsTrue'
  BY <1>0 DEF ReadsTrue, Reading
<1>6. Printed'
  <2>1. ASSUME NEW i \in 1 .. Len(out), out[i].ok
        PROVE  0 < out[i].tsc /\ out[i].tsc <= t /\ (out[i].tsc = t => mem[q] # Tsc(t))
    <3>1. /\ out[i].tsc \in Nat /\ 0 < out[i].tsc /\ out[i].tsc <= lastTsc
          /\ out[i].tsc = lastTsc => mem[cur] # Tsc(lastTsc)
      BY <2>1, LineType DEF ReaderInv, Printed
    <3>2. CASE skipping
      BY <2>1, <3>2 DEF ReaderInv, ReaderHolds
    <3>3. CASE q = cur /\ t = lastTsc
      BY <3>1, <3>3
    <3>4. CASE q = Start /\ t = lastTsc + 1 /\ cur # Start
      BY <1>0, <3>1, <3>4
    <3> QED BY <1>1, <3>2, <3>3, <3>4
  <2> QED BY <1>a, <1>0, <2>1 DEF Printed, AddsNone
<1>7. NoFalseLine' /\ LinesInOrder'
  BY <1>a DEF AddsNone
<1> QED BY <1>3, <1>4, <1>5, <1>6, <1>7 DEF ReaderInv

\* The count stays a number.
LEMMA CountedType == ASSUME IInv, ReaderTypeOK PROVE Counted \in Nat
BY DEF ReaderTypeOK, Counted

\* A message that does not check.
LEMMA InvalidStep ==
    ASSUME IInv, ReaderInv, Invalid, UNCHANGED <<vars, out>>, HistoryType
    PROVE  ReaderInv'
<1>0. /\ cur \in Nat /\ Start <= cur /\ Start < BufEnd /\ BufEnd \in Nat /\ next \in Nat
      /\ corruption \in Nat /\ Counted \in Nat /\ skipping \in BOOLEAN
      /\ ~ skipping => cur < BufEnd
  BY Cells, CountedType, BufEndAssumption DEF ReaderInv, ReaderTypeOK, ReaderHolds, Start
<1>1. CASE skipping /\ skipping' = FALSE /\ EndRound(corruption)
           /\ cur' = (IF cur >= BufEnd THEN Start ELSE cur)
           /\ UNCHANGED <<lastTsc, next, curTsc>>
  <2>1. skipping' \in BOOLEAN /\ (skipping' => skipping)
    BY <1>1, Zenon
  <2>2. Round(corruption, cur', lastTsc)
    BY <1>0, <1>1, <2>1 DEF Round
  <2> QED BY <2>2, RoundEnds
<1>2. CASE ~ skipping /\ EndRound(Counted) /\ UNCHANGED <<cur, lastTsc, next, curTsc, skipping>>
  <2>1. Round(Counted, cur, lastTsc)
    BY <1>0, <1>2 DEF Round
  <2> QED BY <2>1, RoundEnds
<1>3. CASE ~ skipping /\ Reset
  <2>1. CASE cur = Start
    <3>1. Round(corruption, cur, lastTsc)
      BY <1>0, <1>3, <2>1 DEF Round, Reset
    <3> QED BY <3>1, RoundEnds
  <2>2. CASE cur # Start
    <3>1. Round(0, Start, lastTsc + 1)
      BY <1>0, <1>3, <2>2 DEF Round, Reset
    <3> QED BY <3>1, RoundEnds
  <2> QED BY <2>1, <2>2
<1> QED BY <1>1, <1>2, <1>3 DEF Invalid

\* A step of the reader changes nothing of the ring.
LEMMA Unmoved ==
    ASSUME ReaderTypeOK, UNCHANGED vars, Noted
    PROVE  /\ HistoryType /\ (rpc # "tsc" /\ ~ touched' => ~ touched)
           /\ rpc = "tsc" => ~ touched'
           /\ mem' = mem /\ clock' = clock /\ log' = log /\ ptr' = ptr /\ pc' = pc /\ msgStart' = msgStart
<1>1. touched' \in BOOLEAN /\ (rpc # "tsc" /\ ~ touched' => ~ touched) /\ (rpc = "tsc" => ~ touched')
  <2>1. touched \in BOOLEAN
    BY DEF ReaderTypeOK
  <2>2. touched' = (rpc # "tsc" /\ touched)
    BY DEF Noted
  <2> QED BY <2>1, <2>2, Zenon
<1>2. early' \in BOOLEAN
  <2>1. (KeepsUp /\ HalfStarted) \in BOOLEAN /\ (rpc # "tsc" /\ early) \in BOOLEAN
    OBVIOUS
  <2>2. early' = IF rpc = "id" THEN KeepsUp /\ HalfStarted ELSE rpc # "tsc" /\ early
    BY DEF Noted
  <2> QED BY <2>1, <2>2, Zenon
<1>3. misled' \in BOOLEAN
  <2>1. (misled \/ (early /\ Overshoots)) \in BOOLEAN
    OBVIOUS
  <2>2. misled' = (misled \/ (early /\ Overshoots))
    BY DEF Noted
  <2> QED BY <2>1, <2>2, Zenon
<1> QED BY <1>1, <1>2, <1>3 DEF HistoryType, vars, ringVars, histVars

\* The steps before a message is read.
LEMMA ApproachStep ==
    ASSUME IInv, ReaderInv, Open \/ Poll \/ Order,
           UNCHANGED vars, Noted
    PROVE  ReaderInv'
<1>0. /\ HistoryType /\ mem' = mem /\ clock' = clock
  BY Unmoved DEF ReaderInv
<1>1. /\ cur' = cur /\ lastTsc' = lastTsc /\ corruption' = corruption /\ skipping' = skipping
      /\ reg' = reg /\ out' = out /\ rpc' \in {"tsc", "poll", "order"} /\ rpc \in {"open", "poll", "order"}
  BY DEF Open, Poll, Order
<1>2. next' \in Nat /\ curTsc' \in 0 .. AllOnes
  <2>1. next \in Nat /\ curTsc \in 0 .. AllOnes
    BY DEF ReaderInv, ReaderTypeOK
  <2>2. AllOnes \in Nat /\ clock + 1 \in 0 .. AllOnes
    BY Writers, MaxTscAssumption DEF AllOnes
  <2>3. CASE Open
    BY <2>1, <2>2, <2>3 DEF Open
  <2>4. CASE Poll
    BY <2>1, <2>2, <2>4 DEF Poll
  <2>5. CASE Order
    <3>1. NextTsc \in Nat
      <4>1. cur \in Addr
        BY DEF ReaderInv, ReaderTypeOK
      <4>2. LoadTsc(cur) \in Nat
        BY <4>1, LoadType DEF IInv
      <4> QED BY <4>2 DEF NextTsc
    <3> QED BY <2>1, <2>5, <3>1 DEF Order
  <2> QED BY <2>3, <2>4, <2>5
<1>3. ReaderTypeOK'
  BY <1>0, <1>1, <1>2 DEF ReaderInv, ReaderTypeOK, HistoryType
<1>4. ReaderHolds'
  BY <1>0, <1>1 DEF ReaderInv, ReaderHolds, Reading
<1>5. ReadsTrue'
  BY <1>1 DEF ReadsTrue, Reading
<1>6. Printed' /\ NoFalseLine' /\ LinesInOrder'
  BY <1>0, <1>1 DEF ReaderInv, Printed, NoFalseLine, LinesInOrder
<1> QED BY <1>3, <1>4, <1>5, <1>6 DEF ReaderInv

\* The timestamp is one of a message that is in the ring only here.
LEMMA ReadTscStep ==
    ASSUME IInv, RingHolds, ReaderInv, ReadTsc,
           UNCHANGED vars, Noted
    PROVE  ReaderInv'
<1>0. /\ HistoryType /\ mem' = mem /\ clock' = clock /\ out' = out
      /\ rpc = "tsc" /\ ~ touched'
  BY Unmoved DEF ReaderInv, ReadTsc
<1>1. CASE Invalid
  BY <1>0, <1>1, InvalidStep
<1>2. CASE NextTsc = 0 /\ ~ skipping /\ EndRound(Counted)
           /\ UNCHANGED <<cur, lastTsc, next, curTsc, skipping>>
  <2>1. cur < BufEnd /\ next \in Nat /\ Counted \in Nat /\ ~ skipping' /\ skipping' \in BOOLEAN
    BY <1>2, CountedType DEF ReaderInv, ReaderHolds, ReaderTypeOK
  <2>2. Round(Counted, cur, lastTsc)
    BY <1>2, <2>1 DEF Round
  <2> QED BY <1>0, <2>2, RoundEnds
<1>3. ASSUME NEW t, t = NextTsc, t > 0, t >= lastTsc, t < curTsc,
             reg' = [NoReg EXCEPT !.tsc = t], rpc' = "id",
             UNCHANGED <<cur, lastTsc, corruption, next, curTsc, skipping>>
      PROVE  ReaderInv'
  <2>1. mem[cur] = Tsc(t) /\ Stamped(cur) /\ cur < BufEnd /\ t \in Nat /\ t <= clock
    BY <1>3, Accepts DEF ReaderInv
  <2>2. (CHOOSE id \in Id : TRUE) \in Id
    BY Writers DEF IInv, TypeOK
  <2>3. /\ reg' \in [tsc : Nat, id : Id, words : Seq(Cell)]
        /\ reg'.tsc = t /\ reg'.words = <<>> /\ Len(reg'.words) = 0
    <3> DEFINE any == CHOOSE id \in Id : TRUE
    <3>1. reg' = [tsc |-> t, id |-> any, words |-> <<>>]
      BY <1>3 DEF NoReg
    <3> HIDE DEF any
    <3>2. any \in Id
      BY <2>2 DEF any
    <3>3. reg' \in [tsc : Nat, id : Id, words : Seq(Cell)]
      BY <2>1, <3>1, <3>2
    <3> QED BY <3>1, <3>3
  <2>4. ReaderTypeOK'
    BY <1>0, <1>3, <2>3 DEF ReaderInv, ReaderTypeOK, HistoryType
  <2>5. ReaderHolds'
    <3>1. \A a \in Addr : mem'[a] = Tsc(t) => a = cur
      BY <1>0, <2>1 DEF RingHolds, Single, ReaderInv, ReaderTypeOK
    <3>2. ASSUME NEW i \in 1 .. Len(out), out[i].ok
          PROVE  out[i].tsc < t
      <4>1. out[i].tsc <= lastTsc /\ (out[i].tsc = lastTsc => mem[cur] # Tsc(lastTsc))
        BY <3>2 DEF ReaderInv, Printed
      <4>2. out[i].tsc \in Nat /\ lastTsc \in Nat
        BY LineType DEF ReaderInv, ReaderTypeOK
      <4> QED BY <1>3, <2>1, <4>1, <4>2
    <3> QED BY <1>0, <1>3, <2>1, <2>3, <3>1, <3>2 DEF ReaderInv, ReaderHolds, Reading
  <2>6. ReadsTrue'
    <3>1. (Words[reg.id])' \in Nat
      BY <2>3, WordsAssumption
    <3> QED BY <1>0, <1>3, <2>1, <2>3, <3>1 DEF ReadsTrue, Reading
  <2>7. Printed' /\ NoFalseLine' /\ LinesInOrder'
    BY <1>0, <1>3 DEF ReaderInv, Printed, NoFalseLine, LinesInOrder
  <2> QED BY <2>4, <2>5, <2>6, <2>7 DEF ReaderInv
<1> QED BY <1>0, <1>1, <1>2, <1>3 DEF ReadTsc

\* Behind a timestamp that is still there, nothing that was stored meanwhile is
\* taken for the id and the length.
LEMMA ReadIdStep ==
    ASSUME IInv, RingHolds, ReaderInv, ReadId,
           UNCHANGED vars, Noted
    PROVE  ReaderInv'
<1>0. /\ HistoryType /\ (~ touched' => ~ touched)
      /\ mem' = mem /\ clock' = clock /\ out' = out /\ rpc = "id"
  BY Unmoved DEF ReaderInv, ReadId
<1>1. CASE Invalid
  BY <1>0, <1>1, InvalidStep
<1>2. ASSUME NEW id, mem[cur + 1].kind = "id", id = mem[cur + 1].val,
             reg' = [reg EXCEPT !.id = id], rpc' = "len",
             UNCHANGED <<cur, lastTsc, corruption, next, curTsc, skipping>>
      PROVE  ReaderInv'
  <2>1. cur < BufEnd /\ reg.words = <<>> /\ cur + 1 \in Addr
    BY <1>0, Cells DEF ReaderInv, ReaderHolds, Reading
  <2>2. id \in Id /\ mem[cur + 1] = IdCell(id)
    BY <1>2, <2>1, CellIs DEF IInv
  <2>3. /\ reg' \in [tsc : Nat, id : Id, words : Seq(Cell)]
        /\ reg'.tsc = reg.tsc /\ reg'.words = <<>> /\ Len(reg'.words) = 0 /\ reg'.id = id
    BY <1>2, <2>1, <2>2 DEF ReaderInv, ReaderTypeOK
  <2>4. ReaderTypeOK'
    BY <1>0, <1>2, <2>3 DEF ReaderInv, ReaderTypeOK, HistoryType
  <2>5. ReaderHolds'
    BY <1>0, <1>2, <2>3 DEF ReaderInv, ReaderHolds, Reading
  <2>6. ReadsTrue'
    <3>1. (Words[reg.id])' \in Nat
      BY <2>3, WordsAssumption
    <3> QED BY <1>0, <1>2, <2>2, <2>3, <3>1 DEF ReaderInv, ReadsTrue, Reading
  <2>7. Printed' /\ NoFalseLine' /\ LinesInOrder'
    BY <1>0, <1>2 DEF ReaderInv, Printed, NoFalseLine, LinesInOrder
  <2> QED BY <2>4, <2>5, <2>6, <2>7 DEF ReaderInv
<1> QED BY <1>0, <1>1, <1>2 DEF ReadId

\* The length byte checked is that of the id read.
LEMMA ReadLenStep ==
    ASSUME IInv, RingHolds, ReaderInv, ReadLen,
           UNCHANGED vars, Noted
    PROVE  ReaderInv'
<1>0. /\ HistoryType /\ (~ touched' => ~ touched)
      /\ mem' = mem /\ clock' = clock /\ out' = out /\ rpc = "len"
  BY Unmoved DEF ReaderInv, ReadLen
<1>1. CASE Invalid
  BY <1>0, <1>1, InvalidStep
<1>2. CASE /\ mem[cur + LenOf(reg.id)] = LenCell(LenOf(reg.id)) /\ rpc' = "next"
           /\ UNCHANGED <<cur, lastTsc, corruption, next, curTsc, skipping, reg>>
  <2>1. ReaderTypeOK'
    BY <1>0, <1>2 DEF ReaderInv, ReaderTypeOK, HistoryType
  <2>2. ReaderHolds'
    BY <1>0, <1>2 DEF ReaderInv, ReaderHolds, Reading
  <2>3. ReadsTrue'
    BY <1>0, <1>2 DEF ReaderInv, ReadsTrue, Reading
  <2>4. Printed' /\ NoFalseLine' /\ LinesInOrder'
    BY <1>0, <1>2 DEF ReaderInv, Printed, NoFalseLine, LinesInOrder
  <2> QED BY <2>1, <2>2, <2>3, <2>4 DEF ReaderInv
<1> QED BY <1>0, <1>1, <1>2 DEF ReadLen

\* The reader goes on with a message only when it is complete.
LEMMA ValidStep ==
    ASSUME IInv, ReaderInv, Valid, UNCHANGED <<vars, out>>, rpc \in {"next", "start"},
           Noted, ~ touched => ~ Begun(cur)
    PROVE  ReaderInv'
<1>0. /\ HistoryType /\ (~ touched' => ~ touched)
      /\ mem' = mem /\ clock' = clock /\ out' = out
      /\ pc' = pc /\ msgStart' = msgStart
  BY Unmoved DEF ReaderInv
<1>1. /\ cur < BufEnd /\ reg.words = <<>> /\ After \in Addr /\ reg.tsc \in Nat /\ reg.tsc <= clock
      /\ cur \in Nat
  BY Cells DEF ReaderInv, ReaderHolds, Reading
<1>2. CASE skipping /\ Skip
  <2>1. /\ cur' = After /\ lastTsc' = reg.tsc /\ rpc' = "tsc" /\ reg' = NoReg
        /\ corruption' = corruption /\ next' = next /\ curTsc' = curTsc /\ skipping' = skipping
        /\ skipping /\ out = <<>>
    BY <1>2 DEF Skip, ReaderInv, ReaderHolds
  <2>2. NoReg \in [tsc : Nat, id : Id, words : Seq(Cell)] /\ NoReg.words = <<>>
    <3>1. (CHOOSE id \in Id : TRUE) \in Id
      BY Writers DEF IInv, TypeOK
    <3> QED BY <3>1 DEF NoReg
  <2>3. ReaderTypeOK'
    BY <1>0, <1>1, <2>1, <2>2 DEF ReaderInv, ReaderTypeOK, HistoryType
  <2>4. ReaderHolds'
    BY <1>0, <1>1, <2>1, <2>2 DEF ReaderInv, ReaderHolds, Reading
  <2>5. ReadsTrue'
    BY <2>1 DEF ReadsTrue, Reading
  <2>6. Printed' /\ NoFalseLine' /\ LinesInOrder'
    BY <1>0, <2>1 DEF ReaderInv, Printed, NoFalseLine, LinesInOrder
  <2> QED BY <2>3, <2>4, <2>5, <2>6 DEF ReaderInv
<1>3. CASE ~ skipping /\ rpc' = "format"
           /\ UNCHANGED <<cur, lastTsc, corruption, next, curTsc, skipping, reg>>
  <2>1. ReaderTypeOK'
    BY <1>0, <1>3 DEF ReaderInv, ReaderTypeOK, HistoryType
  <2>2. ReaderHolds'
    BY <1>0, <1>3 DEF ReaderInv, ReaderHolds, Reading
  <2>3. ReadsTrue'
    BY <1>0, <1>3 DEF ReaderInv, ReadsTrue, Reading, Begun
  <2>4. Printed' /\ NoFalseLine' /\ LinesInOrder'
    BY <1>0, <1>3 DEF ReaderInv, Printed, NoFalseLine, LinesInOrder
  <2> QED BY <2>1, <2>2, <2>3, <2>4 DEF ReaderInv
<1>4. CASE ~ skipping /\ next' = 0 /\ EndRound(Counted)
           /\ UNCHANGED <<cur, lastTsc, curTsc, skipping>>
  <2>1. Counted \in Nat /\ ~ skipping' /\ skipping' \in BOOLEAN
    BY <1>4, CountedType DEF ReaderInv, ReaderTypeOK
  <2>2. Round(Counted, cur, lastTsc)
    BY <1>1, <1>4, <2>1 DEF Round
  <2> QED BY <1>0, <2>2, RoundEnds
<1> QED BY <1>2, <1>3, <1>4 DEF Valid

\* A timestamp elsewhere in the ring is below the one of the message in progress.
LEMMA Older ==
    ASSUME IInv, RingHolds, NEW a \in Addr, NEW b \in Addr, Stamped(a), a # b,
           mem[b] = Tsc(clock), reg.tsc = clock
    PROVE  ~ NextFits(LoadTsc(a))
<1>1. /\ LoadTsc(a) \in Nat /\ mem[a] = Tsc(LoadTsc(a)) /\ LoadTsc(a) # 0 /\ LoadTsc(a) <= clock
      /\ clock \in Nat
  BY Loads, Writers
<1>2. LoadTsc(a) # clock
  BY <1>1 DEF RingHolds, Single
<1> QED BY <1>1, <1>2 DEF NextFits

\* Nor does the ones cell pass for a timestamp.
LEMMA OnesFail ==
    ASSUME IInv, RingHolds, NEW a \in Addr, mem[a] = Ones
    PROVE  ~ NextFits(LoadTsc(a)) /\ LoadTsc(a) # 0
<1>1. LoadTsc(a) = AllOnes /\ AllOnes \in Nat /\ AllOnes > clock + 1 /\ clock \in Nat
  BY Loads, Writers
<1> QED BY <1>1 DEF NextFits

\* A message in progress does not check: what follows its length byte, which is
\* a leftover, is older.
LEMMA Unfinished ==
    ASSUME IInv, RingHolds, ReaderInv, Begun(cur), cur < BufEnd, mem[cur] = Tsc(reg.tsc),
           mem[cur + LenOf(reg.id)] = LenCell(LenOf(reg.id))
    PROVE  /\ reg.tsc = clock /\ mem[cur] = Tsc(clock) /\ ptr # Start
           /\ ~ NextFits(LoadTsc(After)) /\ LoadTsc(After) # 0
<1>1. /\ mem[cur] = Tsc(reg.tsc) /\ mem[cur + LenOf(reg.id)] = LenCell(LenOf(reg.id))
      /\ cur < BufEnd
  OBVIOUS
<1>2. /\ cur \in Nat /\ cur \in Addr /\ cur + LenOf(reg.id) \in Addr /\ After \in Addr
      /\ LenOf(reg.id) \in Nat /\ After > cur /\ After = cur + LenOf(reg.id) + 1 /\ Start <= cur
  BY <1>1, Cells DEF ReaderInv, ReaderTypeOK, After
<1>3. pc \in {"id", "put"} /\ msgStart = cur
  BY DEF Begun
<1>4. mem[cur] = Tsc(clock) /\ ptr \in Nat /\ ptr > cur /\ mem[ptr - 1].kind # "len"
  BY <1>3, Writers
<1>5. reg.tsc = clock
  <2>1. Tsc(reg.tsc).val = Tsc(clock).val
    BY <1>1, <1>4
  <2> QED BY <2>1, Kinds
<1>6. mem[After] = Ones \/ Stamped(After)
  <2> DEFINE a == cur + LenOf(reg.id)
  <2>1. a \in Addr /\ mem[a].kind = "len" /\ a \in Nat /\ a + 1 = After
    BY <1>1, <1>2, Kinds
  <2>2. a + 1 # ptr
    BY <1>4, <2>1
  <2> HIDE DEF a
  <2> QED BY <2>1, <2>2 DEF RingHolds, Followed
<1>7. ~ NextFits(LoadTsc(After)) /\ LoadTsc(After) # 0
  <2>1. CASE mem[After] = Ones
    BY <1>2, <2>1, OnesFail
  <2>2. CASE Stamped(After)
    <3>1. ~ NextFits(LoadTsc(After))
      BY <1>2, <1>4, <1>5, <2>2, Older
    <3> QED BY <1>2, <2>2, <3>1, Loads
  <2> QED BY <1>6, <2>1, <2>2
<1> QED BY <1>2, <1>4, <1>5, <1>7 DEF Start

LEMMA InProgress ==
    ASSUME IInv, RingHolds, ReaderInv, ~ touched, Begun(cur), rpc \in {"next", "start"}
    PROVE  /\ reg.tsc = clock /\ mem[cur] = Tsc(clock) /\ ptr # Start
           /\ ~ NextFits(LoadTsc(After)) /\ LoadTsc(After) # 0
<1>1. /\ mem[cur] = Tsc(reg.tsc) /\ mem[cur + LenOf(reg.id)] = LenCell(LenOf(reg.id))
      /\ cur < BufEnd
  BY DEF ReaderInv, ReadsTrue, ReaderHolds, Reading
<1> QED BY <1>1, Unfinished

\* The next timestamp fits only behind a complete message.
LEMMA ReadNextStep ==
    ASSUME IInv, RingHolds, ReaderInv, ReadNext,
           UNCHANGED vars, Noted
    PROVE  ReaderInv'
<1>0. /\ HistoryType /\ (~ touched' => ~ touched)
      /\ mem' = mem /\ clock' = clock /\ out' = out /\ rpc = "next"
      /\ UNCHANGED <<vars, out>>
  BY Unmoved DEF ReaderInv, ReadNext
<1>1. CASE Invalid
  BY <1>0, <1>1, InvalidStep
<1>2. CASE Valid /\ (NextFits(LoadTsc(After)) \/ LoadTsc(After) = 0)
  <2>1. ~ touched => ~ Begun(cur)
    BY <1>0, <1>2, InProgress
  <2> QED BY <1>0, <1>2, <2>1, ValidStep
<1>3. CASE /\ After >= BufEnd /\ rpc' = "start"
           /\ UNCHANGED <<cur, lastTsc, corruption, next, curTsc, skipping, reg>>
  <2>1. ReaderTypeOK'
    BY <1>0, <1>3 DEF ReaderInv, ReaderTypeOK, HistoryType
  <2>2. ReaderHolds'
    BY <1>0, <1>3 DEF ReaderInv, ReaderHolds, Reading, After
  <2>3. ReadsTrue'
    BY <1>0, <1>3 DEF ReaderInv, ReadsTrue, Reading
  <2>4. Printed' /\ NoFalseLine' /\ LinesInOrder'
    BY <1>0, <1>3 DEF ReaderInv, Printed, NoFalseLine, LinesInOrder
  <2> QED BY <2>1, <2>2, <2>3, <2>4 DEF ReaderInv
<1> QED BY <1>1, <1>2, <1>3 DEF ReadNext

\* Nor does the message at the start when the writer turned round there.
LEMMA ReadStartStep ==
    ASSUME IInv, RingHolds, ReaderInv, MessageFits, ReadStart,
           UNCHANGED vars, Noted
    PROVE  ReaderInv'
<1>0. /\ HistoryType /\ (~ touched' => ~ touched) /\ out' = out /\ rpc = "start"
      /\ UNCHANGED <<vars, out>>
  BY Unmoved DEF ReaderInv, ReadStart
<1>1. CASE Invalid
  BY <1>0, <1>1, InvalidStep
<1>2. CASE Valid /\ NextFits(LoadTsc(Start))
  <2>1. ASSUME ~ touched, Begun(cur)
        PROVE  FALSE
    <3>1. reg.tsc = clock /\ mem[cur] = Tsc(clock) /\ ptr # Start
      BY <1>0, <2>1, InProgress
    <3>2. cur # Start /\ cur \in Addr /\ Start \in Addr
      <4>1. After >= BufEnd /\ After = cur + LenOf(reg.id) + 1 /\ reg.id \in Id /\ cur \in Addr
        BY <1>0, Cells DEF ReaderInv, ReaderHolds, ReaderTypeOK, After
      <4>2. Start + LenOf(reg.id) + 1 < BufEnd /\ LenOf(reg.id) \in Nat /\ BufEnd \in Nat
        BY <4>1, LenOfType, BufEndAssumption DEF MessageFits
      <4>3. Start \in Addr
        BY LastType, BufEndAssumption DEF Addr, Start, Last
      <4> QED BY <4>1, <4>2, <4>3 DEF Start
    <3>3. Stamped(Start)
      BY <3>1 DEF RingHolds, Begins
    <3> QED BY <1>2, <3>1, <3>2, <3>3, Older
  <2> QED BY <1>0, <1>2, <2>1, ValidStep
<1> QED BY <1>0, <1>1, <1>2 DEF ReadStart

\* The words read are those in the ring.
LEMMA FormatStep ==
    ASSUME IInv, RingHolds, ReaderInv, Format,
           UNCHANGED vars, Noted
    PROVE  ReaderInv'
<1>0. /\ HistoryType /\ (~ touched' => ~ touched)
      /\ mem' = mem /\ clock' = clock /\ out' = out /\ rpc = "format" /\ rpc' = "format"
      /\ pc' = pc /\ msgStart' = msgStart
      /\ UNCHANGED <<cur, lastTsc, corruption, next, curTsc, skipping>>
  BY Unmoved DEF ReaderInv, Format
<1>1. PICK c : c = mem[cur + 2 + Len(reg.words)]
  OBVIOUS
<1>2. /\ reg.words \in Seq(Cell) /\ Len(reg.words) \in Nat /\ Len(reg.words) < Words[reg.id]
      /\ cur \in Nat /\ c \in Cell /\ Words[reg.id] \in Nat
  <2>1. cur < BufEnd /\ Len(reg.words) < Words[reg.id]
    BY <1>0 DEF ReaderInv, ReaderHolds, Reading, Format
  <2>2. cur + 2 + Len(reg.words) \in Addr
    BY <2>1, Cells DEF ReaderInv
  <2> QED BY <1>1, <2>1, <2>2, Cells, CellIs DEF ReaderInv, IInv
<1>3. /\ reg' \in [tsc : Nat, id : Id, words : Seq(Cell)]
      /\ reg'.tsc = reg.tsc /\ reg'.id = reg.id /\ reg'.words = Append(reg.words, c)
  <2>1. reg' = [reg EXCEPT !.words = Append(reg.words, c)]
    BY <1>1 DEF Format
  <2>2. Append(reg.words, c) \in Seq(Cell)
    BY <1>2
  <2> QED BY <2>1, <2>2 DEF ReaderInv, ReaderTypeOK
<1>4. ReaderTypeOK'
  BY <1>0, <1>3 DEF ReaderInv, ReaderTypeOK, HistoryType
<1>5. ReaderHolds'
  BY <1>0, <1>3 DEF ReaderInv, ReaderHolds, Reading
<1>6. ReadsTrue'
  <2> SUFFICES ASSUME ~ touched' PROVE ReadsTrue'
    BY DEF ReadsTrue
  <2>1. /\ mem[cur] = Tsc(reg.tsc) /\ mem[cur + 1] = IdCell(reg.id)
        /\ mem[cur + LenOf(reg.id)] = LenCell(LenOf(reg.id)) /\ ~ Begun(cur)
        /\ \A w \in 1 .. Len(reg.words) : reg.words[w] = mem[cur + 1 + w]
    BY <1>0 DEF ReaderInv, ReadsTrue, Reading
  <2>2. ASSUME NEW w \in 1 .. Len(reg'.words)
        PROVE  reg'.words[w] = mem[cur + 1 + w]
    <3>1. CASE w \in 1 .. Len(reg.words)
      BY <1>2, <1>3, <2>1, <3>1
    <3>2. CASE w = Len(reg.words) + 1
      <4>1. reg'.words[w] = c
        BY <1>2, <1>3, <3>2
      <4>2. \A n \in Nat : cur + 2 + n = cur + 1 + (n + 1)
        BY <1>2
      <4>3. cur + 2 + Len(reg.words) = cur + 1 + w
        BY <1>2, <3>2, <4>2
      <4> QED BY <1>1, <4>1, <4>3
    <3> QED BY <1>2, <1>3, <3>1, <3>2
  <2>3. Len(reg'.words) <= Words[reg.id]
    BY <1>2, <1>3
  <2> QED BY <1>0, <1>3, <2>1, <2>2, <2>3 DEF ReadsTrue, Begun
<1>7. Printed' /\ NoFalseLine' /\ LinesInOrder'
  BY <1>0 DEF ReaderInv, Printed, NoFalseLine, LinesInOrder
<1> QED BY <1>4, <1>5, <1>6, <1>7 DEF ReaderInv

\* What was read of a complete message is what the program traced.
LEMMA WhatIsRead ==
    ASSUME IInv, RingHolds, ReaderInv, rpc = "format", Len(reg.words) = Words[reg.id], ~ touched
    PROVE  Says(reg.id)
<1>1. /\ mem[cur] = Tsc(reg.tsc) /\ mem[cur + 1] = IdCell(reg.id) /\ ~ Begun(cur)
      /\ \A w \in 1 .. Len(reg.words) : reg.words[w] = mem[cur + 1 + w]
      /\ reg.tsc > 0 /\ cur \in Addr
  BY DEF ReaderInv, ReadsTrue, ReaderHolds, ReaderTypeOK, Reading
<1>2. Stamped(cur) /\ mem[cur].val = reg.tsc /\ reg.tsc \in Nat
  BY <1>1, Kinds, Cells DEF Stamped, ReaderInv
<1>3. PICK i \in 1 .. Len(log) : log[i].at = cur /\ log[i].tsc = reg.tsc /\ Intact(log[i])
  BY <1>1, <1>2 DEF RingHolds, Kept
<1>4. log[i].id = reg.id
  <2>1. IdCell(log[i].id).val = IdCell(reg.id).val
    BY <1>1, <1>3 DEF Intact
  <2> QED BY <2>1, Kinds
<1>5. \A w \in 1 .. Words[reg.id] : reg.words[w] = Word(reg.tsc)
  BY <1>1, <1>3, <1>4 DEF Intact
<1>6. reg.words = [w \in 1 .. Words[reg.id] |-> Word(reg.tsc)]
  <2>1. reg.words \in Seq(Cell)
    BY Cells DEF ReaderInv
  <2>2. \A c : \A f \in Seq(Cell), n \in Nat :
            Len(f) = n /\ (\A w \in 1 .. n : f[w] = c) => f = [w \in 1 .. n |-> c]
    OBVIOUS
  <2>3. Words[reg.id] \in Nat
    BY Cells DEF ReaderInv
  <2> QED BY <1>5, <2>1, <2>2, <2>3
<1> QED BY <1>3, <1>4, <1>6 DEF Says

\* What the reader finds when it looks at the length again.
LengthFits == mem[cur + LenOf(reg.id)] = LenCell(LenOf(reg.id))

\* A line comes out after all lines that were fine.
LEMMA DumpedLine ==
    ASSUME IInv, RingHolds, ReaderInv, Dumped
    PROVE  \E l \in OutLine :
               /\ out' = Append(out, l)
               /\ l.tsc = reg.tsc /\ (l.ok <=> LengthFits)
               /\ l.ok /\ ~ l.touched => l.exact
               /\ (l.exact <=> Says(reg.id)) /\ (l.early <=> early)
               /\ (l.data <=> \E id \in Id : Says(id))
<1>1. reg.tsc \in Nat /\ touched \in BOOLEAN /\ early \in BOOLEAN
  BY Cells DEF ReaderInv, ReaderTypeOK
<1>2. PICK o, e, d \in BOOLEAN :
          (o <=> LengthFits) /\ (e <=> Says(reg.id)) /\ (d <=> \E id \in Id : Says(id))
  OBVIOUS
<1>3. o = LengthFits /\ e = Says(reg.id) /\ d = (\E id \in Id : Says(id))
  BY <1>2 DEF LengthFits, Says
<1>4. out' = Append(out, Line(LengthFits))
  BY DEF Dumped, LengthFits
<1>5. PICK l : l = [tsc |-> reg.tsc, ok |-> o, exact |-> e, data |-> d,
                    touched |-> touched, early |-> early]
  OBVIOUS
<1>6. out' = Append(out, l)
  BY <1>3, <1>4, <1>5, Zenon DEF Line
<1>7. /\ l \in OutLine /\ l.tsc = reg.tsc /\ l.ok = o /\ l.exact = e /\ l.touched = touched
      /\ l.data = d /\ l.early = early
  BY <1>1, <1>2, <1>5 DEF OutLine
<1>8. ~ touched => Says(reg.id)
  BY WhatIsRead DEF Dumped
<1>9. l.ok /\ ~ l.touched => l.exact
  BY <1>2, <1>7, <1>8, Zenon
<1>10. l.ok <=> LengthFits
  BY <1>2, <1>7, Zenon
<1>11. (l.exact <=> Says(reg.id)) /\ (l.data <=> \E id \in Id : Says(id))
  BY <1>2, <1>7, Zenon
<1>12. l.early <=> early
  BY <1>7, Zenon
<1> QED BY <1>6, <1>7, <1>9, <1>10, <1>11, <1>12, Zenon

\* The line added to those there were.
LEMMA LinesStep ==
    ASSUME IInv, ReaderInv, Reading, NEW l \in OutLine, out' = Append(out, l), l.tsc = reg.tsc,
           l.ok /\ ~ l.touched => l.exact
    PROVE  /\ out' \in Seq(OutLine) /\ NoFalseLine' /\ LinesInOrder'
           /\ \A i \in 1 .. Len(out') :
                 \/ i \in 1 .. Len(out) /\ out'[i] = out[i]
                 \/ i = Len(out) + 1 /\ out'[i] = l
<1>1. out \in Seq(OutLine) /\ Len(out) \in Nat
  BY DEF ReaderInv, ReaderTypeOK, OutLine
<1>2. out' \in Seq(OutLine) /\ Len(out') = Len(out) + 1
  BY <1>1
<1>3. \A i \in 1 .. Len(out') :
          \/ i \in 1 .. Len(out) /\ out'[i] = out[i]
          \/ i = Len(out) + 1 /\ out'[i] = l
  BY <1>1, <1>2
<1>4. NoFalseLine'
  BY <1>3 DEF ReaderInv, NoFalseLine
<1>5. LinesInOrder'
  <2>1. ASSUME NEW i \in 1 .. Len(out'), NEW j \in 1 .. Len(out'), i < j, out'[i].ok
        PROVE  out'[i].tsc < out'[j].tsc
    <3>1. i \in 1 .. Len(out) /\ out'[i] = out[i]
      BY <1>1, <1>2, <1>3, <2>1
    <3>2. CASE j \in 1 .. Len(out) /\ out'[j] = out[j]
      BY <2>1, <3>1, <3>2 DEF ReaderInv, LinesInOrder
    <3>3. CASE out'[j] = l
      BY <2>1, <3>1, <3>3 DEF ReaderInv, ReaderHolds
    <3> QED BY <1>3, <3>2, <3>3
  <2> QED BY <2>1 DEF LinesInOrder
<1> QED BY <1>2, <1>3, <1>4, <1>5

\* The reader moves on past a message that checked, and does not meet its
\* timestamp again.
LEMMA MovesOn ==
    ASSUME IInv, RingHolds, ReaderInv, MessageFits, Dumped, LengthFits,
           UNCHANGED vars, Noted
    PROVE  ReaderInv'
<1>0. /\ HistoryType /\ mem' = mem /\ clock' = clock /\ rpc = "format"
      /\ UNCHANGED <<curTsc, skipping>>
  BY Unmoved DEF ReaderInv, Dumped, LengthFits, Reset, EndRound
<1>1. /\ cur' = IF After >= BufEnd THEN Start ELSE After
      /\ lastTsc' = reg.tsc /\ next' = 0 /\ corruption' = 0 /\ rpc' = "poll" /\ reg' = NoReg
  BY DEF Dumped, LengthFits, EndRound
<1>2. PICK l \in OutLine : /\ out' = Append(out, l) /\ l.tsc = reg.tsc
                           /\ l.ok /\ ~ l.touched => l.exact
  BY DumpedLine
<1>3. Reading /\ ~ skipping
  BY <1>0 DEF Reading, ReaderInv, ReaderHolds
<1>4. /\ out' \in Seq(OutLine) /\ NoFalseLine' /\ LinesInOrder'
      /\ \A i \in 1 .. Len(out') :
             \/ i \in 1 .. Len(out) /\ out'[i] = out[i]
             \/ i = Len(out) + 1 /\ out'[i] = l
  BY <1>2, <1>3, LinesStep
<1>5. /\ cur' \in Addr /\ cur' # cur /\ cur' < BufEnd
      /\ reg.tsc \in Nat /\ reg.tsc > 0 /\ reg.tsc <= clock
  <2>1. /\ cur < BufEnd /\ After \in Addr /\ After \in Nat /\ After > cur /\ cur \in Nat
        /\ After = cur + LenOf(reg.id) + 1 /\ reg.id \in Id /\ LenOf(reg.id) \in Nat
        /\ reg.tsc \in Nat /\ reg.tsc > 0 /\ reg.tsc <= clock
    BY <1>3, Cells DEF ReaderInv, ReaderHolds, After
  <2>2. Start + LenOf(reg.id) + 1 < BufEnd
    BY <2>1 DEF MessageFits
  <2>3. Start \in Addr /\ Start < BufEnd /\ BufEnd \in Nat
    BY LastType, BufEndAssumption DEF Addr, Start, Last
  <2>4. CASE After >= BufEnd
    BY <1>1, <2>1, <2>2, <2>3, <2>4 DEF Start
  <2>5. CASE ~ (After >= BufEnd)
    BY <1>1, <2>1, <2>3, <2>5
  <2> QED BY <2>4, <2>5
<1>6. ReaderTypeOK'
  <2>1. NoReg \in [tsc : Nat, id : Id, words : Seq(Cell)]
    <3>1. (CHOOSE id \in Id : TRUE) \in Id
      BY Writers DEF IInv, TypeOK
    <3> QED BY <3>1 DEF NoReg
  <2> QED BY <1>0, <1>1, <1>4, <1>5, <2>1 DEF ReaderInv, ReaderTypeOK, HistoryType, OutLine
<1>7. ReaderHolds'
  <2>1. NoReg.words = <<>> /\ ~ skipping'
    BY <1>0, <1>3 DEF NoReg
  <2> QED BY <1>0, <1>1, <1>5, <2>1 DEF ReaderHolds, Reading
<1>8. ReadsTrue'
  BY <1>1 DEF ReadsTrue, Reading
<1>9. Printed'
  <2>1. mem'[cur'] # Tsc(lastTsc')
    BY <1>0, <1>1, <1>3, <1>5 DEF ReaderInv, ReaderHolds
  <2>2. ASSUME NEW i \in 1 .. Len(out'), out'[i].ok
        PROVE  0 < out'[i].tsc /\ out'[i].tsc <= lastTsc'
    <3>1. CASE i \in 1 .. Len(out) /\ out'[i] = out[i]
      <4>1. 0 < out[i].tsc /\ out[i].tsc < reg.tsc /\ out[i].tsc \in Nat
        BY <1>3, <2>2, <3>1, LineType DEF ReaderInv, ReaderHolds, Printed
      <4> QED BY <1>1, <1>5, <3>1, <4>1
    <3>2. CASE out'[i] = l
      BY <1>1, <1>2, <1>5, <3>2
    <3> QED BY <1>4, <3>1, <3>2
  <2> QED BY <2>1, <2>2 DEF Printed
<1> QED BY <1>4, <1>6, <1>7, <1>8, <1>9 DEF ReaderInv

\* The line is out and the message has gone meanwhile: the line does not count.
LEMMA Loses ==
    ASSUME IInv, RingHolds, ReaderInv, Dumped, ~ LengthFits,
           UNCHANGED vars, Noted
    PROVE  ReaderInv'
<1>0. HistoryType /\ rpc = "format" /\ Reset
  BY Unmoved DEF ReaderInv, Dumped, LengthFits
<1>1. Reading /\ ~ skipping /\ cur < BufEnd
  BY <1>0 DEF Reading, ReaderInv, ReaderHolds
<1>2. PICK l \in OutLine : /\ out' = Append(out, l) /\ l.tsc = reg.tsc
                           /\ l.ok /\ ~ l.touched => l.exact
                           /\ ~ l.ok
  BY DumpedLine
<1>3. ~ skipping' /\ skipping' \in BOOLEAN /\ curTsc' = curTsc /\ next' = 0
  BY <1>0, <1>1 DEF Reset, ReaderInv, ReaderTypeOK
<1>4. AddsNone
  <2>1. /\ out' \in Seq(OutLine) /\ NoFalseLine' /\ LinesInOrder'
        /\ \A i \in 1 .. Len(out') :
               \/ i \in 1 .. Len(out) /\ out'[i] = out[i]
               \/ i = Len(out) + 1 /\ out'[i] = l
    BY <1>1, <1>2, LinesStep
  <2> QED BY <1>2, <1>3, <2>1 DEF AddsNone
<1>5. CASE cur = Start
  <2>1. Round(corruption, cur, lastTsc)
    BY <1>0, <1>1, <1>3, <1>5 DEF Round, Reset, ReaderInv, ReaderTypeOK
  <2> QED BY <1>0, <1>4, <2>1, RoundEnds
<1>6. CASE cur # Start
  <2>1. Round(0, Start, lastTsc + 1)
    BY <1>0, <1>3, <1>6, BufEndAssumption DEF Round, Reset, Start
  <2> QED BY <1>0, <1>4, <2>1, RoundEnds
<1> QED BY <1>5, <1>6

\* Every step of the reader.
LEMMA ReaderStep ==
    ASSUME IInv, RingHolds, ReaderInv, MessageFits, ReaderNext
    PROVE  ReaderInv'
<1>1. UNCHANGED vars /\ Noted
  BY DEF ReaderNext
<1>2. CASE Open \/ Poll \/ Order
  BY <1>1, <1>2, ApproachStep
<1>3. CASE ReadTsc
  BY <1>1, <1>3, ReadTscStep
<1>4. CASE ReadId
  BY <1>1, <1>4, ReadIdStep
<1>5. CASE ReadLen
  BY <1>1, <1>5, ReadLenStep
<1>6. CASE ReadNext
  BY <1>1, <1>6, ReadNextStep
<1>7. CASE ReadStart
  BY <1>1, <1>7, ReadStartStep
<1>8. CASE Format
  BY <1>1, <1>8, FormatStep
<1>9. CASE Dumped
  BY <1>1, <1>9, MovesOn, Loses
<1> QED BY <1>2, <1>3, <1>4, <1>5, <1>6, <1>7, <1>8, <1>9 DEF ReaderNext, Reader

(***************************************************************************)
(* The steps of the writer                                                 *)
(***************************************************************************)

\* The cells looked at are among those whose change is noted.
LEMMA SlotCells ==
    ASSUME IInv, ReaderInv, Reading
    PROVE  /\ cur \in Addr \cap Slot
           /\ rpc # "id" => /\ cur + 1 \in Addr \cap Slot
                            /\ cur + LenOf(reg.id) \in Addr \cap Slot
                            /\ \A w \in 1 .. Words[reg.id] : cur + 1 + w \in Addr \cap Slot
<1>1. /\ cur \in Nat /\ cur \in Addr /\ Words[reg.id] \in Nat /\ LenOf(reg.id) = 2 + Words[reg.id]
      /\ cur + 1 \in Addr /\ cur + LenOf(reg.id) \in Addr
      /\ \A n \in Nat : n < Words[reg.id] => cur + 2 + n \in Addr
  BY Cells DEF ReaderInv, ReaderHolds, ReaderTypeOK
<1>2. LenMax \in Nat
  BY LenMaxType, Writers DEF IInv, TypeOK
<1>3. cur \in Slot
  BY <1>1, <1>2 DEF Slot
<1>4. ASSUME rpc # "id"
      PROVE  /\ cur + 1 \in Slot /\ cur + LenOf(reg.id) \in Slot
             /\ \A w \in 1 .. Words[reg.id] : cur + 1 + w \in Addr \cap Slot
  <2>1. Slot = cur .. cur + 2 + Words[reg.id]
    BY <1>1, <1>4 DEF Slot
  <2>2. ASSUME NEW w \in 1 .. Words[reg.id]
        PROVE  cur + 1 + w \in Addr
    <3>1. w - 1 \in Nat /\ w - 1 < Words[reg.id] /\ cur + 2 + (w - 1) = cur + 1 + w
      BY <1>1
    <3> QED BY <1>1, <3>1
  <2> QED BY <1>1, <2>1, <2>2
<1> QED BY <1>1, <1>3, <1>4

\* What the writer stores is not taken for the timestamp being read.
LEMMA WriterKeeps ==
    ASSUME IInv, RingHolds, ReaderInv, WriterNext
    PROVE  ReaderInv'
<1>0. /\ UNCHANGED <<cur, lastTsc, corruption, next, curTsc, rpc, skipping, reg, out>>
      /\ touched' = (touched \/ \E a \in Addr \cap Slot : mem'[a] # mem[a])
      /\ early' = early /\ misled' = misled
      /\ Next
  BY DEF WriterNext, WriterStep, readVars
<1>1. /\ clock \in Nat /\ clock' \in Nat /\ clock' >= clock
      /\ \A a \in Addr : LeavesAt(a) \/ StampsAt(a) \/ WritesAt(a)
      /\ \A a \in Addr : Begun(a)' => Begun(a) \/ StampsAt(a)
      /\ \A i \in 1 .. Len(log) : i \in 1 .. Len(log') /\ log'[i] = log[i]
  BY <1>0, Effects, Writers DEF RingHolds
<1>2. HistoryType /\ (~ touched' => ~ touched /\ \A a \in Addr \cap Slot : mem'[a] = mem[a])
  <2>1. touched \in BOOLEAN /\ early \in BOOLEAN /\ misled \in BOOLEAN
    BY DEF ReaderInv, ReaderTypeOK
  <2>2. (touched \/ \E a \in Addr \cap Slot : mem'[a] # mem[a]) \in BOOLEAN
    BY <2>1
  <2>3. ~ (touched \/ \E a \in Addr \cap Slot : mem'[a] # mem[a])
           => ~ touched /\ \A a \in Addr \cap Slot : mem'[a] = mem[a]
    OBVIOUS
  <2> QED BY <1>0, <2>1, <2>2, <2>3, Zenon DEF HistoryType
<1>3. cur \in Addr /\ lastTsc \in Nat /\ reg.tsc \in Nat
  BY Cells DEF ReaderInv, ReaderTypeOK
<1>4. ReaderTypeOK'
  BY <1>0, <1>2 DEF ReaderInv, ReaderTypeOK, HistoryType
<1>5. ReaderHolds'
  <2>1. lastTsc <= clock' \/ (lastTsc = clock' + 1 /\ cur = Start)
    <3>1. lastTsc <= clock \/ (lastTsc = clock + 1 /\ cur = Start)
      BY DEF ReaderInv, ReaderHolds
    <3>2. \A x, y, z \in Nat : z >= y /\ (x <= y \/ x = y + 1) => x <= z \/ (z = y /\ x = z + 1)
      OBVIOUS
    <3> QED BY <1>1, <1>3, <3>1, <3>2
  <2>2. ASSUME Reading, NEW a \in Addr, mem'[a] = Tsc(reg.tsc)
        PROVE  a = cur
    <3>1. reg.tsc > 0 /\ reg.tsc <= clock /\ mem'[a].kind = "tsc" /\ mem'[a].val = reg.tsc
      BY <2>2, Kinds DEF ReaderInv, ReaderHolds
    <3>2. CASE LeavesAt(a)
      BY <2>2, <3>2 DEF LeavesAt, ReaderInv, ReaderHolds
    <3>3. CASE StampsAt(a)
      <4>1. mem'[a].val = clock + 2
        BY <3>3, Kinds DEF StampsAt
      <4> QED BY <1>1, <1>3, <3>1, <4>1
    <3>4. CASE WritesAt(a)
      BY <1>3, <3>1, <3>4 DEF WritesAt
    <3> QED BY <1>1, <3>2, <3>3, <3>4
  <2>3. Reading => reg.tsc <= clock'
    BY <1>1, <1>3 DEF ReaderInv, ReaderHolds
  <2> QED BY <1>0, <2>1, <2>2, <2>3 DEF ReaderInv, ReaderHolds, Reading, After
<1>6. ReadsTrue'
  <2> SUFFICES ASSUME Reading, ~ touched' PROVE ReadsTrue'
    BY <1>0 DEF ReadsTrue, Reading
  <2>1. /\ mem'[cur] = mem[cur] /\ ~ touched
        /\ rpc # "id" => /\ mem'[cur + 1] = mem[cur + 1]
                         /\ mem'[cur + LenOf(reg.id)] = mem[cur + LenOf(reg.id)]
                         /\ \A w \in 1 .. Words[reg.id] : mem'[cur + 1 + w] = mem[cur + 1 + w]
    BY <1>2, SlotCells
  <2>2. mem[cur] = Tsc(reg.tsc) /\ reg.tsc <= clock /\ Len(reg.words) <= Words[reg.id]
        /\ (rpc = "id" => Len(reg.words) = 0) /\ Len(reg.words) \in Nat /\ Words[reg.id] \in Nat
    BY <2>1, Cells DEF ReaderInv, ReadsTrue, ReaderHolds
  <2>3. ~ Begun(cur) => ~ (pc' \in {"id", "put"} /\ msgStart' = cur)
    <3>1. ~ StampsAt(cur)
      <4>1. ASSUME mem'[cur] = Tsc(clock + 2)
            PROVE  FALSE
        <5>1. Tsc(reg.tsc).val = Tsc(clock + 2).val
          BY <2>1, <2>2, <4>1
        <5> QED BY <1>1, <1>3, <2>2, <5>1, Kinds
      <4> QED BY <4>1 DEF StampsAt
    <3>2. \A a \in Addr : pc' \in {"id", "put"} /\ msgStart' = a => Begun(a) \/ StampsAt(a)
      BY <1>1 DEF Begun
    <3> QED BY <1>3, <3>1, <3>2
  <2>4. \A w \in 1 .. Len(reg.words) : reg.words[w] = mem'[cur + 1 + w]
    BY <2>1, <2>2 DEF ReaderInv, ReadsTrue
  <2> QED BY <1>0, <2>1, <2>2, <2>3, <2>4 DEF ReaderInv, ReadsTrue, Reading, Begun
<1>7. Printed'
  <2>1. ASSUME NEW i \in 1 .. Len(out), out[i].ok, out[i].tsc = lastTsc, mem'[cur] = Tsc(lastTsc)
        PROVE  FALSE
    <3>1. 0 < lastTsc /\ mem[cur] # Tsc(lastTsc) /\ lastTsc <= clock + 1
      BY <1>1, <1>3, <2>1 DEF ReaderInv, Printed, ReaderHolds
    <3>2. mem'[cur].kind = "tsc" /\ mem'[cur].val = lastTsc
      BY <2>1, Kinds
    <3>3. CASE StampsAt(cur)
      <4>1. mem'[cur].val = clock + 2
        BY <3>3, Kinds DEF StampsAt
      <4> QED BY <1>1, <1>3, <3>1, <3>2, <4>1
    <3> QED BY <1>1, <1>3, <2>1, <3>1, <3>2, <3>3 DEF LeavesAt, WritesAt
  <2> QED BY <1>0, <2>1 DEF ReaderInv, Printed
<1>8. NoFalseLine' /\ LinesInOrder'
  BY <1>0 DEF ReaderInv, NoFalseLine, LinesInOrder
<1> QED BY <1>4, <1>5, <1>6, <1>7, <1>8 DEF ReaderInv

(***************************************************************************)
(* The theorems                                                            *)
(***************************************************************************)

\* At the start the reader has read nothing.
LEMMA InitTailIInv == TailInit => TailIInv
<1> SUFFICES ASSUME TailInit PROVE TailIInv
  OBVIOUS
<1>1. IInv /\ RingHolds
  BY InitIInv, InitRingHolds DEF TailInit
<1>2. /\ cur = Start /\ lastTsc = 0 /\ corruption = 0 /\ next = 0 /\ curTsc = 0
      /\ rpc = "open" /\ skipping = TRUE /\ reg = NoReg /\ out = <<>> /\ touched = FALSE
      /\ early = FALSE /\ misled = FALSE
  BY DEF TailInit
<1>3. Start \in Addr /\ Start < BufEnd /\ clock \in Nat /\ 0 \in 0 .. AllOnes
  <2>1. Start \in Addr /\ Start < BufEnd
    BY LastType, BufEndAssumption DEF Addr, Start, Last
  <2>2. AllOnes \in Nat
    BY MaxTscAssumption DEF AllOnes
  <2> QED BY <1>1, <2>1, <2>2, Writers
<1>4. NoReg \in [tsc : Nat, id : Id, words : Seq(Cell)] /\ NoReg.words = <<>>
  <2>1. (CHOOSE id \in Id : TRUE) \in Id
    BY <1>1, Writers DEF IInv, TypeOK
  <2> QED BY <2>1 DEF NoReg
<1>5. ReaderTypeOK
  <2>1. skipping \in BOOLEAN /\ touched \in BOOLEAN /\ early \in BOOLEAN /\ misled \in BOOLEAN
    BY <1>2, Zenon
  <2>2. out \in Seq(OutLine)
    BY <1>2
  <2> QED BY <1>2, <1>3, <1>4, <2>1, <2>2 DEF ReaderTypeOK, OutLine
<1>6. ReaderHolds
  BY <1>2, <1>3, <1>4 DEF ReaderHolds, Reading
<1>7. ReadsTrue
  BY <1>2 DEF ReadsTrue, Reading
<1>8. Printed /\ NoFalseLine /\ LinesInOrder
  BY <1>2 DEF Printed, NoFalseLine, LinesInOrder
<1> QED BY <1>1, <1>5, <1>6, <1>7, <1>8 DEF TailIInv

\* Every step of either process.
LEMMA TailNextTailIInv ==
    ASSUME MessageFits, TailIInv, [TailNext]_tailVars
    PROVE  TailIInv'
<1>0. IInv /\ RingHolds /\ ReaderInv
  BY DEF TailIInv, ReaderInv
<1>1. CASE WriterNext
  <2>1. Next
    BY <1>1 DEF WriterNext, WriterStep
  <2>2. IInv' /\ RingHolds'
    BY <1>0, <2>1, RingHoldsStep
  <2>3. ReaderInv'
    BY <1>0, <1>1, WriterKeeps
  <2> QED BY <2>2, <2>3 DEF TailIInv, ReaderInv
<1>2. CASE ReaderNext
  <2>1. ReaderInv'
    BY <1>0, <1>2, ReaderStep
  <2>2. IInv' /\ RingHolds'
    <3>1. UNCHANGED vars
      BY <1>2 DEF ReaderNext
    <3>2. IInv'
      BY <1>0, <3>1, NextIInv
    <3>3. RingHolds'
      BY <1>0, <3>1, Rests
    <3> QED BY <3>2, <3>3
  <2> QED BY <2>1, <2>2 DEF TailIInv, ReaderInv
<1>3. CASE UNCHANGED tailVars
  <2>1. /\ UNCHANGED vars /\ UNCHANGED readVars
        /\ out' = out /\ touched' = touched /\ early' = early /\ misled' = misled
    BY <1>3 DEF tailVars
  <2>2. IInv' /\ RingHolds'
    BY <1>0, <2>1, NextIInv, Rests
  <2>3. ReaderTypeOK'
    BY <1>0, <2>1 DEF ReaderInv, ReaderTypeOK, readVars
  <2>4. ReaderHolds'
    BY <1>0, <2>1 DEF ReaderInv, ReaderHolds, readVars, vars, ringVars, Reading, After
  <2>5. ReadsTrue'
    BY <1>0, <2>1 DEF ReaderInv, ReadsTrue, readVars, vars, ringVars, Reading, Begun
  <2>6. Printed' /\ NoFalseLine' /\ LinesInOrder'
    BY <1>0, <2>1 DEF ReaderInv, Printed, NoFalseLine, LinesInOrder, readVars, vars, ringVars
  <2> QED BY <2>2, <2>3, <2>4, <2>5, <2>6 DEF TailIInv
<1> QED BY <1>1, <1>2, <1>3 DEF TailNext

\* In every state of program and reader together the reader relies on what is
\* so: what it read is what the ring holds unless it was overwritten meanwhile,
\* and no timestamp of a message being written passes its checks.
THEOREM TailInvariance == ASSUME MessageFits PROVE TailSpec => []TailIInv
<1>1. TailInit => TailIInv
  BY InitTailIInv
<1>2. TailIInv /\ [TailNext]_tailVars => TailIInv'
  BY TailNextTailIInv
<1> QED BY <1>1, <1>2, PTL DEF TailSpec

\* Whatever the program overwrites while qttail reads, a line that passes the
\* last check and into whose message nothing was stored since its timestamp was
\* loaded is what the program traced, for rings and messages of every size.
THEOREM NoFalseLineHolds == ASSUME MessageFits PROVE TailSpec => []NoFalseLine
<1>1. TailIInv => NoFalseLine
  BY DEF TailIInv
<1> QED BY <1>1, TailInvariance, PTL

\* qttail prints in the order in which the program traced, and nothing twice,
\* also after it began again at the start of the ring.
THEOREM LinesInOrderHold == ASSUME MessageFits PROVE TailSpec => []LinesInOrder
<1>1. TailIInv => LinesInOrder
  BY DEF TailIInv
<1> QED BY <1>1, TailInvariance, PTL

(***************************************************************************)
(* A reader that keeps up                                                  *)
(***************************************************************************)

\* What the log says of a message.
LEMMA MsgIs ==
    ASSUME IInv, NEW i \in 1 .. Len(log)
    PROVE  /\ log[i] \in Msg /\ log[i].at \in Nat /\ log[i].at \in Addr /\ log[i].at >= Start
           /\ log[i].at < BufEnd
           /\ log[i].id \in Id /\ LenOf(log[i].id) \in Nat /\ LenOf(log[i].id) >= 2
           /\ log[i].tsc \in Nat /\ log[i].tsc <= clock
           /\ EndOf(log[i]) = log[i].at + LenOf(log[i].id) + 1 /\ EndOf(log[i]) \in Nat
           /\ EndOf(log[i]) \in Addr
           /\ LenMax \in Nat /\ LenOf(log[i].id) <= LenMax
<1>1. log[i] \in Msg /\ log[i].at < BufEnd /\ log[i].tsc <= clock
  BY Writers
<1>2. /\ log[i].at \in Addr /\ log[i].at \in Nat /\ log[i].at >= Start /\ log[i].id \in Id
      /\ log[i].tsc \in Nat
  BY <1>1 DEF Msg, Addr, Start
<1>3. LenOf(log[i].id) \in Nat /\ LenOf(log[i].id) >= 2
  BY <1>2, LenOfType
<1>4. LenMax \in Nat /\ LenOf(log[i].id) <= LenMax
  BY <1>2, LenMaxType
<1>5. EndOf(log[i]) = log[i].at + LenOf(log[i].id) + 1 /\ EndOf(log[i]) \in Nat
  BY <1>2, <1>3 DEF EndOf
<1>6. EndOf(log[i]) \in Addr
  <2>1. PICK m \in Msg : m = log[i] /\ m.at < BufEnd
    BY <1>1
  <2>2. EndOf(m) \in Addr
    BY <2>1, EndOfType
  <2> QED BY <2>1, <2>2
<1> QED BY <1>1, <1>2, <1>3, <1>4, <1>5, <1>6

\* Where the messages of the present and of the former lap lie.
LEMMA LapsAre ==
    ASSUME IInv, lapFrom > 0 => prevFrom < lapFrom
    PROVE  /\ Len(log) \in Nat /\ lapFrom \in Nat /\ lapFrom <= Len(log)
           /\ prevFrom \in Nat /\ prevFrom <= lapFrom
           /\ lapFrom > 0 => prevFrom < lapFrom
           /\ \A i \in 1 .. Len(log) : i > lapFrom => Intact(log[i]) /\ EndOf(log[i]) <= LapEnd
           /\ \A i \in 1 .. Len(log) :
                  i > prevFrom /\ i <= lapFrom /\ log[i].at > ptr => Intact(log[i])
           /\ \A i \in 1 .. Len(log) : i > prevFrom + 1 /\ i # lapFrom + 1 =>
                  i - 1 \in 1 .. Len(log) /\ log[i].at = EndOf(log[i - 1])
           /\ lapFrom < Len(log) => log[lapFrom + 1].at = Start
           /\ lapFrom > 0 => /\ log[prevFrom + 1].at = Start
                             /\ EndOf(log[lapFrom]) = tailPtr /\ tailPtr >= BufEnd
                             /\ tailPtr \in Addr /\ tailPtr \in Nat
                             /\ tailPtr > ptr => mem[tailPtr] = Ones
           /\ LapEnd = IF lapFrom = Len(log) THEN Start ELSE EndOf(log[Len(log)])
<1>1. /\ Len(log) \in Nat /\ lapFrom \in Nat /\ lapFrom <= Len(log)
      /\ prevFrom \in Nat /\ prevFrom <= lapFrom
  BY Writers DEF IInv, TypeOK
<1>2. LapReadable /\ OldLapReadable /\ Laid /\ Delimited /\ TypeOK
  BY DEF IInv
<1>3. lapFrom > 0 => prevFrom < lapFrom
  OBVIOUS
<1>4. ASSUME NEW i \in 1 .. Len(log), i > lapFrom
      PROVE  Intact(log[i]) /\ EndOf(log[i]) <= LapEnd
  <2>1. i \in lapFrom + 1 .. Len(log)
    BY <1>1, <1>4
  <2> QED BY <1>2, <2>1 DEF LapReadable, Laid
<1>5. ASSUME NEW i \in 1 .. Len(log), i > prevFrom, i <= lapFrom, log[i].at > ptr
      PROVE  Intact(log[i])
  <2>1. i \in prevFrom + 1 .. lapFrom
    BY <1>1, <1>5
  <2> QED BY <1>2, <1>5, <2>1 DEF OldLapReadable
<1>6. ASSUME NEW i \in 1 .. Len(log), i > prevFrom + 1, i # lapFrom + 1
      PROVE  i - 1 \in 1 .. Len(log) /\ log[i].at = EndOf(log[i - 1])
  <2>1. i - 1 \in 1 .. Len(log) /\ i # prevFrom + 1
    BY <1>1, <1>6
  <2>2. CASE i <= lapFrom
    <3>1. i \in prevFrom + 1 .. lapFrom
      BY <1>1, <1>6, <2>2
    <3> QED BY <1>2, <2>1, <3>1 DEF OldLapReadable
  <2>3. CASE i > lapFrom
    <3>1. i \in lapFrom + 1 .. Len(log)
      BY <1>1, <1>6, <2>3
    <3> QED BY <1>2, <1>6, <2>1, <3>1 DEF LapReadable
  <2> QED BY <1>1, <2>2, <2>3
<1>7. ASSUME lapFrom < Len(log)
      PROVE  log[lapFrom + 1].at = Start
  <2>1. lapFrom + 1 \in lapFrom + 1 .. Len(log)
    BY <1>1, <1>7
  <2> QED BY <1>2, <2>1 DEF LapReadable
<1>8. ASSUME lapFrom > 0
      PROVE  /\ log[prevFrom + 1].at = Start
             /\ EndOf(log[lapFrom]) = tailPtr /\ tailPtr >= BufEnd
             /\ tailPtr \in Addr /\ tailPtr \in Nat
             /\ tailPtr > ptr => mem[tailPtr] = Ones
  <2>1. prevFrom + 1 \in prevFrom + 1 .. lapFrom
    BY <1>1, <1>3, <1>8
  <2>2. log[prevFrom + 1].at = Start
    BY <1>2, <2>1 DEF OldLapReadable
  <2>3. EndOf(log[lapFrom]) = tailPtr /\ tailPtr # 0
    BY <1>1, <1>2, <1>8 DEF OldLapReadable
  <2>4. tailPtr \in BufEnd .. Last
    BY <1>2, <2>3 DEF TypeOK
  <2>5. tailPtr >= BufEnd /\ tailPtr \in Addr /\ tailPtr \in Nat
    BY <2>4, LastType, BufEndAssumption DEF Addr, Start
  <2>6. tailPtr > ptr => mem[tailPtr] = Ones
    BY <1>2 DEF Delimited
  <2> QED BY <2>2, <2>3, <2>5, <2>6
<1>9. LapEnd = IF lapFrom = Len(log) THEN Start ELSE EndOf(log[Len(log)])
  BY DEF LapEnd
<1> QED BY <1>1, <1>3, <1>4, <1>5, <1>6, <1>7, <1>8, <1>9

LEMMA LapIs ==
    ASSUME IInv, Laps
    PROVE  /\ Len(log) \in Nat /\ lapFrom \in Nat /\ lapFrom <= Len(log)
           /\ prevFrom \in Nat /\ prevFrom <= lapFrom
           /\ lapFrom > 0 => prevFrom < lapFrom
           /\ \A i \in 1 .. Len(log) : i > lapFrom => Intact(log[i]) /\ EndOf(log[i]) <= LapEnd
           /\ \A i \in 1 .. Len(log) :
                  i > prevFrom /\ i <= lapFrom /\ log[i].at > ptr => Intact(log[i])
           /\ \A i \in 1 .. Len(log) : i > prevFrom + 1 /\ i # lapFrom + 1 =>
                  i - 1 \in 1 .. Len(log) /\ log[i].at = EndOf(log[i - 1])
           /\ lapFrom < Len(log) => log[lapFrom + 1].at = Start
           /\ lapFrom > 0 => /\ log[prevFrom + 1].at = Start
                             /\ EndOf(log[lapFrom]) = tailPtr /\ tailPtr >= BufEnd
                             /\ tailPtr \in Addr /\ tailPtr \in Nat
                             /\ tailPtr > ptr => mem[tailPtr] = Ones
           /\ LapEnd = IF lapFrom = Len(log) THEN Start ELSE EndOf(log[Len(log)])
BY LapsAre DEF Laps

\* The first message of a lap is not the last.
LEMMA FirstOfLap ==
    ASSUME IInv, MessageFits, NEW i \in 1 .. Len(log), log[i].at = Start
    PROVE  EndOf(log[i]) < BufEnd
<1>1. log[i].id \in Id /\ EndOf(log[i]) = log[i].at + LenOf(log[i].id) + 1
  BY MsgIs
<1> QED BY <1>1 DEF MessageFits

\* The writer is not yet where it is sure to come.
LEMMA ReachIs == IInv => Reach \in Nat /\ ptr <= Reach
<1> SUFFICES ASSUME IInv PROVE Reach \in Nat /\ ptr <= Reach
  OBVIOUS
<1>1. CASE pc \in {"id", "put"}
  <2>1. /\ msgStart \in Addr /\ msg.id \in Id /\ ptr <= msgStart + LenOf(msg.id) /\ ptr \in Nat
    BY <1>1, Writers
  <2>2. msgStart \in Nat /\ LenOf(msg.id) \in Nat
    BY <2>1, LenOfType DEF Addr, Start
  <2>3. Reach = msgStart + LenOf(msg.id) + 1
    BY <1>1 DEF Reach
  <2> QED BY <2>1, <2>2, <2>3
<1>2. CASE pc \notin {"id", "put"}
  <2>1. Reach = ptr /\ ptr \in Nat
    BY <1>2, Writers DEF Reach
  <2> QED BY <2>1
<1> QED BY <1>1, <1>2

\* A message of the former lap that the writer will not reach is unharmed.
LEMMA AheadIntact ==
    ASSUME IInv, Laps, NEW k \in 0 .. Len(log), Passed(k), Ahead(k),
           NEW i \in 1 .. Len(log), i > k
    PROVE  Intact(log[i]) /\ (i <= lapFrom => log[i].at > ptr)
<1>1. CASE i > lapFrom
  <2>1. lapFrom \in Nat
    BY LapIs
  <2> QED BY <1>1, <2>1, LapIs
<1>2. CASE i <= lapFrom
  <2>1. lapFrom \in Nat /\ prevFrom \in Nat /\ prevFrom < i
    BY <1>2, LapIs DEF Passed
  <2>2. log[i].at > Reach
    <3>1. i \in k + 1 .. Len(log)
      BY <2>1
    <3> QED BY <1>2, <3>1 DEF Ahead
  <2>3. log[i].at > ptr
    BY <2>2, ReachIs, MsgIs, Writers
  <2> QED BY <1>2, <2>1, <2>3, LapIs
<1>3. lapFrom \in Nat
  BY LapIs
<1> QED BY <1>1, <1>2, <1>3

\* Where the reader stands is the message after the last one that it passed.
LEMMA HereIs ==
    ASSUME IInv, MessageFits, Laps, NEW k \in 0 .. Len(log), Passed(k), Ahead(k), cur < BufEnd
    PROVE  /\ k < Len(log) => /\ k + 1 \in 1 .. Len(log) /\ log[k + 1].at = cur
                              /\ Intact(log[k + 1]) /\ mem[cur] = Tsc(log[k + 1].tsc)
           /\ k = Len(log) /\ pc \in {"id", "put"} => msgStart = cur /\ mem[cur] = Tsc(msg.tsc)
<1>0. /\ Len(log) \in Nat /\ lapFrom \in Nat /\ prevFrom \in Nat /\ k \in Nat
      /\ prevFrom <= lapFrom /\ lapFrom <= Len(log)
  BY LapIs
<1>1. ASSUME k < Len(log)
      PROVE  /\ k + 1 \in 1 .. Len(log) /\ log[k + 1].at = cur
             /\ Intact(log[k + 1]) /\ mem[cur] = Tsc(log[k + 1].tsc)
  <2>1. k + 1 \in 1 .. Len(log) /\ k + 1 > k /\ (k + 1) - 1 = k
    BY <1>0, <1>1
  <2>2. Intact(log[k + 1]) /\ log[k + 1].at < BufEnd
    BY <2>1, AheadIntact, MsgIs
  <2>3. log[k + 1].at = cur
    <3>1. CASE lastTsc = 0
      <4>1. k = lapFrom /\ cur = Start
        BY <3>1 DEF Passed
      <4> QED BY <1>0, <1>1, <4>1, LapIs
    <3>2. CASE lastTsc # 0 /\ cur = EndOf(log[k])
      <4>1. k > 0 /\ k + 1 > prevFrom + 1
        BY <1>0, <3>2, LapIs DEF Passed
      <4>2. k + 1 # lapFrom + 1
        <5>1. k = lapFrom => EndOf(log[k]) = tailPtr /\ tailPtr >= BufEnd /\ tailPtr \in Nat
          BY <1>0, <4>1, LapIs
        <5> QED BY <1>0, <3>2, <5>1, BufEndAssumption
      <4> QED BY <2>1, <3>2, <4>1, <4>2, LapIs
    <3>3. CASE lastTsc # 0 /\ cur = Start /\ EndOf(log[k]) >= BufEnd
      <4>1. k > 0 /\ k + 1 > prevFrom + 1
        BY <1>0, <3>3, LapIs DEF Passed
      <4>2. k = lapFrom
        <5>1. ASSUME k + 1 # lapFrom + 1
              PROVE  FALSE
          <6>1. log[k + 1].at = EndOf(log[k])
            BY <2>1, <4>1, <5>1, LapIs
          <6> QED BY <2>1, <2>2, <3>3, <6>1, MsgIs, BufEndAssumption
        <5> QED BY <1>0, <5>1
      <4> QED BY <1>0, <1>1, <3>3, <4>2, LapIs
    <3> QED BY <3>1, <3>2, <3>3 DEF Passed
  <2> QED BY <2>1, <2>2, <2>3 DEF Intact
<1>2. ASSUME k = Len(log), pc \in {"id", "put"}
      PROVE  msgStart = cur /\ mem[cur] = Tsc(msg.tsc)
  <2>1. msgStart = LapEnd /\ msgStart < BufEnd /\ mem[msgStart] = Tsc(msg.tsc) /\ msgStart \in Nat
    <3>1. msgStart = LapEnd
      BY <1>2 DEF IInv, Position
    <3> QED BY <1>2, <3>1, Writers DEF Addr, Start
  <2>2. msgStart = cur
    <3>1. CASE lastTsc = 0
      BY <1>2, <2>1, <3>1, LapIs DEF Passed
    <3>2. CASE lastTsc # 0 /\ cur = EndOf(log[k])
      <4>1. k > 0
        BY <3>2 DEF Passed
      <4>2. lapFrom # Len(log)
        <5>1. k = lapFrom => EndOf(log[k]) = tailPtr /\ tailPtr >= BufEnd /\ tailPtr \in Nat
          BY <1>0, <4>1, LapIs
        <5> QED BY <1>0, <1>2, <3>2, <5>1, BufEndAssumption
      <4> QED BY <1>2, <2>1, <3>2, <4>2, LapIs
    <3>3. CASE lastTsc # 0 /\ cur = Start /\ EndOf(log[k]) >= BufEnd
      <4>1. lapFrom = Len(log)
        BY <1>2, <2>1, <3>3, LapIs, BufEndAssumption
      <4> QED BY <2>1, <3>3, <4>1, LapIs
    <3> QED BY <3>1, <3>2, <3>3 DEF Passed
  <2> QED BY <2>1, <2>2
<1> QED BY <1>1, <1>2

\* Where there is no message yet there is no timestamp that the reader accepts.
LEMMA NothingYet ==
    ASSUME IInv, MessageFits, Rising, Laps, NEW k \in 0 .. Len(log), Passed(k), Ahead(k),
           cur < BufEnd, ~ Traced(k + 1)
    PROVE  NextTsc = 0
<1>0. /\ Len(log) \in Nat /\ lapFrom \in Nat /\ prevFrom \in Nat /\ k \in Nat
      /\ prevFrom <= lapFrom /\ lapFrom <= Len(log) /\ BufEnd \in Nat
  BY LapIs, BufEndAssumption
<1>1. k = Len(log) /\ pc \in {"idle", "seal", "turned", "end"}
  <2>1. ~ (k + 1 <= Len(log)) /\ ~ (k + 1 = Len(log) + 1 /\ pc \in {"id", "put"})
    BY DEF Traced
  <2>2. k = Len(log)
    BY <1>0, <2>1
  <2> QED BY <2>1, <2>2, Writers
<1>2. ASSUME mem[cur] = Zero
      PROVE  NextTsc = 0
  <2>1. LoadTsc(cur) = 0
    BY <1>2, Kinds DEF LoadTsc
  <2> QED BY <2>1 DEF NextTsc
<1>3. ASSUME NEW i \in 1 .. Len(log), cur = Start, lastTsc = log[Len(log)].tsc,
             mem[Start] = Tsc(log[i].tsc), log[i].at = Start, EndOf(log[Len(log)]) >= BufEnd
      PROVE  NextTsc = 0
  <2>1. EndOf(log[i]) < BufEnd /\ EndOf(log[i]) \in Nat
    BY <1>3, FirstOfLap, MsgIs
  <2>2. i # Len(log)
    BY <1>0, <1>3, <2>1
  <2>3. i < Len(log) /\ Len(log) \in 1 .. Len(log)
    BY <1>0, <2>2
  <2>4. log[i].tsc < log[Len(log)].tsc
    BY <2>3 DEF Rising
  <2>5. LoadTsc(cur) = log[i].tsc
    BY <1>3, Kinds DEF LoadTsc
  <2> QED BY <1>3, <2>4, <2>5 DEF NextTsc
<1>4. CASE Len(log) = 0
  <2>1. pc = "idle" /\ mem[Start] = Zero
    BY <1>1, <1>4 DEF Laps
  <2>2. cur = Start
    BY <1>1, <1>4 DEF Passed
  <2> QED BY <1>2, <2>1, <2>2
<1>5. CASE Len(log) > 0 /\ pc \in {"idle", "seal", "end"}
  <2>1. lapFrom < Len(log)
    BY <1>0, <1>5 DEF Laps
  <2>2. lastTsc # 0 /\ lastTsc = log[Len(log)].tsc
    BY <1>0, <1>1, <2>1 DEF Passed
  <2>3. ptr = EndOf(log[Len(log)])
    <3>1. ptr = LapEnd
      BY <1>5 DEF IInv, Position
    <3> QED BY <1>0, <2>1, <3>1, LapIs
  <2>4. CASE cur = EndOf(log[Len(log)])
    <3>1. pc # "seal"
      <4>1. pc = "seal" => ptr >= BufEnd
        BY Writers
      <4> QED BY <1>0, <2>3, <2>4, <4>1, Writers
    <3>2. mem[cur] = Zero
      <4>1. CASE pc = "idle"
        BY <2>1, <2>3, <2>4, <4>1 DEF IInv, Position
      <4>2. CASE pc = "end"
        BY <1>1, <2>3, <2>4, <4>2 DEF Passed
      <4> QED BY <1>5, <3>1, <4>1, <4>2
    <3> QED BY <1>2, <3>2
  <2>5. CASE cur = Start /\ EndOf(log[Len(log)]) >= BufEnd
    <3>1. lapFrom + 1 \in 1 .. Len(log) /\ lapFrom + 1 > lapFrom
      BY <1>0, <2>1
    <3>2. log[lapFrom + 1].at = Start /\ Intact(log[lapFrom + 1])
      BY <2>1, <3>1, LapIs
    <3>3. mem[Start] = Tsc(log[lapFrom + 1].tsc)
      BY <3>2 DEF Intact
    <3> QED BY <1>3, <2>2, <2>5, <3>1, <3>2, <3>3
  <2> QED BY <1>1, <2>2, <2>4, <2>5 DEF Passed
<1>6. CASE Len(log) > 0 /\ pc = "turned"
  <2>1. lapFrom > 0 /\ mem[Start] = Tsc(log[prevFrom + 1].tsc) /\ lapFrom = Len(log)
    BY <1>6 DEF Laps, IInv, Position
  <2>2. lastTsc # 0 /\ lastTsc = log[Len(log)].tsc
    BY <1>1, <1>6, <2>1 DEF Passed
  <2>3. EndOf(log[Len(log)]) >= BufEnd /\ log[prevFrom + 1].at = Start
    BY <2>1, LapIs
  <2>4. cur = Start
    BY <1>0, <1>1, <1>6, <2>2, <2>3, MsgIs DEF Passed
  <2>5. prevFrom + 1 \in 1 .. Len(log)
    BY <1>0, <2>1, LapIs
  <2> QED BY <1>3, <2>1, <2>2, <2>3, <2>4, <2>5
<1> QED BY <1>0, <1>1, <1>4, <1>5, <1>6

\* Timestamps rise up to that of the message being written.
LEMMA TscIs ==
    ASSUME IInv, Rising, Laps, NEW m \in Nat, m > 0, Traced(m)
    PROVE  /\ TscOf(m) \in Nat /\ 0 < TscOf(m) /\ TscOf(m) <= clock
           /\ \A i \in 1 .. Len(log) : i < m => log[i].tsc < TscOf(m)
           /\ m <= Len(log) => TscOf(m) = log[m].tsc
           /\ m > Len(log) => TscOf(m) = msg.tsc /\ msg.tsc = clock /\ pc \in {"id", "put"}
<1>0. Len(log) \in Nat /\ clock \in Nat
  BY Writers
<1>1. CASE m <= Len(log)
  <2>1. m \in 1 .. Len(log) /\ TscOf(m) = log[m].tsc
    BY <1>0, <1>1 DEF TscOf
  <2>2. TscOf(m) \in Nat /\ TscOf(m) <= clock
    BY <2>1, MsgIs
  <2>3. TscOf(m) > 0 /\ \A i \in 1 .. Len(log) : i < m => log[i].tsc < TscOf(m)
    BY <2>1 DEF Rising, Laps
  <2> QED BY <1>0, <1>1, <2>1, <2>2, <2>3
<1>2. CASE ~ (m <= Len(log))
  <2>1. pc \in {"id", "put"} /\ TscOf(m) = msg.tsc /\ msg.tsc = clock
    BY <1>2, Writers DEF Traced, TscOf
  <2>2. clock > 0 /\ \A i \in 1 .. Len(log) : log[i].tsc < clock
    BY <2>1 DEF Laps, IInv, Laid
  <2> QED BY <1>0, <1>2, <2>1, <2>2
<1> QED BY <1>1, <1>2

\* The timestamp at the reader's place is that of the message to come.
LEMMA NextTscIs ==
    ASSUME IInv, MessageFits, Rising, Laps, NEW k \in 0 .. Len(log), Passed(k), Ahead(k),
           cur < BufEnd, Traced(k + 1)
    PROVE  /\ NextTsc = TscOf(k + 1) /\ TscOf(k + 1) > lastTsc
           /\ TscOf(k + 1) \in Nat /\ TscOf(k + 1) > 0 /\ TscOf(k + 1) <= clock
           /\ mem[cur] = Tsc(TscOf(k + 1))
<1>0. Len(log) \in Nat /\ k \in Nat /\ k + 1 \in Nat /\ k + 1 > 0 /\ clock \in Nat
  BY Writers
<1>1. TscOf(k + 1) \in Nat /\ TscOf(k + 1) > 0 /\ TscOf(k + 1) <= clock
  BY <1>0, TscIs
<1>2. mem[cur] = Tsc(TscOf(k + 1))
  <2>1. CASE k < Len(log)
    BY <1>0, <2>1, HereIs, TscIs
  <2>2. CASE k = Len(log)
    BY <1>0, <2>2, HereIs, TscIs
  <2> QED BY <1>0, <2>1, <2>2
<1>3. TscOf(k + 1) > lastTsc
  <2>1. CASE lastTsc = 0
    BY <1>1, <2>1
  <2>2. CASE lastTsc # 0
    <3>1. k \in 1 .. Len(log) /\ k < k + 1 /\ lastTsc = log[k].tsc
      BY <1>0, <2>2 DEF Passed
    <3>2. log[k].tsc < TscOf(k + 1)
      BY <1>0, <3>1, TscIs
    <3> QED BY <3>1, <3>2
  <2> QED BY <2>1, <2>2
<1>4. LoadTsc(cur) = TscOf(k + 1)
  BY <1>2, Kinds DEF LoadTsc
<1>5. NextTsc = TscOf(k + 1)
  <2>1. lastTsc \in Nat
    <3>1. CASE lastTsc = 0
      BY <3>1
    <3>2. CASE lastTsc # 0
      <4>1. k \in 1 .. Len(log) /\ lastTsc = log[k].tsc
        BY <1>0, <3>2 DEF Passed
      <4> QED BY <4>1, MsgIs
    <3> QED BY <3>1, <3>2
  <2>2. ~ (LoadTsc(cur) < lastTsc)
    BY <1>1, <1>3, <1>4, <2>1
  <2> QED BY <1>4, <2>2 DEF NextTsc
<1> QED BY <1>1, <1>2, <1>3, <1>5

\* What follows the message at the reader's place, in the same lap ...
LEMMA NextInLap ==
    ASSUME IInv, MessageFits, Laps, NEW k \in 0 .. Len(log), Passed(k), Ahead(k),
           k < Len(log), EndOf(log[k + 1]) < BufEnd
    PROVE  /\ Traced(k + 2) => mem[EndOf(log[k + 1])] = Tsc(TscOf(k + 2))
           /\ ~ Traced(k + 2) => /\ k + 1 = Len(log) /\ ptr = EndOf(log[k + 1])
                                 /\ pc = "end" \/ (pc = "idle" /\ mem[ptr] = Zero)
<1>0. /\ Len(log) \in Nat /\ lapFrom \in Nat /\ prevFrom \in Nat /\ k \in Nat
      /\ prevFrom <= lapFrom /\ lapFrom <= Len(log) /\ BufEnd \in Nat
      /\ k + 1 \in 1 .. Len(log)
  BY LapIs, BufEndAssumption
<1>1. k + 1 # lapFrom /\ EndOf(log[k + 1]) \in Nat
  <2>1. EndOf(log[k + 1]) \in Nat
    BY <1>0, MsgIs
  <2>2. k + 1 = lapFrom => EndOf(log[k + 1]) = tailPtr /\ tailPtr >= BufEnd /\ tailPtr \in Nat
    BY <1>0, LapIs
  <2> QED BY <1>0, <2>1, <2>2
<1>2. k + 1 > prevFrom
  <2>1. lapFrom > 0 => k > prevFrom
    BY DEF Passed
  <2> QED BY <1>0, <2>1
<1>3. CASE k + 2 <= Len(log)
  <2>1. k + 2 \in 1 .. Len(log) /\ k + 2 > prevFrom + 1 /\ k + 2 # lapFrom + 1 /\ k + 2 > k
        /\ (k + 2) - 1 = k + 1
    BY <1>0, <1>1, <1>2, <1>3
  <2>2. log[k + 2].at = EndOf(log[k + 1])
    BY <2>1, LapIs
  <2>3. Intact(log[k + 2])
    BY <2>1, AheadIntact
  <2>4. TscOf(k + 2) = log[k + 2].tsc /\ Traced(k + 2)
    BY <1>3 DEF TscOf, Traced
  <2> QED BY <2>2, <2>3, <2>4 DEF Intact
<1>4. CASE k + 1 = Len(log)
  <2>1. lapFrom # Len(log) /\ LapEnd = EndOf(log[k + 1])
    BY <1>1, <1>4, LapIs
  <2>2. CASE pc \in {"id", "put"}
    <3>1. msgStart = LapEnd /\ mem[msgStart] = Tsc(msg.tsc)
      BY <2>2 DEF IInv, Position, Partial
    <3>2. TscOf(k + 2) = msg.tsc /\ Traced(k + 2)
      BY <1>0, <1>4, <2>2 DEF TscOf, Traced
    <3> QED BY <2>1, <3>1, <3>2
  <2>3. CASE pc \notin {"id", "put"}
    <3>1. ptr = EndOf(log[k + 1])
      BY <2>1, <2>3, Writers DEF IInv, Position
    <3>2. pc # "seal" /\ pc # "turned"
      <4>1. pc = "seal" => ptr >= BufEnd
        BY Writers
      <4>2. pc = "turned" => lapFrom = Len(log)
        BY DEF IInv, Position
      <4> QED BY <1>0, <1>1, <2>1, <3>1, <4>1, <4>2
    <3>3. pc = "idle" => mem[ptr] = Zero
      BY <1>0, <2>1 DEF IInv, Position
    <3>4. pc = "end" \/ pc = "idle"
      BY <2>3, <3>2, Writers
    <3>5. ~ Traced(k + 2)
      BY <1>0, <1>4, <2>3 DEF Traced
    <3> QED BY <1>4, <3>1, <3>3, <3>4, <3>5
  <2> QED BY <2>2, <2>3
<1> QED BY <1>0, <1>3, <1>4

\* ... and behind the last one of a lap.
LEMMA NextLap ==
    ASSUME IInv, MessageFits, Rising, Laps, NEW k \in 0 .. Len(log), Passed(k), Ahead(k),
           k < Len(log), EndOf(log[k + 1]) >= BufEnd
    PROVE  /\ Traced(k + 2) => /\ mem[EndOf(log[k + 1])] = Ones
                               /\ mem[Start] = Tsc(TscOf(k + 2))
           /\ ~ Traced(k + 2) => /\ k + 1 = Len(log)
                                 /\ pc = "idle" => mem[EndOf(log[k + 1])] = Zero
                                 /\ \E t \in Nat : 0 < t /\ t < log[k + 1].tsc /\ mem[Start] = Tsc(t)
<1>0. /\ Len(log) \in Nat /\ lapFrom \in Nat /\ prevFrom \in Nat /\ k \in Nat
      /\ prevFrom <= lapFrom /\ lapFrom <= Len(log) /\ BufEnd \in Nat
      /\ k + 1 \in 1 .. Len(log) /\ EndOf(log[k + 1]) \in Nat
  <2>1. k + 1 \in 1 .. Len(log)
    BY LapIs
  <2> QED BY <2>1, LapIs, BufEndAssumption, MsgIs
<1>1. k + 1 > prevFrom
  <2>1. lapFrom > 0 => k > prevFrom
    BY DEF Passed
  <2> QED BY <1>0, <2>1
<1>2. ASSUME NEW i \in 1 .. Len(log), log[i].at = Start, k + 1 = Len(log)
      PROVE  \E t \in Nat : 0 < t /\ t < log[k + 1].tsc /\ Tsc(log[i].tsc) = Tsc(t)
  <2>1. EndOf(log[i]) < BufEnd /\ EndOf(log[i]) \in Nat
    BY <1>2, FirstOfLap, MsgIs
  <2>2. i < k + 1
    BY <1>0, <1>2, <2>1
  <2>3. log[i].tsc < log[k + 1].tsc /\ 0 < log[i].tsc
    BY <1>0, <2>2 DEF Rising, Laps
  <2>4. log[i].tsc \in Nat
    BY MsgIs
  <2> QED BY <2>3, <2>4
<1>3. ASSUME k + 1 = lapFrom
      PROVE  mem[EndOf(log[k + 1])] = Ones
  <2>1. log[k + 1].at > ptr
    BY <1>0, <1>3, AheadIntact
  <2>2. EndOf(log[k + 1]) = tailPtr /\ (tailPtr > ptr => mem[tailPtr] = Ones)
    BY <1>0, <1>3, LapIs
  <2>3. EndOf(log[k + 1]) > ptr
    BY <1>0, <2>1, MsgIs, Writers
  <2> QED BY <2>2, <2>3
<1>4. CASE k + 2 <= Len(log)
  <2>1. k + 2 \in 1 .. Len(log) /\ k + 2 > prevFrom + 1 /\ (k + 2) - 1 = k + 1 /\ k + 2 > k
    BY <1>0, <1>1, <1>4
  <2>2. k + 1 = lapFrom
    <3>1. ASSUME k + 2 # lapFrom + 1
          PROVE  FALSE
      <4>1. log[k + 2].at = EndOf(log[k + 1])
        BY <2>1, <3>1, LapIs
      <4>2. log[k + 2].at < BufEnd /\ log[k + 2].at \in Nat
        BY <2>1, MsgIs
      <4> QED BY <1>0, <4>1, <4>2
    <3> QED BY <1>0, <3>1
  <2>3. Intact(log[k + 2]) /\ log[k + 2].at = Start
    <3>1. k + 2 = lapFrom + 1 /\ lapFrom < Len(log)
      BY <1>0, <1>4, <2>2
    <3> QED BY <2>1, <3>1, AheadIntact, LapIs
  <2>4. TscOf(k + 2) = log[k + 2].tsc /\ Traced(k + 2)
    BY <1>4 DEF TscOf, Traced
  <2> QED BY <1>3, <2>2, <2>3, <2>4 DEF Intact
<1>5. CASE k + 1 = Len(log)
  <2>1. CASE pc \in {"id", "put"}
    <3>1. msgStart = LapEnd /\ mem[msgStart] = Tsc(msg.tsc) /\ msgStart < BufEnd
      BY <2>1, Writers DEF IInv, Position, Partial
    <3>2. TscOf(k + 2) = msg.tsc /\ Traced(k + 2)
      BY <1>0, <1>5, <2>1 DEF TscOf, Traced
    <3>3. lapFrom = Len(log)
      BY <1>0, <1>5, <3>1, LapIs
    <3>4. msgStart = Start
      BY <3>1, <3>3, LapIs
    <3> QED BY <1>3, <1>5, <3>1, <3>2, <3>3, <3>4
  <2>2. CASE pc = "turned"
    <3>1. lapFrom > 0 /\ mem[Start] = Tsc(log[prevFrom + 1].tsc)
      BY <2>2 DEF Laps
    <3>2. prevFrom + 1 \in 1 .. Len(log) /\ log[prevFrom + 1].at = Start
      BY <1>0, <3>1, LapIs
    <3>3. ~ Traced(k + 2)
      BY <1>0, <1>5, <2>2 DEF Traced
    <3> QED BY <1>2, <1>5, <2>2, <3>1, <3>2, <3>3
  <2>3. CASE pc \in {"idle", "seal", "end"}
    <3>1. lapFrom < Len(log)
      BY <1>0, <2>3 DEF Laps
    <3>2. lapFrom + 1 \in 1 .. Len(log) /\ lapFrom + 1 > lapFrom
      BY <1>0, <3>1
    <3>3. log[lapFrom + 1].at = Start /\ Intact(log[lapFrom + 1])
      BY <3>1, <3>2, LapIs
    <3>4. mem[Start] = Tsc(log[lapFrom + 1].tsc)
      BY <3>3 DEF Intact
    <3>5. ~ Traced(k + 2)
      BY <1>0, <1>5, <2>3 DEF Traced
    <3>6. pc = "idle" => mem[EndOf(log[k + 1])] = Zero
      <4>1. pc = "idle" => ptr = LapEnd /\ mem[ptr] = Zero
        BY <3>1 DEF IInv, Position
      <4>2. LapEnd = EndOf(log[k + 1])
        BY <1>0, <1>5, <3>1, LapIs
      <4> QED BY <4>1, <4>2
    <3> QED BY <1>2, <1>5, <3>2, <3>3, <3>4, <3>5, <3>6
  <2> QED BY <2>1, <2>2, <2>3, Writers
<1> QED BY <1>0, <1>4, <1>5

(***************************************************************************)
(* The steps of the writer                                                 *)
(***************************************************************************)

\* Without a disabled message every trace statement writes one.
LEMMA Steps ==
    ASSUME Laps, QtctlIds = {}, Next
    PROVE  \/ WrapSeal \/ WrapTurn \/ (\E id \in Id : StartMsg(id))
           \/ PutId \/ PutWord \/ EndMsgLen \/ EndMsgZero
<1>1. ~ \E id \in Id : StartMsgOff(id)
  BY DEF StartMsgOff, Laps
<1>2. ~ \E id \in QtctlIds : Qtctl(id)
  OBVIOUS
<1> QED BY <1>1, <1>2 DEF Next, Writer

\* The log after a message is completed.
LEMMA Logged ==
    ASSUME IInv, EndMsgLen
    PROVE  /\ Len(log') = Len(log) + 1 /\ Len(log) \in Nat
           /\ \A i \in 1 .. Len(log) : log'[i] = log[i]
           /\ log'[Len(log) + 1] = [at |-> msgStart, id |-> msg.id, tsc |-> msg.tsc]
           /\ log'[Len(log) + 1].tsc = clock /\ msg.tsc = clock
<1>1. pc = "put" /\ log' = Append(log, [at |-> msgStart, id |-> msg.id, tsc |-> msg.tsc])
  BY DEF EndMsgLen
<1>2. log \in Seq(Msg) /\ Len(log) \in Nat /\ msg.tsc = clock
  BY <1>1, Writers
<1>3. /\ Len(log') = Len(log) + 1
      /\ \A i \in 1 .. Len(log) : log'[i] = log[i]
      /\ log'[Len(log) + 1] = [at |-> msgStart, id |-> msg.id, tsc |-> msg.tsc]
  BY <1>1, <1>2
<1> QED BY <1>2, <1>3

\* Laps follow each other, and timestamps rise.
LEMMA LapsStep ==
    ASSUME IInv, Rising, Laps, QtctlIds = {}, Next
    PROVE  Rising' /\ Laps'
<1>0. /\ Len(log) \in Nat /\ lapFrom \in Nat /\ prevFrom \in Nat /\ lapFrom <= Len(log)
      /\ prevFrom <= lapFrom /\ clock \in Nat
  BY LapIs, Writers
<1>1. CASE WrapSeal
  <2>1. /\ pc = "idle" /\ pc' = "seal" /\ ptr >= BufEnd
        /\ UNCHANGED <<off, clock, log, lapFrom, prevFrom>>
    BY <1>1 DEF WrapSeal, histVars
  <2>2. lapFrom < Len(log) /\ Len(log) # 0
    <3>1. ptr = LapEnd
      BY <2>1 DEF IInv, Position
    <3>2. lapFrom = Len(log) => ptr = Start
      BY <3>1, LapIs
    <3>3. lapFrom # Len(log)
      BY <2>1, <3>2, BufEndAssumption DEF Start
    <3> QED BY <1>0, <3>3
  <2>3. Rising'
    BY <2>1 DEF Rising
  <2> QED BY <1>0, <2>1, <2>2, <2>3 DEF Laps
<1>2. CASE WrapTurn
  <2>1. /\ pc = "seal" /\ pc' = "turned" /\ lapFrom' = Len(log) /\ prevFrom' = lapFrom
        /\ UNCHANGED <<off, clock, log, mem>>
    BY <1>2 DEF WrapTurn
  <2>2. lapFrom < Len(log) /\ Len(log) # 0
    BY <1>0, <2>1 DEF Laps
  <2>3. lapFrom + 1 \in 1 .. Len(log) /\ lapFrom + 1 > lapFrom
    BY <1>0, <2>2
  <2>4. log[lapFrom + 1].at = Start /\ Intact(log[lapFrom + 1])
    BY <2>2, <2>3, LapIs
  <2>5. mem[Start] = Tsc(log[lapFrom + 1].tsc)
    BY <2>4 DEF Intact
  <2>6. Rising'
    BY <2>1 DEF Rising
  <2> QED BY <1>0, <2>1, <2>2, <2>5, <2>6 DEF Laps
<1>3. CASE \E id \in Id : StartMsg(id)
  <2>1. /\ clock' = clock + 2 /\ pc' = "id"
        /\ UNCHANGED <<off, log, lapFrom, prevFrom>>
    BY <1>3 DEF StartMsg, Stamps, Rdtsc, histVars
  <2>2. Rising' /\ clock' > 0
    BY <1>0, <2>1 DEF Rising
  <2> QED BY <1>0, <2>1, <2>2 DEF Laps
<1>4. CASE PutId \/ PutWord
  <2>1. /\ pc \in {"id", "put"} /\ pc' = "put" /\ UNCHANGED <<off, log, lapFrom, prevFrom, clock>>
    BY <1>4 DEF PutId, PutWord, histVars
  <2>2. Rising'
    BY <2>1 DEF Rising
  <2> QED BY <1>0, <2>1, <2>2 DEF Laps
<1>5. CASE EndMsgLen
  <2>1. /\ pc = "put" /\ pc' = "end" /\ UNCHANGED <<off, lapFrom, prevFrom, clock>>
    BY <1>5 DEF EndMsgLen
  <2>2. clock > 0 /\ \A i \in 1 .. Len(log) : log[i].tsc < clock
    BY <2>1 DEF Laps, IInv, Laid
  <2>3. /\ Len(log') = Len(log) + 1 /\ \A i \in 1 .. Len(log) : log'[i] = log[i]
        /\ log'[Len(log) + 1].tsc = clock
    BY <1>5, Logged
  <2>4. Rising'
    <3>1. ASSUME NEW i \in 1 .. Len(log'), NEW j \in 1 .. Len(log'), i < j
          PROVE  log'[i].tsc < log'[j].tsc
      <4>1. i \in 1 .. Len(log) /\ log'[i] = log[i]
        BY <1>0, <2>3, <3>1
      <4>2. CASE j \in 1 .. Len(log)
        BY <2>3, <3>1, <4>1, <4>2 DEF Rising
      <4>3. CASE j = Len(log) + 1
        BY <2>2, <2>3, <4>1, <4>3
      <4> QED BY <1>0, <2>3, <4>2, <4>3
    <3> QED BY <3>1 DEF Rising
  <2>5. ASSUME NEW i \in 1 .. Len(log')
        PROVE  log'[i].tsc > 0
    <3>1. i \in 1 .. Len(log) \/ i = Len(log) + 1
      BY <1>0, <2>3
    <3> QED BY <2>2, <2>3, <3>1 DEF Laps
  <2>6. lapFrom < Len(log') /\ Len(log') # 0
    BY <1>0, <2>3
  <2> QED BY <1>0, <2>1, <2>4, <2>5, <2>6 DEF Laps
<1>6. CASE EndMsgZero
  <2>1. /\ pc = "end" /\ pc' = "idle" /\ UNCHANGED <<off, log, lapFrom, prevFrom, clock>>
    BY <1>6 DEF EndMsgZero, histVars
  <2>2. Rising'
    BY <2>1 DEF Rising
  <2> QED BY <1>0, <2>1, <2>2 DEF Laps
<1> QED BY <1>1, <1>2, <1>3, <1>4, <1>5, <1>6, Steps

\* Time does not go back.
LEMMA ClockGrows ==
    ASSUME IInv, Laps, QtctlIds = {}, Next
    PROVE  clock' \in Nat /\ clock' >= clock
<1>1. clock \in Nat
  BY Writers
<1>2. clock' = clock \/ clock' = clock + 2
  BY Steps DEF WrapSeal, WrapTurn, StartMsg, Stamps, Rdtsc, PutId, PutWord, EndMsgLen, EndMsgZero
<1> QED BY <1>1, <1>2

\* A step of the writer stores where it stands.
LEMMA Touches ==
    ASSUME Laps, QtctlIds = {}, Next
    PROVE  mem' = mem \/ \E c : Store(ptr, c)
<1>1. CASE WrapSeal \/ PutId \/ PutWord \/ EndMsgLen \/ EndMsgZero
  BY <1>1 DEF WrapSeal, PutId, PutWord, EndMsgLen, EndMsgZero
<1>2. CASE WrapTurn
  BY <1>2 DEF WrapTurn
<1>3. CASE \E id \in Id : StartMsg(id)
  BY <1>3 DEF StartMsg
<1> QED BY <1>1, <1>2, <1>3, Steps

\* No other zero appears.
LEMMA ZerosStep ==
    ASSUME IInv, Laps, Zeros, QtctlIds = {}, Next
    PROVE  Zeros'
<1>0. TypeOK /\ ptr \in Nat /\ ptr \in Addr /\ Start <= ptr /\ clock \in Nat /\ BufEnd \in Nat
  BY Writers, BufEndAssumption DEF IInv
<1>a. \A a \in Addr : a \in Nat
  BY DEF Addr, Start
<1>1. ASSUME NEW c, Store(ptr, c), c # Zero, tailPtr' = tailPtr, ptr' = ptr + 1
      PROVE  Zeros'
  <2>1. ASSUME tailPtr' = 0, NEW a \in Addr, a >= ptr'
        PROVE  mem'[a].kind \in {"tsc", "ones"}
    <3>1. a # ptr /\ a >= ptr
      BY <1>0, <1>a, <1>1, <2>1
    <3>2. mem'[a] = mem[a]
      BY <1>0, <1>1, <3>1, StoreAt
    <3> QED BY <1>1, <2>1, <3>1, <3>2 DEF Zeros
  <2>2. ASSUME NEW a \in Addr, mem'[a] = Zero
        PROVE  tailPtr' = 0 /\ ptr' <= a /\ a < BufEnd
    <3>1. a # ptr /\ mem[a] = Zero
      BY <1>0, <1>1, <2>2, StoreAt
    <3>2. tailPtr = 0 /\ ptr <= a /\ a < BufEnd
      BY <3>1 DEF Zeros
    <3> QED BY <1>0, <1>a, <1>1, <3>1, <3>2
  <2> QED BY <2>1, <2>2 DEF Zeros
<1>2. CASE \E id \in Id : StartMsg(id)
  <2>1. PICK c : Store(ptr, c) /\ c = Tsc(clock + 2)
    BY <1>2 DEF StartMsg, Rdtsc
  <2>2. c # Zero
    BY <1>0, <2>1, Kinds
  <2>3. tailPtr' = tailPtr /\ ptr' = ptr + 1
    BY <1>2 DEF StartMsg
  <2> QED BY <1>1, <2>1, <2>2, <2>3
<1>3. CASE PutId
  <2>1. IdCell(msg.id) # Zero
    BY Kinds
  <2> QED BY <1>1, <1>3, <2>1 DEF PutId
<1>4. CASE PutWord
  <2>1. Word(msg.tsc) # Zero
    BY Kinds
  <2> QED BY <1>1, <1>4, <2>1 DEF PutWord
<1>5. CASE EndMsgLen
  <2>1. LenCell(ptr - msgStart) # Zero
    BY Kinds
  <2> QED BY <1>1, <1>5, <2>1 DEF EndMsgLen
<1>6. CASE WrapSeal
  <2>1. Store(ptr, Ones) /\ tailPtr' = tailPtr /\ ptr' = ptr
    BY <1>6 DEF WrapSeal
  <2>2. \A a \in Addr : mem'[a] = IF a = ptr THEN Ones ELSE mem[a]
    BY <1>0, <2>1, StoreAt
  <2>3. Ones # Zero
    BY Kinds
  <2> QED BY <2>1, <2>2, <2>3, Kinds DEF Zeros
<1>7. CASE WrapTurn
  <2>1. pc = "seal" /\ tailPtr' = ptr /\ mem' = mem
    BY <1>7 DEF WrapTurn
  <2>2. ptr >= BufEnd /\ ptr # 0
    BY <1>0, <2>1, Writers DEF Start
  <2>3. \A a \in Addr : mem[a] # Zero
    <3>1. SUFFICES ASSUME NEW a \in Addr, mem[a] = Zero PROVE FALSE
      OBVIOUS
    <3>2. ptr <= a /\ a < BufEnd
      BY <2>1, <3>1 DEF Zeros
    <3> QED BY <1>0, <1>a, <2>2, <3>2
  <2> QED BY <2>1, <2>2, <2>3 DEF Zeros
<1>8. CASE EndMsgZero
  <2>1. pc = "end" /\ pc' = "idle" /\ Store(ptr, Zero) /\ tailPtr' = tailPtr /\ ptr' = ptr
    BY <1>8 DEF EndMsgZero
  <2>2. \A a \in Addr : mem'[a] = IF a = ptr THEN Zero ELSE mem[a]
    BY <1>0, <2>1, StoreAt
  <2> QED BY <2>1, <2>2, Kinds DEF Zeros
<1> QED BY <1>2, <1>3, <1>4, <1>5, <1>6, <1>7, <1>8, Steps

\* What the reader has not passed is unread.
LEMMA UnreadIs ==
    ASSUME IInv, Rising, Laps, NEW k \in 0 .. Len(log), Passed(k), NEW i \in 1 .. Len(log),
           i > k \/ lastTsc = 0
    PROVE  Unread(i)
<1>1. CASE lastTsc = 0
  BY <1>1 DEF Laps, Unread
<1>2. CASE lastTsc # 0
  <2>1. Len(log) \in Nat /\ k > 0 /\ lastTsc = log[k].tsc
    BY <1>2, Writers DEF Passed
  <2>2. k \in 1 .. Len(log) /\ k < i
    BY <1>2, <2>1
  <2> QED BY <2>1, <2>2 DEF Rising, Unread
<1> QED BY <1>1, <1>2

\* A message that has its timestamp in the ring keeps it.
LEMMA TracedKeeps ==
    ASSUME IInv, Laps, QtctlIds = {}, Next, NEW m \in Nat, m > 0
    PROVE  /\ Traced(m) => Traced(m)' /\ TscOf(m)' = TscOf(m)
           /\ (~ \E id \in Id : StartMsg(id)) => (Traced(m)' => Traced(m))
           /\ Len(log') \in Nat /\ Len(log') >= Len(log)
           /\ \A i \in 1 .. Len(log) : log'[i] = log[i]
<1>0. Len(log) \in Nat
  BY Writers
<1>1. CASE EndMsgLen
  <2>1. pc = "put" /\ pc' = "end"
    BY <1>1 DEF EndMsgLen
  <2>2. /\ Len(log') = Len(log) + 1 /\ \A i \in 1 .. Len(log) : log'[i] = log[i]
        /\ log'[Len(log) + 1].tsc = msg.tsc
    BY <1>1, Logged
  <2>3. Traced(m) <=> m <= Len(log) + 1
    BY <1>0, <2>1 DEF Traced
  <2>4. Traced(m)' <=> m <= Len(log) + 1
    BY <2>1, <2>2 DEF Traced
  <2>5. m <= Len(log) + 1 => TscOf(m)' = TscOf(m)
    <3>1. CASE m = Len(log) + 1
      BY <1>0, <2>2, <3>1 DEF TscOf
    <3>2. CASE m <= Len(log) /\ m > 0
      BY <1>0, <2>2, <3>2 DEF TscOf
    <3> QED BY <1>0, <3>1, <3>2
  <2> QED BY <1>0, <2>2, <2>3, <2>4, <2>5
<1>2. CASE \E id \in Id : StartMsg(id)
  <2>1. log' = log /\ pc \notin {"id", "put"}
    BY <1>2 DEF StartMsg, Stamps, histVars
  <2>2. Traced(m) => m <= Len(log)
    BY <2>1 DEF Traced
  <2> QED BY <1>0, <1>2, <2>1, <2>2 DEF Traced, TscOf
<1>3. CASE WrapSeal \/ WrapTurn \/ PutId \/ PutWord \/ EndMsgZero
  <2>1. log' = log /\ msg' = msg /\ (pc' \in {"id", "put"} <=> pc \in {"id", "put"})
    BY <1>3 DEF WrapSeal, WrapTurn, PutId, PutWord, EndMsgZero, histVars
  <2> QED BY <1>0, <2>1 DEF Traced, TscOf
<1> QED BY <1>1, <1>2, <1>3, Steps

\* A program that lets its reader keep up does not turn round, and does not begin
\* a message, where the reader has not been.
LEMMA Throttled ==
    ASSUME IInv, Rising, Laps, KeepsUp, WriterStep, rpc # "open", pc = "idle", pc' # "idle",
           NEW k \in 0 .. Len(log), Passed(k)
    PROVE  /\ ~ (lastTsc = 0 /\ lapFrom > 0)
           /\ ptr >= BufEnd => \A i \in 1 .. Len(log) :
                  i > lapFrom /\ i > k => log[i].at > Start + LenMax + 1
           /\ ptr < BufEnd => \A i \in 1 .. Len(log) :
                  i > prevFrom /\ i <= lapFrom /\ i > k => log[i].at > ptr + LenMax + 1
<1>0. /\ Len(log) \in Nat /\ lapFrom \in Nat /\ prevFrom \in Nat /\ lapFrom <= Len(log)
      /\ prevFrom <= lapFrom /\ ptr \in Nat /\ Start <= ptr /\ Start \in Nat
  BY LapIs, Writers DEF Start
<1>1. IF ptr >= BufEnd THEN Clear(Start, lapFrom + 1 .. Len(log))
                       ELSE Clear(ptr, prevFrom + 1 .. lapFrom)
  BY DEF WriterStep
<1>2. ASSUME ptr >= BufEnd, NEW i \in 1 .. Len(log), i > lapFrom, Unread(i)
      PROVE  log[i].at > Start + LenMax + 1
  <2>1. i \in lapFrom + 1 .. Len(log)
    BY <1>0, <1>2
  <2> QED BY <1>1, <1>2, <2>1 DEF Clear
<1>3. ASSUME ptr < BufEnd, NEW i \in 1 .. Len(log), i > prevFrom, i <= lapFrom, Unread(i)
      PROVE  log[i].at > ptr + LenMax + 1
  <2>1. i \in prevFrom + 1 .. lapFrom
    BY <1>0, <1>3
  <2>2. ~ (ptr >= BufEnd)
    BY <1>0, <1>3, BufEndAssumption
  <2> QED BY <1>1, <1>3, <2>1, <2>2 DEF Clear
<1>4. ASSUME lastTsc = 0, lapFrom > 0
      PROVE  FALSE
  <2>1. CASE ptr >= BufEnd
    <3>1. lapFrom < Len(log)
      BY <1>0, <1>4 DEF Laps
    <3>2. lapFrom + 1 \in 1 .. Len(log) /\ lapFrom + 1 > lapFrom
      BY <1>0, <3>1
    <3>3. log[lapFrom + 1].at > Start + LenMax + 1
      BY <1>2, <1>4, <2>1, <3>2, UnreadIs
    <3>4. log[lapFrom + 1].at = Start /\ LenMax \in Nat
      BY <3>1, <3>2, LapIs, MsgIs
    <3> QED BY <1>0, <3>3, <3>4
  <2>2. CASE ptr < BufEnd
    <3>1. prevFrom + 1 \in 1 .. Len(log) /\ prevFrom + 1 > prevFrom /\ prevFrom + 1 <= lapFrom
      BY <1>0, <1>4, LapIs
    <3>2. log[prevFrom + 1].at > ptr + LenMax + 1
      BY <1>3, <1>4, <2>2, <3>1, UnreadIs
    <3>3. log[prevFrom + 1].at = Start /\ LenMax \in Nat
      BY <1>4, <3>1, LapIs, MsgIs
    <3> QED BY <1>0, <3>2, <3>3
  <2> QED BY <1>0, <2>1, <2>2, BufEndAssumption
<1>5. \A i \in 1 .. Len(log) : i > k => Unread(i)
  BY UnreadIs
<1> QED BY <1>2, <1>3, <1>4, <1>5

\* The reader stays behind the message that it passed last.
LEMMA PassedStep ==
    ASSUME IInv, Rising, Laps, QtctlIds = {}, KeepsUp, WriterStep, rpc # "open",
           UNCHANGED readVars, NEW k \in 0 .. Len(log), Passed(k), Ahead(k)
    PROVE  Passed(k)' /\ k \in 0 .. Len(log')
<1>0. /\ Len(log) \in Nat /\ lapFrom \in Nat /\ prevFrom \in Nat /\ lapFrom <= Len(log)
      /\ prevFrom <= lapFrom /\ k \in Nat /\ Start \in Nat /\ Len(log') \in Nat /\ Len(log') >= Len(log)
      /\ \A i \in 1 .. Len(log) : log'[i] = log[i]
  <2>1. Next /\ 1 \in Nat /\ 1 > 0
    BY DEF WriterStep
  <2>2. Len(log') \in Nat /\ Len(log') >= Len(log) /\ \A i \in 1 .. Len(log) : log'[i] = log[i]
    BY <2>1, TracedKeeps
  <2> QED BY <2>2, LapIs DEF Start
<1>1. cur' = cur /\ lastTsc' = lastTsc /\ skipping' = skipping
  BY DEF readVars
<1>2. lastTsc # 0 => k \in 1 .. Len(log) /\ log'[k] = log[k] /\ EndOf(log'[k]) = EndOf(log[k])
  BY <1>0 DEF Passed, EndOf
<1>3. \/ WrapSeal \/ WrapTurn \/ (\E id \in Id : StartMsg(id))
      \/ PutId \/ PutWord \/ EndMsgLen \/ EndMsgZero
  BY Steps DEF WriterStep
<1>4. ASSUME lapFrom' = lapFrom, prevFrom' = prevFrom, pc' # "end" \/ Len(log') > Len(log),
             ~ (lastTsc = 0 /\ lapFrom > 0)
      PROVE  Passed(k)'
  <2>1. ~ (k = Len(log') /\ pc' = "end")
    BY <1>0, <1>4
  <2>2. IF lastTsc' = 0 THEN k = lapFrom' ELSE k > 0 /\ lastTsc' = log'[k].tsc
    BY <1>1, <1>2, <1>4 DEF Passed
  <2>3. \/ cur = Start /\ (lastTsc = 0 \/ (~ skipping /\ EndOf(log'[k]) >= BufEnd))
        \/ cur = EndOf(log'[k]) /\ lastTsc # 0 /\ cur < BufEnd
        \/ skipping /\ lastTsc # 0 /\ ~ (cur < BufEnd) /\ EndOf(log'[k]) >= BufEnd
    BY <1>2 DEF Passed
  <2> QED BY <1>1, <1>4, <2>1, <2>2, <2>3 DEF Passed
<1>5. CASE WrapSeal
  <2>1. pc = "idle" /\ pc' = "seal" /\ lapFrom' = lapFrom /\ prevFrom' = prevFrom
    BY <1>5 DEF WrapSeal, histVars
  <2>2. ~ (lastTsc = 0 /\ lapFrom > 0)
    BY <2>1, Throttled
  <2> QED BY <1>0, <1>4, <2>1, <2>2
<1>6. CASE \E id \in Id : StartMsg(id)
  <2>1. (pc = "idle" \/ pc = "turned") /\ pc' = "id" /\ lapFrom' = lapFrom /\ prevFrom' = prevFrom
    BY <1>6 DEF StartMsg, Stamps, histVars
  <2>2. ~ (lastTsc = 0 /\ lapFrom > 0)
    <3>1. CASE pc = "idle"
      BY <2>1, <3>1, Throttled
    <3>2. CASE pc = "turned"
      BY <3>2 DEF Passed
    <3> QED BY <2>1, <3>1, <3>2
  <2> QED BY <1>0, <1>4, <2>1, <2>2
<1>7. CASE PutId \/ PutWord \/ EndMsgLen \/ EndMsgZero
  <2>1. /\ pc # "idle" /\ lapFrom' = lapFrom /\ prevFrom' = prevFrom
        /\ pc' # "end" \/ EndMsgLen
    BY <1>7 DEF PutId, PutWord, EndMsgLen, EndMsgZero, histVars
  <2>2. ~ (lastTsc = 0 /\ lapFrom > 0)
    BY <2>1 DEF Passed
  <2>3. EndMsgLen => Len(log') > Len(log)
    BY <1>0, Logged
  <2> QED BY <1>0, <1>4, <2>1, <2>2, <2>3
<1>8. CASE WrapTurn
  <2>1. pc = "seal" /\ pc' = "turned" /\ lapFrom' = Len(log) /\ prevFrom' = lapFrom /\ log' = log
    BY <1>8 DEF WrapTurn
  <2>2. lapFrom < Len(log)
    BY <1>0, <2>1 DEF Laps
  <2>3. k > lapFrom
    <3>1. ASSUME k <= lapFrom
          PROVE  FALSE
      <4>1. lapFrom + 1 \in k + 1 .. Len(log) /\ lapFrom + 1 \in 1 .. Len(log)
        BY <1>0, <2>2, <3>1
      <4>2. log[lapFrom + 1].at > Start + LenMax + 1
        BY <2>1, <4>1 DEF Ahead
      <4>3. log[lapFrom + 1].at = Start /\ LenMax \in Nat
        BY <2>2, <4>1, LapIs, MsgIs
      <4> QED BY <1>0, <4>2, <4>3
    <3> QED BY <1>0, <3>1
  <2>4. lastTsc # 0
    BY <1>0, <2>3 DEF Passed
  <2> QED BY <1>0, <1>1, <2>1, <2>3, <2>4 DEF Passed
<1> QED BY <1>0, <1>3, <1>5, <1>6, <1>7, <1>8

\* What is ahead of the reader stays out of the writer's reach.
LEMMA AheadStep ==
    ASSUME IInv, Rising, Laps, QtctlIds = {}, KeepsUp, WriterStep, rpc # "open",
           NEW k \in 0 .. Len(log), Passed(k), Ahead(k)
    PROVE  Ahead(k)'
<1>0. /\ Len(log) \in Nat /\ lapFrom \in Nat /\ prevFrom \in Nat /\ lapFrom <= Len(log)
      /\ prevFrom <= lapFrom /\ k \in Nat /\ Start \in Nat /\ ptr \in Nat /\ Start <= ptr
      /\ lapFrom > 0 => k > prevFrom
  BY LapIs, Writers DEF Start, Passed
<1>1. \/ WrapSeal \/ WrapTurn \/ (\E id \in Id : StartMsg(id))
      \/ PutId \/ PutWord \/ EndMsgLen \/ EndMsgZero
  BY Steps DEF WriterStep
<1>2. CASE WrapSeal
  <2>1. /\ pc = "idle" /\ pc' = "seal" /\ ptr >= BufEnd
        /\ lapFrom' = lapFrom /\ ptr' = ptr /\ log' = log
    BY <1>2 DEF WrapSeal, histVars
  <2>2. ~ (lastTsc = 0 /\ lapFrom > 0)
    BY <2>1, Throttled
  <2>3. lapFrom < Len(log)
    <3>1. ptr = LapEnd
      BY <2>1 DEF IInv, Position
    <3>2. lapFrom = Len(log) => ptr = Start
      BY <3>1, LapIs
    <3> QED BY <1>0, <2>1, <3>2, BufEndAssumption DEF Start
  <2>4. k > lapFrom
    <3>1. ASSUME k <= lapFrom
          PROVE  FALSE
      <4>1. lapFrom + 1 \in 1 .. Len(log) /\ lapFrom + 1 > k /\ lapFrom + 1 > lapFrom
        BY <1>0, <2>3, <3>1
      <4>2. log[lapFrom + 1].at > Start + LenMax + 1
        BY <2>1, <4>1, Throttled
      <4>3. log[lapFrom + 1].at = Start /\ LenMax \in Nat
        BY <2>3, <4>1, LapIs, MsgIs
      <4> QED BY <1>0, <4>2, <4>3
    <3> QED BY <1>0, <3>1
  <2>5. ASSUME NEW i \in k + 1 .. Len(log)
        PROVE  log[i].at > Start + LenMax + 1 /\ ~ (i <= lapFrom)
    <3>1. i \in 1 .. Len(log) /\ i > k /\ i > lapFrom
      BY <1>0, <2>4, <2>5
    <3>2. log[i].at > Start + LenMax + 1
      BY <2>1, <3>1, Throttled
    <3> QED BY <1>0, <3>1, <3>2
  <2> QED BY <2>1, <2>5 DEF Ahead
<1>3. CASE WrapTurn
  <2>1. pc = "seal" /\ pc' = "turned" /\ ptr' = Start /\ lapFrom' = Len(log) /\ log' = log
    BY <1>3 DEF WrapTurn
  <2>2. Reach' = Start
    BY <2>1 DEF Reach
  <2>3. ASSUME NEW i \in k + 1 .. Len(log)
        PROVE  log[i].at > Start + LenMax + 1 /\ log[i].at > Start
    <3>1. log[i].at > Start + LenMax + 1
      BY <2>1 DEF Ahead
    <3>2. i \in 1 .. Len(log)
      BY <1>0
    <3>3. log[i].at \in Nat /\ LenMax \in Nat
      BY <3>2, MsgIs
    <3> QED BY <1>0, <3>1, <3>3
  <2> QED BY <2>1, <2>2, <2>3 DEF Ahead
<1>4. ASSUME NEW id \in Id, StartMsg(id)
      PROVE  Ahead(k)'
  <2>1. /\ pc = "turned" \/ (pc = "idle" /\ ptr < BufEnd)
        /\ pc' = "id" /\ msgStart' = ptr /\ msg' = [id |-> id, tsc |-> clock + 2]
        /\ lapFrom' = lapFrom /\ log' = log
    BY <1>4 DEF StartMsg, Stamps, Rdtsc, histVars
  <2>2. LenOf(id) \in Nat /\ LenMax \in Nat /\ LenOf(id) <= LenMax
    BY LenOfType, LenMaxType
  <2>3. Reach' = ptr + LenOf(id) + 1
    BY <2>1 DEF Reach
  <2>4. ASSUME NEW i \in k + 1 .. Len(log), i <= lapFrom
        PROVE  log[i].at > Reach'
    <3>1. i \in 1 .. Len(log) /\ i > k /\ i > prevFrom
      BY <1>0, <2>4
    <3>2. log[i].at \in Nat
      BY <3>1, MsgIs
    <3>3. log[i].at > ptr + LenMax + 1
      <4>1. CASE pc = "turned"
        <5>1. ptr = Start /\ log[i].at > Start + LenMax + 1
          BY <4>1, Writers DEF Ahead
        <5> QED BY <5>1
      <4>2. CASE pc = "idle" /\ ptr < BufEnd
        BY <2>1, <2>4, <3>1, <4>2, Throttled
      <4> QED BY <2>1, <4>1, <4>2
    <3> QED BY <1>0, <2>2, <2>3, <3>2, <3>3
  <2> QED BY <2>1, <2>4 DEF Ahead
<1>5. CASE PutId \/ PutWord \/ EndMsgZero
  <2>1. /\ lapFrom' = lapFrom /\ log' = log /\ pc' \notin {"seal", "turned"} /\ Reach' = Reach
    <3>1. CASE PutId \/ PutWord
      BY <3>1 DEF PutId, PutWord, histVars, Reach
    <3>2. CASE EndMsgZero
      BY <3>2 DEF EndMsgZero, histVars, Reach
    <3> QED BY <1>5, <3>1, <3>2
  <2> QED BY <2>1 DEF Ahead
<1>6. CASE EndMsgLen
  <2>1. /\ lapFrom' = lapFrom /\ pc = "put" /\ pc' = "end" /\ ptr' = ptr + 1
        /\ ptr - msgStart = LenOf(msg.id)
    BY <1>6 DEF EndMsgLen
  <2>2. /\ Len(log') = Len(log) + 1
        /\ \A i \in 1 .. Len(log) : log'[i] = log[i]
    BY <1>6, Logged
  <2>3. Reach' = Reach
    <3>1. msgStart \in Nat /\ msg.id \in Id
      BY <2>1, Writers DEF Addr, Start
    <3>2. LenOf(msg.id) \in Nat
      BY <3>1, LenOfType
    <3>3. ptr = msgStart + LenOf(msg.id)
      BY <1>0, <2>1, <3>1, <3>2
    <3> QED BY <2>1, <3>3 DEF Reach
  <2>4. ASSUME NEW i \in k + 1 .. Len(log'), i <= lapFrom
        PROVE  log'[i].at > Reach
    <3>1. i \in 1 .. Len(log) /\ i \in k + 1 .. Len(log)
      BY <1>0, <2>2, <2>4
    <3>2. log[i].at > Reach
      BY <2>4, <3>1 DEF Ahead
    <3> QED BY <2>2, <3>1, <3>2
  <2> QED BY <2>1, <2>3, <2>4 DEF Ahead
<1> QED BY <1>1, <1>2, <1>3, <1>4, <1>5, <1>6

\* The message chosen is still there, and so are the tries for it.
LEMMA AskedTriesStep ==
    ASSUME IInv, Laps, QtctlIds = {}, Next, rpc # "open", UNCHANGED readVars,
           NEW k \in 0 .. Len(log), Asked(k), Tries(k), corruption \in Nat, curTsc \in Nat
    PROVE  Asked(k)' /\ Tries(k)'
<1>0. /\ Len(log) \in Nat /\ k \in Nat /\ k + 1 \in Nat /\ k + 1 > 0 /\ k + 2 \in Nat /\ k + 2 > 0
  BY Writers
<1>1. /\ cur' = cur /\ lastTsc' = lastTsc /\ corruption' = corruption /\ next' = next
      /\ curTsc' = curTsc /\ rpc' = rpc /\ skipping' = skipping /\ reg' = reg
  BY DEF readVars
<1>2. /\ Traced(k + 1) => Traced(k + 1)' /\ TscOf(k + 1)' = TscOf(k + 1)
      /\ Traced(k + 2) => Traced(k + 2)' /\ TscOf(k + 2)' = TscOf(k + 2)
      /\ Len(log') \in Nat /\ Len(log') >= Len(log)
      /\ (~ \E id \in Id : StartMsg(id)) => (Traced(k + 2)' => Traced(k + 2))
  BY <1>0, TracedKeeps
<1>7. curTsc <= clock + 1 => curTsc <= clock' + 1
  <2>1. clock \in Nat /\ clock' \in Nat /\ clock <= clock'
    BY Writers, ClockGrows
  <2>2. \A a, b, c \in Nat : a <= b /\ c <= a + 1 => c <= b + 1
    OBVIOUS
  <2> QED BY <2>1, <2>2
<1>3. Asked(k)'
  <2>1. ~ skipping /\ rpc # "poll" => curTsc <= clock' + 1
    BY <1>7 DEF Asked
  <2>2. ~ skipping' /\ rpc' # "poll" => curTsc' <= clock' + 1
    BY <1>1, <2>1
  <2>3. /\ skipping => /\ rpc \in {"tsc", "id", "len", "next", "start"}
                       /\ curTsc = AllOnes /\ next = 0 /\ corruption = 0
        /\ ~ skipping /\ rpc = "tsc" => next # 0
        /\ next # 0 => Traced(k + 1) /\ next = TscOf(k + 1)
    BY DEF Asked
  <2>4. next # 0 => Traced(k + 1)' /\ next = TscOf(k + 1)'
    BY <1>2, <2>3
  <2> QED BY <1>1, <2>2, <2>3, <2>4 DEF Asked, AllOnes
<1>4. corruption <= 2 /\ (k = Len(log) => corruption = 0)
  BY DEF Tries
<1>5. CASE corruption = 0
  BY <1>1, <1>5, <1>3 DEF Tries
<1>6. CASE corruption > 0
  <2>1. k < Len(log)
    BY <1>0, <1>4, <1>6
  <2>2. CASE Traced(k + 2)
    BY <1>0, <1>1, <1>2, <1>3, <1>4, <2>1, <2>2 DEF Tries
  <2>3. CASE ~ Traced(k + 2)
    <3>1. k + 1 = Len(log) /\ pc \notin {"id", "put"}
      BY <1>0, <2>1, <2>3 DEF Traced
    <3>2. /\ corruption = 1 /\ pc # "end"
          /\ rpc = "start" => pc # "idle"
          /\ rpc \in {"order", "tsc"} => TscOf(k + 1) < curTsc
      BY <1>6, <2>3, <3>1 DEF Tries
    <3>3. pc' # "end" /\ (pc' = "idle" => pc = "idle")
      <4>1. CASE WrapSeal \/ WrapTurn \/ \E id \in Id : StartMsg(id)
        BY <4>1 DEF WrapSeal, WrapTurn, StartMsg
      <4>2. CASE PutId \/ PutWord \/ EndMsgLen \/ EndMsgZero
        BY <3>1, <3>2, <4>2 DEF PutId, PutWord, EndMsgLen, EndMsgZero
      <4> QED BY <4>1, <4>2, Steps
    <3>4. TscOf(k + 1)' = TscOf(k + 1)
      BY <1>0, <1>2, <3>1 DEF Traced
    <3>5. k # Len(log')
      BY <1>0, <1>2, <2>1
    <3> QED BY <1>1, <1>3, <1>4, <3>2, <3>3, <3>4, <3>5 DEF Tries
  <2> QED BY <2>2, <2>3
<1> QED BY <1>0, <1>3, <1>4, <1>5, <1>6

\* A complete message is being read as what it is, unless the id was read too
\* early and is that of a message of another length ...
LEMMA ReadIs ==
    ASSUME IInv, ReaderInv, MessageFits, Laps, NEW k \in 0 .. Len(log),
           Passed(k), Ahead(k), IdIs(k), Reading, k < Len(log)
    PROVE  /\ cur < BufEnd /\ cur \in Nat /\ k + 1 \in 1 .. Len(log)
           /\ log[k + 1].at = cur /\ Intact(log[k + 1]) /\ mem[cur] = Tsc(log[k + 1].tsc)
           /\ mem[cur + 1] = IdCell(log[k + 1].id)
           /\ LenOf(reg.id) \in Nat /\ LenOf(reg.id) >= 2 /\ After = cur + LenOf(reg.id) + 1
           /\ rpc # "id" /\ ~ early => reg.id = log[k + 1].id
           /\ rpc # "id" /\ (early => LenOf(reg.id) = LenOf(log[k + 1].id)) =>
                  /\ After = EndOf(log[k + 1]) /\ LenOf(reg.id) = LenOf(log[k + 1].id)
                  /\ mem[cur + LenOf(reg.id)] = LenCell(LenOf(reg.id))
                  /\ cur + LenOf(reg.id) < EndOf(log[k + 1])
<1>1. cur < BufEnd
  BY DEF ReaderInv, ReaderHolds
<1>2. /\ k + 1 \in 1 .. Len(log) /\ log[k + 1].at = cur
      /\ Intact(log[k + 1]) /\ mem[cur] = Tsc(log[k + 1].tsc)
  BY <1>1, HereIs
<1>3. mem[cur + 1] = IdCell(log[k + 1].id)
  BY <1>2 DEF Intact
<1>4. cur \in Nat /\ LenOf(log[k + 1].id) \in Nat /\ EndOf(log[k + 1]) = cur + LenOf(log[k + 1].id) + 1
  BY <1>2, MsgIs
<1>5. LenOf(reg.id) \in Nat /\ LenOf(reg.id) >= 2 /\ After = cur + LenOf(reg.id) + 1
  <2>1. reg.id \in Id
    BY DEF ReaderInv, ReaderTypeOK
  <2> QED BY <2>1, LenOfType DEF After
<1>6. ASSUME rpc # "id", ~ early
      PROVE  reg.id = log[k + 1].id
  <2>1. IdCell(reg.id).val = IdCell(log[k + 1].id).val
    BY <1>3, <1>6 DEF IdIs
  <2> QED BY <2>1, Kinds
<1>7. ASSUME rpc # "id", early => LenOf(reg.id) = LenOf(log[k + 1].id)
      PROVE  /\ After = EndOf(log[k + 1]) /\ LenOf(reg.id) = LenOf(log[k + 1].id)
             /\ mem[cur + LenOf(reg.id)] = LenCell(LenOf(reg.id))
             /\ cur + LenOf(reg.id) < EndOf(log[k + 1])
  <2>1. LenOf(reg.id) = LenOf(log[k + 1].id)
    BY <1>6, <1>7
  <2>2. mem[cur + LenOf(reg.id)] = LenCell(LenOf(reg.id))
    BY <1>2, <2>1 DEF Intact
  <2> QED BY <1>4, <1>5, <2>1, <2>2
<1> QED BY <1>1, <1>2, <1>3, <1>4, <1>5, <1>6, <1>7

\* ... and the writer is beside it.
LEMMA Beside ==
    ASSUME IInv, MessageFits, Laps, NEW k \in 0 .. Len(log), Passed(k), Ahead(k),
           cur < BufEnd, k < Len(log)
    PROVE  ptr < cur \/ ptr >= EndOf(log[k + 1])
<1>0. /\ Len(log) \in Nat /\ lapFrom \in Nat /\ k + 1 \in 1 .. Len(log) /\ k + 1 > k
      /\ log[k + 1].at = cur /\ EndOf(log[k + 1]) \in Nat /\ ptr \in Nat
  BY LapIs, HereIs, MsgIs, Writers
<1>1. CASE k + 1 <= lapFrom
  BY <1>0, <1>1, AheadIntact
<1>2. CASE k + 1 > lapFrom
  <2>1. EndOf(log[k + 1]) <= LapEnd
    BY <1>0, <1>2, LapIs
  <2>2. LapEnd \in Nat /\ LapEnd <= ptr
    <3>1. CASE pc \in {"id", "put"}
      BY <1>0, <3>1, Writers DEF IInv, Position, Addr, Start
    <3>2. CASE pc \notin {"id", "put"}
      <4>1. ptr = LapEnd
        BY <3>2, Writers DEF IInv, Position
      <4> QED BY <1>0, <4>1
    <3> QED BY <3>1, <3>2
  <2> QED BY <1>0, <2>1, <2>2
<1> QED BY <1>0, <1>1, <1>2

\* The length byte that was checked stays.
LEMMA LengthKept ==
    ASSUME IInv, ReaderInv, MessageFits, Laps, QtctlIds = {}, Next,
           NEW k \in 0 .. Len(log), Passed(k), Ahead(k), Reads(k), IdIs(k),
           rpc \in {"next", "start"}, ~ early
    PROVE  mem'[cur + LenOf(reg.id)] = LenCell(LenOf(reg.id))
<1>0. /\ Reading /\ rpc # "id" /\ mem[cur + LenOf(reg.id)] = LenCell(LenOf(reg.id)) /\ Traced(k + 1)
      /\ cur < BufEnd /\ cur \in Nat /\ cur + LenOf(reg.id) \in Addr /\ LenOf(reg.id) \in Nat
      /\ ptr \in Nat /\ ptr \in Addr /\ TypeOK /\ Len(log) \in Nat /\ LenOf(reg.id) >= 2
  <2>1. Reading /\ rpc # "id"
    BY DEF Reading
  <2>2. mem[cur + LenOf(reg.id)] = LenCell(LenOf(reg.id)) /\ Traced(k + 1) /\ cur < BufEnd
    BY <2>1 DEF Reads, ReaderInv, ReaderHolds
  <2>3. cur \in Nat /\ cur + LenOf(reg.id) \in Addr /\ reg.id \in Id
    BY <2>2, Cells DEF ReaderInv
  <2>4. LenOf(reg.id) \in Nat /\ LenOf(reg.id) >= 2
    BY <2>3, LenOfType
  <2> QED BY <2>1, <2>2, <2>3, <2>4, Writers DEF IInv
<1>1. CASE k < Len(log)
  <2>1. cur + LenOf(reg.id) < EndOf(log[k + 1]) /\ EndOf(log[k + 1]) \in Nat
    BY <1>0, <1>1, ReadIs, MsgIs
  <2>2. ptr # cur + LenOf(reg.id)
    BY <1>0, <1>1, <2>1, Beside
  <2>3. mem' = mem \/ \E c : Store(ptr, c)
    BY Touches
  <2> QED BY <1>0, <2>2, <2>3, StoreAt
<1>2. CASE ~ (k < Len(log))
  <2>1. k = Len(log)
    BY <1>0, <1>2
  <2>2. pc = "put" /\ mem[cur + 1] = IdCell(reg.id)
    BY <1>0, <2>1 DEF IdIs
  <2>3. msgStart = cur /\ IInv
    BY <1>0, <2>1, <2>2, HereIs
  <2>4. CASE PutWord \/ EndMsgLen
    <3>1. mem[cur + 1] = IdCell(msg.id)
      BY <2>2, <2>3 DEF IInv, Partial
    <3>2. IdCell(msg.id).val = IdCell(reg.id).val
      BY <2>2, <3>1
    <3>3. reg.id = msg.id
      BY <3>2, Kinds
    <3>4. CASE PutWord
      <4>1. ptr - cur < LenOf(reg.id) /\ Store(ptr, Word(msg.tsc))
        BY <2>3, <3>3, <3>4 DEF PutWord
      <4>2. ptr # cur + LenOf(reg.id)
        BY <1>0, <4>1
      <4> QED BY <1>0, <4>1, <4>2, StoreAt
    <3>5. CASE EndMsgLen
      <4>1. ptr - cur = LenOf(reg.id) /\ Store(ptr, LenCell(ptr - cur))
        BY <2>3, <3>3, <3>5 DEF EndMsgLen
      <4>2. ptr = cur + LenOf(reg.id)
        BY <1>0, <4>1
      <4> QED BY <1>0, <4>1, <4>2, StoreAt
    <3> QED BY <2>4, <3>4, <3>5
  <2>5. CASE WrapSeal \/ WrapTurn \/ (\E id \in Id : StartMsg(id)) \/ PutId \/ EndMsgZero
    BY <2>2, <2>5 DEF WrapSeal, WrapTurn, StartMsg, Stamps, PutId, EndMsgZero
  <2> QED BY <2>4, <2>5, Steps
<1> QED BY <1>1, <1>2

\* What is being read stays what it is.
LEMMA ReadsStep ==
    ASSUME IInv, ReaderInv, MessageFits, Laps, QtctlIds = {}, Next, UNCHANGED readVars,
           early' = early,
           NEW k \in 0 .. Len(log), Passed(k), Ahead(k), Reads(k), IdIs(k)
    PROVE  Reads(k)'
<1>0. Len(log) \in Nat /\ k \in Nat /\ k + 1 \in Nat /\ k + 1 > 0
  BY Writers
<1>1. /\ cur' = cur /\ lastTsc' = lastTsc /\ corruption' = corruption /\ next' = next
      /\ curTsc' = curTsc /\ rpc' = rpc /\ skipping' = skipping /\ reg' = reg
  BY DEF readVars
<1>2. /\ Traced(k + 1) => Traced(k + 1)' /\ TscOf(k + 1)' = TscOf(k + 1)
      /\ Len(log') \in Nat /\ Len(log') >= Len(log)
      /\ \A i \in 1 .. Len(log) : log'[i] = log[i]
  BY <1>0, TracedKeeps
<1>3. rpc \in {"next", "start"} /\ ~ early =>
          mem'[cur + LenOf(reg.id)] = LenCell(LenOf(reg.id))
  BY LengthKept
<1>4. k < Len(log) => k < Len(log') /\ ~ (k + 1 = Len(log') /\ pc' = "end")
  <2>1. CASE EndMsgLen
    BY <1>0, <2>1, Logged
  <2>2. CASE WrapSeal \/ WrapTurn \/ (\E id \in Id : StartMsg(id)) \/ PutId \/ PutWord \/ EndMsgZero
    <3>1. pc' # "end"
      BY <2>2 DEF WrapSeal, WrapTurn, StartMsg, PutId, PutWord, EndMsgZero
    <3> QED BY <1>0, <1>2, <3>1
  <2> QED BY <2>1, <2>2, Steps
<1>5. CASE ~ Reading
  BY <1>1, <1>5 DEF Reads, Reading
<1>6. CASE Reading
  <2>1. /\ Traced(k + 1) /\ reg.tsc = TscOf(k + 1) /\ reg.tsc < curTsc
        /\ ~ skipping => reg.tsc = next
        /\ rpc = "format" => /\ k < Len(log) /\ Len(reg.words) <= Words[reg.id]
                             /\ LenOf(reg.id) = LenOf(log[k + 1].id)
                             /\ early \/ reg.id = log[k + 1].id
                             /\ \A w \in 1 .. Len(reg.words) : reg.words[w] = Word(reg.tsc)
    BY <1>6 DEF Reads
  <2>2. k < Len(log) => log'[k + 1] = log[k + 1]
    BY <1>0, <1>2
  <2> QED BY <1>1, <1>2, <1>3, <1>4, <2>1, <2>2 DEF Reads, LenOf
<1> QED BY <1>5, <1>6

\* The id that was read stays what it is, and the next message begins after the
\* poll if this one was found while it was started.
LEMMA IdIsStep ==
    ASSUME IInv, ReaderInv, MessageFits, Laps, QtctlIds = {}, Next, UNCHANGED readVars,
           early' = early,
           NEW k \in 0 .. Len(log), Passed(k), Ahead(k), Asked(k), IdIs(k)
    PROVE  IdIs(k)'
<1>0. /\ Len(log) \in Nat /\ k \in Nat /\ k + 1 \in Nat /\ k + 2 \in Nat /\ k + 2 > 0
      /\ ptr \in Nat /\ Start <= ptr /\ clock \in Nat /\ TypeOK
  BY Writers DEF IInv
<1>1. /\ cur' = cur /\ lastTsc' = lastTsc /\ corruption' = corruption /\ next' = next
      /\ curTsc' = curTsc /\ rpc' = rpc /\ skipping' = skipping /\ reg' = reg
  BY DEF readVars
<1>2. /\ Traced(k + 2) => TscOf(k + 2)' = TscOf(k + 2)
      /\ Len(log') \in Nat /\ Len(log') >= Len(log)
      /\ (~ \E id \in Id : StartMsg(id)) => (Traced(k + 2)' => Traced(k + 2))
  BY <1>0, TracedKeeps
<1>3. CASE ~ (Reading /\ rpc # "id")
  BY <1>1, <1>3 DEF IdIs, Reading
<1>4. CASE Reading /\ rpc # "id" /\ early
  <2>1. /\ tailPtr # 0 /\ lastTsc # 0
        /\ ~ skipping => /\ corruption = 0 /\ curTsc <= clock + 1
                         /\ Traced(k + 2) => curTsc < TscOf(k + 2)
    BY <1>4 DEF IdIs, Asked, Reading
  <2>2. tailPtr' # 0
    <3>1. tailPtr' = tailPtr \/ tailPtr' = ptr
      BY Steps DEF WrapSeal, WrapTurn, StartMsg, PutId, PutWord, EndMsgLen, EndMsgZero
    <3> QED BY <1>0, <2>1, <3>1 DEF Start
  <2>3. ASSUME ~ skipping, Traced(k + 2)'
        PROVE  curTsc < TscOf(k + 2)'
    <3>1. CASE Traced(k + 2)
      BY <1>2, <2>1, <2>3, <3>1
    <3>2. CASE ~ Traced(k + 2)
      <4>1. \E id \in Id : StartMsg(id)
        BY <1>2, <2>3, <3>2
      <4>2. log' = log /\ msg'.tsc = clock + 2
        BY <4>1 DEF StartMsg, Rdtsc, histVars
      <4>3. ~ (k + 2 <= Len(log))
        BY <3>2 DEF Traced
      <4>4. TscOf(k + 2)' = clock + 2
        BY <4>2, <4>3 DEF TscOf
      <4>5. curTsc \in Nat
        BY MaxTscAssumption DEF ReaderInv, ReaderTypeOK, AllOnes
      <4> QED BY <1>0, <2>1, <2>3, <4>4, <4>5
    <3> QED BY <3>1, <3>2
  <2> QED BY <1>1, <1>4, <2>1, <2>2, <2>3 DEF IdIs
<1>5. CASE Reading /\ rpc # "id" /\ ~ early
  <2>1. mem[cur + 1] = IdCell(reg.id) /\ (k = Len(log) => pc = "put")
    BY <1>5 DEF IdIs
  <2>2. cur < BufEnd /\ cur \in Nat /\ cur + 1 \in Addr
    BY <1>5, Cells DEF ReaderInv, ReaderHolds
  <2>3. ptr # cur + 1
    <3>1. CASE k < Len(log)
      <4>1. ptr < cur \/ ptr >= EndOf(log[k + 1])
        BY <2>2, <3>1, Beside
      <4>2. log[k + 1].at = cur /\ k + 1 \in 1 .. Len(log)
        BY <2>2, <3>1, HereIs
      <4>3. EndOf(log[k + 1]) = cur + LenOf(log[k + 1].id) + 1 /\ LenOf(log[k + 1].id) \in Nat
            /\ LenOf(log[k + 1].id) >= 2
        BY <4>2, MsgIs
      <4> QED BY <1>0, <2>2, <4>1, <4>3
    <3>2. CASE k = Len(log)
      <4>1. pc = "put"
        BY <2>1, <3>2
      <4>2. msgStart = cur
        BY <2>2, <3>2, <4>1, HereIs
      <4>3. ptr - msgStart >= 2
        BY <1>0, <2>2, <4>1, <4>2, LenOfType DEF IInv, Partial, TypeOK
      <4> QED BY <1>0, <2>2, <4>2, <4>3
    <3> QED BY <1>0, <3>1, <3>2
  <2>4. mem'[cur + 1] = mem[cur + 1]
    <3>1. mem' = mem \/ \E c : Store(ptr, c)
      BY Touches
    <3> QED BY <1>0, <2>2, <2>3, <3>1, StoreAt
  <2>5. ASSUME k = Len(log')
        PROVE  pc' = "put"
    <3>1. k = Len(log) /\ pc = "put"
      BY <1>0, <1>2, <2>1, <2>5
    <3>2. ~ EndMsgLen
      BY <1>0, <2>5, <3>1, Logged
    <3> QED BY <3>1, <3>2, Steps DEF WrapSeal, WrapTurn, StartMsg, Stamps, PutId, PutWord, EndMsgZero
  <2> QED BY <1>1, <1>5, <2>1, <2>4, <2>5 DEF IdIs
<1> QED BY <1>3, <1>4, <1>5

\* The reader keeps its place whatever the writer does.
LEMMA WriterKeepsPlace ==
    ASSUME IInv, ReaderInv, MessageFits, Rising, Laps, QtctlIds = {}, KeepsUp,
           WriterStep, UNCHANGED readVars, early' = early, rpc # "open",
           NEW k \in 0 .. Len(log), AtPlace(k)
    PROVE  AtPlace(k)' /\ k \in 0 .. Len(log')
<1>1. Passed(k) /\ Ahead(k) /\ Asked(k) /\ Reads(k) /\ IdIs(k) /\ Tries(k)
  BY DEF AtPlace
<1>2. Next /\ corruption \in Nat /\ curTsc \in Nat
  BY MaxTscAssumption DEF WriterStep, ReaderInv, ReaderTypeOK, AllOnes
<1>3. Passed(k)' /\ k \in 0 .. Len(log')
  BY <1>1, PassedStep
<1>4. Ahead(k)'
  BY <1>1, AheadStep
<1>5. Asked(k)' /\ Tries(k)'
  BY <1>1, <1>2, AskedTriesStep
<1>6. Reads(k)'
  BY <1>1, <1>2, ReadsStep
<1>7. IdIs(k)'
  BY <1>1, <1>2, IdIsStep
<1> QED BY <1>3, <1>4, <1>5, <1>6, <1>7 DEF AtPlace

(***************************************************************************)
(* The steps of the reader                                                 *)
(***************************************************************************)

\* A step of the reader changes nothing of what the ring and the log hold.
LEMMA Still ==
    ASSUME UNCHANGED vars, NEW k
    PROVE  /\ mem' = mem /\ ptr' = ptr /\ pc' = pc /\ log' = log /\ lapFrom' = lapFrom
           /\ prevFrom' = prevFrom /\ clock' = clock /\ msgStart' = msgStart /\ msg' = msg
           /\ tailPtr' = tailPtr
           /\ Ahead(k)' = Ahead(k)
           /\ Traced(k + 1)' = Traced(k + 1) /\ TscOf(k + 1)' = TscOf(k + 1)
           /\ Traced(k + 2)' = Traced(k + 2) /\ TscOf(k + 2)' = TscOf(k + 2)
           /\ Rising' = Rising /\ Laps' = Laps
<1>1. /\ mem' = mem /\ ptr' = ptr /\ pc' = pc /\ log' = log /\ lapFrom' = lapFrom
      /\ prevFrom' = prevFrom /\ clock' = clock /\ msgStart' = msgStart /\ msg' = msg
      /\ tailPtr' = tailPtr /\ off' = off
  BY DEF vars, ringVars, histVars
<1>2. Reach' = Reach
  BY <1>1 DEF Reach
<1>3. Ahead(k)' = Ahead(k)
  BY <1>1, <1>2 DEF Ahead
<1>4. /\ Traced(k + 1)' = Traced(k + 1) /\ TscOf(k + 1)' = TscOf(k + 1)
      /\ Traced(k + 2)' = Traced(k + 2) /\ TscOf(k + 2)' = TscOf(k + 2)
  BY <1>1 DEF Traced, TscOf
<1>5. Rising' = Rising
  BY <1>1 DEF Rising
<1>6. Laps' = Laps
  BY <1>1 DEF Laps
<1> QED BY <1>1, <1>3, <1>4, <1>5, <1>6

\* Its place does not change while it reads.
LEMMA StillPassed ==
    ASSUME UNCHANGED vars, UNCHANGED <<cur, lastTsc, skipping>>, NEW k, Passed(k)
    PROVE  Passed(k)'
BY Still DEF Passed, EndOf

\* The reader begins behind the lap before the present one.
LEMMA OpenPlace ==
    ASSUME IInv, Laps, KeepsUp, Open, UNCHANGED vars, KeepsPlace, NEW k, k = lapFrom
    PROVE  AtPlace(k)' /\ k \in 0 .. Len(log') /\ skipping /\ skipping'
<1>0. /\ Len(log) \in Nat /\ lapFrom \in Nat /\ lapFrom <= Len(log) /\ prevFrom \in Nat
      /\ lapFrom > 0 => prevFrom < lapFrom
  BY LapIs
<1>1. /\ rpc = "open" /\ pc = "idle" /\ rpc' = "tsc" /\ curTsc' = AllOnes
      /\ UNCHANGED <<cur, lastTsc, corruption, next, skipping>>
  BY DEF Open
<1>2. lastTsc = 0 /\ cur = Start /\ corruption = 0 /\ next = 0 /\ skipping
  BY <1>1 DEF KeepsPlace
<1>3. Passed(k)'
  BY <1>0, <1>1, <1>2, Still DEF Passed
<1>4. Ahead(k)'
  <2>1. ASSUME NEW i \in k + 1 .. Len(log)
        PROVE  ~ (i <= lapFrom)
    BY <1>0
  <2>2. Ahead(k)
    BY <1>1, <2>1 DEF Ahead
  <2> QED BY <2>2, Still
<1>5. Asked(k)' /\ Reads(k)' /\ IdIs(k)' /\ Tries(k)'
  BY <1>1, <1>2 DEF Asked, Reads, IdIs, Reading, Tries
<1>6. log' = log
  BY DEF vars, histVars
<1>7. k \in 0 .. Len(log')
  BY <1>0, <1>6
<1>8. AtPlace(k)'
  BY <1>3, <1>4, <1>5 DEF AtPlace
<1> QED BY <1>1, <1>2, <1>7, <1>8

\* A poll comes after all that has a timestamp, and the message chosen is the
\* next one.
LEMMA PollOrderPlace ==
    ASSUME IInv, ReaderInv, MessageFits, Rising, Laps, NEW k \in 0 .. Len(log), AtPlace(k),
           Poll \/ Order, UNCHANGED vars
    PROVE  AtPlace(k)' /\ skipping' = skipping
<1>0. /\ Len(log) \in Nat /\ k \in Nat /\ k + 1 \in Nat /\ k + 1 > 0 /\ k + 2 \in Nat /\ k + 2 > 0
      /\ clock \in Nat /\ corruption \in Nat
  BY Writers DEF ReaderInv, ReaderTypeOK
<1>1. Passed(k) /\ Ahead(k) /\ Asked(k) /\ Reads(k) /\ IdIs(k) /\ Tries(k)
  BY DEF AtPlace
<1>2. /\ rpc \in {"poll", "order"} /\ rpc' \in {"poll", "order", "tsc"}
      /\ UNCHANGED <<cur, lastTsc, skipping, corruption>>
  BY DEF Poll, Order
<1>3. ~ skipping /\ cur < BufEnd
  <2>1. ~ skipping
    BY <1>1, <1>2 DEF Asked
  <2> QED BY <2>1 DEF ReaderInv, ReaderHolds
<1>4. Passed(k)' /\ Ahead(k)' /\ Reads(k)' /\ IdIs(k)'
  <2>1. Passed(k)'
    BY <1>1, <1>2, StillPassed
  <2> QED BY <1>1, <1>2, <2>1, Still DEF Reads, IdIs, Reading
<1>5. CASE Poll
  <2>1. /\ rpc = "poll" /\ curTsc' = clock + 1 /\ next' = next
        /\ rpc' = IF next # 0 THEN "tsc" ELSE "order"
    BY <1>5 DEF Poll
  <2>2. Asked(k)'
    <3>1. curTsc' <= clock' + 1
      <4>1. clock' = clock
        BY DEF vars, ringVars
      <4> QED BY <1>0, <2>1, <4>1
    <3>2. next # 0 => Traced(k + 1)' /\ next = TscOf(k + 1)'
      BY <1>1, Still DEF Asked
    <3>3. ~ skipping' /\ next' = next /\ (rpc' = "tsc" => next # 0)
      BY <1>2, <1>3, <2>1
    <3> QED BY <3>1, <3>2, <3>3 DEF Asked
  <2>3. Traced(k + 1) => TscOf(k + 1) < clock + 1
    BY <1>0, TscIs
  <2>4. Traced(k + 2) => TscOf(k + 2) < clock + 1
    BY <1>0, TscIs
  <2>5. k + 1 = Len(log) => Traced(k + 1)
    BY <1>0 DEF Traced
  <2>6. Tries(k)'
    BY <1>1, <1>2, <2>1, <2>3, <2>4, <2>5, Still DEF Tries
  <2> QED BY <1>2, <1>4, <2>2, <2>6 DEF AtPlace
<1>6. CASE Order /\ rpc' = "poll"
  <2>1. rpc = "order" /\ next' = next /\ curTsc' = curTsc
    BY <1>6 DEF Order
  <2>2. Asked(k)' /\ Tries(k)'
    BY <1>1, <1>2, <1>3, <1>6, <2>1, Still DEF Asked, Tries
  <2> QED BY <1>2, <1>4, <2>2 DEF AtPlace
<1>7. CASE Order /\ rpc' = "tsc"
  <2>1. /\ rpc = "order" /\ next' = NextTsc /\ NextTsc # 0
        /\ curTsc' = curTsc
    BY <1>7 DEF Order
  <2>2. Traced(k + 1)
    BY <1>1, <1>3, <2>1, NothingYet
  <2>3. next' = TscOf(k + 1)
    BY <1>1, <1>3, <2>1, <2>2, NextTscIs
  <2>4. Asked(k)' /\ Tries(k)'
    BY <1>1, <1>2, <1>3, <1>7, <2>1, <2>2, <2>3, Still DEF Asked, Tries
  <2> QED BY <1>2, <1>4, <2>4 DEF AtPlace
<1> QED BY <1>2, <1>5, <1>6, <1>7 DEF Order

\* A try that fails: in fastforward the reader begins to tail where it is, else
\* it tries again, and not too often.
LEMMA Fails ==
    ASSUME IInv, RingHolds, ReaderInv, KeptUpWith, UNCHANGED vars, Invalid,
           NEW k \in 0 .. Len(log), AtPlace(k), rpc # "poll",
           skipping => ~ (lastTsc = 0 /\ lapFrom > 0),
           ~ skipping =>
               /\ Traced(k + 2) => ~ (TscOf(k + 2) < curTsc)
               /\ k = Len(log) => pc # "idle"
               /\ k + 1 = Len(log) /\ ~ Traced(k + 2) /\ pc = "idle" => corruption = 0
    PROVE  AtPlace(k)' /\ ~ skipping'
<1>0. /\ Len(log) \in Nat /\ k \in Nat /\ corruption \in Nat /\ Threshold \in Nat /\ Threshold >= 2
      /\ Patient /\ cur \in Addr
  BY Writers, ThresholdAssumption DEF ReaderInv, ReaderTypeOK, KeptUpWith
<1>1. Passed(k) /\ Ahead(k) /\ Asked(k) /\ Reads(k) /\ IdIs(k) /\ Tries(k)
  BY DEF AtPlace
<1>2. Ahead(k)'
  BY <1>1, Still
<1>3. CASE skipping
  <2>1. /\ skipping' = FALSE /\ cur' = (IF cur >= BufEnd THEN Start ELSE cur)
        /\ corruption' = corruption /\ rpc' = "poll"
        /\ UNCHANGED <<lastTsc, next, curTsc>>
    BY <1>3 DEF Invalid, EndRound
  <2>2. next = 0 /\ corruption = 0
    BY <1>1, <1>3 DEF Asked
  <2>3. Asked(k)' /\ Reads(k)' /\ IdIs(k)' /\ Tries(k)'
    BY <2>1, <2>2 DEF Asked, Reads, IdIs, Reading, Tries
  <2>4. cur' = cur \/ (cur' = Start /\ cur >= BufEnd)
    BY <2>1
  <2>5. cur \in Nat /\ Start < BufEnd /\ BufEnd \in Nat /\ Start \in Nat
    BY <1>0, BufEndAssumption DEF Addr, Start
  <2>6. pc = "end" => ptr # Start
    BY DEF RingHolds, Begins
  <2>7. Passed(k)'
    <3>1. CASE cur < BufEnd
      <4>1. cur' = cur
        BY <2>1, <2>5, <3>1
      <4> QED BY <1>1, <1>3, <2>1, <3>1, <4>1, Still DEF Passed, EndOf
    <3>2. CASE ~ (cur < BufEnd)
      <4>1. cur' = Start /\ cur # Start
        BY <2>1, <2>5, <3>2
      <4>2. lastTsc # 0 /\ EndOf(log[k]) >= BufEnd
        BY <1>1, <2>5, <3>2, <4>1 DEF Passed
      <4> QED BY <1>1, <2>1, <2>6, <4>1, <4>2, Still DEF Passed, EndOf
    <3> QED BY <3>1, <3>2
  <2> QED BY <1>2, <2>1, <2>3, <2>7 DEF AtPlace
<1>4. CASE ~ skipping
  <2>1. corruption <= 1
    <3>1. CASE k = Len(log)
      BY <1>1, <3>1 DEF Tries
    <3>2. CASE k + 1 = Len(log) /\ ~ Traced(k + 2)
      BY <1>0, <1>1, <3>2 DEF Tries
    <3>3. CASE Traced(k + 2)
      BY <1>0, <1>1, <1>4, <3>3 DEF Tries
    <3> QED BY <1>0, <3>1, <3>2, <3>3 DEF Traced
  <2>2. EndRound(Counted) /\ UNCHANGED <<cur, lastTsc, next, curTsc, skipping>>
    BY <1>0, <1>4, <2>1 DEF Invalid
  <2>3. /\ Counted = IF pc = "idle" THEN corruption + 1 ELSE corruption
        /\ corruption' = Counted /\ rpc' = "poll"
    BY <1>0, <2>1, <2>2 DEF Counted, Counting, EndRound
  <2>4. Passed(k)'
    BY <1>1, <2>2, StillPassed
  <2>5. Asked(k)' /\ Reads(k)' /\ IdIs(k)'
    BY <1>1, <1>4, <2>2, <2>3, Still DEF Asked, Reads, IdIs, Reading
  <2>6. k = Len(log) => Counted = 0
    BY <1>1, <1>4, <2>3 DEF Tries
  <2>7. k + 1 = Len(log) /\ ~ Traced(k + 2) /\ Counted > 0 => Counted = 1 /\ pc # "end"
    BY <1>0, <1>1, <1>4, <2>1, <2>3 DEF Tries
  <2>8. Tries(k)'
    <3>1. Counted <= 2
      BY <1>0, <2>1, <2>3
    <3>2. /\ log' = log /\ pc' = pc
          /\ Traced(k + 1)' = Traced(k + 1) /\ TscOf(k + 1)' = TscOf(k + 1)
          /\ Traced(k + 2)' = Traced(k + 2) /\ TscOf(k + 2)' = TscOf(k + 2)
      BY Still
    <3>3. corruption' = Counted /\ rpc' = "poll"
      BY <2>3
    <3> HIDE DEF Counted
    <3> QED BY <2>6, <2>7, <3>1, <3>2, <3>3 DEF Tries
  <2> QED BY <1>2, <1>4, <2>2, <2>4, <2>5, <2>8 DEF AtPlace
<1> QED BY <1>3, <1>4

\* The timestamp that is read is that of the next message; only one from after
\* the poll is refused.
LEMMA ReadTscPlace ==
    ASSUME IInv, RingHolds, ReaderInv, KeptUpWith, Rising, Laps, UNCHANGED vars, ReadTsc,
           NEW k \in 0 .. Len(log), AtPlace(k)
    PROVE  AtPlace(k)'
<1>0. /\ Len(log) \in Nat /\ k \in Nat /\ k + 1 \in Nat /\ k + 1 > 0 /\ k + 2 \in Nat /\ k + 2 > 0
      /\ clock \in Nat /\ corruption \in Nat /\ lastTsc \in Nat /\ curTsc \in Nat /\ MessageFits
      /\ ReaderTypeOK /\ TypeOK /\ AllOnes \in Nat /\ AllOnes > clock
  <2>1. Len(log) \in Nat /\ clock \in Nat /\ clock <= MaxTsc
    BY Writers
  <2>2. AllOnes \in Nat /\ AllOnes = MaxTsc + 2
    BY MaxTscAssumption DEF AllOnes
  <2>3. ReaderTypeOK /\ TypeOK /\ MessageFits
    BY DEF ReaderInv, IInv, KeptUpWith
  <2>4. corruption \in Nat /\ lastTsc \in Nat /\ curTsc \in Nat
    BY <2>2, <2>3 DEF ReaderTypeOK
  <2> QED BY <2>1, <2>2, <2>3, <2>4, MaxTscAssumption
<1>1. Passed(k) /\ Ahead(k) /\ Asked(k) /\ Reads(k) /\ IdIs(k) /\ Tries(k)
  BY DEF AtPlace
<1>2. rpc = "tsc"
  BY DEF ReadTsc
<1>3. ~ skipping => /\ cur < BufEnd /\ next # 0 /\ Traced(k + 1)
                    /\ next = TscOf(k + 1)
  BY <1>1, <1>2 DEF Asked, ReaderInv, ReaderHolds
<1>4. ASSUME cur < BufEnd, Traced(k + 1)
      PROVE  /\ NextTsc = TscOf(k + 1) /\ TscOf(k + 1) > lastTsc
             /\ TscOf(k + 1) \in Nat /\ TscOf(k + 1) > 0 /\ TscOf(k + 1) <= clock
  BY <1>0, <1>1, <1>4, NextTscIs
<1>5. ~ (NextTsc = 0 /\ ~ skipping)
  BY <1>3, <1>4
<1>6. CASE Invalid /\ (NextTsc # 0 =>
                          NextTsc < lastTsc \/ NextTsc >= curTsc)
  <2>1. skipping => ~ (lastTsc = 0 /\ lapFrom > 0)
    <3>1. SUFFICES ASSUME skipping, lastTsc = 0, lapFrom > 0 PROVE FALSE
      OBVIOUS
    <3>2. k = lapFrom /\ pc = "idle" /\ cur = Start
      BY <1>1, <3>1 DEF Passed
    <3>3. cur < BufEnd
      BY <3>2, BufEndAssumption DEF Start
    <3>4. Traced(k + 1)
      <4>1. k < Len(log)
        BY <1>0, <3>1, <3>2, LapIs DEF Laps
      <4> QED BY <1>0, <4>1 DEF Traced
    <3>5. curTsc = AllOnes
      BY <1>1, <3>1 DEF Asked
    <3> QED BY <1>0, <1>4, <1>6, <3>1, <3>3, <3>4, <3>5
  <2>2. ~ skipping => TscOf(k + 1) >= curTsc
    BY <1>0, <1>3, <1>4, <1>6
  <2>3. ~ skipping /\ Traced(k + 2) => ~ (TscOf(k + 2) < curTsc)
    <3>1. SUFFICES ASSUME ~ skipping, Traced(k + 2) PROVE ~ (TscOf(k + 2) < curTsc)
      OBVIOUS
    <3>2. k + 1 \in 1 .. Len(log)
      BY <1>0, <3>1 DEF Traced
    <3>3. log[k + 1].tsc < TscOf(k + 2) /\ TscOf(k + 2) \in Nat
      BY <1>0, <3>1, <3>2, TscIs
    <3>4. TscOf(k + 1) = log[k + 1].tsc
      BY <3>2 DEF TscOf
    <3>5. TscOf(k + 1) \in Nat
      BY <1>3, <1>4, <3>1
    <3> QED BY <1>0, <2>2, <3>1, <3>3, <3>4, <3>5
  <2>4. ~ skipping /\ k = Len(log) => pc # "idle"
    BY <1>0, <1>3 DEF Traced
  <2>5. ~ skipping /\ k + 1 = Len(log) /\ ~ Traced(k + 2) /\ pc = "idle" => corruption = 0
    BY <1>0, <1>1, <1>2, <1>3, <1>4, <2>2 DEF Tries
  <2> QED BY <1>1, <1>2, <1>6, <2>1, <2>3, <2>4, <2>5, Fails
<1>7. CASE /\ NextTsc > 0 /\ NextTsc < curTsc
           /\ reg' = [NoReg EXCEPT !.tsc = NextTsc]
           /\ rpc' = "id"
           /\ UNCHANGED <<cur, lastTsc, corruption, next, curTsc, skipping>>
  <2>1. cur < BufEnd
    BY <1>0, <1>7, Accepts
  <2>2. Traced(k + 1)
    <3>1. NextTsc # 0
      BY <1>7
    <3> QED BY <1>0, <1>1, <2>1, <3>1, NothingYet
  <2>3. NextTsc = TscOf(k + 1)
    BY <1>4, <2>1, <2>2
  <2>4. reg'.tsc = TscOf(k + 1)
    BY <1>7, <2>3 DEF NoReg
  <2>5. Passed(k)'
    BY <1>1, <1>7, StillPassed
  <2>6. Ahead(k)'
    BY <1>1, Still
  <2>7. Asked(k)'
    BY <1>1, <1>2, <1>7, Still DEF Asked
  <2>8. Reads(k)' /\ IdIs(k)'
    BY <1>3, <1>7, <2>2, <2>3, <2>4, Still DEF Reads, IdIs, Reading
  <2>9. Tries(k)'
    BY <1>1, <1>2, <1>7, Still DEF Tries
  <2> QED BY <2>5, <2>6, <2>7, <2>8, <2>9 DEF AtPlace
<1>8. LET tsc == NextTsc
      IN  \/ tsc = 0 /\ ~ skipping
          \/ Invalid /\ (tsc # 0 => tsc < lastTsc \/ tsc >= curTsc)
          \/ /\ tsc > 0 /\ tsc < curTsc
             /\ reg' = [NoReg EXCEPT !.tsc = tsc]
             /\ rpc' = "id"
             /\ UNCHANGED <<cur, lastTsc, corruption, next, curTsc, skipping>>
  BY DEF ReadTsc
<1> QED BY <1>5, <1>6, <1>7, <1>8

\* While the next message is being written its fields may be missing; such a
\* try is not counted.
LEMMA FailsEarly ==
    ASSUME IInv, RingHolds, ReaderInv, KeptUpWith, Laps, UNCHANGED vars, Invalid,
           NEW k \in 0 .. Len(log), AtPlace(k), Reading, k = Len(log)
    PROVE  AtPlace(k)'
<1>0. /\ Len(log) \in Nat /\ k \in Nat /\ k + 1 \in Nat /\ k + 2 \in Nat /\ Traced(k + 1)
  BY Writers DEF AtPlace, Reads
<1>1. pc \in {"id", "put"} /\ ~ Traced(k + 2) /\ pc # "idle"
  BY <1>0 DEF Traced
<1>2. skipping => ~ (lastTsc = 0 /\ lapFrom > 0)
  BY <1>1 DEF AtPlace, Passed
<1>3. rpc # "poll"
  BY DEF Reading
<1>4. ~ (k + 1 = Len(log))
  BY <1>0
<1> QED BY <1>1, <1>2, <1>3, <1>4, Fails

\* If its id was loaded too early, the reader found the message while it was
\* started: it did not try before, and what follows is from after the poll.
LEMMA FailsHasty ==
    ASSUME IInv, RingHolds, ReaderInv, KeptUpWith, Rising, Laps, UNCHANGED vars, Invalid,
           NEW k \in 0 .. Len(log), AtPlace(k), Reading, rpc # "id", early
    PROVE  AtPlace(k)'
<1>0. /\ Len(log) \in Nat /\ k \in Nat /\ k + 1 \in Nat /\ k + 2 \in Nat /\ k + 2 > 0
      /\ Traced(k + 1) /\ rpc # "poll" /\ curTsc \in Nat
  BY Writers, MaxTscAssumption DEF AtPlace, Reads, Reading, ReaderInv, ReaderTypeOK, AllOnes
<1>1. /\ lastTsc # 0
      /\ ~ skipping => corruption = 0 /\ (Traced(k + 2) => curTsc < TscOf(k + 2))
  BY DEF AtPlace, IdIs
<1>2. ~ skipping /\ Traced(k + 2) => ~ (TscOf(k + 2) < curTsc)
  <2>1. Traced(k + 2) => TscOf(k + 2) \in Nat
    BY <1>0, TscIs
  <2> QED BY <1>0, <1>1, <2>1
<1>3. k = Len(log) => pc # "idle"
  BY <1>0 DEF Traced
<1> QED BY <1>0, <1>1, <1>2, <1>3, Fails

\* The load of the id is remembered until the next message is read.
LEMMA EarlyStays ==
    ASSUME ReaderTypeOK, Noted, rpc \notin {"id", "tsc"}
    PROVE  early' = early
<1>1. early' = (rpc # "tsc" /\ early)
  BY DEF Noted
<1>2. early \in BOOLEAN
  BY DEF ReaderTypeOK
<1> QED BY <1>1, <1>2

\* The id stays what it is while the rest of the message is read.
LEMMA StillIdIs ==
    ASSUME UNCHANGED vars, UNCHANGED <<cur, lastTsc, corruption, curTsc, skipping>>,
           early' = early, reg'.id = reg.id, Reading, rpc # "id", NEW k, IdIs(k)
    PROVE  IdIs(k)'
<1>1. /\ early => /\ tailPtr # 0 /\ lastTsc # 0
                  /\ ~ skipping => /\ corruption = 0
                                   /\ Traced(k + 2) => curTsc < TscOf(k + 2)
      /\ ~ early => /\ mem[cur + 1] = IdCell(reg.id)
                    /\ k = Len(log) => pc = "put"
  BY DEF IdIs
<1>2. /\ mem' = mem /\ pc' = pc /\ log' = log /\ tailPtr' = tailPtr
      /\ Traced(k + 2)' = Traced(k + 2) /\ TscOf(k + 2)' = TscOf(k + 2)
  BY Still
<1> QED BY <1>1, <1>2 DEF IdIs, IdCell

\* Id and length byte of a complete message are always found, if the id is not
\* that of another one.
LEMMA ReadIdPlace ==
    ASSUME IInv, RingHolds, ReaderInv, KeptUpWith, Laps, Zeros, UNCHANGED vars, Noted, ReadId,
           NEW k \in 0 .. Len(log), AtPlace(k)
    PROVE  AtPlace(k)'
<1>0. /\ Len(log) \in Nat /\ k \in Nat /\ MessageFits /\ rpc = "id" /\ Reading
      /\ cur < BufEnd /\ cur \in Nat /\ cur + 1 \in Addr /\ TypeOK /\ KeepsUp
      /\ ptr \in Nat
  BY Writers, Cells DEF KeptUpWith, ReadId, Reading, ReaderInv, ReaderHolds, IInv
<1>1. Passed(k) /\ Ahead(k) /\ Asked(k) /\ Reads(k) /\ IdIs(k) /\ Tries(k)
  BY DEF AtPlace
<1>2. CASE Invalid /\ mem[cur + 1].kind # "id"
  <2>1. k = Len(log)
    <3>1. SUFFICES ASSUME k < Len(log) PROVE FALSE
      BY <1>0
    <3>2. mem[cur + 1] = IdCell(log[k + 1].id)
      BY <1>0, <1>1, <3>1, ReadIs
    <3> QED BY <1>2, <3>2, Kinds
  <2> QED BY <1>0, <1>2, <2>1, FailsEarly
<1>3. CASE /\ reg' = [reg EXCEPT !.id = mem[cur + 1].val]
           /\ rpc' = "len"
           /\ UNCHANGED <<cur, lastTsc, corruption, next, curTsc, skipping>>
           /\ mem[cur + 1].kind = "id"
  <2>1. Passed(k)'
    BY <1>1, <1>3, StillPassed
  <2>2. Ahead(k)'
    BY <1>1, Still
  <2>3. Asked(k)'
    BY <1>0, <1>1, <1>3, Still DEF Asked
  <2>4. reg'.tsc = reg.tsc /\ reg'.id = mem[cur + 1].val
    BY <1>3 DEF ReaderInv, ReaderTypeOK
  <2>5. Reads(k)'
    BY <1>0, <1>1, <1>3, <2>4, Still DEF Reads, Reading
  <2>6. Tries(k)'
    BY <1>0, <1>1, <1>3, Still DEF Tries
  <2>7. early' = HalfStarted
    BY <1>0 DEF Noted, HalfStarted
  <2>8. ASSUME HalfStarted PROVE IdIs(k)'
    <3>1. pc = "id" /\ msgStart = cur /\ ptr = cur + 1
      BY <2>8 DEF HalfStarted, IInv, Partial
    <3>2. k = Len(log)
      <4>1. SUFFICES ASSUME k < Len(log) PROVE FALSE
        BY <1>0
      <4>2. ptr < cur \/ ptr >= EndOf(log[k + 1])
        BY <1>0, <1>1, <4>1, Beside
      <4>3. log[k + 1].at = cur /\ k + 1 \in 1 .. Len(log)
        BY <1>0, <1>1, <4>1, HereIs
      <4>4. EndOf(log[k + 1]) = cur + LenOf(log[k + 1].id) + 1 /\ LenOf(log[k + 1].id) \in Nat
            /\ LenOf(log[k + 1].id) >= 2
        BY <4>3, MsgIs
      <4> QED BY <1>0, <3>1, <4>2, <4>4
    <3>3. tailPtr # 0
      <4>1. tailPtr = 0 => mem[cur + 1].kind \in {"tsc", "ones"}
        BY <1>0, <3>1 DEF Zeros
      <4> QED BY <1>3, <4>1
    <3>4. lastTsc # 0
      <4>1. lapFrom # 0
        BY <3>3 DEF IInv, Position
      <4>2. lapFrom \in Nat
        BY LapIs
      <4> QED BY <1>1, <3>1, <4>1, <4>2 DEF Passed
    <3>5. corruption = 0 /\ ~ Traced(k + 2)
      BY <1>0, <1>1, <3>2 DEF Tries, Traced
    <3>6. tailPtr' = tailPtr /\ Traced(k + 2)' = Traced(k + 2)
      BY Still
    <3> QED BY <1>3, <2>7, <2>8, <3>3, <3>4, <3>5, <3>6 DEF IdIs
  <2>9. ASSUME ~ HalfStarted PROVE IdIs(k)'
    <3>1. mem[cur + 1] = IdCell(mem[cur + 1].val)
      BY <1>0, <1>3, CellIs
    <3>2. mem'[cur' + 1] = IdCell(reg'.id)
      BY <1>3, <2>4, <3>1, Still
    <3>3. k = Len(log) => pc = "put"
      <4>1. SUFFICES ASSUME k = Len(log) PROVE pc = "put"
        OBVIOUS
      <4>2. pc \in {"id", "put"}
        BY <1>0, <1>1, <4>1 DEF Reads, Traced
      <4>3. msgStart = cur
        BY <1>0, <1>1, <4>1, <4>2, HereIs
      <4> QED BY <2>9, <4>2, <4>3 DEF HalfStarted
    <3>4. IdCell(reg.id)' = IdCell(reg'.id) /\ log' = log /\ pc' = pc
      BY Still DEF IdCell
    <3> QED BY <2>7, <2>9, <3>2, <3>3, <3>4 DEF IdIs
  <2>10. IdIs(k)'
    BY <2>8, <2>9
  <2> QED BY <2>1, <2>2, <2>3, <2>5, <2>6, <2>10 DEF AtPlace
<1> QED BY <1>2, <1>3 DEF ReadId

LEMMA ReadLenPlace ==
    ASSUME IInv, RingHolds, ReaderInv, KeptUpWith, Rising, Laps, UNCHANGED vars, Noted, ReadLen,
           NEW k \in 0 .. Len(log), AtPlace(k)
    PROVE  AtPlace(k)'
<1>0. /\ Len(log) \in Nat /\ k \in Nat /\ MessageFits /\ rpc = "len" /\ Reading /\ rpc # "id"
      /\ ReaderTypeOK
  BY Writers DEF KeptUpWith, ReadLen, Reading, ReaderInv
<1>1. Passed(k) /\ Ahead(k) /\ Asked(k) /\ Reads(k) /\ IdIs(k) /\ Tries(k)
  BY DEF AtPlace
<1>2. CASE Invalid /\ mem[cur + LenOf(reg.id)] # LenCell(LenOf(reg.id))
  <2>1. CASE early
    BY <1>0, <1>2, <2>1, FailsHasty
  <2>2. CASE ~ early
    <3>1. k = Len(log)
      <4>1. SUFFICES ASSUME k < Len(log) PROVE FALSE
        BY <1>0
      <4> QED BY <1>0, <1>1, <1>2, <2>2, <4>1, ReadIs
    <3> QED BY <1>0, <1>2, <3>1, FailsEarly
  <2> QED BY <2>1, <2>2
<1>3. CASE /\ mem[cur + LenOf(reg.id)] = LenCell(LenOf(reg.id))
           /\ rpc' = "next"
           /\ UNCHANGED <<cur, lastTsc, corruption, next, curTsc, skipping, reg>>
  <2>1. Passed(k)'
    BY <1>1, <1>3, StillPassed
  <2>2. Ahead(k)'
    BY <1>1, Still
  <2>3. Asked(k)'
    BY <1>0, <1>1, <1>3, Still DEF Asked
  <2>4. early' = early
    BY <1>0, EarlyStays
  <2>5. Reads(k)'
    BY <1>0, <1>1, <1>3, Still DEF Reads, Reading
  <2>6. Tries(k)'
    BY <1>0, <1>1, <1>3, Still DEF Tries
  <2>7. IdIs(k)'
    BY <1>0, <1>1, <1>3, <2>4, StillIdIs
  <2> QED BY <2>1, <2>2, <2>3, <2>5, <2>6, <2>7 DEF AtPlace
<1> QED BY <1>2, <1>3 DEF ReadLen

\* A message that is found complete is skipped or will be printed.
LEMMA MovesPlace ==
    ASSUME IInv, ReaderInv, KeptUpWith, Laps, UNCHANGED vars, Noted, Valid,
           rpc \in {"next", "start"}, NEW k \in 0 .. Len(log), k < Len(log), AtPlace(k),
           early => \/ LenOf(reg.id) = LenOf(log[k + 1].id)
                    \/ skipping /\ ~ (After < BufEnd) /\ EndOf(log[k + 1]) >= BufEnd,
           k + 1 = Len(log) /\ pc = "end" /\ ptr < BufEnd => mem[ptr] = Zero
    PROVE  IF skipping THEN AtPlace(k + 1)' ELSE AtPlace(k)'
<1>0. /\ Len(log) \in Nat /\ k \in Nat /\ MessageFits /\ Reading /\ k + 1 \in 1 .. Len(log)
      /\ rpc # "id" /\ rpc # "tsc" /\ prevFrom \in Nat /\ ReaderTypeOK
  BY Writers, LapIs DEF KeptUpWith, Reading, ReaderInv
<1>1. Passed(k) /\ Ahead(k) /\ Asked(k) /\ Reads(k) /\ IdIs(k) /\ Tries(k)
  BY DEF AtPlace
<1>2. /\ Traced(k + 1) /\ reg.tsc = TscOf(k + 1) /\ reg.tsc < curTsc
      /\ ~ skipping => reg.tsc = next
  BY <1>0, <1>1 DEF Reads
<1>3. reg.tsc = log[k + 1].tsc /\ reg.tsc > 0 /\ reg.tsc \in Nat /\ log' = log
  BY <1>0, <1>2, MsgIs DEF TscOf, Laps, vars, histVars
<1>4. \/ After = EndOf(log[k + 1]) /\ LenOf(reg.id) = LenOf(log[k + 1].id)
      \/ skipping /\ ~ (After < BufEnd) /\ EndOf(log[k + 1]) >= BufEnd
  <2>1. CASE early => LenOf(reg.id) = LenOf(log[k + 1].id)
    BY <1>0, <1>1, <2>1, ReadIs
  <2>2. CASE ~ (early => LenOf(reg.id) = LenOf(log[k + 1].id))
    BY <2>2
  <2> QED BY <2>1, <2>2
<1>5. CASE skipping
  <2>1. /\ cur' = After /\ lastTsc' = reg.tsc /\ rpc' = "tsc"
        /\ UNCHANGED <<corruption, next, curTsc, skipping>>
    BY <1>5 DEF Valid, Skip
  <2>2. next = 0 /\ corruption = 0 /\ curTsc = AllOnes
    BY <1>1, <1>5 DEF Asked
  <2>3. Passed(k + 1)'
    <3>1. lastTsc' = log'[k + 1].tsc /\ lastTsc' # 0 /\ k + 1 > 0
      BY <1>0, <1>3, <2>1
    <3>2. lapFrom > 0 => k + 1 > prevFrom
      BY <1>0, <1>1 DEF Passed
    <3>3. \/ cur' = EndOf(log'[k + 1]) /\ cur' < BufEnd
          \/ ~ (cur' < BufEnd) /\ EndOf(log'[k + 1]) >= BufEnd
      <4>1. EndOf(log[k + 1]) \in Nat /\ BufEnd \in Nat
        BY <1>0, MsgIs, BufEndAssumption
      <4>2. ~ (EndOf(log[k + 1]) < BufEnd) => EndOf(log[k + 1]) >= BufEnd
        BY <4>1
      <4> QED BY <1>3, <1>4, <2>1, <4>2
    <3>4. k + 1 = Len(log) /\ pc = "end" /\ cur' = ptr /\ cur' < BufEnd => mem[cur'] = Zero
      OBVIOUS
    <3>5. EndOf(log[k + 1])' = EndOf(log'[k + 1])
      BY DEF EndOf
    <3>6. lapFrom' = lapFrom /\ prevFrom' = prevFrom /\ pc' = pc /\ ptr' = ptr /\ mem' = mem
          /\ log' = log
      BY Still
    <3> QED BY <1>5, <2>1, <3>1, <3>2, <3>3, <3>4, <3>5, <3>6 DEF Passed
  <2>4. Ahead(k + 1)'
    <3>1. Ahead(k + 1)
      BY <1>0, <1>1 DEF Ahead
    <3> QED BY <3>1, Still
  <2>5. Asked(k + 1)'
    BY <1>5, <2>1, <2>2 DEF Asked, AllOnes
  <2>6. Reads(k + 1)' /\ IdIs(k + 1)'
    BY <2>1 DEF Reads, IdIs, Reading
  <2>7. Tries(k + 1)'
    BY <2>1, <2>2 DEF Tries
  <2> QED BY <1>5, <2>3, <2>4, <2>5, <2>6, <2>7 DEF AtPlace
<1>6. CASE ~ skipping
  <2>1. /\ rpc' = "format"
        /\ UNCHANGED <<cur, lastTsc, corruption, next, curTsc, skipping, reg>>
    BY <1>2, <1>6 DEF Valid
  <2>2. Passed(k)'
    BY <1>1, <2>1, StillPassed
  <2>3. Ahead(k)'
    BY <1>1, Still
  <2>4. Asked(k)'
    <3>1. rpc # "poll" /\ rpc' # "poll" /\ rpc' # "tsc"
      BY <2>1
    <3> QED BY <1>1, <1>6, <2>1, <3>1, Still DEF Asked
  <2>5. reg.words = <<>> /\ Words[reg.id] \in Nat
    BY Cells DEF ReaderInv, ReaderHolds
  <2>6. Len(reg.words) = 0
    BY <2>5
  <2>7. Reads(k)'
    <3>1. /\ Traced(k + 1)' /\ TscOf(k + 1)' = TscOf(k + 1) /\ log' = log /\ pc' = pc
          /\ mem' = mem /\ ptr' = ptr
      BY <1>2, Still
    <3>2. /\ reg' = reg /\ reg'.words = <<>> /\ Len(reg'.words) = 0 /\ cur' = cur
          /\ curTsc' = curTsc /\ next' = next /\ skipping' = skipping
      BY <2>1, <2>5
    <3>3. Len(reg'.words) <= Words[reg'.id]
      BY <2>5, <3>2
    <3>4. \A w \in 1 .. Len(reg'.words) : reg'.words[w] = Word(reg'.tsc)
      BY <3>2
    <3>5. /\ LenOf(reg.id)' = LenOf(log[k + 1].id)'
          /\ early' \/ (reg.id)' = (log[k + 1].id)'
      <4>1. LenOf(reg.id) = LenOf(log[k + 1].id) /\ (early \/ reg.id = log[k + 1].id)
        BY <1>0, <1>1, <1>4, <1>6, ReadIs
      <4>2. early' = early
        BY <1>0, EarlyStays
      <4> QED BY <3>1, <3>2, <4>1, <4>2 DEF LenOf
    <3>6. reg'.tsc = TscOf(k + 1)' /\ reg'.tsc < curTsc' /\ (~ skipping' => reg'.tsc = next')
      BY <1>2, <3>1, <3>2
    <3> QED BY <1>0, <2>1, <3>1, <3>3, <3>4, <3>5, <3>6 DEF Reads
  <2>8. Tries(k)'
    BY <1>1, <2>1, Still DEF Tries
  <2>9. IdIs(k)'
    <3>1. early' = early
      BY <1>0, EarlyStays
    <3> QED BY <1>0, <1>1, <2>1, <3>1, StillIdIs
  <2> QED BY <1>6, <2>2, <2>3, <2>4, <2>7, <2>8, <2>9 DEF AtPlace
<1> QED BY <1>5, <1>6

\* Messages of one length have equally many words.
LEMMA SameWords ==
    \A i, j \in Id : LenOf(i) = LenOf(j) => Words[i] = Words[j]
<1> SUFFICES ASSUME NEW i \in Id, NEW j \in Id, LenOf(i) = LenOf(j) PROVE Words[i] = Words[j]
  OBVIOUS
<1>1. /\ Words[i] \in Nat /\ LenOf(i) = 2 + Words[i]
      /\ Words[j] \in Nat /\ LenOf(j) = 2 + Words[j]
  BY LenOfType
<1>2. \A a, b \in Nat : 2 + a = 2 + b => a = b
  OBVIOUS
<1> QED BY <1>1, <1>2

\* The words that are printed are those of the message.
LEMMA FormatPlace ==
    ASSUME IInv, ReaderInv, KeptUpWith, Laps, UNCHANGED vars, Noted, Format,
           NEW k \in 0 .. Len(log), AtPlace(k)
    PROVE  AtPlace(k)'
<1>0. /\ Len(log) \in Nat /\ k \in Nat /\ MessageFits /\ Reading /\ rpc = "format" /\ rpc # "id"
      /\ ReaderTypeOK
  BY Writers DEF KeptUpWith, Reading, Format, ReaderInv
<1>1. Passed(k) /\ Ahead(k) /\ Asked(k) /\ Reads(k) /\ IdIs(k) /\ Tries(k)
  BY DEF AtPlace
<1>2. /\ k < Len(log) /\ reg.tsc = TscOf(k + 1) /\ k + 1 \in 1 .. Len(log)
      /\ LenOf(reg.id) = LenOf(log[k + 1].id) /\ (early \/ reg.id = log[k + 1].id)
      /\ Len(reg.words) <= Words[reg.id]
      /\ \A w \in 1 .. Len(reg.words) : reg.words[w] = Word(reg.tsc)
  BY <1>0, <1>1 DEF Reads
<1>3. /\ Len(reg.words) < Words[reg.id]
      /\ reg' = [reg EXCEPT !.words = Append(reg.words, mem[cur + 2 + Len(reg.words)])]
      /\ UNCHANGED <<cur, lastTsc, corruption, next, curTsc, rpc, skipping, out>>
  BY DEF Format
<1>4. /\ reg.words \in Seq(Cell) /\ Len(reg.words) \in Nat /\ Words[reg.id] \in Nat
      /\ cur \in Nat
      /\ reg \in [tsc : Nat, id : Id, words : Seq(Cell)]
  BY Cells DEF ReaderInv, ReaderTypeOK
<1>5. mem[cur + 2 + Len(reg.words)] = Word(reg.tsc)
  <2>1. log[k + 1].at = cur /\ Intact(log[k + 1])
    BY <1>0, <1>1, <1>2, ReadIs
  <2>a. Words[reg.id] = Words[log[k + 1].id]
    BY <1>2, SameWords, MsgIs, Cells DEF ReaderInv
  <2>2. reg.tsc = log[k + 1].tsc
    BY <1>2 DEF TscOf
  <2>3. Len(reg.words) + 1 \in 1 .. Words[log[k + 1].id]
    BY <1>3, <1>4, <2>a
  <2>4. mem[cur + 1 + (Len(reg.words) + 1)] = Word(reg.tsc)
    BY <2>1, <2>2, <2>3 DEF Intact
  <2> QED BY <1>4, <2>4
<1>6. /\ reg'.tsc = reg.tsc /\ reg'.id = reg.id
      /\ reg'.words = Append(reg.words, Word(reg.tsc))
  BY <1>3, <1>4, <1>5
<1>7. /\ Len(reg'.words) <= Words[reg.id]
      /\ \A w \in 1 .. Len(reg'.words) : reg'.words[w] = Word(reg.tsc)
  BY <1>2, <1>3, <1>4, <1>6
<1>8. Passed(k)'
  BY <1>1, <1>3, StillPassed
<1>9. Ahead(k)'
  BY <1>1, Still
<1>10. Asked(k)'
  <2>1. rpc # "poll" /\ rpc' = rpc
    BY <1>0, <1>3
  <2> QED BY <1>1, <1>3, <2>1, Still DEF Asked
<1>a. early' = early
  BY <1>0, EarlyStays
<1>11. Reads(k)'
  <2>1. /\ Traced(k + 1)' /\ TscOf(k + 1)' = TscOf(k + 1) /\ Traced(k + 1)
        /\ mem' = mem /\ log' = log /\ pc' = pc /\ ptr' = ptr
    BY <1>0, <1>1, Still DEF Reads
  <2>2. /\ reg'.tsc < curTsc' /\ (~ skipping' => reg'.tsc = next')
        /\ rpc' = "format"
        /\ (k + 1 = Len(log) /\ pc = "end" /\ ptr < BufEnd => mem[ptr] = Zero)
    BY <1>0, <1>1, <1>3, <1>6, <2>1 DEF Reads, LenOf
  <2>3. /\ LenOf(reg.id)' = LenOf(log[k + 1].id)'
        /\ early' \/ (reg.id)' = (log[k + 1].id)'
    BY <1>2, <1>6, <1>a, <2>1 DEF LenOf
  <2> QED BY <1>2, <1>3, <1>6, <1>7, <2>1, <2>2, <2>3 DEF Reads
<1>12. Tries(k)'
  BY <1>1, <1>3, Still DEF Tries
<1>13. IdIs(k)'
  BY <1>0, <1>1, <1>3, <1>6, <1>a, StillIdIs
<1> QED BY <1>8, <1>9, <1>10, <1>11, <1>12, <1>13 DEF AtPlace

\* The line is what was traced, and the second check finds nothing wrong.
LEMMA DumpedPlace ==
    ASSUME IInv, RingHolds, ReaderInv, KeptUpWith, Laps, UNCHANGED vars, Noted, Dumped,
           LinesExact, NEW k \in 0 .. Len(log), AtPlace(k)
    PROVE  AtPlace(k + 1)' /\ k < Len(log) /\ LinesExact' /\ ~ skipping
<1>0. /\ Len(log) \in Nat /\ k \in Nat /\ MessageFits /\ Reading /\ rpc = "format" /\ rpc # "id"
      /\ prevFrom \in Nat
  BY Writers, LapIs DEF KeptUpWith, Reading, Dumped
<1>1. Passed(k) /\ Ahead(k) /\ Asked(k) /\ Reads(k) /\ IdIs(k) /\ Tries(k)
  BY DEF AtPlace
<1>2. /\ k < Len(log) /\ reg.tsc = TscOf(k + 1) /\ k + 1 \in 1 .. Len(log)
      /\ LenOf(reg.id) = LenOf(log[k + 1].id) /\ (early \/ reg.id = log[k + 1].id)
      /\ \A w \in 1 .. Len(reg.words) : reg.words[w] = Word(reg.tsc)
      /\ k + 1 = Len(log) /\ pc = "end" /\ ptr < BufEnd => mem[ptr] = Zero
  BY <1>0, <1>1 DEF Reads
<1>3. /\ log[k + 1].at = cur /\ After = EndOf(log[k + 1])
      /\ mem[cur + LenOf(reg.id)] = LenCell(LenOf(reg.id))
  BY <1>0, <1>1, <1>2, ReadIs
<1>4. reg.tsc = log[k + 1].tsc /\ reg.tsc > 0 /\ reg.tsc \in Nat /\ log' = log
  BY <1>2, MsgIs DEF TscOf, Laps, vars, histVars
<1>5. /\ out' = Append(out, Line(TRUE))
      /\ cur' = IF After >= BufEnd THEN Start ELSE After
      /\ lastTsc' = reg.tsc /\ next' = 0 /\ corruption' = 0 /\ rpc' = "poll"
      /\ UNCHANGED <<curTsc, skipping>>
      /\ Len(reg.words) = Words[reg.id]
  BY <1>3 DEF Dumped, EndRound
<1>6. log[k + 1].id \in Id /\ Says(log[k + 1].id)
  <2>1. reg.words \in Seq(Cell)
    BY DEF ReaderInv, ReaderTypeOK
  <2>2. log[k + 1].id \in Id /\ Words[log[k + 1].id] = Words[reg.id]
    BY <1>2, SameWords, MsgIs, Cells DEF ReaderInv
  <2>3. reg.words = [w \in 1 .. Words[log[k + 1].id] |-> Word(reg.tsc)]
    <3>1. reg.words = [w \in 1 .. Len(reg.words) |-> reg.words[w]]
      BY <2>1
    <3> QED BY <1>2, <1>5, <2>2, <3>1
  <2> QED BY <1>2, <1>4, <2>2, <2>3 DEF Says
<1>7. LinesExact'
  <2>1. out \in Seq(OutLine) /\ Len(out) \in Nat
    BY DEF ReaderInv, ReaderTypeOK, OutLine
  <2>2. \E id \in Id : Says(id)
    BY <1>6
  <2>3. Says(reg.id) \/ early
    BY <1>2, <1>6
  <2>4. PICK l \in OutLine :
            /\ out' = Append(out, l) /\ (l.ok <=> LengthFits)
            /\ (l.exact <=> Says(reg.id)) /\ (l.early <=> early)
            /\ (l.data <=> \E id \in Id : Says(id))
    BY DumpedLine
  <2>5. l.ok /\ l.data /\ (l.exact \/ l.early)
    BY <1>3, <2>2, <2>3, <2>4 DEF LengthFits
  <2>6. CASE misled
    BY <2>6 DEF Noted, LinesExact
  <2>7. CASE ~ misled
    <3>1. ASSUME NEW i \in 1 .. Len(out')
          PROVE  out'[i].ok /\ out'[i].data /\ (out'[i].exact \/ out'[i].early)
      <4>1. \/ i \in 1 .. Len(out) /\ out'[i] = out[i]
            \/ i = Len(out) + 1 /\ out'[i] = l
        <5>1. out' = Append(out, l)
          BY <2>4
        <5>2. out' \in Seq(OutLine) /\ Len(out') = Len(out) + 1 /\ Len(out) \in Nat
          BY <2>1, <5>1
        <5>3. i \in Nat /\ i <= Len(out) + 1 /\ i >= 1
          BY <3>1, <5>2
        <5> QED BY <2>1, <5>1, <5>2, <5>3
      <4> QED BY <2>5, <2>7, <4>1 DEF LinesExact
    <3> QED BY <3>1 DEF LinesExact
  <2> QED BY <2>6, <2>7
<1>8. ~ skipping
  BY <1>0 DEF ReaderInv, ReaderHolds
<1>9. Passed(k + 1)'
  <2>1. lastTsc' = log'[k + 1].tsc /\ lastTsc' # 0 /\ k + 1 > 0
    BY <1>0, <1>4, <1>5
  <2>2. lapFrom > 0 => k + 1 > prevFrom
    BY <1>0, <1>1 DEF Passed
  <2>3. /\ lapFrom' = lapFrom /\ prevFrom' = prevFrom /\ pc' = pc /\ ptr' = ptr /\ mem' = mem
        /\ log' = log
    BY Still
  <2>4. EndOf(log[k + 1])' = EndOf(log[k + 1])
    BY <2>3 DEF EndOf
  <2>5. EndOf(log[k + 1]) \in Nat /\ BufEnd \in Nat
    BY <1>2, MsgIs, BufEndAssumption
  <2>6. pc = "end" => ptr # Start
    BY DEF RingHolds, Begins
  <2>7. k + 1 = Len(log) /\ pc = "end" /\ cur' = ptr /\ cur' < BufEnd => mem[cur'] = Zero
    BY <1>2, <1>5, <2>6
  <2>8. \/ cur' = Start /\ EndOf(log[k + 1]) >= BufEnd
        \/ cur' = EndOf(log[k + 1]) /\ cur' < BufEnd
    BY <1>3, <1>5, <2>5
  <2> QED BY <1>5, <1>8, <2>1, <2>2, <2>3, <2>4, <2>7, <2>8 DEF Passed
<1>10. Ahead(k + 1)'
  <2>1. Ahead(k + 1)
    BY <1>0, <1>1 DEF Ahead
  <2> QED BY <2>1, Still
<1>11. Asked(k + 1)' /\ Reads(k + 1)' /\ IdIs(k + 1)' /\ Tries(k + 1)'
  BY <1>5, <1>8 DEF Asked, Reads, IdIs, Reading, Tries
<1> QED BY <1>2, <1>7, <1>8, <1>9, <1>10, <1>11 DEF AtPlace

\* Reading on at the start of the ring.
LEMMA StartPlace ==
    ASSUME UNCHANGED vars, ReaderTypeOK, Noted, rpc = "next", rpc' = "start",
           UNCHANGED <<cur, lastTsc, corruption, next, curTsc, skipping, reg>>,
           NEW k \in 0 .. Len(log), AtPlace(k),
           corruption = 0 \/ (k + 1 = Len(log) /\ ~ Traced(k + 2) => pc # "idle")
    PROVE  AtPlace(k)'
<1>1. Passed(k) /\ Ahead(k) /\ Asked(k) /\ Reads(k) /\ IdIs(k) /\ Tries(k)
  BY DEF AtPlace
<1>2. Passed(k)'
  BY <1>1, StillPassed
<1>3. Ahead(k)'
  BY <1>1, Still
<1>4. Asked(k)'
  BY <1>1, Still DEF Asked
<1>5. early' = early
  BY EarlyStays
<1>6. Reads(k)'
  BY <1>1, <1>5, Still DEF Reads, Reading
<1>7. IdIs(k)'
  BY <1>1, <1>5, StillIdIs DEF Reading
<1>8. Tries(k)'
  <2>1. CASE corruption = 0
    BY <2>1 DEF Tries
  <2>2. CASE k + 1 = Len(log) /\ ~ Traced(k + 2) => pc # "idle"
    BY <1>1, <2>2, Still DEF Tries
  <2> QED BY <2>1, <2>2
<1> QED BY <1>2, <1>3, <1>4, <1>6, <1>7, <1>8 DEF AtPlace

\* What is read behind a message whose successor has its timestamp: it fits,
\* unless it is from after the poll.
LEMMA FollowingIs ==
    ASSUME IInv, Rising, Laps, ReaderInv, NEW k \in 0 .. Len(log), AtPlace(k), Reading,
           k < Len(log), Traced(k + 2), NEW a \in Addr, mem[a] = Tsc(TscOf(k + 2))
    PROVE  /\ LoadTsc(a) # 0
           /\ ~ NextFits(LoadTsc(a)) => ~ skipping /\ ~ (TscOf(k + 2) < curTsc)
<1>0. /\ Len(log) \in Nat /\ k \in Nat /\ k + 2 \in Nat /\ k + 2 > 0 /\ k + 1 \in 1 .. Len(log)
      /\ clock \in Nat /\ clock <= MaxTsc /\ MaxTsc \in Nat /\ curTsc \in Nat
  BY Writers, MaxTscAssumption DEF ReaderInv, ReaderTypeOK, AllOnes
<1>1. /\ TscOf(k + 2) \in Nat /\ 0 < TscOf(k + 2) /\ TscOf(k + 2) <= clock
      /\ log[k + 1].tsc < TscOf(k + 2)
  <2>1. k + 1 < k + 2
    BY <1>0
  <2> QED BY <1>0, <2>1, TscIs
<1>2. LoadTsc(a) = TscOf(k + 2)
  BY Kinds DEF LoadTsc
<1>3. reg.tsc = log[k + 1].tsc /\ log[k + 1].tsc \in Nat
  BY <1>0, MsgIs DEF AtPlace, Reads, TscOf
<1>4. skipping => curTsc = AllOnes
  BY DEF AtPlace, Asked
<1>5. TscOf(k + 2) < AllOnes /\ AllOnes \in Nat
  BY <1>0, <1>1 DEF AllOnes
<1> QED BY <1>0, <1>1, <1>2, <1>3, <1>4, <1>5 DEF NextFits

\* Before the terminator is stored, what is left in its place is older than the
\* message, unless it is zero.
LEMMA ZeroThere ==
    ASSUME IInv, RingHolds, Rising, pc = "end", ptr \in Addr, Len(log) > 0,
           ptr = EndOf(log[Len(log)]), reg.tsc = log[Len(log)].tsc, NextFits(LoadTsc(ptr))
    PROVE  mem[ptr] = Zero
<1>0. Len(log) \in Nat /\ Len(log) \in 1 .. Len(log)
  BY Writers
<1>1. /\ ptr = log[Len(log)].at + LenOf(log[Len(log)].id) + 1 /\ log[Len(log)].at \in Nat
      /\ LenOf(log[Len(log)].id) \in Nat /\ log[Len(log)].tsc \in Nat
  BY <1>0, MsgIs
<1>2. CASE LoadTsc(ptr) = 0
  <2>1. AllOnes # 0 /\ Garbage # 0
    BY MaxTscAssumption DEF AllOnes, Garbage
  <2>2. mem[ptr].kind = "tsc" /\ mem[ptr].val = 0
    BY <1>2, <2>1 DEF LoadTsc
  <2>3. TypeOK
    BY DEF IInv
  <2> QED BY <2>2, <2>3, CellIs DEF Zero
<1>3. CASE LoadTsc(ptr) # 0
  <2>1. /\ LoadTsc(ptr) >= reg.tsc /\ LoadTsc(ptr) < AllOnes /\ LoadTsc(ptr) \in Nat
    BY <1>3, Loads DEF NextFits
  <2>2. Stamped(ptr) /\ LoadTsc(ptr) = mem[ptr].val
    BY <1>3, <2>1, Loads
  <2>3. PICK i \in 1 .. Len(log) : log[i].at = ptr /\ log[i].tsc = mem[ptr].val
    BY <2>2 DEF RingHolds, Kept, Begun
  <2>4. log[i].tsc \in Nat
    BY <2>3, MsgIs
  <2>5. ~ (i < Len(log))
    BY <1>0, <1>1, <2>1, <2>2, <2>3, <2>4 DEF Rising
  <2>6. i = Len(log)
    BY <1>0, <2>3, <2>5
  <2> QED BY <1>1, <2>3, <2>6
<1> QED BY <1>2, <1>3

\* A message in progress that passes for a complete one until then is found out
\* by what follows it, also if its id was loaded too early.
LEMMA FoundOut ==
    ASSUME IInv, RingHolds, ReaderInv, MessageFits, Laps, Zeros, NEW k \in 0 .. Len(log),
           AtPlace(k), rpc \in {"next", "start"}, k = Len(log)
    PROVE  /\ pc \in {"id", "put"} /\ reg.tsc = clock /\ mem[cur] = Tsc(clock) /\ ptr # Start
           /\ ~ NextFits(LoadTsc(After)) /\ LoadTsc(After) # 0
<1>0. /\ Len(log) \in Nat /\ k \in Nat /\ Reading /\ rpc # "id" /\ cur < BufEnd /\ cur \in Nat
      /\ After \in Addr /\ After \in Nat /\ After > cur /\ cur \in Addr /\ TypeOK /\ ptr \in Nat
  <2>1. Reading /\ rpc # "id" /\ cur < BufEnd /\ TypeOK
    BY DEF Reading, ReaderInv, ReaderHolds, IInv
  <2>2. /\ cur \in Nat /\ After \in Addr /\ After \in Nat /\ After = cur + 3 + Words[reg.id]
        /\ Words[reg.id] \in Nat
    BY <2>1, Cells DEF ReaderInv
  <2>3. cur \in Addr
    BY DEF ReaderInv, ReaderTypeOK
  <2> QED BY <2>1, <2>2, <2>3, Writers
<1>1. Passed(k) /\ Ahead(k) /\ Reads(k) /\ IdIs(k)
  BY DEF AtPlace
<1>2. Traced(k + 1) /\ reg.tsc = TscOf(k + 1)
  BY <1>0, <1>1 DEF Reads
<1>3. pc \in {"id", "put"} /\ TscOf(k + 1) = msg.tsc
  BY <1>0, <1>2 DEF Traced, TscOf
<1>4. msgStart = cur /\ mem[cur] = Tsc(msg.tsc)
  BY <1>0, <1>1, <1>3, HereIs
<1>5. Begun(cur) /\ mem[cur] = Tsc(reg.tsc)
  BY <1>2, <1>3, <1>4 DEF Begun
<1>6. CASE ~ early
  <2>1. mem[cur + LenOf(reg.id)] = LenCell(LenOf(reg.id))
    BY <1>0, <1>1, <1>6 DEF Reads
  <2> QED BY <1>0, <1>3, <1>5, <2>1, Unfinished
<1>7. CASE early
  <2>1. reg.tsc = clock /\ mem[cur] = Tsc(clock) /\ ptr # Start
    <3>1. msg.tsc = clock /\ msgStart < ptr
      BY <1>3, Writers
    <3> QED BY <1>0, <1>2, <1>3, <1>4, <3>1 DEF Addr
  <2>2. mem[After] # Zero
    <3>1. tailPtr # 0
      BY <1>0, <1>1, <1>7 DEF IdIs
    <3> QED BY <1>0, <1>3, <3>1 DEF Zeros
  <2>3. CASE mem[After].kind = "tsc"
    <3>1. mem[After].val # 0
      BY <1>0, <2>2, <2>3, CellIs DEF Zero
    <3>2. Stamped(After)
      BY <2>3, <3>1 DEF Stamped
    <3>3. ~ NextFits(LoadTsc(After))
      BY <1>0, <2>1, <3>2, Older
    <3>4. LoadTsc(After) # 0
      BY <1>0, <3>2, Loads
    <3> QED BY <1>3, <2>1, <3>3, <3>4
  <2>4. CASE mem[After].kind # "tsc"
    <3>1. LoadTsc(After) \in {AllOnes, Garbage}
      BY <2>4 DEF LoadTsc
    <3>2. ~ NextFits(AllOnes) /\ ~ NextFits(Garbage) /\ AllOnes # 0 /\ Garbage # 0
      BY MaxTscAssumption DEF NextFits, AllOnes, Garbage
    <3> QED BY <1>3, <2>1, <3>1, <3>2
  <2> QED BY <2>3, <2>4
<1> QED BY <1>6, <1>7

\* If the message is longer than the format that the reader takes it for, there
\* is data where the reader expects the next timestamp ...
LEMMA TooShort ==
    ASSUME IInv, ReaderInv, MessageFits, Laps, NEW k \in 0 .. Len(log), AtPlace(k), Reading,
           k < Len(log), LenOf(reg.id) < LenOf(log[k + 1].id)
    PROVE  ~ NextFits(LoadTsc(After)) /\ LoadTsc(After) \notin {0, AllOnes}
<1>1. Passed(k) /\ Ahead(k) /\ IdIs(k)
  BY DEF AtPlace
<1>2. /\ cur \in Nat /\ k + 1 \in 1 .. Len(log) /\ log[k + 1].at = cur /\ Intact(log[k + 1])
      /\ LenOf(reg.id) \in Nat /\ LenOf(reg.id) >= 2 /\ After = cur + LenOf(reg.id) + 1
  BY <1>1, ReadIs
<1>3. /\ log[k + 1].id \in Id /\ Words[log[k + 1].id] \in Nat
      /\ LenOf(log[k + 1].id) = 2 + Words[log[k + 1].id]
  BY <1>2, MsgIs, LenOfType
<1>4. mem[After].kind \in {"word", "len"}
  <2>1. CASE LenOf(reg.id) + 1 = LenOf(log[k + 1].id)
    <3>1. After = cur + LenOf(log[k + 1].id)
      <4>1. \A a, b, c \in Nat : b + 1 = c => a + b + 1 = a + c
        OBVIOUS
      <4>2. LenOf(log[k + 1].id) \in Nat
        BY <1>3
      <4> QED BY <1>2, <2>1, <4>1, <4>2
    <3> QED BY <1>2, <3>1, Kinds DEF Intact
  <2>2. CASE LenOf(reg.id) + 1 # LenOf(log[k + 1].id)
    <3>1. LenOf(reg.id) \in 1 .. Words[log[k + 1].id] /\ After = cur + 1 + LenOf(reg.id)
      BY <1>2, <1>3, <2>2
    <3>2. mem[cur + 1 + LenOf(reg.id)] = Word(log[k + 1].tsc)
      BY <1>2, <3>1 DEF Intact
    <3> QED BY <3>1, <3>2, Kinds
  <2> QED BY <2>1, <2>2
<1>5. LoadTsc(After) = Garbage
  BY <1>4 DEF LoadTsc
<1>6. ~ NextFits(Garbage) /\ Garbage # 0 /\ Garbage # AllOnes
  BY MaxTscAssumption DEF NextFits, AllOnes, Garbage
<1> QED BY <1>5, <1>6

\* ... if it is shorter, and yet found valid, the reader goes too far.
LEMMA TooLong ==
    ASSUME IInv, ReaderInv, NEW k \in 0 .. Len(log), AtPlace(k), Noted, Valid, early,
           rpc \in {"next", "start"}, k < Len(log), LenOf(log[k + 1].id) < LenOf(reg.id)
    PROVE  misled'
<1>0. Len(log) \in Nat /\ k \in Nat /\ k + 1 \in 1 .. Len(log) /\ Reading
  BY Writers DEF Reading
<1>1. reg.tsc = log[k + 1].tsc /\ (~ skipping => reg.tsc = next)
  BY <1>0 DEF AtPlace, Reads, TscOf
<1>2. rpc' \in {"tsc", "format"}
  BY <1>1 DEF Valid, Skip
<1> QED BY <1>0, <1>1, <1>2 DEF Noted, Overshoots

\* The timestamp behind the message.
LEMMA ReadNextPlace ==
    ASSUME IInv, RingHolds, ReaderInv, KeptUpWith, Rising, Laps, Zeros, UNCHANGED vars, Noted,
           ReadNext, NEW k \in 0 .. Len(log), AtPlace(k)
    PROVE  misled' \/ AtPlace(k)' \/ (skipping /\ k < Len(log) /\ AtPlace(k + 1)')
<1>0. /\ Len(log) \in Nat /\ k \in Nat /\ k + 1 \in Nat /\ k + 2 \in Nat /\ MessageFits
      /\ rpc = "next" /\ Reading /\ rpc # "id" /\ rpc # "poll" /\ cur < BufEnd /\ ReaderTypeOK
      /\ After \in Nat /\ After \in Addr /\ BufEnd \in Nat /\ AllOnes # 0
  BY Writers, Cells, BufEndAssumption, MaxTscAssumption
     DEF KeptUpWith, Reading, ReadNext, ReaderInv, ReaderHolds, AllOnes
<1>1. Passed(k) /\ Ahead(k) /\ Asked(k) /\ Reads(k) /\ IdIs(k) /\ Tries(k)
  BY DEF AtPlace
<1>a. \/ Valid /\ After < BufEnd /\ NextFits(LoadTsc(After))
      \/ Valid /\ After >= BufEnd /\ LoadTsc(After) = 0
      \/ Invalid /\ After < BufEnd /\ ~ NextFits(LoadTsc(After))
      \/ Invalid /\ After >= BufEnd /\ LoadTsc(After) \notin {0, AllOnes}
      \/ /\ After >= BufEnd /\ LoadTsc(After) = AllOnes /\ rpc' = "start"
         /\ UNCHANGED <<cur, lastTsc, corruption, next, curTsc, skipping, reg>>
  BY DEF ReadNext
<1>2. CASE k = Len(log)
  <2>1. /\ pc \in {"id", "put"} /\ ~ NextFits(LoadTsc(After)) /\ LoadTsc(After) # 0
    BY <1>0, <1>2, FoundOut
  <2>2. CASE Invalid
    BY <1>0, <1>2, <2>2, FailsEarly
  <2>3. CASE /\ rpc' = "start"
             /\ UNCHANGED <<cur, lastTsc, corruption, next, curTsc, skipping, reg>>
    <3>1. ~ (k + 1 = Len(log))
      BY <1>0, <1>2
    <3> QED BY <1>0, <2>3, <3>1, StartPlace
  <2> QED BY <1>a, <2>1, <2>2, <2>3
<1>4. CASE k < Len(log) /\ early /\ LenOf(reg.id) < LenOf(log[k + 1].id)
  <2>1. ~ NextFits(LoadTsc(After)) /\ LoadTsc(After) \notin {0, AllOnes}
    BY <1>0, <1>4, TooShort
  <2> QED BY <1>0, <1>4, <1>a, <2>1, FailsHasty
<1>5. CASE k < Len(log) /\ early /\ LenOf(log[k + 1].id) < LenOf(reg.id)
  <2>1. CASE Valid
    BY <1>0, <1>5, <2>1, TooLong
  <2>2. CASE Invalid
    BY <1>0, <1>5, <2>2, FailsHasty
  <2>3. CASE /\ rpc' = "start"
             /\ UNCHANGED <<cur, lastTsc, corruption, next, curTsc, skipping, reg>>
    <3>1. corruption = 0
      BY <1>0, <1>1, <1>5 DEF IdIs, Asked
    <3> QED BY <1>0, <2>3, <3>1, StartPlace
  <2> QED BY <1>a, <2>1, <2>2, <2>3
<1>3. CASE k < Len(log) /\ (early => LenOf(reg.id) = LenOf(log[k + 1].id))
  <2>1. After = EndOf(log[k + 1]) /\ k + 1 \in 1 .. Len(log) /\ reg.tsc = log[k + 1].tsc
    <3>1. After = EndOf(log[k + 1]) /\ k + 1 \in 1 .. Len(log)
      BY <1>0, <1>1, <1>3, ReadIs
    <3> QED BY <1>0, <1>1, <3>1 DEF Reads, TscOf
  <2>2. Traced(k + 2) => ~ (k + 1 = Len(log) /\ pc \in {"end", "idle"})
    BY <1>0 DEF Traced
  <2>3. CASE After < BufEnd /\ Traced(k + 2)
    <3>1. mem[After] = Tsc(TscOf(k + 2))
      BY <1>0, <1>1, <1>3, <2>1, <2>3, NextInLap
    <3>2. ~ NextFits(LoadTsc(After)) => ~ skipping /\ ~ (TscOf(k + 2) < curTsc)
      BY <1>0, <1>3, <2>3, <3>1, FollowingIs
    <3>3. CASE Valid
      BY <1>0, <1>3, <2>2, <2>3, <3>3, MovesPlace
    <3>4. CASE Invalid /\ ~ NextFits(LoadTsc(After))
      BY <1>0, <1>3, <2>3, <3>2, <3>4, Fails
    <3> QED BY <1>0, <1>a, <2>3, <3>3, <3>4
  <2>4. CASE After < BufEnd /\ ~ Traced(k + 2)
    <3>1. /\ k + 1 = Len(log) /\ ptr = After
          /\ pc = "end" \/ (pc = "idle" /\ mem[ptr] = Zero)
      BY <1>0, <1>1, <1>3, <2>1, <2>4, NextInLap
    <3>2. pc = "idle" => NextFits(LoadTsc(After))
      BY <3>1, Kinds DEF NextFits, LoadTsc
    <3>3. CASE Valid /\ NextFits(LoadTsc(After))
      <4>1. pc = "end" => mem[ptr] = Zero
        BY <1>0, <2>1, <3>1, <3>3, ZeroThere
      <4> QED BY <1>0, <1>3, <3>3, <4>1, MovesPlace
    <3>4. CASE Invalid /\ ~ NextFits(LoadTsc(After))
      <4>1. pc # "idle"
        BY <3>2, <3>4
      <4>2. ~ (lastTsc = 0 /\ lapFrom > 0)
        BY <1>1, <4>1 DEF Passed
      <4>3. k # Len(log)
        BY <1>0, <1>3
      <4> QED BY <1>0, <2>4, <3>4, <4>1, <4>2, <4>3, Fails
    <3> QED BY <1>0, <1>a, <2>4, <3>3, <3>4
  <2>5. CASE After >= BufEnd /\ Traced(k + 2)
    <3>1. mem[After] = Ones
      BY <1>0, <1>1, <1>3, <2>1, <2>5, NextLap
    <3>2. LoadTsc(After) = AllOnes
      BY <1>0, <3>1, Loads
    <3>3. /\ rpc' = "start"
          /\ UNCHANGED <<cur, lastTsc, corruption, next, curTsc, skipping, reg>>
      BY <1>0, <1>a, <2>5, <3>2
    <3> QED BY <1>0, <2>5, <3>3, StartPlace
  <2>6. CASE After >= BufEnd /\ ~ Traced(k + 2)
    <3>1. /\ k + 1 = Len(log)
          /\ pc = "idle" => mem[After] = Zero
      BY <1>0, <1>1, <1>3, <2>1, <2>6, NextLap
    <3>2. pc = "idle" => LoadTsc(After) = 0
      BY <3>1, Kinds DEF LoadTsc
    <3>3. CASE Valid
      <4>1. pc = "end" => ptr = After
        <5>1. pc = "end" => lapFrom # Len(log)
          BY <1>0, <1>3 DEF Laps
        <5>2. pc = "end" => ptr = LapEnd
          BY DEF IInv, Position
        <5> QED BY <2>1, <3>1, <5>1, <5>2 DEF LapEnd
      <4> QED BY <1>0, <1>3, <2>6, <3>3, <4>1, MovesPlace
    <3>4. CASE Invalid /\ LoadTsc(After) # 0
      <4>1. pc # "idle"
        BY <3>2, <3>4
      <4>2. ~ (lastTsc = 0 /\ lapFrom > 0)
        BY <1>1, <4>1 DEF Passed
      <4>3. k # Len(log)
        BY <1>0, <1>3
      <4> QED BY <1>0, <2>6, <3>4, <4>1, <4>2, <4>3, Fails
    <3>5. CASE /\ LoadTsc(After) = AllOnes /\ rpc' = "start"
               /\ UNCHANGED <<cur, lastTsc, corruption, next, curTsc, skipping, reg>>
      BY <1>0, <3>2, <3>5, StartPlace
    <3> QED BY <1>0, <1>a, <2>6, <3>3, <3>4, <3>5
  <2> QED BY <1>0, <2>3, <2>4, <2>5, <2>6
<1>6. LenOf(reg.id) \in Nat /\ (k < Len(log) => LenOf(log[k + 1].id) \in Nat)
  <2>1. reg.id \in Id /\ (k < Len(log) => k + 1 \in 1 .. Len(log))
    BY <1>0 DEF ReaderTypeOK
  <2> QED BY <2>1, LenOfType, MsgIs
<1> QED BY <1>0, <1>2, <1>3, <1>4, <1>5, <1>6

\* The first timestamp of the ring, for the last message of a lap.
LEMMA ReadStartPlace ==
    ASSUME IInv, RingHolds, ReaderInv, KeptUpWith, Rising, Laps, Zeros, UNCHANGED vars, Noted,
           ReadStart, NEW k \in 0 .. Len(log), AtPlace(k)
    PROVE  misled' \/ AtPlace(k)' \/ (skipping /\ k < Len(log) /\ AtPlace(k + 1)')
<1>0. /\ Len(log) \in Nat /\ k \in Nat /\ k + 1 \in Nat /\ k + 2 \in Nat /\ MessageFits
      /\ rpc = "start" /\ Reading /\ rpc # "id" /\ rpc # "poll" /\ cur < BufEnd
      /\ After \in Nat /\ After \in Addr /\ BufEnd \in Nat /\ AllOnes # 0 /\ AllOnes \in Nat
      /\ After >= BufEnd /\ cur \in Addr /\ ReaderTypeOK
  BY Writers, Cells, BufEndAssumption, MaxTscAssumption
     DEF KeptUpWith, Reading, ReadStart, ReaderInv, ReaderHolds, ReaderTypeOK, AllOnes
<1>b. Start \in Addr
  BY LastType, BufEndAssumption DEF Addr, Start, Last
<1>1. Passed(k) /\ Ahead(k) /\ Asked(k) /\ Reads(k) /\ IdIs(k) /\ Tries(k)
  BY DEF AtPlace
<1>a. \/ Valid /\ NextFits(LoadTsc(Start))
      \/ Invalid /\ ~ NextFits(LoadTsc(Start))
  BY DEF ReadStart
<1>c. cur # Start
  <2>1. After = cur + LenOf(reg.id) + 1 /\ reg.id \in Id
    BY DEF ReaderInv, ReaderTypeOK, After
  <2>2. Start + LenOf(reg.id) + 1 < BufEnd /\ LenOf(reg.id) \in Nat
    BY <1>0, <2>1, LenOfType DEF MessageFits
  <2> QED BY <1>0, <2>1, <2>2 DEF Start
<1>2. CASE k = Len(log)
  <2>1. /\ reg.tsc = clock /\ mem[cur] = Tsc(clock) /\ ptr # Start
    BY <1>0, <1>2, FoundOut
  <2>2. Stamped(Start)
    BY <2>1 DEF RingHolds, Begins
  <2>3. ~ NextFits(LoadTsc(Start))
    BY <1>0, <1>b, <1>c, <2>1, <2>2, Older
  <2> QED BY <1>0, <1>2, <1>a, <2>3, FailsEarly
<1>4. CASE k < Len(log) /\ early /\ LenOf(reg.id) < LenOf(log[k + 1].id)
  <2>1. EndOf(log[k + 1]) >= BufEnd /\ k + 1 \in 1 .. Len(log) /\ EndOf(log[k + 1]) \in Nat
        /\ reg.tsc = log[k + 1].tsc /\ log[k + 1].tsc \in Nat
    <3>1. /\ cur \in Nat /\ k + 1 \in 1 .. Len(log) /\ log[k + 1].at = cur
          /\ LenOf(reg.id) \in Nat /\ After = cur + LenOf(reg.id) + 1
      BY <1>0, <1>1, <1>4, ReadIs
    <3>2. /\ EndOf(log[k + 1]) = cur + LenOf(log[k + 1].id) + 1 /\ EndOf(log[k + 1]) \in Nat
          /\ LenOf(log[k + 1].id) \in Nat /\ log[k + 1].tsc \in Nat
      BY <3>1, MsgIs
    <3>3. EndOf(log[k + 1]) >= BufEnd
      BY <1>0, <1>4, <3>1, <3>2
    <3>4. reg.tsc = log[k + 1].tsc
      BY <1>0, <1>1, <3>1 DEF Reads, TscOf
    <3> QED BY <3>1, <3>2, <3>3, <3>4
  <2>2. CASE Invalid
    BY <1>0, <1>4, <2>2, FailsHasty
  <2>3. CASE Valid /\ NextFits(LoadTsc(Start)) /\ ~ Traced(k + 2)
    <3>1. PICK t \in Nat : 0 < t /\ t < log[k + 1].tsc /\ mem[Start] = Tsc(t)
      BY <1>0, <1>1, <1>4, <2>1, <2>3, NextLap
    <3>2. LoadTsc(Start) = t
      BY <3>1, Kinds DEF LoadTsc
    <3> QED BY <2>1, <2>3, <3>1, <3>2 DEF NextFits
  <2>4. CASE Valid /\ NextFits(LoadTsc(Start)) /\ Traced(k + 2)
    <3>1. mem[Start] = Tsc(TscOf(k + 2)) /\ TscOf(k + 2) \in Nat /\ TscOf(k + 2) > 0
      BY <1>0, <1>1, <1>4, <2>1, <2>4, NextLap, TscIs
    <3>2. LoadTsc(Start) = TscOf(k + 2)
      BY <3>1, Kinds DEF LoadTsc
    <3>3. skipping
      <4>1. ~ skipping => curTsc < TscOf(k + 2) /\ curTsc \in Nat
        BY <1>0, <1>1, <1>4, <2>4 DEF IdIs, ReaderTypeOK
      <4> QED BY <2>4, <3>1, <3>2, <4>1 DEF NextFits
    <3>4. ~ (After < BufEnd)
      BY <1>0
    <3>5. ~ (k + 1 = Len(log) /\ pc = "end")
      BY <1>0, <2>4 DEF Traced
    <3>6. IF skipping THEN AtPlace(k + 1)' ELSE AtPlace(k)'
      BY <1>0, <1>4, <2>1, <2>4, <3>3, <3>4, <3>5, MovesPlace
    <3> QED BY <1>4, <3>3, <3>6
  <2> QED BY <1>a, <2>2, <2>3, <2>4
<1>5. CASE k < Len(log) /\ early /\ LenOf(log[k + 1].id) < LenOf(reg.id)
  <2>1. CASE Valid
    BY <1>0, <1>5, <2>1, TooLong
  <2>2. CASE Invalid
    BY <1>0, <1>5, <2>2, FailsHasty
  <2> QED BY <1>a, <2>1, <2>2
<1>3. CASE k < Len(log) /\ (early => LenOf(reg.id) = LenOf(log[k + 1].id))
  <2>1. After = EndOf(log[k + 1]) /\ k + 1 \in 1 .. Len(log) /\ reg.tsc = log[k + 1].tsc
    <3>1. After = EndOf(log[k + 1]) /\ k + 1 \in 1 .. Len(log)
      BY <1>0, <1>1, <1>3, ReadIs
    <3> QED BY <1>0, <1>1, <3>1 DEF Reads, TscOf
  <2>2. Traced(k + 2) => ~ (k + 1 = Len(log) /\ pc \in {"end", "idle"})
    BY <1>0 DEF Traced
  <2>3. CASE Traced(k + 2)
    <3>1. mem[Start] = Tsc(TscOf(k + 2))
      BY <1>0, <1>1, <1>3, <2>1, <2>3, NextLap
    <3>2. ~ NextFits(LoadTsc(Start)) => ~ skipping /\ ~ (TscOf(k + 2) < curTsc)
      BY <1>0, <1>b, <1>3, <2>3, <3>1, FollowingIs
    <3>3. CASE Valid
      BY <1>0, <1>3, <2>2, <2>3, <3>3, MovesPlace
    <3>4. CASE Invalid /\ ~ NextFits(LoadTsc(Start))
      BY <1>0, <1>3, <2>3, <3>2, <3>4, Fails
    <3> QED BY <1>a, <3>3, <3>4
  <2>4. CASE ~ Traced(k + 2)
    <3>1. PICK t \in Nat : 0 < t /\ t < log[k + 1].tsc /\ mem[Start] = Tsc(t)
      BY <1>0, <1>1, <1>3, <2>1, <2>4, NextLap
    <3>2. LoadTsc(Start) = t /\ log[k + 1].tsc \in Nat
      BY <2>1, <3>1, Kinds, MsgIs DEF LoadTsc
    <3>3. ~ NextFits(LoadTsc(Start))
      BY <2>1, <3>1, <3>2 DEF NextFits
    <3>4. Invalid
      BY <1>a, <3>3
    <3>5. ~ (lastTsc = 0 /\ lapFrom > 0)
      BY <1>1, <1>c DEF Passed
    <3>6. k # Len(log)
      BY <1>0, <1>3
    <3>7. k + 1 = Len(log) /\ pc = "idle" => corruption = 0
      BY <1>0, <1>1, <2>4 DEF Tries, ReaderInv, ReaderTypeOK
    <3> QED BY <1>0, <2>4, <3>4, <3>5, <3>6, <3>7, Fails
  <2> QED BY <2>3, <2>4
<1>6. LenOf(reg.id) \in Nat /\ (k < Len(log) => LenOf(log[k + 1].id) \in Nat)
  <2>1. reg.id \in Id /\ (k < Len(log) => k + 1 \in 1 .. Len(log))
    BY <1>0 DEF ReaderTypeOK
  <2> QED BY <2>1, LenOfType, MsgIs
<1> QED BY <1>0, <1>2, <1>3, <1>4, <1>5, <1>6

\* Fastforward ends once, and the file is opened once.
LEMMA GoesOn ==
    ASSUME ReaderTypeOK, Reader
    PROVE  rpc' # "open" /\ (skipping' => skipping) /\ (rpc = "open" => Open)
<1>1. Invalid => rpc' # "open" /\ (skipping' => skipping)
  BY DEF Invalid, EndRound, Reset
<1>2. Valid => rpc' # "open" /\ (skipping' => skipping)
  BY DEF Valid, Skip, EndRound
<1>3. CASE Open \/ Poll \/ Order
  BY <1>3 DEF Open, Poll, Order
<1>4. CASE ReadTsc
  BY <1>1, <1>4 DEF ReadTsc, EndRound
<1>5. CASE ReadId \/ ReadLen
  BY <1>1, <1>5 DEF ReadId, ReadLen
<1>6. CASE ReadNext \/ ReadStart
  BY <1>1, <1>2, <1>6 DEF ReadNext, ReadStart
<1>7. CASE Format \/ Dumped
  BY <1>7 DEF Format, Dumped, Reset, EndRound
<1> QED BY <1>3, <1>4, <1>5, <1>6, <1>7 DEF Reader

\* What is printed stays as it is while the reader does not print.
LEMMA SameLines ==
    ASSUME Noted, LinesExact, out' = out
    PROVE  LinesExact'
<1>1. misled => misled'
  BY Zenon DEF Noted
<1>2. CASE misled
  BY <1>1, <1>2, Zenon DEF LinesExact
<1>3. CASE ~ misled
  <2>1. \A i \in 1 .. Len(out) : out[i].ok /\ out[i].data /\ (out[i].exact \/ out[i].early)
    BY <1>3, Zenon DEF LinesExact
  <2>2. \A i \in 1 .. Len(out') :
            out'[i].ok /\ out'[i].data /\ (out'[i].exact \/ out'[i].early)
    BY <2>1
  <2> QED BY <2>2, Zenon DEF LinesExact
<1> QED BY <1>2, <1>3

\* The reader stays behind the message where it is or goes behind the next one,
\* unless an id that it loaded too early leads it further.
LEMMA ReaderKeepsPlace ==
    ASSUME TailIInv, KeptUpWith, Rising, Laps, Zeros, LinesExact, Reader, Noted,
           UNCHANGED vars, rpc # "open", NEW k \in 0 .. Len(log), AtPlace(k)
    PROVE  /\ misled' \/ AtPlace(k)' \/ (k < Len(log) /\ AtPlace(k + 1)')
           /\ LinesExact'
<1>0. IInv /\ RingHolds /\ ReaderInv /\ MessageFits
  BY DEF TailIInv, ReaderInv, KeptUpWith
<1>1. CASE Open
  BY <1>1 DEF Open
<1>2. CASE Poll \/ Order
  <2>1. AtPlace(k)'
    BY <1>0, <1>2, PollOrderPlace
  <2>2. out' = out
    BY <1>2 DEF Poll, Order
  <2>3. LinesExact'
    BY <2>2, SameLines
  <2> QED BY <2>1, <2>3
<1>3. CASE ReadTsc
  <2>1. AtPlace(k)'
    BY <1>0, <1>3, ReadTscPlace
  <2>2. out' = out
    BY <1>3 DEF ReadTsc
  <2>3. LinesExact'
    BY <2>2, SameLines
  <2> QED BY <2>1, <2>3
<1>4. CASE ReadId
  <2>1. AtPlace(k)'
    BY <1>0, <1>4, ReadIdPlace
  <2>2. out' = out
    BY <1>4 DEF ReadId
  <2>3. LinesExact'
    BY <2>2, SameLines
  <2> QED BY <2>1, <2>3
<1>5. CASE ReadLen
  <2>1. AtPlace(k)'
    BY <1>0, <1>5, ReadLenPlace
  <2>2. out' = out
    BY <1>5 DEF ReadLen
  <2>3. LinesExact'
    BY <2>2, SameLines
  <2> QED BY <2>1, <2>3
<1>6. CASE ReadNext
  <2>1. misled' \/ AtPlace(k)' \/ (skipping /\ k < Len(log) /\ AtPlace(k + 1)')
    BY <1>0, <1>6, ReadNextPlace
  <2>2. out' = out
    BY <1>6 DEF ReadNext
  <2>3. LinesExact'
    BY <2>2, SameLines
  <2> QED BY <2>1, <2>3
<1>7. CASE ReadStart
  <2>1. misled' \/ AtPlace(k)' \/ (skipping /\ k < Len(log) /\ AtPlace(k + 1)')
    BY <1>0, <1>7, ReadStartPlace
  <2>2. out' = out
    BY <1>7 DEF ReadStart
  <2>3. LinesExact'
    BY <2>2, SameLines
  <2> QED BY <2>1, <2>3
<1>8. CASE Format
  <2>1. AtPlace(k)'
    BY <1>0, <1>8, FormatPlace
  <2>2. out' = out
    BY <1>8 DEF Format
  <2>3. LinesExact'
    BY <2>2, SameLines
  <2> QED BY <2>1, <2>3
<1>9. CASE Dumped
  BY <1>0, <1>9, DumpedPlace
<1> QED BY <1>1, <1>2, <1>3, <1>4, <1>5, <1>6, <1>7, <1>8, <1>9 DEF Reader

LEMMA InitKeepsUpInv == TailInit => KeepsUpInv
<1> SUFFICES ASSUME TailInit PROVE KeepsUpInv
  OBVIOUS
<1>1. /\ log = <<>> /\ Len(log) = 0 /\ out = <<>> /\ Len(out) = 0 /\ pc = "idle" /\ off = {}
      /\ lapFrom = 0 /\ Init /\ BufIs
  BY DEF TailInit, Init
<1>2. Rising /\ LinesExact
  BY <1>1 DEF Rising, LinesExact
<1>3. mem[Start] = Zero
  <2>1. Start \in Addr /\ ~ (Start >= BufEnd)
    BY LastType, BufEndAssumption DEF Addr, Start, Last
  <2> QED BY <1>1, <2>1 DEF BufIs
<1>4. Laps
  BY <1>1, <1>3 DEF Laps
<1>5. KeepsPlace
  BY DEF TailInit, KeepsPlace
<1>6. Zeros
  <2>1. ASSUME NEW a \in Addr
        PROVE  /\ mem[a].kind \in {"tsc", "ones"}
               /\ mem[a] = Zero => ptr <= a /\ a < BufEnd
    <3>1. ptr <= a /\ a \in Nat /\ BufEnd \in Nat
      BY <1>1, BufEndAssumption DEF BufIs, Addr, Start
    <3>2. CASE a >= BufEnd
      <4>1. mem[a] = Ones
        BY <1>1, <3>2 DEF BufIs
      <4> QED BY <4>1, Kinds
    <3>3. CASE ~ (a >= BufEnd)
      <4>1. mem[a] = Zero
        BY <1>1, <3>3 DEF BufIs
      <4> QED BY <3>1, <3>3, <4>1, Kinds
    <3> QED BY <3>2, <3>3
  <2> QED BY <1>1, <2>1 DEF Zeros, BufIs
<1> QED BY <1>2, <1>4, <1>5, <1>6 DEF KeepsUpInv

LEMMA KeepsUpInvStep ==
    ASSUME KeptUpWith, TailIInv, KeepsUpInv, [TailNext]_tailVars
    PROVE  KeepsUpInv'
<1>0. /\ IInv /\ RingHolds /\ ReaderInv /\ ReaderTypeOK /\ MessageFits /\ KeepsUp /\ QtctlIds = {}
      /\ Rising /\ Laps /\ Zeros /\ LinesExact /\ (misled \/ KeepsPlace)
  BY DEF TailIInv, ReaderInv, KeptUpWith, KeepsUpInv
<1>1. CASE UNCHANGED tailVars
  <2>1. UNCHANGED vars /\ UNCHANGED readVars /\ out' = out /\ early' = early /\ misled' = misled
    BY <1>1 DEF tailVars
  <2>2. /\ mem' = mem /\ ptr' = ptr /\ pc' = pc /\ log' = log /\ lapFrom' = lapFrom
        /\ prevFrom' = prevFrom /\ clock' = clock /\ msgStart' = msgStart /\ msg' = msg
        /\ tailPtr' = tailPtr
        /\ cur' = cur /\ lastTsc' = lastTsc /\ corruption' = corruption /\ next' = next
        /\ curTsc' = curTsc /\ rpc' = rpc /\ skipping' = skipping /\ reg' = reg
    BY <2>1 DEF vars, ringVars, histVars, readVars
  <2>3. Rising' /\ Laps' /\ Zeros'
    <3>1. Rising' = Rising /\ Laps' = Laps
      BY <2>1, Still
    <3>2. Zeros'
      BY <1>0, <2>2 DEF Zeros
    <3> QED BY <1>0, <3>1, <3>2
  <2>4. LinesExact'
    BY <1>0, <2>1 DEF LinesExact
  <2>5. ASSUME KeepsPlace PROVE KeepsPlace'
    <3>1. CASE rpc = "open"
      BY <2>2, <2>5, <3>1 DEF KeepsPlace
    <3>2. CASE rpc # "open"
      <4>1. PICK k \in 0 .. Len(log) : AtPlace(k)
        BY <2>5, <3>2 DEF KeepsPlace
      <4>2. Passed(k)'
        BY <2>1, <2>2, <4>1, StillPassed DEF AtPlace
      <4>3. Ahead(k)'
        BY <2>1, <4>1, Still DEF AtPlace
      <4>4. Asked(k)'
        BY <2>1, <2>2, <4>1, Still DEF AtPlace, Asked
      <4>5. Reads(k)'
        BY <2>1, <2>2, <4>1, Still DEF AtPlace, Reads, Reading, LenOf
      <4>6. Tries(k)'
        BY <2>1, <2>2, <4>1, Still DEF AtPlace, Tries
      <4>7. IdIs(k)'
        <5>1. CASE Reading /\ rpc # "id"
          BY <2>1, <2>2, <4>1, <5>1, StillIdIs DEF AtPlace
        <5>2. CASE ~ (Reading /\ rpc # "id")
          BY <2>2, <5>2 DEF IdIs, Reading
        <5> QED BY <5>1, <5>2
      <4>8. AtPlace(k)'
        BY <4>2, <4>3, <4>4, <4>5, <4>6, <4>7 DEF AtPlace
      <4> QED BY <2>2, <3>2, <4>1, <4>8 DEF KeepsPlace
    <3> QED BY <3>1, <3>2
  <2>6. misled' \/ KeepsPlace'
    BY <1>0, <2>1, <2>5
  <2> QED BY <2>3, <2>4, <2>6 DEF KeepsUpInv
<1>2. CASE WriterNext
  <2>1. /\ WriterStep /\ Next /\ UNCHANGED readVars /\ out' = out /\ rpc' = rpc
        /\ early' = early /\ misled' = misled
    BY <1>2 DEF WriterNext, WriterStep, readVars
  <2>2. Rising' /\ Laps'
    BY <1>0, <2>1, LapsStep
  <2>3. Zeros'
    BY <1>0, <2>1, ZerosStep
  <2>4. LinesExact'
    BY <1>0, <2>1 DEF LinesExact
  <2>5. ASSUME KeepsPlace PROVE KeepsPlace'
    <3>1. CASE rpc = "open"
      BY <2>1, <2>5, <3>1 DEF KeepsPlace, readVars
    <3>2. CASE rpc # "open"
      <4>1. PICK k \in 0 .. Len(log) : AtPlace(k)
        BY <2>5, <3>2 DEF KeepsPlace
      <4>2. AtPlace(k)' /\ k \in 0 .. Len(log')
        BY <1>0, <2>1, <3>2, <4>1, WriterKeepsPlace
      <4> QED BY <2>1, <3>2, <4>2 DEF KeepsPlace
    <3> QED BY <3>1, <3>2
  <2>6. misled' \/ KeepsPlace'
    BY <1>0, <2>1, <2>5
  <2> QED BY <2>2, <2>3, <2>4, <2>6 DEF KeepsUpInv
<1>3. CASE ReaderNext
  <2>1. Reader /\ Noted /\ UNCHANGED vars /\ log' = log
    BY <1>3 DEF ReaderNext, vars, histVars
  <2>2. Rising' /\ Laps' /\ Zeros'
    <3>1. Rising' = Rising /\ Laps' = Laps
      BY <2>1, Still
    <3>2. mem' = mem /\ ptr' = ptr /\ pc' = pc /\ tailPtr' = tailPtr
      BY <2>1 DEF vars, ringVars
    <3>3. Zeros'
      BY <1>0, <3>2 DEF Zeros
    <3> QED BY <1>0, <3>1, <3>3
  <2>3. rpc' # "open" /\ (rpc = "open" => Open)
    BY <1>0, <2>1, GoesOn
  <2>4. CASE misled
    <3>1. misled'
      BY <2>1, <2>4, Zenon DEF Noted
    <3>2. LinesExact'
      BY <3>1, Zenon DEF LinesExact
    <3> QED BY <2>2, <3>1, <3>2 DEF KeepsUpInv
  <2>5. CASE ~ misled /\ rpc = "open"
    <3>1. PICK k : k = lapFrom
      OBVIOUS
    <3>2. KeepsPlace'
      <4>1. KeepsPlace
        BY <1>0, <2>5
      <4>2. AtPlace(k)' /\ k \in 0 .. Len(log')
        BY <1>0, <2>1, <2>3, <2>5, <3>1, <4>1, OpenPlace
      <4> QED BY <2>3, <4>2 DEF KeepsPlace
    <3>3. LinesExact'
      <4>1. out' = out
        BY <2>3, <2>5 DEF Open
      <4> QED BY <1>0, <2>1, <4>1, SameLines
    <3> QED BY <2>2, <3>2, <3>3 DEF KeepsUpInv
  <2>6. CASE ~ misled /\ rpc # "open"
    <3>1. PICK k \in 0 .. Len(log) : AtPlace(k)
      BY <1>0, <2>6 DEF KeepsPlace
    <3>2. /\ misled' \/ AtPlace(k)' \/ (k < Len(log) /\ AtPlace(k + 1)')
          /\ LinesExact'
      BY <1>0, <2>1, <2>6, <3>1, ReaderKeepsPlace
    <3>3. Len(log) \in Nat
      BY <1>0, Writers
    <3>4. misled' \/ KeepsPlace'
      BY <2>1, <2>3, <3>1, <3>2, <3>3 DEF KeepsPlace
    <3> QED BY <2>2, <3>2, <3>4 DEF KeepsUpInv
  <2> QED BY <2>4, <2>5, <2>6
<1> QED BY <1>1, <1>2, <1>3 DEF TailNext

\* Seen from outside: as many messages are behind the reader as it stands behind.
LEMMA ShownIs ==
    ASSUME IInv, ReaderTypeOK, Rising, Laps, NEW k \in 0 .. Len(log), Passed(k), ~ skipping
    PROVE  Shown = k
<1>1. Len(log) \in Nat /\ k \in Nat /\ lastTsc \in Nat
  BY Writers DEF ReaderTypeOK
<1>2. ASSUME NEW i \in 1 .. Len(log)
      PROVE  ~ Unread(i) <=> i <= k
  <2>1. log[i].tsc \in Nat
    BY MsgIs
  <2>2. CASE i > k
    BY <1>1, <2>2, UnreadIs
  <2>3. CASE i <= k
    <3>1. lastTsc # 0
      <4>1. lapFrom \in Nat /\ k > 0
        BY <1>1, <2>3, LapIs
      <4> QED BY <4>1 DEF Passed
    <3>2. k \in 1 .. Len(log) /\ lastTsc = log[k].tsc
      BY <1>1, <3>1 DEF Passed
    <3>3. i = k \/ log[i].tsc < log[k].tsc
      BY <1>1, <2>3, <3>2 DEF Rising
    <3> QED BY <1>1, <2>1, <2>3, <3>2, <3>3 DEF Unread
  <2> QED BY <1>1, <2>2, <2>3
<1>3. {i \in 1 .. Len(log) : ~ Unread(i)} = 1 .. k
  BY <1>1, <1>2
<1>4. Cardinality(1 .. k) = k
  BY <1>1, FS_Interval
<1> QED BY <1>3, <1>4 DEF Shown

\* What the refinement relies on, in both states of a step.
ShowsPlace ==
    /\ Shown \in Int
    /\ \A k \in 0 .. Len(log) : AtPlace(k) /\ ~ skipping => Shown = k

LEMMA PlaceShown == TailIInv /\ KeepsUpInv => ShowsPlace
<1> SUFFICES ASSUME TailIInv, KeepsUpInv PROVE ShowsPlace
  OBVIOUS
<1>1. Shown \in Int
  <2>1. Len(log) \in Nat
    BY Writers DEF TailIInv
  <2>2. IsFiniteSet(1 .. Len(log))
    BY <2>1, FS_Interval
  <2>3. IsFiniteSet({i \in 1 .. Len(log) : ~ Unread(i)})
    BY <2>2, FS_Subset
  <2>4. Cardinality({i \in 1 .. Len(log) : ~ Unread(i)}) \in Nat
    BY <2>3, FS_CardinalityType
  <2> QED BY <2>4 DEF Shown
<1>2. ASSUME NEW k \in 0 .. Len(log), AtPlace(k), ~ skipping
      PROVE  Shown = k
  BY <1>2, ShownIs DEF TailIInv, KeepsUpInv, AtPlace
<1> QED BY <1>1, <1>2 DEF ShowsPlace

\* The program only appends to what it traced.
LEMMA LogGrows ==
    ASSUME IInv, Laps, QtctlIds = {}, Next
    PROVE  Len(log') = Len(log) \/ Len(log') = Len(log) + 1
<1>1. CASE EndMsgLen
  BY <1>1, Logged
<1>2. CASE ~ EndMsgLen
  <2>1. log' = log
    BY <1>2, Steps DEF WrapSeal, WrapTurn, StartMsg, PutId, PutWord, EndMsgZero, histVars
  <2> QED BY <2>1
<1> QED BY <1>1, <1>2

\* What an outsider sees of TailSpec.
seen == <<Len(log), Shown, misled>>

\* A reader that was led too far may show anything.
LEMMA StrayStep ==
    ASSUME misled', misled' \in BOOLEAN, Len(log') = Len(log) \/ Len(log') = Len(log) + 1,
           Shown' \in Int
    PROVE  Promise!Next
<1>1. misled' = TRUE
  BY Zenon
<1>2. Promise!Stray
  BY <1>1 DEF Promise!Stray
<1> QED BY <1>2 DEF Promise!Next

\* Every step is one of TraceLog or stutters there.
LEMMA LogStep ==
    ASSUME KeptUpWith, TailIInv, TailIInv', KeepsUpInv, ShowsPlace, ShowsPlace',
           [TailNext]_tailVars
    PROVE  [Promise!Next]_seen
<1>0. /\ IInv /\ RingHolds /\ ReaderInv /\ ReaderTypeOK /\ MessageFits /\ KeepsUp /\ QtctlIds = {}
      /\ Rising /\ Laps /\ Zeros /\ LinesExact /\ (misled \/ KeepsPlace) /\ Len(log) \in Nat
      /\ Shown' \in Int
  BY Writers DEF TailIInv, ReaderInv, KeptUpWith, KeepsUpInv, ShowsPlace
<1>a. misled \in BOOLEAN /\ misled' \in BOOLEAN
  BY DEF TailIInv, ReaderTypeOK
<1>1. CASE UNCHANGED tailVars
  <2>1. log' = log /\ lastTsc' = lastTsc /\ skipping' = skipping /\ misled' = misled
    BY <1>1 DEF tailVars, vars, histVars, readVars
  <2>2. Shown' = Shown
    BY <2>1 DEF Shown, Unread
  <2> QED BY <2>1, <2>2 DEF seen
<1>2. CASE WriterNext
  <2>1. WriterStep /\ Next /\ UNCHANGED readVars /\ skipping' = skipping /\ misled' = misled
        /\ early' = early
    BY <1>2 DEF WriterNext, WriterStep, readVars
  <2>2. Len(log') = Len(log) \/ Len(log') = Len(log) + 1
    BY <1>0, <2>1, LogGrows
  <2>3. CASE misled
    <3>1. misled'
      BY <2>1, <2>3
    <3> QED BY <1>0, <1>a, <2>2, <3>1, StrayStep
  <2>4. CASE ~ misled
    <3>1. Shown' = Shown
      <4>1. CASE skipping
        BY <2>1, <4>1 DEF Shown
      <4>2. CASE ~ skipping
        <5>1. KeepsPlace
          BY <1>0, <2>4
        <5>2. rpc # "open"
          BY <4>2, <5>1 DEF KeepsPlace
        <5>3. PICK k \in 0 .. Len(log) : AtPlace(k)
          BY <5>1, <5>2 DEF KeepsPlace
        <5>4. AtPlace(k)' /\ k \in 0 .. Len(log')
          BY <1>0, <2>1, <5>2, <5>3, WriterKeepsPlace
        <5>5. Shown = k
          BY <4>2, <5>3 DEF ShowsPlace
        <5>6. Shown' = k
          BY <2>1, <4>2, <5>4 DEF ShowsPlace
        <5> QED BY <5>5, <5>6
      <4> QED BY <4>1, <4>2
    <3>2. Len(log') = Len(log) + 1 => Promise!Trace
      BY <2>1, <3>1 DEF Promise!Trace
    <3> QED BY <2>1, <2>2, <3>1, <3>2 DEF Promise!Next, seen
  <2> QED BY <2>3, <2>4
<1>3. CASE ReaderNext
  <2>1. Reader /\ Noted /\ UNCHANGED vars /\ log' = log
    BY <1>3 DEF ReaderNext, vars, histVars
  <2>2. (skipping' => skipping) /\ (rpc = "open" => Open)
    BY <1>0, <2>1, GoesOn
  <2>3. CASE misled'
    <3>1. Len(log') = Len(log)
      BY <2>1
    <3>2. Promise!Next
      BY <1>0, <1>a, <2>3, <3>1, StrayStep
    <3> QED BY <3>2
  <2>4. ASSUME ~ misled'
        PROVE  ~ misled /\ misled' = misled
    <3>1. ~ misled
      BY <2>1, <2>4, Zenon DEF Noted
    <3> QED BY <1>a, <2>4, <3>1, Zenon
  <2>5. CASE ~ misled' /\ skipping'
    <3>1. Shown = -1 /\ Shown' = -1
      BY <2>2, <2>5 DEF Shown
    <3>2. misled' = misled
      BY <2>4, <2>5
    <3> QED BY <2>1, <3>1, <3>2 DEF seen
  <2>6. CASE ~ misled' /\ ~ skipping'
    <3>0. misled' = misled /\ KeepsPlace
      BY <1>0, <2>4, <2>6
    <3>1. rpc # "open"
      <4>1. Open /\ skipping => skipping'
        BY DEF Open
      <4> QED BY <2>2, <2>6, <3>0, <4>1 DEF KeepsPlace
    <3>2. PICK k \in 0 .. Len(log) : AtPlace(k)
      BY <3>0, <3>1 DEF KeepsPlace
    <3>3. misled' \/ AtPlace(k)' \/ (k < Len(log) /\ AtPlace(k + 1)')
      BY <1>0, <2>1, <3>1, <3>2, ReaderKeepsPlace
    <3>4. PICK n \in 0 .. Len(log) : AtPlace(n)' /\ (n = k \/ n = k + 1)
      BY <1>0, <2>6, <3>2, <3>3
    <3>5. Shown' = n
      BY <2>1, <2>6, <3>4 DEF ShowsPlace
    <3>6. CASE skipping
      <4>1. Shown = -1
        BY <3>6 DEF Shown
      <4>2. ~ misled
        BY <2>4, <2>6
      <4>3. Promise!Attach
        BY <2>1, <3>0, <3>5, <4>1, <4>2 DEF Promise!Attach
      <4> QED BY <4>3 DEF Promise!Next
    <3>7. CASE ~ skipping
      <4>1. Shown = k
        BY <3>2, <3>7 DEF ShowsPlace
      <4>2. CASE n = k
        BY <2>1, <3>0, <3>5, <4>1, <4>2 DEF seen
      <4>3. CASE n = k + 1
        <5>1. k \in 0 .. Len(log) - 1
          BY <1>0, <3>4, <4>3
        <5>2. ~ misled
          BY <2>4, <2>6
        <5>3. Promise!Show
          BY <2>1, <3>0, <3>5, <4>1, <4>3, <5>1, <5>2 DEF Promise!Show
        <5> QED BY <5>3 DEF Promise!Next
      <4> QED BY <3>4, <4>2, <4>3
    <3> QED BY <3>6, <3>7
  <2> QED BY <2>3, <2>5, <2>6
<1> QED BY <1>1, <1>2, <1>3 DEF TailNext

\* The reader that keeps up stands behind a message of the log all the time, or
\* was led away from there by an old id behind a new timestamp, for every ring
\* and every set of messages.
THEOREM KeepsUpInvariance ==
    ASSUME KeptUpWith
    PROVE  TailSpec => []KeepsUpInv
<1>1. TailSpec => []TailIInv
  <2>1. MessageFits
    BY DEF KeptUpWith
  <2> QED BY <2>1, TailInvariance
<1>2. TailInit => KeepsUpInv
  BY InitKeepsUpInv
<1>3. TailIInv /\ KeepsUpInv /\ [TailNext]_tailVars => KeepsUpInv'
  BY KeepsUpInvStep
<1> QED BY <1>1, <1>2, <1>3, PTL DEF TailSpec

\* HoldsItsPlace: the reader never calls reset and never passes over a message,
\* whatever the interleaving of its loads with the stores of the program, but
\* for one: it loads the old id behind the new timestamp (startMsg stores both
\* one after the other), of a longer message, and finds it in place.
THEOREM PlaceIsHeld ==
    ASSUME KeptUpWith
    PROVE  TailSpec => []HoldsItsPlace
<1>1. TailSpec => []KeepsUpInv
  BY KeepsUpInvariance
<1>2. KeepsUpInv => HoldsItsPlace
  <2>1. SUFFICES ASSUME misled \/ KeepsPlace PROVE HoldsItsPlace
    BY DEF KeepsUpInv
  <2>2. ASSUME NEW k \in 0 .. Len(log), Passed(k)
        PROVE  lastTsc = 0 \/ (k \in 1 .. Len(log) /\ log[k].tsc = lastTsc)
    BY <2>2 DEF Passed
  <2>3. CASE misled
    BY <2>3 DEF HoldsItsPlace
  <2>4. CASE KeepsPlace
    BY <2>2, <2>4 DEF KeepsPlace, AtPlace, HoldsItsPlace
  <2> QED BY <2>1, <2>3, <2>4
<1> QED BY <1>1, <1>2, PTL

\* LinesExact: each line it prints has the data of the message that the program
\* traced at that time, and its text, unless the id was loaded between the two
\* stores of startMsg; and the check behind the line finds nothing wrong.
THEOREM LinesAreExact ==
    ASSUME KeptUpWith
    PROVE  TailSpec => []LinesExact
<1>1. TailSpec => []KeepsUpInv
  BY KeepsUpInvariance
<1>2. KeepsUpInv => LinesExact
  BY DEF KeepsUpInv
<1> QED BY <1>1, <1>2, PTL

\* ImplementsLog, but for its fairness: ring and reader implement the log of
\* TraceLog.  The end of a message is its Trace, the end of fastforward its
\* Attach, a printed line its Show, an old id that leads the reader too far its
\* Stray, and every other step stutters.
THEOREM LogIsImplemented ==
    ASSUME KeptUpWith
    PROVE  TailSpec => Promise!Init /\ [][Promise!Next]_seen
<1>1. TailSpec => []TailIInv
  <2>1. MessageFits
    BY DEF KeptUpWith
  <2> QED BY <2>1, TailInvariance
<1>2. TailSpec => []KeepsUpInv
  BY KeepsUpInvariance
<1>3. TailIInv /\ KeepsUpInv => ShowsPlace
  BY PlaceShown
<1>4. TailInit => Promise!Init
  BY DEF TailInit, Init, Promise!Init, Shown
<1>5. /\ TailIInv /\ TailIInv' /\ KeepsUpInv /\ ShowsPlace /\ ShowsPlace'
      /\ [TailNext]_tailVars
      => [Promise!Next]_seen
  BY LogStep
<1> QED BY <1>1, <1>2, <1>3, <1>4, <1>5, PTL DEF TailSpec

(***************************************************************************)
(* qttail -c on the ring of a program that stopped (QtCat)                 *)
(***************************************************************************)

\* Steps that store at the writer's place and complete no message.
LEMMA StoreLaps ==
    ASSUME IInv, LapsHold, NEW c, Store(ptr, c), UNCHANGED histVars,
           \/ ptr' = ptr + 1 /\ c.kind # "ones"
           \/ ptr' = ptr /\ (c = Zero \/ (c = Ones /\ ptr >= BufEnd)),
           pc' \in {"id", "put"} => clock' > 0,
           pc' \in {"idle", "turned"} => lapFrom < Len(log)
    PROVE  LapsHold'
<1>0. /\ TypeOK /\ ptr \in Nat /\ ptr' \in Nat /\ ptr <= ptr' /\ Len(log) \in Nat
      /\ lapFrom \in Nat /\ prevFrom \in Nat /\ prevFrom <= lapFrom /\ lapFrom <= Len(log)
      /\ log' = log /\ lapFrom' = lapFrom /\ prevFrom' = prevFrom
  BY Writers, LogType DEF IInv, histVars
<1>1. \A a \in Addr : mem'[a] = IF a = ptr THEN c ELSE mem[a]
  BY <1>0, StoreAt
<1>2. Rising' /\ InPlace'
  BY <1>0 DEF LapsHold, Rising, InPlace, EndOf
<1>3. Filled'
  BY <1>0 DEF LapsHold, Filled
<1>4. OldRemains'
  <2>1. ASSUME NEW i \in prevFrom + 1 .. lapFrom, EndOf(log[i]) - 1 > ptr'
        PROVE  mem'[EndOf(log[i]) - 1] = LenCell(LenOf(log[i].id))
    <3>1. i \in 1 .. Len(log)
      BY <1>0
    <3>2. EndOf(log[i]) \in Nat /\ EndOf(log[i]) \in Addr
      BY <3>1, MsgIs
    <3>3. EndOf(log[i]) - 1 > ptr /\ EndOf(log[i]) - 1 # ptr /\ EndOf(log[i]) - 1 \in Addr
      BY <1>0, <2>1, <3>2, LastType DEF Addr, Start
    <3>4. mem[EndOf(log[i]) - 1] = LenCell(LenOf(log[i].id))
      BY <3>3 DEF LapsHold, OldRemains
    <3> QED BY <1>1, <3>3, <3>4
  <2>2. ~ (lapFrom' = Len(log') /\ lapFrom' > 0 /\ pc' \in {"idle", "turned"})
    BY <1>0
  <2> QED BY <1>0, <2>1, <2>2 DEF OldRemains, EndOf
<1>5. Fresh'
  <2> SUFFICES ASSUME lapFrom = 0, NEW a \in Addr, a >= ptr'
               PROVE  \/ mem'[a] = (IF a >= BufEnd THEN Ones ELSE Zero)
                      \/ a = ptr' /\ mem'[a] = Zero
    BY <1>0 DEF Fresh
  <2>0. a \in Nat
    BY DEF Addr, Start
  <2>1. CASE a = ptr
    BY <1>0, <1>1, <2>0, <2>1
  <2>2. CASE a # ptr
    <3>1. mem'[a] = mem[a] /\ a >= ptr
      BY <1>0, <1>1, <2>0, <2>2
    <3> QED BY <1>0, <2>0, <2>2, <3>1 DEF LapsHold, Fresh
  <2> QED BY <2>1, <2>2
<1>6. OnesBeyond'
  <2>1. c.kind = "ones" => ptr >= BufEnd
    BY Kinds
  <2> QED BY <1>1, <2>1 DEF LapsHold, OnesBeyond
<1> QED BY <1>2, <1>3, <1>4, <1>5, <1>6 DEF LapsHold

\* The message is complete.
LEMMA EndMsgLenLaps == ASSUME IInv, LapsHold, EndMsgLen PROVE LapsHold'
<1>0. /\ TypeOK /\ ptr \in Nat /\ Len(log) \in Nat /\ clock \in Nat
      /\ lapFrom \in Nat /\ prevFrom \in Nat /\ prevFrom <= lapFrom /\ lapFrom <= Len(log)
      /\ log \in Seq(Msg)
  BY Writers, LogType DEF IInv
<1> DEFINE m == [at |-> msgStart, id |-> msg.id, tsc |-> msg.tsc]
<1>1. /\ Store(ptr, LenCell(ptr - msgStart)) /\ ptr' = ptr + 1 /\ pc' = "end" /\ pc = "put"
      /\ log' = Append(log, m) /\ UNCHANGED <<clock, lapFrom, prevFrom>>
  BY DEF EndMsgLen
<1>2. m \in Msg /\ m.tsc = clock /\ m.at = msgStart
  BY <1>0, <1>1, Writers DEF Msg
<1> HIDE DEF m
<1>3. /\ Len(log') = Len(log) + 1 /\ log'[Len(log) + 1] = m
      /\ \A i \in 1 .. Len(log) : log'[i] = log[i]
  BY <1>0, <1>1, <1>2
<1>4. \A i \in 1 .. Len(log') : i \in 1 .. Len(log) \/ i = Len(log) + 1
  BY <1>0, <1>3
<1>5. /\ \A i \in 1 .. Len(log) : log[i].tsc < clock /\ log[i].tsc > 0
      /\ \A i \in lapFrom + 1 .. Len(log) : EndOf(log[i]) <= msgStart
      /\ clock > 0
  BY <1>1 DEF IInv, Laid, Position, LapsHold, Filled
<1>6. Rising'
  BY <1>0, <1>2, <1>3, <1>4, <1>5 DEF LapsHold, Rising
<1>7. Filled'
  BY <1>0, <1>1, <1>2, <1>3, <1>4, <1>5 DEF LapsHold, Filled
<1>8. InPlace'
  <2> SUFFICES ASSUME NEW i \in prevFrom + 1 .. Len(log'), NEW j \in prevFrom + 1 .. Len(log'),
                      i < j, j <= lapFrom \/ i > lapFrom
               PROVE  EndOf(log'[i]) <= log'[j].at
    BY <1>1 DEF InPlace, EndOf
  <2>1. i \in 1 .. Len(log) /\ i \in prevFrom + 1 .. Len(log)
    BY <1>0, <1>3
  <2>2. CASE j = Len(log) + 1
    <3>1. i \in lapFrom + 1 .. Len(log)
      BY <1>0, <2>1, <2>2
    <3> QED BY <1>2, <1>3, <1>5, <2>1, <2>2, <3>1
  <2>3. CASE j # Len(log) + 1
    <3>1. j \in 1 .. Len(log) /\ j \in prevFrom + 1 .. Len(log)
      BY <1>0, <1>3, <2>3
    <3> QED BY <1>3, <2>1, <3>1 DEF LapsHold, InPlace
  <2> QED BY <2>2, <2>3
<1>9. \A a \in Addr : a # ptr => mem'[a] = mem[a]
  BY <1>0, <1>1, StoreAt
<1>10. OldRemains'
  <2>1. ASSUME NEW i \in prevFrom + 1 .. lapFrom, EndOf(log[i]) - 1 > ptr'
        PROVE  mem'[EndOf(log[i]) - 1] = LenCell(LenOf(log[i].id))
    <3>1. i \in 1 .. Len(log)
      BY <1>0
    <3>2. EndOf(log[i]) \in Nat /\ EndOf(log[i]) \in Addr
      BY <3>1, MsgIs
    <3>3. EndOf(log[i]) - 1 > ptr /\ EndOf(log[i]) - 1 # ptr /\ EndOf(log[i]) - 1 \in Addr
      BY <1>0, <1>1, <2>1, <3>2, LastType DEF Addr, Start
    <3>4. mem[EndOf(log[i]) - 1] = LenCell(LenOf(log[i].id))
      BY <3>3 DEF LapsHold, OldRemains
    <3> QED BY <1>9, <3>3, <3>4
  <2>2. \A i \in prevFrom + 1 .. lapFrom : log'[i] = log[i]
    BY <1>0, <1>3
  <2> QED BY <1>1, <2>1, <2>2 DEF OldRemains, EndOf
<1>11. Fresh'
  <2> SUFFICES ASSUME lapFrom = 0, NEW a \in Addr, a >= ptr'
               PROVE  \/ mem'[a] = (IF a >= BufEnd THEN Ones ELSE Zero)
                      \/ a = ptr' /\ mem'[a] = Zero
    BY <1>1 DEF Fresh
  <2>1. a \in Nat /\ a # ptr /\ a >= ptr
    BY <1>0, <1>1 DEF Addr, Start
  <2> QED BY <1>9, <2>1 DEF LapsHold, Fresh
<1>12. OnesBeyond'
  <2>1. \A a \in Addr : mem'[a] = IF a = ptr THEN LenCell(ptr - msgStart) ELSE mem[a]
    BY <1>0, <1>1, StoreAt
  <2> QED BY <2>1, Kinds DEF LapsHold, OnesBeyond
<1> QED BY <1>6, <1>7, <1>8, <1>10, <1>11, <1>12 DEF LapsHold

\* Laps keep their messages, whatever the writer does.
LEMMA LapsHoldStep ==
    ASSUME IInv, RingHolds, LapsHold, Next
    PROVE  LapsHold'
<1>0. /\ TypeOK /\ ptr \in Nat /\ Start <= ptr /\ Len(log) \in Nat /\ clock \in Nat
      /\ lapFrom \in Nat /\ prevFrom \in Nat /\ prevFrom <= lapFrom /\ lapFrom <= Len(log)
      /\ pc = "turned" => ptr = Start
      /\ BufEnd \in Nat /\ BufEnd > 1
  BY Writers, LogType, BufEndAssumption DEF IInv
<1>1. pc \in {"seal", "end"} => ptr = LapEnd /\ lapFrom < Len(log)
  <2>1. pc \in {"seal", "end"} => ptr = LapEnd /\ ptr # Start
    <3>1. pc \in {"seal", "end"} => ptr = LapEnd
      BY DEF IInv, Position
    <3>2. pc = "seal" => ptr # Start
      BY <1>0, Writers DEF Start
    <3>3. pc = "end" => ptr # Start
      BY DEF RingHolds, Begins
    <3> QED BY <3>1, <3>2, <3>3
  <2> QED BY <1>0, <2>1 DEF LapEnd
<1>2. CASE WrapSeal
  <2>1. Store(ptr, Ones) /\ UNCHANGED histVars /\ ptr' = ptr /\ ptr >= BufEnd /\ pc' = "seal"
    BY <1>2 DEF WrapSeal
  <2> QED BY <2>1, StoreLaps
<1>3. CASE WrapTurn
  <2>1. /\ mem' = mem /\ ptr' = Start /\ log' = log /\ pc' = "turned"
        /\ prevFrom' = lapFrom /\ lapFrom' = Len(log) /\ lapFrom < Len(log)
    BY <1>1, <1>3 DEF WrapTurn
  <2>2. Rising' /\ Filled'
    BY <1>0, <2>1 DEF LapsHold, Rising, Filled
  <2>3. InPlace'
    BY <1>0, <2>1 DEF LapsHold, InPlace, EndOf
  <2>4. OldRemains'
    <3>1. ASSUME NEW i \in lapFrom + 1 .. Len(log)
          PROVE  Intact(log[i]) /\ mem[EndOf(log[i]) - 1] = LenCell(LenOf(log[i].id))
      <4>1. Intact(log[i])
        BY <3>1 DEF IInv, LapReadable
      <4>2. EndOf(log[i]) - 1 = log[i].at + LenOf(log[i].id)
        BY <1>0, MsgIs
      <4> QED BY <4>1, <4>2 DEF Intact
    <3>2. lapFrom + 1 \in lapFrom + 1 .. Len(log)
      BY <1>0, <2>1
    <3> QED BY <2>1, <3>1, <3>2 DEF OldRemains, EndOf, Intact
  <2>5. Fresh' /\ OnesBeyond'
    BY <1>0, <2>1 DEF LapsHold, Fresh, OnesBeyond
  <2> QED BY <2>2, <2>3, <2>4, <2>5 DEF LapsHold
<1>4. CASE \E id \in Id : StartMsg(id)
  <2>1. PICK id \in Id : StartMsg(id)
    BY <1>4
  <2>2. /\ Store(ptr, Tsc(clock + 2)) /\ ptr' = ptr + 1 /\ pc' = "id" /\ clock' = clock + 2
        /\ UNCHANGED histVars
    BY <2>1 DEF StartMsg, Stamps, Rdtsc
  <2>3. clock' > 0
    BY <1>0, <2>2
  <2> QED BY <2>2, <2>3, StoreLaps, Kinds
<1>5. CASE \E id \in Id : StartMsgOff(id)
  <2>1. PICK id \in Id : StartMsgOff(id)
    BY <1>5
  <2>2. /\ UNCHANGED <<mem, ptr, log, lapFrom, prevFrom>> /\ pc' = "idle" /\ pc \in {"turned", "idle"}
    BY <2>1 DEF StartMsgOff, Stamps, histVars
  <2>3. Rising' /\ Filled' /\ InPlace' /\ Fresh' /\ OnesBeyond'
    BY <2>2 DEF LapsHold, Rising, Filled, InPlace, Fresh, OnesBeyond, EndOf
  <2>4. OldRemains'
    BY <2>2 DEF LapsHold, OldRemains, EndOf, Intact
  <2> QED BY <2>3, <2>4 DEF LapsHold
<1>6. CASE PutId
  <2>1. /\ Store(ptr, IdCell(msg.id)) /\ ptr' = ptr + 1 /\ pc' = "put" /\ clock' = clock /\ pc = "id"
        /\ UNCHANGED histVars
    BY <1>6 DEF PutId
  <2>2. clock' > 0
    BY <2>1 DEF LapsHold, Filled
  <2> QED BY <2>1, <2>2, StoreLaps, Kinds
<1>7. CASE PutWord
  <2>1. /\ Store(ptr, Word(msg.tsc)) /\ ptr' = ptr + 1 /\ pc' = "put" /\ clock' = clock /\ pc = "put"
        /\ UNCHANGED histVars
    BY <1>7 DEF PutWord
  <2>2. clock' > 0
    BY <2>1 DEF LapsHold, Filled
  <2> QED BY <2>1, <2>2, StoreLaps, Kinds
<1>8. CASE EndMsgZero
  <2>1. /\ Store(ptr, Zero) /\ ptr' = ptr /\ pc' = "idle" /\ pc = "end"
        /\ UNCHANGED histVars
    BY <1>8 DEF EndMsgZero
  <2> QED BY <1>1, <2>1, StoreLaps
<1>9. CASE EndMsgLen
  BY <1>9, EndMsgLenLaps
<1>10. CASE \E id \in QtctlIds : Qtctl(id)
  <2>1. UNCHANGED <<mem, ptr, log, lapFrom, prevFrom, pc, clock>>
    BY <1>10 DEF Qtctl, histVars
  <2>2. Rising' /\ Filled' /\ InPlace' /\ Fresh' /\ OnesBeyond'
    BY <2>1 DEF LapsHold, Rising, Filled, InPlace, Fresh, OnesBeyond, EndOf
  <2>3. OldRemains'
    BY <2>1 DEF LapsHold, OldRemains, EndOf, Intact
  <2> QED BY <2>2, <2>3 DEF LapsHold
<1> QED BY <1>2, <1>3, <1>4, <1>5, <1>6, <1>7, <1>8, <1>9, <1>10 DEF Next, Writer

\* At first the ring is empty.
LEMMA InitLapsHold == Init => LapsHold
<1> SUFFICES ASSUME Init PROVE LapsHold
  OBVIOUS
<1>1. /\ log = <<>> /\ lapFrom = 0 /\ prevFrom = 0 /\ pc = "idle"
      /\ mem = [a \in Addr |-> IF a >= BufEnd THEN Ones ELSE Zero]
  BY DEF Init, BufIs
<1>2. OnesBeyond
  BY <1>1, Kinds DEF OnesBeyond
<1> QED BY <1>1, <1>2 DEF LapsHold, Rising, Filled, InPlace, OldRemains, Fresh

\* The messages that are in the ring.
Whole(i) ==
    \/ i > lapFrom
    \/ i > prevFrom /\ (log[i].at > ptr \/ (lapFrom = Len(log) /\ pc \in {"idle", "turned"}))

\* What the laps are, for a reader of the ring at rest.
LEMMA RestIs ==
    ASSUME IInv, RingHolds, LapsHold
    PROVE  /\ Len(log) \in Nat /\ lapFrom \in Nat /\ lapFrom <= Len(log)
           /\ prevFrom \in Nat /\ prevFrom <= lapFrom
           /\ lapFrom > 0 => prevFrom < lapFrom
           /\ tailPtr = 0 <=> lapFrom = 0
           /\ ptr \in Nat /\ ptr \in Addr /\ Start <= ptr /\ BufEnd \in Nat /\ BufEnd > Start
           /\ Start \in Nat /\ Start \in Addr
           /\ pc \in {"idle", "seal", "turned", "id", "put", "end"}
           /\ pc \in {"idle", "seal", "turned", "end"} => ptr = LapEnd
           /\ pc \in {"id", "put"} => msgStart = LapEnd
           /\ pc \in {"seal", "end"} => lapFrom < Len(log)
           /\ pc = "turned" => lapFrom = Len(log)
           /\ LapEnd \in Nat /\ LapEnd \in Addr /\ LapEnd <= ptr
<1>1. /\ Len(log) \in Nat /\ lapFrom \in Nat /\ lapFrom <= Len(log)
      /\ prevFrom \in Nat /\ prevFrom <= lapFrom /\ TypeOK
  BY LogType DEF IInv
<1>2. lapFrom > 0 => prevFrom < lapFrom
  BY DEF LapsHold, Filled
<1>3. tailPtr = 0 <=> lapFrom = 0
  BY DEF IInv, Position
<1>4. /\ ptr \in Nat /\ ptr \in Addr /\ Start <= ptr /\ BufEnd \in Nat /\ BufEnd > Start
      /\ Start \in Nat /\ pc \in {"idle", "seal", "turned", "id", "put", "end"}
      /\ pc \in {"id", "put"} => msgStart \in Nat /\ msgStart \in Addr /\ msgStart < ptr
  BY Writers, BufEndAssumption DEF Start, Addr
<1>5. Start \in Addr
  BY <1>4, LastType DEF Addr, Start
<1>6. /\ pc \in {"idle", "seal", "turned", "end"} => ptr = LapEnd
      /\ pc \in {"id", "put"} => msgStart = LapEnd
      /\ pc = "turned" => lapFrom = Len(log)
  BY DEF IInv, Position
<1>7. pc \in {"seal", "end"} => lapFrom < Len(log)
  <2>1. pc = "seal" => ptr # Start
    BY <1>4, Writers
  <2>2. pc = "end" => ptr # Start
    BY DEF RingHolds, Begins
  <2> QED BY <1>1, <1>6, <2>1, <2>2 DEF LapEnd
<1>8. LapEnd \in Nat /\ LapEnd \in Addr /\ LapEnd <= ptr
  BY <1>4, <1>6
<1> QED BY <1>1, <1>2, <1>3, <1>4, <1>5, <1>6, <1>7, <1>8

\* They are unharmed.
LEMMA WholeIs ==
    ASSUME IInv, RingHolds, LapsHold, NEW i \in 1 .. Len(log), Whole(i)
    PROVE  Intact(log[i])
<1>0. /\ Len(log) \in Nat /\ lapFrom \in Nat /\ prevFrom \in Nat /\ i \in Nat
      /\ lapFrom > 0 => prevFrom < lapFrom
  BY RestIs
<1>1. CASE i > lapFrom
  BY <1>0, <1>1, LapsAre
<1>2. CASE i <= lapFrom /\ log[i].at > ptr
  BY <1>0, <1>2, LapsAre DEF Whole
<1>3. CASE i <= lapFrom /\ ~ (log[i].at > ptr)
  <2>1. i > prevFrom /\ lapFrom = Len(log) /\ pc \in {"idle", "turned"} /\ lapFrom > 0
    BY <1>0, <1>3 DEF Whole
  <2>2. CASE i = prevFrom + 1
    BY <2>1, <2>2 DEF LapsHold, OldRemains
  <2>3. CASE i # prevFrom + 1
    <3>1. i > prevFrom + 1 /\ i # lapFrom + 1
      BY <1>0, <1>3, <2>1, <2>3
    <3>2. i - 1 \in 1 .. Len(log) /\ log[i].at = EndOf(log[i - 1])
      BY <1>0, <3>1, LapsAre
    <3>3. EndOf(log[i - 1]) > Start
      <4>1. PICK j \in 1 .. Len(log) : j = i - 1
        BY <3>2
      <4> QED BY <4>1, MsgIs DEF Start
    <3>4. ptr = Start
      BY <2>1, RestIs DEF LapEnd
    <3> QED BY <1>3, <3>2, <3>3, <3>4
  <2> QED BY <2>2, <2>3
<1> QED BY <1>0, <1>1, <1>2, <1>3

\* What qttail sees of a message, when its place is there.
LEMMA SeenIs ==
    ASSUME IInv, RingHolds, LapsHold, NEW i \in 1 .. Len(log), Intact(log[i]), cur = log[i].at
    PROVE  /\ LoadTsc(cur) = log[i].tsc /\ log[i].tsc > 0 /\ log[i].tsc < AllOnes
           /\ log[i].tsc \in Nat /\ AllOnes \in Nat
           /\ Decodes /\ Behind = EndOf(log[i])
           /\ NextTsc = IF cur = Start /\ log[i].tsc < lastTsc THEN 0 ELSE log[i].tsc
           /\ NextTsc = log[i].tsc => NewLine = Faithful(log[i])
<1>0. /\ log[i].at \in Addr /\ log[i].id \in Id /\ log[i].tsc \in Nat /\ log[i].tsc <= clock
      /\ log[i].tsc > 0 /\ EndOf(log[i]) = log[i].at + LenOf(log[i].id) + 1
  BY MsgIs DEF LapsHold, Filled
<1>1. /\ mem[cur] = Tsc(log[i].tsc) /\ mem[cur + 1] = IdCell(log[i].id)
      /\ \A w \in 1 .. Words[log[i].id] : mem[cur + 1 + w] = Word(log[i].tsc)
      /\ mem[cur + LenOf(log[i].id)] = LenCell(LenOf(log[i].id))
  BY DEF Intact
<1>2. LoadTsc(cur) = log[i].tsc
  BY <1>1, Kinds DEF LoadTsc
<1>3. log[i].tsc < AllOnes /\ AllOnes \in Nat
  <2>1. MaxTsc \in Nat /\ clock \in Nat /\ clock <= MaxTsc
    BY MaxTscAssumption, Writers
  <2> QED BY <1>0, <2>1 DEF AllOnes
<1>4. mem[cur + 1].kind = "id" /\ mem[cur + 1].val = log[i].id
  BY <1>1, Kinds
<1>5. Decodes /\ Behind = EndOf(log[i])
  BY <1>0, <1>1, <1>4 DEF Decodes, Behind
<1>6. NextTsc = IF cur = Start /\ log[i].tsc < lastTsc THEN 0 ELSE log[i].tsc
  BY <1>2 DEF NextTsc
<1>7. NextTsc = log[i].tsc => NewLine = Faithful(log[i])
  BY <1>1, <1>4 DEF NewLine, Faithful
<1> QED BY <1>0, <1>2, <1>3, <1>5, <1>6, <1>7

\* What lies behind message i does not contradict it.
Fits(i) ==
    LET n == LoadTsc(EndOf(log[i]))
    IN  \/ n = 0
        \/ EndOf(log[i]) >= BufEnd /\ n = AllOnes
        \/ EndOf(log[i]) < BufEnd /\ n >= log[i].tsc /\ n # Garbage

\* The message behind another one of the same lap.
LEMMA NextWhole ==
    ASSUME IInv, RingHolds, LapsHold, NEW i \in 1 .. Len(log), Whole(i), i < Len(log), i # lapFrom
    PROVE  i + 1 \in 1 .. Len(log) /\ Whole(i + 1) /\ log[i + 1].at = EndOf(log[i])
<1>0. /\ Len(log) \in Nat /\ lapFrom \in Nat /\ prevFrom \in Nat /\ prevFrom <= lapFrom /\ i \in Nat
      /\ lapFrom > 0 => prevFrom < lapFrom
      /\ ptr \in Nat
  BY RestIs
<1>1. i > prevFrom
  BY <1>0 DEF Whole
<1>2. PICK j \in 1 .. Len(log) : j = i + 1
  BY <1>0
<1>3. j > prevFrom + 1 /\ j # lapFrom + 1
  BY <1>0, <1>1, <1>2
<1>4. log[j].at = EndOf(log[j - 1])
  BY <1>0, <1>3, LapsAre
<1>5. log[j].at = EndOf(log[i]) /\ EndOf(log[i]) > log[i].at
  <2>1. EndOf(log[i]) > log[i].at
    BY MsgIs
  <2> QED BY <1>0, <1>2, <1>4, <2>1
<1>6. Whole(j)
  <2>1. CASE i > lapFrom
    BY <1>0, <1>2, <2>1 DEF Whole
  <2>2. CASE i < lapFrom
    <3>1. log[j].at \in Nat /\ log[i].at \in Nat /\ EndOf(log[i]) \in Nat
      BY MsgIs
    <3> QED BY <1>0, <1>2, <1>3, <1>5, <2>2, <3>1 DEF Whole
  <2> QED BY <1>0, <2>1, <2>2
<1> QED BY <1>2, <1>5, <1>6

\* Behind a message that is in the ring comes what may come there.
LEMMA FitsIs ==
    ASSUME IInv, RingHolds, LapsHold, NEW i \in 1 .. Len(log), Whole(i),
           i = Len(log) /\ i > lapFrom => Finished
    PROVE  Fits(i)
<1>a. /\ Len(log) \in Nat /\ lapFrom \in Nat /\ lapFrom <= Len(log) /\ prevFrom \in Nat /\ i \in Nat
      /\ lapFrom > 0 => prevFrom < lapFrom
      /\ ptr \in Nat /\ BufEnd \in Nat /\ LapEnd \in Addr /\ i <= Len(log)
  BY RestIs
<1>b. /\ log[i].at \in Nat /\ EndOf(log[i]) \in Nat /\ log[i].at < EndOf(log[i])
      /\ log[i].tsc \in Nat /\ log[i].tsc <= clock
  BY MsgIs
<1>c. /\ clock \in Nat /\ clock <= MaxTsc
      /\ AllOnes = MaxTsc + 2 /\ Garbage = MaxTsc + 3 /\ MaxTsc \in Nat
  BY Writers, MaxTscAssumption DEF AllOnes, Garbage
<1>0. /\ Len(log) \in Nat /\ lapFrom \in Nat /\ lapFrom <= Len(log) /\ prevFrom \in Nat /\ i \in Nat
      /\ lapFrom > 0 => prevFrom < lapFrom
      /\ ptr \in Nat /\ BufEnd \in Nat /\ LapEnd \in Addr /\ i <= Len(log)
      /\ log[i].at \in Nat /\ EndOf(log[i]) \in Nat /\ log[i].at < EndOf(log[i])
      /\ log[i].tsc \in Nat /\ log[i].tsc <= clock /\ clock \in Nat /\ clock <= MaxTsc
      /\ AllOnes = MaxTsc + 2 /\ Garbage = MaxTsc + 3 /\ MaxTsc \in Nat
  BY <1>a, <1>b, <1>c
<1>1. CASE i = Len(log) /\ i > lapFrom
  <2>1. EndOf(log[i]) = LapEnd /\ lapFrom < Len(log)
    BY <1>0, <1>1 DEF LapEnd
  <2>2. CASE pc = "idle"
    <3>1. mem[EndOf(log[i])] = Zero
      BY <1>0, <2>1, <2>2 DEF IInv, Position
    <3>2. LoadTsc(EndOf(log[i])) = 0
      BY <3>1, Kinds DEF LoadTsc
    <3> QED BY <3>2 DEF Fits
  <2>3. CASE pc = "seal"
    <3>1. mem[EndOf(log[i])] = Ones /\ EndOf(log[i]) >= BufEnd
      BY <1>0, <2>1, <2>3 DEF IInv, Position
    <3>2. LoadTsc(EndOf(log[i])) = AllOnes
      BY <3>1, Kinds DEF LoadTsc
    <3> QED BY <3>1, <3>2 DEF Fits
  <2>4. CASE pc = "end"
    <3>1. EndOf(log[i]) = ptr
      BY <2>1, <2>4, RestIs
    <3> QED BY <1>1, <2>4, <3>1 DEF Fits, Finished
  <2>5. CASE pc \in {"id", "put"}
    <3>1. EndOf(log[i]) = msgStart
      BY <2>1, <2>5, RestIs
    <3>2. mem[msgStart] = Tsc(clock) /\ msgStart < BufEnd
      BY <2>5, Writers
    <3>3. LoadTsc(EndOf(log[i])) = clock
      BY <3>1, <3>2, Kinds DEF LoadTsc
    <3> QED BY <1>0, <3>1, <3>2, <3>3 DEF Fits
  <2> QED BY <2>1, <2>2, <2>3, <2>4, <2>5, RestIs
<1>2. CASE i = lapFrom
  <2>1. lapFrom > 0
    BY <1>0, <1>2
  <2>2. EndOf(log[i]) = tailPtr /\ tailPtr >= BufEnd /\ (tailPtr > ptr => mem[tailPtr] = Ones)
    BY <1>0, <1>2, <2>1, LapsAre
  <2>3. tailPtr > ptr
    <3>1. CASE log[i].at > ptr
      BY <1>0, <2>2, <3>1
    <3>2. CASE lapFrom = Len(log) /\ pc \in {"idle", "turned"}
      <4>1. ptr = Start /\ BufEnd > Start
        BY <3>2, RestIs DEF LapEnd
      <4> QED BY <1>0, <2>2, <4>1
    <3> QED BY <1>0, <1>2, <3>1, <3>2 DEF Whole
  <2>4. LoadTsc(EndOf(log[i])) = AllOnes
    BY <2>2, <2>3, Kinds DEF LoadTsc
  <2> QED BY <2>2, <2>4 DEF Fits
<1>3. CASE i < Len(log) /\ i # lapFrom
  <2>1. PICK j \in 1 .. Len(log) : j = i + 1 /\ Whole(j) /\ log[j].at = EndOf(log[i])
    BY <1>3, NextWhole
  <2>2. Intact(log[j])
    BY <2>1, WholeIs
  <2>3. mem[EndOf(log[i])] = Tsc(log[j].tsc)
    BY <2>1, <2>2 DEF Intact
  <2>4. LoadTsc(EndOf(log[i])) = log[j].tsc
    BY <2>3, Kinds DEF LoadTsc
  <2>5. log[i].tsc < log[j].tsc
    BY <1>0, <2>1 DEF LapsHold, Rising
  <2>6. /\ log[j].tsc \in Nat /\ log[j].tsc <= clock /\ log[j].at < BufEnd
    BY MsgIs
  <2> QED BY <1>0, <2>1, <2>4, <2>5, <2>6 DEF Fits
<1> QED BY <1>0, <1>1, <1>2, <1>3

\* The reader is at a message that is in the ring: it takes it, if what lies
\* behind it does not contradict.
LEMMA TakesMessage ==
    ASSUME IInv, RingHolds, LapsHold, NEW i \in 1 .. Len(log), Whole(i), cur = log[i].at,
           i = Len(log) /\ i > lapFrom => Finished,
           lastTsc \in Nat, lastTsc <= log[i].tsc
    PROVE  IsMessage /\ ~ IsNone
<1>1. Intact(log[i]) /\ Fits(i)
  BY WholeIs, FitsIs
<1>2. /\ LoadTsc(cur) = log[i].tsc /\ log[i].tsc > 0 /\ log[i].tsc < AllOnes
      /\ log[i].tsc \in Nat /\ Decodes /\ Behind = EndOf(log[i])
      /\ NextTsc = IF cur = Start /\ log[i].tsc < lastTsc THEN 0 ELSE log[i].tsc
  BY <1>1, SeenIs
<1>3. NextTsc = log[i].tsc
  BY <1>2
<1>4. NextTscFits
  BY <1>1, <1>2 DEF Fits, NextTscFits
<1> QED BY <1>2, <1>3, <1>4 DEF IsMessage, IsNone

\* The reader has taken the newest message of the lap: what lies behind does
\* not contradict it.
LEMMA FinishedIs ==
    ASSUME IInv, RingHolds, LapsHold, lapFrom < Len(log), cur = log[Len(log)].at, IsMessage
    PROVE  Finished
<1> SUFFICES ASSUME pc = "end" PROVE LoadTsc(ptr) = 0 \/ (ptr >= BufEnd /\ LoadTsc(ptr) = AllOnes)
  BY DEF Finished
<1>1. PICK i \in 1 .. Len(log) : i = Len(log) /\ i > lapFrom
  BY RestIs
<1>2. Intact(log[i])
  BY <1>1, WholeIs DEF Whole
<1>3. /\ LoadTsc(cur) = log[i].tsc /\ log[i].tsc > 0 /\ log[i].tsc \in Nat /\ Behind = EndOf(log[i])
  BY <1>1, <1>2, SeenIs
<1>4. Behind = ptr /\ ptr \in Addr /\ ptr \in Nat
  BY <1>1, <1>3, RestIs DEF LapEnd
<1>5. CASE ptr < BufEnd /\ LoadTsc(ptr) >= log[i].tsc /\ LoadTsc(ptr) # Garbage
  <2>0. mem[ptr].kind # "ones"
    BY <1>4, <1>5, BufEndAssumption DEF LapsHold, OnesBeyond
  <2>1. LoadTsc(ptr) \in Nat /\ mem[ptr].kind = "tsc" /\ LoadTsc(ptr) = mem[ptr].val
    BY <1>4, <1>5, <2>0, Loads DEF LoadTsc
  <2>2. Stamped(ptr)
    BY <1>3, <1>5, <2>1 DEF Stamped
  <2>3. ~ Begun(ptr)
    BY DEF Begun
  <2>4. PICK j \in 1 .. Len(log) : log[j].at = ptr /\ log[j].tsc = mem[ptr].val
    BY <1>4, <2>2, <2>3 DEF RingHolds, Kept
  <2>5. j = i
    <3>1. Len(log) \in Nat /\ log[j].tsc \in Nat
      BY MsgIs, RestIs
    <3>2. j < i => log[j].tsc < log[i].tsc
      BY DEF LapsHold, Rising
    <3> QED BY <1>1, <1>3, <1>5, <2>1, <2>4, <3>1, <3>2
  <2>6. EndOf(log[i]) > log[i].at
    BY MsgIs
  <2> QED BY <1>3, <1>4, <2>4, <2>5, <2>6
<1>6. NextTscFits
  BY DEF IsMessage
<1> QED BY <1>3, <1>4, <1>5, <1>6 DEF NextTscFits

\* The cells of a message that is being written, as long as what is stored
\* there tells.
LEMMA TornCells ==
    ASSUME IInv, RingHolds, LapsHold, pc \in {"id", "put"}, mem[msgStart + 1].kind = "id"
    PROVE  /\ msgStart \in Addr /\ msgStart \in Nat /\ msgStart < BufEnd
           /\ mem[msgStart + 1].val \in Id
           /\ LenOf(mem[msgStart + 1].val) \in Nat /\ LenOf(mem[msgStart + 1].val) >= 2
           /\ TornEnd = msgStart + LenOf(mem[msgStart + 1].val) + 1
           /\ TornEnd \in Nat /\ TornEnd - 1 \in Addr /\ ptr < TornEnd /\ msgStart < TornEnd
<1> DEFINE d == mem[msgStart + 1].val
<1>1. /\ msgStart \in Addr /\ msgStart < ptr /\ msgStart < BufEnd /\ msgStart \in Nat
      /\ msg.id \in Id /\ ptr \in Nat /\ ptr <= msgStart + LenOf(msg.id)
      /\ BufEnd \in Nat /\ Start <= msgStart
  BY Writers, RestIs DEF Addr, Start
<1>2. msgStart + 1 \in Addr
  BY <1>1, LastType, TrailerAssumption, LenOfType DEF Addr, Start, Last
<1>3. d \in Id
  BY <1>2, CellIs DEF IInv
<1>4. LenOf(d) \in Nat /\ LenOf(d) >= 2 /\ LenOf(d) + 1 <= TrailerSize
  BY <1>3, LenOfType
<1>5. TornEnd = msgStart + LenOf(d) + 1
  BY DEF TornEnd
<1>6. TornEnd - 1 \in Addr /\ TornEnd \in Nat /\ msgStart < TornEnd
  BY <1>1, <1>4, <1>5, LastType DEF Addr, Start, Last
<1>7. ptr < TornEnd
  <2>1. CASE pc = "id"
    <3>1. ptr = msgStart + 1
      BY <2>1 DEF IInv, Partial
    <3> QED BY <1>1, <1>4, <1>5, <3>1
  <2>2. CASE pc = "put"
    <3>1. mem[msgStart + 1] = IdCell(msg.id)
      BY <2>2 DEF IInv, Partial
    <3>2. d = msg.id
      BY <3>1, Kinds
    <3> QED BY <1>1, <1>4, <1>5, <3>2
  <2> QED BY <2>1, <2>2
<1> QED BY <1>1, <1>3, <1>4, <1>5, <1>6, <1>7

\* A message that is being written and passes for one is not the first of its
\* lap.
LEMMA PassesIs ==
    ASSUME IInv, RingHolds, LapsHold, MessageFits, pc \in {"id", "put"}, Passes
    PROVE  /\ msgStart # Start /\ lapFrom < Len(log) /\ msgStart = LapEnd /\ LapEnd < BufEnd
           /\ TornEnd \in Nat /\ TornEnd >= BufEnd /\ ptr < TornEnd
<1>1. mem[msgStart + 1].kind = "id" /\ TornEnd >= BufEnd
  BY DEF Passes
<1>2. /\ msgStart \in Nat /\ mem[msgStart + 1].val \in Id /\ msgStart < BufEnd
      /\ TornEnd = msgStart + LenOf(mem[msgStart + 1].val) + 1
      /\ TornEnd \in Nat /\ ptr < TornEnd
  BY <1>1, TornCells
<1>3. msgStart # Start
  <2>1. Start + LenOf(mem[msgStart + 1].val) + 1 < BufEnd
    BY <1>2 DEF MessageFits
  <2> QED BY <1>1, <1>2, <2>1, BufEndAssumption
<1>4. msgStart = LapEnd /\ lapFrom <= Len(log) /\ Len(log) \in Nat /\ lapFrom \in Nat
  BY RestIs
<1>5. lapFrom < Len(log)
  BY <1>3, <1>4 DEF LapEnd
<1> QED BY <1>1, <1>2, <1>3, <1>4, <1>5

\* The reader takes the message that is being written: only if it reaches into
\* the trailer.
LEMMA TornIs ==
    ASSUME IInv, RingHolds, LapsHold, MessageFits, pc \in {"id", "put"}, cur = msgStart, IsMessage
    PROVE  /\ Passes /\ NextTsc = clock /\ Behind = TornEnd
           /\ NewLine.tsc = clock /\ NewLine.id = mem[msgStart + 1].val
<1>1. Decodes /\ NextTscFits
  BY DEF IsMessage
<1>2. mem[msgStart + 1].kind = "id"
  BY <1>1 DEF Decodes
<1>3. /\ msgStart \in Addr /\ msgStart \in Nat /\ mem[msgStart + 1].val \in Id /\ msgStart < BufEnd
      /\ TornEnd = msgStart + LenOf(mem[msgStart + 1].val) + 1
      /\ LenOf(mem[msgStart + 1].val) \in Nat
      /\ TornEnd \in Nat /\ TornEnd - 1 \in Addr /\ ptr < TornEnd /\ msgStart < TornEnd
  BY <1>2, TornCells
<1>4. Behind = TornEnd
  BY DEF Behind, TornEnd
<1>5. mem[TornEnd - 1] = LenCell(LenOf(mem[msgStart + 1].val))
  <2>1. TornEnd - 1 = cur + LenOf(mem[cur + 1].val)
    BY <1>3
  <2> QED BY <1>1, <2>1 DEF Decodes
<1>6. TornEnd \in Addr /\ (mem[TornEnd] = Ones \/ Stamped(TornEnd))
  <2>1. mem[TornEnd - 1].kind = "len" /\ TornEnd - 1 + 1 = TornEnd /\ TornEnd # ptr
    BY <1>3, <1>5, Kinds, RestIs
  <2> QED BY <1>3, <2>1 DEF RingHolds, Followed
<1>7. LoadTsc(cur) = clock /\ mem[msgStart] = Tsc(clock) /\ clock \in Nat /\ clock > 0
  <2>1. mem[msgStart] = Tsc(clock) /\ clock \in Nat /\ clock > 0
    BY Writers DEF LapsHold, Filled
  <2> QED BY <2>1, Kinds DEF LoadTsc
<1>8. mem[TornEnd] = Ones
  <2> SUFFICES ASSUME Stamped(TornEnd) PROVE FALSE
    BY <1>6
  <2>1. /\ LoadTsc(TornEnd) # 0 /\ LoadTsc(TornEnd) <= clock /\ TornEnd < BufEnd
        /\ LoadTsc(TornEnd) \in Nat /\ mem[TornEnd] = Tsc(LoadTsc(TornEnd))
    BY <1>6, Loads
  <2>2. LoadTsc(TornEnd) = clock
    BY <1>1, <1>3, <1>4, <1>7, <2>1, BufEndAssumption DEF NextTscFits
  <2>3. mem[TornEnd] = mem[msgStart]
    BY <1>7, <2>1, <2>2
  <2>4. TornEnd = msgStart
    BY <1>3, <1>6, <2>3 DEF RingHolds, Single
  <2> QED BY <1>3, <2>4
<1>9. TornEnd >= BufEnd
  BY <1>6, <1>8, Kinds DEF LapsHold, OnesBeyond
<1>10. Passes
  BY <1>2, <1>5, <1>9 DEF Passes
<1>11. NextTsc = clock
  BY <1>7, <1>10, PassesIs DEF NextTsc
<1> QED BY <1>4, <1>10, <1>11 DEF NewLine

\* The first message that a walk from the start meets.
FirstHere == IF lapFrom < Len(log) THEN lapFrom + 1 ELSE prevFrom + 1

LEMMA FirstIs ==
    ASSUME IInv, RingHolds, LapsHold, tailPtr # 0,
           lapFrom < Len(log) \/ pc \notin {"id", "put"}
    PROVE  /\ FirstHere \in 1 .. Len(log) /\ Whole(FirstHere) /\ log[FirstHere].at = Start
           /\ FirstHere <= lapFrom => lapFrom = Len(log) /\ pc \in {"idle", "turned"}
           /\ FirstHere > prevFrom
<1>0. /\ Len(log) \in Nat /\ lapFrom \in Nat /\ lapFrom <= Len(log) /\ prevFrom \in Nat
      /\ lapFrom > 0 /\ prevFrom < lapFrom
      /\ pc \in {"seal", "end"} => lapFrom < Len(log)
      /\ pc \in {"idle", "seal", "turned", "id", "put", "end"}
  BY RestIs
<1>1. CASE lapFrom < Len(log)
  BY <1>0, <1>1, LapsAre DEF FirstHere, Whole
<1>2. CASE lapFrom = Len(log)
  <2>1. FirstHere = prevFrom + 1 /\ pc \in {"idle", "turned"}
    BY <1>0, <1>2 DEF FirstHere
  <2>2. log[prevFrom + 1].at = Start
    BY <1>0, LapsAre
  <2> QED BY <1>0, <1>2, <2>1, <2>2 DEF Whole
<1> QED BY <1>0, <1>1, <1>2

\* What a message being written leaves to be seen at its place.
LEMMA BeginningIs ==
    ASSUME IInv, RingHolds, LapsHold, pc \in {"id", "put"}
    PROVE  LoadTsc(msgStart) = clock /\ clock \in Nat /\ clock > 0
<1>1. mem[msgStart] = Tsc(clock) /\ clock \in Nat /\ clock > 0
  BY Writers DEF LapsHold, Filled
<1> QED BY <1>1, Kinds DEF LoadTsc

\* Where the walk stands behind a message.
LEMMA WalkedIs ==
    ASSUME IInv, RingHolds, LapsHold, NEW k \in prevFrom + 1 .. Len(log), Walked(k), tailPtr # 0
    PROVE  /\ k \in 1 .. Len(log) /\ Whole(k) /\ cur \in Nat /\ cur # Start
           /\ lastTsc = log[k].tsc /\ lastTsc \in Nat
           /\ k = lapFrom => lapFrom = Len(log) /\ cur = tailPtr /\ cur >= BufEnd
           /\ k = Len(log) /\ k > lapFrom => cur = LapEnd /\ Finished
           /\ k < Len(log) => /\ k # lapFrom
                              /\ k + 1 \in 1 .. Len(log) /\ Whole(k + 1) /\ cur = log[k + 1].at
                              /\ lastTsc < log[k + 1].tsc /\ k + 1 > prevFrom
                              /\ k + 1 <= lapFrom => lapFrom = Len(log) /\ pc \in {"idle", "turned"}
<1>0. /\ Len(log) \in Nat /\ lapFrom \in Nat /\ lapFrom <= Len(log) /\ prevFrom \in Nat
      /\ lapFrom > 0 /\ prevFrom < lapFrom /\ k \in Nat /\ k > prevFrom /\ k <= Len(log)
  BY RestIs
<1>1. k \in 1 .. Len(log)
  BY <1>0
<1>2. Whole(k)
  BY <1>0 DEF Whole, Walked
<1>3. cur = EndOf(log[k]) /\ lastTsc = log[k].tsc
  BY DEF Walked
<1>4. cur \in Nat /\ cur # Start /\ lastTsc \in Nat
  <2>1. /\ log[k].at \in Nat /\ log[k].at >= Start /\ EndOf(log[k]) > log[k].at
        /\ EndOf(log[k]) \in Nat /\ log[k].tsc \in Nat
    BY <1>1, MsgIs
  <2>2. Start \in Nat
    BY DEF Start
  <2> QED BY <1>3, <2>1, <2>2
<1>5. k = lapFrom => lapFrom = Len(log) /\ cur = tailPtr /\ cur >= BufEnd
  <2>1. EndOf(log[lapFrom]) = tailPtr /\ tailPtr >= BufEnd
    BY <1>0, LapsAre
  <2>2. k <= lapFrom => lapFrom = Len(log)
    BY DEF Walked
  <2>3. k = lapFrom => k <= lapFrom
    BY <1>0
  <2> QED BY <1>3, <2>1, <2>2, <2>3
<1>6. k = Len(log) /\ k > lapFrom => cur = LapEnd /\ Finished
  BY <1>0, <1>3 DEF Walked, LapEnd
<1>7. ASSUME k < Len(log)
      PROVE  /\ k # lapFrom
             /\ k + 1 \in 1 .. Len(log) /\ Whole(k + 1) /\ cur = log[k + 1].at
             /\ lastTsc < log[k + 1].tsc /\ k + 1 > prevFrom
             /\ k + 1 <= lapFrom => lapFrom = Len(log) /\ pc \in {"idle", "turned"}
  <2>1. k # lapFrom
    BY <1>0, <1>7 DEF Walked
  <2>2. k + 1 \in 1 .. Len(log) /\ Whole(k + 1) /\ cur = log[k + 1].at
    BY <1>1, <1>2, <1>3, <1>7, <2>1, NextWhole
  <2>3. lastTsc < log[k + 1].tsc
    BY <1>0, <1>1, <1>3, <2>2 DEF LapsHold, Rising
  <2> QED BY <1>0, <2>1, <2>2, <2>3 DEF Walked
<1> QED BY <1>1, <1>2, <1>3, <1>4, <1>5, <1>6, <1>7

\* Behind the newest message of a lap, unless a new one is begun there, is the
\* end of the walk.
LEMMA NothingBehind ==
    ASSUME IInv, RingHolds, LapsHold, lapFrom < Len(log), Finished, pc \notin {"id", "put"},
           cur = LapEnd, cur < BufEnd
    PROVE  IsNone
<1>1. ptr = LapEnd /\ pc \in {"idle", "seal", "end"} /\ ptr \in Nat /\ BufEnd \in Nat
  BY RestIs
<1>2. LoadTsc(ptr) = 0
  <2>1. CASE pc = "idle"
    <3>1. mem[ptr] = Zero
      BY <2>1 DEF IInv, Position
    <3> QED BY <3>1, Kinds DEF LoadTsc
  <2>2. CASE pc = "seal"
    BY <1>1, <2>2, Writers
  <2>3. CASE pc = "end"
    BY <1>1, <2>3 DEF Finished
  <2> QED BY <1>1, <2>1, <2>2, <2>3
<1> QED BY <1>1, <1>2 DEF IsNone, NextTsc

\* One turn of the first loop.
LEMMA WalkOver ==
    ASSUME IInv, RingHolds, LapsHold, NEW i \in 1 .. Len(log), Whole(i), cur = log[i].at,
           Forward, UNCHANGED vars,
           i <= lapFrom => lapFrom = Len(log) /\ pc \in {"idle", "turned"}
    PROVE  Walked(i)'
<1>1. Intact(log[i])
  BY WholeIs
<1>2. IsMessage /\ cur' = Behind /\ lastTsc' = NextTsc
  BY DEF Forward
<1>3. Behind = EndOf(log[i]) /\ NextTsc = log[i].tsc
  <2>1. /\ Behind = EndOf(log[i]) /\ log[i].tsc \in Nat
        /\ NextTsc = IF cur = Start /\ log[i].tsc < lastTsc THEN 0 ELSE log[i].tsc
    BY <1>1, SeenIs
  <2>2. NextTsc # 0
    BY <1>2, <2>1 DEF IsMessage
  <2> QED BY <2>1, <2>2
<1>4. i = Len(log) /\ i > lapFrom => Finished
  <2>1. i = Len(log) /\ i > lapFrom => lapFrom < Len(log)
    BY RestIs
  <2> QED BY <1>2, <2>1, FinishedIs
<1>5. /\ mem' = mem /\ log' = log /\ lapFrom' = lapFrom /\ pc' = pc /\ ptr' = ptr
  BY DEF vars, ringVars, histVars
<1> QED BY <1>2, <1>3, <1>4, <1>5 DEF Walked, Finished, LoadTsc, EndOf

LEMMA ForwardStep ==
    ASSUME IInv, RingHolds, LapsHold, MessageFits, AtSplit, Forward, UNCHANGED vars
    PROVE  AtSplit'
<1>0. /\ tailPtr # 0 /\ lines = <<>> /\ moved = 0 /\ IsMessage /\ cur < BufEnd
      /\ cur' = Behind /\ lastTsc' = NextTsc
      /\ mem' = mem /\ log' = log /\ lapFrom' = lapFrom /\ pc' = pc /\ ptr' = ptr
      /\ prevFrom' = prevFrom /\ tailPtr' = tailPtr /\ clock' = clock /\ msgStart' = msgStart
      /\ lines' = <<>> /\ moved' = 0
  BY DEF AtSplit, Forward, vars, ringVars, histVars
<1>1. ASSUME NEW i \in 1 .. Len(log), i > prevFrom, Walked(i)' PROVE AtSplit'
  <2>1. i \in prevFrom + 1 .. Len(log)
    BY <1>1, RestIs
  <2> QED BY <1>0, <1>1, <2>1 DEF AtSplit
<1>2. ASSUME pc \in {"id", "put"}, cur = msgStart
      PROVE  AtSplit' /\ msgStart # Start
  <2>1. Passes /\ NextTsc = clock /\ Behind = TornEnd
    BY <1>0, <1>2, TornIs
  <2>2. msgStart # Start
    BY <1>2, <2>1, PassesIs
  <2>3. WalkedTorn'
    BY <1>0, <1>2, <2>1 DEF WalkedTorn, Passes, TornEnd
  <2> QED BY <1>0, <2>2, <2>3 DEF AtSplit
<1>3. CASE cur = Start /\ lastTsc = 0
  <2>1. lapFrom < Len(log) \/ pc \notin {"id", "put"}
    <3>1. lapFrom = Len(log) /\ pc \in {"id", "put"} => msgStart = Start
      BY RestIs DEF LapEnd
    <3> QED BY <1>2, <1>3, <3>1, RestIs
  <2>2. PICK i \in 1 .. Len(log) :
          /\ Whole(i) /\ log[i].at = Start /\ i > prevFrom
          /\ i <= lapFrom => lapFrom = Len(log) /\ pc \in {"idle", "turned"}
    BY <1>0, <2>1, FirstIs
  <2>3. Walked(i)'
    BY <1>3, <2>2, WalkOver
  <2> QED BY <1>1, <2>2, <2>3
<1>4. ASSUME NEW k \in prevFrom + 1 .. Len(log), Walked(k) PROVE AtSplit'
  <2>0. k \in 1 .. Len(log) /\ Len(log) \in Nat /\ lapFrom \in Nat /\ lapFrom <= Len(log)
    BY <1>0, <1>4, WalkedIs, RestIs
  <2>1. CASE k < Len(log)
    <3>1. PICK i \in 1 .. Len(log) :
            /\ Whole(i) /\ cur = log[i].at /\ i > prevFrom
            /\ i <= lapFrom => lapFrom = Len(log) /\ pc \in {"idle", "turned"}
      BY <1>0, <1>4, <2>1, WalkedIs
    <3>2. Walked(i)'
      BY <3>1, WalkOver
    <3> QED BY <1>1, <3>1, <3>2
  <2>2. CASE k = lapFrom
    BY <1>0, <1>4, <2>2, WalkedIs, RestIs
  <2>3. CASE k = Len(log) /\ k > lapFrom
    <3>1. cur = LapEnd /\ Finished /\ lapFrom < Len(log)
      BY <1>0, <1>4, <2>3, WalkedIs
    <3>2. pc \in {"id", "put"}
      <4>1. ~ IsNone
        BY <1>0 DEF IsMessage, IsNone
      <4> QED BY <1>0, <3>1, <4>1, NothingBehind
    <3> QED BY <1>2, <3>1, <3>2, RestIs
  <2> QED BY <2>0, <2>1, <2>2, <2>3
<1>5. CASE WalkedTorn
  <2>1. TornEnd \in Nat /\ TornEnd >= BufEnd /\ cur = TornEnd
    BY <1>5, PassesIs DEF WalkedTorn
  <2> QED BY <1>0, <2>1, RestIs
<1> QED BY <1>3, <1>4, <1>5 DEF AtSplit

LEMMA RefuseStep ==
    ASSUME IInv, RingHolds, LapsHold, MessageFits, AtSplit, Refuse
    PROVE  pc \in {"id", "put", "end"}
<1>0. tailPtr # 0 /\ cur < BufEnd /\ ~ IsNone /\ ~ IsMessage
  BY DEF AtSplit, Refuse, IsBad
<1> SUFFICES ASSUME pc \notin {"id", "put", "end"} PROVE FALSE
  OBVIOUS
<1>1. Finished
  BY DEF Finished
<1>2. CASE cur = Start /\ lastTsc = 0
  <2>1. PICK i \in 1 .. Len(log) : Whole(i) /\ log[i].at = Start
    BY <1>0, FirstIs
  <2>2. log[i].tsc \in Nat /\ 0 <= log[i].tsc
    BY MsgIs
  <2> QED BY <1>0, <1>1, <1>2, <2>1, <2>2, TakesMessage
<1>3. ASSUME NEW k \in prevFrom + 1 .. Len(log), Walked(k) PROVE FALSE
  <2>0. k \in 1 .. Len(log) /\ Len(log) \in Nat /\ lapFrom \in Nat /\ lapFrom <= Len(log)
    BY <1>0, <1>3, WalkedIs, RestIs
  <2>1. CASE k < Len(log)
    <3>1. PICK i \in 1 .. Len(log) :
            Whole(i) /\ cur = log[i].at /\ lastTsc \in Nat /\ lastTsc < log[i].tsc
      BY <1>0, <1>3, <2>1, WalkedIs
    <3>2. lastTsc <= log[i].tsc
      BY <3>1, MsgIs
    <3> QED BY <1>0, <1>1, <3>1, <3>2, TakesMessage
  <2>2. CASE k = lapFrom
    BY <1>0, <1>3, <2>2, WalkedIs, RestIs
  <2>3. CASE k = Len(log) /\ k > lapFrom
    <3>1. cur = LapEnd /\ Finished /\ lapFrom < Len(log)
      BY <1>0, <1>3, <2>3, WalkedIs
    <3> QED BY <1>0, <3>1, NothingBehind
  <2> QED BY <2>0, <2>1, <2>2, <2>3
<1>4. CASE WalkedTorn
  BY <1>4 DEF WalkedTorn
<1> QED BY <1>2, <1>3, <1>4 DEF AtSplit

\* Where the first loop ends: at the end of the lap, or behind the message that
\* is being written.
LEMMA SplitPlace ==
    ASSUME IInv, RingHolds, LapsHold, MessageFits, AtSplit, cur >= BufEnd \/ IsNone
    PROVE  /\ Finished /\ Passes /\ cur \in Nat
           /\ \/ lapFrom = Len(log) /\ cur = tailPtr
              \/ lapFrom < Len(log) /\ cur >= ptr /\ (pc \notin {"id", "put"} => cur = ptr)
<1>0. /\ tailPtr # 0 /\ Len(log) \in Nat /\ lapFrom \in Nat /\ lapFrom <= Len(log)
      /\ ptr \in Nat /\ BufEnd \in Nat /\ BufEnd > Start /\ Start \in Nat
      /\ pc \in {"seal", "end"} => lapFrom < Len(log)
  BY RestIs DEF AtSplit
<1>1. CASE cur = Start /\ lastTsc = 0
  <2>1. CASE lapFrom < Len(log) \/ pc \notin {"id", "put"}
    <3>1. PICK i \in 1 .. Len(log) : Whole(i) /\ log[i].at = Start
      BY <1>0, <2>1, FirstIs
    <3>2. Intact(log[i])
      BY <3>1, WholeIs
    <3>3. /\ log[i].tsc \in Nat /\ log[i].tsc > 0
          /\ NextTsc = IF cur = Start /\ log[i].tsc < lastTsc THEN 0 ELSE log[i].tsc
      BY <1>1, <3>1, <3>2, SeenIs
    <3>4. NextTsc # 0
      BY <1>1, <3>3
    <3> QED BY <1>0, <1>1, <3>4 DEF IsNone
  <2>2. CASE lapFrom = Len(log) /\ pc \in {"id", "put"}
    <3>1. msgStart = Start
      BY <2>2, RestIs DEF LapEnd
    <3>2. LoadTsc(cur) = clock /\ clock \in Nat /\ clock > 0
      BY <1>1, <2>2, <3>1, BeginningIs
    <3>3. NextTsc # 0
      BY <1>1, <3>2 DEF NextTsc
    <3> QED BY <1>0, <1>1, <3>3 DEF IsNone
  <2> QED BY <1>0, <2>1, <2>2
<1>2. ASSUME NEW k \in prevFrom + 1 .. Len(log), Walked(k)
      PROVE  /\ Finished /\ Passes /\ cur \in Nat
             /\ \/ lapFrom = Len(log) /\ cur = tailPtr
                \/ lapFrom < Len(log) /\ cur >= ptr /\ (pc \notin {"id", "put"} => cur = ptr)
  <2>0. k \in 1 .. Len(log) /\ k \in Nat /\ k <= Len(log) /\ cur \in Nat /\ cur # Start
    BY <1>0, <1>2, WalkedIs
  <2>1. CASE k < Len(log)
    <3>1. PICK i \in 1 .. Len(log) :
            Whole(i) /\ cur = log[i].at /\ lastTsc \in Nat /\ lastTsc < log[i].tsc
      BY <1>0, <1>2, <2>1, WalkedIs
    <3>2. Intact(log[i])
      BY <3>1, WholeIs
    <3>3. log[i].tsc > 0 /\ NextTsc = log[i].tsc
      BY <2>0, <3>1, <3>2, SeenIs
    <3>4. cur < BufEnd /\ log[i].tsc \in Nat
      BY <3>1, MsgIs
    <3> QED BY <1>0, <2>0, <3>3, <3>4 DEF IsNone
  <2>2. CASE k = lapFrom
    <3>1. lapFrom = Len(log) /\ cur = tailPtr
      BY <1>0, <1>2, <2>2, WalkedIs
    <3>2. k <= lapFrom
      BY <1>0, <2>2
    <3>3. pc \in {"idle", "turned"}
      BY <1>2, <3>2 DEF Walked
    <3> QED BY <2>0, <3>1, <3>3 DEF Finished, Passes
  <2>3. CASE k = Len(log) /\ k > lapFrom
    <3>1. cur = LapEnd /\ Finished /\ lapFrom < Len(log)
      BY <1>0, <1>2, <2>3, WalkedIs
    <3>2. pc \notin {"id", "put"}
      <4> SUFFICES ASSUME pc \in {"id", "put"} PROVE FALSE
        OBVIOUS
      <4>1. cur = msgStart
        BY <3>1, RestIs
      <4>2. msgStart < BufEnd
        BY Writers
      <4>3. LoadTsc(cur) = clock /\ clock \in Nat /\ clock > 0
        BY <4>1, BeginningIs
      <4>4. NextTsc = clock
        BY <2>0, <4>3 DEF NextTsc
      <4> QED BY <1>0, <2>0, <4>1, <4>2, <4>3, <4>4 DEF IsNone
    <3>3. cur = ptr
      BY <3>1, <3>2, RestIs
    <3>4. Passes
      BY <3>2 DEF Passes
    <3>5. cur >= ptr
      BY <1>0, <3>3
    <3> QED BY <2>0, <3>1, <3>3, <3>4, <3>5
  <2> QED BY <1>0, <2>0, <2>1, <2>2, <2>3
<1>3. CASE WalkedTorn
  <2>1. pc \in {"id", "put"} /\ Passes /\ cur = TornEnd
    BY <1>3 DEF WalkedTorn
  <2>2. lapFrom < Len(log) /\ TornEnd \in Nat /\ ptr < TornEnd
    BY <2>1, PassesIs
  <2> QED BY <1>0, <2>1, <2>2 DEF Finished
<1> QED BY <1>1, <1>2, <1>3 DEF AtSplit

\* What the writer left stays, and so does what it says of the oldest message.
LEMMA OldestStays ==
    ASSUME NEW f, Oldest(f), UNCHANGED vars
    PROVE  Oldest(f)'
<1>1. /\ mem' = mem /\ log' = log /\ lapFrom' = lapFrom /\ pc' = pc /\ ptr' = ptr
      /\ prevFrom' = prevFrom /\ tailPtr' = tailPtr /\ msgStart' = msgStart
  BY DEF vars, ringVars, histVars
<1>2. (Finished /\ (tailPtr # 0 => Passes))'
  BY <1>1 DEF Oldest, Finished, Passes, TornEnd, LoadTsc
<1> QED BY <1>1, <1>2 DEF Oldest

\* The dump begins with message f + 1.
LEMMA DumpStarts ==
    ASSUME IInv, RingHolds, LapsHold, NEW f \in prevFrom .. lapFrom, Oldest(f), lines = <<>>,
           NEW c,
           c = IF f < Len(log) THEN log[f + 1].at ELSE IF LapEnd < BufEnd THEN LapEnd ELSE Start,
           DumpFrom(c), lines' = lines, UNCHANGED vars,
           f = lapFrom /\ f > 0 /\ pc = "idle" => log[f].at <= ptr
    PROVE  AtDump'
<1>0. /\ mem' = mem /\ log' = log /\ lapFrom' = lapFrom /\ pc' = pc /\ ptr' = ptr
      /\ prevFrom' = prevFrom /\ cur' = c /\ lastTsc' = LoadTsc(c) /\ lines' = <<>>
  BY DEF vars, ringVars, histVars, DumpFrom
<1>1. f \in Nat /\ f <= Len(log) /\ Len(log) \in Nat
  BY RestIs
<1>2. Oldest(f)'
  BY OldestStays
<1>3. lines' = [i \in 1 .. f - f |-> Faithful(log[f + i])]
  <2>1. 1 .. f - f = {}
    BY <1>1
  <2>2. <<>> = [i \in {} |-> Faithful(log[f + i])]
    OBVIOUS
  <2> QED BY <1>0, <2>1, <2>2
<1>4. LapEnd' = LapEnd /\ LoadTsc(c)' = LoadTsc(c)
  BY <1>0 DEF LapEnd, LoadTsc, EndOf
<1>5. (lines = [i \in 1 .. f - f |-> Faithful(log[f + i])])'
  BY <1>0, <1>3 DEF Faithful, Word
<1>6. Prints(f, f)'
  <2>1. (lastTsc = LoadTsc(cur))'
    BY <1>0 DEF LoadTsc
  <2> QED BY <1>0, <1>4, <1>5, <2>1 DEF Prints
<1>7. f \in f .. Len(log)
  BY <1>1
<1> QED BY <1>0, <1>2, <1>6, <1>7 DEF AtDump

\* qttail begins.
LEMMA BeginStep ==
    ASSUME IInv, RingHolds, LapsHold, CatHolds, Begin, UNCHANGED vars
    PROVE  (stage' = "dump" /\ AtDump') \/ (stage' = "split" /\ AtSplit')
<1>0. /\ cur = Start /\ lastTsc = 0 /\ moved = 0 /\ lines = <<>> /\ lines' = <<>> /\ moved' = 0
      /\ tailPtr' = tailPtr /\ lines' = lines
  BY DEF CatHolds, Begin, vars, ringVars
<1>1. CASE tailPtr # 0
  <2>1. stage' = "split" /\ cur' = cur /\ lastTsc' = lastTsc
    BY <1>1 DEF Begin
  <2> QED BY <1>0, <1>1, <2>1 DEF AtSplit
<1>2. CASE tailPtr = 0
  <2>1. /\ lapFrom = 0 /\ prevFrom = 0 /\ Len(log) \in Nat /\ ptr \in Nat /\ ptr \in Addr
        /\ Start < BufEnd
    BY <1>2, RestIs
  <2>2. DumpFrom(Start) /\ stage' = "dump"
    BY <1>2 DEF Begin, DumpFrom
  <2>3. Finished
    <3>1. /\ mem[ptr] \in {Zero, Ones}
          /\ mem[ptr] = Ones => ptr >= BufEnd
      BY <2>1, Kinds DEF LapsHold, Fresh
    <3>2. CASE mem[ptr] = Zero
      <4>1. LoadTsc(ptr) = 0
        BY <3>2, Kinds DEF LoadTsc
      <4> QED BY <4>1 DEF Finished
    <3>3. CASE mem[ptr] = Ones
      <4>1. LoadTsc(ptr) = AllOnes
        BY <3>3, Kinds DEF LoadTsc
      <4> QED BY <3>1, <3>3, <4>1 DEF Finished
    <3> QED BY <3>1, <3>2, <3>3
  <2>4. Oldest(0)
    BY <1>2, <2>1, <2>3 DEF Oldest
  <2>5. Start = IF 0 < Len(log) THEN log[0 + 1].at ELSE IF LapEnd < BufEnd THEN LapEnd ELSE Start
    <3>1. CASE 0 < Len(log)
      <4>1. log[lapFrom + 1].at = Start
        BY <2>1, <3>1, LapsAre
      <4> QED BY <2>1, <3>1, <4>1
    <3>2. CASE Len(log) = 0
      BY <2>1, <3>2 DEF LapEnd
    <3> QED BY <2>1, <3>1, <3>2
  <2>6. 0 \in prevFrom .. lapFrom /\ ~ 0 > 0
    BY <2>1
  <2> QED BY <1>0, <2>2, <2>4, <2>5, <2>6, DumpStarts
<1> QED BY <1>1, <1>2

\* qttail knows the split point.
LEMMA SplitStep ==
    ASSUME IInv, RingHolds, LapsHold, MessageFits, AtSplit, Split, UNCHANGED vars
    PROVE  (stage' = "dump" /\ AtDump') \/ (stage' = "back" /\ AtBack')
<1>0. /\ tailPtr # 0 /\ lines = <<>> /\ moved = 0 /\ lines' = lines /\ moved' = moved
      /\ cur >= BufEnd \/ IsNone
      /\ split' = cur + 1 /\ p' = tailPtr
  BY DEF AtSplit, Split
<1>a. /\ mem' = mem /\ log' = log /\ lapFrom' = lapFrom /\ pc' = pc /\ ptr' = ptr
      /\ prevFrom' = prevFrom /\ tailPtr' = tailPtr /\ msgStart' = msgStart
  BY DEF vars, ringVars, histVars
<1>1. /\ Finished /\ Passes /\ cur \in Nat
      /\ \/ lapFrom = Len(log) /\ cur = tailPtr
         \/ lapFrom < Len(log) /\ cur >= ptr /\ (pc \notin {"id", "put"} => cur = ptr)
  BY <1>0, SplitPlace
<1>2. /\ Len(log) \in Nat /\ lapFrom \in Nat /\ lapFrom <= Len(log) /\ lapFrom > 0
      /\ prevFrom \in Nat /\ prevFrom < lapFrom /\ ptr \in Nat /\ Start < BufEnd
      /\ EndOf(log[lapFrom]) = tailPtr /\ tailPtr \in Nat /\ log[prevFrom + 1].at = Start
      /\ lapFrom < Len(log) => log[lapFrom + 1].at = Start
  BY <1>0, RestIs, LapsAre
<1>3. CASE tailPtr <= cur + 1 /\ DumpFrom(Start)
  <2>0. stage' = "dump"
    BY <1>3 DEF DumpFrom
  <2>1. CASE lapFrom = Len(log)
    <3>1. Oldest(prevFrom)
      BY <1>1, <1>2, <2>1 DEF Oldest
    <3>2. prevFrom \in prevFrom .. lapFrom /\ prevFrom < Len(log) /\ prevFrom # lapFrom
      BY <1>2, <2>1
    <3> QED BY <1>0, <1>2, <1>3, <2>0, <3>1, <3>2, DumpStarts
  <2>2. CASE lapFrom < Len(log)
    <3>1. pc = "idle" => log[lapFrom].at <= ptr
      <4>1. lapFrom \in 1 .. Len(log)
        BY <1>2
      <4>2. log[lapFrom].at \in Nat /\ log[lapFrom].at < EndOf(log[lapFrom])
        BY <4>1, MsgIs
      <4> QED BY <1>1, <1>2, <1>3, <2>2, <4>2
    <3>2. pc = "idle" => log[lapFrom].at <= ptr + 1
      <4>1. lapFrom \in 1 .. Len(log)
        BY <1>2
      <4>2. log[lapFrom].at \in Nat
        BY <4>1, MsgIs
      <4> QED BY <1>2, <3>1, <4>2
    <3>3. Oldest(lapFrom)
      BY <1>1, <1>2, <2>2, <3>2 DEF Oldest
    <3>4. lapFrom \in prevFrom .. lapFrom
      BY <1>2
    <3> QED BY <1>0, <1>2, <1>3, <2>0, <2>2, <3>1, <3>3, <3>4, DumpStarts
  <2> QED BY <1>2, <2>1, <2>2
<1>4. CASE tailPtr > cur + 1 /\ stage' = "back" /\ UNCHANGED <<cur, lastTsc>>
  <2>1. lapFrom < Len(log) /\ cur >= ptr /\ (pc \notin {"id", "put"} => cur = ptr)
    BY <1>1, <1>2, <1>4
  <2>2. split' \in Nat /\ split' > ptr /\ split' < tailPtr
    BY <1>0, <1>1, <1>2, <1>4, <2>1
  <2>3. pc \notin {"id", "put"} => split' = ptr + 1
    BY <1>0, <2>1
  <2>4. WentBack(lapFrom)'
    <3>1. EndOf(log[lapFrom])' = EndOf(log[lapFrom])
      BY <1>a DEF EndOf
    <3> QED BY <1>0, <1>2, <1>a, <3>1 DEF WentBack
  <2>5. (Finished /\ Passes)'
    BY <1>1, <1>a DEF Finished, Passes, TornEnd, LoadTsc
  <2>6. lapFrom \in prevFrom .. lapFrom
    BY <1>2
  <2> QED BY <1>0, <1>4, <1>a, <2>1, <2>2, <2>3, <2>4, <2>5, <2>6 DEF AtBack
<1> QED BY <1>3, <1>4 DEF Split

\* The second loop goes back over one more message of the old lap.
LEMMA BackStep ==
    ASSUME IInv, RingHolds, LapsHold, AtBack, Back, UNCHANGED vars
    PROVE  AtBack'
<1>0. /\ tailPtr # 0 /\ lapFrom < Len(log) /\ lines = <<>> /\ Finished /\ Passes
      /\ split \in Nat /\ split > ptr /\ split < tailPtr
      /\ pc \notin {"id", "put"} => split = ptr + 1
      /\ p > split /\ moved' = moved + 1 /\ cur' = p /\ p' = p - (1 + LenByte(p - 1))
      /\ split' = split /\ lines' = lines
  BY DEF AtBack, Back
<1>a. /\ mem' = mem /\ log' = log /\ lapFrom' = lapFrom /\ pc' = pc /\ ptr' = ptr
      /\ prevFrom' = prevFrom /\ tailPtr' = tailPtr /\ msgStart' = msgStart
  BY DEF vars, ringVars, histVars
<1>1. /\ Len(log) \in Nat /\ lapFrom \in Nat /\ lapFrom <= Len(log)
      /\ prevFrom \in Nat /\ ptr \in Nat /\ Start \in Nat /\ Start <= ptr
      /\ log[prevFrom + 1].at = Start
  BY <1>0, RestIs, LapsAre
<1>2. PICK j \in prevFrom .. lapFrom : WentBack(j)
  BY DEF AtBack
<1>3. j \in Nat /\ j > prevFrom /\ j \in 1 .. Len(log) /\ p = EndOf(log[j])
  <2>1. j # prevFrom
    BY <1>0, <1>1, <1>2 DEF WentBack
  <2> QED BY <1>1, <1>2, <2>1 DEF WentBack
<1>4. /\ log[j].at \in Nat /\ LenOf(log[j].id) \in Nat
      /\ EndOf(log[j]) = log[j].at + LenOf(log[j].id) + 1
  BY <1>3, MsgIs
<1>5. mem[p - 1] = LenCell(LenOf(log[j].id))
  <2>1. EndOf(log[j]) - 1 > ptr
    BY <1>0, <1>1, <1>3, <1>4
  <2>2. j \in prevFrom + 1 .. lapFrom
    BY <1>1, <1>2, <1>3
  <2> QED BY <1>3, <2>1, <2>2 DEF LapsHold, OldRemains
<1>6. LenByte(p - 1) = LenOf(log[j].id)
  BY <1>5 DEF LenByte, LenCell
<1>7. p' = log[j].at
  BY <1>0, <1>3, <1>4, <1>6
<1>8. PICK k \in prevFrom .. lapFrom : j = k + 1
  <2>1. j - 1 \in prevFrom .. lapFrom /\ j = (j - 1) + 1
    BY <1>1, <1>2, <1>3
  <2> QED BY <2>1
<1>9. log[j].at = IF k = prevFrom THEN Start ELSE EndOf(log[k])
  <2>1. CASE k = prevFrom
    BY <1>1, <1>8, <2>1
  <2>2. CASE k # prevFrom
    <3>1. j > prevFrom + 1 /\ j # lapFrom + 1 /\ j - 1 = k
      BY <1>1, <1>2, <1>3, <1>8, <2>2
    <3>2. log[j].at = EndOf(log[j - 1])
      BY <1>0, <1>3, <3>1, LapsAre, RestIs
    <3> QED BY <2>2, <3>1, <3>2
  <2> QED BY <2>1, <2>2
<1>10. moved' = lapFrom - k
  BY <1>0, <1>1, <1>2, <1>3, <1>8 DEF WentBack
<1>11. WentBack(k)'
  <2>1. EndOf(log[k])' = EndOf(log[k]) /\ EndOf(log[k + 1])' = EndOf(log[k + 1])
    BY <1>a DEF EndOf
  <2> QED BY <1>0, <1>a, <1>3, <1>7, <1>8, <1>9, <1>10, <2>1 DEF WentBack
<1>12. (Finished /\ Passes)'
  BY <1>0, <1>a DEF Finished, Passes, TornEnd, LoadTsc
<1> QED BY <1>0, <1>a, <1>11, <1>12 DEF AtBack

\* The second loop has found the place to begin with.
LEMMA FoundStep ==
    ASSUME IInv, RingHolds, LapsHold, AtBack, Found, UNCHANGED vars
    PROVE  AtDump'
<1>0. /\ tailPtr # 0 /\ lapFrom < Len(log) /\ lines = <<>> /\ Finished /\ Passes
      /\ split \in Nat /\ split > ptr /\ split < tailPtr
      /\ pc \notin {"id", "put"} => split = ptr + 1
      /\ p <= split /\ lines' = lines
      /\ DumpFrom(IF p < split /\ moved = 1 THEN Start ELSE cur)
  BY DEF AtBack, Found
<1>1. /\ Len(log) \in Nat /\ lapFrom \in Nat /\ lapFrom <= Len(log) /\ lapFrom > 0
      /\ prevFrom \in Nat /\ prevFrom < lapFrom /\ ptr \in Nat /\ Start \in Nat /\ Start <= ptr
      /\ log[prevFrom + 1].at = Start /\ EndOf(log[lapFrom]) = tailPtr /\ tailPtr \in Nat
      /\ log[lapFrom + 1].at = Start
  BY <1>0, RestIs, LapsAre
<1>2. PICK j \in prevFrom .. lapFrom : WentBack(j)
  BY DEF AtBack
<1>3. j \in Nat /\ j < lapFrom
  <2>1. j # lapFrom
    BY <1>0, <1>1, <1>2 DEF WentBack
  <2> QED BY <1>1, <1>2, <2>1
<1>4. PICK f \in 1 .. Len(log) : f = j + 1 /\ f \in prevFrom .. lapFrom /\ f > prevFrom /\ f \in Nat
  <2>1. j + 1 \in 1 .. Len(log) /\ j + 1 \in prevFrom .. lapFrom /\ j + 1 > prevFrom
    BY <1>1, <1>2, <1>3
  <2> QED BY <1>3, <2>1
<1>5. moved = lapFrom - j /\ moved > 0 /\ cur = EndOf(log[f]) /\ cur > split
  <2>1. moved = lapFrom - j
    BY <1>2 DEF WentBack
  <2>2. moved > 0
    BY <1>1, <1>3, <2>1
  <2> QED BY <1>2, <1>4, <2>1, <2>2 DEF WentBack
<1>6. log[f].at = p /\ log[f].at \in Nat
  <2>1. CASE j = prevFrom
    BY <1>1, <1>2, <1>4, <2>1, MsgIs DEF WentBack
  <2>2. CASE j # prevFrom
    <3>1. f > prevFrom + 1 /\ f # lapFrom + 1 /\ f - 1 = j
      BY <1>1, <1>2, <1>3, <1>4, <2>2
    <3>2. log[f].at = EndOf(log[f - 1])
      BY <1>1, <3>1, LapsAre
    <3>3. p = EndOf(log[j])
      BY <1>2, <2>2 DEF WentBack
    <3> QED BY <3>1, <3>2, <3>3, MsgIs
  <2> QED BY <2>1, <2>2
<1>7. pc = "idle" => log[f].at <= ptr + 1
  BY <1>0, <1>6
<1>8. CASE f = lapFrom
  <2>1. moved = 1
    BY <1>1, <1>3, <1>4, <1>5, <1>8
  <2>2. Oldest(f)
    BY <1>0, <1>1, <1>7, <1>8 DEF Oldest
  <2>3. CASE p < split
    <3>1. DumpFrom(Start)
      BY <1>0, <2>1, <2>3
    <3>2. pc = "idle" => log[f].at <= ptr
      BY <1>0, <1>1, <1>6, <2>3
    <3> QED BY <1>0, <1>1, <1>4, <1>8, <2>2, <3>1, <3>2, DumpStarts
  <2>4. CASE p = split
    <3>1. cur' = tailPtr /\ lines' = <<>>
      BY <1>0, <1>1, <1>5, <1>8, <2>4 DEF DumpFrom
    <3>2. pc = "idle" => log[lapFrom].at = ptr + 1
      BY <1>0, <1>6, <1>8, <2>4
    <3>3. tailPtr > ptr
      BY <1>0, <1>1
    <3>4. StuckAtTail'
      <4>1. /\ log' = log /\ lapFrom' = lapFrom /\ pc' = pc /\ ptr' = ptr
            /\ prevFrom' = prevFrom /\ tailPtr' = tailPtr
        BY DEF vars, ringVars, histVars
      <4> QED BY <1>0, <3>1, <3>2, <3>3, <4>1 DEF StuckAtTail
    <3>5. Oldest(f)'
      BY <2>2, OldestStays
    <3>6. prevFrom' = prevFrom /\ lapFrom' = lapFrom
      BY DEF vars, histVars
    <3> QED BY <1>4, <3>4, <3>5, <3>6 DEF AtDump
  <2> QED BY <1>0, <1>6, <2>3, <2>4
<1>9. CASE f # lapFrom
  <2>1. moved # 1 /\ f < lapFrom
    BY <1>1, <1>3, <1>4, <1>5, <1>9
  <2>2. DumpFrom(cur)
    BY <1>0, <2>1
  <2>3. PICK i \in 1 .. Len(log) : i = f + 1
    BY <1>1, <1>4, <2>1
  <2>4. log[i].at = cur
    <3>1. i > prevFrom + 1 /\ i # lapFrom + 1 /\ i - 1 = f
      BY <1>1, <1>4, <2>1, <2>3
    <3>2. log[i].at = EndOf(log[i - 1])
      BY <1>1, <3>1, LapsAre
    <3> QED BY <1>5, <3>1, <3>2
  <2>5. log[f + 1].at = cur /\ log[f + 1].at > ptr + 1
    <3>1. log[i].at \in Nat
      BY MsgIs
    <3> QED BY <1>0, <1>1, <1>5, <2>3, <2>4, <3>1
  <2>6. Oldest(f)
    BY <1>0, <1>1, <1>4, <1>7, <1>9, <2>5 DEF Oldest
  <2>7. f < Len(log)
    BY <1>1, <1>4, <2>1
  <2>8. cur = IF f < Len(log) THEN log[f + 1].at ELSE IF LapEnd < BufEnd THEN LapEnd ELSE Start
    BY <2>5, <2>7
  <2> QED BY <1>0, <1>4, <1>9, <2>2, <2>6, <2>8, DumpStarts
<1> QED BY <1>8, <1>9

\* The oldest message that is printed bounds what is in the ring: all from it on
\* are there, the one after those printed is where the reader is, and the
\* reader takes it.
LEMMA NextToPrint ==
    ASSUME IInv, RingHolds, LapsHold, MessageFits,
           NEW f \in prevFrom .. lapFrom, NEW k \in f .. Len(log), NEW i \in 1 .. Len(log),
           i = k + 1, Oldest(f), Prints(f, k)
    PROVE  /\ IsMessage /\ Behind = EndOf(log[i]) /\ NextTsc = log[i].tsc
           /\ NewLine = Faithful(log[i])
<1>0. /\ Len(log) \in Nat /\ lapFrom \in Nat /\ lapFrom <= Len(log) /\ prevFrom \in Nat
      /\ f \in Nat /\ k \in Nat /\ f >= prevFrom /\ f <= k /\ k < Len(log) /\ i > prevFrom
      /\ i = k + 1 /\ ptr \in Nat /\ (tailPtr = 0 <=> lapFrom = 0)
      /\ pc \in {"seal", "end"} => lapFrom < Len(log)
      /\ pc \in {"idle", "seal", "turned", "id", "put", "end"}
  BY RestIs
<1>1. Whole(i)
  <2>1. CASE i > lapFrom
    BY <2>1 DEF Whole
  <2>2. CASE i <= lapFrom /\ lapFrom = Len(log)
    <3>1. pc \notin {"id", "put"}
      <4>1. tailPtr # 0
        BY <1>0, <2>2
      <4>2. Passes
        BY <4>1 DEF Oldest
      <4> QED BY <2>2, <4>2, PassesIs
    <3>2. pc \in {"idle", "turned"}
      BY <1>0, <2>2, <3>1
    <3> QED BY <1>0, <2>2, <3>2 DEF Whole
  <2>3. CASE i <= lapFrom /\ lapFrom < Len(log)
    <3>1. f < lapFrom
      BY <1>0, <2>3
    <3>2. PICK j \in 1 .. Len(log) : j = f + 1
      BY <1>0, <3>1
    <3>3. log[j].at > ptr + 1
      BY <2>3, <3>1, <3>2 DEF Oldest
    <3>4. log[j].at \in Nat /\ EndOf(log[j]) \in Nat /\ EndOf(log[j]) > log[j].at
      <4>1. /\ log[j].at \in Nat /\ LenOf(log[j].id) \in Nat
            /\ EndOf(log[j]) = log[j].at + LenOf(log[j].id) + 1
        BY MsgIs
      <4> QED BY <4>1
    <3>a. log[i].at \in Nat
      BY MsgIs
    <3>5. j < i => EndOf(log[j]) <= log[i].at
      <4>1. j \in prevFrom + 1 .. Len(log) /\ i \in prevFrom + 1 .. Len(log)
        BY <1>0, <3>2
      <4> QED BY <2>3, <4>1 DEF LapsHold, InPlace
    <3>6. log[i].at > ptr
      BY <1>0, <3>2, <3>3, <3>4, <3>5, <3>a
    <3> QED BY <1>0, <3>6 DEF Whole
  <2> QED BY <1>0, <2>1, <2>2, <2>3
<1>2. Intact(log[i])
  BY <1>1, WholeIs
<1>3. cur = log[i].at
  BY <1>0 DEF Prints
<1>4. /\ LoadTsc(cur) = log[i].tsc /\ log[i].tsc > 0 /\ log[i].tsc \in Nat
      /\ Behind = EndOf(log[i])
      /\ NextTsc = IF cur = Start /\ log[i].tsc < lastTsc THEN 0 ELSE log[i].tsc
      /\ NextTsc = log[i].tsc => NewLine = Faithful(log[i])
  BY <1>2, <1>3, SeenIs
<1>5. lastTsc \in Nat /\ lastTsc <= log[i].tsc
  <2>1. CASE k = f
    <3>1. lastTsc = log[i].tsc
      BY <1>4, <2>1 DEF Prints
    <3> QED BY <1>4, <3>1
  <2>2. CASE k # f
    <3>1. lastTsc = log[k].tsc
      BY <2>2 DEF Prints
    <3>2. k \in 1 .. Len(log) /\ k < i
      BY <1>0, <2>2
    <3>3. log[k].tsc < log[i].tsc
      BY <3>2 DEF LapsHold, Rising
    <3>4. log[k].tsc \in Nat
      BY <3>2, MsgIs
    <3> QED BY <1>4, <3>1, <3>3, <3>4
  <2> QED BY <2>1, <2>2
<1>6. NextTsc = log[i].tsc
  BY <1>4, <1>5
<1>7. Finished
  BY DEF Oldest
<1>8. IsMessage
  BY <1>1, <1>3, <1>5, <1>7, TakesMessage
<1> QED BY <1>4, <1>6, <1>8

\* Behind the newest message the reader takes only the message that is being
\* written, and not in the first lap.
LEMMA BehindNewest ==
    ASSUME IInv, RingHolds, LapsHold, MessageFits,
           NEW f \in prevFrom .. lapFrom, Oldest(f), Prints(f, Len(log)), IsMessage
    PROVE  pc \in {"id", "put"} /\ tailPtr # 0 /\ cur = msgStart
<1>0. /\ Len(log) \in Nat /\ lapFrom \in Nat /\ lapFrom <= Len(log) /\ prevFrom \in Nat
      /\ f \in Nat /\ f >= prevFrom /\ f <= lapFrom
      /\ lapFrom > 0 => prevFrom < lapFrom
      /\ ptr \in Nat /\ ptr \in Addr /\ (tailPtr = 0 <=> lapFrom = 0)
      /\ Start < BufEnd /\ Start \in Nat /\ BufEnd \in Nat /\ Start \in Addr
      /\ pc \in {"seal", "end"} => lapFrom < Len(log)
      /\ pc \in {"id", "put"} => msgStart = LapEnd
      /\ pc \in {"idle", "seal", "turned", "end"} => ptr = LapEnd
      /\ pc \in {"idle", "seal", "turned", "id", "put", "end"}
      /\ LapEnd \in Nat
  BY RestIs
<1>1. NextTsc # 0 /\ NextTsc >= lastTsc
  BY DEF IsMessage
<1>2. cur = IF LapEnd < BufEnd THEN LapEnd ELSE Start
  BY <1>0 DEF Prints
<1>3. lapFrom = Len(log) => f = prevFrom
  BY DEF Oldest
<1>4. Len(log) > 0 => Len(log) # f
  BY <1>0, <1>3
<1>5. Len(log) > 0 => lastTsc = log[Len(log)].tsc
  BY <1>4 DEF Prints
<1>6. ASSUME NEW i \in 1 .. Len(log), Intact(log[i]), log[i].at = Start, cur = Start
      PROVE  i = Len(log)
  <2>1. /\ log[i].tsc \in Nat /\ log[i].tsc > 0
        /\ NextTsc = IF cur = Start /\ log[i].tsc < lastTsc THEN 0 ELSE log[i].tsc
    BY <1>6, SeenIs
  <2>2. i < Len(log) => log[i].tsc < log[Len(log)].tsc
    BY <1>0, <1>6 DEF LapsHold, Rising
  <2>3. Len(log) > 0
    BY <1>0, <1>6
  <2> QED BY <1>0, <1>1, <1>5, <1>6, <2>1, <2>2, <2>3
<1>7. LapEnd < BufEnd
  <2> SUFFICES ASSUME LapEnd >= BufEnd PROVE FALSE
    BY <1>0
  <2>1. cur = Start /\ lapFrom < Len(log) /\ LapEnd = EndOf(log[Len(log)])
    BY <1>0, <1>2 DEF LapEnd
  <2>2. PICK i \in 1 .. Len(log) : i = lapFrom + 1
    BY <1>0, <2>1
  <2>3. log[i].at = Start /\ Intact(log[i])
    BY <1>0, <2>1, <2>2, LapsAre
  <2>4. i = Len(log)
    BY <1>6, <2>1, <2>3
  <2>5. EndOf(log[i]) < BufEnd
    BY <2>3, FirstOfLap
  <2> QED BY <1>0, <2>1, <2>4, <2>5
<1>8. cur = LapEnd
  BY <1>2, <1>7
<1>9. CASE lapFrom = Len(log)
  <2>1. cur = Start /\ LapEnd = Start
    BY <1>8, <1>9 DEF LapEnd
  <2>2. pc \notin {"id", "put"}
    <3> SUFFICES ASSUME pc \in {"id", "put"} PROVE FALSE
      OBVIOUS
    <3>1. cur = msgStart
      BY <1>0, <1>8
    <3>2. Passes
      BY <3>1, TornIs
    <3> QED BY <2>1, <3>1, <3>2, PassesIs
  <2>3. pc \in {"idle", "turned"} /\ ptr = Start
    BY <1>0, <1>9, <2>1, <2>2
  <2>4. CASE lapFrom > 0
    <3>1. PICK i \in 1 .. Len(log) : i = prevFrom + 1
      BY <1>0, <1>9, <2>4
    <3>2. Intact(log[i])
      BY <1>9, <2>3, <2>4, <3>1 DEF LapsHold, OldRemains
    <3>3. log[i].at = Start /\ EndOf(log[lapFrom]) >= BufEnd
      BY <1>0, <2>4, <3>1, LapsAre
    <3>4. i = Len(log)
      BY <1>6, <2>1, <3>2, <3>3
    <3>5. EndOf(log[i]) < BufEnd /\ EndOf(log[i]) \in Nat
      BY <3>3, FirstOfLap, MsgIs
    <3> QED BY <1>0, <1>9, <3>3, <3>4, <3>5
  <2>5. CASE lapFrom = 0
    <3>1. mem[Start] = Zero
      BY <1>0, <2>3, <2>5 DEF LapsHold, Fresh
    <3>2. LoadTsc(cur) = 0
      BY <2>1, <3>1, Kinds DEF LoadTsc
    <3> QED BY <1>1, <3>2 DEF NextTsc
  <2> QED BY <1>0, <2>4, <2>5
<1>10. CASE lapFrom < Len(log)
  <2>1. pc \in {"id", "put"}
    <3> SUFFICES ASSUME pc \notin {"id", "put"} PROVE FALSE
      OBVIOUS
    <3>1. Finished /\ cur < BufEnd
      BY <1>7, <1>8 DEF Oldest
    <3>2. IsNone
      BY <1>8, <1>10, <3>1, NothingBehind
    <3> QED BY <1>1, <3>2 DEF IsNone
  <2>2. cur = msgStart
    BY <1>0, <1>8, <2>1
  <2>3. tailPtr # 0
    <3> SUFFICES ASSUME tailPtr = 0 PROVE FALSE
      OBVIOUS
    <3>1. Passes
      BY <2>1, <2>2, TornIs
    <3>2. /\ mem[msgStart + 1].kind = "id"
          /\ mem[TornEnd - 1] = LenCell(LenOf(mem[msgStart + 1].val))
      BY <2>1, <3>1 DEF Passes
    <3>3. TornEnd - 1 \in Addr /\ ptr < TornEnd /\ TornEnd \in Nat
      BY <2>1, <3>2, TornCells
    <3>4. TornEnd - 1 >= ptr
      BY <1>0, <3>3
    <3>5. mem[TornEnd - 1].kind # "len"
      BY <1>0, <3>3, <3>4, Kinds DEF LapsHold, Fresh
    <3> QED BY <3>2, <3>5, Kinds
  <2> QED BY <2>1, <2>2, <2>3
<1> QED BY <1>0, <1>9, <1>10

\* A function on an interval from 1 is a sequence.
LEMMA SeqOf ==
    ASSUME NEW S, NEW n \in Nat, NEW s \in [1 .. n -> S]
    PROVE  s \in Seq(S) /\ Len(s) = n
OBVIOUS

\* What is printed grows by one message of the log.
LEMMA OneMore ==
    ASSUME NEW f \in Nat, NEW k \in Nat, f <= k,
           lines = [i \in 1 .. k - f |-> Faithful(log[f + i])],
           lines' = Append(lines, Faithful(log[k + 1]))
    PROVE  lines' = [i \in 1 .. (k + 1) - f |-> Faithful(log[f + i])]
<1>1. PICK n \in Nat : n = k - f /\ f + (n + 1) = k + 1 /\ n + 1 = (k + 1) - f
  <2>1. k - f \in Nat /\ f + ((k - f) + 1) = k + 1 /\ (k - f) + 1 = (k + 1) - f
    OBVIOUS
  <2> QED BY <2>1
<1> DEFINE S == {Faithful(log[f + i]) : i \in 1 .. n}
<1>2. lines \in [1 .. n -> S]
  BY <1>1
<1> HIDE DEF S
<1>3. lines \in Seq(S) /\ Len(lines) = n
  BY <1>2, SeqOf
<1>4. lines' = [i \in 1 .. n + 1 |-> IF i <= n THEN lines[i] ELSE Faithful(log[k + 1])]
  BY <1>1, <1>3
<1>5. \A i \in 1 .. n + 1 :
        (IF i <= n THEN lines[i] ELSE Faithful(log[k + 1])) = Faithful(log[f + i])
  <2> SUFFICES ASSUME NEW i \in 1 .. n + 1
               PROVE  (IF i <= n THEN lines[i] ELSE Faithful(log[k + 1])) = Faithful(log[f + i])
    OBVIOUS
  <2>1. CASE i <= n
    <3>1. i \in 1 .. k - f
      BY <1>1, <2>1
    <3> QED BY <2>1, <3>1
  <2>2. CASE i = n + 1
    BY <1>1, <2>2
  <2> QED BY <2>1, <2>2
<1>6. lines' = [i \in 1 .. n + 1 |-> Faithful(log[f + i])]
  BY <1>4, <1>5, Zenon
<1> QED BY <1>1, <1>6

\* The reader prints the message behind those that it printed.
LEMMA DumpNext ==
    ASSUME IInv, RingHolds, LapsHold, MessageFits,
           NEW f \in prevFrom .. lapFrom, NEW k \in f .. Len(log), k < Len(log),
           Oldest(f), Prints(f, k), Dump, UNCHANGED vars
    PROVE  \E j \in f .. Len(log) : Prints(f, j)'
<1>0. /\ Len(log) \in Nat /\ lapFrom \in Nat /\ lapFrom <= Len(log) /\ prevFrom \in Nat
      /\ f \in Nat /\ k \in Nat /\ f >= prevFrom /\ f <= k
      /\ lapFrom > 0 => prevFrom < lapFrom
      /\ BufEnd \in Nat
  BY RestIs
<1>a. /\ mem' = mem /\ log' = log /\ lapFrom' = lapFrom /\ pc' = pc /\ ptr' = ptr
      /\ prevFrom' = prevFrom
  BY DEF vars, ringVars, histVars
<1>1. PICK i \in 1 .. Len(log) : i = k + 1 /\ i \in f .. Len(log) /\ i \in Nat /\ i > f
  <2>1. k + 1 \in 1 .. Len(log) /\ k + 1 \in f .. Len(log) /\ k + 1 \in Nat /\ k + 1 > f
    BY <1>0
  <2> QED BY <2>1
<1>2. /\ Behind = EndOf(log[i]) /\ NextTsc = log[i].tsc /\ NewLine = Faithful(log[i])
  BY <1>1, NextToPrint
<1>3. lines' = [x \in 1 .. i - f |-> Faithful(log[f + x])]
  <2>1. lines = [x \in 1 .. k - f |-> Faithful(log[f + x])]
    BY DEF Prints
  <2>2. lines' = Append(lines, Faithful(log[k + 1]))
    BY <1>1, <1>2 DEF Dump
  <2>3. lines' = [x \in 1 .. (k + 1) - f |-> Faithful(log[f + x])]
    BY <1>0, <2>1, <2>2, OneMore
  <2> QED BY <1>1, <2>3
<1>4. (lines = [x \in 1 .. i - f |-> Faithful(log[f + x])])'
  BY <1>a, <1>3 DEF Faithful, Word
<1>5. cur' = IF EndOf(log[i]) >= BufEnd THEN Start ELSE EndOf(log[i])
  BY <1>2 DEF Dump
<1>6. cur' = IF i < Len(log) THEN log[i + 1].at ELSE IF LapEnd < BufEnd THEN LapEnd ELSE Start
  <2>1. CASE i < Len(log)
    <3>1. PICK j \in 1 .. Len(log) : j = i + 1
      BY <1>0, <1>1, <2>1
    <3>2. log[j].at \in Nat /\ log[j].at < BufEnd
      BY MsgIs
    <3>3. CASE i # lapFrom
      <4>1. j > prevFrom + 1 /\ j # lapFrom + 1 /\ j - 1 = i
        BY <1>0, <1>1, <3>1, <3>3
      <4>2. log[j].at = EndOf(log[j - 1])
        BY <1>0, <4>1, LapsAre
      <4> QED BY <1>0, <1>5, <2>1, <3>1, <3>2, <4>1, <4>2
    <3>4. CASE i = lapFrom
      <4>1. lapFrom > 0 /\ lapFrom < Len(log)
        BY <1>0, <1>1, <2>1, <3>4
      <4>2. EndOf(log[lapFrom]) >= BufEnd /\ log[lapFrom + 1].at = Start
        BY <1>0, <4>1, LapsAre
      <4> QED BY <1>5, <2>1, <3>4, <4>2
    <3> QED BY <3>3, <3>4
  <2>2. CASE i = Len(log) /\ lapFrom < Len(log)
    <3>1. LapEnd = EndOf(log[i])
      BY <2>2 DEF LapEnd
    <3>2. EndOf(log[i]) \in Nat
      BY MsgIs
    <3> QED BY <1>0, <1>5, <2>2, <3>1, <3>2
  <2>3. CASE i = Len(log) /\ lapFrom = Len(log)
    <3>1. LapEnd = Start
      BY <2>3 DEF LapEnd
    <3>2. lapFrom > 0
      BY <1>0, <1>1, <2>3
    <3>3. EndOf(log[i]) >= BufEnd
      BY <1>0, <2>3, <3>2, LapsAre
    <3> QED BY <1>0, <1>5, <2>3, <3>1, <3>3
  <2> QED BY <1>0, <1>1, <2>1, <2>2, <2>3
<1>7. lastTsc' = log[i].tsc /\ i # f
  BY <1>0, <1>1, <1>2 DEF Dump
<1>8. LapEnd' = LapEnd
  BY <1>a DEF LapEnd, EndOf
<1>9. f = lapFrom /\ f > 0 /\ pc = "idle" => log[f].at <= ptr
  BY DEF Prints
<1>10. Prints(f, i)'
  BY <1>a, <1>4, <1>6, <1>7, <1>8, <1>9 DEF Prints
<1> QED BY <1>1, <1>10

\* The reader prints the message that is being written.
LEMMA DumpTorn ==
    ASSUME IInv, RingHolds, LapsHold, MessageFits,
           NEW f \in prevFrom .. lapFrom, Oldest(f), Prints(f, Len(log)), Dump, UNCHANGED vars
    PROVE  PrintedTorn(f)'
<1>0. Len(log) \in Nat /\ f \in Nat /\ f <= Len(log)
  BY RestIs
<1>a. /\ mem' = mem /\ log' = log /\ pc' = pc /\ tailPtr' = tailPtr /\ clock' = clock
      /\ msgStart' = msgStart
  BY DEF vars, ringVars, histVars
<1>1. IsMessage /\ lines' = Append(lines, NewLine)
      /\ cur' = (IF Behind >= BufEnd THEN Start ELSE Behind) /\ lastTsc' = NextTsc
  BY DEF Dump
<1>2. pc \in {"id", "put"} /\ tailPtr # 0 /\ cur = msgStart
  BY <1>1, BehindNewest
<1>3. /\ Passes /\ NextTsc = clock /\ Behind = TornEnd
      /\ NewLine.tsc = clock /\ NewLine.id = mem[msgStart + 1].val
  BY <1>1, <1>2, TornIs
<1>4. TornEnd >= BufEnd
  BY <1>2, <1>3 DEF Passes
<1>5. PICK n \in Nat : n = Len(log) - f
  <2>1. Len(log) - f \in Nat
    BY <1>0
  <2> QED BY <2>1
<1>6. lines = [i \in 1 .. n |-> Faithful(log[f + i])]
  BY <1>5 DEF Prints
<1> DEFINE S == {Faithful(log[f + i]) : i \in 1 .. n}
<1>7. lines \in Seq(S) /\ Len(lines) = n
  <2>1. lines \in [1 .. n -> S]
    BY <1>6
  <2> HIDE DEF S
  <2> QED BY <2>1, SeqOf
<1>8. /\ Len(lines') = n + 1 /\ lines'[n + 1] = NewLine
      /\ \A i \in 1 .. n : lines'[i] = lines[i]
  BY <1>1, <1>7
<1>9. \A i \in 1 .. n : lines'[i] = Faithful(log[f + i])
  BY <1>6, <1>8
<1>10. (\A i \in 1 .. Len(log) - f : lines[i] = Faithful(log[f + i]))'
  BY <1>5, <1>9, <1>a DEF Faithful, Word
<1>11. (Len(lines) = Len(log) - f + 1)'
  BY <1>5, <1>8, <1>a
<1>12. (lines[Len(lines)].tsc = clock /\ lines[Len(lines)].id = mem[msgStart + 1].val)'
  BY <1>3, <1>8, <1>a
<1> QED BY <1>1, <1>2, <1>3, <1>4, <1>10, <1>11, <1>12, <1>a DEF PrintedTorn

\* Nothing is printed after the message that is being written, nor at tailPtr.
LEMMA NoMore ==
    ASSUME IInv, RingHolds, LapsHold, MessageFits, NEW f \in prevFrom .. lapFrom, Oldest(f),
           PrintedTorn(f) \/ StuckAtTail
    PROVE  ~ IsMessage
<1>0. /\ Len(log) \in Nat /\ lapFrom \in Nat /\ lapFrom <= Len(log) /\ ptr \in Nat
      /\ (tailPtr = 0 <=> lapFrom = 0) /\ Start <= ptr /\ Start < BufEnd /\ Start \in Nat
      /\ BufEnd \in Nat
  BY RestIs
<1>1. CASE PrintedTorn(f)
  <2>1. pc \in {"id", "put"} /\ tailPtr # 0 /\ cur = Start /\ lastTsc = clock
    BY <1>1 DEF PrintedTorn
  <2>2. Passes
    BY <2>1 DEF Oldest
  <2>3. lapFrom < Len(log)
    BY <2>1, <2>2, PassesIs
  <2>4. PICK i \in 1 .. Len(log) : i = lapFrom + 1
    BY <1>0, <2>3
  <2>5. log[i].at = Start /\ Intact(log[i])
    BY <1>0, <2>3, <2>4, LapsAre, RestIs
  <2>6. /\ log[i].tsc \in Nat
        /\ NextTsc = IF cur = Start /\ log[i].tsc < lastTsc THEN 0 ELSE log[i].tsc
    BY <2>1, <2>5, SeenIs
  <2>7. log[i].tsc < clock
    BY <2>1 DEF IInv, Laid
  <2>8. NextTsc = 0
    BY <2>1, <2>6, <2>7
  <2> QED BY <2>8 DEF IsMessage
<1>2. CASE StuckAtTail
  <2>1. cur = tailPtr /\ tailPtr > ptr
    BY <1>2 DEF StuckAtTail
  <2>2. tailPtr \in {0} \cup BufEnd .. Last
    BY DEF IInv, TypeOK
  <2>3. lapFrom > 0
    BY <1>0, <2>1, <2>2
  <2>4. tailPtr >= BufEnd /\ tailPtr \in Nat /\ mem[tailPtr] = Ones
    BY <2>1, <2>3, LapsAre, RestIs
  <2>5. LoadTsc(cur) = AllOnes
    BY <2>1, <2>4, Kinds DEF LoadTsc
  <2>6. cur # Start
    BY <1>0, <2>1, <2>4
  <2>7. NextTsc = AllOnes /\ AllOnes \in Nat
    BY <2>5, <2>6, MaxTscAssumption DEF NextTsc, AllOnes
  <2> QED BY <2>7 DEF IsMessage
<1> QED BY <1>1, <1>2

\* One message more is printed.
LEMMA DumpStep ==
    ASSUME IInv, RingHolds, LapsHold, MessageFits, AtDump, Dump, UNCHANGED vars
    PROVE  AtDump'
<1>1. PICK f \in prevFrom .. lapFrom :
        /\ Oldest(f)
        /\ \/ \E k \in f .. Len(log) : Prints(f, k)
           \/ PrintedTorn(f)
           \/ StuckAtTail
  BY DEF AtDump
<1>2. IsMessage
  BY DEF Dump
<1>3. PICK k \in f .. Len(log) : Prints(f, k)
  BY <1>1, <1>2, NoMore
<1>4. Oldest(f)'
  BY <1>1, OldestStays
<1>5. prevFrom' = prevFrom /\ lapFrom' = lapFrom /\ log' = log
  BY DEF vars, histVars
<1>6. CASE k < Len(log)
  <2>1. \E j \in f .. Len(log) : Prints(f, j)'
    BY <1>1, <1>3, <1>6, DumpNext
  <2> QED BY <1>4, <1>5, <2>1 DEF AtDump
<1>7. CASE k = Len(log)
  <2>1. PrintedTorn(f)'
    BY <1>1, <1>3, <1>7, DumpTorn
  <2> QED BY <1>4, <1>5, <2>1 DEF AtDump
<1> QED BY <1>3, <1>6, <1>7, RestIs

\* Nothing is left to print.
LEMMA EndStep ==
    ASSUME IInv, RingHolds, LapsHold, MessageFits, AtDump, End, UNCHANGED vars
    PROVE  AtDone'
<1>1. PICK f \in prevFrom .. lapFrom :
        /\ Oldest(f)
        /\ \/ \E k \in f .. Len(log) : Prints(f, k)
           \/ PrintedTorn(f)
           \/ StuckAtTail
  BY DEF AtDump
<1>2. ~ IsMessage
  BY DEF End
<1>3. Prints(f, Len(log)) \/ PrintedTorn(f) \/ StuckAtTail
  <2> SUFFICES ASSUME NEW k \in f .. Len(log), Prints(f, k) PROVE k = Len(log)
    BY <1>1
  <2> SUFFICES ASSUME k < Len(log) PROVE FALSE
    BY RestIs
  <2>1. PICK i \in 1 .. Len(log) : i = k + 1
    <3>1. k + 1 \in 1 .. Len(log)
      BY RestIs
    <3> QED BY <3>1
  <2> QED BY <1>1, <1>2, <2>1, NextToPrint
<1>4. /\ mem' = mem /\ log' = log /\ lapFrom' = lapFrom /\ pc' = pc /\ ptr' = ptr
      /\ prevFrom' = prevFrom /\ tailPtr' = tailPtr /\ msgStart' = msgStart /\ clock' = clock
      /\ cur' = cur /\ lastTsc' = lastTsc /\ lines' = lines
  BY DEF vars, ringVars, histVars, End
<1>5. AtDone
  BY <1>1, <1>3 DEF AtDone
<1> QED
  <2>1. Oldest(f)'
    BY <1>1, OldestStays
  <2>2. LapEnd' = LapEnd
    BY <1>4 DEF LapEnd, EndOf
  <2>3. Prints(f, Len(log)) => Prints(f, Len(log))'
    BY <1>4, <2>2 DEF Prints, Faithful, Word, LoadTsc
  <2>4. PrintedTorn(f) => PrintedTorn(f)'
    BY <1>4 DEF PrintedTorn, Faithful, Word
  <2>5. StuckAtTail => StuckAtTail'
    BY <1>4 DEF StuckAtTail
  <2> QED BY <1>3, <1>4, <2>1, <2>3, <2>4, <2>5 DEF AtDone

\* The ring does not change while qttail is in it.
LEMMA LapsRest == LapsHold /\ UNCHANGED vars => LapsHold'
BY DEF LapsHold, Rising, Filled, InPlace, OldRemains, Fresh, OnesBeyond, EndOf, Intact, vars, ringVars, histVars

\* Nothing of it depends on anything but the ring and qttail.
LEMMA CatRest == CatIInv /\ UNCHANGED <<vars, catVars>> => CatIInv'
<1> SUFFICES ASSUME CatIInv, UNCHANGED <<vars, catVars>> PROVE CatIInv'
  OBVIOUS
<1>1. IInv' /\ RingHolds' /\ LapsHold'
  BY NextIInv, Rests, LapsRest DEF CatIInv
<1>0. /\ mem' = mem /\ log' = log /\ lapFrom' = lapFrom /\ pc' = pc /\ ptr' = ptr
      /\ prevFrom' = prevFrom /\ tailPtr' = tailPtr /\ msgStart' = msgStart /\ clock' = clock
      /\ cur' = cur /\ lastTsc' = lastTsc /\ lines' = lines /\ stage' = stage
      /\ split' = split /\ p' = p /\ moved' = moved /\ UNCHANGED vars
  BY DEF vars, ringVars, histVars, catVars
<1>2. CatHolds
  BY DEF CatIInv
<1>3. (Finished => Finished') /\ (Passes => Passes') /\ TornEnd' = TornEnd
  BY <1>0 DEF Finished, Passes, TornEnd, LoadTsc
<1>4. AtSplit => AtSplit'
  <2>1. ASSUME NEW k, Walked(k) PROVE Walked(k)'
    BY <1>0, <1>3, <2>1 DEF Walked, EndOf
  <2>2. WalkedTorn => WalkedTorn'
    BY <1>0, <1>3 DEF WalkedTorn
  <2> QED BY <1>0, <2>1, <2>2 DEF AtSplit
<1>5. AtBack => AtBack'
  <2>1. ASSUME NEW j, WentBack(j) PROVE WentBack(j)'
    BY <1>0, <2>1 DEF WentBack, EndOf
  <2> QED BY <1>0, <1>3, <2>1 DEF AtBack
<1>6. ASSUME NEW f, Oldest(f) PROVE Oldest(f)'
  BY <1>0, <1>6, OldestStays
<1>7. LapEnd' = LapEnd
  BY <1>0 DEF LapEnd, EndOf
<1>8. ASSUME NEW f, NEW k, Prints(f, k) PROVE Prints(f, k)'
  BY <1>0, <1>7, <1>8 DEF Prints, Faithful, Word, LoadTsc
<1>9. ASSUME NEW f, PrintedTorn(f) PROVE PrintedTorn(f)'
  BY <1>0, <1>9 DEF PrintedTorn, Faithful, Word
<1>10. StuckAtTail => StuckAtTail'
  BY <1>0 DEF StuckAtTail
<1>11. AtDump => AtDump'
  BY <1>0, <1>6, <1>8, <1>9, <1>10 DEF AtDump
<1>12. AtDone => AtDone'
  <2>1. ASSUME NEW f, Prints(f, Len(log)) PROVE Prints(f, Len(log))'
    <3>1. PICK k : k = Len(log)
      OBVIOUS
    <3>2. Prints(f, k)'
      BY <1>8, <2>1, <3>1
    <3> QED BY <1>0, <3>1, <3>2
  <2> QED BY <1>0, <1>6, <1>9, <1>10, <2>1 DEF AtDone
<1>13. CatHolds'
  BY <1>0, <1>2, <1>4, <1>5, <1>11, <1>12 DEF CatHolds, CatRefusesOnlyTorn
<1> QED BY <1>1, <1>13 DEF CatIInv

\* No step of the program or of qttail breaks the invariant.
LEMMA CatNextCatIInv ==
    ASSUME MessageFits, CatIInv, [CatNext]_<<vars, catVars>>
    PROVE  CatIInv'
<1>0. IInv /\ RingHolds /\ LapsHold /\ CatHolds
  BY DEF CatIInv
<1>1. CASE stage = "off" /\ Next /\ UNCHANGED catVars
  <2>1. IInv' /\ RingHolds' /\ LapsHold'
    BY <1>0, <1>1, RingHoldsStep, LapsHoldStep
  <2>2. CatHolds'
    BY <1>0, <1>1 DEF CatHolds, CatRefusesOnlyTorn, catVars
  <2> QED BY <2>1, <2>2 DEF CatIInv
<1>2. CASE Qttail /\ UNCHANGED vars
  <2>1. IInv' /\ RingHolds' /\ LapsHold'
    BY <1>0, <1>2, NextIInv, Rests, LapsRest
  <2>2. pc' = pc
    BY <1>2 DEF vars, ringVars
  <2>3. CASE Begin
    <3>1. (stage' = "dump" /\ AtDump') \/ (stage' = "split" /\ AtSplit')
      BY <1>0, <1>2, <2>3, BeginStep
    <3> QED BY <2>1, <3>1 DEF CatIInv, CatHolds, CatRefusesOnlyTorn
  <2>4. CASE Forward
    <3>1. stage = "split" /\ stage' = stage
      BY <2>4 DEF Forward
    <3>2. AtSplit'
      BY <1>0, <1>2, <2>4, <3>1, ForwardStep DEF CatHolds
    <3> QED BY <2>1, <3>1, <3>2 DEF CatIInv, CatHolds, CatRefusesOnlyTorn
  <2>5. CASE Refuse
    <3>1. stage = "split" /\ stage' = "refused"
      BY <2>5 DEF Refuse
    <3>2. pc \in {"id", "put", "end"}
      BY <1>0, <2>5, <3>1, RefuseStep DEF CatHolds
    <3> QED BY <2>1, <2>2, <3>1, <3>2 DEF CatIInv, CatHolds, CatRefusesOnlyTorn
  <2>6. CASE Split
    <3>1. stage = "split"
      BY <2>6 DEF Split
    <3>2. (stage' = "dump" /\ AtDump') \/ (stage' = "back" /\ AtBack')
      BY <1>0, <1>2, <2>6, <3>1, SplitStep DEF CatHolds
    <3> QED BY <2>1, <3>2 DEF CatIInv, CatHolds, CatRefusesOnlyTorn
  <2>7. CASE Back
    <3>1. stage = "back" /\ stage' = stage
      BY <2>7 DEF Back
    <3>2. AtBack'
      BY <1>0, <1>2, <2>7, <3>1, BackStep DEF CatHolds
    <3> QED BY <2>1, <3>1, <3>2 DEF CatIInv, CatHolds, CatRefusesOnlyTorn
  <2>8. CASE Found
    <3>1. stage = "back" /\ stage' = "dump"
      BY <2>8 DEF Found, DumpFrom
    <3>2. AtDump'
      BY <1>0, <1>2, <2>8, <3>1, FoundStep DEF CatHolds
    <3> QED BY <2>1, <3>1, <3>2 DEF CatIInv, CatHolds, CatRefusesOnlyTorn
  <2>9. CASE Dump
    <3>1. stage = "dump" /\ stage' = stage
      BY <2>9 DEF Dump
    <3>2. AtDump'
      BY <1>0, <1>2, <2>9, <3>1, DumpStep DEF CatHolds
    <3> QED BY <2>1, <3>1, <3>2 DEF CatIInv, CatHolds, CatRefusesOnlyTorn
  <2>10. CASE End
    <3>1. stage = "dump" /\ stage' = "done"
      BY <2>10 DEF End
    <3>2. AtDone'
      BY <1>0, <1>2, <2>10, <3>1, EndStep DEF CatHolds
    <3> QED BY <2>1, <3>1, <3>2 DEF CatIInv, CatHolds, CatRefusesOnlyTorn
  <2> QED BY <1>2, <2>3, <2>4, <2>5, <2>6, <2>7, <2>8, <2>9, <2>10 DEF Qttail
<1>3. CASE UNCHANGED <<vars, catVars>>
  BY <1>3, CatRest
<1> QED BY <1>1, <1>2, <1>3 DEF CatNext

\* Wherever the program stopped, in every state of qttail -c all that it relies
\* on is so: where it is in the ring, and which messages it has printed.
THEOREM CatInvariance == ASSUME MessageFits PROVE CatSpec => []CatIInv
<1>1. CatInit => CatIInv
  <2> SUFFICES ASSUME CatInit PROVE CatIInv
    OBVIOUS
  <2>1. IInv /\ RingHolds /\ LapsHold
    BY InitIInv, InitRingHolds, InitLapsHold DEF CatInit
  <2>2. CatHolds
    BY DEF CatInit, CatHolds, CatRefusesOnlyTorn
  <2> QED BY <2>1, <2>2 DEF CatIInv
<1>2. CatIInv /\ [CatNext]_<<vars, catVars>> => CatIInv'
  BY CatNextCatIInv
<1> QED BY <1>1, <1>2, PTL DEF CatSpec

\* What qttail -c prints of a ring, whatever its size and wherever the program
\* stopped, is the newest completed messages with none missing in between, and
\* at most the message that the program was inside of, which it prints only
\* when that message reaches into the trailer.
THEOREM PrintsNewest == ASSUME MessageFits PROVE CatSpec => []CatSuffix
<1>1. CatIInv => CatSuffix
  <2> SUFFICES ASSUME CatIInv, stage = "done"
               PROVE  LET n == IF Torn THEN Len(lines) - 1 ELSE Len(lines)
                      IN  /\ n <= Len(log)
                          /\ \A i \in 1 .. n : lines[i] = Faithful(log[Len(log) - n + i])
                          /\ Torn => msgStart + LenOf(lines[Len(lines)].id) + 1 >= BufEnd
    BY DEF CatSuffix
  <2>0. IInv /\ RingHolds /\ LapsHold /\ AtDone
    BY DEF CatIInv, CatHolds
  <2>1. PICK f \in prevFrom .. lapFrom :
          Oldest(f) /\ (Prints(f, Len(log)) \/ PrintedTorn(f) \/ StuckAtTail)
    BY <2>0 DEF AtDone
  <2>2. Len(log) \in Nat /\ f \in Nat /\ f <= Len(log)
    BY <2>0, <2>1, RestIs
  <2>3. PICK n \in Nat : n = Len(log) - f /\ Len(log) - n = f /\ n <= Len(log)
    <3>1. Len(log) - f \in Nat /\ Len(log) - (Len(log) - f) = f /\ Len(log) - f <= Len(log)
      BY <2>2
    <3> QED BY <3>1
  <2>4. CASE Prints(f, Len(log))
    <3>1. lines = [i \in 1 .. n |-> Faithful(log[f + i])]
      BY <2>3, <2>4 DEF Prints
    <3> DEFINE S == {Faithful(log[f + i]) : i \in 1 .. n}
    <3>2. lines \in [1 .. n -> S]
      BY <3>1
    <3> HIDE DEF S
    <3>3. Len(lines) = n
      BY <3>2, SeqOf
    <3>4. ~ Torn
      <4> SUFFICES ASSUME Torn PROVE FALSE
        OBVIOUS
      <4>1. pc \in {"id", "put"} /\ n > 0 /\ lines[n].tsc = clock
        BY <3>3 DEF Torn
      <4>2. PICK i \in 1 .. Len(log) : i = f + n
        BY <2>2, <2>3, <4>1
      <4>3. lines[n].tsc = log[i].tsc
        BY <3>1, <4>1, <4>2 DEF Faithful
      <4>4. log[i].tsc < clock /\ log[i].tsc \in Nat /\ clock \in Nat
        BY <2>0, <4>1, MsgIs, Writers DEF IInv, Laid
      <4> QED BY <4>1, <4>3, <4>4
    <3> QED BY <2>3, <3>1, <3>3, <3>4
  <2>5. CASE PrintedTorn(f)
    <3>1. /\ pc \in {"id", "put"} /\ tailPtr # 0 /\ Len(lines) = n + 1
          /\ \A i \in 1 .. n : lines[i] = Faithful(log[f + i])
          /\ lines[Len(lines)].tsc = clock /\ lines[Len(lines)].id = mem[msgStart + 1].val
      BY <2>3, <2>5 DEF PrintedTorn
    <3>2. Torn
      BY <3>1 DEF Torn
    <3>3. msgStart + LenOf(lines[Len(lines)].id) + 1 >= BufEnd
      BY <2>1, <3>1 DEF Oldest, Passes, TornEnd
    <3>4. Len(lines) - 1 = n
      BY <3>1
    <3> QED BY <2>3, <3>1, <3>2, <3>3, <3>4
  <2>6. CASE StuckAtTail
    <3>1. Len(lines) = 0
      BY <2>6 DEF StuckAtTail
    <3>2. ~ Torn
      BY <3>1 DEF Torn
    <3> QED BY <2>2, <3>1, <3>2
  <2> QED BY <2>1, <2>4, <2>5, <2>6
<1> QED BY <1>1, CatInvariance, PTL

\* qttail -c refuses only the ring of a program that stopped inside a message.
THEOREM RefusesOnlyTorn == ASSUME MessageFits PROVE CatSpec => []CatRefusesOnlyTorn
<1>1. CatIInv => CatRefusesOnlyTorn
  BY DEF CatIInv, CatHolds
<1> QED BY <1>1, CatInvariance, PTL

\* Going back by the length bytes, qttail -c stays between messages although the
\* writer has been over part of the lap.
THEOREM BackWalkSafe == ASSUME MessageFits PROVE CatSpec => []BackWalkInStep
<1>1. CatIInv => BackWalkInStep
  <2> SUFFICES ASSUME CatIInv, stage = "back"
               PROVE  p = Start \/ \E i \in prevFrom + 1 .. lapFrom : p = EndOf(log[i])
    BY DEF BackWalkInStep
  <2>0. IInv /\ RingHolds /\ LapsHold /\ AtBack
    BY DEF CatIInv, CatHolds
  <2>1. PICK j \in prevFrom .. lapFrom : WentBack(j)
    BY <2>0 DEF AtBack
  <2>2. j = prevFrom \/ j \in prevFrom + 1 .. lapFrom
    BY <2>0, <2>1, RestIs
  <2> QED BY <2>1, <2>2 DEF WentBack
<1> QED BY <1>1, CatInvariance, PTL

\* Of a program that stopped between two messages qttail -c prints all that is
\* in the ring, the oldest message perhaps not; but nothing if the one old
\* message that is left directly follows the terminator.
THEOREM PrintsAll == ASSUME MessageFits PROVE CatSpec => []CatComplete
<1>1. CatIInv => CatComplete
  <2> SUFFICES ASSUME CatIInv, stage = "done", pc = "idle"
               PROVE  IF lapFrom > 0 /\ log[lapFrom].at = ptr + 1
                      THEN lines = <<>>
                      ELSE \A i \in Retained :
                              (\E j \in Retained : j < i) => Len(lines) > Len(log) - i
    BY DEF CatComplete
  <2>0. IInv /\ RingHolds /\ LapsHold /\ AtDone
    BY DEF CatIInv, CatHolds
  <2>1. PICK f \in prevFrom .. lapFrom :
          Oldest(f) /\ (Prints(f, Len(log)) \/ PrintedTorn(f) \/ StuckAtTail)
    BY <2>0 DEF AtDone
  <2>2. /\ Len(log) \in Nat /\ lapFrom \in Nat /\ lapFrom <= Len(log) /\ prevFrom \in Nat
        /\ lapFrom > 0 => prevFrom < lapFrom
        /\ tailPtr = 0 <=> lapFrom = 0
        /\ ptr \in Nat /\ Start <= ptr /\ Start \in Nat /\ ptr = LapEnd
        /\ f \in Nat /\ f >= prevFrom /\ f <= lapFrom
    BY <2>0, <2>1, RestIs
  <2>3. ~ PrintedTorn(f)
    BY DEF PrintedTorn
  <2>4. CASE StuckAtTail
    <3>1. lines = <<>> /\ log[lapFrom].at = ptr + 1 /\ tailPtr > ptr
      BY <2>4 DEF StuckAtTail
    <3>2. lapFrom > 0
      BY <2>2, <3>1
    <3> QED BY <3>1, <3>2
  <2>5. ASSUME Prints(f, Len(log)), lapFrom > 0, log[lapFrom].at = ptr + 1 PROVE FALSE
    <3>1. PICK i \in 1 .. Len(log) : i = lapFrom
      BY <2>2, <2>5
    <3>2. CASE lapFrom = Len(log)
      <4>1. ptr = Start
        BY <2>2, <3>2 DEF LapEnd
      <4>2. CASE i = prevFrom + 1
        <5>1. log[prevFrom + 1].at = Start
          BY <2>0, <2>2, <2>5, LapsAre
        <5> QED BY <2>2, <2>5, <3>1, <4>1, <4>2, <5>1
      <4>3. CASE i > prevFrom + 1
        <5>1. PICK j \in 1 .. Len(log) : log[i].at = EndOf(log[j])
          <6>1. i # lapFrom + 1
            BY <2>2, <3>1
          <6> QED BY <2>0, <2>2, <4>3, <6>1, LapsAre
        <5>2. /\ log[j].at \in Nat /\ log[j].at >= Start /\ LenOf(log[j].id) \in Nat
              /\ LenOf(log[j].id) >= 2 /\ EndOf(log[j]) = log[j].at + LenOf(log[j].id) + 1
          BY <2>0, MsgIs
        <5> QED BY <2>2, <2>5, <3>1, <4>1, <5>1, <5>2
      <4> QED BY <2>2, <2>5, <3>1, <4>2, <4>3
    <3>3. CASE lapFrom < Len(log) /\ f = lapFrom
      <4>1. log[f].at <= ptr
        BY <2>5, <3>3 DEF Prints
      <4> QED BY <2>2, <2>5, <3>3, <4>1
    <3>4. CASE lapFrom < Len(log) /\ f < lapFrom
      <4>1. PICK j \in 1 .. Len(log) : j = f + 1
        BY <2>2, <3>4
      <4>2. log[j].at > ptr + 1
        BY <2>1, <3>4, <4>1 DEF Oldest
      <4>3. log[j].at \in Nat /\ EndOf(log[j]) \in Nat /\ EndOf(log[j]) >= log[j].at
        <5>1. /\ log[j].at \in Nat /\ LenOf(log[j].id) \in Nat
              /\ EndOf(log[j]) = log[j].at + LenOf(log[j].id) + 1
          BY <2>0, MsgIs
        <5> QED BY <5>1
      <4>4. j < i => EndOf(log[j]) <= log[i].at
        <5>1. j \in prevFrom + 1 .. Len(log) /\ i \in prevFrom + 1 .. Len(log) /\ i <= lapFrom
          BY <2>2, <2>5, <3>1, <4>1
        <5> QED BY <2>0, <5>1 DEF LapsHold, InPlace
      <4>5. j <= i
        BY <2>2, <3>1, <3>4, <4>1
      <4> QED BY <2>2, <2>5, <3>1, <4>2, <4>3, <4>4, <4>5
    <3> QED BY <2>2, <3>2, <3>3, <3>4
  <2>6. ASSUME Prints(f, Len(log)), NEW i \in Retained, NEW j \in Retained, j < i
        PROVE  Len(lines) > Len(log) - i
    <3>1. /\ i \in prevFrom + 1 .. Len(log) /\ j \in prevFrom + 1 .. Len(log)
          /\ j > lapFrom \/ log[j].at > ptr
      BY <2>6 DEF Retained
    <3>2. i \in 1 .. Len(log) /\ j \in 1 .. Len(log)
      BY <2>2, <3>1
    <3>3. f < i
      <4> SUFFICES ASSUME i <= f PROVE FALSE
        BY <2>2, <3>1
      <4>1. f > prevFrom /\ j < f /\ j <= lapFrom /\ f \in 1 .. Len(log)
        BY <2>2, <2>6, <3>1
      <4>2. lapFrom < Len(log)
        BY <2>1, <2>2, <4>1 DEF Oldest
      <4>3. log[f].at <= ptr + 1
        BY <2>1, <4>1, <4>2 DEF Oldest
      <4>4. log[j].at > ptr
        BY <2>2, <3>1, <4>1
      <4>5. EndOf(log[j]) <= log[f].at
        <5>1. f \in prevFrom + 1 .. Len(log)
          BY <2>2, <4>1
        <5> QED BY <2>0, <2>2, <3>1, <4>1, <5>1 DEF LapsHold, InPlace
      <4>6. /\ log[j].at \in Nat /\ LenOf(log[j].id) \in Nat /\ LenOf(log[j].id) >= 2
            /\ EndOf(log[j]) = log[j].at + LenOf(log[j].id) + 1
        BY <2>0, <3>2, MsgIs
      <4>7. log[f].at \in Nat
        BY <2>0, <4>1, MsgIs
      <4> QED BY <2>2, <4>3, <4>4, <4>5, <4>6, <4>7
    <3>4. PICK n \in Nat : n = Len(log) - f
      <4>1. Len(log) - f \in Nat
        BY <2>2
      <4> QED BY <4>1
    <3>5. lines = [x \in 1 .. n |-> Faithful(log[f + x])]
      BY <2>6, <3>4 DEF Prints
    <3> DEFINE S == {Faithful(log[f + x]) : x \in 1 .. n}
    <3>6. lines \in [1 .. n -> S]
      BY <3>5
    <3> HIDE DEF S
    <3>7. Len(lines) = n
      BY <3>6, SeqOf
    <3> QED BY <2>2, <3>1, <3>3, <3>4, <3>7
  <2> QED BY <2>1, <2>3, <2>4, <2>5, <2>6
<1> QED BY <1>1, CatInvariance, PTL

=============================================================================
