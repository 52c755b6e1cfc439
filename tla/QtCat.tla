------------------------------- MODULE QtCat -------------------------------
(***************************************************************************)
(* qttail -c on the ring of one level: RingBuffer::rewind finds the oldest *)
(* message, then Tail::tail dumps until a message cannot be read           *)
(* (qttail.cpp 218-550, 1013-1017).  The program that wrote the ring has   *)
(* stopped, or crashed, after any store: the file does not change any      *)
(* more, and one turn of a loop of qttail is a step.                       *)
(***************************************************************************)
EXTENDS RingRead

VARIABLES
    stage,     \* where qttail is: not begun, a loop of rewind, tail, ended
    split,     \* splitPoint
    p,         \* p
    moved,     \* movedBackNumMsgs
    lines      \* std::cout: what was printed

catVars == <<cur, lastTsc, stage, split, p, moved, lines>>

CatInit ==
    /\ Init
    /\ cur = Start
    /\ lastTsc = 0
    /\ stage = "off"
    /\ split = 0
    /\ p = 0
    /\ moved = 0
    /\ lines = <<>>

(***************************************************************************)
(* RingBuffer::next with curTsc = UINT64_MAX.                              *)
(***************************************************************************)

\* The message at cur has a known id, and its length byte agrees with what the
\* format of that id takes (Messages::get, MessageFormatter::length).
Decodes ==
    /\ mem[cur + 1].kind = "id"
    /\ mem[cur + LenOf(mem[cur + 1].val)] = LenCell(LenOf(mem[cur + 1].val))

Behind == cur + LenOf(mem[cur + 1].val) + 1

\* Mutant of NextTscFits: ones in the trailer are corruption.
NextTscFitsNoOnes ==
    LET n == LoadTsc(Behind)
    IN  \/ n = 0
        \/ Behind < BufEnd /\ n >= LoadTsc(cur) /\ n # Garbage

\* The next timestamp does not contradict the message at cur.  Beyond the
\* usable area ones mean that the writer turned round there (not tailing).
NextTscFits ==
    LET n == LoadTsc(Behind)
    IN  \/ n = 0
        \/ Behind >= BufEnd /\ n = AllOnes
        \/ Behind < BufEnd /\ n >= LoadTsc(cur) /\ n # Garbage

\* There is a message at cur, there is none yet, or something else is there.
IsMessage ==
    /\ NextTsc > 0 /\ NextTsc >= lastTsc /\ NextTsc < AllOnes
    /\ Decodes /\ NextTscFits
IsNone == NextTsc = 0
IsBad == ~ IsNone /\ ~ IsMessage

(***************************************************************************)
(* RingBuffer::rewind                                                      *)
(***************************************************************************)

\* The dump begins at place c.
DumpFrom(c) ==
    /\ stage' = "dump"
    /\ cur' = c
    /\ lastTsc' = LoadTsc(c)

\* A ring that never wrapped is dumped from its start.
Begin ==
    /\ stage = "off"
    /\ \/ tailPtr = 0 /\ DumpFrom(Start)
       \/ tailPtr # 0 /\ stage' = "split" /\ UNCHANGED <<cur, lastTsc>>
    /\ UNCHANGED <<split, p, moved, lines>>

\* The first loop goes to the split point, behind the newest message ...
Forward ==
    /\ stage = "split"
    /\ cur < BufEnd /\ IsMessage
    /\ cur' = Behind
    /\ lastTsc' = NextTsc
    /\ UNCHANGED <<stage, split, p, moved, lines>>

\* ... and gives up on corruption ("File changed while reading, try again").
Refuse ==
    /\ stage = "split"
    /\ cur < BufEnd /\ IsBad
    /\ stage' = "refused"
    /\ UNCHANGED <<cur, lastTsc, split, p, moved, lines>>

\* Where nothing older is behind the split point, the dump begins at the start.
Split ==
    /\ stage = "split"
    /\ cur >= BufEnd \/ IsNone
    /\ split' = cur + 1
    /\ p' = tailPtr
    /\ \/ tailPtr <= cur + 1 /\ DumpFrom(Start)
       \/ tailPtr > cur + 1 /\ stage' = "back" /\ UNCHANGED <<cur, lastTsc>>
    /\ UNCHANGED <<moved, lines>>

\* Mutant of LenByte: the length is taken not to count the length byte twice.
LenByteLess(a) == IF mem[a].kind = "len" THEN mem[a].val - 1 ELSE 0

\* The number in a length byte; other bytes are some number of that range.
LenByte(a) == IF mem[a].kind = "len" THEN mem[a].val ELSE 0

\* The second loop goes back from the tail by the length bytes.
Back ==
    /\ stage = "back"
    /\ p > split
    /\ moved' = moved + 1
    /\ cur' = p
    /\ p' = p - (1 + LenByte(p - 1))
    /\ UNCHANGED <<lastTsc, stage, split, lines>>

\* Mutant of Found: without going back to the start after a single message.
FoundNoFallback ==
    /\ stage = "back"
    /\ p <= split
    /\ DumpFrom(cur)
    /\ UNCHANGED <<split, p, moved, lines>>

\* The oldest message that qttail knows of; the start, if the only old one that
\* it went back over reaches across the split point.
Found ==
    /\ stage = "back"
    /\ p <= split
    /\ DumpFrom(IF p < split /\ moved = 1 THEN Start ELSE cur)
    /\ UNCHANGED <<split, p, moved, lines>>

(***************************************************************************)
(* Tail::tail and RingBuffer::dump                                         *)
(***************************************************************************)

\* What is printed of the message at cur: its timestamp, format and data.
NewLine ==
    [tsc |-> NextTsc, id |-> mem[cur + 1].val,
     words |-> [w \in 1 .. Words[mem[cur + 1].val] |-> mem[cur + 1 + w]]]

\* Mutant of Dump: cur_ does not wrap at the end of the usable area.
DumpNoWrap ==
    /\ stage = "dump"
    /\ IsMessage
    /\ lines' = Append(lines, NewLine)
    /\ cur' = Behind
    /\ lastTsc' = NextTsc
    /\ UNCHANGED <<stage, split, p, moved>>

Dump ==
    /\ stage = "dump"
    /\ IsMessage
    /\ lines' = Append(lines, NewLine)
    /\ cur' = IF Behind >= BufEnd THEN Start ELSE Behind
    /\ lastTsc' = NextTsc
    /\ UNCHANGED <<stage, split, p, moved>>

\* Tail::tail returns false: no message, or one that does not check.
End ==
    /\ stage = "dump"
    /\ ~ IsMessage
    /\ stage' = "done"
    /\ UNCHANGED <<cur, lastTsc, split, p, moved, lines>>

Qttail == Begin \/ Forward \/ Refuse \/ Split \/ Back \/ Found \/ Dump \/ End

CatNext ==
    \/ stage = "off" /\ Next /\ UNCHANGED catVars
    \/ Qttail /\ UNCHANGED vars

\* The program may stop between any two stores, and so may qttail: no fairness.
CatSpec == CatInit /\ [][CatNext]_<<vars, catVars>>

(***************************************************************************)
(* Properties                                                              *)
(***************************************************************************)

\* What dump should print of a completed message.
Faithful(m) ==
    [tsc |-> m.tsc, id |-> m.id,
     words |-> [w \in 1 .. Words[m.id] |-> Word(m.tsc)]]

\* The completed messages that are still in the ring: those of the current
\* lap, and those of the lap before it that lie beyond the terminator.
Retained ==
    {i \in prevFrom + 1 .. Len(log) : i > lapFrom \/ log[i].at > ptr}

\* The last line is the message that the program was inside of.
Torn == /\ pc \in {"id", "put"}
        /\ Len(lines) > 0 /\ lines[Len(lines)].tsc = clock

\* What is printed is the newest completed messages, none missing in between,
\* in order and with their own data, wherever the program stopped.  At most
\* one line comes after them: the message the program was inside of, and only
\* when that message reaches into the trailer.
CatSuffix ==
    LET n == IF Torn THEN Len(lines) - 1 ELSE Len(lines)
    IN  stage = "done" =>
            /\ n <= Len(log)
            /\ \A i \in 1 .. n : lines[i] = Faithful(log[Len(log) - n + i])
            /\ Torn => msgStart + LenOf(lines[Len(lines)].id) + 1 >= BufEnd

\* A program that stopped between two messages: all messages in the ring are
\* printed, except that the oldest may be missed, as qttail.cpp:382-383 says.
\* But if the one old message left directly follows the terminator, nothing is.
CatComplete ==
    stage = "done" /\ pc = "idle" =>
        IF lapFrom > 0 /\ log[lapFrom].at = ptr + 1
        THEN lines = <<>>
        ELSE \A i \in Retained :
                (\E j \in Retained : j < i) => Len(lines) > Len(log) - i

\* The reader gives up only on a ring whose writer stopped inside a message.
CatRefusesOnlyTorn == stage = "refused" => pc \in {"id", "put", "end"}

\* The backward walk never leaves the boundaries between messages, although
\* the only thing it knows of them is their length bytes, and although the
\* cells before the split point have been written anew.
BackWalkInStep ==
    stage = "back" =>
        \/ p = Start
        \/ \E i \in prevFrom + 1 .. lapFrom : p = EndOf(log[i])

=============================================================================
