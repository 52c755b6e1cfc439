------------------------------ MODULE RingTail ------------------------------
(***************************************************************************)
(* qttail following one ring while the program traces into it: the writer  *)
(* of RingBuf and, in another process and without any lock, the reader     *)
(* RingBuffer of qttail.cpp with the parts of Tail that drive it.  Every   *)
(* load of the reader is a step, so the writer may store between any two.  *)
(*                                                                         *)
(* The reader skips what is in the ring (fastforward), then tails: it polls*)
(* the timestamp counter, chooses the next message by its timestamp, then  *)
(* reads and checks it field by field (next), prints it (format), checks   *)
(* its length once more and moves on.  A message that does not check is    *)
(* tried again, after corruptionThreshold_ times the ring is read from its *)
(* start again (reset).                                                    *)
(***************************************************************************)
EXTENDS RingRead, FiniteSets

CONSTANTS
    Threshold,    \* corruptionThreshold_
    KeepsUp,      \* the program does not overwrite what is not read yet
    Patient       \* trace statements end before Threshold tries

ASSUME ThresholdAssumption == Threshold \in Nat
ASSUME ModeAssumption == KeepsUp \in BOOLEAN /\ Patient \in BOOLEAN

VARIABLES
    corruption,   \* corruption_, counted up to Threshold
    next,         \* Tail::next_: timestamp of the message chosen, 0 if none
    curTsc,       \* the reader's own timestamp for this round
    rpc,          \* where the reader is
    skipping,     \* it is still in fastforward
    reg,          \* what it read of the message so far
    out,          \* history: the lines it printed
    touched,      \* history: the writer stored into the message being read
    early,        \* history: its id was loaded between the two stores of startMsg
    misled        \* history: an id so loaded led the reader beyond its message

readVars == <<cur, lastTsc, corruption, next, curTsc, rpc, skipping, reg>>
tailVars == <<vars, readVars, out, touched, early, misled>>

LenMax == CHOOSE n \in {LenOf(id) : id \in Id} : \A id \in Id : n >= LenOf(id)

NoReg == [tsc |-> 0, id |-> CHOOSE id \in Id : TRUE, words |-> <<>>]

TailInit ==
    /\ Init
    /\ cur = Start
    /\ lastTsc = 0
    /\ corruption = 0
    /\ next = 0
    /\ curTsc = 0
    /\ rpc = "open"
    /\ skipping = TRUE
    /\ reg = NoReg
    /\ out = <<>>
    /\ touched = FALSE
    /\ early = FALSE
    /\ misled = FALSE

(***************************************************************************)
(* Outcomes shared by the steps of the reader.                             *)
(***************************************************************************)

\* The end of a round that did not print: the next one begins with a poll.
EndRound(c) ==
    /\ corruption' = c
    /\ rpc' = "poll"
    /\ reg' = NoReg

\* Tries during a running trace statement are not counted if it is assumed
\* that they are never that many.
Counting == Patient => pc = "idle"

Counted == IF Counting /\ corruption < Threshold THEN corruption + 1 ELSE corruption

\* Mutant of Reset: lastTsc_ is not incremented.
ResetSameTsc ==
    /\ next' = 0
    /\ IF cur = Start
       THEN EndRound(corruption) /\ UNCHANGED <<cur, lastTsc>>
       ELSE EndRound(0) /\ cur' = Start /\ UNCHANGED lastTsc
    /\ UNCHANGED <<curTsc, skipping>>

\* Mutant of Reset: the reader stays where it is.
ResetInPlace ==
    /\ next' = 0
    /\ EndRound(0)
    /\ UNCHANGED <<cur, lastTsc, curTsc, skipping>>

\* RingBuffer::reset after a CorruptionError, in the catch of tailBuffer.
Reset ==
    /\ next' = 0
    /\ IF cur = Start
       THEN EndRound(corruption) /\ UNCHANGED <<cur, lastTsc>>
       ELSE EndRound(0) /\ cur' = Start /\ lastTsc' = lastTsc + 1
    /\ UNCHANGED <<curTsc, skipping>>

\* The message does not check.  skip gives up, the reader begins to tail; dump
\* counts and tries again, or throws when it has tried often enough.
Invalid ==
    \/ /\ skipping
       /\ skipping' = FALSE
       /\ cur' = IF cur >= BufEnd THEN Start ELSE cur
       /\ EndRound(corruption)
       /\ UNCHANGED <<lastTsc, next, curTsc>>
    \/ /\ ~ skipping
       /\ corruption < Threshold \/ ~ Counting
       /\ EndRound(Counted)
       /\ UNCHANGED <<cur, lastTsc, next, curTsc, skipping>>
    \/ /\ ~ skipping
       /\ corruption >= Threshold
       /\ Counting
       /\ Reset

(***************************************************************************)
(* The steps of the reader.                                                *)
(***************************************************************************)

\* Tail::initialize maps the file and starts fastforward.  A program that lets
\* its reader keep up also lets it open the file between two trace statements.
Open ==
    /\ rpc = "open"
    /\ KeepsUp => pc = "idle"
    /\ rpc' = "tsc"
    /\ curTsc' = AllOnes
    /\ UNCHANGED <<cur, lastTsc, corruption, next, skipping, reg, out>>

\* tailOne calls tail with the present time.
Poll ==
    /\ rpc = "poll"
    /\ curTsc' = clock + 1
    /\ rpc' = IF next # 0 THEN "tsc" ELSE "order"
    /\ UNCHANGED <<cur, lastTsc, corruption, next, skipping, reg, out>>

\* Tail::nextTsc chooses the ring with the lowest timestamp, here the only
\* one, unless it has none (0, or not below the initial UINT64_MAX).
Order ==
    /\ rpc = "order"
    /\ IF NextTsc \in {0, AllOnes}
       THEN rpc' = "poll" /\ UNCHANGED next
       ELSE rpc' = "tsc" /\ next' = NextTsc
    /\ UNCHANGED <<cur, lastTsc, corruption, curTsc, skipping, reg, out>>

\* next reads the timestamp and checks it (isValidTsc); 0 is no corruption.
ReadTsc ==
    /\ rpc = "tsc"
    /\ LET tsc == NextTsc
       IN  \/ /\ tsc = 0
              /\ ~ skipping
              /\ EndRound(Counted)
              /\ UNCHANGED <<cur, lastTsc, next, curTsc, skipping>>
           \/ /\ tsc # 0 => tsc < lastTsc \/ tsc >= curTsc
              /\ tsc = 0 => skipping
              /\ Invalid
           \/ /\ tsc > 0 /\ tsc >= lastTsc /\ tsc < curTsc
              /\ reg' = [NoReg EXCEPT !.tsc = tsc]
              /\ rpc' = "id"
              /\ UNCHANGED <<cur, lastTsc, corruption, next, curTsc, skipping>>
    /\ UNCHANGED out

\* ... then the id, which must be known (Messages::get) ...
ReadId ==
    /\ rpc = "id"
    /\ IF mem[cur + 1].kind = "id"
       THEN /\ reg' = [reg EXCEPT !.id = mem[cur + 1].val]
            /\ rpc' = "len"
            /\ UNCHANGED <<cur, lastTsc, corruption, next, curTsc, skipping>>
       ELSE Invalid
    /\ UNCHANGED out

\* Mutant of ReadLen: the length byte is not looked at.
ReadLenUnchecked ==
    /\ rpc = "len"
    /\ rpc' = "next"
    /\ UNCHANGED <<cur, lastTsc, corruption, next, curTsc, skipping, reg, out>>

\* ... then the length byte, which must agree with the format of that id ...
ReadLen ==
    /\ rpc = "len"
    /\ IF mem[cur + LenOf(reg.id)] = LenCell(LenOf(reg.id))
       THEN /\ rpc' = "next"
            /\ UNCHANGED <<cur, lastTsc, corruption, next, curTsc, skipping, reg>>
       ELSE Invalid
    /\ UNCHANGED out

After == cur + LenOf(reg.id) + 1

\* skip moves on without printing and without wrapping.
Skip ==
    /\ cur' = After
    /\ lastTsc' = reg.tsc
    /\ rpc' = "tsc"
    /\ reg' = NoReg
    /\ UNCHANGED <<corruption, next, curTsc, skipping>>

\* The message is valid: skip it, or dump it if it is the one chosen.  If its
\* timestamp is another one, the choice is made again.
Valid ==
    \/ skipping /\ Skip
    \/ /\ ~ skipping
       /\ reg.tsc = next
       /\ rpc' = "format"
       /\ UNCHANGED <<cur, lastTsc, corruption, next, curTsc, skipping, reg>>
    \/ /\ ~ skipping
       /\ reg.tsc # next
       /\ next' = 0
       /\ EndRound(Counted)
       /\ UNCHANGED <<cur, lastTsc, curTsc, skipping>>

\* Mutant of NextFits: a next timestamp may be lower than this one.
NextFitsLower(n) == n <= curTsc /\ n < AllOnes

\* The timestamp of the following message must not contradict this one.
NextFits(n) == n = 0 \/ (n >= reg.tsc /\ n <= curTsc /\ n < AllOnes)

\* Mutant of ReadNext: anything but zero in the trailer is corruption.
ReadNextNoTurn ==
    /\ rpc = "next"
    /\ LET n == LoadTsc(After)
       IN  \/ After < BufEnd /\ NextFits(n) /\ Valid
           \/ After < BufEnd /\ ~ NextFits(n) /\ Invalid
           \/ After >= BufEnd /\ n = 0 /\ Valid
           \/ After >= BufEnd /\ n # 0 /\ Invalid
    /\ UNCHANGED out

\* ... then the timestamp of the following message.  In the trailer it must be
\* zero, or ones if the writer turned round there: then it is at the start.
ReadNext ==
    /\ rpc = "next"
    /\ LET n == LoadTsc(After)
       IN  \/ After < BufEnd /\ NextFits(n) /\ Valid
           \/ After < BufEnd /\ ~ NextFits(n) /\ Invalid
           \/ After >= BufEnd /\ n = 0 /\ Valid
           \/ After >= BufEnd /\ n \notin {0, AllOnes} /\ Invalid
           \/ /\ After >= BufEnd /\ n = AllOnes
              /\ rpc' = "start"
              /\ UNCHANGED <<cur, lastTsc, corruption, next, curTsc, skipping, reg>>
    /\ UNCHANGED out

ReadStart ==
    /\ rpc = "start"
    /\ IF NextFits(LoadTsc(Start)) THEN Valid ELSE Invalid
    /\ UNCHANGED out

\* formatter->format reads the traced data again, word by word.
Format ==
    /\ rpc = "format"
    /\ Len(reg.words) < Words[reg.id]
    /\ reg' = [reg EXCEPT !.words = Append(@, mem[cur + 2 + Len(@)])]
    /\ UNCHANGED <<cur, lastTsc, corruption, next, curTsc, rpc, skipping, out>>

\* The line in reg says what the program traced, if its format is that of id.
Says(id) ==
    \E i \in 1 .. Len(log) :
        /\ log[i].tsc = reg.tsc
        /\ log[i].id = id
        /\ reg.words = [w \in 1 .. Words[id] |-> Word(reg.tsc)]

\* The line as the history keeps it: whether the length byte still fitted, the
\* text is the one traced, and the data behind it are.
Line(ok) == [tsc |-> reg.tsc, ok |-> ok,
             exact |-> Says(reg.id), data |-> \E id \in Id : Says(id),
             touched |-> touched, early |-> early]

\* Mutant of Dumped: behind the last message of a lap cur_ does not wrap.
DumpedNoWrap ==
    /\ rpc = "format"
    /\ Len(reg.words) = Words[reg.id]
    /\ LET ok == mem[cur + LenOf(reg.id)] = LenCell(LenOf(reg.id))
       IN  /\ out' = Append(out, Line(ok))
           /\ \/ ~ ok /\ Reset
              \/ /\ ok
                 /\ cur' = After
                 /\ lastTsc' = reg.tsc
                 /\ next' = 0
                 /\ EndRound(0)
                 /\ UNCHANGED <<curTsc, skipping>>

\* The line is out.  The length byte is read once more: if it does not fit
\* dump throws, else the reader moves on to the next message.
Dumped ==
    /\ rpc = "format"
    /\ Len(reg.words) = Words[reg.id]
    /\ LET ok == mem[cur + LenOf(reg.id)] = LenCell(LenOf(reg.id))
       IN  /\ out' = Append(out, Line(ok))
           /\ \/ ~ ok /\ Reset
              \/ /\ ok
                 /\ cur' = IF After >= BufEnd THEN Start ELSE After
                 /\ lastTsc' = reg.tsc
                 /\ next' = 0
                 /\ EndRound(0)
                 /\ UNCHANGED <<curTsc, skipping>>

Reader ==
    \/ Open \/ Poll \/ Order \/ ReadTsc \/ ReadId \/ ReadLen \/ ReadNext
    \/ ReadStart \/ Format \/ Dumped

(***************************************************************************)
(* The two processes.                                                      *)
(***************************************************************************)

\* Message i is still to be read.
Unread(i) == log[i].tsc > lastTsc

\* No unread message among the given ones lies where the next message may go.
Clear(place, msgs) ==
    \A i \in msgs : Unread(i) => log[i].at > place + LenMax + 1

\* The program, throttled in the runs that assume a reader that keeps up: it
\* begins a trace statement only where it overwrites nothing unread.
WriterStep ==
    /\ Next
    /\ KeepsUp /\ rpc # "open" /\ pc = "idle" /\ pc' # "idle" =>
           IF ptr >= BufEnd THEN Clear(Start, lapFrom + 1 .. Len(log))
                            ELSE Clear(ptr, prevFrom + 1 .. lapFrom)

\* The cells of the message being read: as many as the longest message has
\* while its id is not known.
Slot == cur .. cur + (IF rpc = "id" THEN LenMax ELSE LenOf(reg.id))

WriterNext ==
    /\ WriterStep
    /\ touched' = (touched \/ \E a \in Addr \cap Slot : mem'[a] # mem[a])
    /\ UNCHANGED <<readVars, out, early, misled>>

\* startMsg has stored the new timestamp here and not yet the new id.
HalfStarted == pc = "id" /\ msgStart = cur

\* The reader finds the message in reg valid, though the one that the program
\* traced with that timestamp is shorter.
Overshoots ==
    /\ rpc \in {"next", "start"}
    /\ rpc' \in {"tsc", "format"}
    /\ \E i \in 1 .. Len(log) : log[i].tsc = reg.tsc /\ LenOf(log[i].id) < LenOf(reg.id)

\* What the histories record of a step of the reader; early and misled only
\* where it keeps up, as only properties about that case look at them.
Noted ==
    /\ touched' = (rpc # "tsc" /\ touched)
    /\ early' = IF rpc = "id" THEN KeepsUp /\ HalfStarted ELSE rpc # "tsc" /\ early
    /\ misled' = (misled \/ (early /\ Overshoots))

ReaderNext ==
    /\ Reader
    /\ Noted
    /\ UNCHANGED vars

TailNext == WriterNext \/ ReaderNext

\* qttail never stops polling; a thread inside a trace statement goes on.
Fairness ==
    /\ WF_tailVars(ReaderNext)
    /\ WF_tailVars(pc # "idle" /\ Writer /\ WriterNext)

TailSpec == TailInit /\ [][TailNext]_tailVars /\ Fairness

(***************************************************************************)
(* Properties                                                              *)
(***************************************************************************)

\* A line that passes the last check and into whose message the program did
\* not store since the reader loaded its timestamp is what the program traced.
\* No half written message and no leftover of an older lap passes for one.
NoFalseLine ==
    \A i \in 1 .. Len(out) : out[i].ok /\ ~ out[i].touched => out[i].exact

\* Lines come out in the order of the program and none twice, also after the
\* ring was read from its start again.
LinesInOrder ==
    \A i, j \in 1 .. Len(out) : i < j /\ out[i].ok => out[i].tsc < out[j].tsc

\* Seen from outside: how many messages are traced, and how many of them lie
\* behind the reader.
Shown == IF skipping THEN -1
         ELSE Cardinality({i \in 1 .. Len(log) : ~ Unread(i)})

Promise == INSTANCE TraceLog
           WITH traced <- Len(log), shown <- Shown, astray <- misled

\* As long as the reader keeps up with the program, and the program completes
\* a message within the reader's patience, ring and reader implement the log
\* of TraceLog: no message is skipped, repeated or left unread, at the wrap and
\* in the trailer too.  Two things are excepted.  The reader may go astray when
\* it loads an old id behind a new timestamp, for startMsg stores them one
\* after the other, and a longer message of that id would end where a later
\* message ends too.  And nothing is switched off (QtctlIds is empty): see
\* HoldsItsPlace.
ImplementsLog == Promise!Spec

\* The reader is never thrown off its place, which is after a message that the
\* program completed: it never calls reset and so never passes over a message
\* that could still be read, unless an old id loaded behind a new timestamp
\* led it further than the new message.  True as long as nothing is switched
\* off: a disabled message may turn the ring round without storing a timestamp
\* at the start, and a reader that has not read the last message of the lap
\* takes the ones behind it for corruption.
HoldsItsPlace ==
    misled \/ lastTsc = 0 \/ \E i \in 1 .. Len(log) : log[i].tsc = lastTsc

\* Every line is what the program traced: the data always, and the text unless
\* the id was loaded between the two stores of startMsg.  Then the line may be
\* that of the old id, if a message of that id is as long as the new one.  Once
\* such an id was longer and led the reader beyond a message, nothing is
\* claimed any more.
LinesExact ==
    misled \/ \A i \in 1 .. Len(out) :
                  out[i].ok /\ out[i].data /\ (out[i].exact \/ out[i].early)

\* Once the program stops tracing, the reader comes to the end of the ring and
\* waits there, whatever was overwritten while it read: it never hangs on a
\* place where no message will ever be.
Recovers == <>[](NextTsc = 0)

ReaderTypeOK ==
    /\ cur \in Addr
    /\ lastTsc \in Nat /\ corruption \in Nat /\ next \in Nat
    /\ curTsc \in 0 .. AllOnes
    /\ rpc \in {"open", "poll", "order", "tsc", "id", "len", "next", "start", "format"}
    /\ skipping \in BOOLEAN
    /\ touched \in BOOLEAN /\ early \in BOOLEAN /\ misled \in BOOLEAN
    /\ reg \in [tsc : Nat, id : Id, words : Seq(Cell)]
    /\ out \in Seq([tsc : Nat, ok : BOOLEAN, exact : BOOLEAN, data : BOOLEAN,
                    touched : BOOLEAN, early : BOOLEAN])

=============================================================================
