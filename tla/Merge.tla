------------------------------- MODULE Merge -------------------------------
(***************************************************************************)
(* How qttail puts the messages of several rings, and of several files,    *)
(* into one order: Tail::nextTsc, tailBuffer and RingBuffer::dump          *)
(* (qttail.cpp 233-249, 519-541, 737-796, 843-886), under tailMany         *)
(* (1189-1237) beside programs that trace, and under catMany (1019-1083)   *)
(* on the files of programs that have stopped.                             *)
(*                                                                         *)
(* A message is its timestamp: how its bytes are stored, overwritten and   *)
(* decoded is the matter of RingTail, and readers are taken to keep up.    *)
(* One thread traces into a file, at any level.  The timestamp is not      *)
(* aligned: a reader may see it partly stored.                             *)
(***************************************************************************)
EXTENDS Integers, Sequences, FiniteSetsExt, SequencesExt

CONSTANTS
    NumLevels,    \* logCount
    Enabled,      \* levels that the options select
    TailFiles,    \* numbers of files that are tailed
    CatFiles,     \* numbers of files that are printed
    CatLevels,    \* bound: levels of the messages in these
    MaxTsc,       \* bound: values of the timestamp counter
    Torn          \* bound: what a timestamp that is partly stored can read as

Level == 0 .. NumLevels - 1
File == UNION {0 .. n - 1 : n \in TailFiles \cup CatFiles}
Tsc == 1 .. MaxTsc

ASSUME LevelsAssumption == NumLevels \in Nat \ {0} /\ Enabled \cup CatLevels \subseteq Level
ASSUME FilesAssumption == /\ IsFiniteSet(TailFiles \cup CatFiles)
                          /\ TailFiles \cup CatFiles \subseteq Nat \ {0}
                          /\ TailFiles \cup CatFiles # {}
ASSUME TscAssumption == MaxTsc \in Nat \ {0} /\ Torn \subseteq 1 .. MaxTsc + 1

VARIABLES
    clock,        \* the timestamp counter
    log,          \* log[f][l]: messages complete in a ring, oldest first
    writer,       \* the message that is under way in a file
    files,        \* nFiles_
    phase,        \* "tail"; "fill" (populateQueue), then "cat"
    pc,           \* where qttail is
    cur,          \* cur[f][l]: messages of the ring that lie behind cur_
    next,         \* next_ of a Tail
    scan,         \* the loop of nextTsc
    curTsc,       \* curTsc of tailMany
    queue,        \* fileQueue_, in the order of the map
    out           \* history: the lines printed

writerVars == <<clock, log, writer>>
vars == <<writerVars, files, phase, pc, cur, next, scan, curTsc, queue, out>>

Infinite == MaxTsc + 2    \* UINT64_MAX
NoNext == [tsc |-> Infinite, buf |-> -1]
Given == 0 .. files - 1   \* the files on the command line

Idle == [at |-> "idle", level |-> 0, tsc |-> 0, seen |-> 0]

(***************************************************************************)
(* The programs that trace.                                                *)
(***************************************************************************)

\* startMsg reads the counter before anything of the message can be seen.
TakeTsc(f) ==
    /\ phase = "tail" /\ f \in Given
    /\ writer[f].at = "idle" /\ clock < MaxTsc
    /\ clock' = clock + 1
    /\ \E l \in Level :
          writer' = [writer EXCEPT ![f] = [at |-> "taken", level |-> l,
                                           tsc |-> clock + 1, seen |-> 0]]
    /\ UNCHANGED log

\* Some bytes of the timestamp are visible, the others are still what the ring
\* held there.
StoreSome(f) ==
    /\ writer[f].at = "taken" /\ phase = "tail"
    /\ \E t \in Torn \ {writer[f].tsc} :
          writer' = [writer EXCEPT ![f].at = "torn", ![f].seen = t]
    /\ UNCHANGED <<clock, log>>

StoreTsc(f) ==
    /\ writer[f].at \in {"taken", "torn"} /\ phase = "tail"
    /\ writer' = [writer EXCEPT ![f].at = "open", ![f].seen = writer[f].tsc]
    /\ UNCHANGED <<clock, log>>

EndMsg(f) ==
    /\ writer[f].at = "open" /\ phase = "tail"
    /\ log' = [log EXCEPT ![f][writer[f].level] = Append(@, writer[f].tsc)]
    /\ writer' = [writer EXCEPT ![f] = Idle]
    /\ UNCHANGED clock

Finish(f) == StoreSome(f) \/ StoreTsc(f) \/ EndMsg(f)

Trace(f) == /\ TakeTsc(f) \/ Finish(f)
            /\ UNCHANGED <<files, phase, pc, cur, next, scan, curTsc, queue, out>>

(***************************************************************************)
(* One Tail.                                                               *)
(***************************************************************************)

\* The timestamp in a ring k messages behind cur_, 0 if there is none.
TscAt(f, l, k) ==
    IF cur[f][l] + k < Len(log[f][l]) THEN log[f][l][cur[f][l] + k + 1]
    ELSE IF cur[f][l] + k = Len(log[f][l]) /\ writer[f].level = l
         THEN writer[f].seen ELSE 0

\* RingBuffer::nextTsc
NextTsc(f, l) == TscAt(f, l, 0)

Round(f, prev) == [file |-> f, level |-> 0, min |-> NoNext, prev |-> prev]

\* nextTsc of file f begins; a choice n that was made and not consumed is kept.
Call(f, n) ==
    /\ pc' = IF n.buf >= 0 THEN "return" ELSE "scan"
    /\ scan' = Round(f, Infinite)

ScanLevel ==
    /\ pc = "scan" /\ scan.level < NumLevels
    /\ LET t == NextTsc(scan.file, scan.level)
       IN scan' = [scan EXCEPT !.level = @ + 1,
                      !.min = IF scan.level \in Enabled /\ t # 0 /\ t < @.tsc
                              THEN [tsc |-> t, buf |-> scan.level] ELSE @]
    /\ UNCHANGED <<writerVars, files, phase, pc, cur, next, curTsc, queue, out>>

\* Mutant of ScanEnd: the first round decides.
ScanEndOnce ==
    /\ pc = "scan" /\ scan.level = NumLevels
    /\ next' = [next EXCEPT ![scan.file] = scan.min]
    /\ pc' = "return"
    /\ scan' = Round(scan.file, Infinite)
    /\ UNCHANGED <<writerVars, files, phase, cur, curTsc, queue, out>>

\* Rounds go on until two of them in succession agree.
ScanEnd ==
    /\ pc = "scan" /\ scan.level = NumLevels
    /\ IF scan.min.tsc = scan.prev
       THEN /\ next' = [next EXCEPT ![scan.file] = scan.min]
            /\ pc' = "return"
            /\ scan' = Round(scan.file, Infinite)
       ELSE /\ scan' = Round(scan.file, scan.min.tsc)
            /\ UNCHANGED <<next, pc>>
    /\ UNCHANGED <<writerVars, files, phase, cur, curTsc, queue, out>>

\* RingBuffer::next: the message is complete, is not from after time now, and
\* what follows it is no timestamp, or a later one that is not from after now.
Decodes(f, l, now) ==
    /\ cur[f][l] < Len(log[f][l])
    /\ NextTsc(f, l) < now
    /\ \/ TscAt(f, l, 1) = 0
       \/ TscAt(f, l, 1) >= NextTsc(f, l) /\ TscAt(f, l, 1) <= now

Line(f, l, t) == [file |-> f, level |-> l, tsc |-> t]

\* Mutant of Consume: the choice is kept although nothing was printed.
ConsumeKeep(f, order, l) ==
    IF NextTsc(f, l) = order
    THEN /\ cur' = [cur EXCEPT ![f][l] = @ + 1]
         /\ out' = Append(out, Line(f, l, order))
         /\ next' = [next EXCEPT ![f] = NoNext]
    ELSE UNCHANGED <<cur, out, next>>

\* dump and tailBuffer: a message with another timestamp than the one that it
\* was chosen by is left alone, and chosen anew.
Consume(f, order, l) ==
    /\ IF NextTsc(f, l) = order
       THEN /\ cur' = [cur EXCEPT ![f][l] = @ + 1]
            /\ out' = Append(out, Line(f, l, order))
       ELSE UNCHANGED <<cur, out>>
    /\ next' = [next EXCEPT ![f] = NoNext]

(***************************************************************************)
(* TailControl::tailMany (tailOne does the same for one file).             *)
(***************************************************************************)
Begin ==
    /\ pc = "begin" /\ phase = "tail"
    /\ curTsc' = clock + 1
    /\ Call(0, next[0])
    /\ UNCHANGED <<writerVars, files, phase, cur, next, queue, out>>

AskNext ==
    /\ pc = "return" /\ phase = "tail"
    /\ IF scan.file + 1 < files THEN Call(scan.file + 1, next[scan.file + 1])
       ELSE pc' = "pick" /\ scan' = Round(0, Infinite)
    /\ UNCHANGED <<writerVars, files, phase, cur, next, curTsc, queue, out>>

Candidates == {f \in Given : next[f].buf >= 0}

\* The first of the files with the smallest timestamp.
MinTail ==
    CHOOSE f \in Candidates : \A g \in Candidates :
        next[f].tsc < next[g].tsc \/ (next[f].tsc = next[g].tsc /\ f <= g)

Pick ==
    /\ pc = "pick"
    /\ pc' = "begin" /\ curTsc' = 0
    /\ IF Candidates # {} /\ Decodes(MinTail, next[MinTail].buf, curTsc)
       THEN Consume(MinTail, next[MinTail].tsc, next[MinTail].buf)
       ELSE UNCHANGED <<cur, out, next>>
    /\ UNCHANGED <<writerVars, files, phase, scan, queue>>

(***************************************************************************)
(* CatControl::catMany.  QueueKey is <<tsc, fileNum>>; files without a     *)
(* message get no number, which changes nothing of the order of the rest.  *)
(***************************************************************************)
Entry(f, n) == [tsc |-> n.tsc, file |-> f, buf |-> n.buf]

\* QueueKey::operator<
Before(a, b) == a.tsc < b.tsc \/ (a.tsc = b.tsc /\ a.file < b.file)

Insert(q, e) ==
    LET k == Cardinality({i \in 1 .. Len(q) : Before(q[i], e)})
    IN SubSeq(q, 1, k) \o <<e>> \o SubSeq(q, k + 1, Len(q))

\* populateQueue
Populate ==
    /\ pc = "return" /\ phase = "fill"
    /\ LET n == next[scan.file]
       IN queue' = IF n.buf < 0 THEN queue ELSE Insert(queue, Entry(scan.file, n))
    /\ IF scan.file + 1 < files
       THEN Call(scan.file + 1, next[scan.file + 1]) /\ UNCHANGED phase
       ELSE phase' = "cat" /\ pc' = "head" /\ scan' = Round(0, Infinite)
    /\ UNCHANGED <<writerVars, files, cur, next, curTsc, out>>

\* tailBuffer on the file at the head.  A message that does not decode is tried
\* again and again, and then ends qttail.
CatDump ==
    /\ pc = "head" /\ queue # <<>>
    /\ LET h == queue[1]
       IN IF Decodes(h.file, h.buf, Infinite)
          THEN Consume(h.file, h.tsc, h.buf) /\ Call(h.file, NoNext)
          ELSE pc' = "exit" /\ UNCHANGED <<cur, out, next, scan>>
    /\ UNCHANGED <<writerVars, files, phase, curTsc, queue>>

\* Mutant of Requeue: a file keeps its place when it has another message.
RequeueInPlace ==
    /\ pc = "return" /\ phase = "cat"
    /\ LET n == next[scan.file]
       IN queue' = IF n.buf < 0 THEN Tail(queue)
                   ELSE [queue EXCEPT ![1] = Entry(scan.file, n)]
    /\ pc' = "head"
    /\ UNCHANGED <<writerVars, files, phase, cur, next, scan, curTsc, out>>

\* The rest of the loop: without another message the file leaves the queue; one
\* that is later than that of the following file is queued again; otherwise the
\* key at the head is changed in place.
Requeue ==
    /\ pc = "return" /\ phase = "cat"
    /\ LET n == next[scan.file]
           e == Entry(scan.file, n)
       IN queue' =
            IF n.buf < 0 THEN Tail(queue)
            ELSE IF Len(queue) > 1 /\ next[queue[2].file].tsc < n.tsc
                 THEN Insert(Tail(queue), e)
                 ELSE [queue EXCEPT ![1] = e]
    /\ pc' = "head"
    /\ UNCHANGED <<writerVars, files, phase, cur, next, scan, curTsc, out>>

CatEnd ==
    /\ pc = "head" /\ queue = <<>>
    /\ pc' = "done"
    /\ UNCHANGED <<writerVars, files, phase, cur, next, scan, curTsc, queue, out>>

(***************************************************************************)
(* The specification.                                                      *)
(***************************************************************************)

\* What a program that has stopped left in the rings of its file: messages at
\* some times, each at some level, and after them perhaps an incomplete one.
Increasing ==
    {s \in UNION {[1 .. n -> Tsc] : n \in 0 .. MaxTsc} :
        \A i, j \in DOMAIN s : i < j => s[i] < s[j]}

Broken == {[at |-> "open", level |-> l, tsc |-> t, seen |-> t] : l \in CatLevels, t \in Tsc}

Left ==
    {c \in [log : [Level -> Increasing], writer : {Idle} \cup Broken] :
        \A l \in Level :
            /\ l \notin CatLevels => c.log[l] = <<>>
            /\ \A t \in Range(c.log[l]) :
                  /\ \A k \in Level \ {l} : t \notin Range(c.log[k])
                  /\ c.writer # Idle => t < c.writer.tsc}

TailInit ==
    /\ phase = "tail" /\ files \in TailFiles
    /\ pc = "begin"
    /\ log = [f \in File |-> [l \in Level |-> <<>>]]
    /\ writer = [f \in File |-> Idle]

CatInit ==
    /\ phase = "fill" /\ files \in CatFiles
    /\ pc = "scan"
    /\ \E c \in [Given -> Left] :
          /\ log = [f \in File |-> IF f \in Given THEN c[f].log
                                   ELSE [l \in Level |-> <<>>]]
          /\ writer = [f \in File |-> IF f \in Given THEN c[f].writer ELSE Idle]

Init ==
    /\ TailInit \/ CatInit
    /\ clock = 0
    /\ cur = [f \in File |-> [l \in Level |-> 0]]
    /\ next = [f \in File |-> NoNext]
    /\ scan = Round(0, Infinite)
    /\ curTsc = 0
    /\ queue = <<>>
    /\ out = <<>>

QtTail == \/ ScanLevel \/ ScanEnd
          \/ Begin \/ AskNext \/ Pick
          \/ Populate \/ CatDump \/ Requeue \/ CatEnd

Next == QtTail \/ \E f \in File : Trace(f)

\* qttail goes on, and a message that was begun is ended; that a program traces
\* is not assumed.
Spec ==
    /\ Init /\ [][Next]_vars
    /\ WF_vars(QtTail)
    /\ \A f \in File : WF_vars((StoreTsc(f) \/ EndMsg(f))
                               /\ UNCHANGED <<files, phase, pc, cur, next, scan,
                                              curTsc, queue, out>>)

(***************************************************************************)
(* Properties                                                              *)
(***************************************************************************)

\* The messages that are complete at the levels selected.
Complete == {m \in [file : Given, level : Enabled, tsc : Tsc] :
                m.tsc \in Range(log[m.file][m.level])}

\* The lines of one file come in the order in which they were traced, at
\* whatever levels, none twice and none left out: before a line is printed
\* everything older in the file has been.  nextTsc looks at one ring after
\* the other while the program goes on tracing into them.
LevelsInOrder ==
    \A i \in 1 .. Len(out) :
        /\ out[i].level \in Enabled
        /\ \A m \in Complete :
              m.file = out[i].file /\ m.tsc < out[i].tsc
                 => m \in Range(SubSeq(out, 1, i - 1))
        /\ \A j \in 1 .. i - 1 : out[j] # out[i]

\* qtcat prints all files as one, by time.  It ends when every complete message
\* has been printed, or gives up at a message that does not decode; then what
\* is older has been printed, in all the files.
CatSorted ==
    phase # "tail" =>
        /\ \A i, j \in 1 .. Len(out) : i < j => out[i].tsc <= out[j].tsc
        /\ pc = "done" => Complete = Range(out)
        /\ pc = "exit" => {m \in Complete : m.tsc < queue[1].tsc} \subseteq Range(out)

\* qttail catches up with the programs again and again, although it has to choose
\* among rings in which timestamps are being stored; and qtcat comes to an end.
Shown == []<> IF phase = "tail" THEN Complete \subseteq Range(out)
                                ELSE pc \in {"done", "exit"}

At == {"idle", "taken", "torn", "open"}
Choice == [tsc : Nat, buf : Enabled \cup {-1}]
Entries == [tsc : Nat, file : Given, buf : Enabled]
Lines == [file : Given, level : Enabled, tsc : Tsc]

MergeTypes ==
    /\ clock \in Nat
    /\ log \in [File -> [Level -> Seq(Tsc)]]
    /\ writer \in [File -> [at : At, level : Level, tsc : Nat, seen : Nat]]
    /\ files \in TailFiles \cup CatFiles
    /\ phase \in {"tail", "fill", "cat"}
    /\ cur \in [File -> [Level -> Nat]]
    /\ next \in [File -> Choice]
    /\ scan \in [file : Given, level : 0 .. NumLevels, min : Choice, prev : Nat]
    /\ queue \in Seq(Entries)
    /\ out \in Seq(Lines)

=============================================================================
