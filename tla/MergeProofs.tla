---------------------------- MODULE MergeProofs ----------------------------
(***************************************************************************)
(* Proofs about Merge: the lines of a file come in the order in which they *)
(* were traced, none twice and none left out, for any number of rings and  *)
(* of files, and whatever a timestamp that is stored in part reads as.     *)
(***************************************************************************)
EXTENDS Merge, TLAPS, FiniteSetTheorems, WellFoundedInduction

(***************************************************************************)
(* Why nextTsc finds the oldest message although the rings change while it *)
(* looks: the invariant that makes LevelsInOrder inductive.                *)
(***************************************************************************)

\* One thread traces into a file, so what it has under way is newer than all
\* that the rings hold, and each ring holds its messages by time.
Growing == \A f \in File : \A l \in Level :
    LET ring == log[f][l]
    IN /\ cur[f][l] <= Len(ring)
       /\ \A i, j \in 1 .. Len(ring) : i < j => ring[i] < ring[j]
       /\ \A i \in 1 .. Len(ring) : /\ phase = "tail" => ring[i] <= clock
                                    /\ writer[f].at # "idle" => ring[i] < writer[f].tsc

Writing == \A f \in File :
    LET w == writer[f]
    IN /\ phase = "tail" => w.tsc <= clock
       /\ phase # "tail" => w.at \in {"idle", "open"}
       /\ w.at \in {"idle", "taken"} => w.seen = 0
       /\ w.at = "open" => w.seen = w.tsc
       /\ w.at = "torn" => w.seen # 0 /\ w.seen # w.tsc
       /\ w.at # "idle" => w.tsc \in Tsc

\* No message that is older than t will be added to the rings of file f.
Settled(f, t) ==
    /\ phase = "tail" => t <= clock
    /\ writer[f].at # "idle" => writer[f].tsc >= t

\* No message that is older than t waits below level n.
NoOlder(f, t, n) == \A l \in Enabled : l < n =>
    \A i \in cur[f][l] + 1 .. Len(log[f][l]) : log[f][l][i] >= t

Clean(f, t) == Settled(f, t) /\ NoOlder(f, t, NumLevels)

\* A message older than t waits at level n or above, where NextTsc sees it.
OlderWaits(f, t, n) == \E l \in Enabled :
    /\ l >= n
    /\ \/ cur[f][l] < Len(log[f][l]) /\ log[f][l][cur[f][l] + 1] < t
       \/ /\ cur[f][l] = Len(log[f][l])
          /\ writer[f].at = "open" /\ writer[f].level = l /\ writer[f].tsc < t

\* t is what a message that is older reads as, at level n or above.
TornAs(f, t, n) ==
    LET w == writer[f]
    IN /\ w.at = "torn" /\ w.seen = t /\ w.tsc < t
       /\ w.level \in Enabled /\ w.level >= n
       /\ cur[f][w.level] = Len(log[f][w.level])

\* The message that waits where n was found has another time than n.
Misread(f, n) ==
    /\ phase = "tail" /\ n.buf \in Level
    /\ \/ /\ cur[f][n.buf] < Len(log[f][n.buf])
          /\ log[f][n.buf][cur[f][n.buf] + 1] # n.tsc
       \/ /\ cur[f][n.buf] = Len(log[f][n.buf])
          /\ writer[f].at # "idle" /\ writer[f].level = n.buf /\ writer[f].tsc # n.tsc

\* A choice is that of the oldest message, unless it will not be printed.
Chosen == \A f \in File :
    next[f].buf # -1 => Misread(f, next[f]) \/ Clean(f, next[f].tsc)

\* What NextTsc has read: after it nothing older comes, or something older waits.
Known(f, t) == Settled(f, t) \/ OlderWaits(f, t, 0) \/ TornAs(f, t, 0)

\* What a round that has found m below level n knows of p, which the round before
\* found: m is older; or nothing older than p comes or waits below level n; or the
\* round will find what is older, or another time where p was stored in part; or
\* it found p too, but what waits there is another message.
Compared(f, m, p, n) ==
    \/ m.tsc < p
    \/ Settled(f, p) /\ NoOlder(f, p, n)
    \/ OlderWaits(f, p, n)
    \/ m.tsc > p /\ TornAs(f, p, n)
    \/ m.tsc = p /\ Misread(f, m)

Rounds ==
    pc = "scan" =>
        LET f == scan.file
            m == scan.min
        IN /\ next[f].buf = -1
           /\ m.buf = -1 => m = NoNext
           /\ m.buf # -1 => 0 < m.tsc /\ m.tsc < Infinite /\ Known(f, m.tsc)
           /\ scan.prev # Infinite => Compared(f, m, scan.prev, scan.level)

Queued == /\ phase = "tail" => queue = <<>>
          /\ phase = "cat" /\ pc \in {"scan", "return"} => queue # <<>>
          /\ \A i \in 1 .. Len(queue) : Clean(queue[i].file, queue[i].tsc)

\* What lies behind cur_ has been printed, and nothing else.
Behind ==
    /\ \A i \in 1 .. Len(out) :
          \E k \in 1 .. cur[out[i].file][out[i].level] :
              log[out[i].file][out[i].level][k] = out[i].tsc
    /\ \A f \in Given : \A l \in Enabled : \A k \in 1 .. cur[f][l] :
          Line(f, l, log[f][l][k]) \in Range(out)

MergeIInv == /\ MergeTypes /\ Growing /\ Writing /\ Chosen /\ Rounds
             /\ Queued /\ Behind /\ LevelsInOrder

(***************************************************************************)
(* Why qtcat prints all files as one: the invariant that makes CatSorted   *)
(* inductive.  The programs have stopped, so what a round found is so.     *)
(***************************************************************************)

\* All messages of a file that are complete lie behind cur_.
Empty(f) == \A l \in Enabled : cur[f][l] = Len(log[f][l])

\* n is what nextTsc has to find in file f.
Found(f, n) == IF n.buf = -1 THEN Empty(f) ELSE NextTsc(f, n.buf) = n.tsc /\ n.tsc > 0

\* A round has found the smallest timestamp of the levels it looked at.
Looked == phase # "tail" /\ pc = "scan" =>
    LET f == scan.file
        m == scan.min
    IN /\ m.buf # -1 => NextTsc(f, m.buf) = m.tsc
       /\ \A l \in Enabled : l < scan.level => \/ NextTsc(f, l) = 0
                                               \/ NextTsc(f, l) >= m.tsc

\* The queue has one message of a file, the smallest first, and nothing printed
\* is later.
InOrder == phase # "tail" =>
    /\ \A i, j \in 1 .. Len(queue) : i < j => /\ queue[i].tsc <= queue[j].tsc
                                              /\ queue[i].file # queue[j].file
    /\ \A i \in 1 .. Len(out), j \in 1 .. Len(queue) : out[i].tsc <= queue[j].tsc
    /\ \A i, j \in 1 .. Len(out) : i < j => out[i].tsc <= out[j].tsc

\* It is the choice made in that file, but that of the file that is being asked,
\* which is the one at the head, or the next that populateQueue will queue.
Keyed == phase # "tail" =>
    /\ \A i \in 1 .. Len(queue) :
          \/ queue[i] = Entry(queue[i].file, next[queue[i].file])
          \/ phase = "cat" /\ pc \in {"scan", "return"} /\ i = 1
    /\ phase = "cat" => pc \in {"head", "scan", "return", "exit", "done"}
    /\ phase = "cat" /\ pc \in {"scan", "return"} => scan.file = queue[1].file
    /\ pc = "done" => queue = <<>>
    /\ pc = "return" => Found(scan.file, next[scan.file])
    /\ phase = "fill" =>
          /\ pc \in {"scan", "return"} /\ out = <<>>
          /\ \A i \in 1 .. Len(queue) : queue[i].file < scan.file
          /\ \A f \in Given : f > scan.file => next[f] = NoNext

\* No file with a message is forgotten.
Covered == phase # "tail" =>
    \A f \in Given : \/ Empty(f)
                     \/ \E i \in 1 .. Len(queue) : queue[i].file = f
                     \/ phase = "fill" /\ scan.file <= f

CatIInv == Looked /\ InOrder /\ Keyed /\ Covered /\ CatSorted


(***************************************************************************)
(* What the types give                                                     *)
(***************************************************************************)

\* The numbers of levels and files are small integers.
LEMMA Numbers ==
    /\ NumLevels \in Nat \ {0} /\ MaxTsc \in Nat \ {0}
    /\ Level \subseteq Nat /\ Enabled \subseteq Level /\ CatLevels \subseteq Level
    /\ \A l \in Level : l < NumLevels /\ l >= 0 /\ l # -1
    /\ Tsc \subseteq Nat \ {0} /\ \A t \in Tsc : t <= MaxTsc
    /\ File \subseteq Nat /\ Infinite = MaxTsc + 2 /\ Infinite \in Nat
    /\ \A t \in Torn : t \in Nat /\ 0 < t /\ t < Infinite
BY LevelsAssumption, FilesAssumption, TscAssumption DEF Level, Tsc, File, Infinite

\* The files on the command line are files, and there is one at least.
LEMMA GivenFiles ==
    ASSUME files \in TailFiles \cup CatFiles
    PROVE  Given \subseteq File /\ 0 \in Given /\ files \in Nat \ {0}
BY FilesAssumption DEF Given, File

\* A level, or none.
LEMMA BufIs == \A b \in Enabled \cup {-1} : /\ b \in Int
                                            /\ b # -1 <=> b >= 0
                                            /\ b # -1 <=> ~ b < 0
                                            /\ b # -1 => b \in Enabled
BY Numbers

\* The state of a file and of its rings.
LEMMA FileHas ==
    ASSUME MergeTypes, NEW f \in File
    PROVE  /\ writer[f] \in [at : At, level : Level, tsc : Nat, seen : Nat]
           /\ writer[f].at \in At /\ writer[f].level \in Level
           /\ writer[f].tsc \in Nat /\ writer[f].seen \in Nat
           /\ next[f] \in Choice
           /\ next[f].tsc \in Nat /\ next[f].buf \in Enabled \cup {-1}
           /\ \A l \in Level : /\ log[f][l] \in Seq(Tsc) /\ Len(log[f][l]) \in Nat
                               /\ cur[f][l] \in Nat
                               /\ \A i \in 1 .. Len(log[f][l]) : /\ log[f][l][i] \in Tsc
                                                                 /\ log[f][l][i] \in Nat
<1>1. /\ writer[f] \in [at : At, level : Level, tsc : Nat, seen : Nat]
      /\ next[f] \in Choice
      /\ log[f] \in [Level -> Seq(Tsc)] /\ cur[f] \in [Level -> Nat]
  BY DEF MergeTypes
<1>3. next[f].tsc \in Nat /\ next[f].buf \in Enabled \cup {-1}
  BY <1>1 DEF Choice
<1>2. ASSUME NEW l \in Level
      PROVE  /\ log[f][l] \in Seq(Tsc) /\ Len(log[f][l]) \in Nat
             /\ cur[f][l] \in Nat
             /\ \A i \in 1 .. Len(log[f][l]) : log[f][l][i] \in Tsc
  BY <1>1
<1> QED BY <1>1, <1>2, <1>3, Numbers

\* The round that is under way.
LEMMA ScanHas ==
    ASSUME MergeTypes
    PROVE  /\ scan.file \in Given /\ scan.file \in File /\ scan.level \in 0 .. NumLevels
           /\ scan.level \in Nat /\ scan.min \in Choice /\ scan.min.tsc \in Nat
           /\ scan.min.buf \in Enabled \cup {-1} /\ scan.prev \in Nat
<1>1. /\ scan.file \in Given /\ scan.level \in 0 .. NumLevels /\ scan.min \in Choice
      /\ scan.prev \in Nat /\ files \in TailFiles \cup CatFiles
  BY DEF MergeTypes
<1>2. scan.min.tsc \in Nat /\ scan.min.buf \in Enabled \cup {-1}
  BY <1>1 DEF Choice
<1> QED BY <1>1, <1>2, GivenFiles, Numbers

\* The files that are queued.
LEMMA QueueHas ==
    ASSUME MergeTypes, NEW i \in 1 .. Len(queue)
    PROVE  /\ queue[i] \in Entries /\ queue[i].file \in Given /\ queue[i].file \in File
           /\ queue[i].tsc \in Nat /\ queue[i].buf \in Enabled
<1>1. queue[i] \in Entries /\ files \in TailFiles \cup CatFiles
  BY DEF MergeTypes
<1>2. queue[i].file \in Given /\ queue[i].tsc \in Nat /\ queue[i].buf \in Enabled
  BY <1>1 DEF Entries
<1> QED BY <1>1, <1>2, GivenFiles

\* The lines that were printed.
LEMMA OutHas ==
    ASSUME MergeTypes, NEW i \in 1 .. Len(out)
    PROVE  /\ out[i] \in Lines /\ out[i].file \in Given /\ out[i].file \in File
           /\ out[i].tsc \in Tsc /\ out[i].level \in Enabled /\ out[i].level \in Level
           /\ out[i] = Line(out[i].file, out[i].level, out[i].tsc)
<1>1. out[i] \in Lines /\ files \in TailFiles \cup CatFiles
  BY DEF MergeTypes
<1>2. /\ out[i].file \in Given /\ out[i].level \in Enabled /\ out[i].tsc \in Tsc
      /\ out[i] = Line(out[i].file, out[i].level, out[i].tsc)
  BY <1>1 DEF Lines, Line
<1> QED BY <1>1, <1>2, GivenFiles, Numbers

\* A program whose message is not one of those is at one of these.
LEMMA Idles == /\ Idle.at = "idle" /\ Idle.level = 0 /\ Idle.tsc = 0 /\ Idle.seen = 0
               /\ Idle \in [at : At, level : Level, tsc : Nat, seen : Nat]
BY LevelsAssumption DEF Idle, At, Level

\* What is not chosen.
LEMMA NoChoice == /\ NoNext.tsc = Infinite /\ NoNext.buf = -1
                  /\ NoNext \in Choice
BY Numbers DEF NoNext, Choice

(***************************************************************************)
(* A program traces                                                        *)
(***************************************************************************)

qtVars == <<files, phase, pc, cur, next, scan, curTsc, queue, out>>

\* What a step of a program leaves of file f: nothing older than t comes up, what
\* waits goes on waiting, and what was misread will not be printed.
Kept(f) ==
    /\ \A t \in Nat : Settled(f, t) => Settled(f, t)'
    /\ \A t, n \in Nat : Settled(f, t) /\ NoOlder(f, t, n) => NoOlder(f, t, n)'
    /\ \A t, n \in Nat : OlderWaits(f, t, n) => OlderWaits(f, t, n)'
    /\ \A t, n \in Nat : TornAs(f, t, n) => TornAs(f, t, n)' \/ OlderWaits(f, t, n)'
    /\ \A n \in Choice : Misread(f, n) => Misread(f, n)'

\* How the rings of file f grow in a step: by the message that was under way.
Grows(f) == \A l \in Level :
    /\ Len(log'[f][l]) >= Len(log[f][l])
    /\ \A i \in 1 .. Len(log[f][l]) : log'[f][l][i] = log[f][l][i]
    /\ \A i \in Len(log[f][l]) + 1 .. Len(log'[f][l]) :
          writer[f].at # "idle" /\ log'[f][l][i] = writer[f].tsc

Sound == MergeTypes /\ Growing /\ Writing

\* A file in which nothing happens.
LEMMA OtherFile ==
    ASSUME Sound, NEW f \in File, UNCHANGED qtVars,
           writer'[f] = writer[f], log'[f] = log[f], clock' \in Nat, clock <= clock'
    PROVE  Kept(f) /\ Grows(f)
<1>1. clock \in Nat /\ cur' = cur /\ phase' = phase
  BY DEF Sound, MergeTypes, qtVars
<1>2. \A t \in Nat : Settled(f, t) => Settled(f, t)'
  BY <1>1 DEF Settled
<1>3. \A t, n \in Nat : NoOlder(f, t, n) => NoOlder(f, t, n)'
  BY <1>1 DEF NoOlder
<1>4. \A t, n \in Nat : OlderWaits(f, t, n) => OlderWaits(f, t, n)'
  BY <1>1 DEF OlderWaits
<1>5. \A t, n \in Nat : TornAs(f, t, n) => TornAs(f, t, n)'
  BY <1>1 DEF TornAs
<1>6. \A n : Misread(f, n) => Misread(f, n)'
  BY <1>1 DEF Misread
<1>7. Grows(f)
  BY FileHas DEF Grows, Sound
<1> QED BY <1>2, <1>3, <1>4, <1>5, <1>6, <1>7 DEF Kept

\* A message gets its timestamp: it is later than all there is.
LEMMA TakeTscKeeps ==
    ASSUME Sound, NEW g \in File, TakeTsc(g), UNCHANGED qtVars
    PROVE  Sound' /\ \A f \in File : Kept(f) /\ Grows(f)
<1>0. /\ MergeTypes /\ phase = "tail" /\ writer[g].at = "idle" /\ clock' = clock + 1
      /\ clock < MaxTsc /\ log' = log /\ cur' = cur /\ phase' = phase /\ clock \in Nat
      /\ clock' \in Nat /\ clock' \in Tsc
  BY TscAssumption DEF Sound, TakeTsc, qtVars, MergeTypes, Tsc
<1>1. PICK l \in Level : writer' = [writer EXCEPT ![g] = [at |-> "taken", level |-> l,
                                                        tsc |-> clock + 1, seen |-> 0]]
  BY DEF TakeTsc
<1>2. /\ writer'[g] = [at |-> "taken", level |-> l, tsc |-> clock + 1, seen |-> 0]
      /\ \A f \in File \ {g} : writer'[f] = writer[f]
      /\ writer' \in [File -> [at : At, level : Level, tsc : Nat, seen : Nat]]
  BY <1>0, <1>1 DEF MergeTypes, At
<1>3. MergeTypes'
  BY <1>0, <1>2 DEF MergeTypes, qtVars, Given, Entries, Lines
<1>4. Writing'
  <2>1. ASSUME NEW f \in File \ {g} PROVE writer[f].tsc \in Nat /\ writer'[f] = writer[f]
    BY <1>0, <1>2, FileHas
  <2> QED BY <1>0, <1>2, <2>1 DEF Sound, Writing
<1>5. Growing'
  <2>1. ASSUME NEW f \in File, NEW k \in Level
        PROVE  \A i \in 1 .. Len(log[f][k]) : log[f][k][i] \in Nat /\ log[f][k][i] <= clock
    BY <1>0, FileHas DEF Sound, Growing
  <2>2. ASSUME NEW f \in File, NEW k \in Level
        PROVE  /\ cur'[f][k] <= Len(log'[f][k])
               /\ \A i, j \in 1 .. Len(log'[f][k]) : i < j => log'[f][k][i] < log'[f][k][j]
               /\ \A i \in 1 .. Len(log'[f][k]) :
                     /\ log'[f][k][i] <= clock'
                     /\ writer'[f].at # "idle" => log'[f][k][i] < writer'[f].tsc
    <3>1. cur'[f][k] = cur[f][k] /\ log'[f][k] = log[f][k]
      BY <1>0
    <3>2. \A i \in 1 .. Len(log[f][k]) : log[f][k][i] <= clock'
      BY <1>0, <2>1
    <3>3. ASSUME writer'[f].at # "idle", NEW i \in 1 .. Len(log[f][k])
          PROVE  log[f][k][i] < writer'[f].tsc
      <4>1. CASE f = g
        BY <1>0, <1>2, <2>1, <4>1
      <4>2. CASE f # g
        BY <1>2, <3>3, <4>2 DEF Sound, Growing
      <4> QED BY <4>1, <4>2
    <3>4. /\ cur[f][k] <= Len(log[f][k])
          /\ \A i, j \in 1 .. Len(log[f][k]) : i < j => log[f][k][i] < log[f][k][j]
      BY DEF Sound, Growing
    <3> QED BY <3>1, <3>2, <3>3, <3>4
  <2> QED BY <2>2 DEF Growing
<1>6. Kept(g)
  <2>1. \A t \in Nat : Settled(g, t) => Settled(g, t)'
    BY <1>0, <1>2 DEF Settled
  <2>2. \A t, n \in Nat : NoOlder(g, t, n) => NoOlder(g, t, n)'
    BY <1>0 DEF NoOlder
  <2>3. \A t, n \in Nat : OlderWaits(g, t, n) => OlderWaits(g, t, n)'
    BY <1>0 DEF OlderWaits
  <2>4. \A t, n \in Nat : ~ TornAs(g, t, n)
    BY <1>0 DEF TornAs
  <2>5. \A n : Misread(g, n) => Misread(g, n)'
    BY <1>0 DEF Misread
  <2> QED BY <2>1, <2>2, <2>3, <2>4, <2>5 DEF Kept
<1>7. Grows(g)
  BY <1>0, FileHas DEF Grows
<1>8. ASSUME NEW f \in File \ {g} PROVE Kept(f) /\ Grows(f)
  BY <1>0, <1>2, OtherFile
<1> QED BY <1>3, <1>4, <1>5, <1>6, <1>7, <1>8 DEF Sound

\* Bytes of a timestamp are stored: what NextTsc reads is that of no message yet.
LEMMA StoreSomeKeeps ==
    ASSUME Sound, NEW g \in File, StoreSome(g), UNCHANGED qtVars
    PROVE  Sound' /\ \A f \in File : Kept(f) /\ Grows(f)
<1>0. /\ MergeTypes /\ phase = "tail" /\ writer[g].at = "taken" /\ clock' = clock
      /\ log' = log /\ cur' = cur /\ phase' = phase /\ clock \in Nat
  BY DEF Sound, StoreSome, qtVars, MergeTypes
<1>1. PICK t \in Torn \ {writer[g].tsc} :
          writer' = [writer EXCEPT ![g].at = "torn", ![g].seen = t]
  BY DEF StoreSome
<1>2. /\ writer'[g].at = "torn" /\ writer'[g].level = writer[g].level
      /\ writer'[g].tsc = writer[g].tsc /\ writer'[g].seen = t
      /\ writer'[g] \in [at : At, level : Level, tsc : Nat, seen : Nat]
      /\ \A f \in File \ {g} : writer'[f] = writer[f]
      /\ writer' \in [File -> [at : At, level : Level, tsc : Nat, seen : Nat]]
  <2>1. writer \in [File -> [at : At, level : Level, tsc : Nat, seen : Nat]]
    BY <1>0 DEF MergeTypes
  <2>2. t \in Nat /\ "torn" \in At
    BY Numbers DEF At
  <2>3. /\ writer'[g] = [writer[g] EXCEPT !.at = "torn", !.seen = t]
        /\ \A f \in File \ {g} : writer'[f] = writer[f]
        /\ writer' = [f \in File |-> IF f = g THEN [writer[g] EXCEPT !.at = "torn", !.seen = t]
                                     ELSE writer[f]]
    BY <1>1, <2>1
  <2>4. writer[g] \in [at : At, level : Level, tsc : Nat, seen : Nat]
    BY <2>1
  <2> QED BY <2>1, <2>2, <2>3, <2>4
<1>3. MergeTypes'
  BY <1>0, <1>2 DEF MergeTypes, qtVars, Given, Entries, Lines
<1>4. Writing'
  BY <1>0, <1>1, <1>2, Numbers DEF Sound, Writing
<1>5. Growing'
  BY <1>0, <1>2 DEF Sound, Growing
<1>6. Kept(g)
  <2>1. \A u \in Nat : Settled(g, u) => Settled(g, u)'
    BY <1>0, <1>2 DEF Settled
  <2>2. \A u, n \in Nat : NoOlder(g, u, n) => NoOlder(g, u, n)'
    BY <1>0 DEF NoOlder
  <2>3. \A u, n \in Nat : OlderWaits(g, u, n) => OlderWaits(g, u, n)'
    BY <1>0 DEF OlderWaits
  <2>4. \A u, n \in Nat : ~ TornAs(g, u, n)
    BY <1>0 DEF TornAs
  <2>5. \A n : Misread(g, n) => Misread(g, n)'
    BY <1>0, <1>2 DEF Misread
  <2> QED BY <2>1, <2>2, <2>3, <2>4, <2>5 DEF Kept
<1>7. Grows(g)
  BY <1>0, FileHas DEF Grows
<1>8. ASSUME NEW f \in File \ {g} PROVE Kept(f) /\ Grows(f)
  BY <1>0, <1>2, OtherFile
<1> QED BY <1>3, <1>4, <1>5, <1>6, <1>7, <1>8 DEF Sound

\* The timestamp is stored: a message that was misread is now an older one.
LEMMA StoreTscKeeps ==
    ASSUME Sound, NEW g \in File, StoreTsc(g), UNCHANGED qtVars
    PROVE  Sound' /\ \A f \in File : Kept(f) /\ Grows(f)
<1>0. /\ MergeTypes /\ phase = "tail" /\ writer[g].at \in {"taken", "torn"} /\ clock' = clock
      /\ log' = log /\ cur' = cur /\ phase' = phase /\ clock \in Nat
      /\ writer' = [writer EXCEPT ![g].at = "open", ![g].seen = writer[g].tsc]
  BY DEF Sound, StoreTsc, qtVars, MergeTypes
<1>2. /\ writer'[g].at = "open" /\ writer'[g].level = writer[g].level
      /\ writer'[g].tsc = writer[g].tsc /\ writer'[g].seen = writer[g].tsc
      /\ \A f \in File \ {g} : writer'[f] = writer[f]
      /\ writer' \in [File -> [at : At, level : Level, tsc : Nat, seen : Nat]]
  <2>1. writer \in [File -> [at : At, level : Level, tsc : Nat, seen : Nat]]
    BY <1>0 DEF MergeTypes
  <2>2. writer[g].tsc \in Nat /\ "open" \in At
    BY <2>1 DEF At
  <2>3. /\ writer'[g] = [writer[g] EXCEPT !.at = "open", !.seen = writer[g].tsc]
        /\ \A f \in File \ {g} : writer'[f] = writer[f]
        /\ writer' = [f \in File |-> IF f = g
                                     THEN [writer[g] EXCEPT !.at = "open", !.seen = writer[g].tsc]
                                     ELSE writer[f]]
    BY <1>0, <2>1
  <2>4. writer[g] \in [at : At, level : Level, tsc : Nat, seen : Nat]
    BY <2>1
  <2> QED BY <2>1, <2>2, <2>3, <2>4
<1>3. MergeTypes'
  BY <1>0, <1>2 DEF MergeTypes, qtVars, Given, Entries, Lines
<1>4. Writing'
  BY <1>0, <1>2 DEF Sound, Writing
<1>5. Growing'
  BY <1>0, <1>2 DEF Sound, Growing
<1>6. Kept(g)
  <2>1. \A u \in Nat : Settled(g, u) => Settled(g, u)'
    BY <1>0, <1>2 DEF Settled
  <2>2. \A u, n \in Nat : NoOlder(g, u, n) => NoOlder(g, u, n)'
    BY <1>0 DEF NoOlder
  <2>3. \A u, n \in Nat : OlderWaits(g, u, n) => OlderWaits(g, u, n)'
    BY <1>0 DEF OlderWaits
  <2>4. \A u, n \in Nat : TornAs(g, u, n) => OlderWaits(g, u, n)'
    BY <1>0, <1>2 DEF TornAs, OlderWaits
  <2>5. \A n : Misread(g, n) => Misread(g, n)'
    BY <1>0, <1>2 DEF Misread
  <2> QED BY <2>1, <2>2, <2>3, <2>4, <2>5 DEF Kept
<1>7. Grows(g)
  BY <1>0, FileHas DEF Grows
<1>8. ASSUME NEW f \in File \ {g} PROVE Kept(f) /\ Grows(f)
  BY <1>0, <1>2, OtherFile
<1> QED BY <1>3, <1>4, <1>5, <1>6, <1>7, <1>8 DEF Sound

\* The message is complete: it waits where it was seen to be written.
LEMMA EndMsgKeeps ==
    ASSUME Sound, NEW g \in File, EndMsg(g), UNCHANGED qtVars
    PROVE  Sound' /\ \A f \in File : Kept(f) /\ Grows(f)
<1> DEFINE w == writer[g]
           k == writer[g].level
<1>0. /\ MergeTypes /\ phase = "tail" /\ w.at = "open" /\ clock' = clock
      /\ cur' = cur /\ phase' = phase /\ clock \in Nat
      /\ log' = [log EXCEPT ![g][k] = Append(@, w.tsc)]
      /\ writer' = [writer EXCEPT ![g] = Idle]
      /\ k \in Level /\ w.tsc \in Tsc /\ w.tsc \in Nat /\ w.tsc <= clock
  BY FileHas DEF Sound, EndMsg, qtVars, MergeTypes, Writing
<1>1. /\ writer'[g] = Idle /\ \A f \in File \ {g} : writer'[f] = writer[f]
      /\ writer' \in [File -> [at : At, level : Level, tsc : Nat, seen : Nat]]
  BY <1>0, Idles DEF MergeTypes
<1>2. /\ log' \in [File -> [Level -> Seq(Tsc)]]
      /\ \A f \in File \ {g} : log'[f] = log[f]
      /\ \A l \in Level \ {k} : log'[g][l] = log[g][l]
      /\ log'[g][k] = Append(log[g][k], w.tsc)
  BY <1>0 DEF MergeTypes
<1>3. /\ Len(log[g][k]) \in Nat /\ Len(log'[g][k]) = Len(log[g][k]) + 1
      /\ \A i \in 1 .. Len(log[g][k]) : log'[g][k][i] = log[g][k][i] /\ log[g][k][i] \in Nat
      /\ log'[g][k][Len(log[g][k]) + 1] = w.tsc
      /\ cur[g][k] \in Nat /\ cur[g][k] <= Len(log[g][k])
  BY <1>0, <1>2, FileHas DEF Sound, Growing
<1> HIDE DEF w, k
<1>4. MergeTypes'
  BY <1>0, <1>1, <1>2 DEF MergeTypes, qtVars, Given, Entries, Lines
<1>5. Writing'
  <2>1. ASSUME NEW f \in File \ {g} PROVE writer'[f] = writer[f]
    BY <1>1
  <2> QED BY <1>0, <1>1, <2>1, Idles DEF Sound, Writing
<1>6. Growing'
  <2>1. \A i \in 1 .. Len(log[g][k]) : log[g][k][i] < w.tsc
    BY <1>0 DEF Sound, Growing, w
  <2>2. ASSUME NEW f \in File, NEW l \in Level
        PROVE  /\ cur'[f][l] <= Len(log'[f][l])
               /\ \A i, j \in 1 .. Len(log'[f][l]) : i < j => log'[f][l][i] < log'[f][l][j]
               /\ \A i \in 1 .. Len(log'[f][l]) :
                     /\ log'[f][l][i] <= clock
                     /\ writer'[f].at # "idle" => log'[f][l][i] < writer'[f].tsc
    <3>1. CASE f # g
      BY <1>0, <1>1, <1>2, <3>1 DEF Sound, Growing
    <3>2. CASE f = g /\ l # k
      BY <1>0, <1>1, <1>2, <3>2, Idles DEF Sound, Growing
    <3>3. CASE f = g /\ l = k
      <4>1. \A i, j \in 1 .. Len(log[g][k]) : i < j => log[g][k][i] < log[g][k][j]
        BY <1>0 DEF Sound, Growing
      <4>2. \A i \in 1 .. Len(log[g][k]) : log[g][k][i] <= clock
        BY <1>0 DEF Sound, Growing
      <4> QED BY <1>0, <1>1, <1>3, <2>1, <3>3, <4>1, <4>2, Idles
    <3> QED BY <3>1, <3>2, <3>3
  <2> QED BY <1>0, <2>2 DEF Growing
<1>7. Kept(g)
  <2>1. \A u \in Nat : Settled(g, u) => Settled(g, u)' /\ u <= w.tsc
    BY <1>0, <1>1, Idles DEF Settled, w
  <2>2. ASSUME NEW u \in Nat, NEW n \in Nat, Settled(g, u), NoOlder(g, u, n)
        PROVE  NoOlder(g, u, n)'
    <3>1. ASSUME NEW l \in Enabled, l < n, NEW i \in cur[g][l] + 1 .. Len(log'[g][l])
          PROVE  log'[g][l][i] >= u
      <4>1. CASE l # k
        BY <1>2, <2>2, <3>1, <4>1, Numbers DEF NoOlder
      <4>2. CASE l = k /\ i <= Len(log[g][k])
        <5>1. i \in 1 .. Len(log[g][k]) /\ i \in cur[g][k] + 1 .. Len(log[g][k])
          BY <1>3, <3>1, <4>2
        <5>2. log[g][k][i] >= u
          BY <2>2, <3>1, <4>2, <5>1 DEF NoOlder
        <5> QED BY <1>3, <4>2, <5>1, <5>2
      <4>3. CASE l = k /\ i > Len(log[g][k])
        BY <1>0, <1>3, <2>1, <2>2, <3>1, <4>3
      <4> QED BY <1>3, <3>1, <4>1, <4>2, <4>3
    <3> QED BY <1>0, <3>1 DEF NoOlder
  <2>3. ASSUME NEW u \in Nat, NEW n \in Nat, OlderWaits(g, u, n)
        PROVE  OlderWaits(g, u, n)'
    <3>1. PICK l \in Enabled : /\ l >= n
                  /\ \/ cur[g][l] < Len(log[g][l]) /\ log[g][l][cur[g][l] + 1] < u
                     \/ cur[g][l] = Len(log[g][l]) /\ k = l /\ w.tsc < u
      BY <2>3 DEF OlderWaits, w, k
    <3>2. cur[g][l] < Len(log'[g][l]) /\ log'[g][l][cur[g][l] + 1] < u
      <4>1. CASE l # k
        BY <1>2, <3>1, <4>1, Numbers
      <4>2. CASE l = k
        <5>1. cur[g][k] < Len(log'[g][k])
          BY <1>3, <4>2
        <5>2. CASE cur[g][k] < Len(log[g][k])
          <6>1. cur[g][k] + 1 \in 1 .. Len(log[g][k])
            BY <1>3, <5>2
          <6>2. log'[g][k][cur[g][k] + 1] = log[g][k][cur[g][k] + 1]
            BY <1>3, <6>1
          <6> QED BY <1>3, <3>1, <4>2, <5>1, <5>2, <6>2
        <5>3. CASE cur[g][k] = Len(log[g][k])
          BY <1>3, <3>1, <4>2, <5>1, <5>3
        <5> QED BY <1>3, <4>2, <5>2, <5>3
      <4> QED BY <4>1, <4>2
    <3> QED BY <1>0, <3>1, <3>2 DEF OlderWaits
  <2>4. \A u, n \in Nat : ~ TornAs(g, u, n)
    BY <1>0 DEF TornAs, w
  <2>5. ASSUME NEW n \in Choice, Misread(g, n)
        PROVE  Misread(g, n)'
    <3>1. /\ n.buf \in Level
          /\ \/ cur[g][n.buf] < Len(log[g][n.buf]) /\ log[g][n.buf][cur[g][n.buf] + 1] # n.tsc
             \/ cur[g][n.buf] = Len(log[g][n.buf]) /\ k = n.buf /\ w.tsc # n.tsc
      BY <2>5 DEF Misread, w, k
    <3>2. cur[g][n.buf] < Len(log'[g][n.buf]) /\ log'[g][n.buf][cur[g][n.buf] + 1] # n.tsc
      <4>1. CASE n.buf # k
        BY <1>2, <3>1, <4>1
      <4>2. CASE n.buf = k
        <5>1. cur[g][k] < Len(log'[g][k])
          BY <1>3, <4>2
        <5>2. CASE cur[g][k] < Len(log[g][k])
          <6>1. cur[g][k] + 1 \in 1 .. Len(log[g][k])
            BY <1>3, <5>2
          <6>2. log'[g][k][cur[g][k] + 1] = log[g][k][cur[g][k] + 1]
            BY <1>3, <6>1
          <6> QED BY <1>3, <3>1, <4>2, <5>1, <5>2, <6>2
        <5>3. CASE cur[g][k] = Len(log[g][k])
          BY <1>3, <3>1, <4>2, <5>1, <5>3
        <5> QED BY <1>3, <4>2, <5>2, <5>3
      <4> QED BY <4>1, <4>2
    <3> QED BY <1>0, <3>1, <3>2 DEF Misread
  <2> QED BY <2>1, <2>2, <2>3, <2>4, <2>5 DEF Kept
<1>8. Grows(g)
  <2>1. ASSUME NEW l \in Level \ {k}
        PROVE  Len(log[g][l]) \in Nat /\ log'[g][l] = log[g][l]
    BY <1>0, <1>2, FileHas
  <2> QED BY <1>0, <1>3, <2>1 DEF Grows, w
<1>9. ASSUME NEW f \in File \ {g} PROVE Kept(f) /\ Grows(f)
  BY <1>0, <1>1, <1>2, OtherFile
<1> QED BY <1>4, <1>5, <1>6, <1>7, <1>8, <1>9 DEF Sound

\* A program that traces leaves the choices, the rounds and the queue as sound as
\* they were.
LEMMA TraceKeepsChoices ==
    ASSUME Sound, Sound', UNCHANGED qtVars, \A f \in File : Kept(f)
    PROVE  /\ Chosen => Chosen'
           /\ Rounds => Rounds'
           /\ Queued => Queued'
<1>0. /\ MergeTypes /\ NumLevels \in Nat /\ next' = next /\ scan' = scan /\ queue' = queue
      /\ pc' = pc /\ phase' = phase
  BY Numbers DEF Sound, qtVars
<1>1. ASSUME Chosen PROVE Chosen'
  <2>1. ASSUME NEW f \in File, next[f].buf # -1
        PROVE  Misread(f, next[f])' \/ Clean(f, next[f].tsc)'
    <3>1. next[f] \in Choice /\ next[f].tsc \in Nat
      BY <1>0, FileHas
    <3>2. Misread(f, next[f]) \/ Clean(f, next[f].tsc)
      BY <1>1, <2>1 DEF Chosen
    <3>3. CASE Misread(f, next[f])
      BY <1>0, <3>1, <3>3 DEF Kept, Misread
    <3>4. CASE Clean(f, next[f].tsc)
      BY <1>0, <3>1, <3>4 DEF Kept, Clean, Settled, NoOlder
    <3> QED BY <3>2, <3>3, <3>4
  <2> QED BY <1>0, <2>1 DEF Chosen
<1>2. ASSUME Rounds, pc = "scan" PROVE Rounds'
  <2> DEFINE f == scan.file
             m == scan.min
             p == scan.prev
             n == scan.level
  <2>1. /\ f \in File /\ m \in Choice /\ m.tsc \in Nat
        /\ p \in Nat /\ n \in Nat
    BY <1>0, ScanHas
  <2>2. /\ next[f].buf = -1 /\ (m.buf = -1 => m = NoNext)
        /\ m.buf # -1 => /\ 0 < m.tsc /\ m.tsc < Infinite
                         /\ \/ Settled(f, m.tsc)
                            \/ OlderWaits(f, m.tsc, 0)
                            \/ TornAs(f, m.tsc, 0)
        /\ p # Infinite => \/ m.tsc < p
                           \/ Settled(f, p) /\ NoOlder(f, p, n)
                           \/ OlderWaits(f, p, n)
                           \/ m.tsc > p /\ TornAs(f, p, n)
                           \/ m.tsc = p /\ Misread(f, m)
    BY <1>2 DEF Rounds, Known, Compared
  <2>3. /\ scan'.file = f /\ scan'.min = m /\ scan'.prev = p /\ scan'.level = n
        /\ next'[f].buf = next[f].buf
    BY <1>0
  <2> HIDE DEF f, m, p, n
  <2>4. Settled(f, m.tsc) \/ OlderWaits(f, m.tsc, 0) \/ TornAs(f, m.tsc, 0)
        => \/ Settled(scan.file, scan.min.tsc)' \/ OlderWaits(scan.file, scan.min.tsc, 0)'
           \/ TornAs(scan.file, scan.min.tsc, 0)'
    <3>1. CASE Settled(f, m.tsc)
      BY <2>1, <2>3, <3>1 DEF Kept, Settled
    <3>2. CASE OlderWaits(f, m.tsc, 0)
      BY <2>1, <2>3, <3>2 DEF Kept, OlderWaits
    <3>3. CASE TornAs(f, m.tsc, 0)
      BY <2>1, <2>3, <3>3 DEF Kept, OlderWaits, TornAs
    <3> QED BY <3>1, <3>2, <3>3
  <2>5. Settled(f, p) /\ NoOlder(f, p, n)
        => Settled(scan.file, scan.prev)' /\ NoOlder(scan.file, scan.prev, scan.level)'
    BY <2>1, <2>3 DEF Kept, Settled, NoOlder
  <2>6. OlderWaits(f, p, n) => OlderWaits(scan.file, scan.prev, scan.level)'
    BY <2>1, <2>3 DEF Kept, OlderWaits
  <2>7. TornAs(f, p, n) => \/ OlderWaits(scan.file, scan.prev, scan.level)'
                           \/ TornAs(scan.file, scan.prev, scan.level)'
    BY <2>1, <2>3 DEF Kept, OlderWaits, TornAs
  <2>8. Misread(f, m) => Misread(scan.file, scan.min)'
    BY <2>1, <2>3 DEF Kept, Misread
  <2> QED BY <2>2, <2>3, <2>4, <2>5, <2>6, <2>7, <2>8 DEF Rounds, Known, Compared
<1>3. ASSUME Queued PROVE Queued'
  <2>1. ASSUME NEW i \in 1 .. Len(queue) PROVE Clean(queue[i].file, queue[i].tsc)'
    <3>1. queue[i].file \in File /\ queue[i].tsc \in Nat
      BY <1>0, QueueHas
    <3>2. Clean(queue[i].file, queue[i].tsc)
      BY <1>3 DEF Queued
    <3> QED BY <1>0, <3>1, <3>2 DEF Kept, Clean, Settled, NoOlder
  <2> QED BY <1>0, <1>3, <2>1 DEF Queued
<1>4. pc # "scan" => Rounds'
  BY <1>0 DEF Rounds
<1> QED BY <1>1, <1>2, <1>3, <1>4

(***************************************************************************)
(* What was printed                                                        *)
(***************************************************************************)

\* The elements of what comes before a place in a sequence.
LEMMA RangeOfSub ==
    ASSUME NEW S, NEW s \in Seq(S), NEW i \in 1 .. Len(s), NEW x
    PROVE  x \in Range(SubSeq(s, 1, i - 1)) <=> \E j \in 1 .. i - 1 : s[j] = x
<1>1. /\ Len(SubSeq(s, 1, i - 1)) = i - 1 /\ SubSeq(s, 1, i - 1) \in Seq(S)
      /\ \A j \in 1 .. i - 1 : SubSeq(s, 1, i - 1)[j] = s[j]
  OBVIOUS
<1>2. DOMAIN SubSeq(s, 1, i - 1) = 1 .. i - 1
  BY <1>1
<1> QED BY <1>1, <1>2 DEF Range

\* The elements of a sequence.
LEMMA RangeOf ==
    ASSUME NEW S, NEW s \in Seq(S), NEW x
    PROVE  x \in Range(s) <=> \E j \in 1 .. Len(s) : s[j] = x
BY DEF Range

\* The messages that are complete, by their places in the rings.
LEMMA CompleteIs ==
    ASSUME MergeTypes, NEW f \in Given, NEW l \in Enabled, NEW k \in 1 .. Len(log[f][l])
    PROVE  Line(f, l, log[f][l][k]) \in Complete
<1>1. /\ f \in File /\ l \in Level /\ files \in TailFiles \cup CatFiles
  BY Numbers, GivenFiles DEF MergeTypes
<1>2. log[f][l] \in Seq(Tsc) /\ log[f][l][k] \in Tsc
  BY <1>1, FileHas
<1>3. log[f][l][k] \in Range(log[f][l])
  BY <1>2, RangeOf
<1> QED BY <1>2, <1>3 DEF Complete, Line

\* What LevelsInOrder says of a line and a place in a ring.
LEMMA OrderGives ==
    ASSUME MergeTypes, LevelsInOrder, NEW i \in 1 .. Len(out), NEW l \in Enabled,
           NEW k \in 1 .. Len(log[out[i].file][l]), log[out[i].file][l][k] < out[i].tsc
    PROVE  \E j \in 1 .. i - 1 : out[j] = Line(out[i].file, l, log[out[i].file][l][k])
<1> DEFINE m == Line(out[i].file, l, log[out[i].file][l][k])
<1>1. m \in Complete /\ m.file = out[i].file /\ m.tsc < out[i].tsc
  <2>1. m \in Complete
    BY OutHas, CompleteIs
  <2> QED BY <2>1 DEF Line
<1> HIDE DEF m
<1>2. m \in Range(SubSeq(out, 1, i - 1))
  BY <1>1 DEF LevelsInOrder
<1>3. out \in Seq(Lines)
  BY DEF MergeTypes
<1>4. \E j \in 1 .. i - 1 : out[j] = m
  BY <1>2, <1>3, RangeOfSub
<1> QED BY <1>4 DEF m

\* The lines stay what was read, and in order, while programs trace.
LEMMA TraceKeepsOrder ==
    ASSUME Sound, Sound', Behind, LevelsInOrder, UNCHANGED qtVars,
           \A f \in File : Grows(f)
    PROVE  Behind' /\ LevelsInOrder'
<1>0. /\ MergeTypes /\ MergeTypes' /\ cur' = cur /\ out' = out /\ files' = files
      /\ Given' = Given /\ files \in TailFiles \cup CatFiles /\ out \in Seq(Lines)
  BY DEF Sound, qtVars, Given, MergeTypes
<1>1. ASSUME NEW f \in File, NEW l \in Level, NEW k \in 1 .. cur[f][l]
      PROVE  k \in 1 .. Len(log[f][l]) /\ log'[f][l][k] = log[f][l][k]
  <2>1. k \in 1 .. Len(log[f][l])
    BY <1>0, FileHas DEF Sound, Growing
  <2> QED BY <2>1 DEF Grows
<1>2. Behind'
  <2>1. ASSUME NEW i \in 1 .. Len(out)
        PROVE  \E k \in 1 .. cur[out[i].file][out[i].level] :
                  log'[out[i].file][out[i].level][k] = out[i].tsc
    BY <1>0, <1>1, OutHas DEF Behind
  <2>2. ASSUME NEW f \in Given, NEW l \in Enabled, NEW k \in 1 .. cur[f][l]
        PROVE  Line(f, l, log'[f][l][k]) \in Range(out)
    <3>1. f \in File /\ l \in Level
      BY <1>0, GivenFiles, Numbers
    <3>2. log'[f][l][k] = log[f][l][k]
      BY <1>1, <3>1
    <3>3. Line(f, l, log[f][l][k]) \in Range(out)
      BY DEF Behind
    <3> QED BY <3>2, <3>3
  <2> QED BY <1>0, <2>1, <2>2 DEF Behind
<1>3. ASSUME NEW i \in 1 .. Len(out), NEW m \in Complete',
             m.file = out[i].file, m.tsc < out[i].tsc
      PROVE  m \in Range(SubSeq(out, 1, i - 1))
  <2> DEFINE f == m.file
             l == m.level
  <2>1. /\ f \in Given /\ f \in File /\ l \in Enabled /\ l \in Level /\ m.tsc \in Tsc
        /\ m.tsc \in Nat /\ m.tsc \in Range(log'[f][l]) /\ m = Line(f, l, m.tsc)
    <3>1. m \in [file : Given, level : Enabled, tsc : Tsc] /\ m.tsc \in Range(log'[f][l])
      BY <1>0, <1>3 DEF Complete
    <3> QED BY <1>0, <3>1, GivenFiles, Numbers DEF Line
  <2>2. log'[f][l] \in Seq(Tsc) /\ Len(log'[f][l]) \in Nat /\ Len(log[f][l]) \in Nat
    <3>1. log' \in [File -> [Level -> Seq(Tsc)]]
      BY <1>0 DEF MergeTypes
    <3>2. Len(log[f][l]) \in Nat
      BY <1>0, <2>1, FileHas
    <3> QED BY <2>1, <3>1, <3>2
  <2>3. PICK k \in 1 .. Len(log'[f][l]) : log'[f][l][k] = m.tsc
    BY <2>1, <2>2, RangeOf
  <2>4. k \in 1 .. Len(log[f][l])
    <3>1. SUFFICES ASSUME k \notin 1 .. Len(log[f][l]) PROVE FALSE
      OBVIOUS
    <3>2. writer[f].at # "idle" /\ m.tsc = writer[f].tsc
      BY <2>1, <2>2, <2>3, <3>1 DEF Grows
    <3>3. PICK j \in 1 .. cur[f][out[i].level] : log[f][out[i].level][j] = out[i].tsc
      BY <1>3 DEF Behind
    <3>4. /\ out[i].level \in Level /\ out[i].tsc \in Nat
          /\ j \in 1 .. Len(log[f][out[i].level])
      BY <1>0, <1>1, <2>1, <3>3, OutHas, Numbers
    <3>5. out[i].tsc < writer[f].tsc
      BY <2>1, <3>2, <3>3, <3>4 DEF Sound, Growing
    <3> QED BY <1>3, <2>1, <3>2, <3>4, <3>5
  <2>5. log[f][l][k] = m.tsc
    BY <2>1, <2>3, <2>4 DEF Grows
  <2>6. \E j \in 1 .. i - 1 : out[j] = m
    <3>1. /\ l \in Enabled /\ k \in 1 .. Len(log[out[i].file][l])
          /\ log[out[i].file][l][k] = m.tsc /\ m.tsc < out[i].tsc
      BY <1>3, <2>1, <2>4, <2>5
    <3>2. \E j \in 1 .. i - 1 : out[j] = Line(out[i].file, l, log[out[i].file][l][k])
      BY <1>0, <3>1, OrderGives
    <3> QED BY <1>3, <2>1, <3>1, <3>2
  <2> QED BY <1>0, <2>6, RangeOfSub
<1>4. LevelsInOrder'
  BY <1>0, <1>3 DEF LevelsInOrder
<1> QED BY <1>2, <1>4

\* Whatever a program does to its rings, the invariant holds.
LEMMA TraceIInv ==
    ASSUME MergeIInv, NEW g \in File, Trace(g)
    PROVE  MergeIInv'
<1>1. Sound /\ UNCHANGED qtVars
  BY DEF MergeIInv, Sound, Trace, qtVars
<1>2. Sound' /\ \A f \in File : Kept(f) /\ Grows(f)
  BY <1>1, TakeTscKeeps, StoreSomeKeeps, StoreTscKeeps, EndMsgKeeps DEF Trace, Finish
<1>3. Chosen' /\ Rounds' /\ Queued'
  BY <1>1, <1>2, TraceKeepsChoices DEF MergeIInv
<1>4. Behind' /\ LevelsInOrder'
  BY <1>1, <1>2, TraceKeepsOrder DEF MergeIInv
<1> QED BY <1>2, <1>3, <1>4 DEF MergeIInv, Sound

(***************************************************************************)
(* nextTsc looks at a ring                                                 *)
(***************************************************************************)

\* A step of qttail that neither chooses nor consumes.
LEMMA Steady ==
    ASSUME MergeIInv, UNCHANGED <<writerVars, files, phase, cur, next, out>>
    PROVE  /\ Growing' /\ Writing' /\ Chosen' /\ Behind' /\ LevelsInOrder'
           /\ queue' = queue /\ (phase = "cat" /\ pc' \in {"scan", "return"} => pc \in {"scan", "return"})
                 => Queued'
<1>0. /\ writer' = writer /\ log' = log /\ clock' = clock /\ cur' = cur /\ next' = next
      /\ out' = out /\ files' = files /\ phase' = phase /\ Given' = Given
  BY DEF writerVars, Given
<1>1. Growing'
  BY <1>0 DEF MergeIInv, Growing
<1>2. Writing'
  BY <1>0 DEF MergeIInv, Writing
<1>3. Chosen'
  BY <1>0 DEF MergeIInv, Chosen, Misread, Clean, Settled, NoOlder
<1>4. Behind'
  BY <1>0 DEF MergeIInv, Behind
<1>5. LevelsInOrder'
  BY <1>0 DEF MergeIInv, LevelsInOrder, Complete
<1>6. queue' = queue /\ (phase = "cat" /\ pc' \in {"scan", "return"} => pc \in {"scan", "return"})
                 => Queued'
  BY <1>0 DEF MergeIInv, Queued, Clean, Settled, NoOlder
<1> QED BY <1>1, <1>2, <1>3, <1>4, <1>5, <1>6

\* What NextTsc reads.
LEMMA ReadIs ==
    ASSUME Sound, NEW f \in File, NEW l \in Level
    PROVE  /\ NextTsc(f, l) \in Nat
           /\ \/ /\ cur[f][l] < Len(log[f][l])
                 /\ cur[f][l] + 1 \in 1 .. Len(log[f][l])
                 /\ NextTsc(f, l) = log[f][l][cur[f][l] + 1]
                 /\ NextTsc(f, l) > 0
              \/ /\ cur[f][l] = Len(log[f][l]) /\ writer[f].level = l
                 /\ NextTsc(f, l) = writer[f].seen
              \/ /\ cur[f][l] = Len(log[f][l]) /\ writer[f].level # l
                 /\ NextTsc(f, l) = 0
<1>1. /\ MergeTypes /\ cur[f][l] \in Nat /\ Len(log[f][l]) \in Nat
      /\ cur[f][l] <= Len(log[f][l]) /\ writer[f].seen \in Nat
      /\ \A i \in 1 .. Len(log[f][l]) : log[f][l][i] \in Tsc
  BY FileHas DEF Sound, Growing
<1>2. cur[f][l] + 0 = cur[f][l]
  BY <1>1
<1>3. CASE cur[f][l] < Len(log[f][l])
  <2>1. cur[f][l] + 1 \in 1 .. Len(log[f][l])
    BY <1>1, <1>3
  <2>2. NextTsc(f, l) = log[f][l][cur[f][l] + 1]
    BY <1>2, <1>3 DEF NextTsc, TscAt
  <2>3. NextTsc(f, l) \in Tsc
    BY <1>1, <2>1, <2>2
  <2>4. NextTsc(f, l) \in Nat /\ NextTsc(f, l) > 0
    BY <2>3, TscAssumption DEF Tsc
  <2> QED BY <1>3, <2>1, <2>2, <2>4
<1>4. CASE cur[f][l] = Len(log[f][l])
  BY <1>1, <1>2, <1>4 DEF NextTsc, TscAt
<1> QED BY <1>1, <1>3, <1>4

\* A timestamp that was read is that of a message after which nothing older comes,
\* or it is that of none, and an older message is being written.
LEMMA ReadIsKnown ==
    ASSUME Sound, NEW f \in File, NEW l \in Enabled, NextTsc(f, l) # 0
    PROVE  Settled(f, NextTsc(f, l)) \/ TornAs(f, NextTsc(f, l), 0)
<1> DEFINE t == NextTsc(f, l)
           w == writer[f]
<1>0. /\ l \in Level /\ t \in Nat /\ l \in Nat /\ MergeTypes /\ clock \in Nat
      /\ w.at \in At /\ w.tsc \in Nat /\ w.level \in Level
      /\ phase = "tail" => w.tsc <= clock
      /\ phase # "tail" => w.at \in {"idle", "open"}
      /\ w.at \in {"idle", "taken"} => w.seen = 0
      /\ w.at = "open" => w.seen = w.tsc
  BY Numbers, ReadIs, FileHas DEF Sound, MergeTypes, Writing
<1>1. CASE /\ cur[f][l] < Len(log[f][l]) /\ cur[f][l] + 1 \in 1 .. Len(log[f][l])
           /\ t = log[f][l][cur[f][l] + 1]
  <2>1. /\ phase = "tail" => log[f][l][cur[f][l] + 1] <= clock
        /\ w.at # "idle" => log[f][l][cur[f][l] + 1] < w.tsc
    BY <1>0, <1>1 DEF Sound, Growing
  <2>2. Settled(f, t)
    BY <1>0, <1>1, <2>1 DEF Settled
  <2> QED BY <2>2
<1>2. CASE cur[f][l] = Len(log[f][l]) /\ w.level = l /\ t = w.seen
  <2>1. CASE w.at = "open"
    BY <1>0, <1>2, <2>1 DEF Settled
  <2>2. CASE w.at = "torn"
    <3>1. phase = "tail" /\ w.tsc <= clock
      BY <1>0, <2>2
    <3>2. CASE w.tsc < t
      BY <1>0, <1>2, <2>2, <3>2 DEF TornAs
    <3>3. CASE t <= w.tsc
      BY <1>0, <3>1, <3>3 DEF Settled
    <3> QED BY <1>0, <3>2, <3>3
  <2> QED BY <1>0, <1>2, <2>1, <2>2 DEF At
<1> QED BY <1>0, <1>1, <1>2, ReadIs

\* One more ring in which nothing older is found.
LEMMA NoOlderNext ==
    ASSUME Sound, NEW f \in File, NEW n \in Level, NEW p \in Nat, NoOlder(f, p, n),
           n \notin Enabled \/ NextTsc(f, n) = 0 \/ NextTsc(f, n) >= p
    PROVE  NoOlder(f, p, n + 1)
<1>0. n \in Nat /\ Enabled \subseteq Nat /\ MergeTypes /\ NextTsc(f, n) \in Nat
  BY Numbers, ReadIs DEF Sound
<1>1. ASSUME NEW l \in Enabled, l < n + 1, NEW i \in cur[f][l] + 1 .. Len(log[f][l])
      PROVE  log[f][l][i] >= p
  <2>1. CASE l < n
    BY <1>1, <2>1 DEF NoOlder
  <2>2. CASE l = n
    <3>1. /\ cur[f][n] \in Nat /\ Len(log[f][n]) \in Nat
          /\ i \in cur[f][n] + 1 .. Len(log[f][n])
      BY <1>0, <1>1, <2>2, FileHas
    <3>2. /\ cur[f][n] + 1 \in 1 .. Len(log[f][n]) /\ i \in 1 .. Len(log[f][n])
          /\ NextTsc(f, n) = log[f][n][cur[f][n] + 1] /\ NextTsc(f, n) > 0
      BY <3>1, ReadIs
    <3>3. NextTsc(f, n) >= p
      BY <1>0, <1>1, <2>2, <3>2
    <3>4. log[f][n][i] \in Nat
      BY <1>0, <3>2, FileHas
    <3>5. CASE i = cur[f][n] + 1
      BY <2>2, <3>2, <3>3, <3>5
    <3>6. CASE i > cur[f][n] + 1
      <4>1. log[f][n][cur[f][n] + 1] < log[f][n][i]
        BY <3>2, <3>6 DEF Sound, Growing
      <4> QED BY <1>0, <2>2, <3>2, <3>3, <3>4, <4>1
    <3> QED BY <3>1, <3>5, <3>6
  <2> QED BY <1>0, <1>1, <2>1, <2>2
<1> QED BY <1>1 DEF NoOlder

\* What is older and waits is found in this ring, or waits above it.
LEMMA OlderWaitsNext ==
    ASSUME Sound, NEW f \in File, NEW n \in Level, NEW p \in Nat, OlderWaits(f, p, n)
    PROVE  \/ OlderWaits(f, p, n + 1)
           \/ n \in Enabled /\ NextTsc(f, n) # 0 /\ NextTsc(f, n) < p
<1>0. n \in Nat /\ Enabled \subseteq Nat
  BY Numbers
<1>1. PICK l \in Enabled :
          /\ l >= n
          /\ \/ cur[f][l] < Len(log[f][l]) /\ log[f][l][cur[f][l] + 1] < p
             \/ /\ cur[f][l] = Len(log[f][l])
                /\ writer[f].at = "open" /\ writer[f].level = l /\ writer[f].tsc < p
  BY DEF OlderWaits
<1>2. CASE l = n
  <2>1. CASE cur[f][n] < Len(log[f][n]) /\ log[f][n][cur[f][n] + 1] < p
    BY <1>2, <2>1, ReadIs
  <2>2. CASE /\ cur[f][n] = Len(log[f][n])
             /\ writer[f].at = "open" /\ writer[f].level = n /\ writer[f].tsc < p
    <3>1. NextTsc(f, n) = writer[f].seen
      BY <2>2, ReadIs
    <3>2. writer[f].seen = writer[f].tsc /\ writer[f].tsc \in Tsc
      BY <2>2 DEF Sound, Writing
    <3> QED BY <1>2, <2>2, <3>1, <3>2, TscAssumption DEF Tsc
  <2> QED BY <1>1, <1>2, <2>1, <2>2
<1>3. CASE l # n
  <2>1. l >= n + 1
    BY <1>0, <1>1, <1>3
  <2> QED BY <1>1, <2>1 DEF OlderWaits
<1> QED BY <1>2, <1>3

\* A timestamp that is stored in part is read in this ring, or waits above it.
LEMMA TornNext ==
    ASSUME Sound, NEW f \in File, NEW n \in Level, NEW p \in Nat, TornAs(f, p, n)
    PROVE  \/ TornAs(f, p, n + 1)
           \/ /\ n \in Enabled /\ NextTsc(f, n) = p /\ p # 0 /\ phase = "tail"
              /\ cur[f][n] = Len(log[f][n]) /\ writer[f].level = n
              /\ writer[f].at # "idle" /\ writer[f].tsc < p
<1>0. n \in Nat /\ MergeTypes /\ writer[f].level \in Level /\ writer[f].level \in Nat
  BY FileHas, Numbers DEF Sound
<1>1. CASE writer[f].level = n
  <2>1. p # 0 /\ phase = "tail"
    BY DEF TornAs, Sound, Writing
  <2>2. NextTsc(f, n) = p
    BY <1>1, ReadIs DEF TornAs
  <2> QED BY <1>1, <2>1, <2>2 DEF TornAs
<1>2. CASE writer[f].level # n
  BY <1>0, <1>2 DEF TornAs
<1> QED BY <1>1, <1>2

\* A ring from which nothing is chosen leaves the comparison as it is.
LEMMA PassedOver ==
    ASSUME Sound, NEW f \in File, NEW n \in Level, NEW m \in Choice, NEW p \in Nat,
           m.tsc \in Nat, Compared(f, m, p, n),
           n \notin Enabled \/ NextTsc(f, n) = 0 \/ NextTsc(f, n) >= m.tsc
    PROVE  Compared(f, m, p, n + 1)
<1>0. NextTsc(f, n) \in Nat
  BY ReadIs
<1>1. CASE m.tsc < p \/ (m.tsc = p /\ Misread(f, m))
  BY <1>1 DEF Compared
<1>2. CASE Settled(f, p) /\ NoOlder(f, p, n) /\ ~ m.tsc < p
  BY <1>0, <1>2, NoOlderNext DEF Compared
<1>3. CASE OlderWaits(f, p, n) /\ ~ m.tsc < p
  BY <1>0, <1>3, OlderWaitsNext DEF Compared
<1>4. CASE m.tsc > p /\ TornAs(f, p, n)
  BY <1>0, <1>4, TornNext DEF Compared
<1> QED BY <1>1, <1>2, <1>3, <1>4 DEF Compared

\* So does one from which a message is chosen; if its timestamp is one that was
\* stored in part when the round before found it too, it has been misread.
LEMMA Selected ==
    ASSUME Sound, NEW f \in File, NEW n \in Enabled, NEW m \in Choice, NEW p \in Nat,
           m.tsc \in Nat, Compared(f, m, p, n),
           NEW c, c = [tsc |-> NextTsc(f, n), buf |-> n], c.tsc # 0, c.tsc < m.tsc
    PROVE  Compared(f, c, p, n + 1)
<1>0. /\ n \in Level /\ NextTsc(f, n) \in Nat /\ c.tsc = NextTsc(f, n) /\ c.buf = n
      /\ MergeTypes /\ c.tsc \in Nat
  BY ReadIs, Numbers DEF Sound
<1>1. CASE c.tsc < p
  BY <1>1 DEF Compared
<1>2. CASE Settled(f, p) /\ NoOlder(f, p, n) /\ c.tsc >= p
  BY <1>0, <1>2, NoOlderNext DEF Compared
<1>3. CASE OlderWaits(f, p, n) /\ c.tsc >= p
  BY <1>0, <1>3, OlderWaitsNext DEF Compared
<1>4. CASE TornAs(f, p, n) /\ c.tsc >= p
  <2>1. CASE /\ NextTsc(f, n) = p /\ phase = "tail"
             /\ cur[f][n] = Len(log[f][n]) /\ writer[f].level = n
             /\ writer[f].at # "idle" /\ writer[f].tsc < p
    <3>1. writer[f].tsc # c.tsc
      BY <1>0, <2>1, FileHas
    <3> QED BY <1>0, <2>1, <3>1 DEF Compared, Misread
  <2>2. CASE TornAs(f, p, n + 1)
    <3>1. c.tsc # p
      <4>1. SUFFICES ASSUME c.tsc = p PROVE FALSE
        OBVIOUS
      <4>2. writer[f].level # n
        BY <1>0, <2>2, Numbers DEF TornAs
      <4>3. cur[f][n] + 1 \in 1 .. Len(log[f][n]) /\ p = log[f][n][cur[f][n] + 1]
        BY <1>0, <4>1, <4>2, ReadIs
      <4>4. p < writer[f].tsc /\ writer[f].tsc < p /\ writer[f].tsc \in Nat
        BY <1>0, <2>2, <4>3, FileHas DEF TornAs, Sound, Growing
      <4> QED BY <4>4
    <3> QED BY <1>0, <1>4, <2>2, <3>1 DEF Compared
  <2> QED BY <1>0, <1>4, <2>1, <2>2, TornNext
<1> QED BY <1>0, <1>1, <1>2, <1>3, <1>4 DEF Compared

\* A round begins without a choice, and with what the round before found.
LEMMA RoundIs ==
    ASSUME NEW f \in Given, NEW p \in Nat
    PROVE  /\ Round(f, p).file = f /\ Round(f, p).level = 0
           /\ Round(f, p).min = NoNext /\ Round(f, p).prev = p
           /\ Round(f, p) \in [file : Given, level : 0 .. NumLevels, min : Choice, prev : Nat]
BY NoChoice, LevelsAssumption DEF Round

\* nextTsc begins: there is nothing yet that a round could be wrong about.
LEMMA FreshRound ==
    ASSUME MergeTypes', pc' = "scan" => \E f \in Given' : /\ scan' = Round(f, Infinite)
                                                         /\ next'[f].buf = -1
    PROVE  Rounds'
BY NoChoice DEF Rounds, Round

\* nextTsc looks at a ring.
LEMMA ScanLevelIInv ==
    ASSUME MergeIInv, ScanLevel
    PROVE  MergeIInv'
<1> DEFINE f == scan.file
           n == scan.level
           m == scan.min
           p == scan.prev
           t == NextTsc(f, n)
           found == n \in Enabled /\ t # 0 /\ t < m.tsc
           c == IF found THEN [tsc |-> t, buf |-> n] ELSE m
<1>0. /\ MergeTypes /\ Sound /\ pc = "scan" /\ pc' = "scan" /\ n < NumLevels
      /\ UNCHANGED <<writerVars, files, phase, cur, next, out>>
      /\ queue' = queue
  BY DEF MergeIInv, Sound, ScanLevel
<1>1. /\ f \in Given /\ f \in File /\ n \in Level /\ n \in Nat /\ m \in Choice
      /\ m.tsc \in Nat /\ p \in Nat /\ t \in Nat /\ n + 1 \in 0 .. NumLevels
      /\ m.buf \in Enabled \cup {-1}
  <2>1. n \in Level
    BY <1>0, ScanHas, LevelsAssumption DEF Level
  <2>2. t \in Nat
    BY <1>0, <2>1, ScanHas, ReadIs
  <2>3. n + 1 \in 0 .. NumLevels
    BY <1>0, ScanHas, LevelsAssumption
  <2> QED BY <1>0, <2>1, <2>2, <2>3, ScanHas
<1>2. /\ c \in Choice /\ c.tsc \in Nat
      /\ found => c.tsc = t /\ c.buf = n
  BY <1>1 DEF Choice
<1>3. scan' = [file |-> f, level |-> n + 1, min |-> c, prev |-> p]
  <2>1. scan \in [file : Given, level : 0 .. NumLevels, min : Choice, prev : Nat]
    BY <1>0 DEF MergeTypes
  <2>2. scan = [file |-> f, level |-> n, min |-> m, prev |-> p]
    BY <2>1
  <2>3. scan' = [scan EXCEPT !.level = @ + 1, !.min = c]
    BY DEF ScanLevel
  <2> QED BY <2>2, <2>3
<1>4. /\ next[f].buf = -1
      /\ m.buf = -1 => m = NoNext
      /\ m.buf # -1 => 0 < m.tsc /\ m.tsc < Infinite /\ Known(f, m.tsc)
      /\ p # Infinite => Compared(f, m, p, n)
  BY <1>0 DEF MergeIInv, Rounds
<1>5. m.tsc <= Infinite
  BY <1>1, <1>4, NoChoice, Numbers
<1>6. /\ c.buf = -1 => c = NoNext
      /\ c.buf # -1 => 0 < c.tsc /\ c.tsc < Infinite /\ Known(f, c.tsc)
      /\ p # Infinite => Compared(f, c, p, n + 1)
  <2>1. found => c.buf # -1
    BY <1>1, <1>2, Numbers
  <2>2. CASE found
    <3>1. 0 < c.tsc /\ c.tsc < Infinite
      BY <1>1, <1>2, <1>5, <2>2, Numbers
    <3>2. Known(f, c.tsc)
      BY <1>0, <1>1, <1>2, <2>2, ReadIsKnown DEF Known
    <3>3. p # Infinite => Compared(f, c, p, n + 1)
      BY <1>0, <1>1, <1>2, <1>4, <2>2, Selected
    <3> QED BY <2>1, <2>2, <3>1, <3>2, <3>3
  <2>3. CASE ~ found
    <3>1. c = m
      BY <2>3
    <3>2. p # Infinite => Compared(f, m, p, n + 1)
      BY <1>0, <1>1, <1>4, <2>3, PassedOver
    <3> QED BY <1>4, <3>1, <3>2
  <2> QED BY <2>2, <2>3
<1> HIDE DEF f, n, m, p, t, found, c
<1>7. MergeTypes'
  <2>1. scan' \in [file : Given, level : 0 .. NumLevels, min : Choice, prev : Nat]
    BY <1>1, <1>2, <1>3
  <2>2. /\ clock' = clock /\ log' = log /\ writer' = writer /\ files' = files /\ phase' = phase
        /\ cur' = cur /\ next' = next /\ queue' = queue /\ out' = out /\ Given' = Given
    BY <1>0 DEF writerVars, Given
  <2> QED BY <1>0, <2>1, <2>2 DEF MergeTypes, Entries, Lines
<1>8. Rounds'
  <2>1. /\ scan'.file = f /\ scan'.level = n + 1 /\ scan'.min = c /\ scan'.prev = p
    BY <1>3
  <2>2. /\ writer' = writer /\ log' = log /\ cur' = cur /\ phase' = phase /\ clock' = clock
        /\ next' = next
    BY <1>0 DEF writerVars
  <2>3. Known(f, c.tsc) => Known(scan.file, scan.min.tsc)'
    BY <2>1, <2>2 DEF Known, Settled, OlderWaits, TornAs
  <2>4. Compared(f, c, p, n + 1) => Compared(scan.file, scan.min, scan.prev, scan.level)'
    BY <2>1, <2>2 DEF Compared, Settled, NoOlder, OlderWaits, TornAs, Misread
  <2> QED BY <1>4, <1>6, <2>1, <2>2, <2>3, <2>4 DEF Rounds
<1> QED BY <1>0, <1>7, <1>8, Steady DEF MergeIInv

\* A round ends: if it found what the round before found, that is the choice.
LEMMA ScanEndIInv ==
    ASSUME MergeIInv, ScanEnd
    PROVE  MergeIInv'
<1> DEFINE f == scan.file
           m == scan.min
           p == scan.prev
<1>0. /\ MergeTypes /\ Sound /\ pc = "scan" /\ scan.level = NumLevels
      /\ clock' = clock /\ log' = log /\ writer' = writer /\ files' = files /\ phase' = phase
      /\ cur' = cur /\ queue' = queue /\ out' = out /\ Given' = Given
      /\ UNCHANGED <<writerVars, files, phase, cur, out>>
  BY DEF MergeIInv, Sound, ScanEnd, writerVars, Given
<1>1. /\ f \in Given /\ f \in File /\ m \in Choice /\ m.tsc \in Nat /\ p \in Nat
      /\ m.buf \in Enabled \cup {-1} /\ Infinite \in Nat /\ NumLevels \in Nat
  BY <1>0, ScanHas, Numbers
<1>2. /\ next[f].buf = -1
      /\ m.buf = -1 => m = NoNext
      /\ m.buf # -1 => 0 < m.tsc /\ m.tsc < Infinite /\ Known(f, m.tsc)
      /\ p # Infinite => Compared(f, m, p, NumLevels)
  BY <1>0 DEF MergeIInv, Rounds
<1>3. CASE m.tsc = p
  <2>1. /\ next' = [next EXCEPT ![f] = m] /\ pc' = "return" /\ scan' = Round(f, Infinite)
    BY <1>3 DEF ScanEnd
  <2> HIDE DEF f, m, p
  <2>2. /\ next'[f] = m /\ \A g \in File \ {f} : next'[g] = next[g]
        /\ next' \in [File -> Choice]
    BY <1>0, <1>1, <2>1 DEF MergeTypes
  <2>3. MergeTypes'
    BY <1>0, <1>1, <2>1, <2>2, RoundIs DEF MergeTypes, Entries, Lines
  <2>4. ASSUME m.buf # -1 PROVE Misread(f, m) \/ Clean(f, m.tsc)
    <3>1. Compared(f, m, m.tsc, NumLevels)
      BY <1>1, <1>2, <1>3, <2>4
    <3>2. ~ OlderWaits(f, m.tsc, NumLevels)
      BY Numbers DEF OlderWaits
    <3> QED BY <1>1, <3>1, <3>2 DEF Compared, Clean
  <2>5. Chosen'
    <3>1. ASSUME NEW g \in File, next'[g].buf # -1
          PROVE  Misread(g, next'[g]) \/ Clean(g, next'[g].tsc)
      BY <2>2, <2>4, <3>1 DEF MergeIInv, Chosen
    <3> QED BY <1>0, <3>1 DEF Chosen, Misread, Clean, Settled, NoOlder
  <2>6. Rounds'
    BY <2>1 DEF Rounds
  <2>7. Growing' /\ Writing' /\ Behind' /\ LevelsInOrder' /\ Queued'
    BY <1>0 DEF MergeIInv, Growing, Writing, Behind, LevelsInOrder, Complete, Queued, Clean,
                Settled, NoOlder
  <2> QED BY <2>3, <2>5, <2>6, <2>7 DEF MergeIInv
<1>4. CASE m.tsc # p
  <2>1. scan' = Round(f, m.tsc) /\ next' = next /\ pc' = pc
    BY <1>4 DEF ScanEnd
  <2> HIDE DEF f, m, p
  <2>2. MergeTypes'
    BY <1>0, <1>1, <2>1, RoundIs DEF MergeTypes, Entries, Lines
  <2>3. /\ scan'.file = f /\ scan'.min = NoNext /\ scan'.prev = m.tsc /\ scan'.level = 0
    BY <1>1, <2>1, RoundIs
  <2>4. ASSUME m.tsc # Infinite PROVE Compared(f, NoNext, m.tsc, 0)
    <3>1. Known(f, m.tsc) /\ NoNext.tsc > m.tsc
      BY <1>1, <1>2, <2>4, NoChoice
    <3>2. NoOlder(f, m.tsc, 0)
      BY Numbers DEF NoOlder
    <3> QED BY <3>1, <3>2 DEF Known, Compared
  <2>5. Compared(f, NoNext, m.tsc, 0) => Compared(scan.file, scan.min, scan.prev, scan.level)'
    BY <1>0, <2>3 DEF Compared, Settled, NoOlder, OlderWaits, TornAs, Misread
  <2>6. Rounds'
    BY <1>2, <2>1, <2>3, <2>4, <2>5, NoChoice DEF Rounds
  <2> QED BY <1>0, <2>1, <2>2, <2>6, Steady DEF MergeIInv
<1> QED BY <1>3, <1>4

(***************************************************************************)
(* tailMany                                                                *)
(***************************************************************************)

\* nextTsc is called, and nothing else changes.
LEMMA CallIInv ==
    ASSUME MergeIInv, UNCHANGED <<writerVars, files, phase, cur, next, queue, out>>,
           phase = "tail", NEW f \in Given, Call(f, next[f])
    PROVE  MergeIInv'
<1>0. /\ MergeTypes /\ Infinite \in Nat /\ f \in File
      /\ clock' = clock /\ log' = log /\ writer' = writer /\ files' = files /\ phase' = phase
      /\ cur' = cur /\ next' = next /\ queue' = queue /\ out' = out /\ Given' = Given
  BY Numbers, GivenFiles DEF MergeIInv, MergeTypes, writerVars, Given
<1>1. scan' = Round(f, Infinite) /\ (pc' = "scan" => ~ next[f].buf >= 0)
  BY DEF Call
<1>2. next[f].buf \in Enabled \cup {-1}
  BY <1>0, FileHas
<1>3. pc' = "scan" => next'[f].buf = -1
  BY <1>0, <1>1, <1>2, Numbers
<1>4. MergeTypes'
  BY <1>0, <1>1, RoundIs DEF MergeTypes, Entries, Lines
<1>5. Rounds'
  BY <1>0, <1>1, <1>3, <1>4, FreshRound
<1> QED BY <1>0, <1>4, <1>5, Steady DEF MergeIInv

\* tailMany begins with the first file.
LEMMA BeginIInv ==
    ASSUME MergeIInv, Begin
    PROVE  MergeIInv'
<1>1. 0 \in Given
  BY GivenFiles DEF MergeIInv, MergeTypes
<1> QED BY <1>1, CallIInv DEF Begin

\* A step that leaves qttail between the calls.
LEMMA RestIInv ==
    ASSUME MergeIInv, UNCHANGED <<writerVars, files, phase, cur, next, queue, out>>,
           scan' = scan \/ scan' = Round(0, Infinite), pc' \notin {"scan", "return"}
    PROVE  MergeIInv'
<1>0. /\ MergeTypes /\ Infinite \in Nat /\ 0 \in Given
      /\ clock' = clock /\ log' = log /\ writer' = writer /\ files' = files /\ phase' = phase
      /\ cur' = cur /\ next' = next /\ queue' = queue /\ out' = out /\ Given' = Given
  BY Numbers, GivenFiles DEF MergeIInv, MergeTypes, writerVars, Given
<1>1. MergeTypes'
  BY <1>0, RoundIs DEF MergeTypes, Entries, Lines
<1>2. Rounds'
  BY DEF Rounds
<1> QED BY <1>0, <1>1, <1>2, Steady DEF MergeIInv

\* tailMany goes on to the next file.
LEMMA AskNextIInv ==
    ASSUME MergeIInv, AskNext
    PROVE  MergeIInv'
<1>1. CASE scan.file + 1 < files
  <2>1. scan.file + 1 \in Given
    BY <1>1, ScanHas, GivenFiles DEF MergeIInv, MergeTypes, Given
  <2> QED BY <1>1, <2>1, CallIInv DEF AskNext
<1>2. CASE ~ scan.file + 1 < files
  BY <1>2, RestIInv DEF AskNext
<1> QED BY <1>1, <1>2

\* catMany ends.
LEMMA CatEndIInv ==
    ASSUME MergeIInv, CatEnd
    PROVE  MergeIInv'
BY RestIInv DEF CatEnd

\* A message that may be printed is the oldest of its file that is not printed yet.
LEMMA Prints ==
    ASSUME MergeIInv, NEW f \in Given, NEW l \in Enabled, NEW t \in Nat, Clean(f, t),
           cur[f][l] + 1 \in 1 .. Len(log[f][l]), log[f][l][cur[f][l] + 1] = t,
           cur' = [cur EXCEPT ![f][l] = @ + 1], out' = Append(out, Line(f, l, t)),
           UNCHANGED <<writerVars, files, phase>>
    PROVE  /\ cur' \in [File -> [Level -> Nat]] /\ out' \in Seq(Lines)
           /\ \A g \in File \ {f} : cur'[g] = cur[g]
           /\ Growing' /\ Behind' /\ LevelsInOrder'
           /\ \A g \in File, u \in Nat : Clean(g, u) => Clean(g, u)'
<1>0. /\ MergeTypes /\ f \in File /\ l \in Level /\ out \in Seq(Lines) /\ Len(out) \in Nat
      /\ log' = log /\ writer' = writer /\ clock' = clock /\ phase' = phase
      /\ Given' = Given /\ t \in Tsc
      /\ cur[f][l] \in Nat /\ Len(log[f][l]) \in Nat
  <2>1. MergeTypes /\ f \in File /\ l \in Level
    BY GivenFiles, Numbers DEF MergeIInv, MergeTypes
  <2>2. t \in Tsc /\ cur[f][l] \in Nat /\ Len(log[f][l]) \in Nat
    BY <2>1, FileHas
  <2>3. out \in Seq(Lines) /\ Len(out) \in Nat
    BY <2>1 DEF MergeTypes
  <2>4. log' = log /\ writer' = writer /\ clock' = clock /\ phase' = phase /\ Given' = Given
    BY DEF writerVars, Given
  <2> QED BY <2>1, <2>2, <2>3, <2>4
<1>1. /\ cur' \in [File -> [Level -> Nat]]
      /\ \A g \in File \ {f} : cur'[g] = cur[g]
      /\ \A k \in Level \ {l} : cur'[f][k] = cur[f][k]
      /\ cur'[f][l] = cur[f][l] + 1
  <2>1. cur \in [File -> [Level -> Nat]]
    BY <1>0 DEF MergeTypes
  <2> QED BY <1>0, <2>1
<1>2. ASSUME NEW g \in File, NEW k \in Level
      PROVE  /\ cur[g][k] \in Nat /\ cur'[g][k] \in Nat /\ cur[g][k] <= cur'[g][k]
             /\ cur'[g][k] <= Len(log[g][k]) /\ Len(log[g][k]) \in Nat
             /\ (g # f \/ k # l) => cur'[g][k] = cur[g][k]
  <2>1. /\ cur[g][k] \in Nat /\ Len(log[g][k]) \in Nat /\ cur[g][k] <= Len(log[g][k])
    BY <1>0, FileHas DEF MergeIInv, Growing
  <2> QED BY <1>0, <1>1, <2>1
<1>3. Line(f, l, t) \in Lines
  BY <1>0 DEF Line, Lines
<1>4. /\ out' \in Seq(Lines) /\ Len(out') = Len(out) + 1
      /\ \A i \in 1 .. Len(out) : out'[i] = out[i]
      /\ out'[Len(out) + 1] = Line(f, l, t)
  BY <1>0, <1>3
<1>5. Growing'
  <2>1. ASSUME NEW g \in File, NEW k \in Level
        PROVE  cur'[g][k] <= Len(log[g][k])
    BY <1>2
  <2> QED BY <1>0, <2>1 DEF MergeIInv, Growing
<1>6. Behind'
  <2>1. ASSUME NEW i \in 1 .. Len(out')
        PROVE  \E k \in 1 .. cur'[out'[i].file][out'[i].level] :
                  log[out'[i].file][out'[i].level][k] = out'[i].tsc
    <3>1. CASE i \in 1 .. Len(out)
      <4>1. PICK k \in 1 .. cur[out[i].file][out[i].level] :
                log[out[i].file][out[i].level][k] = out[i].tsc
        BY <3>1 DEF MergeIInv, Behind
      <4>2. k \in 1 .. cur'[out[i].file][out[i].level]
        BY <1>0, <1>2, <3>1, <4>1, OutHas
      <4> QED BY <1>4, <3>1, <4>1, <4>2
    <3>2. CASE i = Len(out) + 1
      <4>1. out'[i].file = f /\ out'[i].level = l /\ out'[i].tsc = t
        BY <1>4, <3>2 DEF Line
      <4>2. cur'[f][l] \in 1 .. cur'[f][l]
        BY <1>0, <1>1
      <4> QED BY <1>1, <4>1, <4>2
    <3> QED BY <1>0, <1>4, <3>1, <3>2
  <2>2. ASSUME NEW g \in Given, NEW k \in Enabled, NEW i \in 1 .. cur'[g][k]
        PROVE  Line(g, k, log[g][k][i]) \in Range(out')
    <3>1. g \in File /\ k \in Level
      BY <1>0, GivenFiles, Numbers DEF MergeTypes
    <3>2. CASE i \in 1 .. cur[g][k]
      <4>1. Line(g, k, log[g][k][i]) \in Range(out)
        BY <3>2 DEF MergeIInv, Behind
      <4>2. PICK j \in 1 .. Len(out) : out[j] = Line(g, k, log[g][k][i])
        BY <1>0, <4>1, RangeOf
      <4>3. j \in 1 .. Len(out') /\ out'[j] = Line(g, k, log[g][k][i])
        BY <1>0, <1>4, <4>2
      <4> QED BY <1>4, <4>3, RangeOf
    <3>3. CASE i \notin 1 .. cur[g][k]
      <4>1. g = f /\ k = l /\ i = cur[f][l] + 1
        BY <1>1, <1>2, <3>1, <3>3
      <4>2. Len(out) + 1 \in 1 .. Len(out') /\ out'[Len(out) + 1] = Line(g, k, log[g][k][i])
        BY <1>0, <1>4, <4>1
      <4> QED BY <1>4, <4>2, RangeOf
    <3> QED BY <3>2, <3>3
  <2> QED BY <1>0, <2>1, <2>2 DEF Behind
<1>7. LevelsInOrder'
  <2>1. ASSUME NEW i \in 1 .. Len(out')
        PROVE  /\ out'[i].level \in Enabled
               /\ \A m \in Complete : m.file = out'[i].file /\ m.tsc < out'[i].tsc
                     => m \in Range(SubSeq(out', 1, i - 1))
               /\ \A j \in 1 .. i - 1 : out'[j] # out'[i]
    <3>1. CASE i \in 1 .. Len(out)
      <4>1. out'[i] = out[i] /\ i \in Nat
        BY <1>4, <3>1
      <4>2. \A j \in 1 .. i - 1 : out'[j] = out[j]
        BY <1>0, <1>4, <3>1
      <4>3. ASSUME NEW m \in Complete, m.file = out[i].file, m.tsc < out[i].tsc
            PROVE  m \in Range(SubSeq(out', 1, i - 1))
        <5>1. m \in Range(SubSeq(out, 1, i - 1))
          BY <3>1, <4>3 DEF MergeIInv, LevelsInOrder
        <5>2. \E j \in 1 .. i - 1 : out[j] = m
          BY <1>0, <3>1, <5>1, RangeOfSub
        <5>3. \E j \in 1 .. i - 1 : out'[j] = m
          BY <4>2, <5>2
        <5> QED BY <1>4, <5>3, RangeOfSub
      <4>4. out[i].level \in Enabled /\ \A j \in 1 .. i - 1 : out[j] # out[i]
        BY <3>1 DEF MergeIInv, LevelsInOrder
      <4> QED BY <4>1, <4>2, <4>3, <4>4
    <3>2. CASE i = Len(out) + 1
      <4>1. /\ out'[i] = Line(f, l, t) /\ out'[i].file = f /\ out'[i].level = l
            /\ out'[i].tsc = t /\ i - 1 = Len(out)
            /\ \A j \in 1 .. i - 1 : j \in 1 .. Len(out) /\ out'[j] = out[j]
        BY <1>0, <1>4, <3>2 DEF Line
      <4>2. ASSUME NEW m \in Complete, m.file = f, m.tsc < t
            PROVE  m \in Range(SubSeq(out', 1, i - 1))
        <5>1. /\ m.level \in Enabled /\ m.level \in Level /\ m.tsc \in Range(log[f][m.level])
              /\ m = Line(f, m.level, m.tsc)
          <6>1. /\ m \in [file : Given, level : Enabled, tsc : Tsc]
                /\ m.tsc \in Range(log[m.file][m.level])
            BY <4>2 DEF Complete
          <6>2. m.level \in Enabled /\ m = Line(m.file, m.level, m.tsc)
            BY <6>1 DEF Line
          <6> QED BY <4>2, <6>1, <6>2, Numbers
        <5>2. log[f][m.level] \in Seq(Tsc)
          BY <1>0, <5>1, FileHas
        <5>3. PICK k \in 1 .. Len(log[f][m.level]) : log[f][m.level][k] = m.tsc
          BY <5>1, <5>2, RangeOf
        <5>4. k \in 1 .. cur[f][m.level]
          <6>1. SUFFICES ASSUME k \notin 1 .. cur[f][m.level] PROVE FALSE
            OBVIOUS
          <6>2. k \in cur[f][m.level] + 1 .. Len(log[f][m.level])
            BY <1>0, <1>2, <5>1, <5>3, <6>1
          <6>3. m.level < NumLevels
            BY <5>1, Numbers
          <6>4. log[f][m.level][k] >= t
            BY <5>1, <6>2, <6>3 DEF Clean, NoOlder
          <6>5. log[f][m.level][k] \in Nat
            BY <1>0, <5>1, <5>3, FileHas
          <6> QED BY <4>2, <5>3, <6>4, <6>5
        <5>5. m \in Range(out)
          BY <5>1, <5>3, <5>4 DEF MergeIInv, Behind
        <5>6. \E j \in 1 .. Len(out) : out[j] = m
          BY <1>0, <5>5, RangeOf
        <5>7. \E j \in 1 .. i - 1 : out'[j] = m
          BY <4>1, <5>6
        <5> QED BY <1>4, <5>7, RangeOfSub
      <4>3. ASSUME NEW j \in 1 .. Len(out), out[j] = Line(f, l, t)
            PROVE  FALSE
        <5>1. PICK k \in 1 .. cur[f][l] : log[f][l][k] = t
          BY <4>3 DEF MergeIInv, Behind, Line
        <5>2. k \in 1 .. Len(log[f][l]) /\ k < cur[f][l] + 1
          BY <1>0, <5>1
        <5>3. log[f][l][k] < log[f][l][cur[f][l] + 1]
          BY <1>0, <5>2 DEF MergeIInv, Growing
        <5> QED BY <5>1, <5>3
      <4> QED BY <4>1, <4>2, <4>3
    <3> QED BY <1>0, <1>4, <3>1, <3>2
  <2>2. Complete' = Complete
    BY <1>0 DEF Complete
  <2> QED BY <2>1, <2>2 DEF LevelsInOrder
<1>8. ASSUME NEW g \in File, NEW u \in Nat, Clean(g, u)
      PROVE  Clean(g, u)'
  <2>1. ASSUME NEW k \in Enabled, k < NumLevels, NEW i \in cur'[g][k] + 1 .. Len(log[g][k])
        PROVE  log[g][k][i] >= u
    <3>1. i \in cur[g][k] + 1 .. Len(log[g][k])
      BY <1>2, <2>1, Numbers
    <3> QED BY <1>8, <2>1, <3>1 DEF Clean, NoOlder
  <2> QED BY <1>0, <1>8, <2>1 DEF Clean, Settled, NoOlder
<1> QED BY <1>1, <1>4, <1>5, <1>6, <1>7, <1>8

\* tailBuffer prints the message that was chosen, or chooses anew.
LEMMA Consumes ==
    ASSUME MergeIInv, NEW f \in Given, NEW l \in Enabled, NEW t \in Nat,
           Misread(f, [tsc |-> t, buf |-> l]) \/ Clean(f, t),
           cur[f][l] < Len(log[f][l]), Consume(f, t, l),
           UNCHANGED <<writerVars, files, phase>>
    PROVE  /\ cur' \in [File -> [Level -> Nat]] /\ out' \in Seq(Lines)
           /\ next' \in [File -> Choice] /\ next'[f] = NoNext
           /\ Growing' /\ Writing' /\ Chosen' /\ Behind' /\ LevelsInOrder'
           /\ \A g \in File, u \in Nat : Clean(g, u) => Clean(g, u)'
<1>0. /\ MergeTypes /\ Sound /\ f \in File /\ l \in Level
      /\ log' = log /\ writer' = writer /\ clock' = clock /\ phase' = phase
      /\ Given' = Given
  BY GivenFiles, Numbers DEF MergeIInv, Sound, MergeTypes, writerVars, Given
<1>1. /\ next' \in [File -> Choice] /\ next'[f] = NoNext
      /\ \A g \in File \ {f} : next'[g] = next[g]
  <2>1. next \in [File -> Choice] /\ next' = [next EXCEPT ![f] = NoNext]
    BY <1>0 DEF MergeTypes, Consume
  <2> QED BY <1>0, <2>1, NoChoice
<1>2. Writing'
  BY <1>0 DEF Sound, Writing
<1>3. /\ cur' \in [File -> [Level -> Nat]] /\ out' \in Seq(Lines)
      /\ \A g \in File \ {f} : cur'[g] = cur[g]
      /\ Growing' /\ Behind' /\ LevelsInOrder'
      /\ \A g \in File, u \in Nat : Clean(g, u) => Clean(g, u)'
  <2>1. CASE NextTsc(f, l) = t
    <3>1. cur[f][l] + 1 \in 1 .. Len(log[f][l]) /\ log[f][l][cur[f][l] + 1] = t
      BY <1>0, <2>1, ReadIs, FileHas
    <3>2. Clean(f, t)
      BY <1>0, <3>1, FileHas DEF Misread
    <3>3. cur' = [cur EXCEPT ![f][l] = @ + 1] /\ out' = Append(out, Line(f, l, t))
      BY <2>1 DEF Consume
    <3> QED BY <3>1, <3>2, <3>3, Prints
  <2>2. CASE NextTsc(f, l) # t
    <3>1. cur' = cur /\ out' = out
      BY <2>2 DEF Consume
    <3>2. Growing' /\ Behind' /\ LevelsInOrder'
      BY <1>0, <3>1 DEF MergeIInv, Growing, Behind, LevelsInOrder, Complete
    <3>3. \A g, u : Clean(g, u) => Clean(g, u)'
      BY <1>0, <3>1 DEF Clean, Settled, NoOlder
    <3> QED BY <1>0, <3>1, <3>2, <3>3 DEF MergeTypes
  <2> QED BY <2>1, <2>2
<1>4. Chosen'
  <2>1. ASSUME NEW g \in File, next'[g].buf # -1
        PROVE  Misread(g, next[g])' \/ Clean(g, next[g].tsc)'
    <3>1. g # f /\ next'[g] = next[g]
      BY <1>1, <2>1, NoChoice
    <3>2. next[g].tsc \in Nat /\ (Misread(g, next[g]) \/ Clean(g, next[g].tsc))
      BY <1>0, <2>1, <3>1, FileHas DEF MergeIInv, Chosen
    <3>3. Misread(g, next[g]) => Misread(g, next[g])'
      BY <1>0, <1>3, <3>1 DEF Misread
    <3>4. Clean(g, next[g].tsc) => Clean(g, next[g].tsc)'
      BY <1>0, <1>3, <3>1, <3>2 DEF Clean, Settled, NoOlder
    <3> QED BY <3>2, <3>3, <3>4
  <2> QED BY <2>1 DEF Chosen
<1> QED BY <1>1, <1>2, <1>3, <1>4

\* A set of natural numbers that is not empty has a smallest one.
LEMMA Smallest ==
    ASSUME NEW T \in SUBSET Nat, T # {}
    PROVE  \E x \in T : \A y \in T : x <= y
<1> DEFINE R == OpToRel(<, Nat)
<1>1. IsWellFoundedOn(R, Nat)
  BY NatLessThanWellFounded
<1>2. \A x, y \in Nat : <<y, x>> \in R <=> y < x
  BY DEF OpToRel
<1> HIDE DEF R
<1>3. PICK x \in T : \A y \in T : ~ (<<y, x>> \in R)
  BY <1>1, WFMin
<1>4. ASSUME NEW y \in T
      PROVE  x <= y
  <2>1. x \in Nat /\ y \in Nat
    OBVIOUS
  <2>2. ~ (y < x)
    BY <1>2, <1>3, <2>1
  <2> QED BY <2>1, <2>2
<1> QED BY <1>4

\* There is a first among the files with the smallest timestamp.
LEMMA MinTailIs ==
    ASSUME MergeTypes, Candidates # {}
    PROVE  /\ MinTail \in Candidates
           /\ \A g \in Candidates : \/ next[MinTail].tsc < next[g].tsc
                                    \/ next[MinTail].tsc = next[g].tsc /\ MinTail <= g
<1>0. /\ Candidates \subseteq Given /\ Given \subseteq File /\ File \subseteq Nat
      /\ \A f \in Candidates : next[f].tsc \in Nat /\ f \in Nat
  BY GivenFiles, Numbers, FileHas DEF Candidates, MergeTypes
<1> DEFINE T == {next[f].tsc : f \in Candidates}
<1>1. PICK t \in T : \A u \in T : t <= u
  <2>1. T \in SUBSET Nat /\ T # {}
    BY <1>0
  <2> HIDE DEF T
  <2> QED BY <2>1, Smallest
<1> DEFINE F == {f \in Candidates : next[f].tsc = t}
<1>2. PICK f \in F : \A g \in F : f <= g
  <2>1. F \in SUBSET Nat /\ F # {}
    BY <1>0, <1>1
  <2> HIDE DEF F
  <2> QED BY <2>1, Smallest
<1>3. f \in Candidates /\ next[f].tsc = t
  BY <1>2
<1>4. ASSUME NEW g \in Candidates
      PROVE  next[f].tsc < next[g].tsc \/ (next[f].tsc = next[g].tsc /\ f <= g)
  <2>1. t <= next[g].tsc /\ next[g].tsc \in Nat /\ t \in Nat
    BY <1>0, <1>1
  <2>2. CASE next[g].tsc = t
    BY <1>2, <1>3, <2>2
  <2>3. CASE next[g].tsc # t
    BY <1>3, <2>1, <2>3
  <2> QED BY <2>2, <2>3
<1> QED BY <1>3, <1>4 DEF MinTail

\* tailMany prints from the file with the smallest timestamp, or from none.
LEMMA PickIInv ==
    ASSUME MergeIInv, Pick
    PROVE  MergeIInv'
<1> DEFINE f == MinTail
<1>0. /\ MergeTypes /\ UNCHANGED <<writerVars, files, phase>> /\ scan' = scan /\ queue' = queue
      /\ pc' = "begin"
      /\ log' = log /\ writer' = writer /\ clock' = clock /\ files' = files /\ phase' = phase
      /\ Given' = Given
  BY DEF MergeIInv, Pick, writerVars, Given
<1>1. CASE Candidates # {} /\ Decodes(f, next[f].buf, curTsc)
  <2>1. f \in Given /\ f \in File /\ next[f].buf >= 0
    BY <1>0, <1>1, MinTailIs, GivenFiles DEF Candidates, MergeTypes
  <2>2. /\ next[f] \in Choice /\ next[f].buf \in Enabled /\ next[f].tsc \in Nat
        /\ next[f].buf # -1
    BY <1>0, <2>1, FileHas
  <2>3. next[f] = [tsc |-> next[f].tsc, buf |-> next[f].buf]
    BY <2>2 DEF Choice
  <2>4. Misread(f, next[f]) \/ Clean(f, next[f].tsc)
    BY <2>1, <2>2 DEF MergeIInv, Chosen
  <2>5. cur[f][next[f].buf] < Len(log[f][next[f].buf]) /\ Consume(f, next[f].tsc, next[f].buf)
    BY <1>1 DEF Pick, Decodes
  <2> HIDE DEF f
  <2>6. /\ cur' \in [File -> [Level -> Nat]] /\ out' \in Seq(Lines)
        /\ next' \in [File -> Choice]
        /\ Growing' /\ Writing' /\ Chosen' /\ Behind' /\ LevelsInOrder'
        /\ \A g \in File, u \in Nat : Clean(g, u) => Clean(g, u)'
    BY <1>0, <2>1, <2>2, <2>3, <2>4, <2>5, Consumes
  <2>7. MergeTypes'
    BY <1>0, <2>6 DEF MergeTypes, Entries, Lines
  <2>8. Rounds'
    BY <1>0 DEF Rounds
  <2>9. Queued'
    <3>1. ASSUME NEW i \in 1 .. Len(queue) PROVE Clean(queue[i].file, queue[i].tsc)'
      <4>1. Clean(queue[i].file, queue[i].tsc)
        BY DEF MergeIInv, Queued
      <4> QED BY <1>0, <2>6, <4>1, QueueHas DEF Clean, Settled, NoOlder
    <3> QED BY <1>0, <3>1 DEF MergeIInv, Queued
  <2> QED BY <2>6, <2>7, <2>8, <2>9 DEF MergeIInv
<1>2. CASE ~ (Candidates # {} /\ Decodes(f, next[f].buf, curTsc))
  <2>1. cur' = cur /\ out' = out /\ next' = next
    BY <1>2 DEF Pick
  <2> QED BY <1>0, <2>1, RestIInv
<1> QED BY <1>1, <1>2

(***************************************************************************)
(* catMany                                                                 *)
(***************************************************************************)

\* The places of a queue at which there are smaller keys.
Smaller(q, e) == {i \in 1 .. Len(q) : Before(q[i], e)}

Place(q, e) == Cardinality(Smaller(q, e))

\* A key is put where as many keys are before it as are smaller than it.
LEMMA InsertIs ==
    ASSUME NEW S, NEW q \in Seq(S), NEW e \in S
    PROVE  /\ Place(q, e) \in 0 .. Len(q)
           /\ Insert(q, e) \in Seq(S) /\ Len(Insert(q, e)) = Len(q) + 1
           /\ \A i \in 1 .. Place(q, e) : Insert(q, e)[i] = q[i]
           /\ Insert(q, e)[Place(q, e) + 1] = e
           /\ \A i \in Place(q, e) + 2 .. Len(q) + 1 : Insert(q, e)[i] = q[i - 1]
<1> DEFINE k == Place(q, e)
<1>1. k \in 0 .. Len(q)
  <2>1. Smaller(q, e) \in SUBSET (1 .. Len(q))
    BY DEF Smaller
  <2>2. IsFiniteSet(1 .. Len(q)) /\ Cardinality(1 .. Len(q)) = Len(q) /\ Len(q) \in Nat
    <3>1. Len(q) \in Nat /\ 1 \in Int /\ Len(q) \in Int
      OBVIOUS
    <3> QED BY <3>1, FS_Interval
  <2>3. IsFiniteSet(Smaller(q, e)) /\ Cardinality(Smaller(q, e)) <= Len(q)
    BY <2>1, <2>2, FS_Subset
  <2>4. Cardinality(Smaller(q, e)) \in Nat
    BY <2>3, FS_CardinalityType
  <2> QED BY <2>2, <2>3, <2>4 DEF Place
<1>2. Insert(q, e) = SubSeq(q, 1, k) \o <<e>> \o SubSeq(q, k + 1, Len(q))
  BY DEF Insert, Place, Smaller
<1> HIDE DEF k
<1> DEFINE a == SubSeq(q, 1, k)
           b == SubSeq(q, k + 1, Len(q))
           s == Insert(q, e)
<1>3. a \in Seq(S) /\ Len(a) = k /\ \A i \in 1 .. k : a[i] = q[i]
  BY <1>1
<1>4. /\ b \in Seq(S) /\ Len(b) = Len(q) - k
      /\ \A i \in 1 .. Len(q) - k : b[i] = q[i + k]
  BY <1>1
<1>5. s = a \o <<e>> \o b
  BY <1>2
<1> HIDE DEF a, b, s
<1>6. /\ a \o <<e>> \in Seq(S) /\ Len(a \o <<e>>) = k + 1
      /\ \A i \in 1 .. k : (a \o <<e>>)[i] = q[i]
      /\ (a \o <<e>>)[k + 1] = e
  BY <1>1, <1>3
<1>7. /\ s \in Seq(S) /\ Len(s) = Len(q) + 1
      /\ \A i \in 1 .. k + 1 : s[i] = (a \o <<e>>)[i]
      /\ \A i \in k + 2 .. Len(q) + 1 : s[i] = b[i - (k + 1)]
  BY <1>1, <1>4, <1>5, <1>6
<1>8. ASSUME NEW i \in k + 2 .. Len(q) + 1 PROVE s[i] = q[i - 1]
  <2>1. i - (k + 1) \in 1 .. Len(q) - k /\ i - (k + 1) + k = i - 1
    BY <1>1
  <2> QED BY <1>4, <1>7, <2>1
<1>9. ASSUME NEW i \in 1 .. k PROVE s[i] = q[i]
  <2>1. i \in 1 .. k + 1
    BY <1>1
  <2> QED BY <1>6, <1>7, <2>1
<1>10. s[k + 1] = e
  <2>1. k + 1 \in 1 .. k + 1
    BY <1>1
  <2> QED BY <1>6, <1>7, <2>1
<1> QED BY <1>1, <1>7, <1>8, <1>9, <1>10 DEF k, s

\* So its elements are the key and those there were.
LEMMA InsertHas ==
    ASSUME NEW S, NEW q \in Seq(S), NEW e \in S
    PROVE  /\ Insert(q, e) \in Seq(S) /\ Insert(q, e) # <<>>
           /\ \A i \in 1 .. Len(Insert(q, e)) :
                 Insert(q, e)[i] = e \/ \E j \in 1 .. Len(q) : Insert(q, e)[i] = q[j]
<1> DEFINE s == Insert(q, e)
           k == Place(q, e)
<1>1. /\ k \in 0 .. Len(q) /\ s \in Seq(S) /\ Len(s) = Len(q) + 1
      /\ \A i \in 1 .. k : s[i] = q[i]
      /\ s[k + 1] = e
      /\ \A i \in k + 2 .. Len(q) + 1 : s[i] = q[i - 1]
  <2>1. Insert(q, e) \in Seq(S)
    BY InsertIs
  <2>2. Place(q, e) \in 0 .. Len(q) /\ Len(Insert(q, e)) = Len(q) + 1
    BY InsertIs
  <2>3. \A i \in 1 .. Place(q, e) : Insert(q, e)[i] = q[i]
    BY InsertIs
  <2>4. Insert(q, e)[Place(q, e) + 1] = e
    BY InsertIs
  <2>5. \A i \in Place(q, e) + 2 .. Len(q) + 1 : Insert(q, e)[i] = q[i - 1]
    BY InsertIs
  <2> QED BY <2>1, <2>2, <2>3, <2>4, <2>5
<1> HIDE DEF s, k
<1>2. ASSUME NEW i \in 1 .. Len(s)
      PROVE  s[i] = e \/ \E j \in 1 .. Len(q) : s[i] = q[j]
  <2>1. CASE i <= k
    <3>1. i \in 1 .. k /\ i \in 1 .. Len(q)
      BY <1>1, <2>1
    <3> QED BY <1>1, <3>1
  <2>2. CASE i = k + 1
    BY <1>1, <2>2
  <2>3. CASE i > k + 1
    <3>1. i - 1 \in 1 .. Len(q) /\ s[i] = q[i - 1]
      BY <1>1, <2>3
    <3> QED BY <3>1
  <2> QED BY <1>1, <2>1, <2>2, <2>3
<1>3. s \in Seq(S) /\ s # <<>>
  BY <1>1
<1>4. /\ s \in Seq(S) /\ s # <<>>
      /\ \A i \in 1 .. Len(s) : s[i] = e \/ \E j \in 1 .. Len(q) : s[i] = q[j]
  BY <1>2, <1>3
<1> QED BY <1>4 DEF s

\* A file with a message is queued by it.
LEMMA EntryIs ==
    ASSUME MergeIInv, phase # "tail", NEW f \in Given, next[f].buf >= 0
    PROVE  /\ Entry(f, next[f]) \in Entries
           /\ Entry(f, next[f]).file = f /\ Entry(f, next[f]).tsc = next[f].tsc
           /\ Entry(f, next[f]).buf = next[f].buf
           /\ Clean(f, next[f].tsc)
<1>1. f \in File /\ MergeTypes
  BY GivenFiles DEF MergeIInv, MergeTypes
<1>2. next[f].buf \in Enabled /\ next[f].tsc \in Nat
  BY <1>1, FileHas
<1>3. Clean(f, next[f].tsc)
  BY <1>1, <1>2, FileHas, Numbers DEF MergeIInv, Chosen, Misread
<1> QED BY <1>2, <1>3 DEF Entry, Entries

\* A step of qttail that changes the queue but reads and prints nothing.
LEMMA QueueStep ==
    ASSUME MergeIInv, UNCHANGED <<writerVars, files, cur, next, out>>,
           phase # "tail", phase' \in {"fill", "cat"},
           queue' \in Seq(Entries),
           \A i \in 1 .. Len(queue') : Clean(queue'[i].file, queue'[i].tsc),
           phase' = "cat" => pc' = "head",
           \/ pc' # "scan" /\ \E f \in Given : scan' = Round(f, Infinite)
           \/ pc' # "scan" /\ scan' = scan
           \/ \E f \in Given : Call(f, next[f])
    PROVE  MergeIInv'
<1>0. /\ MergeTypes /\ Infinite \in Nat /\ Given \subseteq File
      /\ clock' = clock /\ log' = log /\ writer' = writer /\ files' = files
      /\ cur' = cur /\ next' = next /\ out' = out /\ Given' = Given
      /\ phase \in {"fill", "cat"}
  BY Numbers, GivenFiles DEF MergeIInv, MergeTypes, writerVars, Given
<1>1. MergeTypes'
  <2>1. scan' \in [file : Given, level : 0 .. NumLevels, min : Choice, prev : Nat]
    BY <1>0, RoundIs DEF MergeTypes, Call
  <2> QED BY <1>0, <2>1 DEF MergeTypes, Entries, Lines
<1>2. Rounds'
  <2>1. CASE pc' # "scan"
    BY <2>1 DEF Rounds
  <2>2. CASE pc' = "scan"
    <3>1. PICK f \in Given : Call(f, next[f])
      BY <2>2
    <3>2. next'[f].buf = -1 /\ scan' = Round(f, Infinite)
      BY <1>0, <2>2, <3>1, FileHas, Numbers DEF Call
    <3> QED BY <1>0, <1>1, <3>2, FreshRound
  <2> QED BY <2>1, <2>2
<1>3. Writing' /\ Growing'
  BY <1>0 DEF MergeIInv, Writing, Growing
<1>4. Chosen' /\ Behind' /\ LevelsInOrder'
  BY <1>0 DEF MergeIInv, Chosen, Misread, Clean, Settled, NoOlder, Behind, LevelsInOrder,
              Complete
<1>5. Queued'
  BY <1>0 DEF Queued, Clean, Settled, NoOlder
<1> QED BY <1>1, <1>2, <1>3, <1>4, <1>5 DEF MergeIInv

\* populateQueue queues a file.
LEMMA PopulateIInv ==
    ASSUME MergeIInv, Populate
    PROVE  MergeIInv'
<1> DEFINE f == scan.file
<1>0. /\ MergeTypes /\ f \in Given /\ phase = "fill" /\ queue \in Seq(Entries)
      /\ next[f].buf \in Enabled \cup {-1}
      /\ UNCHANGED <<writerVars, files, cur, next, out>>
  BY ScanHas, FileHas DEF MergeIInv, MergeTypes, Populate
<1>1. /\ queue' \in Seq(Entries)
      /\ \A i \in 1 .. Len(queue') : Clean(queue'[i].file, queue'[i].tsc)
  <2>1. \A i \in 1 .. Len(queue) : Clean(queue[i].file, queue[i].tsc)
    BY DEF MergeIInv, Queued
  <2>2. CASE next[f].buf < 0
    BY <1>0, <2>1, <2>2 DEF Populate
  <2>3. CASE next[f].buf >= 0
    <3>1. queue' = Insert(queue, Entry(f, next[f]))
      <4>2. ~ next[f].buf < 0
        BY <1>0, <2>3, BufIs
      <4> QED BY <4>2 DEF Populate
    <3>2. /\ Entry(f, next[f]) \in Entries /\ Entry(f, next[f]).file = f
          /\ Entry(f, next[f]).tsc = next[f].tsc /\ Clean(f, next[f].tsc)
      BY <1>0, <2>3, EntryIs
    <3> HIDE DEF f
    <3>3. /\ queue' \in Seq(Entries)
          /\ \A i \in 1 .. Len(queue') : \/ queue'[i] = Entry(f, next[f])
                                         \/ \E j \in 1 .. Len(queue) : queue'[i] = queue[j]
      <4> DEFINE e == Entry(f, next[f])
      <4>1. queue \in Seq(Entries) /\ e \in Entries
        BY <1>0, <3>2
      <4> HIDE DEF e
      <4>2. Insert(queue, e) \in Seq(Entries)
        BY <4>1, InsertHas
      <4>3. \A i \in 1 .. Len(Insert(queue, e)) :
                \/ Insert(queue, e)[i] = e
                \/ \E j \in 1 .. Len(queue) : Insert(queue, e)[i] = queue[j]
        BY <4>1, InsertHas
      <4> QED BY <3>1, <4>2, <4>3 DEF e
    <3> QED BY <2>1, <3>2, <3>3
  <2>4. next[f].buf < 0 \/ next[f].buf >= 0
    BY <1>0, BufIs
  <2> QED BY <2>2, <2>3, <2>4
<1>2. CASE scan.file + 1 < files
  <2>1. scan.file + 1 \in Given
    BY <1>0, <1>2, GivenFiles, ScanHas DEF MergeTypes, Given
  <2> QED BY <1>0, <1>1, <1>2, <2>1, QueueStep DEF Populate
<1>3. CASE ~ scan.file + 1 < files
  <2>1. 0 \in Given
    BY <1>0, GivenFiles DEF MergeTypes
  <2>2. phase' = "cat" /\ pc' = "head" /\ scan' = Round(0, Infinite)
    BY <1>3 DEF Populate
  <2> QED BY <1>0, <1>1, <2>1, <2>2, QueueStep
<1> QED BY <1>2, <1>3

\* catMany consumes the message at the head of the queue.
LEMMA CatDumpIInv ==
    ASSUME MergeIInv, CatDump
    PROVE  MergeIInv'
<1> DEFINE h == queue[1]
<1>0. /\ MergeTypes /\ phase # "tail" /\ queue # <<>> /\ queue' = queue /\ Infinite \in Nat
      /\ UNCHANGED <<writerVars, files, phase>>
      /\ log' = log /\ writer' = writer /\ clock' = clock /\ files' = files /\ phase' = phase
      /\ Given' = Given
  BY Numbers DEF MergeIInv, Queued, CatDump, writerVars, Given
<1>1. /\ 1 \in 1 .. Len(queue) /\ h.file \in Given /\ h.file \in File
      /\ h.tsc \in Nat /\ h.buf \in Enabled /\ Clean(h.file, h.tsc)
  <2>1. queue \in Seq(Entries)
    BY <1>0 DEF MergeTypes
  <2>2. 1 \in 1 .. Len(queue)
    BY <1>0, <2>1
  <2> QED BY <1>0, <2>2, QueueHas DEF MergeIInv, Queued
<1>2. CASE Decodes(h.file, h.buf, Infinite)
  <2>1. /\ Consume(h.file, h.tsc, h.buf) /\ scan' = Round(h.file, Infinite)
        /\ pc' = "scan" /\ cur[h.file][h.buf] < Len(log[h.file][h.buf])
    BY <1>2 DEF CatDump, Decodes, Call, NoNext
  <2> HIDE DEF h
  <2>2. /\ cur' \in [File -> [Level -> Nat]] /\ out' \in Seq(Lines)
        /\ next' \in [File -> Choice] /\ next'[h.file] = NoNext
        /\ Growing' /\ Writing' /\ Chosen' /\ Behind' /\ LevelsInOrder'
        /\ \A g \in File, u \in Nat : Clean(g, u) => Clean(g, u)'
    BY <1>0, <1>1, <2>1, Consumes
  <2>3. MergeTypes'
    BY <1>0, <1>1, <2>1, <2>2, RoundIs DEF MergeTypes, Entries, Lines
  <2>4. Rounds'
    BY <1>0, <1>1, <2>1, <2>2, <2>3, FreshRound, NoChoice
  <2>5. Queued'
    <3>1. ASSUME NEW i \in 1 .. Len(queue) PROVE Clean(queue[i].file, queue[i].tsc)'
      <4>1. Clean(queue[i].file, queue[i].tsc)
        BY DEF MergeIInv, Queued
      <4> QED BY <1>0, <2>2, <4>1, QueueHas DEF Clean, Settled, NoOlder
    <3> QED BY <1>0, <3>1 DEF Queued
  <2> QED BY <2>2, <2>3, <2>4, <2>5 DEF MergeIInv
<1>3. CASE ~ Decodes(h.file, h.buf, Infinite)
  <2>1. /\ cur' = cur /\ out' = out /\ next' = next /\ scan' = scan /\ pc' = "exit"
    BY <1>3 DEF CatDump
  <2> QED BY <1>0, <2>1, RestIInv
<1> QED BY <1>2, <1>3

\* catMany puts the file at the head of the queue where it belongs now.
LEMMA RequeueIInv ==
    ASSUME MergeIInv, Requeue
    PROVE  MergeIInv'
<1> DEFINE f == scan.file
           e == Entry(f, next[f])
<1>0. /\ MergeTypes /\ f \in Given /\ phase = "cat" /\ phase' = "cat" /\ pc' = "head"
      /\ queue \in Seq(Entries) /\ queue # <<>> /\ scan' = scan
      /\ next[f].buf \in Enabled \cup {-1}
      /\ UNCHANGED <<writerVars, files, cur, next, out>>
  BY ScanHas, FileHas DEF MergeIInv, MergeTypes, Requeue, Queued
<1>1. /\ Tail(queue) \in Seq(Entries) /\ Len(queue) \in Nat /\ Len(queue) >= 1
      /\ Len(Tail(queue)) = Len(queue) - 1
      /\ \A i \in 1 .. Len(Tail(queue)) : Tail(queue)[i] = queue[i + 1]
  BY <1>0
<1>2. \A i \in 1 .. Len(queue) : Clean(queue[i].file, queue[i].tsc)
  BY DEF MergeIInv, Queued
<1>3. \A i \in 1 .. Len(Tail(queue)) : Clean(Tail(queue)[i].file, Tail(queue)[i].tsc)
  BY <1>1, <1>2
<1>4. /\ queue' \in Seq(Entries)
      /\ \A i \in 1 .. Len(queue') : Clean(queue'[i].file, queue'[i].tsc)
  <2>1. CASE next[f].buf < 0
    BY <1>1, <1>3, <2>1 DEF Requeue
  <2>2. CASE next[f].buf >= 0
    <3>1. e \in Entries /\ Clean(e.file, e.tsc)
      BY <1>0, <2>2, EntryIs
    <3>2. queue' = Insert(Tail(queue), e) \/ queue' = [queue EXCEPT ![1] = e]
      <4>1. ~ next[f].buf < 0
        BY <1>0, <2>2, BufIs
      <4> QED BY <4>1 DEF Requeue
    <3> HIDE DEF e, f
    <3>3. CASE queue' = Insert(Tail(queue), e)
      <4> DEFINE r == Tail(queue)
      <4>1. r \in Seq(Entries) /\ e \in Entries
        BY <1>1, <3>1
      <4>2. /\ queue' = Insert(r, e)
            /\ \A i \in 1 .. Len(r) : Clean(r[i].file, r[i].tsc)
        BY <1>3, <3>3
      <4> HIDE DEF r
      <4>3. Insert(r, e) \in Seq(Entries)
        BY <4>1, InsertHas
      <4>4. \A i \in 1 .. Len(Insert(r, e)) :
                Insert(r, e)[i] = e \/ \E j \in 1 .. Len(r) : Insert(r, e)[i] = r[j]
        BY <4>1, InsertHas
      <4>5. Clean(e.file, e.tsc)
        BY <3>1
      <4> QED BY <4>2, <4>3, <4>4, <4>5
    <3>4. CASE queue' = [queue EXCEPT ![1] = e]
      BY <1>0, <1>2, <3>1, <3>4
    <3> QED BY <3>2, <3>3, <3>4
  <2>3. next[f].buf < 0 \/ next[f].buf >= 0
    BY <1>0, BufIs
  <2> QED BY <2>1, <2>2, <2>3
<1> HIDE DEF e, f
<1> QED BY <1>0, <1>4, QueueStep

(***************************************************************************)
(* The theorems                                                            *)
(***************************************************************************)

\* Where qttail and the programs begin.
LEMMA InitMergeIInv == Init => MergeIInv
<1> SUFFICES ASSUME Init PROVE MergeIInv
  OBVIOUS
<1>0. /\ clock = 0 /\ cur = [f \in File |-> [l \in Level |-> 0]]
      /\ next = [f \in File |-> NoNext] /\ scan = Round(0, Infinite)
      /\ queue = <<>> /\ out = <<>> /\ files \in TailFiles \cup CatFiles
      /\ phase \in {"tail", "fill"} /\ phase # "cat"
  BY DEF Init, TailInit, CatInit
<1>1. /\ 0 \in Given /\ Given \subseteq File /\ Infinite \in Nat
  BY <1>0, GivenFiles, Numbers
<1>2. /\ log \in [File -> [Level -> Seq(Tsc)]]
      /\ writer \in [File -> [at : At, level : Level, tsc : Nat, seen : Nat]]
      /\ Writing
      /\ \A f \in File, l \in Level :
            /\ \A i, j \in 1 .. Len(log[f][l]) : i < j => log[f][l][i] < log[f][l][j]
            /\ \A i \in 1 .. Len(log[f][l]) :
                  /\ phase = "tail" => log[f][l][i] <= clock
                  /\ writer[f].at # "idle" => log[f][l][i] < writer[f].tsc
  <2>1. CASE TailInit
    BY <1>0, <2>1, Idles DEF TailInit, Writing
  <2>2. CASE CatInit
    <3>1. phase = "fill" /\ \E c \in [Given -> Left] :
              /\ log = [f \in File |-> IF f \in Given THEN c[f].log
                                       ELSE [l \in Level |-> <<>>]]
              /\ writer = [f \in File |-> IF f \in Given THEN c[f].writer ELSE Idle]
      BY <2>2 DEF CatInit
    <3>2. PICK c \in [Given -> Left] :
              /\ log = [f \in File |-> IF f \in Given THEN c[f].log
                                       ELSE [l \in Level |-> <<>>]]
              /\ writer = [f \in File |-> IF f \in Given THEN c[f].writer ELSE Idle]
      BY <3>1
    <3>3. ASSUME NEW f \in File
          PROVE  /\ log[f] \in [Level -> Seq(Tsc)]
                 /\ writer[f] \in [at : At, level : Level, tsc : Nat, seen : Nat]
                 /\ writer[f].at \in {"idle", "open"}
                 /\ writer[f].at = "idle" => writer[f].seen = 0
                 /\ writer[f].at = "open" => writer[f].seen = writer[f].tsc
                                             /\ writer[f].tsc \in Tsc
                 /\ \A l \in Level :
                      /\ \A i, j \in 1 .. Len(log[f][l]) : i < j => log[f][l][i] < log[f][l][j]
                      /\ \A i \in 1 .. Len(log[f][l]) :
                            writer[f].at # "idle" => log[f][l][i] < writer[f].tsc
      <4>1. CASE f \notin Given
        BY <3>2, <4>1, Idles
      <4>2. CASE f \in Given
        <5> DEFINE d == c[f]
        <5>1. d \in Left /\ log[f] = d.log /\ writer[f] = d.writer
          BY <3>2, <4>2
        <5> HIDE DEF d
        <5>2. /\ d.log \in [Level -> Increasing] /\ d.writer \in {Idle} \cup Broken
              /\ \A l \in Level : \A t \in Range(d.log[l]) : d.writer # Idle => t < d.writer.tsc
          BY <5>1 DEF Left
        <5>3. ASSUME NEW l \in Level
              PROVE  /\ d.log[l] \in Seq(Tsc)
                     /\ \A i, j \in 1 .. Len(d.log[l]) : i < j => d.log[l][i] < d.log[l][j]
                     /\ \A i \in 1 .. Len(d.log[l]) : d.log[l][i] \in Range(d.log[l])
          <6>1. PICK n \in 0 .. MaxTsc : d.log[l] \in [1 .. n -> Tsc]
            BY <5>2 DEF Increasing
          <6>2. d.log[l] \in Seq(Tsc) /\ Len(d.log[l]) = n /\ DOMAIN d.log[l] = 1 .. n
            BY <6>1, Numbers
          <6>3. \A i, j \in DOMAIN d.log[l] : i < j => d.log[l][i] < d.log[l][j]
            BY <5>2 DEF Increasing
          <6> QED BY <6>2, <6>3 DEF Range
        <5>4. d.writer = Idle \/ d.writer \in Broken
          BY <5>2
        <5>5. CASE d.writer = Idle
          BY <5>1, <5>2, <5>3, <5>5, Idles
        <5>6. CASE d.writer \in Broken
          <6>1. PICK k \in CatLevels, t \in Tsc :
                    d.writer = [at |-> "open", level |-> k, tsc |-> t, seen |-> t]
            BY <5>6 DEF Broken
          <6>2. k \in Level /\ t \in Nat
            BY <6>1, Numbers
          <6>3. /\ d.writer \in [at : At, level : Level, tsc : Nat, seen : Nat]
                /\ d.writer.at = "open" /\ d.writer.seen = t /\ d.writer.tsc = t
            BY <6>1, <6>2 DEF At
          <6>4. d.writer # Idle
            BY <6>3, Idles
          <6> QED BY <5>1, <5>2, <5>3, <6>1, <6>3, <6>4
        <5> QED BY <5>4, <5>5, <5>6
      <4> QED BY <4>1, <4>2
    <3>4. /\ log \in [File -> [Level -> Seq(Tsc)]]
          /\ writer \in [File -> [at : At, level : Level, tsc : Nat, seen : Nat]]
      BY <3>2, <3>3
    <3>5. Writing
      BY <3>1, <3>3 DEF Writing
    <3> QED BY <3>1, <3>3, <3>4, <3>5
  <2> QED BY <2>1, <2>2 DEF Init
<1>3. MergeTypes
  <2>1. /\ scan \in [file : Given, level : 0 .. NumLevels, min : Choice, prev : Nat]
        /\ next \in [File -> Choice] /\ clock \in Nat
        /\ cur \in [File -> [Level -> Nat]] /\ phase \in {"tail", "fill", "cat"}
    BY <1>0, <1>1, RoundIs, NoChoice
  <2>2. queue \in Seq(Entries) /\ out \in Seq(Lines)
    BY <1>0
  <2> QED BY <1>0, <1>2, <2>1, <2>2 DEF MergeTypes
<1>4. Growing
  <2>1. ASSUME NEW f \in File, NEW l \in Level PROVE cur[f][l] <= Len(log[f][l])
    BY <1>0, <1>2
  <2> QED BY <1>2, <2>1 DEF Growing
<1>5. Chosen
  BY <1>0, NoChoice DEF Chosen
<1>6. Rounds
  BY <1>0, <1>1, RoundIs, NoChoice DEF Rounds
<1>7. Queued
  BY <1>0 DEF Queued
<1>8. Behind
  <2>1. \A f \in Given, l \in Enabled : cur[f][l] = 0
    BY <1>0, <1>1, Numbers
  <2> QED BY <1>0, <2>1 DEF Behind
<1>9. LevelsInOrder
  BY <1>0 DEF LevelsInOrder
<1> QED BY <1>2, <1>3, <1>4, <1>5, <1>6, <1>7, <1>8, <1>9 DEF MergeIInv

\* Every step keeps the invariant.
LEMMA NextMergeIInv == MergeIInv /\ [Next]_vars => MergeIInv'
<1> SUFFICES ASSUME MergeIInv, [Next]_vars PROVE MergeIInv'
  OBVIOUS
<1>1. CASE QtTail
  BY <1>1, ScanLevelIInv, ScanEndIInv, BeginIInv, AskNextIInv, PickIInv, PopulateIInv,
     CatDumpIInv, RequeueIInv, CatEndIInv DEF QtTail
<1>2. CASE \E f \in File : Trace(f)
  BY <1>2, TraceIInv
<1>3. CASE UNCHANGED vars
  <2>1. /\ UNCHANGED <<writerVars, files, phase, cur, next, out>> /\ queue' = queue
        /\ pc' = pc /\ scan' = scan /\ Given' = Given
        /\ clock' = clock /\ log' = log /\ writer' = writer /\ files' = files /\ phase' = phase
        /\ cur' = cur /\ next' = next /\ out' = out
    BY <1>3 DEF vars, writerVars, Given
  <2>2. MergeTypes'
    BY <2>1 DEF MergeIInv, MergeTypes, Entries, Lines
  <2>3. Rounds'
    BY <2>1 DEF MergeIInv, Rounds, Known, Compared, Settled, NoOlder, OlderWaits, TornAs, Misread
  <2> QED BY <2>1, <2>2, <2>3, Steady DEF MergeIInv
<1> QED BY <1>1, <1>2, <1>3 DEF Next

\* In every state two rounds that agree have found the oldest message, or one that
\* will not be printed.
THEOREM MergeInvariance == Spec => []MergeIInv
<1> QED BY InitMergeIInv, NextMergeIInv, PTL DEF Spec

\* qttail prints the lines of each file in the order in which they were traced,
\* none twice and none left out, although it looks at one ring after the other
\* while the program traces into them and stores timestamps byte by byte.
THEOREM LevelsInOrderHolds == Spec => []LevelsInOrder
<1>1. MergeIInv => LevelsInOrder
  BY DEF MergeIInv
<1> QED BY <1>1, MergeInvariance, PTL

(***************************************************************************)
(* The order of all files together                                         *)
(***************************************************************************)

\* Beside programs that trace there is nothing to be shown.
LEMMA TailPhase ==
    ASSUME phase = "tail", [Next]_vars
    PROVE  CatIInv'
<1>1. phase' = "tail"
  BY DEF Next, QtTail, ScanLevel, ScanEnd, Begin, AskNext, Pick, Populate, CatDump, Requeue,
         CatEnd, Trace, vars
<1> QED BY <1>1 DEF CatIInv, Looked, InOrder, Keyed, Covered, CatSorted

\* What nextTsc reads does not change while the rings are not read further.
LEMMA SameRings ==
    ASSUME writer' = writer, log' = log, cur' = cur
    PROVE  /\ \A f, l : NextTsc(f, l)' = NextTsc(f, l)
           /\ \A f : Empty(f)' <=> Empty(f)
           /\ \A f, n : Found(f, n)' <=> Found(f, n)
BY DEF NextTsc, TscAt, Empty, Found

\* Where the round stands after a ring.
LEMMA ScanLevelIs ==
    ASSUME MergeTypes, ScanLevel
    PROVE  /\ scan'.file = scan.file /\ scan'.level = scan.level + 1
           /\ LET t == NextTsc(scan.file, scan.level)
              IN scan'.min = IF scan.level \in Enabled /\ t # 0 /\ t < scan.min.tsc
                             THEN [tsc |-> t, buf |-> scan.level] ELSE scan.min
<1> DEFINE c == IF /\ scan.level \in Enabled
                   /\ NextTsc(scan.file, scan.level) # 0
                   /\ NextTsc(scan.file, scan.level) < scan.min.tsc
                THEN [tsc |-> NextTsc(scan.file, scan.level), buf |-> scan.level]
                ELSE scan.min
<1>1. scan = [file |-> scan.file, level |-> scan.level, min |-> scan.min, prev |-> scan.prev]
  <2>1. scan \in [file : Given, level : 0 .. NumLevels, min : Choice, prev : Nat]
    BY DEF MergeTypes
  <2> QED BY <2>1
<1>2. scan' = [scan EXCEPT !.level = @ + 1, !.min = c]
  BY DEF ScanLevel
<1> HIDE DEF c
<1>3. scan' = [file |-> scan.file, level |-> scan.level + 1, min |-> c, prev |-> scan.prev]
  BY <1>1, <1>2
<1> QED BY <1>3 DEF c

\* A round goes on with the smallest timestamp.
LEMMA ScanLevelCat ==
    ASSUME MergeIInv, CatIInv, phase # "tail", ScanLevel
    PROVE  CatIInv'
<1> DEFINE f == scan.file
           n == scan.level
           m == scan.min
           t == NextTsc(f, n)
           c == scan'.min
<1>0. /\ MergeTypes /\ Sound /\ pc = "scan" /\ pc' = "scan" /\ n < NumLevels
      /\ writer' = writer /\ log' = log /\ cur' = cur /\ next' = next /\ queue' = queue
      /\ out' = out /\ phase' = phase /\ Given' = Given
  BY DEF MergeIInv, Sound, ScanLevel, writerVars, Given
<1>1. /\ scan'.file = f /\ scan'.level = n + 1
      /\ c = IF n \in Enabled /\ t # 0 /\ t < m.tsc THEN [tsc |-> t, buf |-> n] ELSE m
  BY <1>0, ScanLevelIs
<1>2. /\ f \in File /\ n \in Nat /\ n \in Level /\ m.tsc \in Nat /\ t \in Nat
      /\ Enabled \subseteq Nat /\ Enabled \subseteq Level
      /\ \A l \in Enabled : NextTsc(f, l) \in Nat
  <2>1. n \in Level
    BY <1>0, ScanHas, LevelsAssumption DEF Level
  <2>2. \A l \in Level : NextTsc(f, l) \in Nat
    BY <1>0, ScanHas, ReadIs
  <2> QED BY <1>0, <2>1, <2>2, ScanHas, Numbers
<1>3. /\ m.buf # -1 => NextTsc(f, m.buf) = m.tsc
      /\ \A l \in Enabled : l < n => NextTsc(f, l) = 0 \/ NextTsc(f, l) >= m.tsc
  BY <1>0 DEF CatIInv, Looked
<1> HIDE DEF f, n, m, t, c
<1>4. /\ c.buf # -1 => NextTsc(f, c.buf) = c.tsc
      /\ \A l \in Enabled : l < n + 1 => NextTsc(f, l) = 0 \/ NextTsc(f, l) >= c.tsc
  <2>1. CASE n \in Enabled /\ t # 0 /\ t < m.tsc
    <3>1. c.tsc = t /\ c.buf = n
      BY <1>1, <2>1
    <3>2. t = NextTsc(f, n)
      BY DEF t, f, n
    <3>3. ASSUME NEW l \in Enabled, l < n + 1, NextTsc(f, l) # 0 PROVE NextTsc(f, l) >= t
      <4>1. CASE l < n
        BY <1>2, <1>3, <2>1, <3>3, <4>1
      <4>2. CASE l = n
        BY <1>2, <3>2, <4>2
      <4> QED BY <1>2, <3>3, <4>1, <4>2
    <3> QED BY <3>1, <3>2, <3>3
  <2>2. CASE ~ (n \in Enabled /\ t # 0 /\ t < m.tsc)
    <3>1. c = m
      BY <1>1, <2>2
    <3>2. t = NextTsc(f, n)
      BY DEF t, f, n
    <3>3. ASSUME NEW l \in Enabled, l < n + 1, NextTsc(f, l) # 0 PROVE NextTsc(f, l) >= m.tsc
      <4>1. CASE l < n
        BY <1>3, <3>3, <4>1
      <4>2. CASE l = n
        BY <1>2, <2>2, <3>2, <3>3, <4>2
      <4> QED BY <1>2, <3>3, <4>1, <4>2
    <3> QED BY <1>3, <3>1, <3>3
  <2> QED BY <2>1, <2>2
<1>5. Looked'
  BY <1>0, <1>1, <1>4, SameRings DEF Looked, c
<1>6. InOrder' /\ CatSorted'
  BY <1>0 DEF CatIInv, InOrder, CatSorted, Complete
<1>7. Keyed' /\ Covered'
  <2>1. scan'.file = scan.file
    BY <1>1 DEF f
  <2> QED BY <1>0, <2>1, SameRings DEF CatIInv, Keyed, Covered
<1> QED BY <1>5, <1>6, <1>7 DEF CatIInv

\* When two rounds have agreed the file has the message that they found, or none.
LEMMA ScanEndCat ==
    ASSUME MergeIInv, CatIInv, phase # "tail", ScanEnd
    PROVE  CatIInv'
<1> DEFINE f == scan.file
           m == scan.min
<1>0. /\ MergeTypes /\ Sound /\ pc = "scan" /\ scan.level = NumLevels
      /\ writer' = writer /\ log' = log /\ cur' = cur /\ queue' = queue
      /\ out' = out /\ phase' = phase /\ Given' = Given
  BY DEF MergeIInv, Sound, ScanEnd, writerVars, Given
<1>1. /\ f \in Given /\ f \in File /\ m \in Choice /\ m.tsc \in Nat
      /\ m.buf \in Enabled \cup {-1} /\ Infinite \in Nat
      /\ \A l \in Enabled : l \in Level /\ l < NumLevels
  BY <1>0, ScanHas, Numbers
<1>2. /\ m.buf # -1 => NextTsc(f, m.buf) = m.tsc /\ m.tsc > 0
      /\ \A l \in Enabled : NextTsc(f, l) = 0 \/ NextTsc(f, l) >= m.tsc
      /\ m.buf = -1 => m = NoNext
  BY <1>0, <1>1 DEF CatIInv, Looked, MergeIInv, Rounds
<1>3. InOrder' /\ (pc' \notin {"done", "exit"} => CatSorted')
  BY <1>0 DEF CatIInv, InOrder, CatSorted
<1>4. CASE m.tsc = scan.prev
  <2>1. /\ next' = [next EXCEPT ![f] = m] /\ pc' = "return" /\ scan' = Round(f, Infinite)
    BY <1>4 DEF ScanEnd
  <2>2. Found(f, m)
    <3>1. CASE m.buf = -1
      <4>1. ASSUME NEW l \in Enabled PROVE cur[f][l] = Len(log[f][l])
        <5>1. SUFFICES ASSUME cur[f][l] # Len(log[f][l]) PROVE FALSE
          OBVIOUS
        <5>2. /\ cur[f][l] + 1 \in 1 .. Len(log[f][l]) /\ NextTsc(f, l) > 0
              /\ NextTsc(f, l) = log[f][l][cur[f][l] + 1]
          BY <1>0, <1>1, <5>1, ReadIs
        <5>3. NextTsc(f, l) \in Tsc
          BY <1>0, <1>1, <5>2, FileHas
        <5>4. NextTsc(f, l) < Infinite /\ NextTsc(f, l) \in Nat
          BY <5>3, TscAssumption DEF Tsc, Infinite
        <5>5. NextTsc(f, l) >= Infinite
          BY <1>2, <3>1, <5>2, <5>4, NoChoice
        <5> QED BY <1>1, <5>4, <5>5
      <4> QED BY <3>1, <4>1 DEF Found, Empty
    <3>2. CASE m.buf # -1
      BY <1>2, <3>2 DEF Found
    <3> QED BY <3>1, <3>2
  <2> HIDE DEF f, m
  <2>3. /\ next'[f] = m /\ scan'.file = f
        /\ \A g \in File \ {f} : next'[g] = next[g]
    BY <1>0, <1>1, <2>1, RoundIs DEF MergeTypes
  <2>4. Looked'
    BY <2>1 DEF Looked
  <2>5. Covered'
    BY <1>0, <2>3, SameRings DEF CatIInv, Covered, f
  <2>6. Keyed'
    <3>1. ASSUME NEW i \in 1 .. Len(queue)
          PROVE  \/ queue[i] = Entry(queue[i].file, next'[queue[i].file])
                 \/ phase = "cat" /\ i = 1
      <4>1. CASE queue[i].file # f
        BY <1>0, <2>3, <3>1, <4>1, QueueHas DEF CatIInv, Keyed
      <4>2. CASE queue[i].file = f
        <5>1. phase = "cat" /\ f = queue[1].file
          <6>1. phase = "fill" \/ phase = "cat"
            BY <1>0 DEF MergeTypes
          <6>2. phase = "cat" => f = queue[1].file
            BY <1>0 DEF CatIInv, Keyed, f
          <6>3. phase = "fill" => queue[i].file < f
            BY <3>1 DEF CatIInv, Keyed, f
          <6>4. ~ f < f
            BY <1>1, Numbers
          <6> QED BY <4>2, <6>1, <6>2, <6>3, <6>4
        <5>2. i = 1
          <6>1. SUFFICES ASSUME i # 1 PROVE FALSE
            OBVIOUS
          <6>2. 1 \in 1 .. Len(queue) /\ 1 < i
            BY <3>1, <6>1
          <6> QED BY <1>0, <3>1, <4>2, <5>1, <6>2 DEF CatIInv, InOrder
        <5> QED BY <5>1, <5>2
      <4> QED BY <4>1, <4>2
    <3>2. ASSUME phase = "fill"
          PROVE  /\ out = <<>> /\ \A i \in 1 .. Len(queue) : queue[i].file < f
                 /\ \A g \in Given : g > f => next'[g] = NoNext
      <4>1. /\ out = <<>> /\ \A i \in 1 .. Len(queue) : queue[i].file < f
            /\ \A g \in Given : g > f => next[g] = NoNext
        BY <3>2 DEF CatIInv, Keyed, f
      <4>2. ASSUME NEW g \in Given, g > f PROVE g \in File /\ g # f
        BY <1>0, <1>1, <4>2, GivenFiles, Numbers DEF MergeTypes
      <4> QED BY <2>3, <4>1, <4>2
    <3>3. phase = "cat" => f = queue[1].file
      BY <1>0 DEF CatIInv, Keyed, f
    <3>4. Found(scan.file, next[scan.file])'
      BY <1>0, <2>2, <2>3 DEF Found, Empty, NextTsc, TscAt
    <3> QED BY <1>0, <2>1, <2>3, <3>1, <3>2, <3>3, <3>4 DEF Keyed
  <2> QED BY <1>3, <2>1, <2>4, <2>5, <2>6 DEF CatIInv
<1>5. CASE m.tsc # scan.prev
  <2>1. next' = next /\ pc' = "scan" /\ scan' = Round(f, m.tsc)
    BY <1>0, <1>5 DEF ScanEnd
  <2>2. scan'.file = f /\ scan'.min = NoNext /\ scan'.level = 0
    BY <1>1, <2>1, RoundIs
  <2>3. Looked'
    <3>1. \A l \in Enabled : ~ l < 0
      BY Numbers
    <3> QED BY <2>2, <3>1, NoChoice DEF Looked
  <2>4. Keyed' /\ Covered'
    BY <1>0, <2>1, <2>2, SameRings DEF CatIInv, Keyed, Covered
  <2> QED BY <1>3, <2>1, <2>3, <2>4 DEF CatIInv
<1> QED BY <1>4, <1>5

\* Keys in the order of their timestamps, of files that are different.
Ordered(q) == \A i, j \in 1 .. Len(q) : i < j => q[i].tsc <= q[j].tsc /\ q[i].file # q[j].file

\* A queue in order stays so when a key is put into it.
LEMMA InsertOrdered ==
    ASSUME NEW q \in Seq(Entries), NEW e \in Entries, Ordered(q),
           \A i \in 1 .. Len(q) : q[i].file # e.file
    PROVE  Ordered(Insert(q, e))
<1> DEFINE k == Place(q, e)
           s == Insert(q, e)
<1>0. /\ Len(q) \in Nat /\ e.tsc \in Nat
      /\ \A i \in 1 .. Len(q) : q[i] \in Entries
  <2>1. e.tsc \in Nat
    BY DEF Entries
  <2> QED BY <2>1
<1>1. /\ k \in 0 .. Len(q) /\ Len(s) = Len(q) + 1
      /\ \A i \in 1 .. k : s[i] = q[i]
      /\ s[k + 1] = e
      /\ \A i \in k + 2 .. Len(q) + 1 : s[i] = q[i - 1]
  <2>1. k \in 0 .. Len(q) /\ Len(s) = Len(q) + 1
    BY InsertIs
  <2>2. \A i \in 1 .. k : s[i] = q[i]
    BY InsertIs
  <2>3. s[k + 1] = e
    BY InsertIs
  <2>4. \A i \in k + 2 .. Len(q) + 1 : s[i] = q[i - 1]
    BY InsertIs
  <2> QED BY <2>1, <2>2, <2>3, <2>4
<1>2. \A i \in 1 .. Len(q) : q[i].tsc \in Nat
  BY <1>0 DEF Entries
<1>3. ASSUME NEW i \in 1 .. k PROVE q[i].tsc <= e.tsc
  <2>1. SUFFICES ASSUME q[i].tsc > e.tsc PROVE FALSE
    BY <1>0, <1>1, <1>2
  <2>2. i \in 1 .. Len(q) /\ i \in Nat /\ i - 1 \in Nat
    BY <1>1
  <2>3. ASSUME NEW j \in Smaller(q, e) PROVE j \in 1 .. i - 1
    <3>1. j \in 1 .. Len(q) /\ q[j].tsc <= e.tsc
      BY <1>0, <1>2 DEF Smaller, Before
    <3>2. ~ (j >= i)
      <4>1. SUFFICES ASSUME j >= i PROVE FALSE
        OBVIOUS
      <4>2. q[i].tsc <= q[j].tsc
        <5>1. CASE j = i
          BY <1>2, <2>2, <5>1
        <5>2. CASE i < j
          BY <2>2, <3>1, <5>2 DEF Ordered
        <5> QED BY <2>2, <3>1, <4>1, <5>1, <5>2
      <4> QED BY <1>0, <1>2, <2>1, <2>2, <3>1, <4>2
    <3> QED BY <2>2, <3>1, <3>2
  <2>4. IsFiniteSet(1 .. i - 1) /\ Cardinality(1 .. i - 1) = i - 1
    <3>1. 1 \in Int /\ i - 1 \in Int
      BY <2>2
    <3> QED BY <2>2, <3>1, FS_Interval
  <2>5. Smaller(q, e) \in SUBSET (1 .. i - 1)
    BY <2>3
  <2>6. Cardinality(Smaller(q, e)) <= i - 1
    BY <2>4, <2>5, FS_Subset
  <2> QED BY <1>1, <2>2, <2>6 DEF Place
<1>4. ASSUME NEW i \in k + 1 .. Len(q) PROVE q[i].tsc >= e.tsc
  <2>1. SUFFICES ASSUME q[i].tsc < e.tsc PROVE FALSE
    <3>1. i \in 1 .. Len(q)
      BY <1>1
    <3> QED BY <1>0, <1>2, <3>1
  <2>2. i \in 1 .. Len(q) /\ i \in Nat /\ i > k /\ k \in Nat
    BY <1>1
  <2>3. ASSUME NEW j \in 1 .. i PROVE j \in Smaller(q, e)
    <3>1. j \in 1 .. Len(q)
      BY <1>0, <2>2
    <3>2. q[j].tsc <= q[i].tsc
      <4>1. CASE j = i
        BY <1>2, <2>2, <4>1
      <4>2. CASE j < i
        BY <2>2, <3>1, <4>2 DEF Ordered
      <4> QED BY <2>2, <4>1, <4>2
    <3>3. q[j].tsc < e.tsc
      BY <1>0, <1>2, <2>1, <2>2, <3>1, <3>2
    <3> QED BY <3>1, <3>3 DEF Smaller, Before
  <2>4. Smaller(q, e) \in SUBSET (1 .. Len(q))
    BY DEF Smaller
  <2>5. IsFiniteSet(Smaller(q, e))
    <3>1. 1 \in Int /\ Len(q) \in Int
      BY <1>0
    <3>2. IsFiniteSet(1 .. Len(q))
      BY <3>1, FS_Interval
    <3> QED BY <2>4, <3>2, FS_Subset
  <2>6. Cardinality(1 .. i) = i
    <3>1. 1 \in Int /\ i \in Int
      BY <2>2
    <3> QED BY <2>2, <3>1, FS_Interval
  <2>7. 1 .. i \in SUBSET Smaller(q, e)
    BY <2>3
  <2>8. i <= Cardinality(Smaller(q, e))
    BY <2>5, <2>6, <2>7, FS_Subset
  <2> QED BY <2>2, <2>8 DEF Place
<1> HIDE DEF k, s
<1>5. ASSUME NEW i \in 1 .. Len(s), NEW j \in 1 .. Len(s), i < j
      PROVE  s[i].tsc <= s[j].tsc /\ s[i].file # s[j].file
  <2>1. CASE j <= k
    <3>1. /\ i \in 1 .. k /\ j \in 1 .. k /\ i \in 1 .. Len(q) /\ j \in 1 .. Len(q)
      BY <1>1, <1>5, <2>1
    <3> QED BY <1>1, <1>5, <3>1 DEF Ordered
  <2>2. CASE j = k + 1
    <3>1. i \in 1 .. k /\ i \in 1 .. Len(q)
      BY <1>1, <1>5, <2>2
    <3> QED BY <1>1, <1>3, <2>2, <3>1
  <2>3. CASE i = k + 1
    <3>1. j \in k + 2 .. Len(q) + 1 /\ j - 1 \in k + 1 .. Len(q) /\ j - 1 \in 1 .. Len(q)
      BY <1>1, <1>5, <2>3
    <3> QED BY <1>0, <1>1, <1>2, <1>4, <2>3, <3>1
  <2>4. CASE i <= k /\ j > k + 1
    <3>1. /\ i \in 1 .. k /\ i \in 1 .. Len(q) /\ j \in k + 2 .. Len(q) + 1
          /\ j - 1 \in 1 .. Len(q) /\ i < j - 1
      BY <1>1, <1>5, <2>4
    <3> QED BY <1>1, <3>1 DEF Ordered
  <2>5. CASE i > k + 1
    <3>1. /\ i \in k + 2 .. Len(q) + 1 /\ j \in k + 2 .. Len(q) + 1
          /\ i - 1 \in 1 .. Len(q) /\ j - 1 \in 1 .. Len(q) /\ i - 1 < j - 1
      BY <1>1, <1>5, <2>5
    <3> QED BY <1>1, <3>1 DEF Ordered
  <2> QED BY <1>1, <1>5, <2>1, <2>2, <2>3, <2>4, <2>5
<1>6. Ordered(s)
  BY <1>5 DEF Ordered
<1> QED BY <1>6 DEF s

\* A key that is put into a queue is there, and so are all the others.
LEMMA InsertKeeps ==
    ASSUME NEW S, NEW q \in Seq(S), NEW e \in S
    PROVE  /\ \A i \in 1 .. Len(q) : \E j \in 1 .. Len(Insert(q, e)) : Insert(q, e)[j] = q[i]
           /\ \E j \in 1 .. Len(Insert(q, e)) : Insert(q, e)[j] = e
<1> DEFINE s == Insert(q, e)
           k == Place(q, e)
<1>1. /\ k \in 0 .. Len(q) /\ Len(s) = Len(q) + 1
      /\ \A i \in 1 .. k : s[i] = q[i]
      /\ s[k + 1] = e
      /\ \A i \in k + 2 .. Len(q) + 1 : s[i] = q[i - 1]
  <2>1. k \in 0 .. Len(q) /\ Len(s) = Len(q) + 1
    BY InsertIs
  <2>2. \A i \in 1 .. k : s[i] = q[i]
    BY InsertIs
  <2>3. s[k + 1] = e
    BY InsertIs
  <2>4. \A i \in k + 2 .. Len(q) + 1 : s[i] = q[i - 1]
    BY InsertIs
  <2> QED BY <2>1, <2>2, <2>3, <2>4
<1> HIDE DEF s, k
<1>2. ASSUME NEW i \in 1 .. Len(q) PROVE \E j \in 1 .. Len(s) : s[j] = q[i]
  <2>1. CASE i <= k
    <3>1. i \in 1 .. k /\ i \in 1 .. Len(s)
      BY <1>1, <2>1
    <3> QED BY <1>1, <3>1
  <2>2. CASE i > k
    <3>1. i + 1 \in k + 2 .. Len(q) + 1 /\ i + 1 \in 1 .. Len(s) /\ (i + 1) - 1 = i
      BY <1>1, <2>2
    <3>2. s[i + 1] = q[i]
      BY <1>1, <3>1
    <3> QED BY <3>1, <3>2
  <2> QED BY <1>1, <2>1, <2>2
<1>3. k + 1 \in 1 .. Len(s) /\ s[k + 1] = e
  BY <1>1
<1>4. /\ \A i \in 1 .. Len(q) : \E j \in 1 .. Len(s) : s[j] = q[i]
      /\ \E j \in 1 .. Len(s) : s[j] = e
  BY <1>2, <1>3
<1> QED BY <1>4 DEF s

\* What a queue is into which a key was put that is of another file than the others.
Inserted(q, e, s) ==
    /\ s \in Seq(Entries) /\ Ordered(s)
    /\ \A i \in 1 .. Len(s) : s[i] = e \/ \E j \in 1 .. Len(q) : s[i] = q[j]
    /\ \A i \in 1 .. Len(q) : \E j \in 1 .. Len(s) : s[j] = q[i]
    /\ \E j \in 1 .. Len(s) : s[j] = e

\* All that is said above of a queue and a key that is put into it.
LEMMA InsertedIs ==
    ASSUME NEW q \in Seq(Entries), NEW e \in Entries, Ordered(q),
           \A i \in 1 .. Len(q) : q[i].file # e.file
    PROVE  Inserted(q, e, Insert(q, e))
<1>1. Insert(q, e) \in Seq(Entries)
  BY InsertHas
<1>2. \A i \in 1 .. Len(Insert(q, e)) :
          Insert(q, e)[i] = e \/ \E j \in 1 .. Len(q) : Insert(q, e)[i] = q[j]
  BY InsertHas
<1>3. \A i \in 1 .. Len(q) : \E j \in 1 .. Len(Insert(q, e)) : Insert(q, e)[j] = q[i]
  BY InsertKeeps
<1>4. \E j \in 1 .. Len(Insert(q, e)) : Insert(q, e)[j] = e
  BY InsertKeeps
<1>5. Ordered(Insert(q, e))
  BY InsertOrdered
<1> QED BY <1>1, <1>2, <1>3, <1>4, <1>5 DEF Inserted

\* populateQueue queues the file if it has a message.
LEMMA PopulateCat ==
    ASSUME MergeIInv, CatIInv, phase # "tail", Populate
    PROVE  CatIInv'
<1> DEFINE f == scan.file
           e == Entry(f, next[f])
<1>0. /\ MergeTypes /\ phase = "fill" /\ pc = "return" /\ queue \in Seq(Entries)
      /\ f \in Given /\ f \in File /\ f \in Nat /\ next[f].buf \in Enabled \cup {-1}
      /\ Given \subseteq Nat /\ files \in Nat \ {0}
      /\ writer' = writer /\ log' = log /\ cur' = cur /\ next' = next
      /\ out' = out /\ Given' = Given
  <2>1. MergeTypes /\ phase = "fill" /\ pc = "return" /\ queue \in Seq(Entries)
    BY DEF MergeIInv, MergeTypes, Populate
  <2>2. f \in Given /\ f \in File /\ next[f].buf \in Enabled \cup {-1}
    BY <2>1, ScanHas, FileHas
  <2>3. Given \subseteq Nat /\ files \in Nat \ {0}
    BY <2>1, GivenFiles DEF MergeTypes, Given
  <2>4. /\ writer' = writer /\ log' = log /\ cur' = cur /\ next' = next
        /\ out' = out /\ Given' = Given
    BY DEF Populate, writerVars, Given
  <2> QED BY <2>1, <2>2, <2>3, <2>4
<1>1. /\ Ordered(queue) /\ out = <<>> /\ \A i \in 1 .. Len(queue) : queue[i].file < f
      /\ \A i \in 1 .. Len(queue) : queue[i] = Entry(queue[i].file, next[queue[i].file])
      /\ \A g \in Given : g > f => next[g] = NoNext
      /\ Found(f, next[f])
      /\ \A g \in Given : \/ Empty(g)
                          \/ \E i \in 1 .. Len(queue) : queue[i].file = g
                          \/ f <= g
  BY <1>0 DEF CatIInv, InOrder, Keyed, Covered, Ordered
<1>2. /\ queue' \in Seq(Entries) /\ Ordered(queue')
      /\ \A i \in 1 .. Len(queue') :
            queue'[i].file <= f /\ queue'[i] = Entry(queue'[i].file, next[queue'[i].file])
      /\ \A i \in 1 .. Len(queue) : \E j \in 1 .. Len(queue') : queue'[j] = queue[i]
      /\ Empty(f) \/ \E j \in 1 .. Len(queue') : queue'[j].file = f
  <2>0. \A i \in 1 .. Len(queue) : queue[i].file \in Nat
    BY <1>0, QueueHas
  <2>1. CASE next[f].buf = -1
    <3>1. queue' = queue
      BY <1>0, <2>1 DEF Populate
    <3>2. Empty(f)
      BY <1>1, <2>1 DEF Found
    <3> QED BY <1>0, <1>1, <2>0, <3>1, <3>2
  <2>2. CASE next[f].buf # -1
    <3>1. queue' = Insert(queue, e)
      <4>1. ~ next[f].buf < 0
        BY <1>0, <2>2, BufIs
      <4> QED BY <4>1 DEF Populate
    <3>2. e \in Entries /\ e.file = f /\ e = Entry(e.file, next[e.file])
      <4>1. next[f].buf >= 0
        BY <1>0, <2>2, BufIs
      <4>2. e \in Entries /\ e.file = f
        BY <1>0, <4>1, EntryIs
      <4> QED BY <4>2
    <3> HIDE DEF e, f
    <3>3. \A i \in 1 .. Len(queue) : queue[i].file # e.file
      BY <1>0, <1>1, <2>0, <3>2
    <3>4. Inserted(queue, e, queue')
      <4>1. Inserted(queue, e, Insert(queue, e))
        BY <1>0, <1>1, <3>2, <3>3, InsertedIs
      <4> QED BY <3>1, <4>1
    <3>5. /\ queue' \in Seq(Entries) /\ Ordered(queue')
          /\ \A i \in 1 .. Len(queue') : \/ queue'[i] = e
                                         \/ \E j \in 1 .. Len(queue) : queue'[i] = queue[j]
          /\ \A i \in 1 .. Len(queue) : \E j \in 1 .. Len(queue') : queue'[j] = queue[i]
          /\ \E j \in 1 .. Len(queue') : queue'[j] = e
      BY <3>4 DEF Inserted
    <3>7. ASSUME NEW i \in 1 .. Len(queue')
          PROVE  queue'[i].file <= f /\ queue'[i] = Entry(queue'[i].file, next[queue'[i].file])
      <4>1. CASE queue'[i] = e
        BY <1>0, <3>2, <4>1
      <4>2. CASE \E j \in 1 .. Len(queue) : queue'[i] = queue[j]
        BY <1>0, <1>1, <2>0, <4>2
      <4> QED BY <3>5, <4>1, <4>2
    <3> QED BY <3>2, <3>5, <3>7
  <2> QED BY <2>1, <2>2
<1> HIDE DEF e
<1>3. InOrder'
  BY <1>0, <1>1, <1>2 DEF InOrder, Ordered
<1>4. CASE f + 1 < files
  <2>1. f + 1 \in Given /\ next[f + 1] = NoNext
    BY <1>0, <1>1, <1>4 DEF Given
  <2>2. scan' = Round(f + 1, Infinite) /\ pc' = "scan" /\ phase' = "fill"
    BY <1>0, <1>4, <2>1, NoChoice DEF Populate, Call
  <2> HIDE DEF f
  <2>3. scan'.file = f + 1 /\ scan'.level = 0 /\ scan'.min = NoNext
    BY <2>1, <2>2, RoundIs, Numbers
  <2>4. Looked'
    <3>1. \A l \in Enabled : ~ l < 0
      BY Numbers
    <3> QED BY <2>3, <3>1, NoChoice DEF Looked
  <2>5. Keyed'
    <3>1. \A i \in 1 .. Len(queue') : queue'[i].file < f + 1
      <4>1. ASSUME NEW i \in 1 .. Len(queue') PROVE queue'[i].file < f + 1
        <5>1. queue'[i] \in Entries
          BY <1>2
        <5>2. queue'[i].file \in Given
          BY <5>1 DEF Entries
        <5>3. queue'[i].file \in Nat /\ f \in Nat
          BY <1>0, <5>2
        <5>4. queue'[i].file <= f
          BY <1>2
        <5> QED BY <5>3, <5>4
      <4> QED BY <4>1
    <3>2. \A g \in Given : g > f + 1 => next[g] = NoNext
      BY <1>0, <1>1
    <3> QED BY <1>0, <1>1, <1>2, <2>2, <2>3, <3>1, <3>2 DEF Keyed
  <2>6. Covered'
    <3>1. ASSUME NEW g \in Given, ~ Empty(g), ~ (f + 1 <= g)
          PROVE  \E i \in 1 .. Len(queue') : queue'[i].file = g
      <4>1. CASE g = f
        BY <1>2, <3>1, <4>1
      <4>2. CASE g # f
        <5>1. ~ f <= g
          BY <1>0, <3>1, <4>2
        <5>2. PICK i \in 1 .. Len(queue) : queue[i].file = g
          BY <1>1, <3>1, <5>1
        <5> QED BY <1>2, <5>2
      <4> QED BY <4>1, <4>2
    <3> QED BY <1>0, <2>2, <2>3, <3>1 DEF Covered, Empty
  <2>7. CatSorted'
    BY <1>0, <1>1, <2>2 DEF CatSorted
  <2> QED BY <1>3, <2>4, <2>5, <2>6, <2>7 DEF CatIInv
<1>5. CASE ~ f + 1 < files
  <2>1. phase' = "cat" /\ pc' = "head" /\ scan' = Round(0, Infinite)
    BY <1>5 DEF Populate
  <2>2. \A g \in Given : g <= f
    BY <1>0, <1>5 DEF Given
  <2> HIDE DEF f
  <2>3. Looked' /\ CatSorted'
    BY <1>0, <1>1, <2>1 DEF Looked, CatSorted
  <2>4. Keyed'
    BY <1>0, <1>2, <2>1 DEF Keyed
  <2>5. Covered'
    <3>1. ASSUME NEW g \in Given, ~ Empty(g)
          PROVE  \E i \in 1 .. Len(queue') : queue'[i].file = g
      <4>1. CASE g = f
        BY <1>2, <3>1, <4>1
      <4>2. CASE g # f
        <5>1. ~ f <= g
          BY <1>0, <2>2, <4>2
        <5>2. PICK i \in 1 .. Len(queue) : queue[i].file = g
          BY <1>1, <3>1, <5>1
        <5> QED BY <1>2, <5>2
      <4> QED BY <4>1, <4>2
    <3> QED BY <1>0, <2>1, <3>1 DEF Covered, Empty
  <2> QED BY <1>3, <2>3, <2>4, <2>5 DEF CatIInv
<1> QED BY <1>4, <1>5

\* tailBuffer prints the message at the head, which is the oldest of all, or qtcat
\* gives up there.
LEMMA CatDumpCat ==
    ASSUME MergeIInv, CatIInv, phase # "tail", CatDump
    PROVE  CatIInv'
<1> DEFINE h == queue[1]
<1>0. /\ MergeTypes /\ Sound /\ queue # <<>> /\ queue' = queue /\ pc = "head"
      /\ log' = log /\ writer' = writer /\ files' = files /\ phase' = phase
      /\ Given' = Given
  BY DEF MergeIInv, Sound, CatDump, writerVars, Given
<1>1. /\ 1 \in 1 .. Len(queue) /\ h.file \in Given /\ h.file \in File
      /\ h.tsc \in Nat /\ h.buf \in Enabled /\ h.buf \in Level
  <2>1. queue \in Seq(Entries)
    BY <1>0 DEF MergeTypes
  <2>2. 1 \in 1 .. Len(queue)
    BY <1>0, <2>1
  <2> QED BY <1>0, <2>2, QueueHas, Numbers
<1>2. /\ phase = "cat" /\ queue \in Seq(Entries) /\ out \in Seq(Lines) /\ Len(queue) \in Nat
      /\ \A i, j \in 1 .. Len(queue) : i < j => /\ queue[i].tsc <= queue[j].tsc
                                                /\ queue[i].file # queue[j].file
      /\ \A i \in 1 .. Len(out), j \in 1 .. Len(queue) : out[i].tsc <= queue[j].tsc
      /\ \A i, j \in 1 .. Len(out) : i < j => out[i].tsc <= out[j].tsc
      /\ \A i \in 1 .. Len(queue) : queue[i] = Entry(queue[i].file, next[queue[i].file])
      /\ \A g \in Given : Empty(g) \/ \E i \in 1 .. Len(queue) : queue[i].file = g
  <2>1. phase = "cat"
    BY <1>0 DEF CatIInv, Keyed, MergeTypes
  <2>2. queue \in Seq(Entries) /\ out \in Seq(Lines) /\ Len(queue) \in Nat
    BY <1>0 DEF MergeTypes
  <2> QED BY <1>0, <2>1, <2>2 DEF CatIInv, InOrder, Keyed, Covered
<1>3. CASE Decodes(h.file, h.buf, Infinite)
  <2>1. /\ Consume(h.file, h.tsc, h.buf) /\ scan' = Round(h.file, Infinite) /\ pc' = "scan"
    BY <1>3 DEF CatDump, Call, NoNext
  <2>2. scan'.file = h.file /\ scan'.min = NoNext /\ scan'.level = 0
    <3>1. Infinite \in Nat
      BY Numbers
    <3> QED BY <1>1, <2>1, <3>1, RoundIs
  <2>3. \A g \in File \ {h.file} : cur'[g] = cur[g] /\ next'[g] = next[g]
    BY <1>0, <1>1, <2>1 DEF Consume, MergeTypes
  <2>4. out' = out \/ out' = Append(out, Line(h.file, h.buf, h.tsc))
    BY <2>1 DEF Consume
  <2> HIDE DEF h
  <2>5. ASSUME NEW i \in 1 .. Len(out')
        PROVE  \/ i \in 1 .. Len(out) /\ out'[i] = out[i]
               \/ i = Len(out) + 1 /\ i = Len(out') /\ out'[i].tsc = h.tsc
    <3>1. CASE out' = out
      BY <2>5, <3>1
    <3>2. CASE out' = Append(out, Line(h.file, h.buf, h.tsc))
      <4>1. Line(h.file, h.buf, h.tsc).tsc = h.tsc
        BY DEF Line
      <4> HIDE DEF Line
      <4> QED BY <1>2, <2>5, <3>2, <4>1
    <3> QED BY <2>4, <3>1, <3>2
  <2>6. \A j \in 1 .. Len(queue) : h.tsc <= queue[j].tsc
    <3>1. ASSUME NEW j \in 1 .. Len(queue) PROVE h.tsc <= queue[j].tsc
      <4>1. CASE j = 1
        BY <1>1, <4>1 DEF h
      <4>2. CASE j # 1
        <5>1. 1 < j
          BY <1>2, <3>1, <4>2
        <5> QED BY <1>1, <1>2, <3>1, <5>1 DEF h
      <4> QED BY <4>1, <4>2
    <3> QED BY <3>1
  <2>7. \A i \in 1 .. Len(out) : out[i].tsc <= h.tsc
    BY <1>1, <1>2 DEF h
  <2>8. InOrder'
    <3>1. ASSUME NEW i \in 1 .. Len(out'), NEW j \in 1 .. Len(queue)
          PROVE  out'[i].tsc <= queue[j].tsc
      BY <1>2, <2>5, <2>6, <3>1
    <3>2. ASSUME NEW i \in 1 .. Len(out'), NEW j \in 1 .. Len(out'), i < j
          PROVE  out'[i].tsc <= out'[j].tsc
      <4>1. Len(out) \in Nat
        BY <1>2
      <4>2. i \in 1 .. Len(out) /\ out'[i] = out[i]
        BY <2>5, <3>2, <4>1
      <4>3. CASE j \in 1 .. Len(out) /\ out'[j] = out[j]
        BY <1>2, <3>2, <4>2, <4>3
      <4>4. CASE out'[j].tsc = h.tsc
        BY <2>7, <4>2, <4>4
      <4> QED BY <2>5, <4>3, <4>4
    <3> QED BY <1>0, <1>2, <3>1, <3>2 DEF InOrder
  <2>9. Keyed'
    <3>1. ASSUME NEW i \in 1 .. Len(queue), i # 1
          PROVE  queue[i] = Entry(queue[i].file, next'[queue[i].file])
      <4>1. 1 < i
        BY <1>2, <3>1
      <4>2. queue[i].file # h.file /\ queue[i].file \in File
        BY <1>0, <1>1, <1>2, <4>1, QueueHas DEF h
      <4> QED BY <1>2, <2>3, <4>2
    <3> QED BY <1>0, <1>2, <2>1, <2>2, <3>1 DEF Keyed, h
  <2>10. Covered'
    <3>1. ASSUME NEW g \in Given, g # h.file
          PROVE  Empty(g)' \/ \E i \in 1 .. Len(queue) : queue[i].file = g
      <4>1. g \in File
        BY <1>0, GivenFiles DEF MergeTypes
      <4> QED BY <1>0, <1>2, <2>3, <3>1, <4>1 DEF Empty
    <3>2. \E i \in 1 .. Len(queue) : queue[i].file = h.file
      BY <1>1 DEF h
    <3> QED BY <1>0, <3>1, <3>2 DEF Covered
  <2>11. Looked'
    <3>1. \A l \in Enabled : ~ l < 0
      BY Numbers
    <3> QED BY <2>2, <3>1, NoChoice DEF Looked
  <2>12. CatSorted'
    BY <1>0, <1>2, <2>1, <2>8 DEF CatSorted, InOrder
  <2> QED BY <2>8, <2>9, <2>10, <2>11, <2>12 DEF CatIInv
<1>4. CASE ~ Decodes(h.file, h.buf, Infinite)
  <2>1. /\ cur' = cur /\ out' = out /\ next' = next /\ scan' = scan /\ pc' = "exit"
    BY <1>4 DEF CatDump
  <2> HIDE DEF h
  <2>2. Looked' /\ InOrder' /\ Keyed' /\ Covered'
    <3>1. Looked' /\ InOrder' /\ Keyed'
      BY <1>0, <1>2, <2>1 DEF Looked, InOrder, Keyed
    <3>2. Covered'
      BY <1>0, <1>2, <2>1 DEF Covered, Empty
    <3> QED BY <3>1, <3>2
  <2>3. ASSUME NEW m \in Complete, m.tsc < h.tsc PROVE m \in Range(out)
    <3>1. /\ m \in Lines /\ m.file \in Given /\ m.file \in File /\ m.level \in Enabled
          /\ m.level \in Level /\ m.tsc \in Nat /\ m = Line(m.file, m.level, m.tsc)
          /\ m.tsc \in Range(log[m.file][m.level])
      <4>1. /\ m \in Lines /\ m.file \in Given /\ m.level \in Enabled /\ m.tsc \in Tsc
            /\ m = Line(m.file, m.level, m.tsc)
            /\ m.tsc \in Range(log[m.file][m.level])
        BY <2>3 DEF Complete, Lines, Line
      <4> QED BY <1>0, <4>1, GivenFiles, Numbers DEF MergeTypes
    <3>2. log[m.file][m.level] \in Seq(Tsc) /\ cur[m.file][m.level] \in Nat
      BY <1>0, <3>1, FileHas
    <3>3. PICK k \in 1 .. Len(log[m.file][m.level]) : log[m.file][m.level][k] = m.tsc
      BY <3>1, <3>2, RangeOf
    <3>4. k <= cur[m.file][m.level]
      <4>1. SUFFICES ASSUME k > cur[m.file][m.level] PROVE FALSE
        BY <3>2, <3>3
      <4>2. ~ Empty(m.file)
        BY <3>1, <3>2, <3>3, <4>1 DEF Empty
      <4>3. PICK i \in 1 .. Len(queue) : queue[i].file = m.file
        BY <1>2, <3>1, <4>2
      <4>4. h.tsc <= queue[i].tsc
        <5>1. CASE i = 1
          BY <1>1, <5>1 DEF h
        <5>2. CASE i # 1
          <6>1. 1 < i
            BY <1>2, <4>3, <5>2
          <6> QED BY <1>1, <1>2, <4>3, <6>1 DEF h
        <5> QED BY <5>1, <5>2
      <4>5. NoOlder(m.file, queue[i].tsc, NumLevels) /\ queue[i].tsc \in Nat
        BY <1>0, <4>3, QueueHas DEF MergeIInv, Queued, Clean
      <4>6. m.level < NumLevels
        BY <3>1, Numbers
      <4>7. k \in cur[m.file][m.level] + 1 .. Len(log[m.file][m.level])
        BY <3>2, <3>3, <4>1
      <4>8. m.tsc >= queue[i].tsc
        BY <3>1, <3>3, <4>5, <4>6, <4>7 DEF NoOlder
      <4> QED BY <1>1, <2>3, <3>1, <4>4, <4>5, <4>8
    <3>5. Line(m.file, m.level, log[m.file][m.level][k]) \in Range(out)
      <4>1. k \in 1 .. cur[m.file][m.level]
        BY <3>2, <3>3, <3>4
      <4> QED BY <3>1, <4>1 DEF MergeIInv, Behind
    <3> QED BY <3>1, <3>3, <3>5
  <2>4. CatSorted'
    <3>1. Complete' = Complete
      BY <1>0 DEF Complete
    <3> QED BY <1>0, <1>2, <2>1, <2>3, <3>1 DEF CatSorted, h
  <2> QED BY <2>2, <2>4 DEF CatIInv
<1> QED BY <1>3, <1>4

\* catMany puts the file at the head where its next message belongs.
LEMMA RequeueCat ==
    ASSUME MergeIInv, CatIInv, phase # "tail", Requeue
    PROVE  CatIInv'
<1> DEFINE h == queue[1]
           f == scan.file
           n == next[f]
           e == Entry(f, n)
           r == Tail(queue)
<1>0. /\ MergeTypes /\ Sound /\ queue # <<>> /\ phase = "cat" /\ phase' = "cat"
      /\ pc = "return" /\ pc' = "head" /\ queue \in Seq(Entries) /\ out \in Seq(Lines)
      /\ log' = log /\ writer' = writer /\ cur' = cur /\ next' = next /\ out' = out
      /\ Given' = Given /\ Given \subseteq File
  BY GivenFiles DEF MergeIInv, Sound, MergeTypes, Requeue, Queued, writerVars, Given
<1>1. /\ f \in Given /\ f \in File /\ f = h.file /\ h.tsc \in Nat /\ Found(f, n)
      /\ n \in Choice /\ n.tsc \in Nat /\ n.buf \in Enabled \cup {-1}
      /\ Len(queue) \in Nat /\ 1 \in 1 .. Len(queue)
  <2>1. Len(queue) \in Nat /\ 1 \in 1 .. Len(queue)
    BY <1>0
  <2>2. f = h.file /\ Found(f, n)
    BY <1>0 DEF CatIInv, Keyed
  <2> QED BY <1>0, <2>1, <2>2, ScanHas, FileHas, QueueHas
<1>2. /\ \A i, j \in 1 .. Len(queue) : i < j => /\ queue[i].tsc <= queue[j].tsc
                                                /\ queue[i].file # queue[j].file
      /\ \A i \in 1 .. Len(out), j \in 1 .. Len(queue) : out[i].tsc <= queue[j].tsc
      /\ \A i, j \in 1 .. Len(out) : i < j => out[i].tsc <= out[j].tsc
      /\ \A i \in 1 .. Len(queue) :
            i # 1 => queue[i] = Entry(queue[i].file, next[queue[i].file])
      /\ \A g \in Given : Empty(g) \/ \E i \in 1 .. Len(queue) : queue[i].file = g
  BY <1>0 DEF CatIInv, InOrder, Keyed, Covered
<1>3. /\ r \in Seq(Entries) /\ Len(r) = Len(queue) - 1
      /\ \A i \in 1 .. Len(r) : i + 1 \in 1 .. Len(queue) /\ r[i] = queue[i + 1]
  BY <1>0, <1>1
<1>4. ASSUME NEW i \in 1 .. Len(r)
      PROVE  /\ r[i].tsc >= h.tsc /\ r[i].file # f /\ r[i].tsc \in Nat
             /\ r[i] = Entry(r[i].file, next[r[i].file])
  <2>1. i + 1 \in 1 .. Len(queue) /\ r[i] = queue[i + 1] /\ 1 < i + 1 /\ i + 1 # 1
    BY <1>1, <1>3
  <2>2. queue[i + 1].tsc >= h.tsc /\ queue[i + 1].file # f
    BY <1>1, <1>2, <2>1
  <2>3. queue[i + 1] = Entry(queue[i + 1].file, next[queue[i + 1].file])
    BY <1>2, <2>1
  <2>4. queue[i + 1].tsc \in Nat
    BY <1>0, <2>1, QueueHas
  <2> HIDE DEF r
  <2> QED BY <2>1, <2>2, <2>3, <2>4
<1>5. Ordered(r)
  <2>1. ASSUME NEW i \in 1 .. Len(r), NEW j \in 1 .. Len(r), i < j
        PROVE  r[i].tsc <= r[j].tsc /\ r[i].file # r[j].file
    <3>1. /\ i + 1 \in 1 .. Len(queue) /\ r[i] = queue[i + 1]
          /\ j + 1 \in 1 .. Len(queue) /\ r[j] = queue[j + 1] /\ i + 1 < j + 1
      BY <1>1, <1>3, <2>1
    <3> HIDE DEF r
    <3> QED BY <1>2, <3>1
  <2> HIDE DEF r
  <2> QED BY <2>1 DEF Ordered
<1>6. ASSUME n.buf # -1 PROVE e \in Entries /\ e.file = f /\ e.tsc = n.tsc /\ n.tsc >= h.tsc
  <2>1. n.buf >= 0 /\ n.buf \in Enabled /\ n.buf \in Level
    BY <1>1, <1>6, BufIs, Numbers
  <2>2. e \in Entries /\ e.file = f /\ e.tsc = n.tsc
    BY <1>0, <1>1, <2>1, EntryIs
  <2>3. NextTsc(f, n.buf) = n.tsc /\ n.tsc > 0
    BY <1>1, <1>6 DEF Found
  <2>4. Settled(f, h.tsc) /\ NoOlder(f, h.tsc, NumLevels)
    BY <1>1 DEF MergeIInv, Queued, Clean
  <2>5. n.tsc >= h.tsc
    <3>1. CASE /\ cur[f][n.buf] + 1 \in 1 .. Len(log[f][n.buf])
               /\ NextTsc(f, n.buf) = log[f][n.buf][cur[f][n.buf] + 1]
      <4>1. n.buf < NumLevels /\ cur[f][n.buf] \in Nat /\ Len(log[f][n.buf]) \in Nat
        BY <1>0, <1>1, <2>1, Numbers, FileHas
      <4>2. cur[f][n.buf] + 1 \in cur[f][n.buf] + 1 .. Len(log[f][n.buf])
        BY <3>1, <4>1
      <4>3. log[f][n.buf][cur[f][n.buf] + 1] >= h.tsc
        BY <2>1, <2>4, <4>1, <4>2 DEF NoOlder
      <4> QED BY <2>3, <3>1, <4>3
    <3>2. CASE NextTsc(f, n.buf) = writer[f].seen
      <4>1. /\ writer[f].at \in {"idle", "open"} /\ (writer[f].at = "idle" => writer[f].seen = 0)
            /\ (writer[f].at = "open" => writer[f].seen = writer[f].tsc)
        BY <1>0, <1>1 DEF Sound, Writing
      <4>2. writer[f].at = "open" /\ n.tsc = writer[f].tsc
        BY <1>1, <2>3, <3>2, <4>1
      <4> QED BY <2>4, <4>2 DEF Settled
    <3>3. CASE NextTsc(f, n.buf) = 0
      BY <1>1, <2>3, <3>3
    <3> QED BY <1>0, <1>1, <2>1, <3>1, <3>2, <3>3, ReadIs
  <2> QED BY <2>2, <2>5
<1>7. /\ queue' \in Seq(Entries) /\ Ordered(queue')
      /\ \A i \in 1 .. Len(queue') : \/ n.buf # -1 /\ queue'[i] = e
                                     \/ \E j \in 1 .. Len(r) : queue'[i] = r[j]
      /\ \A i \in 1 .. Len(r) : \E j \in 1 .. Len(queue') : queue'[j] = r[i]
      /\ Empty(f) \/ \E j \in 1 .. Len(queue') : queue'[j].file = f
  <2>1. CASE n.buf = -1
    <3>1. n.buf < 0
      BY <2>1
    <3>2. queue' = r /\ Empty(f)
      BY <1>1, <2>1, <3>1 DEF Requeue, Found
    <3> HIDE DEF r, e, n, f
    <3> QED BY <1>3, <1>5, <3>2
  <2>2. CASE n.buf # -1
    <3>1. \/ queue' = Insert(r, e)
          \/ /\ queue' = [queue EXCEPT ![1] = e]
             /\ ~ (Len(queue) > 1 /\ next[queue[2].file].tsc < n.tsc)
      <4>1. ~ n.buf < 0
        BY <1>1, <2>2, BufIs
      <4> QED BY <4>1 DEF Requeue
    <3>2. e \in Entries /\ e.file = f /\ e.tsc = n.tsc
      BY <1>6, <2>2
    <3> HIDE DEF r, e, n, f
    <3>3. CASE queue' = Insert(r, e)
      <4>1. \A i \in 1 .. Len(r) : r[i].file # e.file
        BY <1>4, <3>2
      <4>2. Inserted(r, e, Insert(r, e))
        BY <1>3, <1>5, <3>2, <4>1, InsertedIs
      <4>3. Inserted(r, e, queue')
        BY <3>3, <4>2
      <4> QED BY <2>2, <3>2, <4>3 DEF Inserted
    <3>4. CASE /\ queue' = [queue EXCEPT ![1] = e]
               /\ ~ (Len(queue) > 1 /\ next[queue[2].file].tsc < n.tsc)
      <4>1. queue' \in Seq(Entries) /\ Len(queue') = Len(queue) /\ queue'[1] = e
        BY <1>0, <1>1, <3>2, <3>4
      <4>2. ASSUME NEW i \in 1 .. Len(queue), i # 1
            PROVE  i - 1 \in 1 .. Len(r) /\ queue'[i] = r[i - 1]
        <5>1. i - 1 \in 1 .. Len(r) /\ (i - 1) + 1 = i
          BY <1>1, <1>3, <4>2
        <5>2. r[i - 1] = queue[i]
          BY <1>3, <5>1
        <5>3. queue'[i] = queue[i]
          BY <1>0, <1>1, <3>4, <4>2
        <5> QED BY <5>1, <5>2, <5>3
      <4>3. ASSUME NEW i \in 1 .. Len(r) PROVE n.tsc <= r[i].tsc
        <5>1. 1 \in 1 .. Len(r) /\ Len(queue) > 1 /\ r[1] = queue[2]
          <6>1. Len(r) >= 1 /\ Len(r) \in Nat
            BY <1>1, <1>3, <4>3
          <6>2. 1 \in 1 .. Len(r)
            BY <6>1
          <6>3. 1 + 1 = 2
            OBVIOUS
          <6> QED BY <1>1, <1>3, <6>1, <6>2, <6>3
        <5>2. r[1] = Entry(r[1].file, next[r[1].file])
          BY <1>4, <5>1
        <5>3. r[1].tsc = next[r[1].file].tsc
          <6>1. Entry(r[1].file, next[r[1].file]).tsc = next[r[1].file].tsc
            BY DEF Entry
          <6> QED BY <5>2, <6>1
        <5>4. r[1].tsc \in Nat /\ r[i].tsc \in Nat
          BY <1>4, <4>3, <5>1
        <5>5. n.tsc <= r[1].tsc
          BY <1>1, <3>4, <5>1, <5>3, <5>4
        <5>6. CASE i = 1
          BY <5>5, <5>6
        <5>7. CASE i # 1
          <6>1. 1 < i
            BY <1>1, <1>3, <4>3, <5>7
          <6>2. r[1].tsc <= r[i].tsc
            BY <1>5, <4>3, <5>1, <6>1 DEF Ordered
          <6> QED BY <1>1, <5>4, <5>5, <6>2
        <5> QED BY <5>6, <5>7
      <4>4. Ordered(queue')
        <5>1. ASSUME NEW i \in 1 .. Len(queue), NEW j \in 1 .. Len(queue), i < j
              PROVE  queue'[i].tsc <= queue'[j].tsc /\ queue'[i].file # queue'[j].file
          <6>1. j # 1 /\ j - 1 \in 1 .. Len(r) /\ queue'[j] = r[j - 1]
            BY <1>1, <4>2, <5>1
          <6>2. CASE i = 1
            <7>1. queue'[i] = e
              BY <4>1, <6>2
            <7>2. n.tsc <= r[j - 1].tsc
              BY <4>3, <6>1
            <7>3. r[j - 1].file # f
              BY <1>4, <6>1
            <7> QED BY <3>2, <6>1, <7>1, <7>2, <7>3
          <6>3. CASE i # 1
            <7>1. i - 1 \in 1 .. Len(r) /\ queue'[i] = r[i - 1] /\ i - 1 < j - 1
              BY <1>1, <4>2, <5>1, <6>3
            <7> QED BY <1>5, <6>1, <7>1 DEF Ordered
          <6> QED BY <6>2, <6>3
        <5> QED BY <4>1, <5>1 DEF Ordered
      <4>5. \A i \in 1 .. Len(queue') : queue'[i] = e \/ \E j \in 1 .. Len(r) : queue'[i] = r[j]
        BY <4>1, <4>2
      <4>6. ASSUME NEW i \in 1 .. Len(r) PROVE \E j \in 1 .. Len(queue') : queue'[j] = r[i]
        <5>1. i + 1 \in 1 .. Len(queue) /\ i + 1 # 1 /\ (i + 1) - 1 = i
          BY <1>1, <1>3, <4>6
        <5>2. queue'[i + 1] = r[i]
          BY <4>2, <5>1
        <5> QED BY <4>1, <5>1, <5>2
      <4>7. \E j \in 1 .. Len(queue') : queue'[j].file = f
        BY <1>1, <3>2, <4>1
      <4> QED BY <2>2, <4>1, <4>4, <4>5, <4>6, <4>7
    <3> QED BY <3>1, <3>3, <3>4
  <2> QED BY <2>1, <2>2
<1>8. \A i \in 1 .. Len(out) : out[i].tsc <= h.tsc /\ out[i].tsc \in Nat
  <2>1. \A i \in 1 .. Len(out) : out[i].tsc <= h.tsc
    BY <1>1, <1>2
  <2>2. \A i \in 1 .. Len(out) : out[i].tsc \in Nat
    BY <1>0, OutHas, Numbers
  <2> QED BY <2>1, <2>2
<1>9. e = Entry(f, next[f]) /\ n = next[f]
  OBVIOUS
<1> HIDE DEF r, e, n, f, h
<1>10. InOrder'
  <2>1. ASSUME NEW i \in 1 .. Len(out), NEW j \in 1 .. Len(queue')
        PROVE  out[i].tsc <= queue'[j].tsc
    <3>1. h.tsc <= queue'[j].tsc /\ queue'[j].tsc \in Nat
      <4>1. CASE n.buf # -1 /\ queue'[j] = e
        BY <1>1, <1>6, <4>1
      <4>2. CASE \E k \in 1 .. Len(r) : queue'[j] = r[k]
        BY <1>1, <1>4, <4>2
      <4> QED BY <1>7, <2>1, <4>1, <4>2
    <3>2. out[i].tsc <= h.tsc /\ out[i].tsc \in Nat
      BY <1>8
    <3> QED BY <1>1, <3>1, <3>2
  <2> QED BY <1>0, <1>2, <1>7, <2>1 DEF InOrder, Ordered
<1>11. Keyed'
  <2>1. ASSUME NEW i \in 1 .. Len(queue')
        PROVE  queue'[i] = Entry(queue'[i].file, next[queue'[i].file])
    <3>1. CASE n.buf # -1 /\ queue'[i] = e
      BY <1>6, <1>9, <3>1
    <3>2. CASE \E k \in 1 .. Len(r) : queue'[i] = r[k]
      BY <1>4, <3>2
    <3> QED BY <1>7, <2>1, <3>1, <3>2
  <2> QED BY <1>0, <2>1 DEF Keyed
<1>12. Covered'
  <2>1. ASSUME NEW g \in Given, ~ Empty(g)
        PROVE  \E i \in 1 .. Len(queue') : queue'[i].file = g
    <3>1. CASE g = f
      BY <1>7, <2>1, <3>1
    <3>2. CASE g # f
      <4>1. PICK i \in 1 .. Len(queue) : queue[i].file = g
        BY <1>2, <2>1
      <4>2. i # 1
        BY <1>1, <3>2, <4>1 DEF h
      <4>3. i - 1 \in 1 .. Len(r) /\ (i - 1) + 1 = i
        BY <1>1, <1>3, <4>1, <4>2
      <4>4. r[i - 1] = queue[i]
        BY <1>3, <4>3
      <4>5. PICK j \in 1 .. Len(queue') : queue'[j] = r[i - 1]
        BY <1>7, <4>3
      <4> QED BY <4>1, <4>4, <4>5
    <3> QED BY <3>1, <3>2
  <2> QED BY <1>0, <2>1 DEF Covered, Empty
<1>13. Looked' /\ CatSorted'
  <2>1. \A i, j \in 1 .. Len(out) : i < j => out[i].tsc <= out[j].tsc
    BY <1>2
  <2> QED BY <1>0, <2>1 DEF Looked, CatSorted
<1> QED BY <1>10, <1>11, <1>12, <1>13 DEF CatIInv

\* qtcat ends when no file has a message any more: it has printed all of them.
LEMMA CatEndCat ==
    ASSUME MergeIInv, CatIInv, phase # "tail", CatEnd
    PROVE  CatIInv'
<1>0. /\ MergeTypes /\ Sound /\ queue = <<>> /\ queue' = queue /\ pc = "head" /\ pc' = "done"
      /\ log' = log /\ writer' = writer /\ files' = files /\ phase' = phase /\ cur' = cur
      /\ next' = next /\ scan' = scan /\ out' = out /\ Given' = Given /\ out \in Seq(Lines)
  BY DEF MergeIInv, Sound, MergeTypes, CatEnd, writerVars, Given
<1>1. phase = "cat"
  BY <1>0 DEF CatIInv, Keyed, MergeTypes
<1>2. Looked' /\ InOrder' /\ Keyed' /\ Covered'
  <2>1. Looked' /\ InOrder' /\ Keyed'
    BY <1>0, <1>1 DEF CatIInv, Looked, InOrder, Keyed
  <2>2. Covered'
    BY <1>0, <1>1 DEF CatIInv, Covered, Empty
  <2> QED BY <2>1, <2>2
<1>3. \A f \in Given : Empty(f)
  <2>1. \A f \in Given : Empty(f) \/ \E i \in 1 .. Len(queue) : queue[i].file = f
    BY <1>0, <1>1 DEF CatIInv, Covered
  <2> QED BY <1>0, <2>1
<1>4. ASSUME NEW m \in Complete PROVE m \in Range(out)
  <2>1. /\ m.file \in Given /\ m.level \in Enabled /\ m.tsc \in Range(log[m.file][m.level])
        /\ m = Line(m.file, m.level, m.tsc)
    BY <1>4 DEF Complete, Line
  <2>2. m.file \in File /\ m.level \in Level
    BY <1>0, <2>1, GivenFiles, Numbers DEF MergeTypes
  <2>3. log[m.file][m.level] \in Seq(Tsc)
    BY <1>0, <2>2, FileHas
  <2>4. PICK k \in 1 .. Len(log[m.file][m.level]) : log[m.file][m.level][k] = m.tsc
    BY <2>1, <2>3, RangeOf
  <2>5. k \in 1 .. cur[m.file][m.level]
    BY <1>3, <2>1, <2>4 DEF Empty
  <2>6. Line(m.file, m.level, log[m.file][m.level][k]) \in Range(out)
    BY <2>1, <2>5 DEF MergeIInv, Behind
  <2> QED BY <2>1, <2>4, <2>6
<1>5. ASSUME NEW x \in Range(out) PROVE x \in Complete
  <2>1. PICK i \in 1 .. Len(out) : out[i] = x
    BY <1>0, <1>5, RangeOf
  <2>2. /\ x \in Lines /\ x.file \in Given /\ x.file \in File /\ x.tsc \in Tsc
        /\ x.level \in Enabled /\ x.level \in Level
        /\ x = Line(x.file, x.level, x.tsc)
    BY <1>0, <2>1, OutHas
  <2>3. PICK k \in 1 .. cur[x.file][x.level] : log[x.file][x.level][k] = x.tsc
    BY <2>1 DEF MergeIInv, Behind
  <2>4. /\ cur[x.file][x.level] <= Len(log[x.file][x.level])
        /\ cur[x.file][x.level] \in Nat /\ Len(log[x.file][x.level]) \in Nat
    BY <1>0, <2>2, FileHas DEF Sound, Growing
  <2>5. k \in 1 .. Len(log[x.file][x.level])
    BY <2>3, <2>4
  <2>6. Line(x.file, x.level, log[x.file][x.level][k]) \in Complete
    BY <1>0, <2>2, <2>5, CompleteIs
  <2> QED BY <2>2, <2>3, <2>6
<1>6. CatSorted'
  <2>1. Complete' = Complete
    BY <1>0 DEF Complete
  <2>2. Complete = Range(out)
    BY <1>4, <1>5
  <2>3. \A i, j \in 1 .. Len(out) : i < j => out[i].tsc <= out[j].tsc
    BY <1>0, <1>1 DEF CatIInv, InOrder
  <2> QED BY <1>0, <2>1, <2>2, <2>3 DEF CatSorted
<1> QED BY <1>2, <1>6 DEF CatIInv

\* Nothing is queued yet and nothing printed, and the first file is asked first.
LEMMA InitCat == Init => CatIInv
<1> SUFFICES ASSUME Init PROVE CatIInv
  OBVIOUS
<1>1. CASE phase = "tail"
  BY <1>1 DEF CatIInv, Looked, InOrder, Keyed, Covered, CatSorted
<1>2. CASE phase # "tail"
  <2>1. /\ phase = "fill" /\ pc = "scan" /\ queue = <<>> /\ out = <<>>
        /\ scan = Round(0, Infinite) /\ next = [f \in File |-> NoNext]
        /\ files \in TailFiles \cup CatFiles
    BY <1>2 DEF Init, TailInit, CatInit
  <2>2. /\ 0 \in Given /\ Given \subseteq File /\ Infinite \in Nat
        /\ \A f \in Given : f \in Nat /\ 0 <= f
    <3>1. 0 \in Given /\ Given \subseteq File
      BY <2>1, GivenFiles
    <3>2. File \subseteq Nat /\ Infinite \in Nat
      BY Numbers
    <3> QED BY <3>1, <3>2
  <2>3. scan.file = 0 /\ scan.level = 0 /\ scan.min = NoNext
    BY <2>1, <2>2, RoundIs
  <2>4. Looked
    <3>1. \A l \in Enabled : ~ l < 0
      BY Numbers
    <3> QED BY <2>3, <3>1, NoChoice DEF Looked
  <2>5. InOrder /\ Keyed
    <3>1. \A f \in Given : next[f] = NoNext
      BY <2>1, <2>2
    <3> QED BY <2>1, <3>1 DEF InOrder, Keyed
  <2>6. Covered
    BY <2>1, <2>2, <2>3 DEF Covered
  <2>7. CatSorted
    BY <2>1 DEF CatSorted
  <2> QED BY <2>4, <2>5, <2>6, <2>7 DEF CatIInv
<1> QED BY <1>1, <1>2

\* Every step keeps the files in order.
LEMMA NextCat == MergeIInv /\ CatIInv /\ [Next]_vars => CatIInv'
<1> SUFFICES ASSUME MergeIInv, CatIInv, [Next]_vars PROVE CatIInv'
  OBVIOUS
<1>1. CASE phase = "tail"
  BY <1>1, TailPhase
<1>2. CASE phase # "tail"
  <2>1. CASE QtTail
    <3>1. ~ Begin /\ ~ AskNext
      BY <1>2 DEF Begin, AskNext
    <3>2. ~ Pick
      <4>1. phase = "fill" \/ phase = "cat"
        BY <1>2 DEF MergeIInv, MergeTypes
      <4>2. pc # "pick"
        BY <1>2, <4>1 DEF CatIInv, Keyed
      <4> QED BY <4>2 DEF Pick
    <3> QED BY <1>2, <2>1, <3>1, <3>2, ScanLevelCat, ScanEndCat, PopulateCat, CatDumpCat,
               RequeueCat, CatEndCat DEF QtTail
  <2>2. CASE \E f \in File : Trace(f)
    BY <1>2, <2>2 DEF Trace, TakeTsc, Finish, StoreSome, StoreTsc, EndMsg
  <2>3. CASE UNCHANGED vars
    <3>1. /\ writer' = writer /\ log' = log /\ cur' = cur /\ next' = next /\ queue' = queue
          /\ out' = out /\ phase' = phase /\ pc' = pc /\ scan' = scan /\ Given' = Given
      BY <2>3 DEF vars, writerVars, Given
    <3>2. Looked' /\ Covered' /\ Keyed'
      BY <3>1, SameRings DEF CatIInv, Looked, Covered, Keyed
    <3>3. InOrder' /\ CatSorted'
      BY <3>1 DEF CatIInv, InOrder, CatSorted, Complete
    <3> QED BY <3>2, <3>3 DEF CatIInv
  <2> QED BY <2>1, <2>2, <2>3 DEF Next
<1> QED BY <1>1, <1>2

\* In every state of qtcat the queue holds the oldest message of each file that has
\* one, by time, and nothing that was printed is later.
THEOREM CatInvariance == Spec => []CatIInv
<1> QED BY MergeInvariance, InitCat, NextCat, PTL DEF Spec

\* qtcat prints the messages of all files in the order of their timestamps, all that
\* are complete if it comes to the end, and all older ones if it has to give up.
THEOREM CatSortedHolds == Spec => []CatSorted
<1>1. CatIInv => CatSorted
  BY DEF CatIInv
<1> QED BY <1>1, CatInvariance, PTL

=============================================================================
