----------------------------- MODULE TailStatus -----------------------------
(***************************************************************************)
(* qttail while the files it tails are deleted and created anew: the       *)
(* status of every Tail, the watch of their directory and the main loops   *)
(* tailOne and tailMany (qttail.cpp 555-988, 1112-1281), beside agents     *)
(* that create, fill and lose trace files (QuickTrace.cpp 113-152,         *)
(* 267-304, 576-656).                                                      *)
(*                                                                         *)
(* A file is a number of messages, and maybe one more that is being        *)
(* written, at any of its levels; how they are read is the matter of       *)
(* RingTail, and the reader is assumed to keep up.  The files of one name  *)
(* are numbered in the order of their creation.  The kernel queues an      *)
(* event for every creation and deletion, and for every write() while the  *)
(* watch asks for it; stores through a mapping make no event.              *)
(***************************************************************************)
EXTENDS Naturals, Sequences

CONSTANTS
    NumNames,     \* files in the directory are called 1 .. NumNames
    MaxFiles,     \* bound: MaxFiles[n] files are created under a name
    MaxMsgs       \* bound: MaxMsgs[n][f] messages are traced into file f

Name == 1 .. NumNames

ASSUME NamesAssumption == NumNames \in Nat \ {0}
ASSUME BoundsAssumption == MaxFiles \in [Name -> Nat \ {0}]

File == UNION {1 .. MaxFiles[n] : n \in Name}

ASSUME MsgsAssumption == MaxMsgs \in [Name -> [File -> Nat]]

VARIABLES
    file,         \* file[n]: the file of that name, 0 if there is none
    newest,       \* newest[n]: the file of the agent that is alive
    stage,        \* stage[n][f]: how far its creation is
    traced,       \* traced[n][f]: messages completed in it
    writing,      \* writing[n][f]: one more is begun
    queue,        \* inotify events that qttail has not read
    tails,        \* nFiles_: files 1 .. tails are on the command line
    modWatch,     \* the watch of the directory includes IN_MODIFY
    status,       \* status_ of a Tail
    mapped,       \* the file that tfh_ maps, 0 for nullptr
    shown,        \* messages of it that lie behind the reader
    passed,       \* it has given up the half-written message at its end
    next,         \* next_: a message is chosen
    torn,         \* it is one that is being written, though others are older
    rpc,          \* where qttail is
    at,           \* the Tail it is at
    inbox,        \* the events it is going through
    stop,         \* why qttail ended
    opened,       \* history: files opened after the event of their creation
    final         \* history: messages in a file when its name was taken away

agentVars == <<file, newest, stage, traced, writing, final>>
tailVars == <<status, mapped, shown, passed, next, torn, opened>>
loopVars == <<rpc, at, inbox, stop>>
vars == <<agentVars, queue, tails, modWatch, tailVars, loopVars>>

Tailed == 1 .. tails

\* Bound: an agent that never restarts has been there for long.
Init ==
    /\ tails \in Name
    /\ file = [n \in Name |-> 1]
    /\ newest = [n \in Name |-> 1]
    /\ \E s \in [Name -> {"new", "ready"}] :
           /\ stage = [n \in Name |-> [f \in File |-> IF f = 1 THEN s[n] ELSE "none"]]
           /\ \A n \in Name : MaxFiles[n] = 1 => s[n] = "ready"
    /\ traced = [n \in Name |-> [f \in File |-> 0]]
    /\ writing = [n \in Name |-> [f \in File |-> FALSE]]
    /\ queue = <<>>
    /\ modWatch = FALSE
    /\ status = [n \in Name |-> "reinit_ready"]
    /\ mapped = [n \in Name |-> 0]
    /\ shown = [n \in Name |-> 0]
    /\ passed = [n \in Name |-> FALSE]
    /\ next = [n \in Name |-> FALSE]
    /\ torn = [n \in Name |-> FALSE]
    /\ rpc = "start"
    /\ at = 1
    /\ inbox = <<>>
    /\ stop = "no"
    /\ opened = [n \in Name |-> {}]
    /\ final = [n \in Name |-> [f \in File |-> 0]]

(***************************************************************************)
(* The agents and the kernel.                                              *)
(***************************************************************************)

\* An event is queued unless the last one in the queue is equal.
Notify(n, kind, f) ==
    LET e == [name |-> n, kind |-> kind, of |-> f]
    IN  queue' = IF queue # <<>> /\ queue[Len(queue)] = e THEN queue
                 ELSE Append(queue, e)

NotifyModify(n) ==
    IF modWatch THEN Notify(n, "modify", newest[n]) ELSE UNCHANGED queue

Env == UNCHANGED <<tails, modWatch, tailVars, loopVars>>

\* An agent starts in place of the one before, which is dead.  saveOldFiles
\* renames the file that is there: an event nobody watches for.
Restart(n) ==
    /\ newest[n] < MaxFiles[n]
    /\ newest' = [newest EXCEPT ![n] = @ + 1]
    /\ file' = [file EXCEPT ![n] = 0]
    /\ final' = IF file[n] = 0 THEN final
                ELSE [final EXCEPT ![n][file[n]] = traced[n][file[n]]]
    /\ UNCHANGED <<stage, traced, writing, queue>> /\ Env

\* getfile creates the file.
Create(n) ==
    /\ stage[n][newest[n]] = "none"
    /\ stage' = [stage EXCEPT ![n][newest[n]] = "new"]
    /\ file' = [file EXCEPT ![n] = newest[n]]
    /\ Notify(n, "create", newest[n])
    /\ UNCHANGED <<newest, traced, writing, final>> /\ Env

\* getfile: the first ftruncate leaves no byte in it, the second one makes it
\* large; then touchEveryPage writes into it.
Truncate(n) ==
    /\ \E s, t \in {"new", "empty", "sized"} :
           /\ <<s, t>> \in {<<"new", "empty">>, <<"empty", "sized">>}
           /\ stage[n][newest[n]] = s
           /\ stage' = [stage EXCEPT ![n][newest[n]] = t]
    /\ NotifyModify(n)
    /\ UNCHANGED <<file, newest, traced, writing, final>> /\ Env

\* touchEveryPage, and later the descriptor of a new message.  Bound: it waits
\* if qttail has an event of the file to read already.
Write(n) ==
    /\ stage[n][newest[n]] \in {"sized", "ready"}
    /\ ~ \E i \in 1 .. Len(queue) : queue[i] = [name |-> n, kind |-> "modify", of |-> newest[n]]
    /\ NotifyModify(n)
    /\ UNCHANGED <<file, newest, stage, traced, writing, final>> /\ Env

\* The TraceFile constructor has set the header, the rings and the time.
Finish(n) ==
    /\ stage[n][newest[n]] = "sized"
    /\ stage' = [stage EXCEPT ![n][newest[n]] = "ready"]
    /\ UNCHANGED <<file, newest, traced, writing, queue, final>> /\ Env

\* A message is begun, and completed, in the rings.
Begin(n) ==
    LET f == newest[n]
    IN  /\ stage[n][f] = "ready" /\ ~ writing[n][f] /\ traced[n][f] < MaxMsgs[n][f]
        /\ writing' = [writing EXCEPT ![n][f] = TRUE]
        /\ UNCHANGED <<file, newest, stage, traced, queue, final>> /\ Env

Complete(n) ==
    LET f == newest[n]
    IN  /\ writing[n][f]
        /\ writing' = [writing EXCEPT ![n][f] = FALSE]
        /\ traced' = [traced EXCEPT ![n][f] = @ + 1]
        /\ UNCHANGED <<file, newest, stage, queue, final>> /\ Env

\* Somebody removes the file.  Its agent may go on.
Delete(n) ==
    /\ file[n] # 0
    /\ file' = [file EXCEPT ![n] = 0]
    /\ final' = [final EXCEPT ![n][file[n]] = traced[n][file[n]]]
    /\ Notify(n, "delete", file[n])
    /\ UNCHANGED <<newest, stage, traced, writing>> /\ Env

Agent(n) ==
    \/ Restart(n) \/ Create(n) \/ Truncate(n) \/ Write(n) \/ Finish(n)
    \/ Begin(n) \/ Complete(n) \/ Delete(n)

(***************************************************************************)
(* Opening files.                                                          *)
(***************************************************************************)
Unread == {queue[i] : i \in 1 .. Len(queue)} \cup {inbox[i] : i \in 1 .. Len(inbox)}

\* The loop over the tails goes on with the next one, and then elsewhere.
Advance(there) ==
    IF at = tails THEN rpc' = there /\ at' = 1
    ELSE rpc' = rpc /\ at' = at + 1

Stop(why) ==
    /\ stop' = why /\ rpc' = "stop"
    /\ UNCHANGED <<at, inbox, tailVars>>

\* open, lseek and mmap of initialize, in state INITIALIZING.
Map(n) ==
    /\ mapped' = [mapped EXCEPT ![n] = file[n]]
    /\ opened' = [opened EXCEPT ![n] = @ \cup
           (IF \E e \in Unread : e.kind = "create" /\ e.name = n /\ e.of = file[n]
            THEN {} ELSE {file[n]})]

Missing(n) == file[n] = 0
Empty(n) == file[n] # 0 /\ stage[n][file[n]] \in {"new", "empty"}

Quiet == UNCHANGED <<agentVars, queue, tails, modWatch>>

\* The constructor of a Tail, with the directory already watched.  It skips
\* what is in the file, if the file is complete.
Start ==
    LET n == at
        ready == stage[n][file[n]] = "ready"
    IN  /\ rpc = "start" /\ Quiet
        /\ \/ Missing(n) /\ Stop("open")
           \/ Empty(n) /\ Stop("empty")
           \/ /\ ~ Missing(n) /\ ~ Empty(n)
              /\ Map(n)
              /\ status' = [status EXCEPT ![n] = IF ready THEN "active" ELSE "initializing"]
              /\ shown' = [shown EXCEPT ![n] = IF ready THEN traced[n][file[n]] ELSE 0]
              /\ Advance("scan")
              /\ UNCHANGED <<passed, next, torn, inbox, stop>>

\* nextTsc, where the old file is gone and the new one was modified.
OpenAgain ==
    LET n == at
    IN  /\ rpc = "scan" /\ Quiet
        /\ ~ next[n] /\ mapped[n] = 0 /\ status[n] = "reinit_ready"
        /\ \/ Missing(n) /\ Stop("abort")
           \/ Empty(n) /\ Stop("empty")
           \/ /\ ~ Missing(n) /\ ~ Empty(n)
              /\ Map(n)
              /\ status' = [status EXCEPT ![n] = "initializing"]
              /\ UNCHANGED <<shown, passed, next, torn, loopVars>>

\* initialize: the header has a time, the reader goes to the first message.
Activate ==
    LET n == at
    IN  /\ rpc = "scan" /\ Quiet
        /\ status[n] = "initializing" /\ stage[n][mapped[n]] = "ready"
        /\ status' = [status EXCEPT ![n] = "active"]
        /\ shown' = [shown EXCEPT ![n] = 0]
        /\ passed' = [passed EXCEPT ![n] = FALSE]
        /\ UNCHANGED <<mapped, next, torn, opened, loopVars>>

(***************************************************************************)
(* Reading messages.                                                       *)
(***************************************************************************)

\* nextTsc has nothing to look for.
Skip ==
    LET n == at
    IN  /\ rpc = "scan" /\ Quiet
        /\ \/ next[n]
           \/ status[n] = "initializing" /\ stage[n][mapped[n]] # "ready"
           \/ mapped[n] = 0 /\ status[n] # "reinit_ready"
        /\ Advance("pick")
        /\ UNCHANGED <<tailVars, inbox, stop>>

UnderWay(n) == writing[n][mapped[n]] /\ ~ passed[n]

Visible(n) == shown[n] < traced[n][mapped[n]] \/ UnderWay(n)

\* nextTsc chooses the oldest message, or lets go of a file that was read to its
\* end.  The one being written may pass for the oldest, at another level than
\* the older ones, by a timestamp that is stored in part.
Find ==
    LET n == at
    IN  /\ rpc = "scan" /\ Quiet
        /\ ~ next[n] /\ mapped[n] # 0 /\ status[n] # "initializing"
        /\ next' = [next EXCEPT ![n] = Visible(n)]
        /\ \E part \in BOOLEAN :
               /\ part => UnderWay(n) /\ shown[n] < traced[n][mapped[n]]
               /\ torn' = [torn EXCEPT ![n] = part]
        /\ mapped' = IF ~ Visible(n) /\ status[n] # "active"
                     THEN [mapped EXCEPT ![n] = 0] ELSE mapped
        /\ Advance("pick")
        /\ UNCHANGED <<status, shown, passed, opened, inbox, stop>>

\* Mutant of Pick: the status is looked at before the messages.
PickDeletedFirst ==
    /\ rpc = "pick" /\ Quiet
    /\ IF \A n \in Tailed : status[n] = "delete_pending"
       THEN rpc' = "idle" /\ UNCHANGED at
       ELSE \/ \E n \in Tailed : next[n] /\ rpc' = "dump" /\ at' = n
            \/ (\A n \in Tailed : ~ next[n]) /\ rpc' = "idle" /\ UNCHANGED at
    /\ UNCHANGED <<tailVars, inbox, stop>>

\* All tails have been asked: one with a message is picked, by its timestamp.
Pick ==
    /\ rpc = "pick" /\ Quiet
    /\ \/ \E n \in Tailed : next[n] /\ rpc' = "dump" /\ at' = n
       \/ (\A n \in Tailed : ~ next[n]) /\ rpc' = "idle" /\ UNCHANGED at
    /\ UNCHANGED <<tailVars, inbox, stop>>

\* tailBuffer printed the message.  Every second the events are read too.
Dump ==
    LET n == at
    IN  /\ rpc = "dump" /\ Quiet
        /\ shown[n] < traced[n][mapped[n]] /\ ~ torn[n]
        /\ shown' = [shown EXCEPT ![n] = @ + 1]
        /\ next' = [next EXCEPT ![n] = FALSE]
        /\ rpc' \in {"scan", "read"} /\ at' = 1
        /\ UNCHANGED <<status, mapped, passed, torn, opened, inbox, stop>>

\* The message has another timestamp by now: the choice is made again.
DumpOther ==
    LET n == at
    IN  /\ rpc = "dump" /\ Quiet
        /\ torn[n] /\ ~ writing[n][mapped[n]]
        /\ next' = [next EXCEPT ![n] = FALSE]
        /\ rpc' \in {"scan", "read"} /\ at' = 1
        /\ UNCHANGED <<status, mapped, shown, passed, torn, opened, inbox, stop>>

\* It did not: the message is being written still, or for ever, as its agent
\* died.  After corruptionThreshold_ tries, which are one here, the reader
\* gives up a message that it will not see completed.
DumpNot ==
    LET n == at
        dead == mapped[n] # newest[n]
    IN  /\ rpc = "dump" /\ Quiet
        /\ shown[n] = traced[n][mapped[n]] \/ (torn[n] /\ writing[n][mapped[n]])
        /\ next' = IF dead THEN [next EXCEPT ![n] = FALSE] ELSE next
        /\ passed' = IF dead THEN [passed EXCEPT ![n] = TRUE] ELSE passed
        /\ rpc' = IF tails > 1 THEN "read" ELSE "idle"
        /\ at' = 1
        /\ UNCHANGED <<status, mapped, shown, torn, opened, inbox, stop>>

(***************************************************************************)
(* Events.                                                                 *)
(***************************************************************************)

\* Nothing to print: qttail ends if all its files are deleted, else it polls.
Idle ==
    /\ rpc = "idle" /\ Quiet
    /\ IF \A n \in Tailed : status[n] = "delete_pending"
       THEN Stop("deleted")
       ELSE /\ rpc' = IF queue # <<>> THEN "read" ELSE "scan"
            /\ UNCHANGED <<at, inbox, stop, tailVars>>

\* watch: read takes all the events there are.
Read ==
    /\ rpc = "read"
    /\ inbox' = queue
    /\ queue' = <<>>
    /\ rpc' = "events"
    /\ UNCHANGED <<agentVars, tails, modWatch, tailVars, at, stop>>

\* Mutant of ModWatchIs: the other files are not looked at.
ModWatchIsAlways(on, stats) == modWatch' = on

\* watchForModificationsIs: while a file is awaited the watch stays as it is.
ModWatchIs(on, stats) ==
    modWatch' = IF \E n \in Tailed : stats[n] = "reinit_pending" THEN modWatch ELSE on

\* Mutant of StatusIs: a modification of any file makes it one to be opened.
StatusIsAlways(n, s) ==
    /\ status' = [status EXCEPT ![n] = s]
    /\ mapped' = IF status[n] = "initializing" /\ s # "reinit_ready"
                 THEN [mapped EXCEPT ![n] = 0] ELSE mapped

\* Mutant of StatusIs: a file that is replaced is let go at once.
StatusIsCleanup(n, s) ==
    /\ status' = IF s = "reinit_ready" /\ status[n] # "reinit_pending" THEN status
                 ELSE [status EXCEPT ![n] = s]
    /\ mapped' = IF s # "reinit_ready" THEN [mapped EXCEPT ![n] = 0] ELSE mapped

\* Mutant of StatusIs: a file that is awaited cannot be deleted.
StatusIsKept(n, s) ==
    /\ status' = IF \/ s = "reinit_ready" /\ status[n] # "reinit_pending"
                    \/ s = "delete_pending" /\ status[n] = "reinit_pending" THEN status
                 ELSE [status EXCEPT ![n] = s]
    /\ mapped' = IF status[n] = "initializing" /\ s # "reinit_ready"
                 THEN [mapped EXCEPT ![n] = 0] ELSE mapped

\* statusIs, called for an event.  A file that is only being initialized is
\* let go at once; a modification matters to a file that is awaited only.
StatusIs(n, s) ==
    /\ status' = IF s = "reinit_ready" /\ status[n] # "reinit_pending" THEN status
                 ELSE [status EXCEPT ![n] = s]
    /\ mapped' = IF status[n] = "initializing" /\ s # "reinit_ready"
                 THEN [mapped EXCEPT ![n] = 0] ELSE mapped

\* Mutant of OnCreate: the status is set first.
OnCreateStatusFirst(n) ==
    /\ StatusIs(n, "reinit_pending")
    /\ ModWatchIs(TRUE, status')

\* Watch::process.
OnCreate(n) ==
    /\ ModWatchIs(TRUE, status)
    /\ StatusIs(n, "reinit_pending")

OnDelete(n) ==
    /\ ModWatchIs(FALSE, status)
    /\ StatusIs(n, "delete_pending")

OnModify(n) ==
    /\ StatusIs(n, "reinit_ready")
    /\ ModWatchIs(FALSE, status')

Event ==
    /\ rpc = "events" /\ inbox # <<>>
    /\ LET e == Head(inbox)
       IN  \/ e.kind = "create" /\ OnCreate(e.name)
           \/ e.kind = "delete" /\ OnDelete(e.name)
           \/ e.kind = "modify" /\ OnModify(e.name)
    /\ inbox' = Tail(inbox)
    /\ UNCHANGED <<agentVars, queue, tails, shown, passed, next, torn, opened, rpc, at, stop>>

NoEvent ==
    /\ rpc = "events" /\ inbox = <<>> /\ Quiet
    /\ rpc' = "scan"
    /\ UNCHANGED <<tailVars, at, inbox, stop>>

Qttail ==
    \/ Start \/ OpenAgain \/ Activate \/ Skip \/ Find
    \/ Pick \/ Dump \/ DumpOther \/ DumpNot
    \/ Idle \/ Read \/ Event \/ NoEvent

\* Bound: nothing is followed when qttail has ended.
Next == Qttail \/ \E n \in Tailed : rpc # "stop" /\ Agent(n)

\* qttail never stops of itself; agents need not do anything.
Spec == Init /\ [][Next]_vars /\ WF_vars(Qttail)

(***************************************************************************)
(* Properties                                                              *)
(***************************************************************************)

\* Whoever waits for a file to be modified is told of it: whatever happened to
\* the other files, the watch they share includes modifications.
AwaitsModification ==
    \A n \in Tailed : status[n] = "reinit_pending" => modWatch

\* qttail.cpp:581-582: the new file is mapped "only after it has consumed all
\* messages from the old file".  What was in an active file when it was deleted
\* or replaced lies behind the reader when it is let go.
OldFileRead ==
    [][\A n \in Tailed :
          mapped[n] # 0 /\ mapped'[n] # mapped[n] /\ status[n] # "initializing" =>
              shown[n] >= final[n][mapped[n]]]_vars

\* No file is opened, and printed, a second time, unless it was opened first
\* before the event of its creation was read.
OpensOnce ==
    [][\A n \in Tailed :
          mapped'[n] # mapped[n] /\ mapped'[n] # 0 => mapped'[n] \notin opened[n]]_vars

\* qttail.cpp:579-580: qttail ends "when all the files that is tailing have been
\* deleted and it has consumed all messages from all of those files".  But if
\* it tails a single file, one that could not be dumped is enough, and that may
\* be a message under way that hides older ones at other levels.
EndsRead ==
    stop = "deleted" => \A n \in Tailed :
        mapped[n] # 0 => shown[n] >= final[n][mapped[n]] \/ (tails = 1 /\ torn[n])

\* qttail.cpp:659: it aborts for want of a file only if that was deleted since
\* it last looked, or in the middle of a restart of its agent.
AbortsOnlyBehind ==
    stop = "abort" =>
        \/ \E e \in Unread : e.name = at /\ e.kind = "delete"
        \/ stage[at][newest[at]] = "none"

\* A file that stays is followed in the end, whatever became of the files
\* before it, if its agent goes on writing descriptors into it (modifications
\* before the watch for them was on do not count) and no agent leaves a message
\* half-written.
Follows ==
    (\A n \in Name : WF_writing(Complete(n))) =>
    \A n \in Name :
        /\ WF_queue(Write(n))
        /\ <>[](n \in Tailed /\ file[n] # 0 /\ stage[n][newest[n]] = "ready")
        => <>[](stop # "no" \/ (mapped[n] = newest[n] /\ status[n] = "active"))

Events == [name : Name, kind : {"create", "delete", "modify"}, of : File]

TypeOK ==
    /\ file \in [Name -> {0} \cup File] /\ newest \in [Name -> File]
    /\ stage \in [Name -> [File -> {"none", "new", "empty", "sized", "ready"}]]
    /\ traced \in [Name -> [File -> Nat]] /\ final \in [Name -> [File -> Nat]]
    /\ writing \in [Name -> [File -> BOOLEAN]]
    /\ queue \in Seq(Events) /\ inbox \in Seq(Events)
    /\ tails \in Name /\ at \in Tailed /\ modWatch \in BOOLEAN
    /\ status \in [Name -> {"initializing", "active", "reinit_pending", "reinit_ready",
                            "delete_pending"}]
    /\ mapped \in [Name -> {0} \cup File] /\ opened \in [Name -> SUBSET File]
    /\ shown \in [Name -> Nat]
    /\ passed \in [Name -> BOOLEAN] /\ next \in [Name -> BOOLEAN]
    /\ torn \in [Name -> BOOLEAN]
    /\ rpc \in {"start", "scan", "pick", "dump", "idle", "read", "events", "stop"}
    /\ stop \in {"no", "open", "empty", "abort", "deleted"}

=============================================================================
