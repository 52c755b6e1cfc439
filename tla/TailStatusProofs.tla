-------------------------- MODULE TailStatusProofs --------------------------
(***************************************************************************)
(* Proofs about TailStatus: whatever agents do to their files, and whenever *)
(* qttail hears of it, no file is let go before it was read, none is opened *)
(* twice, whoever waits for a modification is told of it, and qttail ends   *)
(* only for the reasons it has.  For any number of names, files and         *)
(* messages.                                                                *)
(***************************************************************************)
EXTENDS TailStatus, SequenceTheorems, TLAPS

(***************************************************************************)
(* The inductive invariant behind the safety properties.                   *)
(***************************************************************************)

\* The events qttail has still to go through, in their order.
Pending == inbox \o queue

Created(n, f) == [name |-> n, kind |-> "create", of |-> f]
IsOf(e, n, kinds) == e.name = n /\ e.kind \in kinds
NoneCreated(n, from) ==
    \A j \in from .. Len(Pending) : ~ IsOf(Pending[j], n, {"create"})

\* A name leads to the newest file, if to any; what counted for it when its name
\* was taken away was there.
FilesNamed ==
    \A n \in Name :
        /\ newest[n] <= MaxFiles[n]
        /\ file[n] # 0 => file[n] = newest[n] /\ stage[n][file[n]] # "none"
        /\ \A f \in File : /\ final[n][f] <= traced[n][f]
                           /\ f > newest[n] => stage[n][f] = "none"
        /\ \A f \in opened[n] \cup {mapped[n]} : f # 0 => stage[n][f] # "none"

\* Whatever qttail has still to hear of a name, it hears at last of the file that
\* is there ...
ToldOfFile ==
    \A n \in Name, i \in 1 .. Len(Pending) :
        file[n] # 0 /\ IsOf(Pending[i], n, {"create", "delete"}) =>
            \E j \in i .. Len(Pending) : Pending[j] = Created(n, file[n])

\* ... and that it is deleted, if nothing comes after it.
ToldOfDeletion ==
    \A n \in Name : file[n] = 0 /\ stage[n][newest[n]] # "none" =>
        \/ \E i \in 1 .. Len(Pending) :
               IsOf(Pending[i], n, {"delete"}) /\ NoneCreated(n, i + 1)
        \/ status[n] = "delete_pending" /\ NoneCreated(n, 1)

\* A file that is taken for deleted, and was not let go, is, or the event of its
\* creation is among those that qttail is going through.
TakenForDeleted ==
    \A n \in Name : mapped[n] # 0 =>
        /\ status[n] = "delete_pending" /\ file[n] = mapped[n] =>
               \E i \in 1 .. Len(inbox) : inbox[i] = Created(n, mapped[n])
        /\ rpc = "events" => \A i \in 1 .. Len(queue) : queue[i] # Created(n, mapped[n])

\* Where qttail is in its round.
ReadOrHidden(n) == shown[n] >= final[n][mapped[n]] \/ (tails = 1 /\ torn[n])
LetGo(n) == status[n] = "delete_pending" => mapped[n] = 0 \/ next[n]
Rounds ==
    /\ rpc # "events" => inbox = <<>>
    /\ rpc \in {"pick", "idle", "read", "events"} => at = 1
    /\ rpc = "start" => \A n \in Name : n >= at => mapped[n] = 0 /\ opened[n] = {}
    /\ rpc = "scan" => \A n \in 1 .. at - 1 : LetGo(n)
    /\ rpc = "pick" => \A n \in Tailed : LetGo(n)
    /\ rpc = "idle" => \A n \in Tailed :
           status[n] = "delete_pending" /\ mapped[n] # 0 => ReadOrHidden(n)
    /\ stop # "no" => rpc = "stop"

\* A file that was opened after the event of its creation will not be awaited.
OpenedLast ==
    \A n \in Name : file[n] # 0 /\ file[n] \in opened[n] =>
        NoneCreated(n, 1) /\ status[n] \notin {"reinit_pending", "reinit_ready"}

StatusIInv ==
    /\ TypeOK /\ FilesNamed /\ ToldOfFile /\ ToldOfDeletion /\ TakenForDeleted
    /\ Rounds /\ OpenedLast
    /\ AwaitsModification /\ EndsRead /\ AbortsOnlyBehind


(***************************************************************************)
(* Files and events                                                        *)
(***************************************************************************)

LEMMA FileIs ==
    /\ File \subseteq Nat \ {0} /\ 0 \notin File
    /\ \A n \in Name : /\ MaxFiles[n] \in Nat /\ 1 \in File
                       /\ \A f \in 1 .. MaxFiles[n] : f \in File
    /\ Name \subseteq Nat /\ 1 \in Name
<1>1. ASSUME NEW n \in Name PROVE MaxFiles[n] \in Nat \ {0} /\ 1 \in 1 .. MaxFiles[n]
  BY BoundsAssumption
<1>2. 1 \in Name /\ Name \subseteq Nat
  BY NamesAssumption DEF Name
<1> QED BY <1>1, <1>2 DEF File

\* An event comes last in the queue.
LEMMA NotifyIs ==
    ASSUME TypeOK, NEW n \in Name, NEW f \in File, NEW k \in {"create", "delete", "modify"},
           Notify(n, k, f), NEW e, e = [name |-> n, kind |-> k, of |-> f]
    PROVE  /\ e \in Events /\ queue' \in Seq(Events)
           /\ queue' = Append(queue, e) \/ (queue' = queue /\ queue # <<>> /\ queue[Len(queue)] = e)
<1>1. queue \in Seq(Events) /\ e \in Events
  BY DEF TypeOK, Events
<1> QED BY <1>1 DEF Notify

LEMMA PendingIs ==
    ASSUME TypeOK
    PROVE  /\ Pending \in Seq(Events) /\ Len(Pending) = Len(inbox) + Len(queue)
           /\ Len(inbox) \in Nat /\ Len(queue) \in Nat /\ Len(Pending) \in Nat
           /\ \A i \in 1 .. Len(Pending) :
                  Pending[i] = IF i <= Len(inbox) THEN inbox[i] ELSE queue[i - Len(inbox)]
<1>1. queue \in Seq(Events) /\ inbox \in Seq(Events)
  BY DEF TypeOK
<1> QED BY <1>1, ConcatProperties DEF Pending

\* What the events are after one more was queued.
Grows(e) ==
    /\ Len(Pending') = Len(Pending) \/ Len(Pending') = Len(Pending) + 1
    /\ \A i \in 1 .. Len(Pending) : Pending'[i] = Pending[i]
    /\ Len(Pending') > 0 /\ Pending'[Len(Pending')] = e

LEMMA PendingGrows ==
    ASSUME TypeOK, inbox' = inbox, NEW e \in Events,
           queue' = Append(queue, e) \/ (queue' = queue /\ queue # <<>> /\ queue[Len(queue)] = e)
    PROVE  Grows(e)
<1>a. queue \in Seq(Events) /\ inbox \in Seq(Events)
  BY DEF TypeOK
<1>b. queue' \in Seq(Events)
  BY <1>a
<1>1. /\ queue \in Seq(Events) /\ inbox \in Seq(Events) /\ queue' \in Seq(Events)
      /\ Len(queue) \in Nat /\ Len(inbox) \in Nat /\ Len(queue') \in Nat
  BY <1>a, <1>b
<1>2. /\ Len(Pending) = Len(inbox) + Len(queue)
      /\ \A i \in 1 .. Len(Pending) :
             Pending[i] = IF i <= Len(inbox) THEN inbox[i] ELSE queue[i - Len(inbox)]
  BY <1>1, ConcatProperties DEF Pending
<1>3. Pending' = inbox \o queue'
  BY DEF Pending
<1>4. /\ Len(Pending') = Len(inbox) + Len(queue')
      /\ \A i \in 1 .. Len(Pending') :
             Pending'[i] = IF i <= Len(inbox) THEN inbox[i] ELSE queue'[i - Len(inbox)]
  BY <1>1, <1>3, ConcatProperties
<1>5. CASE queue' = Append(queue, e)
  <2>1. Len(queue') = Len(queue) + 1 /\ queue'[Len(queue) + 1] = e
        /\ \A i \in 1 .. Len(queue) : queue'[i] = queue[i]
    BY <1>1, <1>5
  <2>2. ASSUME NEW i \in 1 .. Len(Pending)
        PROVE  Pending'[i] = Pending[i]
    <3>1. /\ Pending'[i] = IF i <= Len(inbox) THEN inbox[i] ELSE queue'[i - Len(inbox)]
          /\ Pending[i] = IF i <= Len(inbox) THEN inbox[i] ELSE queue[i - Len(inbox)]
          /\ i \in Nat
      BY <1>1, <1>2, <1>4, <2>1
    <3>2. i > Len(inbox) => i - Len(inbox) \in 1 .. Len(queue)
      BY <1>1, <1>2
    <3> QED BY <1>1, <2>1, <3>1, <3>2
  <2>3. Pending'[Len(Pending')] = e
    BY <1>1, <1>4, <2>1
  <2> QED BY <1>1, <1>2, <1>4, <2>1, <2>2, <2>3 DEF Grows
<1>6. CASE queue' = queue /\ queue # <<>> /\ queue[Len(queue)] = e
  <2>1. Len(queue) > 0
    BY <1>1, <1>6
  <2>2. Pending' = Pending
    BY <1>3, <1>6 DEF Pending
  <2>3. Pending'[Len(Pending')] = e
    BY <1>1, <1>4, <1>6, <2>1
  <2> QED BY <1>1, <1>2, <2>1, <2>2, <2>3 DEF Grows
<1> QED BY <1>5, <1>6

\* ... and after the first one was taken.
LEMMA PendingShrinks ==
    ASSUME TypeOK, inbox # <<>>, inbox' = Tail(inbox), queue' = queue
    PROVE  /\ Len(Pending) \in Nat /\ Len(Pending) > 0 /\ Len(Pending') = Len(Pending) - 1
           /\ Pending[1] = Head(inbox)
           /\ \A i \in 1 .. Len(Pending') : Pending'[i] = Pending[i + 1]
<1>1. /\ queue \in Seq(Events) /\ inbox \in Seq(Events) /\ inbox' \in Seq(Events)
      /\ Len(queue) \in Nat /\ Len(inbox) \in Nat /\ Len(inbox) > 0
      /\ Len(inbox') = Len(inbox) - 1 /\ Head(inbox) = inbox[1]
      /\ \A i \in 1 .. Len(inbox') : inbox'[i] = inbox[i + 1]
  BY HeadTailProperties DEF TypeOK
<1>2. /\ Len(Pending) = Len(inbox) + Len(queue)
      /\ \A i \in 1 .. Len(Pending) :
             Pending[i] = IF i <= Len(inbox) THEN inbox[i] ELSE queue[i - Len(inbox)]
  BY <1>1, ConcatProperties DEF Pending
<1>3. Pending' = inbox' \o queue
  BY DEF Pending
<1>4. /\ Len(Pending') = Len(inbox') + Len(queue)
      /\ \A i \in 1 .. Len(Pending') :
             Pending'[i] = IF i <= Len(inbox') THEN inbox'[i] ELSE queue[i - Len(inbox')]
  BY <1>1, <1>3, ConcatProperties
<1>5. ASSUME NEW i \in 1 .. Len(Pending')
      PROVE  Pending'[i] = Pending[i + 1]
  BY <1>1, <1>2, <1>4
<1> QED BY <1>1, <1>2, <1>4, <1>5

(***************************************************************************)
(* Types                                                                   *)
(***************************************************************************)

\* Initially all files are there, with nothing in them, and qttail has not begun.
LEMMA InitTypeOK == Init => TypeOK
<1> SUFFICES ASSUME Init PROVE TypeOK
  OBVIOUS
<1>1. PICK s \in [Name -> {"new", "ready"}] :
          stage = [n \in Name |-> [f \in File |-> IF f = 1 THEN s[n] ELSE "none"]]
  BY DEF Init
<1>2. \A n \in Name : s[n] \in {"none", "new", "empty", "sized", "ready"}
  OBVIOUS
<1>3. \A n \in Name : [f \in File |-> IF f = 1 THEN s[n] ELSE "none"] \in
          [File -> {"none", "new", "empty", "sized", "ready"}]
  BY <1>2
<1>4. stage \in [Name -> [File -> {"none", "new", "empty", "sized", "ready"}]]
  BY <1>1, <1>3
<1>5. 1 \in File /\ tails \in Name /\ at \in Tailed
  <2>1. 1 \in File /\ tails \in Name /\ at = 1
    BY FileIs DEF Init
  <2>2. tails \in Nat /\ tails >= 1
    BY <2>1, NamesAssumption DEF Name
  <2> QED BY <2>1, <2>2 DEF Tailed
<1>6. file \in [Name -> {0} \cup File] /\ newest \in [Name -> File]
  BY <1>5 DEF Init
<1>7. /\ traced \in [Name -> [File -> Nat]] /\ final \in [Name -> [File -> Nat]]
      /\ writing \in [Name -> [File -> BOOLEAN]]
  BY DEF Init
<1>a. queue = <<>> /\ inbox = <<>> /\ modWatch = FALSE /\ status = [n \in Name |-> "reinit_ready"]
  BY DEF Init
<1>8. /\ queue \in Seq(Events) /\ inbox \in Seq(Events) /\ modWatch \in BOOLEAN
      /\ status \in [Name -> {"initializing", "active", "reinit_pending", "reinit_ready",
                              "delete_pending"}]
  <2>1. queue \in Seq(Events) /\ inbox \in Seq(Events)
    BY <1>a, EmptySeq
  <2> QED BY <1>a, <2>1
<1>9. mapped \in [Name -> {0} \cup File] /\ opened \in [Name -> SUBSET File]
  <2>1. mapped = [n \in Name |-> 0] /\ opened = [n \in Name |-> {}]
    BY DEF Init
  <2> QED BY <2>1
<1>10.
      /\ shown \in [Name -> Nat] /\ passed \in [Name -> BOOLEAN] /\ next \in [Name -> BOOLEAN]
      /\ torn \in [Name -> BOOLEAN]
      /\ rpc \in {"start", "scan", "pick", "dump", "idle", "read", "events", "stop"}
      /\ stop \in {"no", "open", "empty", "abort", "deleted"}
  BY DEF Init
<1> QED BY <1>4, <1>5, <1>6, <1>7, <1>8, <1>9, <1>10 DEF TypeOK

\* What agents do keeps the types.
LEMMA AgentTypeOK ==
    ASSUME TypeOK, FilesNamed, NEW n \in Name, Agent(n)
    PROVE  TypeOK'
<1>1. /\ UNCHANGED <<tails, modWatch>> /\ UNCHANGED tailVars /\ UNCHANGED loopVars
  BY DEF Agent, Env, Restart, Create, Truncate, Write, Finish, Begin, Complete, Delete
<1>2. /\ inbox' \in Seq(Events) /\ tails' \in Name /\ at' \in Tailed' /\ modWatch' \in BOOLEAN
      /\ status' \in [Name -> {"initializing", "active", "reinit_pending", "reinit_ready",
                               "delete_pending"}]
      /\ mapped' \in [Name -> {0} \cup File] /\ opened' \in [Name -> SUBSET File]
      /\ shown' \in [Name -> Nat] /\ passed' \in [Name -> BOOLEAN] /\ next' \in [Name -> BOOLEAN]
      /\ torn' \in [Name -> BOOLEAN]
      /\ rpc' \in {"start", "scan", "pick", "dump", "idle", "read", "events", "stop"}
      /\ stop' \in {"no", "open", "empty", "abort", "deleted"}
  BY <1>1 DEF TypeOK, tailVars, loopVars, Tailed
<1>3. /\ file \in [Name -> {0} \cup File] /\ newest \in [Name -> File]
      /\ stage \in [Name -> [File -> {"none", "new", "empty", "sized", "ready"}]]
      /\ traced \in [Name -> [File -> Nat]] /\ final \in [Name -> [File -> Nat]]
      /\ writing \in [Name -> [File -> BOOLEAN]]
      /\ queue \in Seq(Events) /\ newest[n] \in File
      /\ file[n] \in {0} \cup File
      /\ modWatch \in BOOLEAN
  BY DEF TypeOK
<1>4. \A k \in {"create", "delete", "modify"}, f \in File :
          Notify(n, k, f) => queue' \in Seq(Events)
  BY NotifyIs
<1>5. NotifyModify(n) => queue' \in Seq(Events)
  BY <1>3, <1>4 DEF NotifyModify
<1>6. /\ file' \in [Name -> {0} \cup File] /\ newest' \in [Name -> File]
      /\ stage' \in [Name -> [File -> {"none", "new", "empty", "sized", "ready"}]]
      /\ traced' \in [Name -> [File -> Nat]] /\ final' \in [Name -> [File -> Nat]]
      /\ writing' \in [Name -> [File -> BOOLEAN]]
      /\ queue' \in Seq(Events)
  <2>1. CASE Restart(n)
    <3>a. newest[n] \in Nat \ {0} /\ MaxFiles[n] \in Nat /\ newest[n] < MaxFiles[n]
      BY <1>3, <2>1, FileIs DEF Restart
    <3>b. newest[n] + 1 \in 1 .. MaxFiles[n]
      BY <3>a
    <3>1. newest[n] + 1 \in File
      BY <3>b, FileIs
    <3>2. file' \in [Name -> {0} \cup File] /\ newest' \in [Name -> File]
      BY <1>3, <2>1, <3>1 DEF Restart
    <3>3. final' \in [Name -> [File -> Nat]]
      BY <1>3, <2>1 DEF Restart
    <3> QED BY <1>3, <2>1, <3>2, <3>3 DEF Restart
  <2>2. CASE Create(n)
    BY <1>3, <1>4, <2>2 DEF Create
  <2>3. CASE Truncate(n)
    BY <1>3, <1>5, <2>3 DEF Truncate
  <2>4. CASE Write(n)
    BY <1>3, <1>5, <2>4 DEF Write
  <2>5. CASE Finish(n)
    BY <1>3, <2>5 DEF Finish
  <2>6. CASE Begin(n)
    BY <1>3, <2>6 DEF Begin
  <2>7. CASE Complete(n)
    BY <1>3, <2>7 DEF Complete
  <2>8. CASE Delete(n)
    <3>1. file[n] \in File /\ traced[n][file[n]] \in Nat
      BY <1>3, <2>8 DEF Delete
    <3>2. queue' \in Seq(Events)
      BY <1>4, <2>8, <3>1 DEF Delete
    <3>3. file' \in [Name -> {0} \cup File] /\ final' \in [Name -> [File -> Nat]]
      BY <1>3, <2>8, <3>1 DEF Delete
    <3> QED BY <1>3, <2>8, <3>2, <3>3 DEF Delete
  <2> QED BY <2>1, <2>2, <2>3, <2>4, <2>5, <2>6, <2>7, <2>8 DEF Agent
<1> QED BY <1>2, <1>6 DEF TypeOK

\* The tail that qttail is at is one of those it tails.
LEMMA PlacesAre ==
    ASSUME TypeOK
    PROVE  /\ at \in Name /\ at \in Nat /\ at >= 1 /\ at <= tails /\ tails \in Nat
           /\ 1 \in Tailed /\ Tailed \subseteq Name /\ Tailed \subseteq Nat
           /\ \A there : Advance(there) => at' \in Tailed
<1>1. tails \in Name /\ at \in Tailed
  BY DEF TypeOK
<1>2. tails \in Nat /\ tails >= 1 /\ tails <= NumNames /\ NumNames \in Nat
  BY <1>1, NamesAssumption DEF Name
<1>3. at \in Nat /\ at >= 1 /\ at <= tails
  BY <1>1, <1>2 DEF Tailed
<1>4. 1 \in Tailed /\ Tailed \subseteq Name /\ Tailed \subseteq Nat
  BY <1>2 DEF Tailed, Name
<1>5. ASSUME NEW there, Advance(there) PROVE at' \in Tailed
  <2>1. at' = 1 \/ (at # tails /\ at' = at + 1)
    BY <1>5 DEF Advance
  <2>2. at # tails => at + 1 \in Tailed
    BY <1>2, <1>3 DEF Tailed
  <2> QED BY <1>4, <2>1, <2>2
<1> QED BY <1>1, <1>2, <1>3, <1>4, <1>5

\* What an event does to the tail of its name.
LEMMA EventIs ==
    ASSUME TypeOK, Event, NEW e, e = Head(inbox)
    PROVE  /\ inbox # <<>> /\ rpc = "events" /\ e \in Events /\ e.name \in Name
           /\ \/ e.kind = "create" /\ OnCreate(e.name)
              \/ e.kind = "delete" /\ OnDelete(e.name)
              \/ e.kind = "modify" /\ OnModify(e.name)
           /\ inbox' = Tail(inbox) /\ inbox' \in Seq(Events)
           /\ UNCHANGED <<agentVars, queue, tails, shown, passed, next, torn, opened, rpc, at, stop>>
<1>1. inbox \in Seq(Events) /\ inbox # <<>> /\ inbox' = Tail(inbox)
  BY DEF TypeOK, Event
<1>2. e \in Events /\ inbox' \in Seq(Events)
  BY <1>1, HeadTailProperties
<1>3. e.name \in Name
  BY <1>2 DEF Events
<1> QED BY <1>1, <1>2, <1>3 DEF Event

\* What qttail does keeps the types.
LEMMA QttailTypeOK ==
    ASSUME TypeOK, Qttail
    PROVE  TypeOK'
<1> DEFINE n == at
           Stati == {"initializing", "active", "reinit_pending", "reinit_ready",
                     "delete_pending"}
           Places == {"start", "scan", "pick", "dump", "idle", "read", "events", "stop"}
           Ends == {"no", "open", "empty", "abort", "deleted"}
           AgentsOK == /\ file' \in [Name -> {0} \cup File] /\ newest' \in [Name -> File]
                       /\ stage' \in [Name -> [File -> {"none", "new", "empty", "sized", "ready"}]]
                       /\ traced' \in [Name -> [File -> Nat]] /\ final' \in [Name -> [File -> Nat]]
                       /\ writing' \in [Name -> [File -> BOOLEAN]]
           TailsOK == /\ status' \in [Name -> Stati]
                      /\ mapped' \in [Name -> {0} \cup File] /\ opened' \in [Name -> SUBSET File]
                      /\ shown' \in [Name -> Nat]
                      /\ passed' \in [Name -> BOOLEAN] /\ next' \in [Name -> BOOLEAN]
                      /\ torn' \in [Name -> BOOLEAN]
           LoopOK == /\ queue' \in Seq(Events) /\ inbox' \in Seq(Events)
                     /\ at' \in Tailed' /\ modWatch' \in BOOLEAN
                     /\ rpc' \in Places /\ stop' \in Ends
<1>1. UNCHANGED agentVars /\ UNCHANGED tails
  BY DEF Qttail, Quiet, Start, OpenAgain, Activate, Skip, Find, Pick, Dump, DumpOther,
         DumpNot, Idle, Read,
         Event, NoEvent, Stop, agentVars
<1>2. AgentsOK /\ tails' \in Name
  BY <1>1 DEF TypeOK, agentVars
<1>3. /\ status \in [Name -> Stati] /\ mapped \in [Name -> {0} \cup File]
      /\ opened \in [Name -> SUBSET File] /\ shown \in [Name -> Nat]
      /\ passed \in [Name -> BOOLEAN] /\ next \in [Name -> BOOLEAN]
      /\ torn \in [Name -> BOOLEAN]
  BY DEF TypeOK
<1>4. /\ queue \in Seq(Events) /\ inbox \in Seq(Events) /\ at \in Tailed /\ modWatch \in BOOLEAN
      /\ rpc \in Places /\ stop \in Ends
  BY DEF TypeOK
<1>5. /\ n \in Name /\ 1 \in Tailed /\ Tailed \subseteq Name /\ Tailed' = Tailed
      /\ \A there : Advance(there) => at' \in Tailed
      /\ \A there \in Places : Advance(there) => rpc' \in Places
  <2>1. \A there \in Places : Advance(there) => rpc' \in Places
    BY <1>4 DEF Advance
  <2> QED BY <1>1, <2>1, PlacesAre DEF Tailed
<1>6. Map(n) /\ ~ Missing(n) =>
          mapped' \in [Name -> {0} \cup File] /\ opened' \in [Name -> SUBSET File]
  <2>1. file[n] \in {0} \cup File
    BY <1>5 DEF TypeOK
  <2> QED BY <1>3, <1>5, <2>1 DEF Map, Missing
<1>7. \A why \in Ends : Stop(why) => TailsOK /\ inbox' \in Seq(Events) /\ at' \in Tailed'
                                     /\ rpc' \in Places /\ stop' \in Ends
  BY <1>3, <1>4, <1>5 DEF Stop, tailVars
<1>8. Quiet => queue' \in Seq(Events) /\ modWatch' \in BOOLEAN
  BY <1>4 DEF Quiet
<1>9. TailsOK /\ LoopOK
  <2>1. CASE Start
    <3>1. CASE Stop("open") \/ Stop("empty")
      BY <1>7, <1>8, <2>1, <3>1 DEF Start
    <3>2. CASE ~ Missing(n) /\ ~ Empty(n) /\ Map(n)
               /\ status' = [status EXCEPT ![n] = IF stage[n][file[n]] = "ready" THEN "active"
                                                  ELSE "initializing"]
               /\ shown' = [shown EXCEPT ![n] = IF stage[n][file[n]] = "ready"
                                                THEN traced[n][file[n]] ELSE 0]
               /\ Advance("scan") /\ UNCHANGED <<passed, next, torn, inbox, stop>>
      <4>1. traced[n][file[n]] \in Nat
        <5>1. file[n] \in File /\ traced \in [Name -> [File -> Nat]]
          BY <1>5, <3>2 DEF TypeOK, Missing
        <5> QED BY <1>5, <5>1
      <4>2. status' \in [Name -> Stati] /\ shown' \in [Name -> Nat]
        BY <1>3, <1>5, <3>2, <4>1
      <4>3. TailsOK
        BY <1>3, <1>6, <3>2, <4>2
      <4> QED BY <1>4, <1>5, <1>8, <2>1, <3>2, <4>3 DEF Start
    <3> QED BY <2>1, <3>1, <3>2 DEF Start
  <2>2. CASE OpenAgain
    <3>1. CASE Stop("abort") \/ Stop("empty")
      BY <1>7, <1>8, <2>2, <3>1 DEF OpenAgain
    <3>2. CASE ~ Missing(n) /\ ~ Empty(n) /\ Map(n)
               /\ status' = [status EXCEPT ![n] = "initializing"]
               /\ UNCHANGED <<shown, passed, next, torn, loopVars>>
      BY <1>3, <1>4, <1>5, <1>6, <1>8, <2>2, <3>2 DEF OpenAgain, loopVars
    <3> QED BY <2>2, <3>1, <3>2 DEF OpenAgain
  <2>3. CASE Activate
    BY <1>3, <1>4, <1>5, <1>8, <2>3 DEF Activate, loopVars
  <2>4. CASE Skip
    BY <1>3, <1>4, <1>5, <1>8, <2>4 DEF Skip, tailVars
  <2>5. CASE Find
    <3>1. Visible(n) \in BOOLEAN
      BY DEF Visible, UnderWay
    <3>2. next' \in [Name -> BOOLEAN]
      <4>1. next' = [next EXCEPT ![n] = Visible(n)]
        BY <2>5 DEF Find
      <4> HIDE DEF n
      <4> QED BY <1>3, <1>5, <3>1, <4>1, Zenon
    <3>3. mapped' \in [Name -> {0} \cup File]
      BY <1>3, <1>5, <2>5 DEF Find
    <3>4. torn' \in [Name -> BOOLEAN]
      <4>1. PICK part \in BOOLEAN : torn' = [torn EXCEPT ![n] = part]
        BY <2>5 DEF Find
      <4> QED BY <1>3, <4>1
    <3> QED BY <1>3, <1>4, <1>5, <1>8, <2>5, <3>2, <3>3, <3>4 DEF Find
  <2>6. CASE Pick
    BY <1>3, <1>4, <1>5, <1>8, <2>6 DEF Pick, tailVars
  <2>7. CASE Dump
    BY <1>3, <1>4, <1>5, <1>8, <2>7 DEF Dump
  <2>8. CASE DumpOther
    BY <1>3, <1>4, <1>5, <1>8, <2>8 DEF DumpOther
  <2>13. CASE DumpNot
    BY <1>3, <1>4, <1>5, <1>8, <2>13 DEF DumpNot
  <2>9. CASE Idle
    BY <1>3, <1>4, <1>5, <1>7, <1>8, <2>9 DEF Idle, tailVars
  <2>10. CASE Read
    <3>1. <<>> \in Seq(Events)
      BY EmptySeq
    <3> QED BY <1>3, <1>4, <1>5, <2>10, <3>1 DEF Read, tailVars
  <2>11. CASE Event
    <3>1. PICK e : e = Head(inbox)
      OBVIOUS
    <3>2. /\ e.name \in Name
          /\ \/ OnCreate(e.name) \/ OnDelete(e.name) \/ OnModify(e.name)
          /\ inbox' \in Seq(Events)
          /\ UNCHANGED <<queue, tails, shown, passed, next, torn, opened, rpc, at, stop>>
      BY <2>11, <3>1, EventIs
    <3>3. \A s \in Stati : StatusIs(e.name, s) =>
              status' \in [Name -> Stati] /\ mapped' \in [Name -> {0} \cup File]
      BY <1>3, <3>2 DEF StatusIs
    <3>4. \A on \in BOOLEAN : \A s : ModWatchIs(on, s) => modWatch' \in BOOLEAN
      BY <1>4 DEF ModWatchIs
    <3>5. modWatch' \in BOOLEAN /\ status' \in [Name -> Stati] /\ mapped' \in [Name -> {0} \cup File]
      BY <3>2, <3>3, <3>4 DEF OnCreate, OnDelete, OnModify
    <3> QED BY <1>3, <1>4, <1>5, <3>2, <3>5
  <2>12. CASE NoEvent
    BY <1>3, <1>4, <1>5, <1>8, <2>12 DEF NoEvent, tailVars
  <2> QED BY <2>1, <2>2, <2>3, <2>4, <2>5, <2>6, <2>7, <2>8, <2>9, <2>10, <2>11, <2>12, <2>13
      DEF Qttail
<1> QED BY <1>2, <1>9 DEF TypeOK

(***************************************************************************)
(* FilesNamed                                                              *)
(***************************************************************************)

\* What the types say of a single name and file.
LEMMA TypesAre ==
    ASSUME TypeOK
    PROVE  /\ \A m \in Name : /\ newest[m] \in File /\ newest[m] \in Nat \ {0}
                              /\ MaxFiles[m] \in Nat
                              /\ file[m] \in {0} \cup File /\ file[m] \in Nat
                              /\ mapped[m] \in {0} \cup File /\ mapped[m] \in Nat
                              /\ opened[m] \subseteq File /\ 0 \notin opened[m]
                              /\ shown[m] \in Nat /\ next[m] \in BOOLEAN
           /\ \A m \in Name, f \in File : final[m][f] \in Nat /\ traced[m][f] \in Nat
           /\ File \subseteq Nat \ {0} /\ 0 \notin File
<1>1. File \subseteq Nat \ {0} /\ 0 \notin File /\ \A m \in Name : MaxFiles[m] \in Nat
  BY FileIs
<1>2. newest \in [Name -> File] /\ file \in [Name -> {0} \cup File]
  BY DEF TypeOK
<1>3. mapped \in [Name -> {0} \cup File] /\ opened \in [Name -> SUBSET File]
  BY DEF TypeOK
<1>4. shown \in [Name -> Nat] /\ next \in [Name -> BOOLEAN]
  BY DEF TypeOK
<1>5. final \in [Name -> [File -> Nat]] /\ traced \in [Name -> [File -> Nat]]
  BY DEF TypeOK
<1>6. \A m \in Name, f \in File : final[m][f] \in Nat /\ traced[m][f] \in Nat
  BY <1>5
<1>7. \A m \in Name : opened[m] \subseteq File /\ 0 \notin opened[m]
  BY <1>1, <1>3
<1>8. \A m \in Name : newest[m] \in File /\ file[m] \in {0} \cup File /\ mapped[m] \in {0} \cup File
  BY <1>2, <1>3
<1>9. \A m \in Name : /\ newest[m] \in Nat \ {0} /\ file[m] \in Nat /\ mapped[m] \in Nat
                       /\ shown[m] \in Nat /\ next[m] \in BOOLEAN
  <2>1. \A m \in Name : newest[m] \in Nat \ {0} /\ file[m] \in Nat /\ mapped[m] \in Nat
    <3>1. ASSUME NEW m \in Name
          PROVE  newest[m] \in Nat \ {0} /\ file[m] \in Nat /\ mapped[m] \in Nat
      <4>1. /\ newest[m] \in File /\ (file[m] = 0 \/ file[m] \in File)
            /\ mapped[m] = 0 \/ mapped[m] \in File
        BY <1>8
      <4>2. \A f \in File : f \in Nat \ {0}
        BY <1>1
      <4> QED BY <4>1, <4>2
    <3> QED BY <3>1
  <2>2. \A m \in Name : shown[m] \in Nat
    BY <1>4
  <2>3. \A m \in Name : next[m] \in BOOLEAN
    BY <1>4
  <2> QED BY <2>1, <2>2, <2>3
<1> QED BY <1>1, <1>6, <1>7, <1>8, <1>9

\* What any step of an agent does to the files.
LEMMA AgentFrame ==
    ASSUME TypeOK, FilesNamed, NEW n \in Name, Agent(n)
    PROVE  /\ UNCHANGED <<tails, modWatch>> /\ UNCHANGED tailVars /\ UNCHANGED loopVars
           /\ \A m \in Name, f \in File :
                 /\ stage[m][f] # "none" => stage'[m][f] # "none"
                 /\ traced'[m][f] >= traced[m][f]
                 /\ stage[m][f] = "none" /\ stage'[m][f] # "none" =>
                        m = n /\ f = newest[n] /\ Create(n)
           /\ \A m \in Name :
                 /\ newest'[m] = newest[m] \/ (m = n /\ Restart(n) /\ newest'[m] = newest[m] + 1)
                 /\ newest'[m] <= MaxFiles[m]
                 /\ m # n => file'[m] = file[m]
<1>1. /\ UNCHANGED <<tails, modWatch>> /\ UNCHANGED tailVars /\ UNCHANGED loopVars
  BY DEF Agent, Env, Restart, Create, Truncate, Write, Finish, Begin, Complete, Delete
<1>2. /\ stage \in [Name -> [File -> {"none", "new", "empty", "sized", "ready"}]]
      /\ traced \in [Name -> [File -> Nat]]
      /\ newest \in [Name -> File] /\ file \in [Name -> {0} \cup File]
      /\ newest[n] \in File /\ newest[n] \in Nat
      /\ \A m \in Name : newest[m] \in Nat /\ MaxFiles[m] \in Nat /\ newest[m] <= MaxFiles[m]
      /\ \A m \in Name, f \in File : traced[m][f] \in Nat
  <2>1. /\ stage \in [Name -> [File -> {"none", "new", "empty", "sized", "ready"}]]
        /\ traced \in [Name -> [File -> Nat]]
        /\ newest \in [Name -> File] /\ file \in [Name -> {0} \cup File]
    BY DEF TypeOK
  <2>2. \A m \in Name : newest[m] <= MaxFiles[m]
    BY DEF FilesNamed
  <2> QED BY <2>1, <2>2, TypesAre
<1>3. CASE Restart(n)
  BY <1>1, <1>2, <1>3 DEF Restart
<1>4. CASE Create(n)
  BY <1>1, <1>2, <1>4 DEF Create
<1>5. CASE Truncate(n)
  <2>1. PICK t \in {"empty", "sized"} : stage' = [stage EXCEPT ![n][newest[n]] = t]
    BY <1>5 DEF Truncate
  <2>2. stage[n][newest[n]] # "none"
    BY <1>5 DEF Truncate
  <2>3. UNCHANGED <<file, newest, traced>>
    BY <1>5 DEF Truncate
  <2> QED BY <1>1, <1>2, <2>1, <2>2, <2>3
<1>6. CASE Write(n)
  BY <1>1, <1>2, <1>6 DEF Write
<1>7. CASE Finish(n)
  BY <1>1, <1>2, <1>7 DEF Finish
<1>8. CASE Begin(n)
  BY <1>1, <1>2, <1>8 DEF Begin
<1>9. CASE Complete(n)
  BY <1>1, <1>2, <1>9 DEF Complete
<1>10. CASE Delete(n)
  BY <1>1, <1>2, <1>10 DEF Delete
<1> QED BY <1>3, <1>4, <1>5, <1>6, <1>7, <1>8, <1>9, <1>10 DEF Agent

\* How an agent gives a name to a file, and takes it away.
LEMMA AgentNames ==
    ASSUME TypeOK, FilesNamed, NEW n \in Name, Agent(n)
    PROVE  \/ /\ Create(n) /\ file'[n] = newest[n] /\ stage[n][newest[n]] = "none"
              /\ stage'[n][newest[n]] = "new" /\ newest' = newest /\ final' = final
              /\ file[n] = 0
              /\ Notify(n, "create", newest[n])
           \/ /\ Restart(n) /\ file'[n] = 0 /\ newest'[n] = newest[n] + 1 /\ queue' = queue
              /\ stage' = stage /\ newest[n] + 1 \in File /\ traced' = traced
              /\ final' = IF file[n] = 0 THEN final
                          ELSE [final EXCEPT ![n][file[n]] = traced[n][file[n]]]
           \/ /\ Delete(n) /\ file[n] # 0 /\ file'[n] = 0 /\ newest' = newest /\ stage' = stage
              /\ final' = [final EXCEPT ![n][file[n]] = traced[n][file[n]]]
              /\ Notify(n, "delete", file[n]) /\ traced' = traced
           \/ /\ file' = file /\ newest' = newest /\ final' = final
              /\ queue' = queue \/ Notify(n, "modify", newest[n])
<1>1. /\ stage \in [Name -> [File -> {"none", "new", "empty", "sized", "ready"}]]
      /\ newest \in [Name -> File] /\ file \in [Name -> {0} \cup File]
      /\ newest[n] \in File /\ newest[n] \in Nat \ {0} /\ MaxFiles[n] \in Nat
      /\ file[n] # 0 => stage[n][newest[n]] # "none"
  BY FileIs DEF TypeOK, FilesNamed
<1>2. CASE Restart(n)
  <2>1. newest[n] + 1 \in 1 .. MaxFiles[n]
    BY <1>1, <1>2 DEF Restart
  <2>2. newest[n] + 1 \in File
    BY <2>1, FileIs
  <2>3. file'[n] = 0 /\ newest'[n] = newest[n] + 1
    BY <1>1, <1>2 DEF Restart
  <2> QED BY <1>2, <2>2, <2>3 DEF Restart
<1>3. CASE Create(n)
  <2>1. /\ stage'[n][newest[n]] = "new" /\ file'[n] = newest[n]
        /\ stage[n][newest[n]] = "none" /\ newest' = newest /\ final' = final
        /\ Notify(n, "create", newest[n])
    BY <1>1, <1>3 DEF Create
  <2> QED BY <1>1, <1>3, <2>1
<1>4. CASE Delete(n)
  BY <1>1, <1>4 DEF Delete
<1>5. CASE Truncate(n) \/ Write(n)
  <2>1. NotifyModify(n) /\ UNCHANGED <<file, newest, final>>
    BY <1>5 DEF Truncate, Write
  <2> QED BY <2>1 DEF NotifyModify
<1>6. CASE Finish(n) \/ Begin(n) \/ Complete(n)
  BY <1>6 DEF Finish, Begin, Complete
<1> QED BY <1>2, <1>3, <1>4, <1>5, <1>6 DEF Agent

\* Agents keep names and files together.
LEMMA AgentFilesNamed ==
    ASSUME TypeOK, TypeOK', FilesNamed, NEW n \in Name, Agent(n)
    PROVE  FilesNamed'
<1>1. /\ UNCHANGED tailVars
      /\ \A m \in Name, f \in File :
            /\ stage[m][f] # "none" => stage'[m][f] # "none"
            /\ traced'[m][f] >= traced[m][f]
            /\ stage[m][f] = "none" /\ stage'[m][f] # "none" => m = n /\ f = newest[n]
      /\ \A m \in Name :
            /\ newest'[m] = newest[m] \/ newest'[m] = newest[m] + 1
            /\ newest'[m] <= MaxFiles[m]
            /\ m # n => newest'[m] = newest[m]
            /\ m # n => file'[m] = file[m]
  BY AgentFrame
<1>2. /\ \A m \in Name : /\ newest[m] \in File /\ newest[m] \in Nat /\ newest'[m] \in Nat
                         /\ file[m] \in {0} \cup File /\ mapped[m] \in {0} \cup File
                         /\ opened[m] \subseteq File
                         /\ \A f \in File : final[m][f] \in Nat /\ traced[m][f] \in Nat
                                            /\ traced'[m][f] \in Nat
      /\ File \subseteq Nat \ {0}
      /\ final \in [Name -> [File -> Nat]] /\ file[n] \in {0} \cup File
  <2>1. final \in [Name -> [File -> Nat]] /\ newest' \in [Name -> File]
    BY DEF TypeOK
  <2>2. traced' \in [Name -> [File -> Nat]]
    BY DEF TypeOK
  <2>3. \A m \in Name, f \in File : traced'[m][f] \in Nat
    BY <2>2
  <2>4. \A m \in Name : newest'[m] \in Nat
    BY <2>1, FileIs
  <2> QED BY <2>1, <2>3, <2>4, TypesAre
<1>3. ASSUME NEW m \in Name
      PROVE  file'[m] # 0 => file'[m] = newest'[m] /\ stage'[m][file'[m]] # "none"
  <2>1. file[m] # 0 => file[m] = newest[m] /\ stage[m][file[m]] # "none"
    BY DEF FilesNamed
  <2>2. CASE m # n
    BY <1>1, <1>2, <2>1, <2>2
  <2>3. CASE m = n
    <3>1. \/ file'[n] = newest[n] /\ stage'[n][newest[n]] = "new" /\ newest' = newest
          \/ file'[n] = 0
          \/ file' = file /\ newest' = newest
      BY AgentNames
    <3> QED BY <1>1, <1>2, <2>1, <2>3, <3>1
  <2> QED BY <2>2, <2>3
<1>4. ASSUME NEW m \in Name, NEW f \in File
      PROVE  f > newest'[m] => stage'[m][f] = "none"
  <2>1. f > newest[m] => stage[m][f] = "none"
    BY DEF FilesNamed
  <2> QED BY <1>1, <1>2, <2>1
<1>5. ASSUME NEW m \in Name, NEW f \in File
      PROVE  final'[m][f] <= traced'[m][f]
  <2>1. final[m][f] <= traced[m][f]
    BY DEF FilesNamed
  <2>2. final' = final \/ (final' = [final EXCEPT ![n][file[n]] = traced[n][file[n]]] /\ file[n] # 0)
    BY AgentNames
  <2>3. final'[m][f] = final[m][f] \/ final'[m][f] = traced[m][f]
    BY <1>2, <2>2
  <2> QED BY <1>1, <1>2, <2>1, <2>3
<1>6. ASSUME NEW m \in Name, NEW f \in opened'[m] \cup {mapped'[m]}, f # 0
      PROVE  stage'[m][f] # "none"
  <2>1. opened' = opened /\ mapped' = mapped
    BY <1>1 DEF tailVars
  <2>2. f \in File /\ stage[m][f] # "none"
    BY <1>2, <1>6, <2>1 DEF FilesNamed
  <2> QED BY <1>1, <2>2
<1> QED BY <1>1, <1>3, <1>4, <1>5, <1>6 DEF FilesNamed

\* qttail does not touch the files, and hears of them in the order of the queue.
LEMMA QttailFrame ==
    ASSUME TypeOK, Rounds, Qttail
    PROVE  /\ UNCHANGED agentVars /\ UNCHANGED tails
           /\ Event \/ (Pending' = Pending /\ modWatch' = modWatch)
           /\ Event \/ Read \/ (queue' = queue /\ inbox' = inbox)
<1>1. UNCHANGED agentVars /\ UNCHANGED tails
  BY DEF Qttail, Quiet, Start, OpenAgain, Activate, Skip, Find, Pick, Dump, DumpOther,
         DumpNot, Idle, Read,
         Event, NoEvent, Stop, agentVars
<1>2. Event \/ modWatch' = modWatch
  BY DEF Qttail, Quiet, Start, OpenAgain, Activate, Skip, Find, Pick, Dump, DumpOther,
         DumpNot, Idle, Read,
         NoEvent
<1>3. Event \/ Read \/ (queue' = queue /\ inbox' = inbox)
  BY DEF Qttail, Quiet, Start, OpenAgain, Activate, Skip, Find, Pick, Dump, DumpOther, DumpNot,
         Idle,
         NoEvent, Stop, loopVars
<1>4. Read => Pending' = Pending
  <2>1. Read => inbox = <<>> /\ inbox' = queue /\ queue' = <<>>
    BY DEF Read, Rounds
  <2>2. queue \in Seq(Events)
    BY DEF TypeOK
  <2>3. queue \o <<>> = queue /\ <<>> \o queue = queue
    BY <2>2, ConcatEmptySeq
  <2> QED BY <2>1, <2>3 DEF Pending
<1> QED BY <1>1, <1>2, <1>3, <1>4 DEF Pending

\* How a step of qttail opens a file and lets go of one.
LEMMA QttailOpens ==
    ASSUME TypeOK, Qttail, NEW m \in Name
    PROVE  \/ mapped'[m] = mapped[m] /\ opened'[m] = opened[m]
           \/ /\ mapped[m] # 0 /\ mapped'[m] = 0 /\ opened'[m] = opened[m]
              /\ \/ m = at /\ Find /\ ~ Visible(m) /\ status[m] # "active"
                 \/ Event /\ m = Head(inbox).name /\ status[m] = "initializing"
           \/ /\ m = at /\ file[m] # 0
              /\ rpc = "start" \/ (mapped[m] = 0 /\ status[m] = "reinit_ready")
              /\ status'[m] \in {"active", "initializing"}
              /\ stage[m][file[m]] \notin {"new", "empty"}
              /\ mapped'[m] = file[m]
              /\ opened'[m] = opened[m] \cup
                    (IF \E e \in Unread : e.kind = "create" /\ e.name = m /\ e.of = file[m]
                     THEN {} ELSE {file[m]})
<1>1. mapped \in [Name -> {0} \cup File] /\ opened \in [Name -> SUBSET File] /\ at \in Name
  BY PlacesAre DEF TypeOK
<1>2. CASE UNCHANGED <<mapped, opened>>
  BY <1>2
<1>3. CASE Start
  <2>1. CASE Map(at) /\ ~ Missing(at) /\ ~ Empty(at)
    <3>1. PICK s \in {"active", "initializing"} : status' = [status EXCEPT ![at] = s]
      BY <1>3, <2>1 DEF Start, Stop, Missing, Empty
    <3>2. status'[at] \in {"active", "initializing"}
      BY <1>1, <3>1 DEF TypeOK
    <3> QED BY <1>1, <1>3, <2>1, <3>2 DEF Start, Map, Missing, Empty
  <2>2. CASE UNCHANGED <<mapped, opened>>
    BY <2>2
  <2> QED BY <1>3, <2>1, <2>2 DEF Start, Stop, tailVars
<1>4. CASE OpenAgain
  <2>1. CASE Map(at) /\ ~ Missing(at) /\ ~ Empty(at)
    <3>1. status' = [status EXCEPT ![at] = "initializing"]
      BY <1>4, <2>1 DEF OpenAgain, Stop, Missing, Empty
    <3>2. status'[at] = "initializing"
      BY <1>1, <3>1 DEF TypeOK
    <3> QED BY <1>1, <1>4, <2>1, <3>2 DEF OpenAgain, Map, Missing, Empty
  <2>2. CASE UNCHANGED <<mapped, opened>>
    BY <2>2
  <2> QED BY <1>4, <2>1, <2>2 DEF OpenAgain, Stop, tailVars
<1>5. CASE Find
  <2>1. opened' = opened /\ mapped[at] # 0
    BY <1>5 DEF Find
  <2>2. mapped' = mapped
        \/ (mapped' = [mapped EXCEPT ![at] = 0] /\ ~ Visible(at) /\ status[at] # "active")
    BY <1>5 DEF Find
  <2> QED BY <1>1, <1>5, <2>1, <2>2
<1>6. CASE Event
  <2>1. PICK e : e = Head(inbox)
    OBVIOUS
  <2>2. e.name \in Name /\ opened' = opened
    BY <1>6, <2>1, EventIs
  <2>3. OnCreate(e.name) \/ OnDelete(e.name) \/ OnModify(e.name)
    BY <1>6, <2>1, EventIs
  <2>4. mapped' = mapped \/ (mapped' = [mapped EXCEPT ![e.name] = 0]
                             /\ status[e.name] = "initializing")
    BY <2>3 DEF OnCreate, OnDelete, OnModify, StatusIs
  <2> QED BY <1>1, <1>6, <2>1, <2>2, <2>4
<1>7. Start \/ OpenAgain \/ Find \/ Event \/ UNCHANGED <<mapped, opened>>
  BY DEF Qttail, Activate, Skip, Pick, Dump, DumpOther, DumpNot, Idle, Read, NoEvent, Stop, tailVars
<1> QED BY <1>2, <1>3, <1>4, <1>5, <1>6, <1>7

\* qttail maps only what was created.
LEMMA QttailFilesNamed ==
    ASSUME TypeOK, FilesNamed, Rounds, Qttail
    PROVE  FilesNamed'
<1>1. UNCHANGED <<file, newest, stage, traced, final>>
  BY QttailFrame DEF agentVars
<1>2. ASSUME NEW m \in Name, NEW f \in opened'[m] \cup {mapped'[m]}, f # 0
      PROVE  stage[m][f] # "none"
  <2>1. f \in opened[m] \cup {mapped[m]} \/ (f = file[m] /\ file[m] # 0)
    BY <1>2, QttailOpens
  <2> QED BY <1>2, <2>1 DEF FilesNamed
<1> QED BY <1>1, <1>2 DEF FilesNamed

(***************************************************************************)
(* ToldOfFile                                                              *)
(***************************************************************************)

\* What an agent does to the events: it adds one at their end, if any.
LEMMA AgentPending ==
    ASSUME TypeOK, FilesNamed, NEW n \in Name, Agent(n)
    PROVE  \/ /\ Pending' = Pending /\ queue' = queue
              /\ file' = file /\ newest' = newest /\ final' = final
              /\ \A m \in Name, f \in File : stage'[m][f] = "none" <=> stage[m][f] = "none"
           \/ /\ Pending' = Pending /\ queue' = queue
              /\ file'[n] = 0 /\ stage' = stage /\ newest'[n] = newest[n] + 1
              /\ newest'[n] \in File /\ stage'[n][newest'[n]] = "none"
           \/ /\ \E e \in Events : /\ Grows(e) /\ e = Created(n, newest[n])
                                   /\ queue' = Append(queue, e) \/ queue' = queue
              /\ file[n] = 0 /\ file'[n] = newest[n] /\ newest' = newest /\ final' = final
              /\ stage[n][newest[n]] = "none" /\ stage'[n][newest[n]] = "new"
           \/ /\ \E e \in Events : /\ Grows(e) /\ IsOf(e, n, {"delete"}) /\ e.of = file[n]
                                   /\ queue' = Append(queue, e) \/ queue' = queue
              /\ file[n] # 0 /\ file'[n] = 0 /\ newest' = newest /\ stage' = stage
           \/ /\ \E e \in Events : /\ Grows(e) /\ e.name = n /\ e.kind = "modify"
                                   /\ queue' = Append(queue, e) \/ queue' = queue
              /\ file' = file /\ newest' = newest /\ final' = final
              /\ \A m \in Name, f \in File : stage'[m][f] = "none" <=> stage[m][f] = "none"
<1>1. inbox' = inbox
  BY AgentFrame DEF loopVars
<1>2. newest[n] \in File /\ newest[n] \in Nat
  BY TypesAre
<1>3. queue' = queue => Pending' = Pending
  BY <1>1 DEF Pending
<1>4. ASSUME NEW k \in {"create", "delete", "modify"}, NEW f \in File, Notify(n, k, f)
      PROVE  \E e \in Events : /\ Grows(e) /\ e = [name |-> n, kind |-> k, of |-> f]
                               /\ queue' = Append(queue, e) \/ queue' = queue
  <2>1. PICK e : e = [name |-> n, kind |-> k, of |-> f]
    OBVIOUS
  <2>2. /\ e \in Events
        /\ queue' = Append(queue, e) \/ (queue' = queue /\ queue # <<>> /\ queue[Len(queue)] = e)
    BY <1>4, <2>1, NotifyIs
  <2>3. Grows(e)
    BY <1>1, <2>2, PendingGrows
  <2> QED BY <2>1, <2>2, <2>3
<1>6. CASE Create(n)
  <2>1. /\ file[n] = 0 /\ file'[n] = newest[n] /\ newest' = newest /\ final' = final
        /\ stage[n][newest[n]] = "none" /\ stage'[n][newest[n]] = "new"
        /\ Notify(n, "create", newest[n])
    <3>1. stage[n][newest[n]] = "none"
      BY <1>6 DEF Create
    <3>4. stage'[n][newest[n]] = "new"
      <4>1. stage \in [Name -> [File -> {"none", "new", "empty", "sized", "ready"}]]
        BY DEF TypeOK
      <4> QED BY <1>2, <1>6, <4>1 DEF Create
    <3>5. file'[n] = newest[n] /\ file[n] = 0
      <4>1. file \in [Name -> {0} \cup File]
        BY DEF TypeOK
      <4> QED BY <1>6, <3>1, <4>1 DEF Create, FilesNamed
    <3> QED BY <1>6, <3>1, <3>4, <3>5 DEF Create
  <2>2. \E e \in Events : /\ Grows(e) /\ e = Created(n, newest[n])
                          /\ queue' = Append(queue, e) \/ queue' = queue
    BY <1>2, <1>4, <2>1 DEF Created
  <2> QED BY <2>1, <2>2
<1>7. CASE Delete(n)
  <2>1. /\ file[n] # 0 /\ file'[n] = 0 /\ newest' = newest /\ stage' = stage
        /\ Notify(n, "delete", file[n]) /\ file[n] \in File
    <3>1. file \in [Name -> {0} \cup File]
      BY DEF TypeOK
    <3> QED BY <1>7, <3>1 DEF Delete
  <2>2. PICK e \in Events : /\ Grows(e) /\ e = [name |-> n, kind |-> "delete", of |-> file[n]]
                            /\ queue' = Append(queue, e) \/ queue' = queue
    BY <1>4, <2>1
  <2>3. IsOf(e, n, {"delete"}) /\ e.of = file[n]
    BY <2>2 DEF IsOf
  <2> QED BY <2>1, <2>2, <2>3
<1>8. CASE Restart(n)
  <2>1. /\ newest' = [newest EXCEPT ![n] = @ + 1] /\ file' = [file EXCEPT ![n] = 0]
        /\ stage' = stage /\ queue' = queue /\ newest[n] < MaxFiles[n]
    BY <1>8 DEF Restart
  <2>2. newest'[n] = newest[n] + 1 /\ file'[n] = 0
    BY <2>1 DEF TypeOK
  <2>3. newest[n] + 1 \in 1 .. MaxFiles[n]
    BY <1>2, <2>1, TypesAre
  <2>4. newest[n] + 1 \in File /\ newest[n] + 1 > newest[n]
    BY <1>2, <2>3, FileIs
  <2>5. stage[n][newest[n] + 1] = "none"
    BY <2>4 DEF FilesNamed
  <2> QED BY <1>3, <2>1, <2>2, <2>4, <2>5
<1>9. CASE ~ Create(n) /\ ~ Delete(n) /\ ~ Restart(n)
  <2>1. UNCHANGED <<file, newest, final>> /\ (queue' = queue \/ Notify(n, "modify", newest[n]))
    BY <1>9 DEF Agent, Truncate, Write, Finish, Begin, Complete, NotifyModify
  <2>2. \A m \in Name, f \in File : stage'[m][f] = "none" <=> stage[m][f] = "none"
    BY <1>9, AgentFrame
  <2>3. CASE queue' = queue
    BY <1>3, <2>1, <2>2, <2>3
  <2>4. CASE Notify(n, "modify", newest[n])
    <3>1. PICK e \in Events : /\ Grows(e) /\ e = [name |-> n, kind |-> "modify", of |-> newest[n]]
                              /\ queue' = Append(queue, e) \/ queue' = queue
      BY <1>2, <1>4, <2>4
    <3>2. e.name = n /\ e.kind = "modify"
      BY <3>1
    <3> QED BY <2>1, <2>2, <3>1, <3>2
  <2> QED BY <2>1, <2>3, <2>4
<1> QED BY <1>6, <1>7, <1>8, <1>9

\* Events that came before the one that is added stay where they are.
LEMMA GrowsBy ==
    ASSUME TypeOK, NEW e \in Events, Grows(e)
    PROVE  /\ Len(Pending) \in Nat /\ Len(Pending') \in Nat /\ Len(Pending') > 0
           /\ Len(Pending) <= Len(Pending') /\ Len(Pending') <= Len(Pending) + 1
           /\ Pending'[Len(Pending')] = e
           /\ \A i \in 1 .. Len(Pending) : Pending'[i] = Pending[i]
           /\ \A i \in 1 .. Len(Pending') : Pending'[i] # e => i \in 1 .. Len(Pending)
<1>1. Len(Pending) \in Nat
  BY PendingIs
<1>2. /\ Len(Pending') = Len(Pending) \/ Len(Pending') = Len(Pending) + 1
      /\ \A i \in 1 .. Len(Pending) : Pending'[i] = Pending[i]
      /\ Len(Pending') > 0 /\ Pending'[Len(Pending')] = e
  BY DEF Grows
<1>3. Len(Pending') \in Nat
  BY <1>1, <1>2
<1>4. ASSUME NEW i \in 1 .. Len(Pending'), Pending'[i] # e
      PROVE  i \in 1 .. Len(Pending)
  <2>1. i # Len(Pending')
    BY <1>2, <1>4
  <2> QED BY <1>1, <1>2, <1>3, <2>1
<1> QED BY <1>1, <1>2, <1>3, <1>4

\* An event that is added leaves qttail told of every file that it does not concern.
LEMMA ToldStill ==
    ASSUME TypeOK, ToldOfFile, NEW e \in Events, Grows(e), NEW m \in Name, NEW f \in File,
           file[m] = f, NEW i \in 1 .. Len(Pending'),
           IsOf(Pending'[i], m, {"create", "delete"}), Pending'[i] # e
    PROVE  \E j \in i .. Len(Pending') : Pending'[j] = Created(m, f)
<1>1. /\ Len(Pending) \in Nat /\ Len(Pending') \in Nat /\ Len(Pending) <= Len(Pending')
      /\ \A k \in 1 .. Len(Pending) : Pending'[k] = Pending[k]
      /\ i \in 1 .. Len(Pending)
  BY GrowsBy
<1>2. f # 0
  BY TypesAre
<1>3. PICK j \in i .. Len(Pending) : Pending[j] = Created(m, f)
  BY <1>1, <1>2 DEF ToldOfFile
<1>4. j \in 1 .. Len(Pending) /\ j \in i .. Len(Pending')
  BY <1>1
<1> QED BY <1>1, <1>3, <1>4

LEMMA AgentToldOfFile ==
    ASSUME TypeOK, FilesNamed, ToldOfFile, NEW n \in Name, Agent(n)
    PROVE  ToldOfFile'
<1> SUFFICES ASSUME NEW m \in Name, NEW i \in 1 .. Len(Pending'), file'[m] # 0,
                    IsOf(Pending'[i], m, {"create", "delete"})
             PROVE  \E j \in i .. Len(Pending') : Pending'[j] = Created(m, file'[m])
  BY DEF ToldOfFile
<1>1. m # n => file'[m] = file[m]
  BY AgentFrame
<1>2. file[m] = 0 \/ file[m] \in File
  BY TypesAre
<1>3. CASE Pending' = Pending /\ (file' = file \/ file'[n] = 0)
  BY <1>1, <1>3 DEF ToldOfFile
<1>4. ASSUME NEW e \in Events, Grows(e), e = Created(n, newest[n]), file'[n] = newest[n]
      PROVE  \E j \in i .. Len(Pending') : Pending'[j] = Created(m, file'[m])
  <2>1. /\ Len(Pending') \in Nat /\ Len(Pending') > 0 /\ Pending'[Len(Pending')] = e
    BY <1>4, GrowsBy
  <2>2. CASE m = n
    <3>1. Len(Pending') \in i .. Len(Pending')
      BY <2>1
    <3> QED BY <1>4, <2>1, <2>2, <3>1
  <2>3. CASE m # n
    <3>1. Pending'[i] # e
      BY <1>4, <2>3 DEF IsOf, Created
    <3> QED BY <1>1, <1>2, <1>4, <2>3, <3>1, ToldStill
  <2> QED BY <2>2, <2>3
<1>5. ASSUME NEW e \in Events, Grows(e), e.name = n, e.kind = "modify", file' = file
      PROVE  \E j \in i .. Len(Pending') : Pending'[j] = Created(m, file'[m])
  <2>1. Pending'[i] # e
    BY <1>5 DEF IsOf
  <2> QED BY <1>2, <1>5, <2>1, ToldStill
<1>6. ASSUME NEW e \in Events, Grows(e), IsOf(e, n, {"delete"}), file'[n] = 0
      PROVE  \E j \in i .. Len(Pending') : Pending'[j] = Created(m, file'[m])
  <2>1. m # n /\ Pending'[i] # e
    BY <1>6 DEF IsOf
  <2> QED BY <1>1, <1>2, <1>6, <2>1, ToldStill
<1> QED BY <1>3, <1>4, <1>5, <1>6, AgentPending

LEMMA QttailToldOfFile ==
    ASSUME TypeOK, Rounds, ToldOfFile, Qttail
    PROVE  ToldOfFile'
<1>1. file' = file
  BY QttailFrame DEF agentVars
<1>2. CASE Pending' = Pending
  BY <1>1, <1>2 DEF ToldOfFile
<1>3. CASE Event
  <2>1. inbox # <<>> /\ inbox' = Tail(inbox) /\ queue' = queue
    BY <1>3 DEF Event
  <2>2. /\ Len(Pending) \in Nat /\ Len(Pending) > 0 /\ Len(Pending') = Len(Pending) - 1
        /\ \A i \in 1 .. Len(Pending') : Pending'[i] = Pending[i + 1]
    BY <2>1, PendingShrinks
  <2>3. ASSUME NEW m \in Name, NEW i \in 1 .. Len(Pending'), file[m] # 0,
               IsOf(Pending'[i], m, {"create", "delete"})
        PROVE  \E j \in i .. Len(Pending') : Pending'[j] = Created(m, file[m])
    <3>1. i + 1 \in 1 .. Len(Pending) /\ IsOf(Pending[i + 1], m, {"create", "delete"})
      BY <2>2, <2>3
    <3>2. PICK j \in i + 1 .. Len(Pending) : Pending[j] = Created(m, file[m])
      BY <2>3, <3>1 DEF ToldOfFile
    <3>3. j - 1 \in i .. Len(Pending') /\ j - 1 \in 1 .. Len(Pending') /\ (j - 1) + 1 = j
      BY <2>2
    <3> QED BY <2>2, <3>2, <3>3
  <2> QED BY <1>1, <2>3 DEF ToldOfFile
<1> QED BY <1>2, <1>3, QttailFrame

(***************************************************************************)
(* ToldOfDeletion                                                          *)
(***************************************************************************)

\* What an event does to the status of its tail and to the file it maps.
LEMMA EventStatus ==
    ASSUME TypeOK, Event, NEW e, e = Head(inbox), NEW m \in Name
    PROVE  /\ e.name = m /\ e.kind = "create" => status'[m] = "reinit_pending"
           /\ e.name = m /\ e.kind = "delete" => status'[m] = "delete_pending"
           /\ e.name # m \/ e.kind = "modify" =>
                  \/ status'[m] = status[m]
                  \/ e.name = m /\ status[m] = "reinit_pending" /\ status'[m] = "reinit_ready"
           /\ mapped'[m] = IF e.name = m /\ e.kind # "modify" /\ status[m] = "initializing"
                           THEN 0 ELSE mapped[m]
           /\ e.kind \in {"create", "delete", "modify"}
<1>1. DOMAIN status = Name /\ DOMAIN mapped = Name
  BY DEF TypeOK
<1>2. /\ e \in Events /\ e.name \in Name
      /\ \/ e.kind = "create" /\ OnCreate(e.name)
         \/ e.kind = "delete" /\ OnDelete(e.name)
         \/ e.kind = "modify" /\ OnModify(e.name)
  BY EventIs
<1>3. ASSUME NEW s, StatusIs(e.name, s)
      PROVE  /\ status'[m] = IF e.name = m /\ ~ (s = "reinit_ready" /\ status[m] # "reinit_pending")
                             THEN s ELSE status[m]
             /\ mapped'[m] = IF e.name = m /\ s # "reinit_ready" /\ status[m] = "initializing"
                             THEN 0 ELSE mapped[m]
  <2>1. status \in [Name -> {"initializing", "active", "reinit_pending", "reinit_ready",
                            "delete_pending"}] /\ mapped \in [Name -> {0} \cup File]
    BY DEF TypeOK
  <2> QED BY <1>2, <1>3, <2>1 DEF StatusIs
<1>4. CASE e.kind = "create" /\ OnCreate(e.name)
  <2>1. StatusIs(e.name, "reinit_pending")
    BY <1>4 DEF OnCreate
  <2> QED BY <1>3, <1>4, <2>1
<1>5. CASE e.kind = "delete" /\ OnDelete(e.name)
  <2>1. StatusIs(e.name, "delete_pending")
    BY <1>5 DEF OnDelete
  <2> QED BY <1>3, <1>5, <2>1
<1>6. CASE e.kind = "modify" /\ OnModify(e.name)
  <2>1. StatusIs(e.name, "reinit_ready")
    BY <1>6 DEF OnModify
  <2> QED BY <1>3, <1>6, <2>1
<1> QED BY <1>2, <1>4, <1>5, <1>6

\* What any other step of qttail does to a status.
LEMMA QttailStatus ==
    ASSUME TypeOK, Qttail, NEW m \in Name
    PROVE  \/ Event
           \/ status'[m] = status[m]
           \/ m = at /\ Start /\ file[m] # 0 /\ status'[m] \in {"active", "initializing"}
           \/ m = at /\ OpenAgain /\ file[m] # 0 /\ status[m] = "reinit_ready"
                     /\ status'[m] = "initializing"
           \/ m = at /\ Activate /\ status[m] = "initializing" /\ status'[m] = "active"
<1>1. at \in Name /\ DOMAIN status = Name
  BY PlacesAre DEF TypeOK
<1>2. CASE status' = status
  BY <1>2
<1>3. CASE Start
  <2>1. status' = status
        \/ (/\ file[at] # 0
            /\ status' = [status EXCEPT ![at] =
                             IF stage[at][file[at]] = "ready" THEN "active" ELSE "initializing"])
    BY <1>3 DEF Start, Stop, tailVars, Missing
  <2>2. CASE status' # status
    <3>1. PICK s \in {"active", "initializing"} : status' = [status EXCEPT ![at] = s]
      BY <2>1, <2>2
    <3> QED BY <1>1, <1>3, <2>1, <2>2, <3>1
  <2> QED BY <1>2, <2>2
<1>4. CASE OpenAgain
  <2>1. status[at] = "reinit_ready"
        /\ (status' = status \/ (file[at] # 0 /\ status' = [status EXCEPT ![at] = "initializing"]))
    BY <1>4 DEF OpenAgain, Stop, tailVars, Missing
  <2> QED BY <1>1, <1>4, <2>1
<1>5. CASE Activate
  <2>1. status[at] = "initializing" /\ status' = [status EXCEPT ![at] = "active"]
    BY <1>5 DEF Activate
  <2> QED BY <1>1, <1>5, <2>1
<1>6. Start \/ OpenAgain \/ Activate \/ Event \/ status' = status
  BY DEF Qttail, Skip, Find, Pick, Dump, DumpOther, DumpNot, Idle, Read, NoEvent, Stop, tailVars
<1> QED BY <1>2, <1>3, <1>4, <1>5, <1>6

\* No file of a name is said to be created after an event that is added either,
\* unless it says so.
LEMMA NoneStill ==
    ASSUME TypeOK, NEW e \in Events, Grows(e), NEW m, NEW from \in Nat \ {0},
           ~ IsOf(e, m, {"create"}), NoneCreated(m, from)
    PROVE  NoneCreated(m, from)'
<1>1. /\ Len(Pending) \in Nat /\ Len(Pending') \in Nat /\ Len(Pending) <= Len(Pending')
      /\ \A i \in 1 .. Len(Pending) : Pending'[i] = Pending[i]
      /\ \A i \in 1 .. Len(Pending') : Pending'[i] # e => i \in 1 .. Len(Pending)
  BY GrowsBy
<1>2. ASSUME NEW j \in from .. Len(Pending')
      PROVE  ~ IsOf(Pending'[j], m, {"create"})
  <2>1. j \in 1 .. Len(Pending')
    BY <1>1
  <2>2. CASE Pending'[j] = e
    BY <2>2
  <2>3. CASE Pending'[j] # e
    <3>1. j \in from .. Len(Pending) /\ Pending'[j] = Pending[j]
      BY <1>1, <2>1, <2>3
    <3> QED BY <3>1 DEF NoneCreated
  <2> QED BY <2>2, <2>3
<1> QED BY <1>2 DEF NoneCreated

\* ... nor when the first one was taken.
LEMMA NoneShifts ==
    ASSUME TypeOK, inbox # <<>>, inbox' = Tail(inbox), queue' = queue, NEW m,
           NEW from \in Nat \ {0}
    PROVE  /\ NoneCreated(m, from + 1) => NoneCreated(m, from)'
           /\ NoneCreated(m, from) => NoneCreated(m, from)'
<1>1. /\ Len(Pending) \in Nat /\ Len(Pending') = Len(Pending) - 1
      /\ \A i \in 1 .. Len(Pending') : Pending'[i] = Pending[i + 1]
  BY PendingShrinks
<1>2. ASSUME NEW j \in from .. Len(Pending')
      PROVE  /\ j + 1 \in from + 1 .. Len(Pending) /\ j + 1 \in from .. Len(Pending)
             /\ Pending'[j] = Pending[j + 1]
  BY <1>1
<1> QED BY <1>2 DEF NoneCreated

LEMMA AgentToldOfDeletion ==
    ASSUME TypeOK, FilesNamed, ToldOfDeletion, NEW n \in Name, Agent(n)
    PROVE  ToldOfDeletion'
<1> SUFFICES ASSUME NEW m \in Name, file'[m] = 0, stage'[m][newest'[m]] # "none"
             PROVE  \/ \E i \in 1 .. Len(Pending') : IsOf(Pending'[i], m, {"delete"})
                                                     /\ NoneCreated(m, i + 1)'
                    \/ status'[m] = "delete_pending" /\ NoneCreated(m, 1)'
  BY DEF ToldOfDeletion
<1>1. /\ m # n => file'[m] = file[m] /\ newest'[m] = newest[m]
      /\ status' = status
      /\ m # n => \A f \in File : stage[m][f] = "none" => stage'[m][f] = "none"
      /\ newest[m] \in File /\ newest[m] # 0
  BY AgentFrame, TypesAre DEF tailVars
<1>2. CASE file[m] = 0 /\ stage[m][newest[m]] # "none" /\ Pending' = Pending
  BY <1>1, <1>2 DEF ToldOfDeletion, NoneCreated
<1>3. ASSUME NEW e \in Events, Grows(e), ~ IsOf(e, m, {"create"}), file[m] = 0,
             stage[m][newest[m]] # "none"
      PROVE  \/ \E i \in 1 .. Len(Pending') : IsOf(Pending'[i], m, {"delete"})
                                              /\ NoneCreated(m, i + 1)'
             \/ status'[m] = "delete_pending" /\ NoneCreated(m, 1)'
  <2>1. CASE status[m] = "delete_pending" /\ NoneCreated(m, 1)
    BY <1>1, <1>3, <2>1, NoneStill
  <2>2. ASSUME NEW i \in 1 .. Len(Pending), IsOf(Pending[i], m, {"delete"}), NoneCreated(m, i + 1)
        PROVE  \E k \in 1 .. Len(Pending') : IsOf(Pending'[k], m, {"delete"})
                                             /\ NoneCreated(m, k + 1)'
    <3>1. i + 1 \in Nat \ {0}
      OBVIOUS
    <3>2. NoneCreated(m, i + 1)'
      BY <1>3, <2>2, <3>1, NoneStill
    <3>3. i \in 1 .. Len(Pending') /\ Pending'[i] = Pending[i]
      BY <1>3, GrowsBy
    <3> QED BY <2>2, <3>2, <3>3
  <2> QED BY <1>3, <2>1, <2>2 DEF ToldOfDeletion
<1>4. ASSUME NEW e \in Events, Grows(e), IsOf(e, m, {"delete"})
      PROVE  \E i \in 1 .. Len(Pending') : IsOf(Pending'[i], m, {"delete"})
                                           /\ NoneCreated(m, i + 1)'
  <2>1. Len(Pending') \in Nat /\ Len(Pending') > 0 /\ Pending'[Len(Pending')] = e
    BY <1>4, GrowsBy
  <2>2. PICK k \in Nat : k = Len(Pending') /\ k \in 1 .. Len(Pending') /\ Pending'[k] = e
    BY <2>1
  <2>3. ~ \E j \in k + 1 .. Len(Pending') : TRUE
    BY <2>2
  <2>4. NoneCreated(m, k + 1)'
    BY <2>3 DEF NoneCreated
  <2> QED BY <1>4, <2>2, <2>4
<1>5. CASE m # n
  <2>1. file[m] = 0 /\ stage[m][newest[m]] # "none"
    BY <1>1, <1>5
  <2>2. Pending' = Pending \/ \E e \in Events : Grows(e) /\ e.name = n
    BY AgentPending DEF IsOf, Created
  <2> QED BY <1>2, <1>3, <1>5, <2>1, <2>2 DEF IsOf
<1>6. CASE m = n
  <2>1. CASE /\ file' = file /\ newest' = newest
             /\ \A k \in Name, f \in File : stage'[k][f] = "none" <=> stage[k][f] = "none"
    <3>1. file[m] = 0 /\ stage[m][newest[m]] # "none"
      BY <1>1, <2>1
    <3>2. Pending' = Pending \/ \E e \in Events : Grows(e) /\ e.name = n /\ e.kind = "modify"
      BY <1>1, <1>6, <2>1, AgentPending, TypesAre DEF IsOf
    <3> QED BY <1>2, <1>3, <3>1, <3>2 DEF IsOf
  <2>2. CASE file'[n] # 0
    BY <1>6, <2>2
  <2>3. CASE stage'[n][newest'[n]] = "none"
    BY <1>6, <2>3
  <2>4. CASE \E e \in Events : Grows(e) /\ IsOf(e, n, {"delete"})
    BY <1>4, <1>6, <2>4
  <2> QED BY <1>1, <1>6, <2>1, <2>2, <2>3, <2>4, AgentPending
<1> QED BY <1>5, <1>6

LEMMA QttailToldOfDeletion ==
    ASSUME TypeOK, Rounds, ToldOfDeletion, Qttail
    PROVE  ToldOfDeletion'
<1> SUFFICES ASSUME NEW m \in Name, file'[m] = 0, stage'[m][newest'[m]] # "none"
             PROVE  \/ \E i \in 1 .. Len(Pending') : IsOf(Pending'[i], m, {"delete"})
                                                     /\ NoneCreated(m, i + 1)'
                    \/ status'[m] = "delete_pending" /\ NoneCreated(m, 1)'
  BY DEF ToldOfDeletion
<1>1. file[m] = 0 /\ stage[m][newest[m]] # "none"
  BY QttailFrame DEF agentVars
<1>2. \/ \E i \in 1 .. Len(Pending) : IsOf(Pending[i], m, {"delete"}) /\ NoneCreated(m, i + 1)
      \/ status[m] = "delete_pending" /\ NoneCreated(m, 1)
  BY <1>1 DEF ToldOfDeletion
<1>3. CASE ~ Event
  <2>1. Pending' = Pending
    BY <1>3, QttailFrame
  <2>2. status[m] = "delete_pending" => status'[m] = "delete_pending"
    BY <1>1, <1>3, QttailStatus
  <2> QED BY <1>2, <2>1, <2>2 DEF NoneCreated
<1>4. CASE Event
  <2>1. inbox # <<>> /\ inbox' = Tail(inbox) /\ queue' = queue
    BY <1>4 DEF Event
  <2>2. /\ Len(Pending) \in Nat /\ Len(Pending') = Len(Pending) - 1 /\ Pending[1] = Head(inbox)
        /\ \A i \in 1 .. Len(Pending') : Pending'[i] = Pending[i + 1]
    BY <2>1, PendingShrinks
  <2>3. ASSUME NEW i \in 1 .. Len(Pending), IsOf(Pending[i], m, {"delete"}), NoneCreated(m, i + 1)
        PROVE  \/ \E k \in 1 .. Len(Pending') : IsOf(Pending'[k], m, {"delete"})
                                                /\ NoneCreated(m, k + 1)'
               \/ status'[m] = "delete_pending" /\ NoneCreated(m, 1)'
    <3>1. CASE i = 1
      <4>1. NoneCreated(m, 1)'
        BY <2>1, <2>3, <3>1, NoneShifts
      <4>2. status'[m] = "delete_pending"
        BY <1>4, <2>2, <2>3, <3>1, EventStatus DEF IsOf
      <4> QED BY <4>1, <4>2
    <3>2. CASE i # 1
      <4>1. i - 1 \in 1 .. Len(Pending') /\ (i - 1) + 1 = i /\ i \in Nat \ {0}
        BY <2>2, <3>2
      <4>2. NoneCreated(m, i)'
        BY <2>1, <2>3, <4>1, NoneShifts
      <4>3. Pending'[i - 1] = Pending[i]
        BY <2>2, <4>1
      <4> QED BY <2>3, <4>1, <4>2, <4>3
    <3> QED BY <3>1, <3>2
  <2>4. CASE status[m] = "delete_pending" /\ NoneCreated(m, 1)
    <3>1. NoneCreated(m, 1)'
      BY <2>1, <2>4, NoneShifts
    <3>2. Len(Pending) > 0
      BY <2>1, PendingShrinks
    <3>3. ~ IsOf(Pending[1], m, {"create"})
      BY <2>2, <2>4, <3>2 DEF NoneCreated
    <3>4. status'[m] = "delete_pending"
      BY <1>4, <2>2, <2>4, <3>3, EventStatus DEF IsOf
    <3> QED BY <3>1, <3>4
  <2> QED BY <1>2, <2>3, <2>4
<1> QED BY <1>3, <1>4

(***************************************************************************)
(* TakenForDeleted                                                         *)
(***************************************************************************)

LEMMA AgentTakenForDeleted ==
    ASSUME TypeOK, FilesNamed, TakenForDeleted, NEW n \in Name, Agent(n)
    PROVE  TakenForDeleted'
<1>1. /\ UNCHANGED <<status, mapped, inbox, rpc>>
      /\ \A m \in Name : m # n => file'[m] = file[m]
  BY AgentFrame DEF tailVars, loopVars
<1>2. queue \in Seq(Events) /\ Len(queue) \in Nat
  BY DEF TypeOK
<1>3. ASSUME NEW m \in Name, mapped[m] # 0
      PROVE  /\ mapped[m] \in File /\ stage[m][mapped[m]] # "none"
             /\ status[m] = "delete_pending" /\ file[m] = mapped[m] =>
                    \E i \in 1 .. Len(inbox) : inbox[i] = Created(m, mapped[m])
             /\ rpc = "events" => \A i \in 1 .. Len(queue) : queue[i] # Created(m, mapped[m])
  BY <1>3, TypesAre DEF FilesNamed, TakenForDeleted
<1>4. ASSUME NEW m \in Name, mapped[m] # 0
      PROVE  file'[m] = mapped[m] => file[m] = mapped[m]
  <2>1. CASE m # n
    BY <1>1, <2>1
  <2>2. CASE m = n
    <3>1. file' = file \/ file'[n] = 0 \/ (file'[n] = newest[n] /\ stage[n][newest[n]] = "none")
      BY AgentPending
    <3> QED BY <1>3, <1>4, <2>2, <3>1
  <2> QED BY <2>1, <2>2
<1>5. ASSUME NEW m \in Name, mapped[m] # 0, rpc = "events", NEW i \in 1 .. Len(queue')
      PROVE  queue'[i] # Created(m, mapped[m])
  <2>1. queue' = queue
        \/ \E e \in Events :
              /\ queue' = Append(queue, e) \/ queue' = queue
              /\ (e = Created(n, newest[n]) /\ stage[n][newest[n]] = "none") \/ e.kind # "create"
    BY AgentPending DEF IsOf
  <2>2. CASE queue' = queue
    BY <1>3, <1>5, <2>2
  <2>3. ASSUME NEW e \in Events, queue' = Append(queue, e),
               (e = Created(n, newest[n]) /\ stage[n][newest[n]] = "none") \/ e.kind # "create"
        PROVE  queue'[i] # Created(m, mapped[m])
    <3>1. e # Created(m, mapped[m])
      BY <1>3, <1>5, <2>3 DEF Created
    <3>2. \A k \in 1 .. Len(queue) : queue[k] # Created(m, mapped[m])
      BY <1>3, <1>5
    <3>3. queue'[i] = e \/ (i \in 1 .. Len(queue) /\ queue'[i] = queue[i])
      BY <1>2, <1>5, <2>3
    <3> QED BY <3>1, <3>2, <3>3
  <2> QED BY <2>1, <2>2, <2>3
<1> QED BY <1>1, <1>3, <1>4, <1>5 DEF TakenForDeleted

LEMMA QttailTakenForDeleted ==
    ASSUME TypeOK, Rounds, ToldOfFile, TakenForDeleted, Qttail
    PROVE  TakenForDeleted'
<1>1. file' = file
  BY QttailFrame DEF agentVars
<1>2. \A m \in Name : mapped[m] # 0 =>
          /\ status[m] = "delete_pending" /\ file[m] = mapped[m] =>
                 \E i \in 1 .. Len(inbox) : inbox[i] = Created(m, mapped[m])
          /\ rpc = "events" => \A i \in 1 .. Len(queue) : queue[i] # Created(m, mapped[m])
  BY DEF TakenForDeleted
<1>3. CASE ~ Event
  <2>1. ASSUME NEW m \in Name, mapped'[m] # 0, status'[m] = "delete_pending"
        PROVE  mapped'[m] = mapped[m] /\ status[m] = "delete_pending"
    <3>1. mapped'[m] = mapped[m]
      BY <2>1, QttailOpens
    <3>2. status[m] = "delete_pending"
      BY <1>3, <2>1, QttailStatus
    <3> QED BY <3>1, <3>2
  <2>2. CASE Read
    <3>1. inbox = <<>> /\ Len(queue') = 0
      BY <2>2 DEF Read, Rounds
    <3>2. ASSUME NEW m \in Name, mapped'[m] # 0, status'[m] = "delete_pending"
          PROVE  file[m] # mapped'[m]
      <4>1. Len(inbox) = 0
        BY <3>1
      <4>2. ~ \E i \in 1 .. Len(inbox) : TRUE
        BY <4>1
      <4> QED BY <1>2, <2>1, <3>2, <4>2
    <3>3. ~ \E i \in 1 .. Len(queue') : TRUE
      BY <3>1
    <3> QED BY <1>1, <3>2, <3>3 DEF TakenForDeleted
  <2>3. CASE ~ Read
    <3>1. queue' = queue /\ inbox' = inbox
      BY <1>3, <2>3, QttailFrame
    <3>2. rpc' # "events"
      <4>1. rpc' \in {"start", "scan", "pick", "dump", "idle", "read", "stop"}
        BY <1>3, <2>3 DEF Qttail, Start, OpenAgain, Activate, Skip, Find, Pick, Dump, DumpOther, DumpNot,
           Idle, NoEvent, Stop, Advance, loopVars
      <4> QED BY <4>1
    <3> QED BY <1>1, <1>2, <2>1, <3>1, <3>2 DEF TakenForDeleted
  <2> QED BY <2>2, <2>3
<1>4. CASE Event
  <2>1. inbox # <<>> /\ inbox' = Tail(inbox) /\ queue' = queue /\ rpc = "events"
    BY <1>4 DEF Event
  <2>2. /\ inbox \in Seq(Events) /\ Len(inbox) \in Nat /\ Len(inbox) > 0
        /\ Len(inbox') = Len(inbox) - 1 /\ Head(inbox) = inbox[1]
        /\ \A i \in 1 .. Len(inbox') : inbox'[i] = inbox[i + 1]
    BY <2>1, HeadTailProperties DEF TypeOK
  <2>3. PICK e : e = Head(inbox)
    OBVIOUS
  <2>4. ASSUME NEW m \in Name, mapped'[m] # 0
        PROVE  mapped'[m] = mapped[m]
    BY <1>4, <2>3, <2>4, EventStatus
  <2>5. ASSUME NEW m \in Name, mapped'[m] # 0, status'[m] = "delete_pending", file[m] = mapped[m]
        PROVE  \E i \in 1 .. Len(inbox') : inbox'[i] = Created(m, mapped[m])
    <3>1. mapped[m] # 0
      BY <2>4, <2>5
    <3>2. ~ (e.name = m /\ e.kind = "create")
      BY <1>4, <2>3, <2>5, EventStatus
    <3>3. e # Created(m, mapped[m])
      BY <3>2 DEF Created
    <3>4. \E i \in 1 .. Len(inbox) : inbox[i] = Created(m, mapped[m])
      <4>1. CASE status[m] = "delete_pending"
        BY <1>2, <2>5, <3>1, <4>1
      <4>2. CASE status[m] # "delete_pending"
        <5>1. IsOf(e, m, {"create", "delete"})
          BY <1>4, <2>3, <2>5, <4>2, EventStatus DEF IsOf
        <5>2. /\ Len(Pending) \in Nat /\ Len(Pending) > 0 /\ Pending[1] = e
              /\ Len(Pending) = Len(inbox) + Len(queue) /\ Len(queue) \in Nat
              /\ \A i \in 1 .. Len(Pending) :
                    Pending[i] = IF i <= Len(inbox) THEN inbox[i] ELSE queue[i - Len(inbox)]
          BY <2>1, <2>3, PendingShrinks, PendingIs
        <5>3. PICK j \in 1 .. Len(Pending) : Pending[j] = Created(m, mapped[m])
          <6>1. 1 \in 1 .. Len(Pending)
            BY <5>2
          <6> QED BY <2>5, <3>1, <5>1, <5>2, <6>1 DEF ToldOfFile
        <5>4. CASE j <= Len(inbox)
          BY <2>2, <5>2, <5>3, <5>4
        <5>5. CASE j > Len(inbox)
          <6>1. j - Len(inbox) \in 1 .. Len(queue)
            BY <2>2, <5>2, <5>5
          <6>2. queue[j - Len(inbox)] = Created(m, mapped[m])
            BY <2>2, <5>2, <5>3, <5>5
          <6> QED BY <1>2, <2>1, <3>1, <6>1, <6>2
        <5> QED BY <2>2, <5>2, <5>4, <5>5
      <4> QED BY <4>1, <4>2
    <3>5. PICK i \in 1 .. Len(inbox) : inbox[i] = Created(m, mapped[m])
      BY <3>4
    <3>6. i # 1
      BY <2>2, <2>3, <3>3, <3>5
    <3>7. i - 1 \in 1 .. Len(inbox') /\ (i - 1) + 1 = i
      BY <2>2, <3>6
    <3> QED BY <2>2, <3>5, <3>7
  <2> QED BY <1>1, <1>2, <2>1, <2>4, <2>5 DEF TakenForDeleted
<1> QED BY <1>3, <1>4

(***************************************************************************)
(* Rounds                                                                  *)
(***************************************************************************)

LEMMA AgentRounds ==
    ASSUME TypeOK, FilesNamed, TakenForDeleted, Rounds, NEW n \in Name, Agent(n)
    PROVE  Rounds'
<1>1. /\ UNCHANGED <<status, mapped, shown, next, torn, opened, rpc, at, inbox, stop, tails>>
      /\ Tailed' = Tailed
  BY AgentFrame DEF tailVars, loopVars, Tailed
<1>2. ASSUME rpc = "idle", NEW m \in Tailed, status[m] = "delete_pending", mapped[m] # 0
      PROVE  shown[m] >= final'[m][mapped[m]] \/ (tails = 1 /\ torn[m])
  <2>1. m \in Name /\ mapped[m] \in File
    BY <1>2, PlacesAre, TypesAre
  <2>2. shown[m] >= final[m][mapped[m]] \/ (tails = 1 /\ torn[m])
    BY <1>2 DEF Rounds, ReadOrHidden
  <2>3. file[m] # mapped[m]
    <3>1. inbox = <<>>
      BY <1>2 DEF Rounds
    <3>2. ~ \E i \in 1 .. Len(inbox) : TRUE
      BY <3>1
    <3> QED BY <1>2, <2>1, <3>2 DEF TakenForDeleted
  <2>4. final'[m][mapped[m]] = final[m][mapped[m]]
    <3>1. final \in [Name -> [File -> Nat]]
      BY DEF TypeOK
    <3>2. final' = final \/ final' = [final EXCEPT ![n][file[n]] = traced[n][file[n]]]
      BY AgentNames
    <3> QED BY <2>1, <2>3, <3>1, <3>2
  <2> QED BY <2>2, <2>4
<1>3. /\ rpc # "events" => inbox = <<>>
      /\ rpc \in {"pick", "idle", "read", "events"} => at = 1
      /\ rpc = "start" => \A m \in Name : m >= at => mapped[m] = 0 /\ opened[m] = {}
      /\ rpc = "scan" => \A m \in 1 .. at - 1 : LetGo(m)
      /\ rpc = "pick" => \A m \in Tailed : LetGo(m)
      /\ stop # "no" => rpc = "stop"
  BY DEF Rounds
<1> QED BY <1>1, <1>2, <1>3 DEF Rounds, LetGo, ReadOrHidden

\* Tails before the one that qttail is at have been asked.
LEMMA RoundGoesOn ==
    ASSUME TypeOK, Rounds, rpc = "scan", Advance("pick"), tails' = tails,
           inbox' = inbox, stop' = stop,
           \A m \in 1 .. at : LetGo(m)'
    PROVE  Rounds'
<1>1. inbox = <<>> /\ stop = "no"
  BY DEF Rounds
<1>2. at \in Nat /\ tails \in Nat /\ at >= 1
  BY PlacesAre
<1>3. CASE at = tails
  <2>1. rpc' = "pick" /\ at' = 1
    BY <1>3 DEF Advance
  <2>2. \A m \in Tailed' : LetGo(m)'
    BY <1>3 DEF Tailed
  <2> QED BY <1>1, <2>1, <2>2 DEF Rounds
<1>4. CASE at # tails
  <2>1. rpc' = "scan" /\ at' = at + 1
    BY <1>4 DEF Advance
  <2>2. \A m \in 1 .. at' - 1 : LetGo(m)'
    BY <1>2, <2>1
  <2> QED BY <1>1, <2>1, <2>2 DEF Rounds
<1> QED BY <1>3, <1>4

LEMMA QttailRounds ==
    ASSUME TypeOK, FilesNamed, Rounds, Qttail
    PROVE  Rounds'
<1>1. UNCHANGED agentVars /\ tails' = tails /\ Tailed' = Tailed
  BY QttailFrame DEF Tailed
<1>2. /\ at \in Name /\ at \in Nat /\ at >= 1 /\ tails \in Nat /\ Tailed \subseteq Name
      /\ Name \subseteq Nat /\ \A m \in 1 .. at : m \in Name /\ m \in Nat
  <2>1. at \in Name /\ at \in Nat /\ at >= 1 /\ tails \in Nat /\ Tailed \subseteq Name
    BY PlacesAre
  <2>2. Name \subseteq Nat
    BY FileIs
  <2>3. \A m \in 1 .. at : m \in Name /\ m \in Nat
    BY <2>1, NamesAssumption DEF Name
  <2> QED BY <2>1, <2>2, <2>3
<1>3. /\ rpc # "events" => inbox = <<>>
      /\ rpc \in {"pick", "idle", "read", "events"} => at = 1
      /\ rpc = "start" => \A m \in Name : m >= at => mapped[m] = 0 /\ opened[m] = {}
      /\ rpc = "scan" => \A m \in 1 .. at - 1 : LetGo(m)
      /\ rpc = "pick" => \A m \in Tailed : LetGo(m)
      /\ stop # "no" => rpc = "stop"
  BY DEF Rounds
<1>4. ASSUME NEW why, Stop(why), rpc # "events"
      PROVE  Rounds'
  <2>1. rpc' = "stop" /\ inbox' = inbox /\ inbox = <<>>
    BY <1>3, <1>4 DEF Stop
  <2> QED BY <2>1 DEF Rounds
<1>5. /\ mapped \in [Name -> {0} \cup File] /\ opened \in [Name -> SUBSET File]
      /\ next \in [Name -> BOOLEAN] /\ DOMAIN status = Name
  BY DEF TypeOK
<1>6. CASE Start
  <2>1. CASE Stop("open") \/ Stop("empty")
    BY <1>4, <1>6, <2>1 DEF Start
  <2>2. CASE Map(at) /\ Advance("scan") /\ UNCHANGED <<next, inbox, stop>>
    <3>1. inbox' = <<>> /\ stop' = "no"
      BY <1>3, <1>6, <2>2 DEF Start
    <3>2. CASE rpc' = "scan" /\ at' = 1
      <4>1. ~ \E m \in 1 .. at' - 1 : TRUE
        BY <3>2
      <4> QED BY <3>1, <3>2, <4>1 DEF Rounds
    <3>3. CASE rpc' = "start" /\ at' = at + 1
      <4>1. ASSUME NEW m \in Name, m >= at'
            PROVE  mapped'[m] = 0 /\ opened'[m] = {}
        <5>1. m # at /\ m >= at
          BY <1>2, <3>3, <4>1
        <5>2. mapped[m] = 0 /\ opened[m] = {}
          BY <1>3, <1>6, <5>1 DEF Start
        <5> QED BY <1>2, <1>5, <2>2, <5>1, <5>2 DEF Map
      <4> QED BY <3>1, <3>3, <4>1 DEF Rounds
    <3> QED BY <1>6, <2>2, <3>2, <3>3 DEF Advance, Start
  <2> QED BY <1>6, <2>1, <2>2 DEF Start
<1>7. ASSUME rpc = "scan", UNCHANGED loopVars,
             \A m \in Name : m # at => status'[m] = status[m] /\ mapped'[m] = mapped[m]
                                       /\ next'[m] = next[m]
      PROVE  Rounds'
  <2>1. rpc' = rpc /\ at' = at /\ inbox' = inbox /\ stop' = stop
    BY <1>7 DEF loopVars
  <2>2. ASSUME NEW m \in 1 .. at - 1
        PROVE  LetGo(m)'
    <3>1. m # at /\ m \in 1 .. at
      BY <1>2
    <3>2. LetGo(m)
      BY <1>3, <1>7
    <3> QED BY <1>2, <1>7, <3>1, <3>2 DEF LetGo
  <2> QED BY <1>3, <1>7, <2>1, <2>2 DEF Rounds
<1>8. CASE OpenAgain
  <2>1. CASE Stop("abort") \/ Stop("empty")
    BY <1>4, <1>8, <2>1 DEF OpenAgain
  <2>2. CASE /\ Map(at) /\ status' = [status EXCEPT ![at] = "initializing"]
             /\ UNCHANGED <<shown, passed, next, torn, loopVars>>
    BY <1>5, <1>7, <1>8, <2>2 DEF OpenAgain, Map
  <2> QED BY <1>8, <2>1, <2>2 DEF OpenAgain
<1>9. CASE Activate
  BY <1>5, <1>7, <1>9 DEF Activate
<1>10. CASE Skip
  <2>1. ASSUME NEW m \in 1 .. at
        PROVE  LetGo(m)'
    <3>1. LetGo(m)
      <4>1. CASE m = at
        BY <1>10, <4>1 DEF Skip, LetGo
      <4>2. CASE m # at
        <5>1. m \in 1 .. at - 1
          BY <1>2, <4>2
        <5> QED BY <1>3, <1>10, <5>1 DEF Skip
      <4> QED BY <4>1, <4>2
    <3> QED BY <1>10, <3>1 DEF Skip, tailVars, LetGo
  <2> QED BY <1>1, <1>10, <2>1, RoundGoesOn DEF Skip
<1>11. CASE Find
  <2>1. ASSUME NEW m \in 1 .. at
        PROVE  LetGo(m)'
    <3>1. CASE m = at
      <4>1. CASE Visible(at)
        <5>1. next' = [next EXCEPT ![at] = TRUE]
          BY <1>11, <4>1 DEF Find
        <5>2. next'[at]
          BY <1>2, <1>5, <5>1
        <5> QED BY <3>1, <5>2 DEF LetGo
      <4>2. CASE ~ Visible(at)
        <5>1. status[at] # "active" => mapped'[at] = 0
          BY <1>2, <1>5, <1>11, <4>2 DEF Find
        <5> QED BY <1>11, <3>1, <5>1 DEF Find, LetGo
      <4> QED BY <4>1, <4>2
    <3>2. CASE m # at
      <4>1. m \in 1 .. at - 1 /\ m \in Name
        BY <1>2, <3>2
      <4>2. LetGo(m)
        BY <1>3, <1>11, <4>1 DEF Find
      <4>3. mapped'[m] = mapped[m] /\ status'[m] = status[m]
        BY <1>2, <1>5, <1>11, <3>2, <4>1 DEF Find
      <4>4. next'[m] = next[m]
        BY <1>2, <1>5, <1>11, <3>2, <4>1 DEF Find
      <4> QED BY <4>2, <4>3, <4>4 DEF LetGo
    <3> QED BY <3>1, <3>2
  <2> QED BY <1>1, <1>11, <2>1, RoundGoesOn DEF Find
<1>12. CASE Pick
  <2>1. inbox' = <<>> /\ stop' = "no" /\ rpc = "pick" /\ at = 1
    BY <1>3, <1>12 DEF Pick
  <2>2. CASE rpc' = "dump"
    BY <2>1, <2>2 DEF Rounds
  <2>3. CASE rpc' = "idle" /\ at' = at /\ \A m \in Tailed : ~ next[m]
    <3>1. ASSUME NEW m \in Tailed', status'[m] = "delete_pending", mapped'[m] # 0
          PROVE  FALSE
      BY <1>1, <1>3, <1>12, <2>1, <2>3, <3>1 DEF Pick, tailVars, LetGo
    <3> QED BY <2>1, <2>3, <3>1 DEF Rounds
  <2> QED BY <1>12, <2>2, <2>3 DEF Pick
<1>13. CASE Dump
  <2>1. inbox' = <<>> /\ stop' = "no" /\ rpc' \in {"scan", "read"} /\ at' = 1
    BY <1>3, <1>13 DEF Dump
  <2>2. ~ \E m \in 1 .. at' - 1 : TRUE
    BY <2>1
  <2> QED BY <2>1, <2>2 DEF Rounds
<1>19. CASE DumpOther
  <2>1. inbox' = <<>> /\ stop' = "no" /\ rpc' \in {"scan", "read"} /\ at' = 1
    BY <1>3, <1>19 DEF DumpOther
  <2>2. ~ \E m \in 1 .. at' - 1 : TRUE
    BY <2>1
  <2> QED BY <2>1, <2>2 DEF Rounds
<1>14. CASE DumpNot
  <2>1. inbox' = <<>> /\ stop' = "no" /\ at' = 1
    BY <1>3, <1>14 DEF DumpNot
  <2>2. CASE rpc' = "read"
    BY <2>1, <2>2 DEF Rounds
  <2>3. CASE rpc' = "idle" /\ tails <= 1
    <3>1. ASSUME NEW m \in Tailed', mapped'[m] # 0
          PROVE  ReadOrHidden(m)'
      <4>1. m = at /\ m \in Name
        <5>1. at <= tails /\ m \in Tailed
          BY <1>1, PlacesAre
        <5>2. m \in Nat /\ m >= 1 /\ m <= tails
          BY <1>2, <5>1 DEF Tailed
        <5> QED BY <1>2, <2>3, <5>1, <5>2
      <4>2. /\ mapped' = mapped /\ shown' = shown /\ torn' = torn
            /\ shown[m] = traced[m][mapped[m]] \/ torn[m]
        BY <1>14, <4>1 DEF DumpNot
      <4>3. /\ mapped[m] \in File /\ final' = final
            /\ final[m][mapped[m]] \in Nat /\ traced[m][mapped[m]] \in Nat
        BY <1>1, <3>1, <4>1, <4>2, TypesAre DEF agentVars
      <4>4. final[m][mapped[m]] <= traced[m][mapped[m]]
        BY <4>1, <4>3 DEF FilesNamed
      <4>5. tails' = 1
        <5>1. tails >= 1
          BY PlacesAre
        <5> QED BY <1>1, <1>2, <2>3, <5>1
      <4> QED BY <4>2, <4>3, <4>4, <4>5 DEF ReadOrHidden
    <3> QED BY <2>1, <2>3, <3>1 DEF Rounds
  <2>4. rpc' = "read" \/ (rpc' = "idle" /\ tails <= 1)
    BY <1>2, <1>14 DEF DumpNot
  <2> QED BY <2>2, <2>3, <2>4
<1>15. CASE Idle
  <2>1. CASE Stop("deleted")
    BY <1>4, <1>15, <2>1 DEF Idle
  <2>2. CASE rpc' \in {"read", "scan"} /\ UNCHANGED <<at, inbox, stop, tailVars>>
    <3>1. inbox' = <<>> /\ stop' = "no" /\ at' = 1
      BY <1>3, <1>15, <2>2 DEF Idle
    <3>2. ~ \E m \in 1 .. at' - 1 : TRUE
      BY <3>1
    <3> QED BY <2>2, <3>1, <3>2 DEF Rounds
  <2> QED BY <1>15, <2>1, <2>2 DEF Idle
<1>16. CASE Read
  <2>1. rpc' = "events" /\ stop' = "no" /\ at' = 1
    BY <1>3, <1>16 DEF Read
  <2> QED BY <2>1 DEF Rounds
<1>17. CASE Event
  <2>1. rpc' = "events" /\ stop' = "no" /\ at' = 1
    BY <1>3, <1>17 DEF Event
  <2> QED BY <2>1 DEF Rounds
<1>18. CASE NoEvent
  <2>1. inbox' = <<>> /\ stop' = "no" /\ rpc' = "scan" /\ at' = 1
    BY <1>3, <1>18 DEF NoEvent
  <2>2. ~ \E m \in 1 .. at' - 1 : TRUE
    BY <2>1
  <2> QED BY <2>1, <2>2 DEF Rounds
<1> QED BY <1>6, <1>8, <1>9, <1>10, <1>11, <1>12, <1>13, <1>14, <1>15, <1>16, <1>17, <1>18,
        <1>19 DEF Qttail

(***************************************************************************)
(* OpenedLast                                                              *)
(***************************************************************************)

LEMMA AgentOpenedLast ==
    ASSUME TypeOK, FilesNamed, OpenedLast, NEW n \in Name, Agent(n)
    PROVE  OpenedLast'
<1> SUFFICES ASSUME NEW m \in Name, file'[m] # 0, file'[m] \in opened'[m]
             PROVE  NoneCreated(m, 1)' /\ status'[m] \notin {"reinit_pending", "reinit_ready"}
  BY DEF OpenedLast
<1>1. UNCHANGED <<status, opened>> /\ (m # n => file'[m] = file[m])
  BY AgentFrame DEF tailVars
<1>2. CASE file'[m] = file[m]
  <2>1. NoneCreated(m, 1) /\ status[m] \notin {"reinit_pending", "reinit_ready"}
    BY <1>1, <1>2 DEF OpenedLast
  <2>2. Pending' = Pending \/ \E e \in Events : Grows(e) /\ ~ IsOf(e, m, {"create"})
    BY <1>2, AgentPending DEF IsOf, Created
  <2>3. NoneCreated(m, 1)'
    <3>1. CASE Pending' = Pending
      BY <2>1, <3>1 DEF NoneCreated
    <3>2. ASSUME NEW e \in Events, Grows(e), ~ IsOf(e, m, {"create"})
          PROVE  NoneCreated(m, 1)'
      BY <2>1, <3>2, NoneStill
    <3> QED BY <2>2, <3>1, <3>2
  <2> QED BY <1>1, <2>1, <2>3
<1>3. CASE file'[m] # file[m]
  <2>1. m = n /\ file'[n] = newest[n] /\ stage[n][newest[n]] = "none"
    BY <1>1, <1>3, AgentPending
  <2> QED BY <1>1, <2>1, TypesAre DEF FilesNamed
<1> QED BY <1>2, <1>3

LEMMA QttailOpenedLast ==
    ASSUME TypeOK, Rounds, ToldOfFile, OpenedLast, Qttail
    PROVE  OpenedLast'
<1> SUFFICES ASSUME NEW m \in Name, file'[m] # 0, file'[m] \in opened'[m]
             PROVE  NoneCreated(m, 1)' /\ status'[m] \notin {"reinit_pending", "reinit_ready"}
  BY DEF OpenedLast
<1>1. file' = file
  BY QttailFrame DEF agentVars
<1>2. file[m] \in opened[m] =>
          NoneCreated(m, 1) /\ status[m] \notin {"reinit_pending", "reinit_ready"}
  BY <1>1 DEF OpenedLast
<1>3. CASE ~ Event /\ file[m] \in opened[m]
  <2>1. Pending' = Pending
    BY <1>3, QttailFrame
  <2>2. status'[m] = status[m] \/ status'[m] \in {"active", "initializing"}
    BY <1>3, QttailStatus
  <2> QED BY <1>2, <1>3, <2>1, <2>2 DEF NoneCreated
<1>4. CASE file[m] \notin opened[m]
  <2>1. /\ status'[m] \in {"active", "initializing"}
        /\ ~ \E e \in Unread : e.kind = "create" /\ e.name = m /\ e.of = file[m]
        /\ opened'[m] # opened[m]
    BY <1>1, <1>4, QttailOpens
  <2>2. ~ Event
    BY <2>1 DEF Event
  <2>3. Pending' = Pending
    BY <2>2, QttailFrame
  <2>4. /\ Len(inbox) \in Nat /\ Len(queue) \in Nat
        /\ Len(Pending) = Len(inbox) + Len(queue)
        /\ \A i \in 1 .. Len(Pending) :
              Pending[i] = IF i <= Len(inbox) THEN inbox[i] ELSE queue[i - Len(inbox)]
    BY PendingIs
  <2>5. ASSUME NEW i \in 1 .. Len(Pending)
        PROVE  Pending[i] \in Unread
    <3>1. CASE i <= Len(inbox)
      BY <2>4, <3>1 DEF Unread
    <3>2. CASE i > Len(inbox)
      <4>1. i - Len(inbox) \in 1 .. Len(queue)
        BY <2>4, <3>2
      <4> QED BY <2>4, <3>2, <4>1 DEF Unread
    <3> QED BY <2>4, <3>1, <3>2
  <2>6. ASSUME NEW i \in 1 .. Len(Pending), IsOf(Pending[i], m, {"create"})
        PROVE  FALSE
    <3>1. PICK j \in i .. Len(Pending) : Pending[j] = Created(m, file[m])
      BY <1>1, <2>6 DEF ToldOfFile, IsOf
    <3>2. Pending[j] \in Unread
      BY <2>4, <2>5
    <3> QED BY <2>1, <3>1, <3>2 DEF Created
  <2>7. NoneCreated(m, 1)
    BY <2>6 DEF NoneCreated
  <2> QED BY <2>1, <2>3, <2>7 DEF NoneCreated
<1>5. CASE Event /\ file[m] \in opened[m]
  <2>1. inbox # <<>> /\ inbox' = Tail(inbox) /\ queue' = queue
    BY <1>5 DEF Event
  <2>2. NoneCreated(m, 1)'
    BY <1>2, <1>5, <2>1, NoneShifts
  <2>3. Len(Pending) \in Nat /\ Len(Pending) > 0 /\ Pending[1] = Head(inbox)
    BY <2>1, PendingShrinks
  <2>4. ~ IsOf(Pending[1], m, {"create"})
    BY <1>2, <1>5, <2>3 DEF NoneCreated
  <2>5. status'[m] \notin {"reinit_pending", "reinit_ready"}
    BY <1>2, <1>5, <2>3, <2>4, EventStatus DEF IsOf
  <2> QED BY <2>2, <2>5
<1> QED BY <1>3, <1>4, <1>5

(***************************************************************************)
(* What is checked of the events, and why qttail ends                      *)
(***************************************************************************)

LEMMA QttailAwaitsModification ==
    ASSUME TypeOK, Rounds, AwaitsModification, Qttail
    PROVE  AwaitsModification'
<1> SUFFICES ASSUME NEW m \in Tailed', status'[m] = "reinit_pending"
             PROVE  modWatch'
  BY DEF AwaitsModification
<1>1. m \in Tailed /\ m \in Name /\ Tailed' = Tailed
  <2>1. Tailed' = Tailed
    BY QttailFrame DEF Tailed
  <2> QED BY <2>1, PlacesAre
<1>2. status[m] = "reinit_pending" => modWatch
  BY <1>1 DEF AwaitsModification
<1>3. CASE ~ Event
  <2>1. modWatch' = modWatch
    BY <1>3, QttailFrame
  <2>2. status[m] = "reinit_pending"
    BY <1>1, <1>3, QttailStatus
  <2> QED BY <1>2, <2>1, <2>2
<1>4. CASE Event
  <2>1. PICK e : e = Head(inbox)
    OBVIOUS
  <2>2. \/ e.kind = "create" /\ OnCreate(e.name)
        \/ e.kind = "delete" /\ OnDelete(e.name)
        \/ e.kind = "modify" /\ OnModify(e.name)
    BY <1>4, <2>1, EventIs
  <2>3. CASE e.kind = "create" /\ OnCreate(e.name)
    <3>1. modWatch' = IF \E n \in Tailed : status[n] = "reinit_pending" THEN modWatch ELSE TRUE
      BY <2>3 DEF OnCreate, ModWatchIs
    <3>2. (\E n \in Tailed : status[n] = "reinit_pending") => modWatch
      BY DEF AwaitsModification
    <3> QED BY <3>1, <3>2
  <2>4. CASE e.kind # "create"
    <3>1. status[m] = "reinit_pending"
      BY <1>1, <1>4, <2>1, <2>4, EventStatus
    <3>2. modWatch
      BY <1>2, <3>1
    <3>3. CASE OnDelete(e.name)
      <4>1. modWatch' = IF \E n \in Tailed : status[n] = "reinit_pending" THEN modWatch ELSE FALSE
        BY <3>3 DEF OnDelete, ModWatchIs
      <4> QED BY <1>1, <3>1, <3>2, <4>1
    <3>4. CASE OnModify(e.name)
      <4>1. modWatch' = IF \E n \in Tailed : status'[n] = "reinit_pending" THEN modWatch ELSE FALSE
        BY <3>4 DEF OnModify, ModWatchIs
      <4> QED BY <1>1, <3>2, <4>1
    <3> QED BY <2>2, <2>4, <3>3, <3>4
  <2> QED BY <2>2, <2>3, <2>4
<1> QED BY <1>3, <1>4

LEMMA QttailEndsRead ==
    ASSUME TypeOK, Rounds, Qttail
    PROVE  EndsRead'
<1> SUFFICES ASSUME stop' = "deleted"
             PROVE  \A m \in Tailed' : mapped'[m] # 0 => ReadOrHidden(m)'
  BY DEF EndsRead, ReadOrHidden
<1>1. stop = "no"
  <2>1. rpc # "stop"
    BY DEF Qttail, Start, OpenAgain, Activate, Skip, Find, Pick, Dump, DumpOther,
       DumpNot, Idle, Read, Event,
       NoEvent
  <2> QED BY <2>1 DEF Rounds
<1>2. Idle
  BY <1>1 DEF Qttail, Start, OpenAgain, Activate, Skip, Find, Pick, Dump, DumpOther, DumpNot, Read, Event,
     NoEvent, Stop, loopVars
<1>3. rpc = "idle" /\ (\A m \in Tailed : status[m] = "delete_pending") /\ Stop("deleted")
  BY <1>1, <1>2 DEF Idle
<1>4. \A m \in Tailed : mapped[m] # 0 => ReadOrHidden(m)
  BY <1>3 DEF Rounds
<1>5. Tailed' = Tailed /\ UNCHANGED <<tails, mapped, shown, torn, final>>
  BY <1>3, QttailFrame DEF Stop, tailVars, agentVars, Tailed
<1> QED BY <1>4, <1>5 DEF ReadOrHidden

LEMMA QttailAbortsOnlyBehind ==
    ASSUME TypeOK, Rounds, ToldOfDeletion, Qttail
    PROVE  AbortsOnlyBehind'
<1> SUFFICES ASSUME stop' = "abort"
             PROVE  \/ \E e \in Unread' : e.name = at' /\ e.kind = "delete"
                    \/ stage'[at'][newest'[at']] = "none"
  BY DEF AbortsOnlyBehind
<1>1. stop = "no"
  <2>1. rpc # "stop"
    BY DEF Qttail, Start, OpenAgain, Activate, Skip, Find, Pick, Dump, DumpOther,
       DumpNot, Idle, Read, Event,
       NoEvent
  <2> QED BY <2>1 DEF Rounds
<1>2. OpenAgain
  BY <1>1 DEF Qttail, Start, Activate, Skip, Find, Pick, Dump, DumpOther,
       DumpNot, Idle, Read, Event,
     NoEvent, Stop, loopVars
<1>3. /\ rpc = "scan" /\ status[at] = "reinit_ready" /\ file[at] = 0 /\ Stop("abort")
      /\ queue' = queue
  BY <1>1, <1>2 DEF OpenAgain, Stop, loopVars, Missing, Quiet
<1>4. at' = at /\ inbox' = inbox /\ Unread' = Unread /\ newest' = newest /\ stage' = stage
  BY <1>3, QttailFrame DEF Stop, Unread, agentVars
<1>5. CASE stage[at][newest[at]] # "none"
  <2>1. at \in Name
    BY PlacesAre
  <2>2. PICK i \in 1 .. Len(Pending) : IsOf(Pending[i], at, {"delete"})
    BY <1>3, <1>5, <2>1 DEF ToldOfDeletion
  <2>3. Pending[i] \in Unread
    <3>1. /\ Len(inbox) \in Nat /\ Len(queue) \in Nat
          /\ Len(Pending) = Len(inbox) + Len(queue)
          /\ Pending[i] = IF i <= Len(inbox) THEN inbox[i] ELSE queue[i - Len(inbox)]
      BY PendingIs
    <3>2. CASE i <= Len(inbox)
      BY <3>1, <3>2 DEF Unread
    <3>3. CASE i > Len(inbox)
      <4>1. i - Len(inbox) \in 1 .. Len(queue)
        BY <3>1, <3>3
      <4> QED BY <3>1, <3>3, <4>1 DEF Unread
    <3> QED BY <3>1, <3>2, <3>3
  <2> QED BY <1>4, <2>2, <2>3 DEF IsOf
<1> QED BY <1>4, <1>5

\* Nothing goes on once qttail has ended, so only its own steps matter to why it
\* did.
LEMMA AgentEnds ==
    ASSUME TypeOK, FilesNamed, Rounds, AwaitsModification, EndsRead, AbortsOnlyBehind,
           rpc # "stop", NEW n \in Name, Agent(n)
    PROVE  AwaitsModification' /\ EndsRead' /\ AbortsOnlyBehind'
<1>1. /\ stop' = stop /\ modWatch' = modWatch /\ status' = status /\ Tailed' = Tailed
      /\ stop = "no"
  BY AgentFrame DEF loopVars, tailVars, Tailed, Rounds
<1> QED BY <1>1 DEF AwaitsModification, EndsRead, AbortsOnlyBehind

(***************************************************************************)
(* The invariant, and what follows from it                                 *)
(***************************************************************************)

\* When qttail and the agents begin.
LEMMA InitStatusIInv == Init => StatusIInv
<1> SUFFICES ASSUME Init PROVE StatusIInv
  OBVIOUS
<1>1. TypeOK
  BY InitTypeOK
<1>2. PICK s \in [Name -> {"new", "ready"}] :
          stage = [n \in Name |-> [f \in File |-> IF f = 1 THEN s[n] ELSE "none"]]
  BY DEF Init
<1>3. /\ file = [n \in Name |-> 1] /\ newest = [n \in Name |-> 1]
      /\ traced = [n \in Name |-> [f \in File |-> 0]]
      /\ final = [n \in Name |-> [f \in File |-> 0]]
      /\ mapped = [n \in Name |-> 0] /\ opened = [n \in Name |-> {}]
      /\ status = [n \in Name |-> "reinit_ready"]
      /\ queue = <<>> /\ inbox = <<>> /\ rpc = "start" /\ at = 1 /\ stop = "no"
  BY DEF Init
<1>4. \A n \in Name : /\ file[n] = 1 /\ newest[n] = 1 /\ mapped[n] = 0 /\ opened[n] = {}
                      /\ status[n] = "reinit_ready"
                      /\ stage[n][1] # "none" /\ 1 <= MaxFiles[n]
                      /\ \A f \in File : /\ traced[n][f] = 0 /\ final[n][f] = 0
                                         /\ f > 1 => stage[n][f] = "none"
  <2>1. ASSUME NEW n \in Name PROVE s[n] # "none" /\ 1 \in File /\ 1 <= MaxFiles[n]
    BY FileIs, BoundsAssumption
  <2>2. ASSUME NEW n \in Name, NEW f \in File
        PROVE  stage[n][f] = IF f = 1 THEN s[n] ELSE "none"
    BY <1>2
  <2> QED BY <1>3, <2>1, <2>2
<1>5. FilesNamed
  BY <1>4 DEF FilesNamed
<1>6. Len(Pending) = 0
  <2>1. Len(inbox) = 0 /\ Len(queue) = 0
    BY <1>3
  <2> QED BY <1>1, <2>1, PendingIs
<1>7. ~ \E i \in 1 .. Len(Pending) : TRUE
  BY <1>6
<1>8. ToldOfFile /\ ToldOfDeletion
  BY <1>4, <1>7 DEF ToldOfFile, ToldOfDeletion
<1>9. TakenForDeleted /\ OpenedLast
  BY <1>4 DEF TakenForDeleted, OpenedLast
<1>10. Rounds
  BY <1>3, <1>4 DEF Rounds
<1>11. AwaitsModification /\ EndsRead /\ AbortsOnlyBehind
  BY <1>3, <1>4, PlacesAre, <1>1 DEF AwaitsModification, EndsRead, AbortsOnlyBehind
<1> QED BY <1>1, <1>5, <1>8, <1>9, <1>10, <1>11 DEF StatusIInv

\* Every step of theirs keeps the invariant.
LEMMA NextStatusIInv == StatusIInv /\ [Next]_vars => StatusIInv'
<1> SUFFICES ASSUME StatusIInv, [Next]_vars PROVE StatusIInv'
  OBVIOUS
<1>1. /\ TypeOK /\ FilesNamed /\ ToldOfFile /\ ToldOfDeletion /\ TakenForDeleted
      /\ Rounds /\ OpenedLast /\ AwaitsModification /\ EndsRead /\ AbortsOnlyBehind
  BY DEF StatusIInv
<1>2. CASE Qttail
  <2>1. TypeOK' /\ FilesNamed' /\ ToldOfFile' /\ ToldOfDeletion' /\ TakenForDeleted'
    BY <1>1, <1>2, QttailTypeOK, QttailFilesNamed, QttailToldOfFile, QttailToldOfDeletion,
       QttailTakenForDeleted
  <2>2. Rounds' /\ OpenedLast' /\ AwaitsModification' /\ EndsRead' /\ AbortsOnlyBehind'
    BY <1>1, <1>2, QttailRounds, QttailOpenedLast, QttailAwaitsModification, QttailEndsRead,
       QttailAbortsOnlyBehind
  <2> QED BY <2>1, <2>2 DEF StatusIInv
<1>3. ASSUME NEW n \in Tailed, rpc # "stop", Agent(n)
      PROVE  StatusIInv'
  <2>1. n \in Name
    BY <1>1, PlacesAre
  <2>2. TypeOK'
    BY <1>1, <1>3, <2>1, AgentTypeOK
  <2>3. FilesNamed' /\ ToldOfFile' /\ ToldOfDeletion' /\ TakenForDeleted'
    BY <1>1, <1>3, <2>1, <2>2, AgentFilesNamed, AgentToldOfFile, AgentToldOfDeletion,
       AgentTakenForDeleted
  <2>4. Rounds' /\ OpenedLast' /\ AwaitsModification' /\ EndsRead' /\ AbortsOnlyBehind'
    BY <1>1, <1>3, <2>1, AgentRounds, AgentOpenedLast, AgentEnds
  <2> QED BY <2>2, <2>3, <2>4 DEF StatusIInv
<1>4. CASE UNCHANGED vars
  <2>1. /\ UNCHANGED <<file, newest, stage, traced, writing, final>>
        /\ UNCHANGED <<queue, tails, modWatch>>
        /\ UNCHANGED <<status, mapped, shown, passed, next, torn, opened>>
        /\ UNCHANGED <<rpc, at, inbox, stop>>
    BY <1>4 DEF vars, agentVars, tailVars, loopVars
  <2>2. Pending' = Pending /\ Unread' = Unread /\ Tailed' = Tailed
    BY <2>1 DEF Pending, Unread, Tailed
  <2>3. TypeOK'
    BY <1>1, <2>1, <2>2 DEF TypeOK
  <2>4. FilesNamed' /\ ToldOfFile'
    BY <1>1, <2>1, <2>2 DEF FilesNamed, ToldOfFile
  <2>5. ToldOfDeletion' /\ OpenedLast'
    BY <1>1, <2>1, <2>2 DEF ToldOfDeletion, OpenedLast, NoneCreated
  <2>6. TakenForDeleted' /\ Rounds'
    BY <1>1, <2>1, <2>2 DEF TakenForDeleted, Rounds, LetGo, ReadOrHidden
  <2>7. AwaitsModification' /\ EndsRead' /\ AbortsOnlyBehind'
    BY <1>1, <2>1, <2>2 DEF AwaitsModification, EndsRead, AbortsOnlyBehind
  <2> QED BY <2>3, <2>4, <2>5, <2>6, <2>7 DEF StatusIInv
<1> QED BY <1>2, <1>3, <1>4 DEF Next

\* What qttail has heard of its files, and has still to hear, fits what became of
\* them (StatusIInv): the invariant that all else follows from.
THEOREM StatusInvariance == Spec => []StatusIInv
<1> QED BY InitStatusIInv, NextStatusIInv, PTL DEF Spec

\* Whoever waits for a file to be modified is told of it: OnCreate sets the watch
\* before the status, and watchForModificationsIs leaves it on while another file
\* is awaited.
THEOREM ModificationsAwaited == Spec => []AwaitsModification
<1>1. StatusIInv => AwaitsModification
  BY DEF StatusIInv
<1> QED BY <1>1, StatusInvariance, PTL

\* qttail ends for want of files only when all that was in them has been shown,
\* or when it tails one file and took a message under way for its oldest one.
THEOREM EndIsRead == Spec => []EndsRead
<1>1. StatusIInv => EndsRead
  BY DEF StatusIInv
<1> QED BY <1>1, StatusInvariance, PTL

\* It aborts at a file that is not there only if it has still to hear that it was
\* deleted, or an agent is about to create it.
THEOREM AbortIsBehind == Spec => []AbortsOnlyBehind
<1>1. StatusIInv => AbortsOnlyBehind
  BY DEF StatusIInv
<1> QED BY <1>1, StatusInvariance, PTL

LEMMA LetGoWhenRead ==
    ASSUME StatusIInv, Qttail, NEW m \in Name, mapped[m] # 0, mapped'[m] # mapped[m],
           status[m] # "initializing"
    PROVE  shown[m] >= final[m][mapped[m]]
<1>1. TypeOK /\ FilesNamed /\ Rounds
  BY DEF StatusIInv
<1>2. /\ mapped[m] \in File /\ shown[m] \in Nat
      /\ traced[m][mapped[m]] \in Nat /\ final[m][mapped[m]] \in Nat
  BY <1>1, TypesAre
<1>3. final[m][mapped[m]] <= traced[m][mapped[m]]
  BY <1>1, <1>2 DEF FilesNamed
<1>4. at \in Name /\ at \in Nat
  BY <1>1, PlacesAre
<1>5. ~ (m = at /\ rpc = "start")
  BY <1>1, <1>4 DEF Rounds
<1>6. ~ Visible(m)
  BY <1>1, <1>5, QttailOpens
<1> QED BY <1>2, <1>3, <1>6 DEF Visible, UnderWay

\* The new file of a name is opened only once everything that was in the old one
\* when it was deleted or replaced has been shown: nextTsc lets go of a file when
\* nothing is visible behind the reader, and statusIs of none that is read.
THEOREM OldFilesRead == Spec => OldFileRead
<1>1. ASSUME StatusIInv, [Next]_vars, NEW m \in Tailed, mapped[m] # 0, mapped'[m] # mapped[m],
             status[m] # "initializing"
      PROVE  shown[m] >= final[m][mapped[m]]
  <2>1. TypeOK /\ FilesNamed
    BY <1>1 DEF StatusIInv
  <2>2. m \in Name
    BY <2>1, PlacesAre
  <2>3. CASE Qttail
    BY <1>1, <2>2, <2>3, LetGoWhenRead
  <2>4. ASSUME NEW n \in Tailed, Agent(n) PROVE FALSE
    <3>1. n \in Name
      BY <2>1, PlacesAre
    <3> QED BY <1>1, <2>1, <2>4, <3>1, AgentFrame DEF tailVars
  <2>5. CASE UNCHANGED vars
    BY <1>1, <2>5 DEF vars, tailVars
  <2> QED BY <1>1, <2>3, <2>4, <2>5 DEF Next
<1>2. StatusIInv /\ [Next]_vars =>
          [\A n \in Tailed :
              mapped[n] # 0 /\ mapped'[n] # mapped[n] /\ status[n] # "initializing" =>
                  shown[n] >= final[n][mapped[n]]]_vars
  BY <1>1
<1> QED BY <1>2, StatusInvariance, PTL DEF Spec, OldFileRead

LEMMA OpenedAnew ==
    ASSUME StatusIInv, Qttail, NEW m \in Name, mapped'[m] # mapped[m], mapped'[m] # 0
    PROVE  mapped'[m] \notin opened[m]
<1>1. TypeOK /\ Rounds /\ OpenedLast
  BY DEF StatusIInv
<1>2. at \in Name /\ at \in Nat
  BY <1>1, PlacesAre
<1>3. /\ m = at /\ file[m] # 0 /\ mapped'[m] = file[m]
      /\ rpc = "start" \/ status[m] = "reinit_ready"
  BY <1>1, QttailOpens
<1>4. CASE rpc = "start"
  BY <1>1, <1>2, <1>3, <1>4 DEF Rounds
<1>5. CASE status[m] = "reinit_ready"
  BY <1>1, <1>3, <1>5 DEF OpenedLast
<1> QED BY <1>3, <1>4, <1>5

\* No file is opened a second time, unless it was opened first before the event of
\* its creation was read: until then an event may yet make qttail await it.
THEOREM OpenedOnce == Spec => OpensOnce
<1>1. ASSUME StatusIInv, [Next]_vars, NEW m \in Tailed, mapped'[m] # mapped[m], mapped'[m] # 0
      PROVE  mapped'[m] \notin opened[m]
  <2>1. TypeOK /\ FilesNamed
    BY <1>1 DEF StatusIInv
  <2>2. m \in Name
    BY <2>1, PlacesAre
  <2>3. CASE Qttail
    BY <1>1, <2>2, <2>3, OpenedAnew
  <2>4. ASSUME NEW n \in Tailed, Agent(n) PROVE FALSE
    <3>1. n \in Name
      BY <2>1, PlacesAre
    <3> QED BY <1>1, <2>1, <2>4, <3>1, AgentFrame DEF tailVars
  <2>5. CASE UNCHANGED vars
    BY <1>1, <2>5 DEF vars, tailVars
  <2> QED BY <1>1, <2>3, <2>4, <2>5 DEF Next
<1>2. StatusIInv /\ [Next]_vars =>
          [\A n \in Tailed :
              mapped'[n] # mapped[n] /\ mapped'[n] # 0 => mapped'[n] \notin opened[n]]_vars
  BY <1>1
<1> QED BY <1>2, StatusInvariance, PTL DEF Spec, OpensOnce

=============================================================================
