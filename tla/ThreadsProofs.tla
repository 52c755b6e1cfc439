--------------------------- MODULE ThreadsProofs ---------------------------
(***************************************************************************)
(* Proofs about what the threads of a program do (modules Handles and      *)
(* BlockTimers).                                                           *)
(*                                                                         *)
(* Handles: in a program whose handles have suffixes of their own, every   *)
(* trace file has one writer, what begins to trace finds an open file, and *)
(* no file is lost, wherever handles are closed under the threads that use *)
(* them; in the child of a fork, all handles are closed.  It holds for any *)
(* number of threads, handles, files and forks.                            *)
(*                                                                         *)
(* BlockTimers: self time, for every set of blocks and timers, every       *)
(* nesting and every length of the run.                                    *)
(***************************************************************************)
EXTENDS Handles, BlockTimers, SequenceTheorems, TLAPS


(***************************************************************************)
(* The inductive invariant behind them, for a program whose handles have   *)
(* suffixes of their own (only default handles, of which there is one at a *)
(* time, may share one).                                                   *)
(***************************************************************************)
SuffixesApart ==
    \A g, h \in Handle : g # h /\ Suffix[g] = Suffix[h] => {g, h} \subseteq Default

\* What a thread may rely on, by what it is doing.
Place(t, w) ==
    /\ w.op = "none" => w.pc \in {"idle", "gone", "closing", "forked"} /\ w.h = None /\ w.f = None
    /\ w.op = "fork" => w.pc \in {"lock", "fork"} /\ w.h = None /\ w.f = None
    /\ w.op \notin {"none", "fork"} => w.h \in Handle
    /\ w.op = "construct" => /\ t \in Uses[w.h] /\ state[w.h] = "none"
                             /\ IF w.h \in Mt THEN w.pc = "lock" /\ w.f = None
                                              ELSE w.pc \in {"lock", "made"} /\ w.f # None
    /\ w.op = "create" => /\ w.h \in Mt /\ state[w.h] \in {"open", "closed"} /\ tls[w.h][t] = None
                          /\ handleMap[Suffix[w.h]] = w.h
                          /\ w.pc \in {"lock", "made"} /\ (w.pc = "lock" => w.f # None)
    /\ w.op = "trace" <=> w.pc = "trace"
    /\ w.op = "trace" => w.f # None /\ state[w.h] # "none"
    /\ w.op \in {"close", "delete"} => /\ w.pc = "lock" /\ w.f = None
                                       /\ state[w.h] \in {"open", "closed", "failed"}
    /\ w.op = "resize" => /\ w.h \notin Mt /\ handleMap[Suffix[w.h]] = w.h
                          /\ state[w.h] = IF w.pc = "lock" THEN "open" ELSE "closed"
                          /\ w.pc \in {"lock", "closed", "made"} /\ (w.pc # "made" => w.f # None)
                          /\ \A u \in Thread \ {t} : at[u] = Gone
    /\ w.op = "exit" => /\ w.pc = "lock" /\ w.h \in Mt /\ w.f # None
                        /\ state[w.h] # "none" /\ tls[w.h][t] = None
    /\ w.pc = "made" /\ w.f # None => w.f \in files[w.h]
Places == \A t \in Thread : Place(t, at[t])

\* Who constructs a handle, deletes or resizes it is alone with it, but for
\* threads that end.
Alone ==
    \A t, u \in Thread :
        t # u /\ at[t].h # None /\ at[u].h = at[t].h
              /\ at[t].op \in {"construct", "delete", "resize"}
            => at[u].op = "exit"

\* Every trace file has one handle and one thread.
Owned ==
    /\ live = UNION {files[h] : h \in Handle}
    /\ \A g, h \in Handle : g # h => files[g] \cap files[h] = {}
    /\ \A t \in Thread : /\ at[t].f # None => at[t].f[2] = t
                         /\ timer[t] # None => timer[t][2] = t
                         /\ at[t].op = "exit" /\ at[t].f \in live => at[t].f \in files[at[t].h]
    /\ \A h \in Handle, t \in Thread : tls[h][t] # None =>
           /\ h \in Mt /\ state[h] # "none"
           /\ tls[h][t][2] = t
           /\ tls[h][t] \in live => tls[h][t] \in files[h]
    /\ \A h \in Handle : nonMtFile[h] # None =>
           /\ h \notin Mt /\ state[h] = "open"
           /\ \A u \in Uses[h] : nonMtFile[h][2] = u \/ at[u] = Gone

\* A file that is about to be made is a new one.
Making(t) == at[t].f # None /\ at[t].pc \in {"lock", "closed"} /\ at[t].op \in {"construct", "create", "resize"}
Fresh ==
    /\ \A f \in live : f[3] <= calls
    /\ \A h \in Handle, t \in Thread : tls[h][t] # None => tls[h][t][3] <= calls
    /\ \A t \in Thread : at[t].f # None => at[t].f[3] <= calls
    /\ \A t \in Thread : Making(t) => /\ at[t].f \notin live
                                      /\ \A h \in Handle : tls[h][t] # at[t].f
    /\ ~ inChild => /\ \A f \in live : f[1] = proc
                    /\ \A t \in Thread : Making(t) => at[t].f[1] = proc

\* A handle that has files is open, or it was closed before they were made, or
\* it is about to be opened.
Excused(h) ==
    files[h] # {} =>
        \/ state[h] = "open"
        \/ state[h] = "closed" /\ files[h] \subseteq late
        \/ \E t \in Thread : /\ at[t].h = h /\ at[t].pc = "made"
                             /\ at[t].op \in {"construct", "resize"}

\* The files of a handle are those that something refers to.
Refers(h, f) ==
    \/ nonMtFile[h] = f
    \/ \E t \in Thread : \/ tls[h][t] = f
                         \/ at[t].h = h /\ at[t].f = f /\ (at[t].pc = "made" \/ at[t].op = "exit")

Accounted ==
    \A h \in Handle :
        /\ state[h] = "open" =>
               /\ nonMtFile[h] # None => nonMtFile[h] \in files[h]
               /\ \A t \in Thread : /\ tls[h][t] # None => tls[h][t] \in files[h]
                                    /\ at[t].h = h /\ at[t].op = "exit" => at[t].f \in files[h]
        /\ ~ inChild => \A f \in files[h] : Refers(h, f)
        /\ Excused(h)

Locked ==
    \A t \in Thread :
        at[t].pc \in {"fork", "forked"} \/ (at[t].pc = "made" /\ at[t].op # "resize")
            => mutex = t

\* The map has every handle that is open, or has files though it is closed.
Present(h) == state[h] \notin {"none", "deleted"}
                \/ \E t \in Thread : at[t].op = "construct" /\ at[t].h = h
Listed ==
    /\ \A g, h \in Default : Present(g) /\ Present(h) => g = h
    /\ \A h \in Handle : state[h] = "open" \/ (state[h] = "closed" /\ files[h] # {})
                            => handleMap[Suffix[h]] = h
    /\ \A n \in Name : handleMap[n] # None =>
           Suffix[handleMap[n]] = n /\ state[handleMap[n]] \in {"open", "closed"}

\* The child of a fork has one thread, which closes all that is open or has
\* files.
InChild ==
    /\ inChild => \E t \in Thread :
           /\ \A u \in Thread \ {t} : at[u] = Gone
           /\ at[t].pc \in {"forked", "closing"} \/ at[t].op \in {"close", "delete"}
           /\ at[t].pc # "forked" => \A h \in Handle :
                  state[h] = "open" \/ files[h] # {} => h \in todo \/ at[t].h = h
           /\ \A h \in todo : state[h] \in {"open", "closed"} /\ at[t].h # h
    /\ ~ inChild => todo = {} /\ \A t \in Thread : at[t].pc \notin {"forked", "closing"}

IInv == /\ TypeOK /\ Places /\ Alone /\ Owned /\ Fresh
        /\ Accounted /\ Locked /\ Listed /\ InChild

\* The process has ended by a signal or an assertion: nothing happens any more.
Dead == mutex # None /\ \A t \in Thread : at[t] = Gone

HandlesInv == TypeOK /\ (IInv \/ Dead)


\* Where a thread may be is a place of the model.
LEMMA Elsewhere ==
    ASSUME NEW pc \in {"idle", "gone", "closing", "forked", "lock", "made", "closed", "trace", "fork"},
           NEW op \in {"none", "construct", "create", "trace", "close", "delete", "resize", "exit", "fork"},
           NEW h \in Handle \cup {None}, NEW f \in File \cup {None}
    PROVE  Doing(pc, op, h, f) \in Where
BY DEF Doing, Where

\* Nothing, and the files, are told apart.
LEMMA Nothing == /\ None \notin Thread /\ None \notin Handle /\ None \notin File
                 /\ Idle \in Where /\ Gone \in Where /\ Closing \in Where
                 /\ [Idle EXCEPT !.pc = "forked"] \in Where
BY NoneAssumption DEF File, Where, Idle, Gone, Closing

\* What a file is known by.
LEMMA FileParts ==
    ASSUME NEW f \in File
    PROVE  f[1] \in Nat /\ f[2] \in Thread /\ f[3] \in Nat
BY DEF File

\* A new file is numbered beyond all there are.
LEMMA NewFileIs ==
    ASSUME TypeOK, NEW t \in Thread
    PROVE  /\ NewFile(t) \in File
           /\ NewFile(t)[1] = proc /\ NewFile(t)[2] = t /\ NewFile(t)[3] = calls + 1
BY DEF NewFile, TypeOK, File

(***************************************************************************)
(* Types                                                                   *)
(***************************************************************************)

\* A thread goes somewhere.
LEMMA AtType ==
    ASSUME TypeOK, NEW t \in Thread, NEW w \in Where, at' = [at EXCEPT ![t] = w]
    PROVE  at' \in [Thread -> Where]
BY DEF TypeOK

\* A thread goes on in what it is doing.
LEMMA AtPcType ==
    ASSUME TypeOK, NEW t \in Thread,
           NEW pc \in {"made", "closed", "fork"}, at' = [at EXCEPT ![t].pc = pc]
    PROVE  at' \in [Thread -> Where]
<1>1. at[t] \in Where
  BY DEF TypeOK
<1>2. [at[t] EXCEPT !.pc = pc] \in Where
  BY <1>1 DEF Where
<1> QED BY <1>2 DEF TypeOK

\* A thread is somewhere.
LEMMA AtParts ==
    ASSUME TypeOK, NEW t \in Thread
    PROVE  at[t].h \in Handle \cup {None} /\ at[t].f \in File \cup {None}
<1>1. at[t] \in Where
  BY DEF TypeOK
<1> QED BY <1>1 DEF Where

\* The steps inside calls.
LEMMA TypesOfStep ==
    ASSUME TypeOK, Places, NEW t \in Thread, Step(t), ~ Dies(t)
    PROVE  TypeOK'
<1>0. /\ at[t].h \in Handle \cup {None} /\ at[t].f \in File \cup {None}
      /\ at[t].op \notin {"none", "fork"} => at[t].h \in Handle
  BY AtParts DEF Places, Place
<1>1. at' \in [Thread -> Where]
  <2>1. CASE ConstructFail(t)
    BY <1>0, <2>1, Nothing, Elsewhere, AtType DEF ConstructFail, Free, Return, Goto
  <2>2. CASE ConstructFile(t) \/ CreateFile(t) \/ ResizeNew(t) \/ ResizeClose(t)
    <3>1. CASE at' = [at EXCEPT ![t].pc = "made"] \/ at' = [at EXCEPT ![t].pc = "closed"]
      BY <3>1, AtPcType
    <3>2. CASE \E op \in {"create", "resize"} : at' = [at EXCEPT ![t] = Doing("made", op, at[t].h, None)]
      BY <1>0, <3>2, Elsewhere, AtType
    <3> QED BY <2>2, <3>1, <3>2 DEF ConstructFile, CreateFile, ResizeNew, ResizeClose, Goto
  <2>3. CASE Construct(t) \/ SetSpecific(t) \/ EndTrace(t) \/ Close(t) \/ Delete(t) \/ ResizeOpen(t)
    <3>1. at' = [at EXCEPT ![t] = Idle] \/ at' = [at EXCEPT ![t] = Closing]
      BY <2>3 DEF Construct, SetSpecific, EndTrace, Close, Delete, ResizeOpen, Return, Goto
    <3> QED BY <3>1, Nothing, AtType
  <2>4. CASE DeleteTraceFile(t)
    <3>1. CASE at' = [at EXCEPT ![t] = Gone]
      BY <3>1, Nothing, AtType
    <3>2. CASE \E g \in Handle : at' = [at EXCEPT ![t] = Doing("lock", "exit", g, tls[g][t])]
      BY <3>2, Elsewhere, AtType DEF TypeOK
    <3> QED BY <2>4, <3>1, <3>2 DEF DeleteTraceFile, Goto
  <2> QED BY <2>1, <2>2, <2>3, <2>4 DEF Step, Abort, DeleteTwice
<1> HIDE DEF Places
<1>2. CASE ConstructFail(t)
  BY <1>0, <1>1, <1>2 DEF TypeOK, ConstructFail, forkVars
<1>3. CASE ConstructFile(t) \/ CreateFile(t) \/ ResizeNew(t)
  <2>0. at[t].f # None /\ at[t].h \in Handle
    <3>1. Place(t, at[t])
      BY DEF Places
    <3> QED BY <1>0, <1>3, <3>1 DEF Place, ConstructFile, CreateFile, ResizeNew, Free, IsAt
  <2>1. CASE NewTraceFile(at[t].h, at[t].f) /\ at[t].f # None /\ at[t].h \in Handle
    <3>1. files' \in [Handle -> SUBSET File] /\ live' \subseteq File
      BY <1>0, <2>1 DEF TypeOK, NewTraceFile
    <3>2. late' \subseteq File
      BY <1>0, <1>3, <2>1 DEF TypeOK, ConstructFile, CreateFile, ResizeNew
    <3> QED BY <1>1, <1>3, <3>1, <3>2 DEF TypeOK, ConstructFile, CreateFile, ResizeNew, Acquire, forkVars
  <2>2. CASE NoTraceFile
    <3>1. late' \subseteq File
      BY <1>0, <1>3, <2>0 DEF TypeOK, ConstructFile, CreateFile, ResizeNew
    <3> QED BY <1>1, <1>3, <2>2, <3>1 DEF TypeOK, ConstructFile, CreateFile, ResizeNew, Acquire, NoTraceFile, forkVars
  <2> QED BY <1>3, <2>0, <2>1, <2>2 DEF ConstructFile, CreateFile, ResizeNew
<1>4. CASE Construct(t)
  BY <1>0, <1>1, <1>4 DEF TypeOK, Construct, Release, Name, forkVars
<1>5. CASE SetSpecific(t)
  BY <1>0, <1>1, <1>5 DEF TypeOK, SetSpecific, Release, forkVars, handleVars
<1>6. CASE EndTrace(t)
  BY <1>0, <1>1, <1>6 DEF TypeOK, EndTrace, forkVars, handleVars
<1>7. CASE Close(t) \/ Delete(t) \/ ResizeClose(t)
  <2>1. \E then \in {"closed", "deleted"} : DisableTracing(at[t].h, then)
    BY <1>7 DEF Close, Delete, ResizeClose
  <2>2. /\ state' \in [Handle -> {"none", "failed", "open", "closed", "deleted"}]
        /\ files' \in [Handle -> SUBSET File]
        /\ nonMtFile' \in [Handle -> File \cup {None}]
        /\ live' \subseteq File
    <3>1. PICK then \in {"closed", "deleted"} : DisableTracing(at[t].h, then)
      BY <2>1
    <3> DEFINE h == at[t].h
    <3>2. /\ state' = [state EXCEPT ![h] = then]
          /\ nonMtFile' = nonMtFile \/ nonMtFile' = [nonMtFile EXCEPT ![h] = None]
          /\ files' = files \/ files' = [files EXCEPT ![h] = {}]
          /\ live' \subseteq live
      <4>1. /\ nonMtFile = [nonMtFile EXCEPT ![h] = nonMtFile[h]]
            /\ files = [files EXCEPT ![h] = files[h]]
        BY DEF TypeOK
      <4> QED BY <3>1, <4>1 DEF DisableTracing
    <3> HIDE DEF h
    <3> QED BY <3>2 DEF TypeOK
  <2>3. handleMap' \in [Name -> Handle \cup {None}]
    BY <1>7 DEF TypeOK, Close, Delete, ResizeClose, Name
  <2> QED BY <1>1, <1>7, <2>2, <2>3 DEF TypeOK, Close, Delete, ResizeClose, forkVars
<1>8. CASE ResizeOpen(t)
  BY <1>0, <1>1, <1>8 DEF TypeOK, ResizeOpen, forkVars
<1>9. CASE DeleteTraceFile(t)
  <2>1. tls' \in [Handle -> [Thread -> File \cup {None}]]
    <3>1. UNCHANGED tls \/ \E g \in Handle : tls' = [tls EXCEPT ![g][t] = None]
      BY <1>9 DEF DeleteTraceFile
    <3>2. tls \in [Handle -> [Thread -> File \cup {None}]]
      BY DEF TypeOK
    <3> QED BY <3>1, <3>2
  <2>2. live' \subseteq File /\ files' \in [Handle -> SUBSET File]
    BY <1>9 DEF TypeOK, DeleteTraceFile
  <2> QED BY <1>1, <1>9, <2>1, <2>2 DEF TypeOK, DeleteTraceFile, forkVars
<1> QED BY <1>2, <1>3, <1>4, <1>5, <1>6, <1>7, <1>8, <1>9 DEF Step, Abort, DeleteTwice

\* The steps of a fork.
LEMMA TypesOfFork ==
    ASSUME TypeOK, Places, NEW t \in Thread, ForkStep(t)
    PROVE  TypeOK'
<1>1. at' \in [Thread -> Where]
  <2>1. CASE ForkPrepare(t)
    BY <2>1, AtPcType DEF ForkPrepare
  <2>2. CASE ForkParent(t) \/ ForkChild(t) \/ ForkChildDone(t)
    <3>1. at' = [at EXCEPT ![t] = Idle] \/ at' = [at EXCEPT ![t] = Closing]
      BY <2>2 DEF ForkParent, ForkChild, ForkChildDone, Return, Goto
    <3> QED BY <3>1, Nothing, AtType
  <2>3. CASE ForkProcess(t)
    BY <2>3, Nothing DEF ForkProcess
  <2>4. CASE ForkChildNext(t)
    <3>1. \E h \in Handle, op \in {"close", "delete"} : at' = [at EXCEPT ![t] = Doing("lock", op, h, None)]
      BY <2>4 DEF ForkChildNext, Goto, TypeOK
    <3> QED BY <3>1, Elsewhere, AtType
  <2> QED BY <2>1, <2>2, <2>3, <2>4 DEF ForkStep
<1> HIDE DEF Places
<1>2. CASE ForkPrepare(t) \/ ForkParent(t)
  BY <1>1, <1>2 DEF TypeOK, ForkPrepare, ForkParent, handleVars, forkVars
<1>3. CASE ForkProcess(t)
  <2>1. tls' \in [Handle -> [Thread -> File \cup {None}]] /\ timer' \in [Thread -> File \cup {None}]
    BY <1>3 DEF TypeOK, ForkProcess
  <2>2. proc' \in Nat /\ inChild' \in BOOLEAN
    BY <1>3 DEF TypeOK, ForkProcess
  <2> QED BY <1>1, <1>3, <2>1, <2>2 DEF TypeOK, ForkProcess, handleVars
<1>4. CASE ForkChild(t)
  <2>1. todo' \subseteq Handle
    BY <1>4, Nothing DEF TypeOK, ForkChild
  <2> QED BY <1>1, <1>4, <2>1 DEF TypeOK, ForkChild, handleVars
<1>5. CASE ForkChildNext(t)
  <2>1. todo' \subseteq Handle
    BY <1>5 DEF TypeOK, ForkChildNext
  <2> QED BY <1>1, <1>5, <2>1 DEF TypeOK, ForkChildNext, handleVars
<1>6. CASE ForkChildDone(t)
  <2>1. inChild' \in BOOLEAN
    BY <1>6 DEF ForkChildDone
  <2> QED BY <1>1, <1>6, <2>1 DEF TypeOK, ForkChildDone, handleVars
<1> QED BY <1>2, <1>3, <1>4, <1>5, <1>6 DEF ForkStep

(***************************************************************************)
(* Steps in which a thread goes somewhere else, and handles stay           *)
(***************************************************************************)

Alones == {"construct", "delete", "resize"}

\* Where thread t may go: it meets nobody who must be alone.
MayGo(t, w) ==
    /\ w \in Where /\ Place(t, w)
    /\ w.op # "exit" /\ w.pc \notin {"made", "forked", "closing"}
    /\ w.h # None => \A u \in Thread \ {t} : at[u].h = w.h =>
                         /\ at[u].op \notin Alones
                         /\ w.op \in Alones => at[u].op = "exit"
    /\ w.f # None => w.f[2] = t /\ w.f[3] <= calls'
    /\ w.op \in {"construct", "create", "resize"} /\ w.f # None =>
           w.f \notin live /\ w.f[1] = proc /\ \A h \in Handle : tls[h][t] # w.f
    /\ w.op = "construct" /\ w.h \in Default => \A g \in Default : ~ Present(g)

\* A thread that is not in the middle of a change goes there.
LEMMA Moves ==
    ASSUME IInv, ~ inChild,
           NEW t \in Thread, NEW w, MayGo(t, w), at' = [at EXCEPT ![t] = w],
           at[t].op \in {"none", "trace", "fork"}, at[t] # Gone,
           UNCHANGED <<handleVars, tls, forkVars>>,
           timer' \in [Thread -> File \cup {None}],
           \A u \in Thread : timer'[u] # None => timer'[u][2] = u,
           calls' \in Nat, calls' >= calls,
           \A u \in Thread \ {t} : mutex = u => mutex' = u,
           w.pc = "fork" => mutex' = t
    PROVE  IInv'
<1>0. /\ TypeOK /\ Places /\ Alone /\ Owned /\ Fresh /\ Accounted /\ Locked /\ Listed /\ InChild
      /\ at \in [Thread -> Where] /\ w \in Where
      /\ UNCHANGED <<state, handleMap, files, nonMtFile, live, late, tls, deleteOnFork, todo, proc, inChild>>
  BY DEF IInv, TypeOK, MayGo, handleVars, forkVars
<1>1. /\ at'[t] = w
      /\ \A u \in Thread \ {t} : at'[u] = at[u]
      /\ at[t].pc \in {"idle", "lock", "trace", "fork"}
  BY <1>0 DEF Places, Place, InChild, Gone, Idle, Where
<1>2. TypeOK'
  BY <1>0, AtType DEF TypeOK
<1>3. Places'
  <2>1. Place(t, w)'
    BY <1>0, <1>1 DEF MayGo, Place, Gone
  <2>2. ASSUME NEW u \in Thread \ {t}
        PROVE  Place(u, at[u])'
    BY <1>0, <1>1 DEF Places, Place, Gone
  <2> QED BY <1>1, <2>1, <2>2 DEF Places
<1>4. Alone'
  BY <1>0, <1>1 DEF Alone, MayGo, Alones
<1>5. Owned'
  BY <1>0, <1>1 DEF Owned, MayGo, Gone
<1>6. Fresh'
  <2>1. calls \in Nat /\ \A f \in File : f[3] \in Nat
    BY <1>0, FileParts DEF TypeOK
  <2>2. \A f \in live' : f[3] <= calls'
    BY <1>0, <2>1 DEF TypeOK, Fresh
  <2>3. \A h \in Handle, u \in Thread : tls'[h][u] # None => tls'[h][u][3] <= calls'
    BY <1>0, <2>1 DEF TypeOK, Fresh
  <2>4. \A u \in Thread : Making(u)' => /\ at'[u].f \notin live
                                        /\ \A h \in Handle : tls[h][u] # at'[u].f
                                        /\ at'[u].f[1] = proc
    <3>1. Making(t)' => /\ w.f \notin live /\ w.f[1] = proc
                        /\ \A h \in Handle : tls[h][t] # w.f
      BY <1>1 DEF Making, MayGo
    <3>2. \A u \in Thread \ {t} : Making(u)' => Making(u)
      BY <1>1 DEF Making
    <3> QED BY <1>0, <1>1, <3>1, <3>2 DEF Fresh
  <2>5. \A u \in Thread : at'[u].f # None => at'[u].f[3] <= calls'
    <3>1. \A u \in Thread : at[u].f # None => at[u].f \in File
      BY <1>0, AtParts
    <3> QED BY <1>0, <1>1, <2>1, <3>1 DEF Fresh, MayGo
  <2> QED BY <1>0, <2>2, <2>3, <2>4, <2>5 DEF Fresh
<1>7. Accounted'
  <2>1. \A h \in Handle, f \in File : Refers(h, f) => Refers(h, f)'
    BY <1>0, <1>1 DEF Refers
  <2>2. files \in [Handle -> SUBSET File]
    BY <1>0 DEF TypeOK
  <2>3. ASSUME NEW h \in Handle
        PROVE  /\ state[h] = "open" =>
                    /\ nonMtFile[h] # None => nonMtFile[h] \in files[h]
                    /\ \A u \in Thread : /\ tls[h][u] # None => tls[h][u] \in files[h]
                                         /\ at'[u].h = h /\ at'[u].op = "exit" => at'[u].f \in files[h]
               /\ \A f \in files[h] : Refers(h, f)'
    BY <1>0, <1>1, <2>1, <2>2 DEF Accounted, MayGo
  <2>4. ASSUME NEW h \in Handle
        PROVE  Excused(h)'
    <3>1. Excused(h)
      BY <1>0 DEF Accounted
    <3> QED BY <1>0, <1>1, <3>1 DEF Excused
  <2> QED BY <1>0, <2>3, <2>4 DEF Accounted
<1>8. Locked'
  BY <1>0, <1>1 DEF Locked, MayGo
<1>9. Listed'
  <2>1. \A h \in Handle : Present(h)' => Present(h) \/ (w.op = "construct" /\ w.h = h)
    BY <1>0, <1>1 DEF Present
  <2>2. \A g, h \in Default : Present(g)' /\ Present(h)' => g = h
    BY <1>0, <2>1, HandleAssumption DEF Listed, MayGo
  <2> QED BY <1>0, <2>2 DEF Listed
<1>10. InChild'
  BY <1>0, <1>1 DEF InChild, MayGo
<1> QED BY <1>2, <1>3, <1>4, <1>5, <1>6, <1>7, <1>8, <1>9, <1>10 DEF IInv

\* In the child of a fork there is one thread, in a fork or closing.
LEMMA Outside ==
    ASSUME IInv, NEW t \in Thread, at[t] # Gone,
           at[t].pc \notin {"forked", "closing"}, at[t].op \notin {"close", "delete"}
    PROVE  ~ inChild
BY DEF IInv, InChild

\* Calls of a thread that is idle.
LEMMA AskMoves ==
    ASSUME IInv, NEW t \in Thread, NEW op, NEW h, NEW f,
           Ask(t, op, h, f), MayGo(t, Doing("lock", op, h, f)),
           UNCHANGED <<handleVars, tls, mutex, timer, forkVars>>
    PROVE  IInv'
<1> DEFINE w == Doing("lock", op, h, f)
<1>1. at[t] = Idle /\ calls' = calls + 1 /\ at' = [at EXCEPT ![t] = w]
  BY DEF Ask, IsIdle, Goto
<1>2. ~ inChild
  BY <1>1, Outside DEF Idle, Gone
<1>3. /\ calls' \in Nat /\ calls' >= calls
      /\ timer' \in [Thread -> File \cup {None}]
      /\ \A u \in Thread : timer'[u] # None => timer'[u][2] = u
  BY <1>1 DEF IInv, TypeOK, Owned
<1>4. w.pc # "fork" /\ at[t].op = "none" /\ at[t] # Gone
  BY <1>1 DEF Doing, Idle, Gone
<1> HIDE DEF w
<1> QED BY <1>1, <1>2, <1>3, <1>4, Moves DEF w

\* A file with a number of its own has not been there before.
LEMMA NewFileIsNew ==
    ASSUME IInv, NEW t \in Thread
    PROVE  /\ NewFile(t) \notin live
           /\ \A h \in Handle : tls[h][t] # NewFile(t)
<1>1. TypeOK /\ Fresh /\ calls \in Nat
  BY DEF IInv, TypeOK
<1>2. NewFile(t)[3] = calls + 1 /\ NewFile(t) # None
  BY <1>1, NewFileIs, Nothing
<1>3. \A f \in live : f[3] \in Nat /\ f[3] <= calls
  BY <1>1, FileParts DEF TypeOK, Fresh
<1>4. \A h \in Handle : tls[h][t] # None => tls[h][t][3] \in Nat /\ tls[h][t][3] <= calls
  BY <1>1, FileParts DEF TypeOK, Fresh
<1> QED BY <1>1, <1>2, <1>3, <1>4

\* A handle is constructed: nobody knows it yet, and a default handle is the
\* only one.
LEMMA InitializeInv ==
    ASSUME IInv, NEW t \in Thread, NEW h \in Handle, Initialize(t, h)
    PROVE  IInv'
<1> DEFINE f == IF h \in Mt THEN None ELSE NewFile(t)
           w == Doing("lock", "construct", h, f)
<1>0. TypeOK /\ Places
  BY DEF IInv
<1>1. /\ at[t] = Idle /\ t \in Uses[h] /\ state[h] = "none"
      /\ Ask(t, "construct", h, f)
      /\ UNCHANGED <<handleVars, tls, mutex, timer, forkVars>>
      /\ \A u \in Thread : at[u].op = "construct" => at[u].h # h /\ ~ ({h, at[u].h} \subseteq Default)
      /\ h \in Default => \A g \in Default : state[g] \in {"none", "deleted"}
  BY DEF Initialize, IsIdle
<1>2. /\ f \in File \cup {None}
      /\ f # None => h \notin Mt /\ f[1] = proc /\ f[2] = t /\ f[3] = calls + 1 /\ f \notin live /\ \A g \in Handle : tls[g][t] # f
      /\ h \notin Mt => f # None
  BY <1>0, NewFileIs, NewFileIsNew, Nothing
<1> HIDE DEF f
<1>3. /\ w \in Where /\ w.pc = "lock" /\ w.op = "construct" /\ w.h = h /\ w.f = f
  BY <1>2, Elsewhere DEF Doing
<1> HIDE DEF w
<1>4. Place(t, w)
  BY <1>1, <1>2, <1>3 DEF Place
<1>5. \A u \in Thread \ {t} : at[u].h = h => at[u].op = "exit"
  <2> SUFFICES ASSUME NEW u \in Thread \ {t}, at[u].h = h
               PROVE  at[u].op = "exit"
    OBVIOUS
  <2>1. at[u] \in Where /\ Place(u, at[u])
    BY <1>0 DEF TypeOK, Places
  <2> QED BY <1>1, <2>1, Nothing DEF Place, Where
<1>6. h \in Default => \A g \in Default : ~ Present(g)
  BY <1>1 DEF Present
<1>7. calls' = calls + 1 /\ calls \in Nat
  BY <1>0, <1>1 DEF Ask, TypeOK
<1>8. MayGo(t, w)
  BY <1>2, <1>3, <1>4, <1>5, <1>6, <1>7 DEF MayGo, Alones
<1> QED BY <1>1, <1>8, AskMoves DEF w

\* Nobody constructs, deletes or resizes a handle that another thread may use.
LEMMA NobodyAlone ==
    ASSUME IInv, NEW t \in Thread, at[t] = Idle, NEW h \in Handle, state[h] # "none", Usable(h)
    PROVE  \A u \in Thread : at[u].h = h => at[u].op \notin Alones
<1> SUFFICES ASSUME NEW u \in Thread, at[u].h = h
             PROVE  at[u].op \notin Alones
  OBVIOUS
<1>1. Place(u, at[u]) /\ at[t] # Gone /\ at[t].op = "none"
  BY DEF IInv, Places, Idle, Gone
<1>2. at[u].op # "delete"
  BY DEF Usable
<1>3. at[u].op # "construct"
  BY <1>1 DEF Place
<1>4. at[u].op # "resize"
  BY <1>1 DEF Place
<1> QED BY <1>2, <1>3, <1>4 DEF Alones

\* A thread is to have a trace file of its own.
LEMMA MaybeCreateInv ==
    ASSUME IInv, NEW t \in Thread, NEW h \in Handle, MaybeCreate(t, h)
    PROVE  IInv'
<1> DEFINE f == NewFile(t)
           w == Doing("lock", "create", h, f)
<1>0. TypeOK /\ Places
  BY DEF IInv
<1>1. /\ h \in Mt /\ state[h] = "open" /\ tls[h][t] = None
      /\ Ask(t, "create", h, f)
      /\ UNCHANGED <<handleVars, tls, mutex, timer, forkVars>>
      /\ at[t] = Idle /\ Usable(h)
  BY DEF MaybeCreate, Ask, IsIdle
<1>2. /\ f \in File /\ f # None
      /\ f[1] = proc /\ f[2] = t /\ f[3] = calls + 1 /\ f \notin live /\ \A g \in Handle : tls[g][t] # f
  BY <1>0, NewFileIs, NewFileIsNew, Nothing
<1> HIDE DEF f
<1>3. /\ w \in Where /\ w.pc = "lock" /\ w.op = "create" /\ w.h = h /\ w.f = f
  BY <1>2, Elsewhere DEF Doing
<1> HIDE DEF w
<1>4. Place(t, w)
  <2>1. handleMap[Suffix[h]] = h
    BY <1>1 DEF IInv, Listed
  <2> QED BY <1>1, <1>2, <1>3, <2>1 DEF Place
<1>5. \A u \in Thread : at[u].h = h => at[u].op \notin Alones
  BY <1>1, NobodyAlone
<1>6. calls' = calls + 1 /\ calls \in Nat
  BY <1>0, <1>1 DEF Ask, TypeOK
<1>7. MayGo(t, w)
  BY <1>1, <1>2, <1>3, <1>4, <1>5, <1>6 DEF MayGo, Alones
<1> QED BY <1>1, <1>7, AskMoves DEF w

\* What a thread traces into is its own file, and open.
LEMMA TraceFileIs ==
    ASSUME IInv, NEW t \in Thread, NEW h \in Handle, CanTrace(t, h)
    PROVE  /\ TraceFile(t, h) \in files[h] /\ TraceFile(t, h) \in File /\ TraceFile(t, h) \in live
           /\ TraceFile(t, h)[2] = t /\ TraceFile(t, h)[3] <= calls /\ TraceFile(t, h) # None
           /\ state[h] = "open"
           /\ \A u \in Thread : at[u].h = h => at[u].op \notin Alones
<1> DEFINE f == TraceFile(t, h)
<1>0. TypeOK /\ Places /\ Owned /\ Accounted
  BY DEF IInv
<1>1. at[t] = Idle /\ t \in Uses[h] /\ f # None /\ Usable(h)
  BY DEF CanTrace, IsIdle
<1>2. /\ state[h] = "open" /\ f \in files[h] /\ f[2] = t
  <2>1. CASE h \notin Mt
    <3>1. f = nonMtFile[h]
      BY <2>1 DEF TraceFile
    <3>2. at[t] # Gone
      BY <1>1 DEF Idle, Gone
    <3> HIDE DEF f
    <3> QED BY <1>0, <1>1, <3>1, <3>2 DEF Owned, Accounted
  <2>2. CASE h \in Mt
    <3>1. f = IF state[h] = "open" THEN tls[h][t] ELSE None
      BY <2>2 DEF TraceFile
    <3> HIDE DEF f
    <3> QED BY <1>0, <1>1, <3>1 DEF Owned, Accounted
  <2> QED BY <2>1, <2>2
<1> HIDE DEF f
<1>3. f \in File
  BY <1>0, <1>2 DEF TypeOK
<1>4. \A u \in Thread : at[u].h = h => at[u].op \notin Alones
  BY <1>1, <1>2, NobodyAlone
<1>5. f[3] <= calls /\ f \in live
  BY <1>2 DEF IInv, Owned, Fresh
<1> QED BY <1>1, <1>2, <1>3, <1>4, <1>5 DEF f

\* A trace statement begins.
LEMMA StartTraceInv ==
    ASSUME IInv, NEW t \in Thread, NEW h \in Handle, StartTrace(t, h)
    PROVE  IInv'
<1> DEFINE f == TraceFile(t, h)
           w == Doing("trace", "trace", h, f)
<1>1. /\ at[t] = Idle /\ CanTrace(t, h) /\ at' = [at EXCEPT ![t] = w]
      /\ UNCHANGED <<handleVars, tls, mutex, timer, forkVars, calls>>
  BY DEF StartTrace, CanTrace, IsIdle, Goto
<1>2. /\ f \in files[h] /\ f \in File /\ f[2] = t /\ f[3] <= calls /\ f # None /\ state[h] = "open"
      /\ \A u \in Thread : at[u].h = h => at[u].op \notin Alones
  BY <1>1, TraceFileIs
<1> HIDE DEF f
<1>3. /\ w \in Where /\ w.pc = "trace" /\ w.op = "trace" /\ w.h = h /\ w.f = f
  BY <1>2, Elsewhere DEF Doing
<1> HIDE DEF w
<1>4. MayGo(t, w)
  BY <1>1, <1>2, <1>3 DEF MayGo, Place, Alones
<1>5. ~ inChild
  BY <1>1, Outside DEF Idle, Gone
<1>6. /\ calls' \in Nat /\ calls' >= calls
      /\ timer' \in [Thread -> File \cup {None}]
      /\ \A u \in Thread : timer'[u] # None => timer'[u][2] = u
  BY <1>1 DEF IInv, TypeOK, Owned
<1>7. at[t].op = "none" /\ at[t] # Gone /\ w.pc # "fork"
  BY <1>1, <1>3 DEF Idle, Gone
<1> QED BY <1>1, <1>4, <1>5, <1>6, <1>7, Moves

\* A thread does nothing any more, or still does nothing.
LEMMA IdleInv ==
    ASSUME IInv, NEW t \in Thread, at' = [at EXCEPT ![t] = Idle],
           at[t] = Idle \/ at[t].pc \in {"trace", "fork"},
           UNCHANGED <<handleVars, tls, forkVars, calls>>,
           timer' \in [Thread -> File \cup {None}],
           \A u \in Thread : timer'[u] # None => timer'[u][2] = u,
           \A u \in Thread \ {t} : mutex = u => mutex' = u
    PROVE  IInv'
<1>1. /\ Idle \in Where /\ Idle.h = None /\ Idle.f = None /\ Idle.op = "none" /\ Idle.pc = "idle"
  BY Nothing DEF Idle
<1>2. MayGo(t, Idle)
  BY <1>1 DEF MayGo, Place
<1>3. at[t] # Gone /\ at[t].op \in {"none", "trace", "fork"} /\ at[t].pc \notin {"forked", "closing"}
  BY DEF Idle, Gone, IInv, Places, Place, TypeOK, Where
<1>4. ~ inChild
  BY <1>3, Outside
<1>5. calls' \in Nat /\ calls' >= calls
  BY DEF IInv, TypeOK
<1> QED BY <1>1, <1>2, <1>3, <1>4, <1>5, Moves

\* Its end, and profiled blocks.
LEMMA TracingInv ==
    ASSUME IInv, NEW t \in Thread, ~ Dies(t),
           EndTrace(t) \/ LeaveBlock(t) \/ \E h \in Handle : EnterBlock(t, h)
    PROVE  IInv'
<1>0. /\ at \in [Thread -> Where] /\ timer \in [Thread -> File \cup {None}]
      /\ \A u \in Thread : timer[u] # None => timer[u][2] = u
  BY DEF IInv, TypeOK, Owned
<1>1. CASE EndTrace(t)
  BY <1>0, <1>1, IdleInv DEF EndTrace, Goto
<1>2. CASE LeaveBlock(t)
  <2>1. /\ at[t] = Idle /\ timer' = [timer EXCEPT ![t] = None]
        /\ UNCHANGED <<handleVars, tls, mutex, at, forkVars, calls>>
    BY <1>2 DEF LeaveBlock, IsIdle
  <2>2. at' = [at EXCEPT ![t] = Idle]
    BY <1>0, <2>1
  <2>3. /\ timer' \in [Thread -> File \cup {None}]
        /\ \A u \in Thread : timer'[u] # None => timer'[u][2] = u
    BY <1>0, <2>1
  <2> QED BY <2>1, <2>2, <2>3, IdleInv
<1>3. ASSUME NEW h \in Handle, EnterBlock(t, h)
      PROVE  IInv'
  <2>1. /\ at[t] = Idle /\ CanTrace(t, h) /\ timer' = [timer EXCEPT ![t] = TraceFile(t, h)]
        /\ UNCHANGED <<handleVars, tls, mutex, at, forkVars, calls>>
    BY <1>3 DEF EnterBlock, CanTrace, IsIdle
  <2>2. at' = [at EXCEPT ![t] = Idle]
    BY <1>0, <2>1
  <2>3. TraceFile(t, h) \in File /\ TraceFile(t, h)[2] = t
    BY <2>1, TraceFileIs
  <2>4. /\ timer' \in [Thread -> File \cup {None}]
        /\ \A u \in Thread : timer'[u] # None => timer'[u][2] = u
    BY <1>0, <2>1, <2>3
  <2> QED BY <2>1, <2>2, <2>4, IdleInv
<1> QED BY <1>1, <1>2, <1>3

\* A handle is to be closed, while others are using it, or deleted or resized.
LEMMA CallInv ==
    ASSUME IInv, NEW t \in Thread, NEW h \in Handle,
           NEW op \in {"close", "delete", "resize"}, Call(t, h, op)
    PROVE  IInv'
<1> DEFINE f == IF op = "resize" THEN NewFile(t) ELSE None
           w == Doing("lock", op, h, f)
<1>0. TypeOK /\ Places /\ Owned
  BY DEF IInv
<1>1. /\ state[h] \in {"open", "closed", "failed"}
      /\ at[t] = Idle /\ Usable(h)
      /\ op = "delete" => \A u \in Thread : at[u].h # h
      /\ op = "resize" => /\ h \notin Mt /\ nonMtFile[h] # None
                          /\ \A u \in Thread \ {t} : at[u] = Gone
      /\ Ask(t, op, h, f)
      /\ UNCHANGED <<handleVars, tls, mutex, timer, forkVars>>
  BY DEF Call, IsIdle
<1>2. /\ f \in File \cup {None}
      /\ f # None => f[1] = proc /\ f[2] = t /\ f[3] = calls + 1 /\ f \notin live /\ \A g \in Handle : tls[g][t] # f
      /\ f # None <=> op = "resize"
  BY <1>0, NewFileIs, NewFileIsNew, Nothing
<1> HIDE DEF f
<1>3. /\ w \in Where /\ w.pc = "lock" /\ w.op = op /\ w.h = h /\ w.f = f
  BY <1>2, Elsewhere DEF Doing
<1> HIDE DEF w
<1>4. op = "resize" => state[h] = "open" /\ handleMap[Suffix[h]] = h
  BY <1>0, <1>1 DEF Owned, IInv, Listed
<1>5. Place(t, w)
  BY <1>1, <1>2, <1>3, <1>4 DEF Place
<1>6. calls' = calls + 1 /\ calls \in Nat
  BY <1>0, <1>1 DEF Ask, TypeOK
<1>7. \A u \in Thread \ {t} : at[u].h = h => at[u].op \notin Alones /\ op \notin Alones
  <2>1. \A u \in Thread : at[u].h = h => at[u].op \notin Alones
    BY <1>1, NobodyAlone
  <2>2. op = "resize" => \A u \in Thread \ {t} : at[u].h # h
    BY <1>1, Nothing DEF Gone, Idle
  <2> QED BY <1>1, <2>1, <2>2 DEF Alones
<1>8. MayGo(t, w)
  BY <1>1, <1>2, <1>3, <1>5, <1>6, <1>7 DEF MayGo
<1> QED BY <1>1, <1>8, AskMoves DEF w

\* A thread is about to fork: it asks for the mutex, and gets it; the parent
\* gives it back.
LEMMA ForkInv ==
    ASSUME IInv, NEW t \in Thread, Fork(t) \/ ForkPrepare(t) \/ ForkParent(t)
    PROVE  IInv'
<1>0. /\ TypeOK /\ Places /\ at \in [Thread -> Where]
      /\ timer \in [Thread -> File \cup {None}] /\ calls \in Nat
      /\ \A u \in Thread : timer[u] # None => timer[u][2] = u
  BY DEF IInv, TypeOK, Owned
<1>1. CASE Fork(t)
  <2> DEFINE w == Doing("lock", "fork", None, None)
  <2>1. w \in Where /\ w.pc = "lock" /\ w.op = "fork" /\ w.h = None /\ w.f = None
    BY Elsewhere DEF Doing
  <2> HIDE DEF w
  <2>2. MayGo(t, w)
    BY <2>1 DEF MayGo, Place
  <2> QED BY <1>1, <2>2, AskMoves DEF Fork, w
<1>2. CASE ForkPrepare(t)
  <2> DEFINE w == Doing("fork", "fork", None, None)
  <2>1. w \in Where /\ w.pc = "fork" /\ w.op = "fork" /\ w.h = None /\ w.f = None
    BY Elsewhere DEF Doing
  <2>2. at[t].pc = "lock" /\ at[t].op = "fork" /\ mutex = None /\ mutex' = t
    BY <1>2 DEF ForkPrepare, Free, Acquire
  <2>3. at[t].h = None /\ at[t].f = None /\ at[t] \in Where
    BY <1>0, <2>2 DEF Places, Place
  <2>4. [at[t] EXCEPT !.pc = "fork"] = w
    BY <2>2, <2>3 DEF Where, Doing
  <2>5. at' = [at EXCEPT ![t] = w]
    BY <1>0, <1>2, <2>4 DEF ForkPrepare
  <2> HIDE DEF w
  <2>6. MayGo(t, w)
    BY <2>1 DEF MayGo, Place
  <2>7. ~ inChild
    BY <2>2, Outside DEF Gone, Idle
  <2>8. at[t] # Gone /\ \A u \in Thread \ {t} : mutex # u
    BY <2>2, Nothing DEF Gone, Idle
  <2>9. /\ UNCHANGED <<handleVars, tls, forkVars>>
        /\ timer' \in [Thread -> File \cup {None}]
        /\ \A u \in Thread : timer'[u] # None => timer'[u][2] = u
        /\ calls' \in Nat /\ calls' >= calls
    BY <1>0, <1>2 DEF ForkPrepare
  <2>10. at[t].op \in {"none", "trace", "fork"} /\ mutex' = t
    BY <2>2
  <2> QED BY <2>5, <2>6, <2>7, <2>8, <2>9, <2>10, Moves
<1>3. CASE ForkParent(t)
  <2>1. at[t].pc = "fork" /\ mutex' = None
    BY <1>3 DEF ForkParent, Release
  <2>2. mutex = t
    BY <2>1 DEF IInv, Locked
  <2>3. ~ inChild
    <3>1. at[t].op = "fork" /\ at[t] # Gone
      BY <1>0, <2>1 DEF Places, Place, TypeOK, Where, Gone, Idle
    <3> QED BY <2>1, <3>1, Outside
  <2>4. at' = [at EXCEPT ![t] = Idle]
    BY <1>3, <2>3 DEF ForkParent, Return, Goto
  <2> QED BY <1>0, <1>3, <2>1, <2>2, <2>4, IdleInv DEF ForkParent
<1> QED BY <1>1, <1>2, <1>3

(***************************************************************************)
(* Making trace files                                                      *)
(***************************************************************************)

\* What is known of a thread that is to make a file.
LEMMA MakingIs ==
    ASSUME IInv, NEW t \in Thread, at[t].op \in {"construct", "create", "resize"}
    PROVE  /\ ~ inChild /\ at[t].h \in Handle /\ at[t].f \in File \cup {None} /\ at[t] \in Where
           /\ at[t].f # None => at[t].f[2] = t
           /\ at[t].op = "construct" => state[at[t].h] = "none"
           /\ at[t].op = "create" => state[at[t].h] \in {"open", "closed"} /\ at[t].h \in Mt
           /\ at[t].op = "resize" => at[t].h \notin Mt /\ \A u \in Thread \ {t} : at[u] = Gone
<1>0. TypeOK /\ Places /\ Owned
  BY DEF IInv
<1>1. at[t] \in Where /\ at[t].f \in File \cup {None}
  BY <1>0, AtParts DEF TypeOK
<1>2. Place(t, at[t])
  BY <1>0 DEF Places
<1>3. ~ inChild
  BY <1>2, Outside DEF Place, Gone, Idle
<1> QED BY <1>0, <1>1, <1>2, <1>3 DEF Place, Owned

\* newTraceFile.
LEMMA Makes ==
    ASSUME IInv, NEW t \in Thread, NEW h, NEW f, NEW op \in {"construct", "create", "resize"},
           at[t].h = h, at[t].f = f, at[t].op = op, f # None,
           at[t].pc = IF op = "resize" THEN "closed" ELSE "lock",
           NewTraceFile(h, f),
           late' = IF op = "create" /\ state[h] # "open" THEN late \cup {f} ELSE late,
           at' = [at EXCEPT ![t].pc = "made"],
           UNCHANGED <<state, handleMap, nonMtFile, tls, timer, forkVars, calls>>,
           IF op = "resize" THEN mutex' = mutex ELSE mutex = None /\ mutex' = t,
           TypeOK'
    PROVE  IInv'
<1>0. /\ TypeOK /\ Places /\ Alone /\ Owned /\ Fresh /\ Accounted /\ Locked /\ Listed /\ InChild
      /\ at \in [Thread -> Where] /\ files \in [Handle -> SUBSET File]
      /\ UNCHANGED <<state, handleMap, nonMtFile, tls, timer, deleteOnFork, todo, proc, inChild, calls>>
  BY DEF IInv, TypeOK, forkVars
<1>1. /\ ~ inChild /\ h \in Handle /\ f \in File /\ f # None /\ f[2] = t
      /\ op = "construct" => state[h] = "none"
      /\ op = "create" => state[h] \in {"open", "closed"}
      /\ op = "resize" => \A u \in Thread \ {t} : at[u] = Gone
  BY MakingIs
<1>2. /\ at'[t].h = h /\ at'[t].f = f /\ at'[t].op = op /\ at'[t].pc = "made"
      /\ \A u \in Thread \ {t} : at'[u] = at[u]
      /\ \A u \in Thread : at'[u].h = at[u].h /\ at'[u].f = at[u].f /\ at'[u].op = at[u].op
      /\ \A u \in Thread : at[u] = Gone => at'[u] = Gone
  BY <1>0 DEF Where, Gone, Idle
<1>3. /\ live' = live \cup {f}
      /\ files'[h] = files[h] \cup {f}
      /\ \A g \in Handle \ {h} : files'[g] = files[g]
      /\ f \notin live
      /\ \A g \in Handle : tls[g][t] # f
      /\ f[1] = proc
  BY <1>0, <1>1 DEF NewTraceFile, Fresh, Making
<1>4. Place(t, at[t])
  BY <1>0 DEF Places
<1>5. \A u \in Thread \ {t} : Place(u, at[u])
  BY <1>0 DEF Places
<1>6. Places'
  <2>1. Place(t, at[t])'
    BY <1>0, <1>1, <1>2, <1>3, <1>4 DEF Place
  <2>2. ASSUME NEW u \in Thread \ {t}
        PROVE  Place(u, at[u])'
    BY <1>0, <1>2, <1>3, <1>5 DEF Place
  <2> QED BY <2>1, <2>2 DEF Places
<1>7. Alone'
  BY <1>0, <1>2 DEF Alone
<1>8. Owned'
  <2>1. live' = UNION {files'[g] : g \in Handle}
    BY <1>0, <1>1, <1>3 DEF Owned
  <2>2. \A g, k \in Handle : g # k => files'[g] \cap files'[k] = {}
    BY <1>0, <1>1, <1>3 DEF Owned
  <2>3. \A u \in Thread : /\ at'[u].f # None => at'[u].f[2] = u
                          /\ timer'[u] # None => timer'[u][2] = u
                          /\ at'[u].op = "exit" /\ at'[u].f \in live' => at'[u].f \in files'[at'[u].h]
    <3>1. \A u \in Thread : at[u].op = "exit" => at[u].f # f
      BY <1>0, <1>1, <1>4, <1>5 DEF Owned, Place
    <3>2. \A u \in Thread : at[u].op = "exit" => at[u].h \in Handle
      BY <1>0 DEF Places, Place
    <3> QED BY <1>0, <1>1, <1>2, <1>3, <3>1, <3>2 DEF Owned
  <2>4. \A g \in Handle, u \in Thread : tls'[g][u] # None =>
           /\ g \in Mt /\ state'[g] # "none"
           /\ tls'[g][u][2] = u
           /\ tls'[g][u] \in live' => tls'[g][u] \in files'[g]
    BY <1>0, <1>1, <1>3 DEF Owned
  <2>5. \A g \in Handle : nonMtFile'[g] # None =>
           /\ g \notin Mt /\ state'[g] = "open"
           /\ \A u \in Uses[g] : nonMtFile'[g][2] = u \/ at'[u] = Gone
    BY <1>0, <1>2, UsesAssumption DEF Owned
  <2> QED BY <2>1, <2>2, <2>3, <2>4, <2>5 DEF Owned
<1>9. Fresh'
  <2>1. f[3] <= calls
    BY <1>0, <1>1 DEF Fresh
  <2>2. \A u \in Thread : Making(u)' => Making(u) /\ u # t
    BY <1>2 DEF Making
  <2>3. \A u \in Thread \ {t} : Making(u) => at[u].f # f
    BY <1>0, <1>1 DEF Owned, Making
  <2> QED BY <1>0, <1>2, <1>3, <2>1, <2>2, <2>3 DEF Fresh
<1>10. Accounted'
  <2>1. \A g \in Handle, x \in File : Refers(g, x) => Refers(g, x)'
    BY <1>0, <1>2 DEF Refers
  <2>2. Refers(h, f)'
    BY <1>2 DEF Refers
  <2>3. ASSUME NEW g \in Handle
        PROVE  /\ state[g] = "open" =>
                    /\ nonMtFile[g] # None => nonMtFile[g] \in files'[g]
                    /\ \A u \in Thread : /\ tls[g][u] # None => tls[g][u] \in files'[g]
                                         /\ at'[u].h = g /\ at'[u].op = "exit" => at'[u].f \in files'[g]
               /\ \A x \in files'[g] : Refers(g, x)'
               /\ Excused(g)'
    <3>1. files[g] \subseteq files'[g] /\ (g # h => files'[g] = files[g])
      BY <1>3
    <3>2. \A x \in files'[g] : Refers(g, x)'
      <4>1. \A x \in files[g] : x \in File /\ Refers(g, x)
        BY <1>0, <1>1 DEF Accounted
      <4> QED BY <1>3, <2>1, <2>2, <4>1
    <3>3. Excused(g)'
      <4>1. Excused(g) /\ late \subseteq late'
        BY <1>0 DEF Accounted
      <4>2. CASE g # h
        BY <1>0, <1>2, <3>1, <4>1, <4>2 DEF Excused
      <4>3. CASE g = h /\ op # "create"
        BY <1>2, <4>3 DEF Excused
      <4>4. CASE g = h /\ op = "create"
        <5>1. \A u \in Thread \ {t} : at[u].h = h => at[u].op \notin {"construct", "resize"}
          BY <1>0, <1>1, <4>4, Nothing DEF Alone
        <5>2. files[h] # {} => state[h] = "open" \/ files[h] \subseteq late
          BY <4>1, <4>4, <5>1 DEF Excused
        <5>3. state[h] = "open" \/ files'[h] \subseteq late'
          BY <1>3, <4>1, <4>4, <5>2
        <5> QED BY <1>0, <1>1, <4>4, <5>3 DEF Excused
      <4> QED BY <4>2, <4>3, <4>4
    <3> QED BY <1>0, <1>2, <3>1, <3>2, <3>3 DEF Accounted
  <2> QED BY <1>0, <1>1, <2>3 DEF Accounted
<1>11. Locked'
  BY <1>0, <1>2, Nothing DEF Locked
<1>12. Listed'
  <2>1. \A g \in Handle : Present(g)' => Present(g)
    BY <1>0, <1>2 DEF Present
  <2>2. \A g \in Handle : state[g] = "open" \/ (state[g] = "closed" /\ files'[g] # {})
                            => handleMap[Suffix[g]] = g
    <3>1. state[h] # "none" => handleMap[Suffix[h]] = h
      BY <1>1, <1>4 DEF Place
    <3> QED BY <1>0, <1>3, <3>1 DEF Listed
  <2> QED BY <1>0, <2>1, <2>2, HandleAssumption DEF Listed
<1>13. InChild'
  BY <1>0, <1>1, <1>2 DEF InChild
<1> QED BY <1>6, <1>7, <1>8, <1>9, <1>10, <1>11, <1>12, <1>13 DEF IInv

\* newTraceFile returns NULL.
LEMMA MakesNot ==
    ASSUME IInv, NEW t \in Thread, NEW h, NEW op \in {"create", "resize"},
           at[t].h = h, at[t].op = op,
           at[t].pc = IF op = "resize" THEN "closed" ELSE "lock",
           NoTraceFile, late' = late,
           at' = [at EXCEPT ![t] = Doing("made", op, h, None)],
           UNCHANGED <<state, handleMap, nonMtFile, tls, timer, forkVars, calls>>,
           IF op = "resize" THEN mutex' = mutex ELSE mutex = None /\ mutex' = t,
           TypeOK'
    PROVE  IInv'
<1>0. /\ TypeOK /\ Places /\ Alone /\ Owned /\ Fresh /\ Accounted /\ Locked /\ Listed /\ InChild
      /\ at \in [Thread -> Where] /\ files \in [Handle -> SUBSET File]
      /\ UNCHANGED <<state, handleMap, files, live, nonMtFile, tls, timer, deleteOnFork, todo, proc, inChild, calls>>
  BY DEF IInv, TypeOK, forkVars, NoTraceFile
<1>1. /\ ~ inChild /\ h \in Handle
      /\ op = "create" => state[h] \in {"open", "closed"} /\ h \in Mt
      /\ op = "resize" => \A u \in Thread \ {t} : at[u] = Gone
  BY MakingIs
<1>2. /\ at'[t].h = h /\ at'[t].f = None /\ at'[t].op = op /\ at'[t].pc = "made"
      /\ \A u \in Thread \ {t} : at'[u] = at[u]
      /\ at[t] # Gone
  BY <1>0 DEF Where, Doing, Gone, Idle
<1>4. Place(t, at[t])
  BY <1>0 DEF Places
<1>6. Places'
  <2>1. Place(t, at[t])'
    BY <1>0, <1>1, <1>2, <1>4 DEF Place
  <2>2. ASSUME NEW u \in Thread \ {t}
        PROVE  Place(u, at[u])'
    <3>1. Place(u, at[u])
      BY <1>0 DEF Places
    <3> QED BY <1>0, <1>2, <3>1 DEF Place, Gone
  <2> QED BY <2>1, <2>2 DEF Places
<1>7. Alone'
  BY <1>0, <1>2 DEF Alone
<1>8. Owned'
  BY <1>0, <1>2 DEF Owned
<1>9. Fresh'
  BY <1>0, <1>2 DEF Fresh, Making
<1>10. Accounted'
  <2>1. \A g \in Handle, x \in File : Refers(g, x) => Refers(g, x)'
    BY <1>0, <1>2 DEF Refers
  <2>2. ASSUME NEW g \in Handle
        PROVE  /\ state[g] = "open" =>
                    \A u \in Thread : at'[u].h = g /\ at'[u].op = "exit" => at'[u].f \in files[g]
               /\ \A x \in files[g] : Refers(g, x)'
    BY <1>0, <1>1, <1>2, <2>1 DEF Accounted
  <2>3. ASSUME NEW g \in Handle
        PROVE  Excused(g)'
    <3>1. Excused(g)
      BY <1>0 DEF Accounted
    <3>2. at[t].pc # "made"
      OBVIOUS
    <3> QED BY <1>0, <1>2, <3>1, <3>2 DEF Excused
  <2> QED BY <1>0, <2>2, <2>3 DEF Accounted
<1>11. Locked'
  BY <1>0, <1>2, Nothing DEF Locked
<1>12. Listed'
  <2>1. \A g \in Handle : Present(g)' => Present(g)
    BY <1>0, <1>2 DEF Present
  <2> QED BY <1>0, <2>1, HandleAssumption DEF Listed
<1>13. InChild'
  BY <1>0, <1>1, <1>2 DEF InChild
<1> QED BY <1>6, <1>7, <1>8, <1>9, <1>10, <1>11, <1>12, <1>13 DEF IInv

\* The constructor, maybeCreateMtTraceFile and resize make a file.
LEMMA MakingInv ==
    ASSUME IInv, NEW t \in Thread, ConstructFile(t) \/ CreateFile(t) \/ ResizeNew(t), TypeOK'
    PROVE  IInv'
<1> DEFINE h == at[t].h
           f == at[t].f
           op == at[t].op
<1>1. Place(t, at[t])
  BY DEF IInv, Places
<1>2. /\ op \in {"construct", "create", "resize"} /\ f # None
      /\ at[t].pc = IF op = "resize" THEN "closed" ELSE "lock"
      /\ IF op = "resize" THEN mutex' = mutex ELSE mutex = None /\ mutex' = t
      /\ UNCHANGED <<state, handleMap, nonMtFile, tls, timer, forkVars, calls>>
      /\ op # "create" => late' = late
  <2>1. CASE ConstructFile(t)
    BY <1>1, <2>1 DEF Place, ConstructFile, Free, Acquire
  <2>2. CASE CreateFile(t)
    BY <1>1, <2>2 DEF Place, CreateFile, Free, Acquire
  <2>3. CASE ResizeNew(t)
    BY <1>1, <2>3 DEF Place, ResizeNew, IsAt
  <2> QED BY <2>1, <2>2, <2>3
<1>3. \/ /\ NewTraceFile(h, f) /\ at' = [at EXCEPT ![t].pc = "made"]
         /\ late' = IF op = "create" /\ state[h] # "open" THEN late \cup {f} ELSE late
      \/ /\ op \in {"create", "resize"} /\ NoTraceFile /\ late' = late
         /\ at' = [at EXCEPT ![t] = Doing("made", op, h, None)]
  BY DEF ConstructFile, CreateFile, ResizeNew, IsAt, Goto
<1> QED BY <1>2, <1>3, Makes, MakesNot

(***************************************************************************)
(* Opening a handle                                                        *)
(***************************************************************************)

\* The constructor and resize open the handle, and have it refer to its file.
LEMMA Opens ==
    ASSUME SuffixesApart, IInv, NEW t \in Thread, NEW h, NEW f, NEW op \in {"construct", "resize"},
           at[t].h = h, at[t].f = f, at[t].op = op,
           at[t].pc = "made" \/ (op = "construct" /\ at[t].pc = "lock" /\ h \in Mt /\ mutex = None),
           nonMtFile' = [nonMtFile EXCEPT ![h] = f],
           state' = [state EXCEPT ![h] = "open"],
           handleMap' = IF op = "construct" THEN [handleMap EXCEPT ![Suffix[h]] = h] ELSE handleMap,
           mutex' = IF op = "construct" THEN None ELSE mutex,
           at' = [at EXCEPT ![t] = Idle],
           UNCHANGED <<files, tls, live, late, timer, forkVars, calls>>,
           TypeOK'
    PROVE  IInv'
<1>0. /\ TypeOK /\ Places /\ Alone /\ Owned /\ Fresh /\ Accounted /\ Locked /\ Listed /\ InChild
      /\ at \in [Thread -> Where] /\ files \in [Handle -> SUBSET File]
      /\ UNCHANGED <<files, tls, live, late, timer, deleteOnFork, todo, proc, inChild, calls>>
  BY DEF IInv, TypeOK, forkVars
<1>1. /\ ~ inChild /\ h \in Handle /\ f \in File \cup {None}
      /\ f # None => f[2] = t
      /\ op = "construct" => state[h] = "none"
      /\ op = "resize" => h \notin Mt /\ \A u \in Thread \ {t} : at[u] = Gone
  BY MakingIs
<1>2. /\ at'[t] = Idle /\ Idle.h = None /\ Idle.f = None /\ Idle.op = "none" /\ Idle.pc = "idle"
      /\ \A u \in Thread \ {t} : at'[u] = at[u]
      /\ at[t] # Gone
  BY <1>0 DEF Idle, Gone
<1>3. /\ nonMtFile'[h] = f /\ state'[h] = "open"
      /\ \A g \in Handle \ {h} : nonMtFile'[g] = nonMtFile[g] /\ state'[g] = state[g]
      /\ nonMtFile[h] = None /\ state[h] # "open"
  <2>1. state[h] # "open"
    BY <1>0, <1>1 DEF Places, Place
  <2>2. nonMtFile[h] = None
    BY <1>0, <1>1, <2>1 DEF Owned
  <2> QED BY <1>0, <1>1, <2>1, <2>2 DEF TypeOK
<1>4. /\ op = "construct" => /\ t \in Uses[h]
                             /\ f # None => h \notin Mt
      /\ op = "resize" => state[h] = "closed" /\ handleMap[Suffix[h]] = h
      /\ f # None => f \in files[h]
  BY <1>0 DEF Places, Place
<1>5. \A u \in Thread \ {t} : at[u].h = h => at[u].op = "exit"
  BY <1>0, <1>1, Nothing DEF Alone
<1>5a. \A g \in Handle \ {h} : state[g] \in {"open", "closed"} => Suffix[g] # Suffix[h] \/ op = "resize"
  <2>1. op = "construct" => Present(h)
    BY DEF Present
  <2>2. \A g \in Handle : state[g] \in {"open", "closed"} => Present(g)
    BY DEF Present
  <2> QED BY <1>0, <1>1, <2>1, <2>2 DEF SuffixesApart, Listed
<1>6. Places'
  <2>1. Place(t, at[t])'
    BY <1>2 DEF Place
  <2>2. ASSUME NEW u \in Thread \ {t}
        PROVE  Place(u, at[u])'
    <3>1. Place(u, at[u])
      BY <1>0 DEF Places
    <3>2. at[u].op # "resize"
      BY <1>2, <3>1 DEF Place
    <3>3. CASE at[u].h = h
      BY <1>0, <1>1, <1>2, <1>3, <1>5, <3>1, <3>3 DEF Place
    <3>4. CASE at[u].h # h
      <4>1. at[u].op = "create" => handleMap'[Suffix[at[u].h]] = at[u].h
        <5>1. at[u].op = "create" => /\ at[u].h \in Handle \ {h} /\ state[at[u].h] \in {"open", "closed"}
                                     /\ handleMap[Suffix[at[u].h]] = at[u].h
          BY <3>1, <3>4 DEF Place
        <5> QED BY <1>0, <1>5a, <5>1 DEF TypeOK
      <4> QED BY <1>0, <1>2, <1>3, <3>1, <3>2, <3>4, <4>1 DEF Place
    <3> QED BY <3>3, <3>4
  <2> QED BY <2>1, <2>2 DEF Places
<1>7. Alone'
  BY <1>0, <1>2 DEF Alone
<1>8. Owned'
  <2>1. \A g \in Handle : nonMtFile'[g] # None =>
           /\ g \notin Mt /\ state'[g] = "open"
           /\ \A u \in Uses[g] : nonMtFile'[g][2] = u \/ at'[u] = Gone
    <3>1. \A u \in Uses[h] : u \in Thread
      BY <1>1, UsesAssumption
    <3>2. f # None => /\ h \notin Mt
                      /\ \A u \in Uses[h] : f[2] = u \/ at'[u] = Gone
      BY <1>1, <1>2, <1>4, <3>1, UsesAssumption
    <3>3. \A u \in Thread : at[u] = Gone => at'[u] = Gone
      BY <1>2
    <3> QED BY <1>0, <1>3, <3>2, <3>3, UsesAssumption DEF Owned
  <2>2. \A g \in Handle, u \in Thread : tls'[g][u] # None =>
           /\ g \in Mt /\ state'[g] # "none"
           /\ tls'[g][u][2] = u
           /\ tls'[g][u] \in live' => tls'[g][u] \in files'[g]
    BY <1>0, <1>3 DEF Owned
  <2>3. \A u \in Thread : /\ at'[u].f # None => at'[u].f[2] = u
                          /\ timer'[u] # None => timer'[u][2] = u
                          /\ at'[u].op = "exit" /\ at'[u].f \in live' => at'[u].f \in files'[at'[u].h]
    BY <1>0, <1>2 DEF Owned
  <2> QED BY <1>0, <2>1, <2>2, <2>3 DEF Owned
<1>9. Fresh'
  BY <1>0, <1>2 DEF Fresh, Making
<1>10. Accounted'
  <2>1. ASSUME NEW g \in Handle, NEW x \in files[g]
        PROVE  Refers(g, x)'
    <3>1. x \in File /\ x # None /\ Refers(g, x)
      BY <1>0, <1>1, <2>1, Nothing DEF Accounted
    <3> QED BY <1>0, <1>2, <1>3, <3>1 DEF Refers
  <2>2. \A u \in Thread : tls[h][u] = None /\ ~ (at'[u].h = h /\ at'[u].op = "exit")
    <3>1. \A u \in Thread : tls[h][u] = None
      BY <1>0, <1>1 DEF Owned
    <3>2. \A u \in Thread : ~ (at[u].h = h /\ at[u].op = "exit")
      BY <1>0, <1>1 DEF Places, Place
    <3> QED BY <1>2, <3>1, <3>2
  <2>3. ASSUME NEW g \in Handle
        PROVE  /\ state'[g] = "open" =>
                    /\ nonMtFile'[g] # None => nonMtFile'[g] \in files[g]
                    /\ \A u \in Thread : /\ tls[g][u] # None => tls[g][u] \in files[g]
                                         /\ at'[u].h = g /\ at'[u].op = "exit" => at'[u].f \in files[g]
               /\ Excused(g)'
    <3>1. CASE g = h
      BY <1>3, <1>4, <2>2, <3>1 DEF Excused
    <3>2. CASE g # h
      BY <1>0, <1>2, <1>3, <3>2 DEF Accounted, Excused
    <3> QED BY <3>1, <3>2
  <2> QED BY <1>0, <2>1, <2>3 DEF Accounted
<1>11. Locked'
  BY <1>0, <1>2, Nothing DEF Locked
<1>12. Listed'
  <2>1. \A g \in Handle : Present(g)' => Present(g)
    <3>1. Present(h)
      BY <1>1, <1>4 DEF Present
    <3> QED BY <1>2, <1>3, <3>1 DEF Present
  <2>3. \A g \in Handle : state'[g] = "open" \/ (state'[g] = "closed" /\ files'[g] # {})
                            => handleMap'[Suffix[g]] = g
    BY <1>0, <1>1, <1>3, <1>4, <1>5a DEF Listed, TypeOK, Name
  <2>4. \A n \in Name : handleMap'[n] # None =>
           Suffix[handleMap'[n]] = n /\ state'[handleMap'[n]] \in {"open", "closed"}
    BY <1>0, <1>1, <1>3, <1>4 DEF Listed, TypeOK, Name
  <2> QED BY <2>1, <2>3, <2>4, <1>0, HandleAssumption DEF Listed
<1>13. InChild'
  BY <1>0, <1>1, <1>2 DEF InChild
<1> QED BY <1>6, <1>7, <1>8, <1>9, <1>10, <1>11, <1>12, <1>13 DEF IInv

\* The end of the constructor, and of resize.
LEMMA OpeningInv ==
    ASSUME SuffixesApart, IInv, NEW t \in Thread, Construct(t) \/ ResizeOpen(t), TypeOK'
    PROVE  IInv'
<1>1. Place(t, at[t])
  BY DEF IInv, Places
<1>2. at[t].op \in {"construct", "resize"}
  BY DEF Construct, ResizeOpen, IsAt
<1>3. ~ inChild
  BY <1>2, MakingIs
<1>4. CASE Construct(t)
  BY <1>3, <1>4, Opens DEF Construct, Free, Release, Return, Goto
<1>5. CASE ResizeOpen(t)
  BY <1>5, Opens DEF ResizeOpen, IsAt, Goto
<1> QED BY <1>4, <1>5

\* pthread_setspecific: the thread has its file.
LEMMA SetSpecificInv ==
    ASSUME IInv, NEW t \in Thread, SetSpecific(t), TypeOK'
    PROVE  IInv'
<1>a. PICK h \in Handle, f \in File \cup {None} : h = at[t].h /\ f = at[t].f
  <2>1. at[t].op = "create"
    BY DEF SetSpecific, IsAt
  <2> QED BY <2>1, MakingIs
<1>0. /\ TypeOK /\ Places /\ Alone /\ Owned /\ Fresh /\ Accounted /\ Locked /\ Listed /\ InChild
      /\ at \in [Thread -> Where] /\ files \in [Handle -> SUBSET File]
      /\ tls \in [Handle -> [Thread -> File \cup {None}]]
      /\ UNCHANGED <<state, handleMap, files, nonMtFile, live, late, timer, deleteOnFork, todo, proc, inChild, calls>>
  BY DEF IInv, TypeOK, SetSpecific, handleVars, forkVars
<1>1. /\ at[t].pc = "made" /\ at[t].op = "create" /\ mutex' = None
      /\ tls' = [tls EXCEPT ![h][t] = f]
      /\ ~ inChild /\ state[h] \in {"open", "closed"} /\ h \in Mt
      /\ f # None => f[2] = t
  BY <1>a, MakingIs DEF SetSpecific, IsAt, Release
<1>2. /\ at'[t] = Idle /\ Idle.h = None /\ Idle.f = None /\ Idle.op = "none" /\ Idle.pc = "idle"
      /\ \A u \in Thread \ {t} : at'[u] = at[u]
      /\ at[t] # Gone
  BY <1>0, <1>1 DEF SetSpecific, Return, Goto, Idle, Gone
<1>3. /\ tls'[h][t] = f /\ tls[h][t] = None
      /\ f # None => f \in files[h]
      /\ \A u \in Thread \ {t} : \A g \in Handle : tls'[g][u] = tls[g][u]
      /\ \A g \in Handle \ {h} : tls'[g][t] = tls[g][t]
  BY <1>a, <1>0, <1>1 DEF Places, Place
<1>6. Places'
  <2>1. Place(t, at[t])'
    BY <1>2 DEF Place
  <2>2. ASSUME NEW u \in Thread \ {t}
        PROVE  Place(u, at[u])'
    <3>1. Place(u, at[u])
      BY <1>0 DEF Places
    <3> QED BY <1>0, <1>2, <1>3, <3>1 DEF Place, Gone
  <2> QED BY <2>1, <2>2 DEF Places
<1>7. Alone'
  BY <1>0, <1>2 DEF Alone
<1>8. Owned'
  <2>1. \A g \in Handle, u \in Thread : tls'[g][u] # None =>
           /\ g \in Mt /\ state'[g] # "none"
           /\ tls'[g][u][2] = u
           /\ tls'[g][u] \in live' => tls'[g][u] \in files'[g]
    BY <1>0, <1>1, <1>3 DEF Owned
  <2>2. \A u \in Thread : at[u] = Gone => at'[u] = Gone
    BY <1>2
  <2> QED BY <1>0, <1>2, <2>1, <2>2, UsesAssumption DEF Owned
<1>9. Fresh'
  <2>1. \A g \in Handle, u \in Thread : tls'[g][u] # None => tls'[g][u][3] <= calls'
    BY <1>a, <1>0, <1>3 DEF Fresh
  <2>2. \A u \in Thread : Making(u)' => Making(u) /\ u # t
    BY <1>2 DEF Making
  <2> QED BY <1>a, <1>0, <1>2, <1>3, <2>1, <2>2 DEF Fresh
<1>10. Accounted'
  <2>1. ASSUME NEW g \in Handle, NEW x \in files[g]
        PROVE  Refers(g, x)'
    <3>1. x \in File /\ x # None /\ Refers(g, x)
      BY <1>0, <1>1, <2>1, Nothing DEF Accounted
    <3> QED BY <1>a, <1>0, <1>2, <1>3, <3>1 DEF Refers
  <2>2. ASSUME NEW g \in Handle
        PROVE  /\ state[g] = "open" =>
                    \A u \in Thread : /\ tls'[g][u] # None => tls'[g][u] \in files[g]
                                      /\ at'[u].h = g /\ at'[u].op = "exit" => at'[u].f \in files[g]
               /\ Excused(g)'
    <3>1. state[g] = "open" => \A u \in Thread : tls'[g][u] # None => tls'[g][u] \in files[g]
      BY <1>0, <1>3 DEF Accounted
    <3>2. state[g] = "open" => \A u \in Thread : at'[u].h = g /\ at'[u].op = "exit" => at'[u].f \in files[g]
      BY <1>0, <1>2 DEF Accounted
    <3>3. Excused(g)'
      <4>1. Excused(g)
        BY <1>0 DEF Accounted
      <4> QED BY <1>0, <1>1, <1>2, <4>1 DEF Excused
    <3> QED BY <3>1, <3>2, <3>3
  <2> QED BY <1>0, <2>1, <2>2 DEF Accounted
<1>11. Locked'
  BY <1>0, <1>1, <1>2 DEF Locked
<1>12. Listed'
  <2>1. \A g \in Handle : Present(g)' => Present(g)
    BY <1>0, <1>2 DEF Present
  <2> QED BY <1>0, <2>1, HandleAssumption DEF Listed
<1>13. InChild'
  BY <1>0, <1>1, <1>2 DEF InChild
<1> QED BY <1>6, <1>7, <1>8, <1>9, <1>10, <1>11, <1>12, <1>13 DEF IInv

(***************************************************************************)
(* Closing a handle                                                        *)
(***************************************************************************)

\* disableTracing leaves nothing behind, also in a handle that is closed.
LEMMA DisableIs ==
    ASSUME IInv, NEW t \in Thread, NEW h \in Handle, NEW then,
           at[t].h = h, at[t].op \in {"close", "delete", "resize"}, at[t].pc = "lock",
           mutex = None, ~ Leftover(h), DisableTracing(h, then)
    PROVE  /\ state' = [state EXCEPT ![h] = then]
           /\ nonMtFile'[h] = None /\ \A g \in Handle \ {h} : nonMtFile'[g] = nonMtFile[g]
           /\ files'[h] = {} /\ \A g \in Handle \ {h} : files'[g] = files[g]
           /\ live' = live \ files[h]
           /\ \A u \in Thread \ {t} : at[u].h = h =>
                  /\ at[u].pc # "made"
                  /\ at[u].op \in {"exit", "create", "trace", "close"}
                  /\ at[t].op # "close" => at[u].op = "exit"
<1>0. TypeOK /\ Places /\ Alone /\ Owned /\ Locked
  BY DEF IInv
<1>1. ASSUME NEW u \in Thread \ {t}, at[u].h = h
      PROVE  /\ at[u].pc # "made"
             /\ at[u].op \in {"exit", "create", "trace", "close"}
             /\ at[t].op # "close" => at[u].op = "exit"
  <2>1. Place(u, at[u]) /\ at[u] \in Where /\ at[t] # Gone
    BY <1>0 DEF Places, TypeOK, Gone, Idle
  <2>2. at[u].op # "resize"
    BY <2>1 DEF Place
  <2>3. at[u].pc # "made"
    BY <1>0, <2>2, Nothing DEF Locked
  <2>4. at[u].op \notin {"none", "fork", "construct", "delete"}
    BY <1>0, <1>1, <2>1, Nothing DEF Alone, Place
  <2>5. at[t].op # "close" => at[u].op = "exit"
    BY <1>0, <1>1, Nothing DEF Alone
  <2> QED BY <2>1, <2>2, <2>3, <2>4, <2>5 DEF Where
<1>2. state[h] = "closed" => files[h] = {} /\ nonMtFile[h] = None
  BY <1>0 DEF Leftover, Owned
<1>3. /\ files \in [Handle -> SUBSET File] /\ nonMtFile \in [Handle -> File \cup {None}]
  BY <1>0 DEF TypeOK
<1>4. CASE state[h] = "closed"
  BY <1>1, <1>2, <1>3, <1>4 DEF DisableTracing
<1>5. CASE state[h] # "closed"
  BY <1>1, <1>3, <1>5 DEF DisableTracing
<1> QED BY <1>4, <1>5

\* close, the destructor, and the first part of resize.
LEMMA Closes ==
    ASSUME SuffixesApart, IInv, NEW t \in Thread, NEW h \in Handle, NEW f, NEW w \in Where,
           NEW op \in {"close", "delete", "resize"},
           at[t].h = h, at[t].op = op, at[t].pc = "lock", at[t].f = f,
           mutex = None, ~ Leftover(h),
           DisableTracing(h, IF op = "delete" THEN "deleted" ELSE "closed"),
           handleMap' = IF op = "delete" THEN [handleMap EXCEPT ![Suffix[h]] = None] ELSE handleMap,
           at' = [at EXCEPT ![t] = w],
           w = IF op = "resize" THEN Doing("closed", "resize", h, f) ELSE IF inChild THEN Closing ELSE Idle,
           UNCHANGED <<late, tls, mutex, timer, forkVars, calls>>,
           TypeOK'
    PROVE  IInv'
<1> DEFINE then == IF op = "delete" THEN "deleted" ELSE "closed"
<1>0. /\ TypeOK /\ Places /\ Alone /\ Owned /\ Fresh /\ Accounted /\ Locked /\ Listed /\ InChild
      /\ at \in [Thread -> Where] /\ files \in [Handle -> SUBSET File]
      /\ state \in [Handle -> {"none", "failed", "open", "closed", "deleted"}]
      /\ handleMap \in [Name -> Handle \cup {None}]
      /\ UNCHANGED <<late, tls, mutex, timer, deleteOnFork, todo, proc, inChild, calls>>
  BY DEF IInv, TypeOK, forkVars
<1>1. /\ nonMtFile'[h] = None /\ \A g \in Handle \ {h} : nonMtFile'[g] = nonMtFile[g]
      /\ files'[h] = {} /\ \A g \in Handle \ {h} : files'[g] = files[g]
      /\ live' = live \ files[h]
      /\ \A u \in Thread \ {t} : at[u].h = h =>
             /\ at[u].pc # "made"
             /\ at[u].op \in {"exit", "create", "trace", "close"}
             /\ op # "close" => at[u].op = "exit"
      /\ state'[h] = then /\ \A g \in Handle \ {h} : state'[g] = state[g]
  BY <1>0, DisableIs
<1>2. /\ at'[t] = w /\ \A u \in Thread \ {t} : at'[u] = at[u]
      /\ at[t] # Gone /\ w # Gone
      /\ w.pc \in {"closed", "idle", "closing"}
      /\ op = "resize" => w.op = "resize" /\ w.h = h /\ w.f = f /\ w.pc = "closed"
      /\ op # "resize" => w.op = "none" /\ w.h = None /\ w.f = None /\ w.pc = IF inChild THEN "closing" ELSE "idle"
  BY <1>0 DEF Doing, Closing, Idle, Gone
<1>3. Place(t, at[t]) /\ state[h] \in {"open", "closed", "failed"}
  BY <1>0 DEF Places, Place
<1>4. /\ op = "resize" => f # None /\ h \notin Mt /\ handleMap[Suffix[h]] = h /\ ~ inChild
                          /\ \A u \in Thread \ {t} : at[u] = Gone
  BY <1>3, MakingIs DEF Place
<1>5. \A g \in Handle \ {h} : state[g] \in {"open", "closed"} /\ op = "delete" => Suffix[g] # Suffix[h]
  BY <1>0, <1>3 DEF SuffixesApart, Listed, Present
<1>6. Places'
  <2>1. Place(t, w)'
    BY <1>0, <1>1, <1>2, <1>4 DEF Place
  <2>2. ASSUME NEW u \in Thread \ {t}
        PROVE  Place(u, at[u])'
    <3>1. Place(u, at[u])
      BY <1>0 DEF Places
    <3>2. at[u].op # "resize"
      BY <1>2, <3>1 DEF Place
    <3>3. CASE at[u].h = h
      <4>1. CASE at[u].op = "exit"
        BY <1>0, <1>1, <1>2, <3>1, <3>3, <4>1 DEF Place
      <4>2. CASE op = "close" /\ at[u].op \in {"create", "trace", "close"}
        BY <1>0, <1>1, <1>2, <3>1, <3>3, <4>2 DEF Place
      <4> QED BY <1>1, <3>3, <4>1, <4>2
    <3>4. CASE at[u].h # h
      <4>1. at[u].op = "create" => handleMap'[Suffix[at[u].h]] = at[u].h
        <5>1. at[u].op = "create" => /\ at[u].h \in Handle \ {h} /\ state[at[u].h] \in {"open", "closed"}
                                     /\ handleMap[Suffix[at[u].h]] = at[u].h
          BY <3>1, <3>4 DEF Place
        <5> QED BY <1>0, <1>5, <5>1 DEF Name
      <4> QED BY <1>0, <1>1, <1>2, <3>1, <3>2, <3>4, <4>1 DEF Place
    <3> QED BY <3>3, <3>4
  <2> QED BY <1>2, <2>1, <2>2 DEF Places
<1>7. Alone'
  BY <1>0, <1>1, <1>2 DEF Alone
<1>8. Owned'
  <2>1. live' = UNION {files'[g] : g \in Handle}
    BY <1>0, <1>1 DEF Owned
  <2>2. \A g, k \in Handle : g # k => files'[g] \cap files'[k] = {}
    BY <1>0, <1>1 DEF Owned
  <2>3. \A u \in Thread : /\ at'[u].f # None => at'[u].f[2] = u
                          /\ timer'[u] # None => timer'[u][2] = u
                          /\ at'[u].op = "exit" /\ at'[u].f \in live' => at'[u].f \in files'[at'[u].h]
    <3>1. \A u \in Thread : at[u].op = "exit" => at[u].h \in Handle
      BY <1>0 DEF Places, Place
    <3> QED BY <1>0, <1>1, <1>2, <3>1 DEF Owned
  <2>4. \A g \in Handle, u \in Thread : tls'[g][u] # None =>
           /\ g \in Mt /\ state'[g] # "none"
           /\ tls'[g][u][2] = u
           /\ tls'[g][u] \in live' => tls'[g][u] \in files'[g]
    BY <1>0, <1>1 DEF Owned
  <2>5. \A g \in Handle : nonMtFile'[g] # None =>
           /\ g \notin Mt /\ state'[g] = "open"
           /\ \A u \in Uses[g] : nonMtFile'[g][2] = u \/ at'[u] = Gone
    BY <1>0, <1>1, <1>2, UsesAssumption DEF Owned
  <2> QED BY <2>1, <2>2, <2>3, <2>4, <2>5 DEF Owned
<1>9. Fresh'
  <2>1. \A u \in Thread : Making(u)' => Making(u) /\ at'[u].f = at[u].f
    BY <1>2, <1>4 DEF Making
  <2>2. \A u \in Thread : at'[u].f # None => at'[u].f = at[u].f
    BY <1>2
  <2> QED BY <1>0, <1>1, <2>1, <2>2 DEF Fresh
<1>10. Accounted'
  <2>1. ASSUME NEW g \in Handle, NEW x \in files'[g], ~ inChild
        PROVE  Refers(g, x)'
    <3>1. g # h /\ x \in files[g] /\ Refers(g, x)
      BY <1>0, <1>1, <2>1 DEF Accounted
    <3> QED BY <1>0, <1>1, <1>2, <3>1 DEF Refers
  <2>2. ASSUME NEW g \in Handle
        PROVE  /\ state'[g] = "open" =>
                    /\ nonMtFile'[g] # None => nonMtFile'[g] \in files'[g]
                    /\ \A u \in Thread : /\ tls[g][u] # None => tls[g][u] \in files'[g]
                                         /\ at'[u].h = g /\ at'[u].op = "exit" => at'[u].f \in files'[g]
               /\ Excused(g)'
    <3>1. CASE g = h
      BY <1>1, <3>1 DEF Excused
    <3>2. CASE g # h
      BY <1>0, <1>1, <1>2, <3>2 DEF Accounted, Excused
    <3> QED BY <3>1, <3>2
  <2> QED BY <1>0, <2>1, <2>2 DEF Accounted
<1>11. Locked'
  BY <1>0, <1>2 DEF Locked
<1>12. Listed'
  <2>1. \A g \in Handle : Present(g)' => Present(g)
    BY <1>1, <1>2, <1>3 DEF Present
  <2>2. \A g \in Handle : state'[g] = "open" \/ (state'[g] = "closed" /\ files'[g] # {})
                            => handleMap'[Suffix[g]] = g
    BY <1>0, <1>1, <1>5 DEF Listed, Name
  <2>3. \A n \in Name : handleMap'[n] # None =>
           Suffix[handleMap'[n]] = n /\ state'[handleMap'[n]] \in {"open", "closed"}
    BY <1>0, <1>1 DEF Listed, Name
  <2> QED BY <2>1, <2>2, <2>3, <1>0, HandleAssumption DEF Listed
<1>13. InChild'
  <2>1. CASE inChild
    <3>1. PICK c \in Thread :
           /\ \A u \in Thread \ {c} : at[u] = Gone
           /\ at[c].pc \in {"forked", "closing"} \/ at[c].op \in {"close", "delete"}
           /\ at[c].pc # "forked" => \A g \in Handle :
                  state[g] = "open" \/ files[g] # {} => g \in todo \/ at[c].h = g
           /\ \A g \in todo : state[g] \in {"open", "closed"} /\ at[c].h # g
      BY <1>0, <2>1 DEF InChild
    <3>2. c = t
      BY <1>2, <3>1
    <3>3. w.pc = "closing" /\ w.h = None
      BY <1>2, <1>4, <2>1
    <3>4. todo \subseteq Handle
      BY <1>0 DEF TypeOK
    <3> QED BY <1>0, <1>1, <1>2, <2>1, <3>1, <3>2, <3>3, <3>4, Nothing DEF InChild
  <2>2. CASE ~ inChild
    BY <1>0, <1>2, <2>2 DEF InChild
  <2> QED BY <2>1, <2>2
<1> QED BY <1>6, <1>7, <1>8, <1>9, <1>10, <1>11, <1>12, <1>13 DEF IInv

\* The calls that close a handle.
LEMMA ClosingInv ==
    ASSUME SuffixesApart, IInv, NEW t \in Thread, Close(t) \/ Delete(t) \/ ResizeClose(t), TypeOK'
    PROVE  IInv'
<1> DEFINE op == at[t].op
           h == at[t].h
           f == at[t].f
<1>1. Place(t, at[t]) /\ at[t] \in Where /\ at \in [Thread -> Where]
  BY DEF IInv, Places, TypeOK
<1>2. /\ op \in {"close", "delete", "resize"} /\ at[t].pc = "lock" /\ h \in Handle /\ f \in File \cup {None}
      /\ mutex = None /\ ~ Leftover(h)
  BY <1>1 DEF Close, Delete, ResizeClose, Free, Place, Where
<1>3. CASE Close(t) \/ Delete(t)
  <2>1. at' = [at EXCEPT ![t] = IF inChild THEN Closing ELSE Idle]
    BY <1>3 DEF Close, Delete, Return, Goto
  <2> QED BY <1>2, <1>3, <2>1, Closes, Nothing DEF Close, Delete
<1>4. CASE ResizeClose(t)
  <2>1. [at[t] EXCEPT !.pc = "closed"] = Doing("closed", "resize", h, f)
    BY <1>1, <1>4 DEF ResizeClose, Where, Doing
  <2>2. at' = [at EXCEPT ![t] = Doing("closed", "resize", h, f)]
    BY <1>1, <1>4, <2>1 DEF ResizeClose
  <2>3. Doing("closed", "resize", h, f) \in Where
    BY <1>2, Elsewhere
  <2>4. /\ op = "resize" /\ DisableTracing(h, "closed") /\ handleMap' = handleMap
        /\ UNCHANGED <<late, tls, mutex, timer, forkVars, calls>>
    BY <1>4 DEF ResizeClose
  <2> QED BY <1>2, <2>2, <2>3, <2>4, Closes
<1> QED BY <1>3, <1>4

\* The constructor gives up: nothing has been made.
LEMMA ConstructFailInv ==
    ASSUME IInv, NEW t \in Thread, ConstructFail(t), TypeOK'
    PROVE  IInv'
<1>a. PICK h : h = at[t].h
  OBVIOUS
<1>0. /\ TypeOK /\ Places /\ Alone /\ Owned /\ Fresh /\ Accounted /\ Locked /\ Listed /\ InChild
      /\ at \in [Thread -> Where]
      /\ state \in [Handle -> {"none", "failed", "open", "closed", "deleted"}]
      /\ UNCHANGED <<handleMap, files, nonMtFile, live, late, tls, mutex, timer, deleteOnFork, todo, proc, inChild, calls>>
  BY DEF IInv, TypeOK, ConstructFail, forkVars
<1>1. /\ ~ inChild /\ h \in Handle /\ state[h] = "none"
      /\ at[t].pc = "lock" /\ at[t].op = "construct"
      /\ state' = [state EXCEPT ![h] = "failed"]
  BY <1>a, MakingIs DEF ConstructFail, Free
<1>2. PICK w : /\ at' = [at EXCEPT ![t] = w]
               /\ w.f = None /\ w # Gone
               /\ \/ w.pc = "lock" /\ w.op = "delete" /\ w.h = h
                  \/ w.pc = "idle" /\ w.op = "none" /\ w.h = None
  <2>1. at' = [at EXCEPT ![t] = Doing("lock", "delete", h, None)] \/ at' = [at EXCEPT ![t] = Idle]
    BY <1>a, <1>1 DEF ConstructFail, Return, Goto
  <2> QED BY <2>1 DEF Doing, Idle, Gone
<1>3. /\ at'[t] = w /\ \A u \in Thread \ {t} : at'[u] = at[u]
      /\ at[t] # Gone
      /\ \A u \in Thread \ {t} : at[u].h # h \/ at[u].op = "exit"
      /\ state'[h] = "failed" /\ \A g \in Handle \ {h} : state'[g] = state[g]
  BY <1>a, <1>0, <1>1, <1>2, Nothing DEF Gone, Idle, Alone
<1>6. Places'
  <2>1. Place(t, w)'
    BY <1>1, <1>2, <1>3 DEF Place
  <2>2. ASSUME NEW u \in Thread \ {t}
        PROVE  Place(u, at[u])'
    <3>1. Place(u, at[u])
      BY <1>0 DEF Places
    <3>2. at[u].h # h
      BY <1>1, <1>3, <3>1 DEF Place
    <3> QED BY <1>0, <1>3, <3>1, <3>2 DEF Place
  <2> QED BY <1>3, <2>1, <2>2 DEF Places
<1>7. Alone'
  BY <1>0, <1>2, <1>3, Nothing DEF Alone
<1>8. Owned'
  <2>1. \A g \in Handle, u \in Thread : tls'[g][u] # None =>
           /\ g \in Mt /\ state'[g] # "none"
           /\ tls'[g][u][2] = u
           /\ tls'[g][u] \in live' => tls'[g][u] \in files'[g]
    BY <1>0, <1>3 DEF Owned
  <2>2. \A g \in Handle : nonMtFile'[g] # None =>
           /\ g \notin Mt /\ state'[g] = "open"
           /\ \A u \in Uses[g] : nonMtFile'[g][2] = u \/ at'[u] = Gone
    <3>1. ASSUME NEW g \in Handle, nonMtFile[g] # None
          PROVE  /\ g \notin Mt /\ state[g] = "open"
                 /\ \A u \in Uses[g] : nonMtFile[g][2] = u \/ at[u] = Gone
      BY <1>0, <3>1 DEF Owned
    <3>2. ASSUME NEW g \in Handle, nonMtFile[g] # None
          PROVE  state'[g] = "open" /\ g # h
      BY <1>1, <1>3, <3>1, <3>2
    <3>3. ASSUME NEW g \in Handle, nonMtFile[g] # None, NEW u \in Uses[g]
          PROVE  nonMtFile[g][2] = u \/ at'[u] = Gone
      <4>1. u \in Thread
        BY UsesAssumption
      <4> QED BY <1>3, <3>1, <3>3, <4>1
    <3> QED BY <1>0, <3>1, <3>2, <3>3
  <2>3. \A u \in Thread : /\ at'[u].f # None => at'[u].f[2] = u
                          /\ timer'[u] # None => timer'[u][2] = u
                          /\ at'[u].op = "exit" /\ at'[u].f \in live' => at'[u].f \in files'[at'[u].h]
    BY <1>0, <1>2, <1>3 DEF Owned
  <2> QED BY <1>0, <2>1, <2>2, <2>3 DEF Owned
<1>9. Fresh'
  BY <1>0, <1>2, <1>3 DEF Fresh, Making
<1>10. Accounted'
  <2>1. ASSUME NEW g \in Handle, NEW x \in files[g]
        PROVE  Refers(g, x)'
    BY <1>0, <1>1, <1>3 DEF Accounted, Refers
  <2>2. ASSUME NEW g \in Handle
        PROVE  /\ state'[g] = "open" =>
                    /\ nonMtFile[g] # None => nonMtFile[g] \in files[g]
                    /\ \A u \in Thread : /\ tls[g][u] # None => tls[g][u] \in files[g]
                                         /\ at'[u].h = g /\ at'[u].op = "exit" => at'[u].f \in files[g]
    BY <1>0, <1>1, <1>2, <1>3 DEF Accounted
  <2>3. ASSUME NEW g \in Handle
        PROVE  Excused(g)'
    <3>1. Excused(g)
      BY <1>0 DEF Accounted
    <3>2. CASE g = h
      BY <1>0, <1>1, <1>3, <3>1, <3>2 DEF Excused
    <3>3. CASE g # h
      BY <1>a, <1>0, <1>3, <3>1, <3>3 DEF Excused
    <3> QED BY <3>2, <3>3
  <2> QED BY <1>0, <2>1, <2>2, <2>3 DEF Accounted
<1>11. Locked'
  BY <1>0, <1>2, <1>3 DEF Locked
<1>12. Listed'
  <2>1. Present(h)
    BY <1>a, <1>1 DEF Present
  <2>2. \A g \in Handle : Present(g)' => Present(g)
    BY <1>2, <1>3, <2>1 DEF Present
  <2> QED BY <1>0, <1>1, <1>3, <2>2, HandleAssumption DEF Listed, TypeOK
<1>13. InChild'
  BY <1>0, <1>1, <1>2, <1>3 DEF InChild
<1> QED BY <1>6, <1>7, <1>8, <1>9, <1>10, <1>11, <1>12, <1>13 DEF IInv

(***************************************************************************)
(* The end of a thread                                                     *)
(***************************************************************************)

\* Thread t is done with file f of handle h, and goes to w: to the file of the
\* next key, or to its end.
Leaving(t, h, f, w) ==
    /\ at[t].h = h /\ at[t].f = f /\ (at[t] = Idle \/ at[t].op = "exit")
    /\ live' = live \ {f}
    /\ \A g \in Handle : files'[g] = IF g = h THEN files[g] \ {f} ELSE files[g]
    /\ at' = [at EXCEPT ![t] = w]
    /\ \/ w = Gone /\ UNCHANGED tls /\ \A g \in Handle : tls[g][t] = None
       \/ \E g \in Handle : /\ tls[g][t] # None /\ w = Doing("lock", "exit", g, tls[g][t])
                            /\ tls' = [tls EXCEPT ![g][t] = None]
    /\ UNCHANGED <<state, handleMap, nonMtFile, late, mutex, timer, forkVars, calls>>

\* A thread's trace file goes, and it proceeds to the next, or has ended.
LEMMA Leaves ==
    ASSUME IInv, NEW t \in Thread, NEW h, NEW f, NEW w, Leaving(t, h, f, w), TypeOK'
    PROVE  IInv'
<1> USE DEF Leaving
<1>0. /\ TypeOK /\ Places /\ Alone /\ Owned /\ Fresh /\ Accounted /\ Locked /\ Listed /\ InChild
      /\ at \in [Thread -> Where] /\ files \in [Handle -> SUBSET File]
      /\ tls \in [Handle -> [Thread -> File \cup {None}]]
      /\ UNCHANGED <<state, handleMap, nonMtFile, late, mutex, timer, deleteOnFork, todo, proc, inChild, calls>>
  BY DEF IInv, TypeOK, forkVars
<1>1. /\ at'[t] = w /\ \A u \in Thread \ {t} : at'[u] = at[u]
      /\ at[t] # Gone /\ at[t].pc \in {"idle", "lock"} /\ at[t].op \in {"none", "exit"}
      /\ ~ inChild
  <2>1. at[t] # Gone /\ at[t].pc \in {"idle", "lock"} /\ at[t].op \in {"none", "exit"}
    BY <1>0 DEF Idle, Gone, Places, Place
  <2> QED BY <1>0, <2>1, Outside
<1>3. \/ h = None /\ f = None
      \/ /\ h \in Handle /\ f # None /\ f[2] = t
         /\ h \in Mt /\ tls[h][t] = None
         /\ f \in live => f \in files[h]
  BY <1>0 DEF Idle, Places, Place, Owned
<1>4. \/ w.op = "none" /\ w.h = None /\ w.f = None /\ w.pc = "gone"
      \/ /\ w.op = "exit" /\ w.h \in Handle /\ w.pc = "lock" /\ w.f = tls[w.h][t] /\ w.f # None
         /\ tls'[w.h][t] = None /\ w.h # h
  <2>1. CASE w = Gone
    BY <2>1 DEF Gone, Idle
  <2>2. CASE \E g \in Handle : /\ tls[g][t] # None /\ w = Doing("lock", "exit", g, tls[g][t])
                               /\ tls' = [tls EXCEPT ![g][t] = None]
    BY <1>0, <1>3, <2>2, Nothing DEF Doing
  <2> QED BY <2>1, <2>2
<1>5. /\ \A g \in Handle, u \in Thread : u # t \/ g # w.h => tls'[g][u] = tls[g][u]
      /\ \A g \in Handle, u \in Thread : tls'[g][u] # None => tls'[g][u] = tls[g][u]
      /\ w.op = "none" => \A g \in Handle : tls[g][t] = None
  <2>1. CASE w = Gone /\ UNCHANGED tls /\ \A g \in Handle : tls[g][t] = None
    BY <2>1
  <2>2. CASE \E g \in Handle : /\ tls[g][t] # None /\ w = Doing("lock", "exit", g, tls[g][t])
                               /\ tls' = [tls EXCEPT ![g][t] = None]
    BY <1>0, <2>2 DEF Doing
  <2> QED BY <2>1, <2>2
<1>5a. /\ \A g \in Handle : \A x : x \in files'[g] => x \in files[g]
       /\ \A g \in Handle : \A x \in files[g] : x \in files'[g] \/ (x = f /\ g = h)
       /\ \A x \in live' : x \in live /\ x # f
  <2>1. \A g \in Handle : files'[g] = IF g = h THEN files[g] \ {f} ELSE files[g]
    OBVIOUS
  <2> QED BY <2>1
<1>6. Places'
  <2>1. Place(t, w)'
    BY <1>0, <1>4, Nothing DEF Place, Owned
  <2>2. ASSUME NEW u \in Thread \ {t}
        PROVE  Place(u, at[u])'
    <3>1. Place(u, at[u])
      BY <1>0 DEF Places
    <3>2. at[u].f \in files[at[u].h] /\ at[u].h \in Handle => at[u].f \in files'[at[u].h]
      <4>1. at[u].f # None => at[u].f # f
        BY <1>0, <1>3 DEF Owned
      <4>2. at[u].f \in files[at[u].h] /\ at[u].h \in Handle => at[u].f # None
        BY <1>0, Nothing
      <4> QED BY <1>5a, <4>1, <4>2
    <3>3. at[u].op # "resize"
      BY <1>1, <3>1 DEF Place
    <3>4. \A g \in Handle : tls'[g][u] = tls[g][u]
      BY <1>5
    <3>5. at[u].pc = "made" => at[u].h \in Handle
      BY <3>1 DEF Place
    <3> QED BY <1>0, <1>1, <3>1, <3>2, <3>3, <3>4, <3>5 DEF Place
  <2> QED BY <1>1, <2>1, <2>2 DEF Places
<1>7. Alone'
  BY <1>0, <1>1, <1>4 DEF Alone
<1>8. Owned'
  <2>1. live' = UNION {files'[g] : g \in Handle}
    <3>1. \A x : x \in live' <=> \E g \in Handle : x \in files'[g]
      <4>1. ASSUME NEW x \in live'
            PROVE  \E g \in Handle : x \in files'[g]
        <5>1. x \in live /\ x # f
          BY <1>5a
        <5>2. PICK g \in Handle : x \in files[g]
          BY <1>0, <5>1 DEF Owned
        <5> QED BY <1>5a, <5>1, <5>2
      <4>2. ASSUME NEW g \in Handle, NEW x \in files'[g]
            PROVE  x \in live'
        <5>1. x \in files[g] /\ x \in live /\ x # None
          BY <1>0, <1>5a, Nothing DEF Owned
        <5>2. x # f
          <6>1. CASE g = h
            BY <6>1
          <6>2. CASE g # h
            BY <1>0, <1>3, <5>1, <6>2 DEF Owned
          <6> QED BY <6>1, <6>2
        <5> QED BY <5>1, <5>2
      <4> QED BY <4>1, <4>2
    <3> QED BY <3>1
  <2>2. \A g, k \in Handle : g # k => files'[g] \cap files'[k] = {}
    BY <1>0, <1>5a DEF Owned
  <2>3. \A g \in Handle, u \in Thread : tls'[g][u] # None =>
           /\ g \in Mt /\ state'[g] # "none"
           /\ tls'[g][u][2] = u
           /\ tls'[g][u] \in live' => tls'[g][u] \in files'[g]
    BY <1>0, <1>5, <1>5a DEF Owned
  <2>4. \A u \in Thread : /\ at'[u].f # None => at'[u].f[2] = u
                          /\ timer'[u] # None => timer'[u][2] = u
                          /\ at'[u].op = "exit" /\ at'[u].f \in live' => at'[u].f \in files'[at'[u].h]
    <3>1. /\ w.f # None => w.f[2] = t
          /\ w.op = "exit" /\ w.f \in live' => w.f \in files'[w.h]
      BY <1>0, <1>4, <1>5a DEF Owned
    <3>2. \A u \in Thread : at[u].op = "exit" => at[u].h \in Handle
      BY <1>0 DEF Places, Place
    <3>3. \A u \in Thread \ {t} : at[u].op = "exit" /\ at[u].f \in live' => at[u].f \in files'[at[u].h]
      BY <1>0, <1>5a, <3>2 DEF Owned
    <3> QED BY <1>0, <1>1, <3>1, <3>3 DEF Owned
  <2>5. \A g \in Handle : nonMtFile'[g] # None =>
           /\ g \notin Mt /\ state'[g] = "open"
           /\ \A u \in Uses[g] : nonMtFile'[g][2] = u \/ at'[u] = Gone
    BY <1>0, <1>1, UsesAssumption DEF Owned
  <2> QED BY <2>1, <2>2, <2>3, <2>4, <2>5 DEF Owned
<1>9. Fresh'
  <2>1. \A u \in Thread : Making(u)' => Making(u) /\ u # t
    BY <1>1, <1>4 DEF Making
  <2>2. \A g \in Handle, u \in Thread : tls'[g][u] # None => tls'[g][u][3] <= calls'
    BY <1>0, <1>5 DEF Fresh
  <2>3. \A u \in Thread : at'[u].f # None => at'[u].f[3] <= calls'
    BY <1>0, <1>1, <1>4 DEF Fresh
  <2>4. \A u \in Thread : Making(u) /\ u # t => /\ at[u].f \notin live'
                                               /\ \A g \in Handle : tls'[g][u] # at[u].f
    BY <1>0, <1>5, <1>5a DEF Fresh
  <2> QED BY <1>0, <1>1, <1>5a, <2>1, <2>2, <2>3, <2>4 DEF Fresh
<1>10. Accounted'
  <2>1. ASSUME NEW g \in Handle, NEW x \in files'[g]
        PROVE  Refers(g, x)'
    <3>1. x \in files[g] /\ x # None /\ ~ (x = f /\ g = h) /\ Refers(g, x)
      <4>1. x \in files[g] /\ x \in File /\ ~ (x = f /\ g = h)
        <5>1. files'[g] = IF g = h THEN files[g] \ {f} ELSE files[g]
          OBVIOUS
        <5> QED BY <1>0, <5>1
      <4> QED BY <1>0, <1>1, <4>1, Nothing DEF Accounted
    <3>2. CASE nonMtFile[g] = x
      BY <1>0, <3>2 DEF Refers
    <3>3. ASSUME NEW u \in Thread, tls[g][u] = x
          PROVE  Refers(g, x)'
      <4>1. CASE u # t \/ g # w.h
        BY <1>5, <3>3, <4>1 DEF Refers
      <4>2. CASE u = t /\ g = w.h
        BY <1>1, <1>4, <3>1, <3>3, <4>2, Nothing DEF Refers
      <4> QED BY <4>1, <4>2
    <3>4. ASSUME NEW u \in Thread, at[u].h = g, at[u].f = x, at[u].pc = "made" \/ at[u].op = "exit"
          PROVE  Refers(g, x)'
      <4>1. u # t
        BY <3>1, <3>4
      <4> QED BY <1>1, <3>4, <4>1 DEF Refers
    <3> QED BY <3>1, <3>2, <3>3, <3>4 DEF Refers
  <2>2. ASSUME NEW g \in Handle, state[g] = "open"
        PROVE  /\ nonMtFile[g] # None => nonMtFile[g] \in files'[g]
               /\ \A u \in Thread : /\ tls'[g][u] # None => tls'[g][u] \in files'[g]
                                    /\ at'[u].h = g /\ at'[u].op = "exit" => at'[u].f \in files'[g]
    <3>1. nonMtFile[g] # None => nonMtFile[g] \in files'[g]
      BY <1>0, <1>3, <1>5a, <2>2, Nothing DEF Accounted, Owned
    <3>2. ASSUME NEW u \in Thread, tls'[g][u] # None
          PROVE  tls'[g][u] \in files'[g]
      <4>1. tls[g][u] \in files[g] /\ tls'[g][u] = tls[g][u] /\ tls[g][u][2] = u
        BY <1>0, <1>5, <2>2, <3>2 DEF Accounted, Owned
      <4>2. ~ (tls[g][u] = f /\ g = h)
        BY <1>3, <3>2, <4>1
      <4> QED BY <1>5a, <4>1, <4>2
    <3>3. ASSUME NEW u \in Thread, at'[u].h = g, at'[u].op = "exit"
          PROVE  at'[u].f \in files'[g]
      <4>1. CASE u = t
        <5>1. w.f = tls[g][t] /\ tls[g][t] \in files[g] /\ g # h
          BY <1>0, <1>1, <1>4, <2>2, <3>3, <4>1 DEF Accounted
        <5> QED BY <1>1, <1>5a, <4>1, <5>1
      <4>2. CASE u # t
        <5>1. at[u].f \in files[g] /\ at[u].f[2] = u /\ at[u].f # None
          BY <1>0, <1>1, <2>2, <3>3, <4>2, Nothing DEF Accounted, Owned
        <5>2. at[u].f # f
          BY <1>3, <4>2, <5>1
        <5> QED BY <1>1, <1>5a, <4>2, <5>1, <5>2
      <4> QED BY <4>1, <4>2
    <3> QED BY <3>1, <3>2, <3>3
  <2>3. ASSUME NEW g \in Handle
        PROVE  Excused(g)'
    <3>1. Excused(g)
      BY <1>0 DEF Accounted
    <3> QED BY <1>0, <1>1, <1>5a, <3>1 DEF Excused
  <2> QED BY <1>0, <2>1, <2>2, <2>3 DEF Accounted
<1>11. Locked'
  BY <1>0, <1>1, <1>4 DEF Locked
<1>12. Listed'
  <2>1. \A g \in Handle : Present(g)' => Present(g)
    BY <1>0, <1>1, <1>4 DEF Present
  <2>2. \A g \in Handle : state[g] = "open" \/ (state[g] = "closed" /\ files'[g] # {})
                            => handleMap[Suffix[g]] = g
    BY <1>0, <1>5a DEF Listed
  <2> QED BY <1>0, <2>1, <2>2, HandleAssumption DEF Listed
<1>13. InChild'
  BY <1>0, <1>1, <1>4 DEF InChild
<1> QED BY <1>6, <1>7, <1>8, <1>9, <1>10, <1>11, <1>12, <1>13 DEF IInv

\* A thread returns from its function.
LEMMA ExitInv ==
    ASSUME IInv, NEW t \in Thread, Exit(t)
    PROVE  IInv'
<1>0. /\ TypeOK /\ at[t] = Idle
      /\ UNCHANGED <<state, handleMap, files, nonMtFile, live, late, mutex, timer, deleteOnFork, todo, proc, inChild, calls>>
  BY DEF IInv, Exit, IsIdle, handleVars, forkVars
<1>1. /\ at[t].h = None /\ at[t].f = None
      /\ UNCHANGED <<state, handleMap, nonMtFile, late, mutex, timer, forkVars, calls>>
  BY <1>0 DEF Idle, forkVars
<1>2. live' = live \ {None} /\ \A g \in Handle : files'[g] = IF g = None THEN files[g] \ {None} ELSE files[g]
  BY <1>0, Nothing DEF TypeOK
<1>3. PICK w : /\ at' = [at EXCEPT ![t] = w]
               /\ \/ w = Gone /\ UNCHANGED tls /\ \A g \in Handle : tls[g][t] = None
                  \/ \E g \in Handle : /\ tls[g][t] # None /\ w = Doing("lock", "exit", g, tls[g][t])
                                       /\ tls' = [tls EXCEPT ![g][t] = None]
  <2>1. CASE (\A h \in Handle : tls[h][t] = None) /\ Goto(t, Gone) /\ UNCHANGED tls
    BY <2>1 DEF Goto
  <2>2. CASE \E h \in Handle : /\ tls[h][t] # None
                               /\ tls' = [tls EXCEPT ![h][t] = None]
                               /\ Goto(t, Doing("lock", "exit", h, tls[h][t]))
    BY <2>2 DEF Goto
  <2> QED BY <2>1, <2>2 DEF Exit
<1>4. TypeOK'
  <2>1. w \in Where /\ tls' \in [Handle -> [Thread -> File \cup {None}]]
    <3>1. CASE w = Gone /\ UNCHANGED tls
      BY <1>0, <3>1, Nothing DEF TypeOK
    <3>2. CASE \E g \in Handle : /\ tls[g][t] # None /\ w = Doing("lock", "exit", g, tls[g][t])
                                 /\ tls' = [tls EXCEPT ![g][t] = None]
      <4>1. PICK g \in Handle : /\ tls[g][t] # None /\ w = Doing("lock", "exit", g, tls[g][t])
                                /\ tls' = [tls EXCEPT ![g][t] = None]
        BY <3>2
      <4>2. tls \in [Handle -> [Thread -> File \cup {None}]]
        BY <1>0 DEF TypeOK
      <4> QED BY <4>1, <4>2, Elsewhere
    <3> QED BY <1>3, <3>1, <3>2
  <2>2. at' \in [Thread -> Where]
    BY <1>0, <1>3, <2>1, AtType
  <2> QED BY <1>0, <2>1, <2>2 DEF TypeOK
<1>5. Leaving(t, None, None, w)
  BY <1>0, <1>1, <1>2, <1>3 DEF Leaving
<1> QED BY <1>4, <1>5, Leaves

\* The trace file of a thread that ends is deleted.
LEMMA DeleteTraceFileInv ==
    ASSUME IInv, NEW t \in Thread, DeleteTraceFile(t), TypeOK'
    PROVE  IInv'
<1>a. PICK h, f : at[t].h = h /\ at[t].f = f
  OBVIOUS
<1>0. /\ at[t].op = "exit"
      /\ live' = live \ {f}
      /\ files' = [files EXCEPT ![h] = @ \ {f}]
      /\ UNCHANGED <<state, handleMap, nonMtFile, late, mutex, timer, forkVars, calls>>
  BY <1>a DEF DeleteTraceFile
<1>1. files \in [Handle -> SUBSET File] /\ h \in Handle
  BY <1>a, <1>0 DEF IInv, TypeOK, Places, Place
<1>2. \A g \in Handle : files'[g] = IF g = h THEN files[g] \ {f} ELSE files[g]
  BY <1>0, <1>1
<1>3. PICK w : /\ at' = [at EXCEPT ![t] = w]
               /\ \/ w = Gone /\ UNCHANGED tls /\ \A g \in Handle : tls[g][t] = None
                  \/ \E g \in Handle : /\ tls[g][t] # None /\ w = Doing("lock", "exit", g, tls[g][t])
                                       /\ tls' = [tls EXCEPT ![g][t] = None]
  <2>1. CASE {g \in Handle : tls[g][t] # None} = {} /\ Goto(t, Gone) /\ UNCHANGED tls
    BY <2>1 DEF Goto
  <2>2. CASE \E g \in {k \in Handle : tls[k][t] # None} :
                /\ tls' = [tls EXCEPT ![g][t] = None]
                /\ Goto(t, Doing("lock", "exit", g, tls[g][t]))
    BY <2>2 DEF Goto
  <2> QED BY <2>1, <2>2 DEF DeleteTraceFile
<1>4. Leaving(t, h, f, w)
  BY <1>a, <1>0, <1>2, <1>3 DEF Leaving
<1> QED BY <1>4, Leaves

(***************************************************************************)
(* The child of a fork                                                     *)
(***************************************************************************)

\* The child of a fork begins: it has the thread that holds the mutex.
LEMMA ForkProcessInv ==
    ASSUME IInv, NEW t \in Thread, ForkProcess(t), TypeOK'
    PROVE  IInv'
<1>0. /\ TypeOK /\ Places /\ Alone /\ Owned /\ Fresh /\ Accounted /\ Locked /\ Listed /\ InChild
      /\ at \in [Thread -> Where] /\ proc \in Nat
      /\ inChild' = TRUE /\ proc' = proc + 1
      /\ UNCHANGED <<state, handleMap, files, nonMtFile, live, late, mutex, deleteOnFork, todo, calls>>
  BY DEF IInv, TypeOK, ForkProcess, handleVars
<1>1. at[t].pc = "fork" /\ at[t].op = "fork" /\ ~ inChild /\ todo = {} /\ mutex = t
  <2>1. at[t].pc = "fork" /\ at[t].op = "fork"
    BY <1>0 DEF ForkProcess, Places, Place, Where
  <2>2. ~ inChild
    BY <2>1, Outside DEF Gone, Idle
  <2> QED BY <1>0, <2>1, <2>2 DEF InChild, Locked
<1>2. /\ at'[t].pc = "forked" /\ at'[t].op = "none" /\ at'[t].h = None /\ at'[t].f = None
      /\ \A u \in Thread \ {t} : at'[u] = Gone
      /\ \A h \in Handle, u \in Thread : tls'[h][u] = IF u = t THEN tls[h][t] ELSE None
      /\ \A u \in Thread : timer'[u] = IF u = t THEN timer[t] ELSE None
  BY DEF ForkProcess, Idle
<1>3. Gone.pc = "gone" /\ Gone.op = "none" /\ Gone.h = None /\ Gone.f = None
  BY DEF Gone, Idle
<1>4. \A u \in Thread : /\ at'[u].pc \in {"forked", "gone"} /\ at'[u].op = "none"
                        /\ at'[u].h = None /\ at'[u].f = None
  BY <1>2, <1>3
<1>5. Places'
  BY <1>4, Nothing DEF Places, Place
<1>6. Alone'
  BY <1>4 DEF Alone
<1>7. Owned'
  <2>1. \A u \in Thread : timer'[u] # None => timer'[u][2] = u
    BY <1>0, <1>2 DEF Owned
  <2>2. \A h \in Handle, u \in Thread : tls'[h][u] # None =>
           /\ h \in Mt /\ state[h] # "none"
           /\ tls'[h][u][2] = u
           /\ tls'[h][u] \in live => tls'[h][u] \in files[h]
    BY <1>0, <1>2 DEF Owned
  <2>3. \A h \in Handle : nonMtFile[h] # None =>
           /\ h \notin Mt /\ state[h] = "open"
           /\ \A u \in Uses[h] : nonMtFile[h][2] = u \/ at'[u] = Gone
    <3>1. ASSUME NEW h \in Handle, nonMtFile[h] # None, NEW u \in Uses[h]
          PROVE  nonMtFile[h][2] = u \/ at'[u] = Gone
      <4>1. u \in Thread /\ (nonMtFile[h][2] = u \/ at[u] = Gone)
        BY <1>0, <3>1, UsesAssumption DEF Owned
      <4>2. at[t] # Gone
        BY <1>1, <1>3
      <4> QED BY <1>2, <4>1, <4>2
    <3> QED BY <1>0, <3>1 DEF Owned
  <2> QED BY <1>0, <1>4, <2>1, <2>2, <2>3 DEF Owned
<1>8. Fresh'
  <2>1. \A u \in Thread : ~ Making(u)'
    BY <1>4 DEF Making
  <2>2. \A h \in Handle, u \in Thread : tls'[h][u] # None => tls'[h][u][3] <= calls'
    BY <1>0, <1>2 DEF Fresh
  <2> QED BY <1>0, <1>4, <2>1, <2>2 DEF Fresh
<1>9. Accounted'
  <2>1. ASSUME NEW h \in Handle
        PROVE  Excused(h)'
    <3>1. ASSUME NEW u \in Thread, at[u].pc = "made"
          PROVE  FALSE
      <4>1. at[u].op # "resize" => mutex = u
        BY <1>0, <3>1 DEF Locked
      <4>2. at[u].op = "resize" => at[t] = Gone
        BY <1>0, <1>1, <3>1 DEF Places, Place
      <4>3. u # t /\ at[t] # Gone
        BY <1>1, <1>3, <3>1
      <4> QED BY <1>1, <4>1, <4>2, <4>3
    <3>2. Excused(h)
      BY <1>0 DEF Accounted
    <3> QED BY <1>0, <3>1, <3>2 DEF Excused
  <2>2. ASSUME NEW h \in Handle, state[h] = "open"
        PROVE  /\ nonMtFile[h] # None => nonMtFile[h] \in files[h]
               /\ \A u \in Thread : /\ tls'[h][u] # None => tls'[h][u] \in files[h]
                                    /\ at'[u].h = h /\ at'[u].op = "exit" => at'[u].f \in files[h]
    BY <1>0, <1>2, <1>4, <2>2 DEF Accounted
  <2> QED BY <1>0, <2>1, <2>2 DEF Accounted
<1>10. Locked'
  BY <1>0, <1>1, <1>2, <1>3 DEF Locked
<1>11. Listed'
  <2>1. \A h \in Handle : Present(h)' => Present(h)
    BY <1>0, <1>4 DEF Present
  <2> QED BY <1>0, <2>1, HandleAssumption DEF Listed
<1>12. InChild'
  BY <1>0, <1>1, <1>2 DEF InChild
<1> QED BY <1>5, <1>6, <1>7, <1>8, <1>9, <1>10, <1>11, <1>12 DEF IInv

\* Who is in the child of a fork: only the thread that forked.
LEMMA TheChild ==
    ASSUME IInv, NEW t \in Thread, at[t].pc \in {"forked", "closing"}
    PROVE  /\ inChild /\ at[t].h = None /\ at[t].op = "none"
           /\ \A u \in Thread \ {t} : at[u] = Gone
           /\ at[t].pc # "forked" => \A h \in Handle : state[h] = "open" \/ files[h] # {} => h \in todo
           /\ \A h \in todo : h \in Handle /\ state[h] \in {"open", "closed"}
<1>0. TypeOK /\ Places /\ InChild /\ at[t] \in Where /\ at[t] # Gone
  BY DEF IInv, TypeOK, Gone, Idle
<1>1. inChild
  BY <1>0 DEF InChild
<1>2. at[t].h = None /\ at[t].op = "none"
  BY <1>0 DEF Places, Place, Where
<1>3. PICK c \in Thread :
        /\ \A u \in Thread \ {c} : at[u] = Gone
        /\ at[c].pc # "forked" => \A h \in Handle : state[h] = "open" \/ files[h] # {}
                                                     => h \in todo \/ at[c].h = h
        /\ \A h \in todo : state[h] \in {"open", "closed"} /\ at[c].h # h
  BY <1>0, <1>1 DEF InChild
<1>4. c = t
  BY <1>0, <1>3
<1> QED BY <1>0, <1>1, <1>2, <1>3, <1>4, Nothing DEF TypeOK

\* That thread goes on, while the handles stay.  It leaves processForkChild
\* when there is no trace file.
LEMMA ChildMoves ==
    ASSUME IInv, NEW t \in Thread, at[t].pc \in {"forked", "closing"},
           NEW w, at' = [at EXCEPT ![t] = w],
           UNCHANGED <<handleVars, tls, timer, proc, calls>>,
           \/ w \in {Idle, Closing}
           \/ /\ w.pc = "lock" /\ w.op \in {"close", "delete"} /\ w.f = None
              /\ w.h \in Handle /\ state[w.h] \in {"open", "closed"},
           inChild' \/ \A h \in Handle : files[h] = {},
           TypeOK', InChild'
    PROVE  IInv'
<1>0. /\ TypeOK /\ Places /\ Alone /\ Owned /\ Fresh /\ Accounted /\ Locked /\ Listed /\ InChild
      /\ at \in [Thread -> Where]
      /\ UNCHANGED <<state, handleMap, files, nonMtFile, live, late, tls, timer, proc, calls>>
  BY DEF IInv, TypeOK, handleVars
<1>1. /\ at'[t] = w
      /\ w.f = None /\ w.pc \in {"idle", "closing", "lock"}
      /\ \/ w.op = "none" /\ w.h = None /\ w.pc # "lock"
         \/ /\ w.pc = "lock" /\ w.op \in {"close", "delete"}
            /\ w.h \in Handle /\ state[w.h] \in {"open", "closed"}
  BY <1>0 DEF Idle, Closing
<1>2. \A u \in Thread \ {t} : /\ at[u] = Gone /\ at'[u] = Gone
                              /\ at'[u].pc = "gone" /\ at'[u].op = "none"
                              /\ at'[u].h = None /\ at'[u].f = None
  <2>1. Gone.pc = "gone" /\ Gone.op = "none" /\ Gone.h = None /\ Gone.f = None
    BY DEF Gone, Idle
  <2> QED BY <1>0, <2>1, TheChild
<1>3. Places'
  <2>1. Place(t, w)'
    BY <1>0, <1>1, Nothing DEF Place
  <2>2. ASSUME NEW u \in Thread \ {t}
        PROVE  Place(u, at[u])'
    BY <1>2 DEF Place
  <2> QED BY <1>1, <2>1, <2>2 DEF Places
<1>4. Alone'
  BY <1>1, <1>2, Nothing DEF Alone
<1>5. Owned'
  <2>1. \A h \in Handle : nonMtFile[h] # None =>
           /\ h \notin Mt /\ state[h] = "open"
           /\ \A u \in Uses[h] : nonMtFile[h][2] = u \/ at'[u] = Gone
    <3>1. ASSUME NEW h \in Handle, nonMtFile[h] # None, NEW u \in Uses[h]
          PROVE  nonMtFile[h][2] = u \/ at'[u] = Gone
      <4>1. u \in Thread /\ (nonMtFile[h][2] = u \/ at[u] = Gone)
        BY <1>0, <3>1, UsesAssumption DEF Owned
      <4>2. at[t] # Gone
        BY DEF Gone, Idle
      <4> QED BY <1>2, <4>1, <4>2
    <3> QED BY <1>0, <3>1 DEF Owned
  <2>2. \A u \in Thread : at'[u].f = None /\ at'[u].op # "exit"
    BY <1>1, <1>2
  <2> QED BY <1>0, <2>1, <2>2 DEF Owned
<1>6. Fresh'
  <2>1. \A u \in Thread : at'[u].f = None
    BY <1>1, <1>2
  <2>2. \A u \in Thread : ~ Making(u)'
    BY <2>1 DEF Making
  <2>3. ~ inChild' => live = {}
    BY <1>0 DEF Owned
  <2> QED BY <1>0, <2>1, <2>2, <2>3 DEF Fresh
<1>7. Accounted'
  <2>1. \A u \in Thread : at'[u].op # "exit"
    BY <1>1, <1>2
  <2>2. \A h \in Handle : Excused(h)'
    <3>1. \A u \in Thread : at[u].pc # "made"
      BY <1>2 DEF Gone, Idle
    <3> QED BY <1>0, <3>1 DEF Accounted, Excused
  <2> QED BY <1>0, <2>1, <2>2 DEF Accounted
<1>8. Locked'
  BY <1>1, <1>2 DEF Locked
<1>9. Listed'
  <2>1. \A h \in Handle : Present(h)' => Present(h)
    BY <1>0, <1>1, <1>2 DEF Present
  <2> QED BY <1>0, <2>1, HandleAssumption DEF Listed
<1> QED BY <1>3, <1>4, <1>5, <1>6, <1>7, <1>8, <1>9 DEF IInv

\* processForkChild finds all that is open in the map, and closes it.
LEMMA ForkChildInv ==
    ASSUME IInv, NEW t \in Thread, ForkChild(t) \/ ForkChildNext(t) \/ ForkChildDone(t), TypeOK'
    PROVE  IInv'
<1>0. /\ TypeOK /\ Owned /\ Accounted /\ Listed /\ InChild /\ at \in [Thread -> Where]
      /\ at[t].pc \in {"forked", "closing"}
      /\ UNCHANGED <<handleVars, state, handleMap, files, tls, timer, proc, calls>>
  BY DEF IInv, TypeOK, ForkChild, ForkChildNext, ForkChildDone, handleVars
<1>1. /\ inChild /\ \A u \in Thread \ {t} : at[u] = Gone
      /\ at[t].pc # "forked" => \A h \in Handle : state[h] = "open" \/ files[h] # {} => h \in todo
      /\ \A h \in todo : h \in Handle /\ state[h] \in {"open", "closed"}
      /\ at[t].h = None
  BY <1>0, TheChild
<1>2. CASE ForkChild(t)
  <2>1. at' = [at EXCEPT ![t] = Closing] /\ inChild'
    BY <1>1, <1>2 DEF ForkChild, Goto
  <2>2. InChild'
    <3>1. \A h \in Handle : state'[h] = "open" \/ files'[h] # {} => h \in todo'
      <4>0. \A u \in Thread : at[u].pc # "made"
        BY <1>1, <1>2 DEF ForkChild, Gone, Idle
      <4>1. ASSUME NEW h \in Handle, state[h] = "open" \/ files[h] # {}
            PROVE  h \in todo'
        <5>0. state[h] = "open" \/ (state[h] = "closed" /\ files[h] # {})
          BY <1>0, <4>0, <4>1 DEF Accounted, Excused
        <5>1. handleMap[Suffix[h]] = h /\ Suffix[h] \in Name /\ h # None
          BY <1>0, <5>0, Nothing DEF Listed, Name
        <5> QED BY <1>2, <5>1 DEF ForkChild
      <4> QED BY <1>0, <4>1
    <3>2. \A h \in todo' : h # None /\ state'[h] \in {"open", "closed"}
      BY <1>0, <1>2 DEF ForkChild, Listed
    <3>3. at'[t].pc = "closing" /\ at'[t].h = None /\ \A u \in Thread \ {t} : at'[u] = Gone
      BY <1>0, <1>1, <2>1 DEF Closing, Idle
    <3> QED BY <2>1, <3>1, <3>2, <3>3 DEF InChild
  <2> QED BY <1>0, <2>1, <2>2, ChildMoves
<1>3. CASE ForkChildNext(t)
  <2>1. PICK h \in todo, op \in {"close", "delete"} :
            /\ todo' = todo \ {h}
            /\ at' = [at EXCEPT ![t] = Doing("lock", op, h, None)]
    BY <1>3 DEF ForkChildNext, Goto
  <2> DEFINE w == Doing("lock", op, h, None)
  <2>2. w.pc = "lock" /\ w.op \in {"close", "delete"} /\ w.f = None /\ w.h = h
    BY DEF Doing
  <2>2a. at' = [at EXCEPT ![t] = w]
    BY <2>1
  <2> HIDE DEF w
  <2>3. inChild' /\ at' = [at EXCEPT ![t] = w] /\ h \in Handle /\ state[w.h] \in {"open", "closed"}
    BY <1>1, <1>3, <2>1, <2>2, <2>2a DEF ForkChildNext
  <2>4. InChild'
    <3>1. \A u \in Thread \ {t} : at'[u] = Gone
      BY <1>0, <1>1, <2>3
    <3>2. at'[t] = w
      BY <1>0, <2>3
    <3>3. \A g \in Handle : state'[g] = "open" \/ files'[g] # {} => g \in todo' \/ g = h
      BY <1>0, <1>1, <1>3, <2>1 DEF ForkChildNext
    <3>4. \A g \in todo' : state'[g] \in {"open", "closed"} /\ g # h
      BY <1>0, <1>1, <2>1
    <3> QED BY <2>2, <2>3, <3>1, <3>2, <3>3, <3>4 DEF InChild
  <2> QED BY <1>0, <2>2, <2>3, <2>4, ChildMoves
<1>4. CASE ForkChildDone(t)
  <2>1. at[t].pc = "closing" /\ todo = {} /\ todo' = {} /\ ~ inChild' /\ at' = [at EXCEPT ![t] = Idle]
    BY <1>4 DEF ForkChildDone, Goto
  <2>2. \A h \in Handle : files[h] = {}
    BY <1>1, <2>1
  <2>3. InChild'
    <3>1. \A u \in Thread : at'[u].pc \in {"idle", "gone"}
      BY <1>0, <1>1, <2>1 DEF Gone, Idle
    <3> QED BY <2>1, <3>1 DEF InChild
  <2> QED BY <1>0, <2>1, <2>2, <2>3, ChildMoves
<1> QED BY <1>2, <1>3, <1>4

(***************************************************************************)
(* All steps                                                               *)
(***************************************************************************)

\* In the beginning there is no handle.
LEMMA InitIInv ==
    ASSUME Init
    PROVE  IInv
<1>1. /\ \A t \in Thread : /\ at[t] = Idle /\ at[t].pc = "idle" /\ at[t].op = "none"
                           /\ at[t].h = None /\ at[t].f = None
      /\ \A h \in Handle : state[h] = "none" /\ files[h] = {} /\ nonMtFile[h] = None
      /\ \A h \in Handle, t \in Thread : tls[h][t] = None
      /\ \A t \in Thread : timer[t] = None
      /\ \A n \in Name : handleMap[n] = None
      /\ live = {} /\ todo = {} /\ inChild = FALSE
  BY DEF Init, Idle
<1>2. TypeOK
  BY Nothing DEF Init, TypeOK
<1>3. Places
  BY <1>1, Nothing DEF Places, Place
<1>4. Alone /\ Locked /\ InChild
  BY <1>1 DEF Alone, Locked, InChild
<1>5. Owned
  BY <1>1 DEF Owned
<1>6. Fresh
  BY <1>1 DEF Fresh, Making
<1>7. Accounted
  BY <1>1 DEF Accounted, Excused
<1>8. Listed
  <2>1. \A h \in Handle : ~ Present(h)
    BY <1>1 DEF Present
  <2> QED BY <1>1, <2>1, HandleAssumption DEF Listed
<1> QED BY <1>2, <1>3, <1>4, <1>5, <1>6, <1>7, <1>8 DEF IInv

\* Steps that change nothing.
LEMMA Stutter ==
    ASSUME IInv, UNCHANGED vars
    PROVE  IInv'
<1>1. UNCHANGED <<state, handleMap, files, nonMtFile, live, late, tls, mutex, at, timer,
                  deleteOnFork, todo, proc, inChild, calls>>
  BY DEF vars, handleVars, forkVars
<1>2. TypeOK' /\ Places' /\ Alone'
  BY <1>1 DEF IInv, TypeOK, Places, Place, Alone
<1>3. Owned' /\ Fresh'
  BY <1>1 DEF IInv, Owned, Fresh, Making
<1>4. Accounted' /\ Locked'
  BY <1>1 DEF IInv, Accounted, Excused, Refers, Locked
<1>5. Listed' /\ InChild'
  BY <1>1 DEF IInv, Listed, Present, InChild
<1> QED BY <1>2, <1>3, <1>4, <1>5 DEF IInv

\* A process that ends is dead, and stays so.
LEMMA Dying ==
    ASSUME TypeOK, (\E t \in Thread : Dies(t)) \/ (Dead /\ [Next]_vars)
    PROVE  TypeOK' /\ Dead'
<1>1. ASSUME NEW t \in Thread, Dies(t)
      PROVE  TypeOK' /\ Dead'
  <2>1. at' = [u \in Thread |-> Gone] /\ mutex' = t
    BY <1>1 DEF Dies
  <2>2. Dead'
    BY <2>1, Nothing DEF Dead
  <2>3. at' \in [Thread -> Where]
    BY <2>1, Nothing
  <2>4. UNCHANGED <<handleVars, tls, timer, forkVars, calls>>
    BY <1>1 DEF Dies
  <2> QED BY <2>2, <2>3, <2>4 DEF TypeOK, handleVars, forkVars
<1>2. ASSUME Dead, NEW t \in Thread, Step(t) \/ ForkStep(t) \/ Program(t)
      PROVE  FALSE
  <2>1. /\ at[t].pc = "gone" /\ at[t].op = "none" /\ at[t] # Idle
    BY <1>2 DEF Dead, Gone, Idle
  <2>2. ~ Step(t)
    BY <2>1 DEF Step, Free, IsAt, ConstructFail, ConstructFile, Construct, CreateFile, SetSpecific,
                EndTrace, Abort, Close, Delete, ResizeClose, ResizeNew, ResizeOpen, DeleteTwice,
                DeleteTraceFile
  <2>3. ~ ForkStep(t)
    BY <2>1 DEF ForkStep, Free, ForkPrepare, ForkParent, ForkProcess, ForkChild, ForkChildNext,
                ForkChildDone
  <2>4. ~ Program(t)
    BY <2>1 DEF Program, Ask, IsIdle, CanTrace, Initialize, MaybeCreate, StartTrace, EnterBlock,
                Call, LeaveBlock, Exit, Fork
  <2> QED BY <1>2, <2>2, <2>3, <2>4
<1>3. CASE Dead /\ UNCHANGED vars
  BY <1>3 DEF Dead, TypeOK, vars, handleVars, forkVars
<1> QED BY <1>1, <1>2, <1>3 DEF Next

\* Every step keeps the invariant, unless the process dies.
LEMMA NextIInv ==
    ASSUME SuffixesApart, IInv, [Next]_vars, \A t \in Thread : ~ Dies(t)
    PROVE  IInv'
<1>1. ASSUME NEW t \in Thread, Step(t)
      PROVE  IInv'
  <2>1. TypeOK'
    BY <1>1, TypesOfStep DEF IInv
  <2>2. CASE ConstructFail(t)
    BY <2>1, <2>2, ConstructFailInv
  <2>3. CASE ConstructFile(t) \/ CreateFile(t) \/ ResizeNew(t)
    BY <2>1, <2>3, MakingInv
  <2>4. CASE Construct(t) \/ ResizeOpen(t)
    BY <2>1, <2>4, OpeningInv
  <2>5. CASE SetSpecific(t)
    BY <2>1, <2>5, SetSpecificInv
  <2>6. CASE EndTrace(t)
    BY <2>6, TracingInv
  <2>7. CASE Close(t) \/ Delete(t) \/ ResizeClose(t)
    BY <2>1, <2>7, ClosingInv
  <2>8. CASE DeleteTraceFile(t)
    BY <2>1, <2>8, DeleteTraceFileInv
  <2> QED BY <1>1, <2>2, <2>3, <2>4, <2>5, <2>6, <2>7, <2>8 DEF Step, Abort, DeleteTwice
<1>2. ASSUME NEW t \in Thread, ForkStep(t)
      PROVE  IInv'
  <2>1. TypeOK'
    BY <1>2, TypesOfFork DEF IInv
  <2>2. CASE ForkPrepare(t) \/ ForkParent(t)
    BY <2>2, ForkInv
  <2>3. CASE ForkProcess(t)
    BY <2>1, <2>3, ForkProcessInv
  <2>4. CASE ForkChild(t) \/ ForkChildNext(t) \/ ForkChildDone(t)
    BY <2>1, <2>4, ForkChildInv
  <2> QED BY <1>2, <2>2, <2>3, <2>4 DEF ForkStep
<1>3. ASSUME NEW t \in Thread, Program(t)
      PROVE  IInv'
  <2>1. ASSUME NEW h \in Handle, Initialize(t, h)
        PROVE  IInv'
    BY <2>1, InitializeInv
  <2>2. ASSUME NEW h \in Handle, MaybeCreate(t, h)
        PROVE  IInv'
    BY <2>2, MaybeCreateInv
  <2>3. ASSUME NEW h \in Handle, StartTrace(t, h)
        PROVE  IInv'
    BY <2>3, StartTraceInv
  <2>4. ASSUME NEW h \in Handle, EnterBlock(t, h)
        PROVE  IInv'
    BY <2>4, TracingInv
  <2>5. ASSUME NEW h \in Handle, NEW op \in {"close", "delete", "resize"}, Call(t, h, op)
        PROVE  IInv'
    BY <2>5, CallInv
  <2>6. CASE LeaveBlock(t)
    BY <2>6, TracingInv
  <2>7. CASE Exit(t)
    BY <2>7, ExitInv
  <2>8. CASE Fork(t)
    BY <2>8, ForkInv
  <2> QED BY <1>3, <2>1, <2>2, <2>3, <2>4, <2>5, <2>6, <2>7, <2>8 DEF Program
<1> QED BY <1>1, <1>2, <1>3, Stutter DEF Next

\* The invariant of a program that has one handle for every suffix
\* (QuickTrace.h:250-263), whenever it closes them: where every thread is and what
\* it may rely on, whom the trace files belong to, and what the map and the child
\* of a fork know of them.  It may be dead for that.
THEOREM Invariance ==
    ASSUME SuffixesApart
    PROVE  Spec => []HandlesInv
<1>1. Init => HandlesInv
  <2> SUFFICES ASSUME Init
               PROVE  HandlesInv
    OBVIOUS
  <2>1. IInv
    BY InitIInv
  <2> QED BY <2>1 DEF HandlesInv, IInv
<1>2. HandlesInv /\ [Next]_vars => HandlesInv'
  <2> SUFFICES ASSUME HandlesInv, [Next]_vars
               PROVE  HandlesInv'
    OBVIOUS
  <2>1. CASE Dead \/ \E t \in Thread : Dies(t)
    <3>1. TypeOK' /\ Dead'
      BY <2>1, Dying DEF HandlesInv
    <3> QED BY <3>1 DEF HandlesInv
  <2>2. CASE IInv /\ \A t \in Thread : ~ Dies(t)
    <3>1. IInv'
      BY <2>2, NextIInv
    <3> QED BY <3>1 DEF HandlesInv, IInv
  <2> QED BY <2>1, <2>2 DEF HandlesInv
<1> QED BY <1>1, <1>2, PTL DEF Spec

\* A trace file has one writer, the thread that it was made for, in the process
\* it was made in: maybeCreateMtTraceFile, resize and processForkChild (888-1064)
\* never leave a file to two, wherever handles are closed meanwhile.
THEOREM OneWriterHolds ==
    ASSUME SuffixesApart
    PROVE  Spec => []OneWriter
<1>1. ASSUME IInv
      PROVE  OneWriter
  <2>1. ASSUME NEW t \in Thread, NEW f \in live,
               (at[t].pc = "trace" /\ at[t].f = f) \/ (at[t] = Idle /\ timer[t] = f)
        PROVE  f[1] = proc /\ f[2] = t
    <3>1. f # None /\ Owned /\ Fresh /\ Places /\ TypeOK
      BY <1>1, Nothing DEF IInv, TypeOK
    <3>2. at[t] # Gone /\ at[t].pc \notin {"forked", "closing"} /\ at[t].op \notin {"close", "delete"}
      BY <2>1, <3>1 DEF Idle, Gone, Places, Place
    <3>3. ~ inChild
      BY <1>1, <3>2, Outside
    <3>4. f[1] = proc
      BY <3>1, <3>3 DEF Fresh
    <3>5. f[2] = t
      BY <2>1, <3>1 DEF Owned
    <3> QED BY <3>4, <3>5
  <2> QED BY <2>1 DEF OneWriter
<1>2. Dead => OneWriter
  BY DEF Dead, OneWriter, Gone, Idle
<1> QED BY <1>1, <1>2, Invariance, PTL DEF HandlesInv

\* What a trace statement and a profiled block find is open, although no lock is
\* taken and the handle may be closed by others at any time: traceFile() is NULL
\* for a handle that is closed (1128-1150), and thread-local storage of an open
\* handle has no file from before it was closed or the process was forked.
THEOREM FindsOpenFileHolds ==
    ASSUME SuffixesApart
    PROVE  Spec => FindsOpenFile
<1>1. ASSUME HandlesInv, NEW t \in Thread, NEW h \in Handle, StartTrace(t, h) \/ EnterBlock(t, h)
      PROVE  TraceFile(t, h) \in live
  <2>1. CanTrace(t, h)
    BY <1>1 DEF StartTrace, EnterBlock
  <2>2. ~ Dead
    BY <2>1 DEF CanTrace, IsIdle, Dead, Idle, Gone
  <2> QED BY <1>1, <2>1, <2>2, TraceFileIs DEF HandlesInv
<1> DEFINE Finds == \A t \in Thread, h \in Handle :
                       StartTrace(t, h) \/ EnterBlock(t, h) => TraceFile(t, h) \in live
<1>2. HandlesInv => Finds
  BY <1>1
<1>3. Spec => []HandlesInv
  BY Invariance
<1> HIDE DEF Finds
<1>4. Spec => [][Finds]_vars
  BY <1>2, <1>3, PTL
<1> QED BY <1>4 DEF Finds, FindsOpenFile

\* Nothing leaks: whenever nobody is in the middle of a change, the files are
\* those the open handles refer to, and those whose making was overtaken by the
\* closing of the handle, each of which has a thread that will delete it.
THEOREM FilesAccountedHolds ==
    ASSUME SuffixesApart
    PROVE  Spec => []FilesAccounted
<1> DEFINE had(h) == {tls[h][t] : t \in Thread} \cup
                     {at[t].f : t \in {u \in Thread : IsAt(u, "lock", "exit") /\ at[u].h = h}}
<1>1. ASSUME IInv, mutex = None, ~ inChild, \A t \in Thread : at[t].op # "resize", NEW h \in Handle
      PROVE  CASE state[h] = "open"   -> files[h] = ({nonMtFile[h]} \cup had(h)) \ {None}
               [] state[h] = "closed" -> files[h] \subseteq late \cap had(h)
               [] OTHER               -> files[h] = {}
  <2>0. TypeOK /\ Places /\ Owned /\ Accounted /\ Locked /\ Excused(h)
    BY <1>1 DEF IInv, Accounted
  <2>1. \A t \in Thread : at[t].pc # "made"
    BY <1>1, <2>0, Nothing DEF Locked
  <2>2. \A u \in Thread : at[u].op = "exit" => at[u].pc = "lock"
    BY <2>0 DEF Places, Place
  <2>3. ASSUME NEW f \in files[h]
        PROVE  f # None /\ (f = nonMtFile[h] \/ f \in had(h))
    <3>1. f \in File /\ Refers(h, f)
      BY <1>1, <2>0 DEF TypeOK, Accounted
    <3>2. CASE \E t \in Thread : at[t].h = h /\ at[t].f = f /\ at[t].op = "exit"
      BY <2>2, <3>1, <3>2, Nothing DEF IsAt
    <3> QED BY <2>1, <3>1, <3>2, Nothing DEF Refers
  <2>4. CASE state[h] = "open"
    <3>1. nonMtFile[h] # None => nonMtFile[h] \in files[h]
      BY <2>0, <2>4 DEF Accounted
    <3>2. \A f \in had(h) : f # None => f \in files[h]
      BY <2>0, <2>4 DEF Accounted, IsAt
    <3> HIDE DEF had
    <3>3. files[h] = ({nonMtFile[h]} \cup had(h)) \ {None}
      BY <2>3, <3>1, <3>2
    <3> QED BY <2>4, <3>3
  <2>5. CASE state[h] = "closed"
    <3>1. nonMtFile[h] = None
      BY <2>0, <2>5 DEF Owned
    <3>2. files[h] \subseteq late
      BY <2>0, <2>1, <2>5 DEF Excused
    <3> HIDE DEF had
    <3>3. files[h] \subseteq late \cap had(h)
      BY <2>3, <3>1, <3>2
    <3> QED BY <2>5, <3>3
  <2>6. CASE state[h] \notin {"open", "closed"}
    BY <2>0, <2>1, <2>6 DEF Excused
  <2> QED BY <2>4, <2>5, <2>6
<1>2. ASSUME IInv
      PROVE  FilesAccounted
  <2>1. live = UNION {files[h] : h \in Handle}
    BY <1>2 DEF IInv, Owned
  <2> QED BY <1>1, <1>2, <2>1 DEF FilesAccounted
<1>3. Dead => FilesAccounted
  BY DEF Dead, FilesAccounted
<1> QED BY <1>2, <1>3, Invariance, PTL DEF HandlesInv

\* processForkChild returns with every handle closed or deleted that the parent
\* had: those that are open are in the map, under suffixes of their own.
THEOREM ForkClosesHolds ==
    ASSUME SuffixesApart
    PROVE  Spec => ForkCloses
<1>1. ASSUME HandlesInv, NEW t \in Thread, ForkChildDone(t), NEW h \in Handle
      PROVE  state[h] # "open" /\ files[h] = {}
  <2>1. at[t].pc = "closing" /\ todo = {}
    BY <1>1 DEF ForkChildDone
  <2>2. IInv
    BY <1>1, <2>1 DEF HandlesInv, Dead, Gone, Idle
  <2> QED BY <1>1, <2>1, <2>2, TheChild
<1> DEFINE AllClosed == \A t \in Thread : ForkChildDone(t) =>
                         \A h \in Handle : state[h] # "open" /\ files[h] = {}
<1>2. HandlesInv => AllClosed
  BY <1>1
<1>3. Spec => []HandlesInv
  BY Invariance
<1> HIDE DEF AllClosed
<1>4. Spec => [][AllClosed]_vars
  BY <1>2, <1>3, PTL
<1> QED BY <1>4 DEF AllClosed, ForkCloses

(***************************************************************************)
(* The inductive invariant behind SelfExact and SelfWithinTotal.           *)
(***************************************************************************)

\* threadSubFuncStack has an element per open self timer, and the bottom one;
\* the time of an open self timer, until the next one started in it or until
\* now, is its own ticks and what its element says of the timers that have
\* ended in it.
Accounts ==
    /\ Len(subStack) = Len(starts) + 1
    /\ Len(ticks) = Len(starts)
    /\ \A i \in 1 .. Len(starts) - 1 :
          starts[i + 1] = starts[i] + ticks[i] + subStack[i + 1]
    /\ starts # <<>> => clock = Back(starts) + Back(ticks) + Back(subStack)

\* The self timers among the open blocks are those of starts, in order.
Nested ==
    /\ blocks = <<>> => starts = <<>>
    /\ blocks # <<>> => /\ blocks[1].level = Weight(blocks[1].id)
                       /\ Back(blocks).level = Len(starts)
    /\ \A i \in 1 .. Len(blocks) :
          /\ blocks[i].tsc <= clock
          /\ blocks[i].level >= Weight(blocks[i].id)
          /\ blocks[i].level <= Len(starts)
          /\ Self(blocks[i].id) => starts[blocks[i].level] = blocks[i].tsc
    /\ \A i \in 1 .. Len(blocks) - 1 :
          blocks[i + 1].level = blocks[i].level + Weight(blocks[i + 1].id)
    /\ \A i, j \in 1 .. Len(blocks) :
          i < j => blocks[i].level + Weight(blocks[j].id) <= blocks[j].level

TimersIInv == TimersTypeOK /\ Accounts /\ Nested /\ SelfExact /\ SelfWithinTotal


\* Appending keeps what was in a sequence.
LEMMA AppendFacts ==
    ASSUME NEW S, NEW s \in Seq(S), NEW e \in S
    PROVE  /\ Append(s, e) \in Seq(S)
           /\ Len(Append(s, e)) = Len(s) + 1
           /\ Append(s, e)[Len(s) + 1] = e
           /\ \A i \in 1 .. Len(s) : Append(s, e)[i] = s[i]
           /\ Len(s) \in Nat
OBVIOUS

\* Taking the last element off a sequence keeps the others.
LEMMA PopFacts ==
    ASSUME NEW S, NEW s \in Seq(S), s # <<>>
    PROVE  /\ Pop(s) \in Seq(S)
           /\ Len(Pop(s)) = Len(s) - 1
           /\ \A i \in 1 .. Len(s) - 1 : Pop(s)[i] = s[i]
           /\ Len(s) \in Nat /\ Len(s) >= 1
           /\ Back(s) = s[Len(s)] /\ Back(s) \in S
<1> DEFINE n == Len(s) - 1
<1>1. Len(s) \in Nat /\ Len(s) >= 1
  OBVIOUS
<1>2. n \in Nat /\ \A i \in 1 .. n : s[i] \in S
  BY <1>1
<1>3. Pop(s) = SubSeq(s, 1, n)
  BY DEF Pop
<1>4. Back(s) = s[Len(s)] /\ Back(s) \in S
  BY <1>1 DEF Back
<1> HIDE DEF n
<1>5. /\ Pop(s) \in Seq(S)
      /\ Len(Pop(s)) = IF 1 <= n THEN n - 1 + 1 ELSE 0
      /\ \A i \in 1 .. n - 1 + 1 : Pop(s)[i] = s[1 + i - 1]
  BY <1>2, <1>3, SubSeqProperties
<1>6. n - 1 + 1 = n /\ (~ 1 <= n => n = 0) /\ \A i \in 1 .. n : 1 + i - 1 = i
  BY <1>2
<1>7. Len(Pop(s)) = n
  BY <1>5, <1>6, Zenon
<1>8. \A i \in 1 .. n : Pop(s)[i] = s[i]
  BY <1>5, <1>6, Zenon
<1> QED BY <1>1, <1>4, <1>5, <1>7, <1>8 DEF n

\* Adding to the last element changes it and no other.
LEMMA AddToBackFacts ==
    ASSUME NEW s \in Seq(Nat), s # <<>>, NEW n \in Nat
    PROVE  /\ AddToBack(s, n) \in Seq(Nat)
           /\ Len(AddToBack(s, n)) = Len(s)
           /\ AddToBack(s, n)[Len(s)] = s[Len(s)] + n
           /\ \A i \in 1 .. Len(s) - 1 : AddToBack(s, n)[i] = s[i]
BY DEF AddToBack

\* The initial state.
LEMMA TimersInitIInv == TimersInit => TimersIInv
<1> SUFFICES ASSUME TimersInit PROVE TimersIInv
  OBVIOUS
<1> USE DEF TimersInit
<1>1. TimersTypeOK
  BY DEF TimersTypeOK
<1>2. Accounts
  BY DEF Accounts
<1>3. Nested
  BY DEF Nested
<1>4. SelfExact /\ SelfWithinTotal
  BY DEF SelfExact, SelfWithinTotal
<1> QED BY <1>1, <1>2, <1>3, <1>4 DEF TimersIInv

\* What the invariant says of the sequences.
Shape ==
    /\ clock \in Nat
    /\ blocks \in Seq(Block) /\ Len(blocks) \in Nat
    /\ subStack \in Seq(Nat) /\ Len(subStack) = Len(starts) + 1 /\ subStack # <<>>
    /\ starts \in Seq(Nat) /\ Len(starts) \in Nat
    /\ ticks \in Seq(Nat) /\ Len(ticks) = Len(starts)
    /\ \A i \in 1 .. Len(blocks) : /\ blocks[i] \in Block /\ blocks[i].id \in Id
                                   /\ blocks[i].tsc \in Nat /\ blocks[i].level \in Nat
    /\ \A i \in 1 .. Len(starts) : starts[i] \in Nat /\ ticks[i] \in Nat
    /\ \A i \in 1 .. Len(subStack) : subStack[i] \in Nat

\* The stacks have the shape that the steps rely on.
LEMMA ShapeOf == TimersTypeOK /\ Accounts => Shape
<1> SUFFICES ASSUME TimersTypeOK, Accounts PROVE Shape
  OBVIOUS
<1>1. \A i \in 1 .. Len(blocks) : blocks[i] \in Block
  BY DEF TimersTypeOK
<1>2. \A e \in Block : e.id \in Id /\ e.tsc \in Nat /\ e.level \in Nat
  BY DEF Block
<1>3. \A i \in 1 .. Len(starts) : starts[i] \in Nat /\ ticks[i] \in Nat
  BY SMTT(30) DEF TimersTypeOK, Accounts
<1>4. \A i \in 1 .. Len(subStack) : subStack[i] \in Nat
  BY DEF TimersTypeOK
<1> QED BY <1>1, <1>2, <1>3, <1>4 DEF TimersTypeOK, Accounts, Shape

\* A block is on the stack of self timers, or not.
LEMMA WeightType == \A id : Weight(id) \in {0, 1} /\ (Self(id) <=> Weight(id) = 1)
BY DEF Weight

\* Time passes.
LEMMA TickStep == TimersIInv /\ Tick => TimersIInv'
<1> SUFFICES ASSUME TimersIInv, Tick PROVE TimersIInv'
  OBVIOUS
<1>0. TimersTypeOK /\ Accounts /\ Nested /\ SelfExact /\ SelfWithinTotal /\ Shape
  BY ShapeOf DEF TimersIInv
<1>1. /\ clock' = clock + 1 /\ blocks' = blocks /\ subStack' = subStack
      /\ starts' = starts /\ own' = own /\ entered' = entered
      /\ tscCount' = tscCount /\ tscSelf' = tscSelf
      /\ count' = count /\ lastTsc' = lastTsc
  BY DEF Tick, counters
<1>2. /\ ticks' \in Seq(Nat) /\ Len(ticks') = Len(ticks)
      /\ \A i \in 1 .. Len(ticks) - 1 : ticks'[i] = ticks[i]
      /\ ticks # <<>> => ticks'[Len(ticks)] = ticks[Len(ticks)] + 1
  <2>1. CASE ticks = <<>>
    BY <1>0, <2>1 DEF Tick, Shape
  <2>2. CASE ticks # <<>>
    <3>1. ticks' = AddToBack(ticks, 1)
      BY <2>2 DEF Tick
    <3> QED BY <1>0, <2>2, <3>1, AddToBackFacts DEF Shape
  <2> QED BY <2>1, <2>2
<1>3. TimersTypeOK'
  BY <1>0, <1>1, <1>2 DEF TimersTypeOK
<1>4. Accounts'
  <2>1. Len(subStack') = Len(starts') + 1 /\ Len(ticks') = Len(starts')
    BY <1>0, <1>1, <1>2 DEF Accounts
  <2>2. \A i \in 1 .. Len(starts') - 1 :
          starts'[i + 1] = starts'[i] + ticks'[i] + subStack'[i + 1]
    BY <1>0, <1>1, <1>2 DEF Accounts, Shape
  <2>3. starts' # <<>> => clock' = Back(starts') + Back(ticks') + Back(subStack')
    <3> SUFFICES ASSUME starts # <<>>
                 PROVE  clock + 1 = Back(starts) + Back(ticks') + Back(subStack)
      BY <1>1
    <3>1. Len(starts) >= 1 /\ ticks # <<>> /\ Len(ticks) = Len(starts)
      BY <1>0 DEF Shape
    <3>2. Back(ticks') = Back(ticks) + 1
      BY <3>1, <1>2 DEF Back
    <3>3. Back(starts) \in Nat /\ Back(ticks) \in Nat /\ Back(subStack) \in Nat
      BY <3>1, <1>0 DEF Shape, Back
    <3>4. clock = Back(starts) + Back(ticks) + Back(subStack)
      BY <1>0 DEF Accounts
    <3> QED BY <3>2, <3>3, <3>4
  <2> QED BY <2>1, <2>2, <2>3 DEF Accounts
<1>5. Nested'
  <2>1. \A i \in 1 .. Len(blocks) : blocks[i].tsc <= clock'
    BY SMTT(30), <1>0, <1>1 DEF Nested, Shape
  <2> QED BY <2>1, <1>0, <1>1 DEF Nested, Back, Self, Weight
<1>6. SelfExact' /\ SelfWithinTotal'
  BY <1>0, <1>1 DEF SelfExact, SelfWithinTotal
<1> QED BY <1>3, <1>4, <1>5, <1>6 DEF TimersIInv

\* A block is entered.
LEMMA EnterStep == ASSUME TimersIInv, NEW id \in Id, Enter(id) PROVE TimersIInv'
<1>0. TimersTypeOK /\ Accounts /\ Nested /\ SelfExact /\ SelfWithinTotal /\ Shape
  BY ShapeOf DEF TimersIInv
<1> DEFINE b == [id |-> id, tsc |-> clock, level |-> Len(starts) + Weight(id)]
<1>1. /\ clock' = clock /\ tscCount' = tscCount /\ tscSelf' = tscSelf /\ own' = own
      /\ blocks' = Append(blocks, b) /\ entered' = entered + 1
      /\ Self(id) => /\ subStack' = Append(subStack, 0)
                     /\ starts' = Append(starts, clock)
                     /\ ticks' = Append(ticks, 0)
      /\ ~ Self(id) => subStack' = subStack /\ starts' = starts /\ ticks' = ticks
  BY DEF Enter
<1>2. b \in Block /\ b.id = id /\ b.tsc = clock /\ b.level = Len(starts) + Weight(id)
  <2>1. clock \in Nat /\ Len(starts) + Weight(id) \in Nat
    <3>1. Weight(id) \in Nat
      BY DEF Weight
    <3> QED BY <3>1, <1>0 DEF Shape
  <2> QED BY <2>1 DEF Block
<1> HIDE DEF b
<1>3. /\ blocks' \in Seq(Block) /\ Len(blocks') = Len(blocks) + 1
      /\ blocks'[Len(blocks) + 1] = b
      /\ \A i \in 1 .. Len(blocks) : blocks'[i] = blocks[i]
      /\ Len(blocks) \in Nat
  <2>1. blocks \in Seq(Block)
    BY <1>0 DEF Shape
  <2> QED BY <1>1, <1>2, <2>1, AppendFacts
<1>4. /\ starts' \in Seq(Nat) /\ Len(starts') = Len(starts) + Weight(id)
      /\ ticks' \in Seq(Nat) /\ Len(ticks') = Len(ticks) + Weight(id)
      /\ subStack' \in Seq(Nat) /\ Len(subStack') = Len(subStack) + Weight(id)
      /\ \A i \in 1 .. Len(starts) : starts'[i] = starts[i] /\ ticks'[i] = ticks[i]
      /\ \A i \in 1 .. Len(subStack) : subStack'[i] = subStack[i]
      /\ Self(id) => /\ starts'[Len(starts) + 1] = clock
                     /\ ticks'[Len(starts) + 1] = 0
                     /\ subStack'[Len(subStack) + 1] = 0
  <2>1. CASE Self(id)
    <3>1. /\ subStack' = Append(subStack, 0) /\ starts' = Append(starts, clock)
          /\ ticks' = Append(ticks, 0) /\ Weight(id) = 1
      BY <2>1, <1>1 DEF Weight
    <3> QED BY <3>1, <2>1, <1>0, AppendFacts DEF Shape
  <2>2. CASE ~ Self(id)
    BY <2>2, <1>0, <1>1 DEF Weight, Shape
  <2> QED BY <2>1, <2>2
<1>5. TimersTypeOK'
  <2>1. count' \in [Id -> Nat]
    <3>1. count \in [Id -> Nat]
      BY <1>0 DEF TimersTypeOK
    <3>2. count' = count \/ count' = [count EXCEPT ![id] = @ + 1]
      BY DEF Enter
    <3> QED BY <3>1, <3>2
  <2>2. lastTsc' \in [Id -> Nat]
    <3>1. lastTsc \in [Id -> Nat] /\ clock \in Nat
      BY <1>0 DEF TimersTypeOK
    <3>2. lastTsc' = lastTsc \/ lastTsc' = [lastTsc EXCEPT ![id] = clock]
      BY DEF Enter
    <3> QED BY <3>1, <3>2
  <2> QED BY SMTT(30), <2>1, <2>2, <1>0, <1>1, <1>3, <1>4 DEF TimersTypeOK
<1>6. Accounts'
  <2>1. Len(subStack') = Len(starts') + 1 /\ Len(ticks') = Len(starts')
    BY <1>0, <1>4, WeightType DEF Shape
  <2>2. ASSUME NEW i \in 1 .. Len(starts') - 1
        PROVE  starts'[i + 1] = starts'[i] + ticks'[i] + subStack'[i + 1]
    <3>0. /\ i \in Nat /\ i >= 1 /\ i <= Len(starts)
          /\ i = Len(starts) => Self(id)
          /\ Len(starts) \in Nat /\ Len(subStack) = Len(starts) + 1
      <4>1. Len(starts) \in Nat /\ Len(starts') = Len(starts) + Weight(id)
        BY <1>0, <1>4 DEF Shape
      <4> QED BY <4>1, <1>0, WeightType DEF Shape
    <3>1. CASE i < Len(starts)
      <4>1. i \in 1 .. Len(starts) - 1 /\ i + 1 \in 1 .. Len(starts)
            /\ i + 1 \in 1 .. Len(subStack) /\ i \in 1 .. Len(starts)
        BY <3>0, <3>1
      <4>2. starts[i + 1] = starts[i] + ticks[i] + subStack[i + 1]
        BY <4>1, <1>0 DEF Accounts
      <4> QED BY <4>1, <4>2, <1>4
    <3>2. CASE i = Len(starts)
      <4>1. Self(id) /\ starts # <<>>
        BY <3>0, <3>2
      <4>2. clock = starts[i] + ticks[i] + subStack[i + 1]
        BY <4>1, <3>0, <3>2, <1>0 DEF Accounts, Back, Shape
      <4>3. starts'[i + 1] = clock
        BY <4>1, <3>2, <1>4
      <4>4. i \in 1 .. Len(starts) /\ i + 1 \in 1 .. Len(subStack)
        BY <3>0, <3>2
      <4>5. subStack'[i + 1] = subStack[i + 1] /\ starts'[i] = starts[i] /\ ticks'[i] = ticks[i]
        BY <4>4, <1>4
      <4> QED BY <4>2, <4>3, <4>5
    <3> QED BY <3>0, <3>1, <3>2
  <2>3. starts' # <<>> => clock' = Back(starts') + Back(ticks') + Back(subStack')
    <3>1. CASE Self(id)
      <4>1. Back(starts') = clock /\ Back(ticks') = 0 /\ Back(subStack') = 0
        BY <3>1, <1>0, <1>4 DEF Weight, Back, Shape
      <4> QED BY <4>1, <1>0, <1>1 DEF Shape
    <3>2. CASE ~ Self(id)
      BY <3>2, <1>0, <1>1 DEF Accounts
    <3> QED BY <3>1, <3>2
  <2> QED BY <2>1, <2>2, <2>3 DEF Accounts
<1>7. Nested'
  <2>1. /\ \A i \in 1 .. Len(blocks) : /\ blocks[i].id \in Id
                                      /\ blocks[i].tsc \in Nat /\ blocks[i].level \in Nat
        /\ Len(starts) \in Nat /\ clock \in Nat
    BY <1>0 DEF Shape
  <2>2. blocks = <<>> <=> Len(blocks) = 0
    BY <1>0 DEF Shape
  <2>3. starts = <<>> <=> Len(starts) = 0
    BY <1>0 DEF Shape
  <2>4. blocks' # <<>> /\ Back(blocks)'.level = Len(starts')
    BY <1>2, <1>3, <1>4 DEF Back
  <2>5. blocks'[1].level = Weight(blocks'[1].id)
    <3>1. CASE blocks = <<>>
      BY <3>1, <2>2, <2>3, <1>0, <1>2, <1>3, WeightType DEF Nested
    <3>2. CASE blocks # <<>>
      <4>1. blocks'[1] = blocks[1]
        BY <3>2, <2>2, <1>3
      <4> QED BY <3>2, <4>1, <1>0 DEF Nested
    <3> QED BY <3>1, <3>2
  <2>6. ASSUME NEW i \in 1 .. Len(blocks')
        PROVE  /\ blocks'[i].tsc <= clock'
               /\ blocks'[i].level >= Weight(blocks'[i].id)
               /\ blocks'[i].level <= Len(starts')
               /\ Self(blocks'[i].id) => starts'[blocks'[i].level] = blocks'[i].tsc
    <3>1. CASE i \in 1 .. Len(blocks)
      <4>1. /\ blocks[i].tsc <= clock
            /\ blocks[i].level >= Weight(blocks[i].id)
            /\ blocks[i].level <= Len(starts)
            /\ Self(blocks[i].id) => starts[blocks[i].level] = blocks[i].tsc
        BY <3>1, <1>0 DEF Nested
      <4>2. blocks'[i] = blocks[i]
        BY <3>1, <1>3
      <4>3. Self(blocks[i].id) => blocks[i].level \in 1 .. Len(starts)
        BY <3>1, <4>1, <2>1, WeightType
      <4>4. Self(blocks[i].id) => starts'[blocks[i].level] = blocks[i].tsc
        BY <4>1, <4>3, <1>4
      <4>5. blocks[i].level <= Len(starts')
        <5>1. Weight(id) \in Nat
          BY DEF Weight
        <5>2. blocks[i].level \in Nat /\ Len(starts) \in Nat /\ blocks[i].level <= Len(starts)
          BY <4>1, <3>1, <2>1
        <5>3. Len(starts') = Len(starts) + Weight(id)
          BY <1>4
        <5>4. PICK l \in Nat, m \in Nat, w \in Nat : l = blocks[i].level /\ m = Len(starts) /\ w = Weight(id)
          BY <5>1, <5>2
        <5>5. l <= m + w
          BY <5>2, <5>4
        <5> QED BY <5>3, <5>4, <5>5
      <4> QED BY <4>1, <4>2, <4>4, <4>5, <1>1
    <3>2. CASE i = Len(blocks) + 1
      <4>1. blocks'[i].id = id /\ blocks'[i].tsc = clock /\ blocks'[i].level = Len(starts')
        BY <3>2, <1>2, <1>3, <1>4
      <4>2. CASE Self(id)
        <5>1. Weight(id) = 1
          BY <4>2 DEF Weight
        <5>2. Len(starts') = Len(starts) + 1 /\ starts'[Len(starts) + 1] = clock
          BY <5>1, <4>2, <1>4
        <5> QED BY <5>1, <5>2, <4>1, <2>1, <1>1
      <4>3. CASE ~ Self(id)
        <5>1. Weight(id) = 0
          BY <4>3 DEF Weight
        <5>2. Len(starts') = Len(starts)
          BY <5>1, <2>1, <1>4
        <5>3. clock <= clock' /\ Len(starts) >= 0 /\ Len(starts) <= Len(starts')
          BY <5>2, <2>1, <1>1
        <5>4. Weight(blocks'[i].id) = 0 /\ ~ Self(blocks'[i].id)
          BY <5>1, <4>1, <4>3
        <5> QED BY <5>2, <5>3, <5>4, <4>1
      <4> QED BY <4>2, <4>3
    <3> QED BY <3>1, <3>2, <1>3
  <2>7. ASSUME NEW i \in 1 .. Len(blocks') - 1
        PROVE  blocks'[i + 1].level = blocks'[i].level + Weight(blocks'[i + 1].id)
    <3>1. i \in 1 .. Len(blocks) /\ blocks'[i] = blocks[i]
      BY <1>3
    <3>2. CASE i \in 1 .. Len(blocks) - 1
      <4>1. i + 1 \in 1 .. Len(blocks)
        BY <3>2, <1>3
      <4> QED BY <4>1, <3>1, <3>2, <1>0, <1>3 DEF Nested
    <3>3. CASE i = Len(blocks)
      <4>1. blocks # <<>> /\ Back(blocks).level = Len(starts)
        BY <3>1, <2>2, <1>0 DEF Nested
      <4> QED BY <4>1, <3>1, <3>3, <1>2, <1>3 DEF Back
    <3> QED BY <3>1, <3>2, <3>3, <1>3
  <2>8. ASSUME NEW i \in 1 .. Len(blocks'), NEW j \in 1 .. Len(blocks'), i < j
        PROVE  blocks'[i].level + Weight(blocks'[j].id) <= blocks'[j].level
    <3>1. i \in 1 .. Len(blocks) /\ blocks'[i] = blocks[i]
      BY <2>8, <1>3
    <3>2. CASE j \in 1 .. Len(blocks)
      BY <2>8, <3>1, <3>2, <1>0, <1>3 DEF Nested
    <3>3. CASE j = Len(blocks) + 1
      <4>1. blocks[i].level <= Len(starts) /\ blocks[i].level \in Nat
        BY <3>1, <2>1, <1>0 DEF Nested
      <4> QED BY <4>1, <3>1, <3>3, <2>1, <1>2, <1>3, WeightType
    <3> QED BY <3>2, <3>3, <1>3
  <2> QED BY <2>4, <2>5, <2>6, <2>7, <2>8 DEF Nested, Self, Weight, Back
<1>8. SelfExact' /\ SelfWithinTotal'
  BY <1>0, <1>1 DEF SelfExact, SelfWithinTotal
<1> QED BY <1>5, <1>6, <1>7, <1>8 DEF TimersIInv

\* A block is left.
LEMMA LeaveStep == TimersIInv /\ Leave => TimersIInv'
<1> SUFFICES ASSUME TimersIInv, Leave PROVE TimersIInv'
  OBVIOUS
<1>0. TimersTypeOK /\ Accounts /\ Nested /\ SelfExact /\ SelfWithinTotal /\ Shape
  BY ShapeOf DEF TimersIInv
<1> DEFINE b == Back(blocks)
           n == Len(blocks)
           k == Len(starts)
           delta == clock - b.tsc
<1>1. /\ blocks # <<>> /\ blocks' = Pop(blocks)
      /\ clock' = clock /\ entered' = entered
      /\ tscCount' = [tscCount EXCEPT ![b.id] = @ + delta]
      /\ count' = count \/ count' = [count EXCEPT ![b.id] = @ + 1]
      /\ lastTsc' = lastTsc \/ lastTsc' = [lastTsc EXCEPT ![b.id] = clock]
      /\ \/ Self(b.id) /\ LeaveSelf(b.id, delta)
         \/ ~ Self(b.id) /\ UNCHANGED <<tscSelf, subStack, starts, ticks, own>>
  BY DEF Leave
<1>2. /\ n \in Nat /\ n >= 1 /\ b = blocks[n]
      /\ b.id \in Id /\ b.tsc \in Nat /\ b.level \in Nat
      /\ k \in Nat /\ clock \in Nat
  BY <1>0, <1>1 DEF Shape, Back
<1>3. /\ b.level = k /\ b.tsc <= clock /\ delta \in Nat
      /\ Self(b.id) => k >= 1 /\ starts[k] = b.tsc
  <2>1. b.level = k /\ b.tsc <= clock /\ b.level >= Weight(b.id)
        /\ (Self(b.id) => starts[b.level] = b.tsc)
    BY <1>0, <1>1, <1>2 DEF Nested
  <2> QED BY <2>1, <1>2, WeightType
<1>4. /\ blocks' \in Seq(Block) /\ Len(blocks') = n - 1
      /\ \A i \in 1 .. n - 1 : blocks'[i] = blocks[i]
  BY <1>0, <1>1, PopFacts DEF Shape
<1> HIDE DEF b, n, k, delta
<1>5. ASSUME Self(b.id)
      PROVE  /\ starts' \in Seq(Nat) /\ Len(starts') = k - 1
             /\ ticks' \in Seq(Nat) /\ Len(ticks') = k - 1
             /\ subStack' \in Seq(Nat) /\ Len(subStack') = k
             /\ \A i \in 1 .. k - 1 : /\ starts'[i] = starts[i] /\ ticks'[i] = ticks[i]
                                      /\ subStack'[i] = subStack[i]
             /\ subStack'[k] = subStack[k] + delta
             /\ delta = ticks[k] + subStack[k + 1]
             /\ ticks[k] \in Nat /\ subStack[k + 1] \in Nat
             /\ tscSelf' = [tscSelf EXCEPT ![b.id] = @ + delta - subStack[k + 1]]
             /\ own' = [own EXCEPT ![b.id] = @ + ticks[k]]
  <2>1. /\ tscSelf' = [tscSelf EXCEPT ![b.id] = @ + delta - Back(subStack)]
        /\ subStack' = AddToBack(Pop(subStack), delta)
        /\ starts' = Pop(starts) /\ ticks' = Pop(ticks)
        /\ own' = [own EXCEPT ![b.id] = @ + Back(ticks)]
    BY <1>1, <1>5 DEF LeaveSelf
  <2>2. /\ starts \in Seq(Nat) /\ starts # <<>> /\ k >= 1 /\ k = Len(starts)
        /\ ticks \in Seq(Nat) /\ ticks # <<>> /\ k = Len(ticks)
        /\ subStack \in Seq(Nat) /\ subStack # <<>> /\ Len(subStack) = k + 1
    BY <1>0, <1>3, <1>5 DEF Shape, k
  <2>3. /\ starts' \in Seq(Nat) /\ Len(starts') = k - 1
        /\ \A i \in 1 .. k - 1 : starts'[i] = starts[i]
        /\ Back(starts) = starts[k] /\ starts[k] \in Nat
    <3>1. /\ Pop(starts) \in Seq(Nat) /\ Len(Pop(starts)) = Len(starts) - 1
          /\ \A i \in 1 .. Len(starts) - 1 : Pop(starts)[i] = starts[i]
          /\ Back(starts) = starts[Len(starts)] /\ Back(starts) \in Nat
      BY <2>2, PopFacts
    <3>2. Len(starts) = k /\ starts' = Pop(starts)
      BY <2>1, <2>2
    <3> QED BY <3>1, <3>2
  <2>4. /\ ticks' \in Seq(Nat) /\ Len(ticks') = k - 1
        /\ \A i \in 1 .. k - 1 : ticks'[i] = ticks[i]
        /\ Back(ticks) = ticks[k] /\ ticks[k] \in Nat
    <3>1. /\ Pop(ticks) \in Seq(Nat) /\ Len(Pop(ticks)) = Len(ticks) - 1
          /\ \A i \in 1 .. Len(ticks) - 1 : Pop(ticks)[i] = ticks[i]
          /\ Back(ticks) = ticks[Len(ticks)] /\ Back(ticks) \in Nat
      BY <2>2, PopFacts
    <3>2. Len(ticks) = k /\ ticks' = Pop(ticks)
      BY <2>1, <2>2
    <3> QED BY <3>1, <3>2
  <2>5. /\ Pop(subStack) \in Seq(Nat) /\ Len(Pop(subStack)) = k
        /\ \A i \in 1 .. k : Pop(subStack)[i] = subStack[i]
        /\ Back(subStack) = subStack[k + 1] /\ subStack[k + 1] \in Nat
    <3>1. /\ Pop(subStack) \in Seq(Nat) /\ Len(Pop(subStack)) = Len(subStack) - 1
          /\ \A i \in 1 .. Len(subStack) - 1 : Pop(subStack)[i] = subStack[i]
          /\ Back(subStack) = subStack[Len(subStack)] /\ Back(subStack) \in Nat
      BY <2>2, PopFacts
    <3>2. Len(subStack) = k + 1 /\ Len(subStack) - 1 = k
      BY <2>2, <1>2
    <3> QED BY <3>1, <3>2
  <2>6. Pop(subStack) # <<>>
    BY <2>2, <2>5
  <2>7. /\ subStack' \in Seq(Nat) /\ Len(subStack') = k
        /\ subStack'[k] = Pop(subStack)[k] + delta
        /\ \A i \in 1 .. k - 1 : subStack'[i] = Pop(subStack)[i]
    <3>1. /\ AddToBack(Pop(subStack), delta) \in Seq(Nat)
          /\ Len(AddToBack(Pop(subStack), delta)) = Len(Pop(subStack))
          /\ AddToBack(Pop(subStack), delta)[Len(Pop(subStack))]
                = Pop(subStack)[Len(Pop(subStack))] + delta
          /\ \A i \in 1 .. Len(Pop(subStack)) - 1 :
                AddToBack(Pop(subStack), delta)[i] = Pop(subStack)[i]
      BY <2>5, <2>6, <1>3, AddToBackFacts
    <3>2. Len(Pop(subStack)) = k /\ subStack' = AddToBack(Pop(subStack), delta)
      BY <2>1, <2>5
    <3> QED BY <3>1, <3>2, Zenon
  <2>8. /\ subStack'[k] = subStack[k] + delta
        /\ \A i \in 1 .. k - 1 : subStack'[i] = subStack[i]
    <3>1. k \in 1 .. k /\ \A i \in 1 .. k - 1 : i \in 1 .. k
      BY <2>2, <1>2
    <3> QED BY <3>1, <2>5, <2>7
  <2>9. clock = starts[k] + ticks[k] + subStack[k + 1]
    BY <2>2, <2>3, <2>4, <2>5, <1>0 DEF Accounts
  <2>10. delta = ticks[k] + subStack[k + 1]
    <3>1. delta = clock - starts[k]
      BY <1>3, <1>5 DEF delta
    <3>2. starts[k] \in Nat /\ ticks[k] \in Nat /\ subStack[k + 1] \in Nat
      BY <2>3, <2>4, <2>5
    <3> QED BY <3>1, <3>2, <2>9
  <2> QED BY <2>1, <2>3, <2>4, <2>5, <2>7, <2>8, <2>10
<1>6. ASSUME ~ Self(b.id)
      PROVE  /\ tscSelf' = tscSelf /\ subStack' = subStack /\ starts' = starts
             /\ ticks' = ticks /\ own' = own
  BY <1>1, <1>6
<1>7. SelfExact' /\ SelfWithinTotal' /\ tscCount' \in [Id -> Nat]
      /\ tscSelf' \in [Id -> Int] /\ own' \in [Id -> Nat]
  <2>1. /\ tscCount \in [Id -> Nat] /\ tscSelf \in [Id -> Int] /\ own \in [Id -> Nat]
        /\ tscSelf = own /\ \A id \in Id : 0 <= tscSelf[id] /\ tscSelf[id] <= tscCount[id]
    BY <1>0 DEF TimersTypeOK, SelfExact, SelfWithinTotal
  <2>2. CASE Self(b.id)
    <3>1. /\ delta - subStack[k + 1] = ticks[k] /\ 0 <= ticks[k] /\ ticks[k] <= delta
          /\ ticks[k] \in Nat /\ subStack[k + 1] \in Nat
      BY <1>3, <1>5, <2>2
    <3>2. tscSelf' = [tscSelf EXCEPT ![b.id] = @ + delta - subStack[k + 1]]
          /\ own' = [own EXCEPT ![b.id] = @ + ticks[k]]
      BY <1>5, <2>2
    <3>3. tscSelf' = own'
      BY <3>1, <3>2, <2>1, <1>2, <1>3
    <3>4. tscSelf' \in [Id -> Int] /\ own' \in [Id -> Nat] /\ tscCount' \in [Id -> Nat]
      <4>1. tscCount' = [tscCount EXCEPT ![b.id] = @ + delta] /\ b.id \in Id /\ delta \in Nat
        BY <1>1, <1>2, <1>3
      <4>2. tscCount' \in [Id -> Nat]
        BY <4>1, <2>1
      <4>3. own' \in [Id -> Nat]
        BY <4>1, <3>1, <3>2, <2>1
      <4>4. own' \in [Id -> Int]
        BY <4>3
      <4> QED BY <4>2, <4>3, <4>4, <3>3
    <3>5. ASSUME NEW id \in Id
          PROVE  0 <= tscSelf'[id] /\ tscSelf'[id] <= tscCount'[id]
      <4>1. own'[id] = IF id = b.id THEN own[id] + ticks[k] ELSE own[id]
        BY <3>2, <2>1, <1>2
      <4>2. tscCount'[id] = IF id = b.id THEN tscCount[id] + delta ELSE tscCount[id]
        BY <2>1, <1>1, <1>2
      <4>3. own[id] \in Nat /\ tscCount[id] \in Nat /\ own[id] <= tscCount[id]
        BY <2>1
      <4> QED BY <4>1, <4>2, <4>3, <3>1, <3>3, <1>3
    <3> QED BY <3>3, <3>4, <3>5 DEF SelfExact, SelfWithinTotal
  <2>3. CASE ~ Self(b.id)
    <3>1. tscSelf' = tscSelf /\ own' = own
      BY <2>3, <1>6
    <3>2. tscCount' \in [Id -> Nat] /\ \A id \in Id : tscCount[id] <= tscCount'[id]
      BY <2>1, <1>1, <1>2, <1>3
    <3>3. ASSUME NEW id \in Id
          PROVE  0 <= tscSelf'[id] /\ tscSelf'[id] <= tscCount'[id]
      BY <3>1, <3>2, <2>1
    <3> QED BY <3>1, <3>2, <3>3, <2>1 DEF SelfExact, SelfWithinTotal
  <2> QED BY <2>2, <2>3
<1>8. TimersTypeOK'
  <2>0. count \in [Id -> Nat] /\ lastTsc \in [Id -> Nat]
    BY <1>0 DEF TimersTypeOK
  <2>1. count' \in [Id -> Nat] /\ lastTsc' \in [Id -> Nat]
    <3>1. /\ count' = count \/ count' = [count EXCEPT ![b.id] = @ + 1]
          /\ lastTsc' = lastTsc \/ lastTsc' = [lastTsc EXCEPT ![b.id] = clock]
      BY <1>1
    <3>2. b.id \in Id /\ clock \in Nat
      BY <1>2
    <3>3. count' \in [Id -> Nat]
      BY <3>1, <3>2, <2>0
    <3>4. lastTsc' \in [Id -> Nat]
      BY <3>1, <3>2, <2>0
    <3> QED BY <3>3, <3>4
  <2>2. subStack' \in Seq(Nat) /\ starts' \in Seq(Nat) /\ ticks' \in Seq(Nat)
    BY <1>0, <1>5, <1>6 DEF TimersTypeOK
  <2> QED BY <2>1, <2>2, <1>0, <1>1, <1>4, <1>7 DEF TimersTypeOK
<1>9. Accounts'
  <2>1. CASE Self(b.id)
    <3>1. k >= 1 /\ Len(subStack') = Len(starts') + 1 /\ Len(ticks') = Len(starts')
      BY SMTT(30), <1>2, <1>3, <1>5, <2>1
    <3>2. ASSUME NEW i \in 1 .. Len(starts') - 1
          PROVE  starts'[i + 1] = starts'[i] + ticks'[i] + subStack'[i + 1]
      <4>1. i \in 1 .. k - 1 /\ i + 1 \in 1 .. k - 1
        BY <1>2, <1>5, <2>1
      <4>2. starts[i + 1] = starts[i] + ticks[i] + subStack[i + 1]
        BY <4>1, <1>0 DEF Accounts, k
      <4> QED BY <4>1, <4>2, <1>5, <2>1
    <3>3. ASSUME starts' # <<>>
          PROVE  clock = Back(starts') + Back(ticks') + Back(subStack')
      <4>1. k - 1 >= 1 /\ k - 1 \in 1 .. k - 1 /\ k - 1 + 1 = k
        <5>1. starts' \in Seq(Nat) /\ Len(starts') = k - 1
          BY <1>5, <2>1
        <5>2. Len(starts') # 0 /\ Len(starts') \in Nat
          BY <5>1, <3>3
        <5> QED BY <5>1, <5>2, <1>2
      <4>2. starts[k] = starts[k - 1] + ticks[k - 1] + subStack[k]
        BY <4>1, <1>0 DEF Accounts, k
      <4>3. /\ Back(starts') = starts[k - 1] /\ Back(ticks') = ticks[k - 1]
            /\ Back(subStack') = subStack[k] + delta
        BY <4>1, <1>5, <2>1 DEF Back
      <4>4. starts[k - 1] \in Nat /\ ticks[k - 1] \in Nat /\ subStack[k] \in Nat
        <5>1. k - 1 \in 1 .. Len(starts) /\ k \in 1 .. Len(subStack)
          BY SMTT(30), <4>1, <1>0, <1>2 DEF Shape, k
        <5> QED BY <5>1, <1>0 DEF Shape
      <4>5. clock = starts[k] + delta
        BY <1>2, <1>3, <2>1 DEF delta
      <4> QED BY <4>2, <4>3, <4>4, <4>5, <1>3
    <3> QED BY <3>1, <3>2, <3>3, <1>1 DEF Accounts
  <2>2. CASE ~ Self(b.id)
    BY <2>2, <1>0, <1>1, <1>6 DEF Accounts
  <2> QED BY <2>1, <2>2
<1>10. Nested'
  <2>1. Len(starts') = k - Weight(b.id)
        /\ \A i \in 1 .. k - Weight(b.id) : starts'[i] = starts[i]
    <3>1. CASE Self(b.id)
      BY <3>1, <1>5 DEF Weight
    <3>2. CASE ~ Self(b.id)
      BY <3>2, <1>2, <1>6 DEF Weight, k
    <3> QED BY <3>1, <3>2
  <2>2. \A i \in 1 .. n : blocks[i].level \in Nat /\ blocks[i].tsc \in Nat
    BY <1>0 DEF Shape, n
  <2>3. Weight(b.id) \in Nat /\ k - Weight(b.id) \in Nat
    BY <1>2, <1>3, WeightType
  <2>4. starts' = <<>> <=> Len(starts') = 0
    BY <1>0, <1>5, <1>6 DEF Shape
  <2>5. blocks' = <<>> <=> n = 1
    BY <1>2, <1>4
  <2>6. blocks' = <<>> => starts' = <<>>
    <3> SUFFICES ASSUME n = 1 PROVE Len(starts') = 0
      BY <2>4, <2>5
    <3>1. blocks[1].level = Weight(blocks[1].id)
      BY <1>0, <1>1 DEF Nested
    <3> QED BY <3>1, <2>1, <2>3, <1>2, <1>3
  <2>7. ASSUME blocks' # <<>>
        PROVE  /\ blocks'[1].level = Weight(blocks'[1].id)
               /\ Back(blocks').level = Len(starts')
    <3>1. n > 1 /\ n - 1 \in 1 .. n - 1 /\ 1 \in 1 .. n - 1 /\ n - 1 + 1 = n
      BY <2>5, <2>7, <1>2
    <3>2. blocks[n].level = blocks[n - 1].level + Weight(blocks[n].id)
      BY <3>1, <1>0 DEF Nested, n
    <3>3. Back(blocks') = blocks[n - 1]
      BY <3>1, <1>4 DEF Back
    <3>4. blocks[n - 1].level \in Nat
      BY <3>1, <2>2, <1>2
    <3>5. blocks'[1] = blocks[1] /\ blocks[1].level = Weight(blocks[1].id)
      BY <3>1, <1>0, <1>1, <1>4 DEF Nested
    <3>6. blocks[n - 1].level = k - Weight(b.id)
      BY <3>2, <3>4, <1>2, <1>3, <2>3
    <3> QED BY <3>3, <3>5, <3>6, <2>1
  <2>8. ASSUME NEW i \in 1 .. Len(blocks')
        PROVE  /\ blocks'[i].tsc <= clock'
               /\ blocks'[i].level >= Weight(blocks'[i].id)
               /\ blocks'[i].level <= Len(starts')
               /\ Self(blocks'[i].id) => starts'[blocks'[i].level] = blocks'[i].tsc
    <3>1. i \in 1 .. n - 1 /\ i \in 1 .. n /\ n \in 1 .. n /\ i < n
          /\ blocks'[i] = blocks[i]
      BY <1>2, <1>4
    <3>2. /\ blocks[i].tsc <= clock
          /\ blocks[i].level >= Weight(blocks[i].id)
          /\ Self(blocks[i].id) => starts[blocks[i].level] = blocks[i].tsc
          /\ blocks[i].level + Weight(blocks[n].id) <= blocks[n].level
      BY <3>1, <1>0 DEF Nested, n
    <3>3. blocks[i].level \in Nat
      BY <3>1, <2>2
    <3>4. blocks[i].level <= k - Weight(b.id)
      BY <3>2, <3>3, <2>3, <1>2, <1>3
    <3>5. Self(blocks[i].id) => blocks[i].level \in 1 .. k - Weight(b.id)
      BY <3>2, <3>3, <3>4, <2>3, WeightType
    <3> QED BY <3>1, <3>2, <3>4, <3>5, <2>1, <1>1
  <2>9. ASSUME NEW i \in 1 .. Len(blocks') - 1
        PROVE  blocks'[i + 1].level = blocks'[i].level + Weight(blocks'[i + 1].id)
    <3>1. i \in 1 .. n - 1 /\ i + 1 \in 1 .. n - 1
      BY <1>2, <1>4
    <3>2. blocks[i + 1].level = blocks[i].level + Weight(blocks[i + 1].id)
      BY <3>1, <1>0 DEF Nested, n
    <3> QED BY <3>1, <3>2, <1>4
  <2>10. ASSUME NEW i \in 1 .. Len(blocks'), NEW j \in 1 .. Len(blocks'), i < j
         PROVE  blocks'[i].level + Weight(blocks'[j].id) <= blocks'[j].level
    <3>1. i \in 1 .. n - 1 /\ j \in 1 .. n - 1 /\ i \in 1 .. n /\ j \in 1 .. n
      BY <1>2, <1>4
    <3>2. blocks[i].level + Weight(blocks[j].id) <= blocks[j].level
      BY <3>1, <2>10, <1>0 DEF Nested, n
    <3> QED BY <3>1, <3>2, <1>4
  <2> QED BY <2>6, <2>7, <2>8, <2>9, <2>10 DEF Nested, Self, Weight, Back
<1> QED BY <1>7, <1>8, <1>9, <1>10 DEF TimersIInv

\* Every reachable state satisfies the inductive invariant.
THEOREM TimersInvariance == TimersSpec => []TimersIInv
<1>1. TimersInit => TimersIInv
  BY TimersInitIInv
<1>2. TimersIInv /\ [TimersNext]_timersVars => TimersIInv'
  <2> SUFFICES ASSUME TimersIInv, [TimersNext]_timersVars PROVE TimersIInv'
    OBVIOUS
  <2>1. CASE Tick
    BY <2>1, TickStep
  <2>2. CASE Leave
    BY <2>2, LeaveStep
  <2>3. CASE \E id \in Id : Enter(id)
    BY <2>3, EnterStep
  <2>4. CASE UNCHANGED timersVars
    BY <2>4 DEF timersVars, counters, TimersIInv, TimersTypeOK, Accounts, Nested, SelfExact, SelfWithinTotal,
                Self, Weight, Back
  <2> QED BY <2>1, <2>2, <2>3, <2>4 DEF TimersNext
<1> QED BY <1>1, <1>2, PTL DEF TimersSpec

\* SelfExact, of the self timers' destructors (QuickTrace.cpp 828-857): the
\* self time of a block is the time its self timers were the innermost ones.
THEOREM SelfTimeExact == TimersSpec => []SelfExact
<1>1. TimersIInv => SelfExact
  BY DEF TimersIInv
<1> QED BY <1>1, TimersInvariance, PTL

\* SelfWithinTotal: taking the nested time off never makes self time negative,
\* and self time never exceeds total time.
THEOREM SelfTimeWithinTotal == TimersSpec => []SelfWithinTotal
<1>1. TimersIInv => SelfWithinTotal
  BY DEF TimersIInv
<1> QED BY <1>1, TimersInvariance, PTL
=============================================================================
