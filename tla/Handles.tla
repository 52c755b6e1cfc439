------------------------------ MODULE Handles ------------------------------
(***************************************************************************)
(* Trace handles and trace files of a program with several threads, which  *)
(* may fork (QuickTrace.cpp 376-442, 539-675, 888-1182).                   *)
(*                                                                         *)
(* A TraceHandle owns TraceFiles: one for every thread that asked for one  *)
(* (MultiThreading::enabled, found again in thread-local storage), or one  *)
(* altogether.  A TraceFile object is a mapping of a file, which a process *)
(* that is forked off inherits; a new one is a new file, since the old one *)
(* of its name is renamed.  traceHandleMutex is held while handles and     *)
(* files come and go, and by the thread that forks.  What is read without  *)
(* it is a step of its own.                                                *)
(*                                                                         *)
(* Closing may race with everything: the program may close a handle while  *)
(* other threads trace with it, make a trace file for it or end.  Only the *)
(* life of the C++ object is respected: nobody is inside a call of a       *)
(* handle that is being deleted.  Where a program goes on with a trace     *)
(* file that was closed the behaviour is undefined; it may end there.      *)
(***************************************************************************)
EXTENDS Naturals, FiniteSets

CONSTANTS
    Thread,
    Handle,       \* TraceHandle objects the program may construct
    Mt,           \* the handles with MultiThreading::enabled
    Default,      \* those constructed by initialize, for defaultQuickTraceHandle
    Suffix,       \* Suffix[h]: fileNameSuffix_
    Uses,         \* Uses[h]: the threads that trace with the handle
    None,         \* NULL
    MaxCalls      \* bound: calls that take the mutex

ASSUME NoneAssumption ==
    /\ None \notin Nat \cup Thread \cup Handle
    /\ None \notin Nat \X Thread \X Nat
ASSUME HandleAssumption == Mt \subseteq Handle /\ Default \subseteq Handle

\* README.md:293: "QuickTrace can only support a single thread within a
\* process writing to a TraceFile."
ASSUME UsesAssumption ==
    /\ Uses \in [Handle -> SUBSET Thread]
    /\ \A h \in Handle \ Mt : \A t, u \in Uses[h] : t = u

ASSUME MaxCallsAssumption == MaxCalls \in Nat

Name == {Suffix[h] : h \in Handle}

VARIABLES
    state,        \* state[h]: initialized_ and traceFilesClosed_ of a handle
    handleMap,    \* traceHandleMap, the handle of every suffix
    files,        \* files[h]: traceFiles_
    nonMtFile,    \* nonMtFile[h]: nonMtTraceFile_
    tls,          \* tls[h][t]: the value of traceFileThreadLocalKey_
    live,         \* live: the TraceFile objects that are not deleted
    late,         \* history: the files made for a handle that was not open any more
    mutex,        \* owner of traceHandleMutex
    at,           \* at[t]: where a thread is, for which handle and file
    timer,        \* timer[t]: qtFile_ of the BlockTimer on its stack
    todo,         \* handles that processForkChild has still to do
    deleteOnFork, \* deleteTraceHandlesOnFork
    proc,         \* history: 0, and one more in the child of a fork
    inChild,      \* processForkChild is running
    calls         \* history: calls so far that take the mutex

handleVars == <<state, handleMap, files, nonMtFile, live, late>>
forkVars == <<deleteOnFork, todo, proc, inChild>>
vars == <<handleVars, tls, mutex, at, timer, forkVars, calls>>

Idle == [pc |-> "idle", op |-> "none", h |-> None, f |-> None]
Gone == [Idle EXCEPT !.pc = "gone"]
Closing == [Idle EXCEPT !.pc = "closing"]    \* in processForkChild
Doing(pc, op, h, f) == [pc |-> pc, op |-> op, h |-> h, f |-> f]

Init ==
    /\ state = [h \in Handle |-> "none"]
    /\ handleMap = [n \in Name |-> None]
    /\ files = [h \in Handle |-> {}]
    /\ nonMtFile = [h \in Handle |-> None]
    /\ tls = [h \in Handle |-> [t \in Thread |-> None]]
    /\ live = {}
    /\ late = {}
    /\ mutex = None
    /\ at = [t \in Thread |-> Idle]
    /\ timer = [t \in Thread |-> None]
    /\ todo = {}
    /\ deleteOnFork \in BOOLEAN
    /\ proc = 0
    /\ inChild = FALSE
    /\ calls = 0

IsAt(t, pc, op) == at[t].pc = pc /\ at[t].op = op
IsIdle(t) == at[t] = Idle
Goto(t, where) == at' = [at EXCEPT ![t] = where]

(***************************************************************************)
(* The mutex.                                                              *)
(***************************************************************************)

\* The program makes a call that takes the mutex.  A trace file made by it is
\* known by the process, the thread and the number of the call.
Ask(t, op, h, f) ==
    /\ IsIdle(t)
    /\ calls < MaxCalls
    /\ calls' = calls + 1
    /\ Goto(t, Doing("lock", op, h, f))

NewFile(t) == <<proc, t, calls + 1>>

\* std::lock_guard of traceHandleMutex, in every operation below.  A section of
\* a single step finds the mutex free and leaves it free.
Free(t) == at[t].pc = "lock" /\ mutex = None
Acquire(t) == mutex' = t
Release == mutex' = None

\* The end of a call, which processForkChild may have made.
Return(t) == Goto(t, IF inChild THEN Closing ELSE Idle)

\* The process ends, by a signal or by an assertion.  Nobody takes the mutex
\* after that.
Dies(t) ==
    /\ at' = [u \in Thread |-> Gone]
    /\ mutex' = t
    /\ UNCHANGED <<handleVars, tls, timer, forkVars, calls>>

(***************************************************************************)
(* Trace files.                                                            *)
(***************************************************************************)

\* newTraceFile: the TraceFile is constructed, and put into traceFiles_ ...
NewTraceFile(h, f) ==
    /\ live' = live \cup {f}
    /\ files' = [files EXCEPT ![h] = @ \cup {f}]

\* ... or the file cannot be opened or mapped, and NULL is returned.
NoTraceFile == UNCHANGED <<live, files>>

\* disableTracing, whose loop deletes all the trace files of the handle.  In a
\* handle that is closed already it does nothing.
DisableTracing(h, then) ==
    LET closed == state[h] = "closed"
    IN  /\ state' = [state EXCEPT ![h] = then]
        /\ nonMtFile' = [nonMtFile EXCEPT ![h] = IF closed THEN @ ELSE None]
        /\ files' = [files EXCEPT ![h] = IF closed THEN @ ELSE {}]
        /\ live' = IF closed THEN live ELSE live \ files[h]

\* ... after it asserted that such a handle has no trace file.
Leftover(h) == state[h] = "closed" /\ files[h] # {}

\* Nobody is deleting the handle.
Usable(h) == \A t \in Thread : at[t].h = h => at[t].op # "delete"

(***************************************************************************)
(* Constructing a handle.                                                  *)
(***************************************************************************)

\* initialize and initialize_handle.  initialize does nothing if there is a
\* default handle.
Initialize(t, h) ==
    /\ IsIdle(t)
    /\ t \in Uses[h]
    /\ state[h] = "none"
    /\ \A u \in Thread : at[u].op = "construct" =>
           at[u].h # h /\ ~ ({h, at[u].h} \subseteq Default)
    /\ h \in Default => \A g \in Default : state[g] \in {"none", "deleted"}
    /\ Ask(t, "construct", h, IF h \in Mt THEN None ELSE NewFile(t))
    /\ UNCHANGED <<handleVars, tls, mutex, timer, forkVars>>

\* The TraceHandle constructor: without a directory or a trace file it gives up,
\* and initialize deletes the handle again ...
ConstructFail(t) ==
    LET h == at[t].h
    IN  /\ Free(t) /\ at[t].op = "construct"
        /\ state' = [state EXCEPT ![h] = "failed"]
        /\ \/ h \in Default /\ Goto(t, Doing("lock", "delete", h, None))
           \/ h \notin Default /\ Return(t)
        /\ UNCHANGED <<handleMap, files, nonMtFile, live, late, tls, mutex, timer, forkVars, calls>>

\* ... else it makes the single trace file of the handle.
ConstructFile(t) ==
    LET h == at[t].h
    IN  /\ Free(t) /\ at[t].op = "construct"
        /\ h \notin Mt
        /\ Acquire(t)
        /\ NewTraceFile(h, at[t].f)
        /\ at' = [at EXCEPT ![t].pc = "made"]
        /\ UNCHANGED <<state, handleMap, nonMtFile, late, tls, timer, forkVars, calls>>

\* Mutant of Construct: the handle is not entered into the map.
ConstructUnlisted(t) ==
    LET h == at[t].h
    IN  /\ at[t].op = "construct"
        /\ \/ Free(t) /\ h \in Mt
           \/ at[t].pc = "made"
        /\ nonMtFile' = [nonMtFile EXCEPT ![h] = at[t].f]
        /\ state' = [state EXCEPT ![h] = "open"]
        /\ Release /\ Return(t)
        /\ UNCHANGED <<handleMap, files, tls, live, late, timer, forkVars, calls>>

\* It enters the handle into traceHandleMap, in place of one with its suffix.
Construct(t) ==
    LET h == at[t].h
    IN  /\ at[t].op = "construct"
        /\ \/ Free(t) /\ h \in Mt
           \/ at[t].pc = "made"
        /\ nonMtFile' = [nonMtFile EXCEPT ![h] = at[t].f]
        /\ handleMap' = [handleMap EXCEPT ![Suffix[h]] = h]
        /\ state' = [state EXCEPT ![h] = "open"]
        /\ Release /\ Return(t)
        /\ UNCHANGED <<files, tls, live, late, timer, forkVars, calls>>

(***************************************************************************)
(* The trace file of a thread.                                             *)
(***************************************************************************)

\* maybeCreateMtTraceFile, of a thread that has no file yet.  The assertion
\* that the handle is initialized is before the lock is taken: by the time it
\* is, the handle may be closed.
MaybeCreate(t, h) ==
    /\ IsIdle(t)
    /\ h \in Mt
    /\ t \in Uses[h]
    /\ state[h] = "open"
    /\ Usable(h)
    /\ tls[h][t] = None
    /\ Ask(t, "create", h, NewFile(t))
    /\ UNCHANGED <<handleVars, tls, mutex, timer, forkVars>>

CreateFile(t) ==
    LET h == at[t].h
    IN  /\ Free(t) /\ at[t].op = "create"
        /\ Acquire(t)
        /\ \/ /\ NewTraceFile(h, at[t].f)
              /\ at' = [at EXCEPT ![t].pc = "made"]
              /\ late' = IF state[h] = "open" THEN late ELSE late \cup {at[t].f}
           \/ /\ NoTraceFile /\ UNCHANGED late
              /\ Goto(t, Doing("made", "create", h, None))
        /\ UNCHANGED <<state, handleMap, nonMtFile, tls, timer, forkVars, calls>>

\* pthread_setspecific.
SetSpecific(t) ==
    /\ IsAt(t, "made", "create")
    /\ tls' = [tls EXCEPT ![at[t].h][t] = at[t].f]
    /\ Release /\ Return(t)
    /\ UNCHANGED <<handleVars, timer, forkVars, calls>>

\* Mutant of TraceFile: mtTraceFile does not look whether the handle is open.
TraceFileAlways(t, h) == IF h \in Mt THEN tls[h][t] ELSE nonMtFile[h]

\* TraceHandle::traceFile, which takes no lock.
TraceFile(t, h) ==
    CASE h \notin Mt                           -> nonMtFile[h]
      [] h \in Mt /\ state[h] = "open"      -> tls[h][t]
      [] h \in Mt /\ state[h] # "open"      -> None

\* A thread may trace with a handle that is constructed and not deleted.
CanTrace(t, h) ==
    /\ IsIdle(t)
    /\ t \in Uses[h]
    /\ state[h] \in {"open", "closed", "failed"}
    /\ Usable(h)
    /\ TraceFile(t, h) # None

\* A trace statement finds its trace file, then stores into it.  With NULL it
\* does nothing.  If the file was closed meanwhile it is not mapped any more,
\* unless something else is, in its place.
StartTrace(t, h) ==
    /\ CanTrace(t, h)
    /\ Goto(t, Doing("trace", "trace", h, TraceFile(t, h)))
    /\ UNCHANGED <<handleVars, tls, mutex, timer, forkVars, calls>>

EndTrace(t) ==
    /\ at[t].pc = "trace"
    /\ \/ Goto(t, Idle) /\ UNCHANGED <<handleVars, tls, mutex, timer, forkVars, calls>>
       \/ at[t].f \notin live /\ Dies(t)

\* A profiled block: BlockTimer keeps the trace file from the beginning of the
\* block to its end, when it may be closed, in the child of a fork for one.
EnterBlock(t, h) ==
    /\ CanTrace(t, h)
    /\ timer[t] = None
    /\ timer' = [timer EXCEPT ![t] = TraceFile(t, h)]
    /\ UNCHANGED <<handleVars, tls, mutex, at, forkVars, calls>>

LeaveBlock(t) ==
    /\ IsIdle(t)
    /\ timer[t] # None
    /\ \/ /\ timer' = [timer EXCEPT ![t] = None]
          /\ UNCHANGED <<handleVars, tls, mutex, at, forkVars, calls>>
       \/ timer[t] \notin live /\ Dies(t)

(***************************************************************************)
(* Closing, deleting and resizing.                                         *)
(***************************************************************************)

\* close() of a handle, delete of one (close() of the default handle is that)
\* and resize, which "is called only on a single threaded process" (541).
Call(t, h, op) ==
    /\ IsIdle(t)
    /\ state[h] \in {"open", "closed", "failed"}
    /\ Usable(h)
    /\ op = "delete" => \A u \in Thread : at[u].h # h
    /\ op = "resize" => /\ h \notin Mt /\ nonMtFile[h] # None
                        /\ \A u \in Thread \ {t} : at[u] = Gone
    /\ Ask(t, op, h, IF op = "resize" THEN NewFile(t) ELSE None)
    /\ UNCHANGED <<handleVars, tls, mutex, timer, forkVars>>

\* The assertion of disableTracing fails.
Abort(t) ==
    /\ Free(t) /\ at[t].op \in {"close", "delete", "resize"}
    /\ Leftover(at[t].h)
    /\ Dies(t)

\* TraceHandle::close.
Close(t) ==
    /\ Free(t) /\ at[t].op = "close"
    /\ ~ Leftover(at[t].h)
    /\ DisableTracing(at[t].h, "closed")
    /\ Return(t)
    /\ UNCHANGED <<handleMap, late, tls, mutex, timer, forkVars, calls>>

\* TraceHandle::~TraceHandle.  The thread-local values stay.
Delete(t) ==
    LET h == at[t].h
    IN  /\ Free(t) /\ at[t].op = "delete"
        /\ ~ Leftover(h)
        /\ DisableTracing(h, "deleted")
        /\ handleMap' = [handleMap EXCEPT ![Suffix[h]] = None]
        /\ Return(t)
        /\ UNCHANGED <<late, tls, mutex, timer, forkVars, calls>>

\* TraceHandle::resize closes the handle ...
ResizeClose(t) ==
    /\ Free(t) /\ at[t].op = "resize"
    /\ ~ Leftover(at[t].h)
    /\ DisableTracing(at[t].h, "closed")
    /\ at' = [at EXCEPT ![t].pc = "closed"]
    /\ UNCHANGED <<handleMap, late, tls, mutex, timer, forkVars, calls>>

\* ... makes another file, and opens it again, all that without the mutex.
ResizeNew(t) ==
    LET h == at[t].h
    IN  /\ IsAt(t, "closed", "resize")
        /\ \/ NewTraceFile(h, at[t].f) /\ at' = [at EXCEPT ![t].pc = "made"]
           \/ NoTraceFile /\ Goto(t, Doing("made", "resize", h, None))
        /\ UNCHANGED <<state, handleMap, nonMtFile, late, tls, mutex, timer,
                       forkVars, calls>>

ResizeOpen(t) ==
    LET h == at[t].h
    IN  /\ IsAt(t, "made", "resize")
        /\ nonMtFile' = [nonMtFile EXCEPT ![h] = at[t].f]
        /\ state' = [state EXCEPT ![h] = "open"]
        /\ Goto(t, Idle)
        /\ UNCHANGED <<handleMap, files, tls, live, late, mutex, timer,
                       forkVars, calls>>

(***************************************************************************)
(* The end of a thread.                                                    *)
(***************************************************************************)

\* A thread returns from its function: the destructors of its thread-local
\* values are called, key by key, also for handles closed or deleted before.
Exit(t) ==
    /\ IsIdle(t)
    /\ timer[t] = None
    /\ \/ /\ \A h \in Handle : tls[h][t] = None
          /\ Goto(t, Gone)
          /\ UNCHANGED tls
       \/ \E h \in Handle :
              /\ tls[h][t] # None
              /\ tls' = [tls EXCEPT ![h][t] = None]
              /\ Goto(t, Doing("lock", "exit", h, tls[h][t]))
    /\ UNCHANGED <<handleVars, mutex, timer, forkVars, calls>>

\* deleteTraceFile deletes a file for the second time if its handle was closed.
DeleteTwice(t) ==
    /\ Free(t) /\ at[t].op = "exit"
    /\ at[t].f \notin live
    /\ Dies(t)

\* deleteTraceFile, and on to the next key: nothing else is left to the thread.
DeleteTraceFile(t) ==
    LET h == at[t].h
        f == at[t].f
    IN  /\ Free(t) /\ at[t].op = "exit"
        /\ live' = live \ {f}
        /\ files' = [files EXCEPT ![h] = @ \ {f}]
        /\ LET left == {g \in Handle : tls[g][t] # None}
           IN  \/ left = {} /\ Goto(t, Gone) /\ UNCHANGED tls
               \/ \E g \in left :
                      /\ tls' = [tls EXCEPT ![g][t] = None]
                      /\ Goto(t, Doing("lock", "exit", g, tls[g][t]))
        /\ UNCHANGED <<state, handleMap, nonMtFile, late, mutex, timer, forkVars,
                       calls>>

(***************************************************************************)
(* Forking.  The processes share no memory but the trace files, so it is   *)
(* enough to follow one of them: the parent or the child.                  *)
(***************************************************************************)

Fork(t) ==
    /\ Ask(t, "fork", None, None)
    /\ UNCHANGED <<handleVars, tls, mutex, timer, forkVars>>

\* Mutant of ForkPrepare: it does not lock.
ForkPrepareUnlocked(t) ==
    /\ IsAt(t, "lock", "fork")
    /\ at' = [at EXCEPT ![t].pc = "fork"]
    /\ UNCHANGED <<handleVars, tls, mutex, timer, forkVars, calls>>

\* processForkPrepare locks the mutex before the fork.
ForkPrepare(t) ==
    /\ Free(t) /\ at[t].op = "fork"
    /\ Acquire(t)
    /\ at' = [at EXCEPT ![t].pc = "fork"]
    /\ UNCHANGED <<handleVars, tls, timer, forkVars, calls>>

\* In the parent, processForkParent unlocks it.
ForkParent(t) ==
    /\ at[t].pc = "fork"
    /\ Release /\ Return(t)
    /\ UNCHANGED <<handleVars, tls, timer, forkVars, calls>>

\* The child has a copy of everything, the locked mutex too, but of all
\* threads only the one that forked.
ForkProcess(t) ==
    /\ at[t].pc = "fork"
    /\ proc' = proc + 1
    /\ inChild' = TRUE
    /\ at' = [u \in Thread |-> IF u = t THEN [Idle EXCEPT !.pc = "forked"] ELSE Gone]
    /\ tls' = [h \in Handle |-> [u \in Thread |-> IF u = t THEN tls[h][t] ELSE None]]
    /\ timer' = [u \in Thread |-> IF u = t THEN timer[t] ELSE None]
    /\ UNCHANGED <<handleVars, mutex, deleteOnFork, todo, calls>>

\* Mutant of ForkChild: the child goes on with the old mutex.
ForkChildOldMutex(t) ==
    /\ at[t].pc = "forked"
    /\ todo' = {handleMap[n] : n \in Name} \ {None}
    /\ Goto(t, Closing)
    /\ UNCHANGED <<handleVars, tls, mutex, timer, deleteOnFork, proc, inChild, calls>>

\* Mutant of ForkChild: the handles of the parent stay open.
ForkChildKeepsOpen(t) ==
    /\ at[t].pc = "forked"
    /\ Release
    /\ Goto(t, Closing)
    /\ UNCHANGED <<handleVars, tls, timer, forkVars, calls>>

\* processForkChild constructs the mutex anew, then closes or deletes all the
\* handles of the map, one by one.
ForkChild(t) ==
    /\ at[t].pc = "forked"
    /\ Release
    /\ todo' = {handleMap[n] : n \in Name} \ {None}
    /\ Goto(t, Closing)
    /\ UNCHANGED <<handleVars, tls, timer, deleteOnFork, proc, inChild, calls>>

ForkChildNext(t) ==
    /\ at[t].pc = "closing"
    /\ \E h \in todo :
           /\ todo' = todo \ {h}
           /\ Goto(t, Doing("lock", IF deleteOnFork THEN "delete" ELSE "close", h, None))
    /\ UNCHANGED <<handleVars, tls, mutex, timer, deleteOnFork, proc, inChild, calls>>

ForkChildDone(t) ==
    /\ at[t].pc = "closing"
    /\ todo = {}
    /\ inChild' = FALSE
    /\ Goto(t, Idle)
    /\ UNCHANGED <<handleVars, tls, mutex, timer, deleteOnFork, todo, proc, calls>>

(***************************************************************************)

Step(t) ==
    \/ ConstructFail(t) \/ ConstructFile(t) \/ Construct(t)
    \/ CreateFile(t) \/ SetSpecific(t) \/ EndTrace(t)
    \/ Abort(t) \/ Close(t) \/ Delete(t)
    \/ ResizeClose(t) \/ ResizeNew(t) \/ ResizeOpen(t)
    \/ DeleteTwice(t) \/ DeleteTraceFile(t)

ForkStep(t) ==
    \/ ForkPrepare(t) \/ ForkParent(t) \/ ForkProcess(t)
    \/ ForkChild(t) \/ ForkChildNext(t) \/ ForkChildDone(t)

Program(t) ==
    \/ \E h \in Handle :
           \/ Initialize(t, h) \/ MaybeCreate(t, h)
           \/ StartTrace(t, h) \/ EnterBlock(t, h)
           \/ \E op \in {"close", "delete", "resize"} : Call(t, h, op)
    \/ LeaveBlock(t)
    \/ Exit(t)
    \/ Fork(t)

Next ==
    \E t \in Thread : Step(t) \/ ForkStep(t) \/ Program(t)

\* A thread inside a call of the library goes on with it, and gets a mutex
\* that is free.
Fairness == \A t \in Thread : WF_vars(Step(t) \/ ForkStep(t))

Spec == Init /\ [][Next]_vars /\ Fairness

(***************************************************************************)
(* Properties                                                              *)
(***************************************************************************)

\* A trace file has one writer, the thread that it was made for: no other
\* thread, and none of a process forked off, ever stores into a file that is
\* open (README.md:293).  A thread that goes on with a file closed by another
\* one stores into no file at all; what comes of that is undefined.
OneWriter ==
    \A t \in Thread : \A f \in live :
        (at[t].pc = "trace" /\ at[t].f = f) \/ (at[t] = Idle /\ timer[t] = f)
            => f[1] = proc /\ f[2] = t

\* A trace statement and a profiled block begin with a trace file that is open,
\* whatever is closed, forked or made at that moment: never with one that was
\* closed, also in this process by a fork, and is still in thread-local
\* storage.  That it stays open until they end is the program's business.
FindsOpenFile ==
    [][\A t \in Thread, h \in Handle :
          StartTrace(t, h) \/ EnterBlock(t, h) => TraceFile(t, h) \in live]_vars

\* Whenever nobody holds the mutex, the trace files there are are those of the
\* handles.  Those of an open handle are the files that its threads have:
\* nothing leaks, through fork neither.  A handle that was closed has none but
\* files whose making was overtaken by the closing (initialized_ is looked at
\* before the lock is taken), and each of these has a thread that will delete it.
FilesAccounted ==
    mutex = None /\ ~ inChild /\ (\A t \in Thread : at[t].op # "resize") =>
        /\ live = UNION {files[h] : h \in Handle}
        /\ \A h \in Handle :
               LET had == {tls[h][t] : t \in Thread} \cup
                          {at[t].f : t \in {u \in Thread : IsAt(u, "lock", "exit")
                                                             /\ at[u].h = h}}
               IN  CASE state[h] = "open"   -> files[h] = ({nonMtFile[h]} \cup had) \ {None}
                     [] state[h] = "closed" -> files[h] \subseteq late \cap had
                     [] OTHER               -> files[h] = {}

\* In the child, every handle that the parent had is closed or deleted when
\* fork() returns (QuickTraceMultipleThreadsTest.cpp:168-193), as long as no
\* two handles have the same suffix.
ForkCloses ==
    [][\A t \in Thread : ForkChildDone(t) =>
          \A h \in Handle : state[h] # "open" /\ files[h] = {}]_vars

\* Every call returns, in the child of a fork too, whatever the threads that
\* do not exist there were doing.
CallsReturn ==
    \A t \in Thread :
        at[t].pc \notin {"idle", "gone"} ~> at[t].pc \in {"idle", "gone"}

File == Nat \X Thread \X Nat
Where == [pc : {"idle", "gone", "closing", "forked", "lock", "made", "closed", "trace", "fork"},
          op : {"none", "construct", "create", "trace", "close", "delete", "resize", "exit", "fork"},
          h : Handle \cup {None}, f : File \cup {None}]

TypeOK ==
    /\ state \in [Handle -> {"none", "failed", "open", "closed", "deleted"}]
    /\ handleMap \in [Name -> Handle \cup {None}]
    /\ files \in [Handle -> SUBSET File]
    /\ nonMtFile \in [Handle -> File \cup {None}]
    /\ tls \in [Handle -> [Thread -> File \cup {None}]]
    /\ live \subseteq File /\ late \subseteq File
    /\ at \in [Thread -> Where]
    /\ timer \in [Thread -> File \cup {None}]
    /\ todo \subseteq Handle
    /\ deleteOnFork \in BOOLEAN /\ inChild \in BOOLEAN
    /\ proc \in Nat /\ calls \in Nat

=============================================================================
