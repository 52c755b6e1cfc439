------------------------------- MODULE MsgIds -------------------------------
(***************************************************************************)
(* How a trace statement gets its message id and how a trace file gets the *)
(* descriptor of that id: the QTRACE macros, class MsgDesc and             *)
(* TraceHandle::allocateMsgId (QuickTrace.h, QuickTrace.cpp).              *)
(*                                                                         *)
(* A statement owns one static MsgId, 0 at first, shared by all threads    *)
(* and by all trace handles it is used with.  A handle owns a counter of   *)
(* ids and a mutex.  Every thread has a trace file of its own per handle   *)
(* (MultiThreading::enabled), with the set of ids it has described.        *)
(* qttail finds the format of a message by its id, in the file.            *)
(***************************************************************************)
EXTENDS Integers, Sequences

CONSTANTS
    Thread,
    NoOne,        \* no thread
    Stmt,         \* trace statements
    Handle,       \* trace handles, those opened later included
    Used,         \* Used[s]: the handles that s is executed with
    MaxId,        \* the largest MsgId, 2^32 - 1
    WritesFail,   \* write() of a descriptor may fail
    MaxMsgs       \* bound: messages that a thread traces

ASSUME NoOneAssumption == NoOne \notin Thread
ASSUME UsedAssumption == Used \in [Stmt -> SUBSET Handle]
ASSUME MaxIdAssumption == MaxId \in Nat \ {0}
ASSUME WritesFailAssumption == WritesFail \in BOOLEAN
ASSUME MaxMsgsAssumption == MaxMsgs \in Nat

VARIABLES
    msgId,        \* msgId[s]: the static MsgId of the statement
    nextMsgId,    \* nextMsgId_ of every handle
    mutex,        \* owner of msgIdAllocMutex of every handle
    described,    \* described[h][t]: msgIdInitialized_ of the thread's file
    descs,        \* descs[h][t]: descriptors in that file, in order
    pc,           \* where the thread is in the macro
    at,           \* at[t]: the statement and the handle it executes
    id,           \* id[t]: MsgDesc::id_
    ring,         \* ring[h][t]: history, the messages in that file
    wrapped       \* history: the handle has handed out an id again

idVars == <<msgId, nextMsgId, mutex, wrapped>>
fileVars == <<described, descs, ring>>
vars == <<idVars, fileVars, pc, at, id>>

Ids == 0 .. MaxId
Entry == [id : Ids, stmt : Stmt]
PC == {"idle", "new", "lock", "check", "alloc", "unlock", "take", "write", "start"}

Init ==
    /\ msgId = [s \in Stmt |-> 0]
    /\ nextMsgId = [h \in Handle |-> 1]
    /\ mutex = [h \in Handle |-> NoOne]
    /\ described = [h \in Handle |-> [t \in Thread |-> {}]]
    /\ descs = [h \in Handle |-> [t \in Thread |-> <<>>]]
    /\ pc = [t \in Thread |-> "idle"]
    /\ at \in {[t \in Thread |-> <<s, h>>] : s \in Stmt, h \in Handle}
    /\ id = [t \in Thread |-> 0]
    /\ ring = [h \in Handle |-> [t \in Thread |-> <<>>]]
    /\ wrapped = [h \in Handle |-> FALSE]

S(t) == at[t][1]
H(t) == at[t][2]

Goto(t, l) == pc' = [pc EXCEPT ![t] = l]

\* TraceFile::msgIdInitialized of the file that t uses for h.
MsgIdInitialized(t, s, h) == msgId[s] # 0 /\ msgId[s] \in described[h][t]

\* The thread executes a trace statement.  If the file has its descriptor the
\* message is written at once.
Enter(t, s, h) ==
    /\ pc[t] = "idle"
    /\ h \in Used[s]
    /\ Len(ring[h][t]) < MaxMsgs
    /\ at' = [at EXCEPT ![t] = <<s, h>>]
    /\ Goto(t, IF MsgIdInitialized(t, s, h) THEN "start" ELSE "new")
    /\ UNCHANGED <<idVars, fileVars, id>>

\* MsgDesc's constructor looks for an id without the mutex.
Construct(t) ==
    /\ pc[t] = "new"
    /\ Goto(t, IF msgId[S(t)] = 0 THEN "lock" ELSE "take")
    /\ UNCHANGED <<idVars, fileVars, at, id>>

Lock(t) ==
    /\ pc[t] = "lock"
    /\ mutex[H(t)] = NoOne
    /\ mutex' = [mutex EXCEPT ![H(t)] = t]
    /\ Goto(t, "check")
    /\ UNCHANGED <<msgId, nextMsgId, wrapped, fileVars, at, id>>

\* Mutant of Check: no second look once the mutex is held.
CheckNothing(t) ==
    /\ pc[t] = "check"
    /\ Goto(t, "alloc")
    /\ UNCHANGED <<idVars, fileVars, at, id>>

\* Mutant of Check: the early return leaves the mutex locked.
CheckKeepsMutex(t) ==
    /\ pc[t] = "check"
    /\ Goto(t, IF msgId[S(t)] # 0 THEN "take" ELSE "alloc")
    /\ UNCHANGED <<idVars, fileVars, at, id>>

\* allocateMsgId under the mutex: another thread may have been faster.
Check(t) ==
    /\ pc[t] = "check"
    /\ Goto(t, IF msgId[S(t)] # 0 THEN "unlock" ELSE "alloc")
    /\ UNCHANGED <<idVars, fileVars, at, id>>

\* 0 is skipped when the counter has overflowed.
Allocate(t) ==
    /\ pc[t] = "alloc"
    /\ LET n == IF nextMsgId[H(t)] = 0 THEN 1 ELSE nextMsgId[H(t)]
       IN  /\ msgId' = [msgId EXCEPT ![S(t)] = n]
           /\ nextMsgId' = [nextMsgId EXCEPT ![H(t)] = (n + 1) % (MaxId + 1)]
           /\ wrapped' = [wrapped EXCEPT ![H(t)] = @ \/ nextMsgId[H(t)] = 0]
    /\ Goto(t, "unlock")
    /\ UNCHANGED <<mutex, fileVars, at, id>>

Unlock(t) ==
    /\ pc[t] = "unlock"
    /\ mutex' = [mutex EXCEPT ![H(t)] = NoOne]
    /\ Goto(t, "take")
    /\ UNCHANGED <<msgId, nextMsgId, wrapped, fileVars, at, id>>

\* The constructor reads the id again, for the descriptor.
Take(t) ==
    /\ pc[t] = "take"
    /\ id' = [id EXCEPT ![t] = msgId[S(t)]]
    /\ Goto(t, "write")
    /\ UNCHANGED <<idVars, fileVars, at>>

\* MsgDesc::finish appends the descriptor to the file and marks the id as
\* described, whether or not write() succeeded.
Finish(t) ==
    /\ pc[t] = "write"
    /\ LET d == [id |-> id[t], stmt |-> S(t)]
       IN  \/ descs' = [descs EXCEPT ![H(t)][t] = Append(@, d)]
           \/ WritesFail /\ UNCHANGED descs
    /\ described' = [described EXCEPT ![H(t)][t] = @ \cup {id[t]}]
    /\ Goto(t, "start")
    /\ UNCHANGED <<idVars, ring, at, id>>

\* startMsg .. endMsg, with the static id read once more.
Message(t) ==
    /\ pc[t] = "start"
    /\ ring' = [ring EXCEPT ![H(t)][t] =
                    Append(@, [id |-> msgId[S(t)], stmt |-> S(t)])]
    /\ Goto(t, "idle")
    /\ UNCHANGED <<idVars, described, descs, at, id>>

Step(t) ==
    \/ Construct(t) \/ Lock(t) \/ Check(t) \/ Allocate(t) \/ Unlock(t)
    \/ Take(t) \/ Finish(t) \/ Message(t)

Next == \E t \in Thread : Step(t) \/ \E s \in Stmt, h \in Handle : Enter(t, s, h)

\* A thread inside a trace statement is not stopped for ever.
Spec == Init /\ [][Next]_vars /\ \A t \in Thread : WF_vars(Step(t))

(***************************************************************************)
(* Properties                                                              *)
(***************************************************************************)

\* The type invariant; the ids stay within the width of MsgId.
TypeOK ==
    /\ msgId \in [Stmt -> Ids]
    /\ nextMsgId \in [Handle -> Ids]
    /\ mutex \in [Handle -> Thread \cup {NoOne}]
    /\ described \in [Handle -> [Thread -> SUBSET Ids]]
    /\ descs \in [Handle -> [Thread -> Seq(Entry)]]
    /\ pc \in [Thread -> PC]
    /\ at \in [Thread -> Stmt \X Handle]
    /\ id \in [Thread -> Ids]
    /\ ring \in [Handle -> [Thread -> Seq(Entry)]]
    /\ wrapped \in [Handle -> BOOLEAN]

\* The file of thread t has a descriptor of this message, and no descriptor of
\* another statement under the same id.
Has(h, t, m) ==
    /\ \E d \in 1 .. Len(descs[h][t]) : descs[h][t][d] = m
    /\ \A d \in 1 .. Len(descs[h][t]) :
            descs[h][t][d].id = m.id => descs[h][t][d].stmt = m.stmt

\* Whoever reads a trace file prints every message with the format of the
\* statement that traced it: the descriptor is in the same file, was there
\* before the message, and the id belongs to that statement only, whichever
\* threads met at the statement first.  (As long as the ids last.)
Readable ==
    \A h \in Handle, t \in Thread : ~ wrapped[h] =>
        \A i \in 1 .. Len(ring[h][t]) : Has(h, t, ring[h][t][i])

\* A trace statement returns: nobody keeps the mutex, or is kept out for ever.
TraceReturns == \A t \in Thread : pc[t] # "idle" ~> pc[t] = "idle"

\* QuickTrace.cpp:701-702: msgIdInitialized_ records "that the necessary
\* message descriptor information for this ID has been added to the trace
\* file".
DescriptorAdded ==
    \A h \in Handle, t \in Thread : \A i \in described[h][t] :
        \E d \in 1 .. Len(descs[h][t]) : descs[h][t][d].id = i

=============================================================================
