------------------------------ MODULE RingBuf ------------------------------
(***************************************************************************)
(* The writer of one trace level: class RingBuf of QuickTrace.cpp and      *)
(* QuickTraceRingBuf.h, one thread issuing trace statements into one       *)
(* memory mapped ring.  Every store into the ring that another process can *)
(* see (qttail, or qttail -c after a crash) is a step of its own, in       *)
(* program order.                                                          *)
(*                                                                         *)
(* The ring is an array of cells: a timestamp (8 bytes), a message id (4), *)
(* a word of traced data and a length byte are one cell each.  Address 0   *)
(* is the RingBufHeader, kept apart in tailPtr.  A cell remembers what was *)
(* stored in it, so reading it as something else is recognisable: the      *)
(* bytes of one field are assumed not to pass for another field.           *)
(***************************************************************************)
EXTENDS Integers, Sequences

CONSTANTS
    Id,           \* message ids, one for each trace statement
    Words,        \* Words[id]: cells of traced data of a message
    BufEnd,       \* bufEnd_ - buf_: where the trailer begins
    TrailerSize,  \* cells of the trailer
    QtctlIds,     \* the messages that qtctl turns off and on
    MaxTsc        \* bound: the last timestamp, two for every trace statement

ASSUME WordsAssumption == Words \in [Id -> Nat]

\* The usable area is not empty.
ASSUME BufEndAssumption == BufEnd \in Nat /\ BufEnd > 1

\* A message that starts in the last usable cell, and the zero timestamp
\* after it, fit into the trailer.  The code relies on it and does not
\* check it (RingBuf::push has no bounds check).
ASSUME TrailerAssumption ==
    TrailerSize \in Nat /\ \A id \in Id : Words[id] + 3 <= TrailerSize

ASSUME QtctlIdsAssumption == QtctlIds \subseteq Id

ASSUME MaxTscAssumption == MaxTsc \in Nat

VARIABLES
    mem,       \* the cells of the ring, as any process that maps it sees them
    tailPtr,   \* RingBufHeader.tailPtr
    ptr,       \* ptr_: where the writer stores next
    msgStart,  \* msgStart_: start of the message being written, 0 if disabled
    pc,        \* where the writer is inside startMsg .. endMsg
    msg,       \* arguments of the running trace statement: its id and its tsc
    clock,     \* the timestamp counter
    off,       \* ids whose MsgCounter has the off bit set
    hits,      \* MsgCounter.count of every id
    log,       \* history: every completed message, oldest first
    lapFrom,   \* history: messages completed before the current lap
    prevFrom   \* history: messages completed before the lap before it

ringVars == <<mem, tailPtr, ptr, msgStart, pc, msg, clock, off, hits>>
histVars == <<log, lapFrom, prevFrom>>
vars == <<ringVars, histVars>>

Start == 1
Last == BufEnd + TrailerSize - 1
Addr == Start .. Last

(***************************************************************************)
(* Cells and messages.                                                     *)
(***************************************************************************)
Tsc(t)     == [kind |-> "tsc", val |-> t]
Zero       == Tsc(0)
Ones       == [kind |-> "ones", val |-> 0]
IdCell(id) == [kind |-> "id", val |-> id]
Word(t)    == [kind |-> "word", val |-> t]     \* data traced by message t
LenCell(n) == [kind |-> "len", val |-> n]

Cell == [kind : {"tsc", "ones", "word", "len"}, val : Nat]
            \cup [kind : {"id"}, val : Id]

Msg == [at : Addr, id : Id, tsc : Nat]

\* Cells before the length byte, which holds this number.
LenOf(id) == 2 + Words[id]
EndOf(m) == m.at + LenOf(m.id) + 1

\* The message can be read back from the ring as it was written.
Intact(m) ==
    /\ mem[m.at] = Tsc(m.tsc)
    /\ mem[m.at + 1] = IdCell(m.id)
    /\ \A w \in 1 .. Words[m.id] : mem[m.at + 1 + w] = Word(m.tsc)
    /\ mem[m.at + LenOf(m.id)] = LenCell(LenOf(m.id))

(***************************************************************************)
(* Actions                                                                 *)
(***************************************************************************)
Store(a, c) == mem' = [mem EXCEPT ![a] = c]

\* bufIs: trailer of ones, an empty ring, tailPtr 0 as nothing wrapped yet.
BufIs ==
    /\ mem = [a \in Addr |-> IF a >= BufEnd THEN Ones ELSE Zero]
    /\ tailPtr = 0
    /\ ptr = Start

Init ==
    /\ BufIs
    /\ msgStart = 0
    /\ pc = "idle"
    /\ msg \in [id : Id, tsc : {0}]
    /\ clock = 0
    /\ off = {}
    /\ hits = [id \in Id |-> 0]
    /\ log = <<>>
    /\ lapFrom = 0
    /\ prevFrom = 0

\* The counter advances by more than one between two trace statements.
Rdtsc == clock + 2

\* startMsg finds ptr_ in the trailer (maybeWrap); doWrap first restores the
\* ones of the trailer over the terminator ...
WrapSeal ==
    /\ pc = "idle"
    /\ ptr >= BufEnd
    /\ Rdtsc <= MaxTsc
    /\ Store(ptr, Ones)
    /\ pc' = "seal"
    /\ UNCHANGED <<tailPtr, ptr, msgStart, msg, clock, off, hits, histVars>>

\* Mutant of WrapTurn: tailPtr is the start of the last message, not its end.
WrapTurnAtStart ==
    /\ pc = "seal"
    /\ tailPtr' = msgStart
    /\ ptr' = Start
    /\ pc' = "turned"
    /\ prevFrom' = lapFrom
    /\ lapFrom' = Len(log)
    /\ UNCHANGED <<mem, msgStart, msg, clock, off, hits, log>>

\* ... then stores tailPtr and goes back to the first cell, which still holds
\* the oldest message.
WrapTurn ==
    /\ pc = "seal"
    /\ tailPtr' = ptr
    /\ ptr' = Start
    /\ pc' = "turned"
    /\ prevFrom' = lapFrom
    /\ lapFrom' = Len(log)
    /\ UNCHANGED <<mem, msgStart, msg, clock, off, hits, log>>

\* Mutant of Stamps: startMsg without maybeWrap.
StampsNoWrap(id) ==
    /\ pc \in {"turned", "idle"}
    /\ Rdtsc <= MaxTsc
    /\ clock' = Rdtsc
    /\ hits' = [hits EXCEPT ![id] = @ + 1]

\* startMsg past maybeWrap: it takes the timestamp and counts the hit.
Stamps(id) ==
    /\ pc = "turned" \/ (pc = "idle" /\ ptr < BufEnd)
    /\ Rdtsc <= MaxTsc
    /\ clock' = Rdtsc
    /\ hits' = [hits EXCEPT ![id] = @ + 1]

\* The message is enabled: its timestamp is stored over the terminator.
StartMsg(id) ==
    /\ Stamps(id)
    /\ id \notin off
    /\ msgStart' = ptr
    /\ msg' = [id |-> id, tsc |-> Rdtsc]
    /\ Store(ptr, Tsc(Rdtsc))
    /\ ptr' = ptr + 1
    /\ pc' = "id"
    /\ UNCHANGED <<tailPtr, off, histVars>>

\* The message is disabled: put and endMsg see msgStart_ = 0 and do nothing.
StartMsgOff(id) ==
    /\ Stamps(id)
    /\ id \in off
    /\ msgStart' = 0
    /\ pc' = "idle"
    /\ UNCHANGED <<mem, tailPtr, ptr, msg, off, histVars>>

\* The second store of startMsg.
PutId ==
    /\ pc = "id"
    /\ Store(ptr, IdCell(msg.id))
    /\ ptr' = ptr + 1
    /\ pc' = "put"
    /\ UNCHANGED <<tailPtr, msgStart, msg, clock, off, hits, histVars>>

\* operator<< pushes the next word of the traced data.
PutWord ==
    /\ pc = "put"
    /\ ptr - msgStart < LenOf(msg.id)
    /\ Store(ptr, Word(msg.tsc))
    /\ ptr' = ptr + 1
    /\ UNCHANGED <<tailPtr, msgStart, pc, msg, clock, off, hits, histVars>>

\* Mutant of EndMsgLen: the length byte counts itself.
EndMsgLenPlusOne ==
    /\ pc = "put"
    /\ ptr - msgStart = LenOf(msg.id)
    /\ Store(ptr, LenCell(ptr - msgStart + 1))
    /\ ptr' = ptr + 1
    /\ pc' = "end"
    /\ log' = Append(log, [at |-> msgStart, id |-> msg.id, tsc |-> msg.tsc])
    /\ UNCHANGED <<tailPtr, msgStart, msg, clock, off, hits, lapFrom, prevFrom>>

\* endMsg stores the length byte: the message is complete ...
EndMsgLen ==
    /\ pc = "put"
    /\ ptr - msgStart = LenOf(msg.id)
    /\ Store(ptr, LenCell(ptr - msgStart))
    /\ ptr' = ptr + 1
    /\ pc' = "end"
    /\ log' = Append(log, [at |-> msgStart, id |-> msg.id, tsc |-> msg.tsc])
    /\ UNCHANGED <<tailPtr, msgStart, msg, clock, off, hits, lapFrom, prevFrom>>

\* Mutant of EndMsgZero: no terminator.
EndMsgNoZero ==
    /\ pc = "end"
    /\ pc' = "idle"
    /\ UNCHANGED <<mem, tailPtr, ptr, msgStart, msg, clock, off, hits, histVars>>

\* ... and then the zero timestamp after it, without moving ptr_.
EndMsgZero ==
    /\ pc = "end"
    /\ Store(ptr, Zero)
    /\ pc' = "idle"
    /\ UNCHANGED <<tailPtr, ptr, msgStart, msg, clock, off, hits, histVars>>

\* qtctl in another process flips the off bit of a message.
Qtctl(id) ==
    /\ off' = IF id \in off THEN off \ {id} ELSE off \cup {id}
    /\ UNCHANGED <<mem, tailPtr, ptr, msgStart, pc, msg, clock, hits, histVars>>

Writer ==
    \/ WrapSeal \/ WrapTurn
    \/ \E id \in Id : StartMsg(id) \/ StartMsgOff(id)
    \/ PutId \/ PutWord \/ EndMsgLen \/ EndMsgZero

Next == Writer \/ \E id \in QtctlIds : Qtctl(id)

\* The traced program may stop between any two stores: no fairness.
Spec == Init /\ [][Next]_vars

(***************************************************************************)
(* Properties                                                              *)
(***************************************************************************)

\* The type invariant.  It bounds every store: ptr never leaves the ring of
\* this level, although nothing in push or endMsg looks at the end.
TypeOK ==
    /\ mem \in [Addr -> Cell]
    /\ tailPtr \in {0} \cup BufEnd .. Last
    /\ ptr \in Addr
    /\ msgStart \in {0} \cup Start .. BufEnd - 1
    /\ pc \in {"idle", "seal", "turned", "id", "put", "end"}
    /\ msg \in [id : Id, tsc : Nat]
    /\ clock \in 0 .. MaxTsc
    /\ off \subseteq Id
    /\ hits \in [Id -> Nat]
    /\ log \in Seq(Msg)
    /\ lapFrom \in 0 .. Len(log)
    /\ prevFrom \in 0 .. lapFrom

\* Whatever the writer is in the middle of, the messages it completed in this
\* lap are all in the ring, unharmed, one directly after the other from the
\* first cell on: a reader that walks forward meets them all.
LapReadable ==
    \A i \in lapFrom + 1 .. Len(log) :
        /\ Intact(log[i])
        /\ log[i].at = IF i = lapFrom + 1 THEN Start ELSE EndOf(log[i - 1])

\* The messages of the lap before which lie beyond the writer's position are
\* unharmed too, each one ends where the next begins, and the last of them
\* ends at tailPtr: a reader that walks backwards from tailPtr by the length
\* bytes (RingBuffer::rewind) meets them.
OldLapReadable ==
    /\ \A i \in prevFrom + 1 .. lapFrom :
        /\ log[i].at > ptr => Intact(log[i])
        /\ log[i].at = IF i = prevFrom + 1 THEN Start ELSE EndOf(log[i - 1])
    /\ lapFrom > 0 => EndOf(log[lapFrom]) = tailPtr
    /\ tailPtr = 0 <=> lapFrom = 0

\* Every walk comes to an end where it should.  Between two trace statements
\* the cell after the newest message is the zero timestamp of endMsg.  The cell
\* at tailPtr holds ones from the wrap on until the writer comes by again,
\* which is how a reader recognises the end of the old lap.
Delimited ==
    /\ pc = "idle" /\ lapFrom < Len(log) =>
        ptr = EndOf(log[Len(log)]) /\ mem[ptr] = Zero
    /\ tailPtr > ptr => mem[tailPtr] = Ones

=============================================================================
