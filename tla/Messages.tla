------------------------------ MODULE Messages ------------------------------
(***************************************************************************)
(* Trace statements of every API, and the qttail that prints what they     *)
(* trace: a statement takes an id and writes a descriptor the first time,  *)
(* stores its messages under that id, and Messages::get of qttail          *)
(* (qttail.cpp 71-110) looks the id up among the descriptors that it has   *)
(* parsed, for the rules of MsgFormat to decode and print the message.     *)
(*                                                                         *)
(* The APIs: QTRACE ("cpp", QTFMT and WCQT among it), QTRACEF and QPROFF   *)
(* of C ("c", "cprof"), Python, and Go.  They differ in when a descriptor  *)
(* is due and in whether the first message is stored before it.  Here one  *)
(* statement runs at a time: threads that meet in one are the matter of    *)
(* MsgIds, the ring is that of RingTail, and its levels are enabled.       *)
(***************************************************************************)
EXTENDS MsgFormat

CONSTANT
    Programs    \* APIs, files, statements with their values; max bounds the messages

(* The units of a text of QTFMT, and what is meant by them.  What a brace *)
(* begins that is none of these ends the text.                            *)
Unit == [text |-> [of |-> <<"a">>, is |-> <<Char("a")>>],
         open |-> [of |-> <<"{", "{">>, is |-> <<Char("{")>>],
         close |-> [of |-> <<"}", "}">>, is |-> <<Char("}")>>],
         value |-> [of |-> <<"{", "}">>, is |-> <<Arg("s", {})>>],
         hex |-> [of |-> <<"{", ":", "x", "}">>, is |-> <<Arg("x", {})>>],
         alt |-> [of |-> <<"{", ":", "#", "x", "}">>, is |-> <<Arg("x", {"flags"})>>],
         loose |-> [of |-> <<"}">>, is |-> <<Char("}")>>],
         odd |-> [of |-> <<"{", ":", "a">>, is |-> <<Char("{"), Char(":"), Char("a")>>]]
UnitsOf(st) == /\ st.units \in Seq(DOMAIN Unit)
               /\ \A k \in DOMAIN st.units :
                     st.units[k] \in {"loose", "odd"} => k = Len(st.units)
               /\ st.text = FlattenSeq([k \in DOMAIN st.units |-> Unit[st.units[k]].of])

ASSUME ProgramsAssumption ==
    \A p \in Programs :
        /\ p.api \in {"cpp", "c", "cprof", "python", "go"}
        /\ p.files \in {"one", "threads", "handles"}
        /\ p.max \in Nat
        /\ \A s \in DOMAIN p.stmts :
              LET st == p.stmts[s]
              IN  /\ st.clock \in BOOLEAN /\ st.braces \in BOOLEAN /\ st.long \in BOOLEAN
                  /\ st.key \in Seq(Entry)
                  /\ IF st.braces THEN UnitsOf(st) ELSE st.text \in Seq(Token)
                  /\ st.values # {}
                  /\ \A v \in st.values :
                        /\ v \in Seq(ValueType)
                        /\ \A i \in DOMAIN v \cap DOMAIN st.key : v[i].given <= st.key[i].opt

VARIABLES
    program,     \* the program: its API, files, and statements with their values
    reading,     \* the file that is read, and whether wall clocks are asked for
    ids,         \* the id that a statement keeps: a static variable, _msgId, Go's copy
    nextId,      \* nextMsgId_ of a handle
    pyFmt,       \* msgFormatDict of the Python module
    described,   \* msgIdInitialized_ of a file
    descs,       \* the descriptors in a file
    ring,        \* the messages in a file
    pc,          \* the statement under way, and what it has still to do
    reader,      \* messages_, cur_, std::cout, and what became of qttail
    line,        \* history: the line printed last
    clean,       \* history: no message printed before it left its format behind
    home,        \* history: the files in which a statement met its descriptor
    failed       \* history: the files to which it was not written in full

progVars == <<program, reading>>
idVars == <<ids, nextId, pyFmt, described, descs, home, failed>>
readVars == <<reader, line, clean>>
vars == <<progVars, idVars, ring, pc, readVars>>

Stmt == DOMAIN program.stmts
File == IF program.files = "one" THEN {1} ELSE {1, 2}
Handle(f) == IF program.files = "handles" THEN f ELSE 1

(* What the descriptor of a statement says: for WCQT, line 0 and two more *)
(* numbers.                                                               *)
Text(s) == LET t == program.stmts[s].text
           IN  IF program.stmts[s].braces THEN FmtTokens(t) ELSE t
Clock(s) == program.stmts[s].clock
Key(s) == IF Clock(s) THEN <<Quad, Quad>> \o program.stmts[s].key ELSE program.stmts[s].key

Plain(len) == [given |-> 0, len |-> len]
Idle == [todo |-> <<>>, stmt |-> 0, file |-> 0, vals |-> <<>>]
NoLine == [stmt |-> 0, msg |-> 0, items |-> <<>>, padded |-> FALSE]

(* A dictionary, with a new entry or another one. *)
Enter(dict, id, x) == [i \in DOMAIN dict \cup {id} |-> IF i = id THEN x ELSE dict[i]]

Init ==
    /\ program \in Programs
    /\ reading \in [file : File, wall : BOOLEAN]
    /\ ids = [s \in Stmt |-> 0]
    /\ nextId = [f \in File |-> 1]
    /\ pyFmt = <<>>
    /\ described = [f \in File |-> {}]
    /\ descs = [f \in File |-> <<>>]
    /\ ring = [f \in File |-> <<>>]
    /\ pc = Idle
    /\ reader = [dict |-> <<>>, at |-> 1, os |-> FreshStream, state |-> "on"]
    /\ line = NoLine
    /\ clean = TRUE
    /\ home = [s \in Stmt |-> {}]
    /\ failed = [s \in Stmt |-> {}]

(***************************************************************************)
(* The program                                                             *)
(***************************************************************************)

\* Mutant: an id is enough.
NeedsDescriptorOnce(s, f) == ids[s] = 0

(* QTRACE asks the file, the others look at the id alone. *)
NeedsDescriptor(s, f) ==
    IF program.api = "cpp" THEN ids[s] = 0 \/ ids[s] \notin described[f] ELSE ids[s] = 0

(* QPROFF stores its first message before it writes the descriptor. *)
Order == IF program.api = "cprof" THEN <<"store", "describe">> ELSE <<"describe", "store">>

(* The handles of a Python program follow one another. *)
MayUse(f) == program.api = "python" /\ program.files = "handles" =>
                \A g \in File : g > f => ring[g] = <<>> /\ descs[g] = <<>>

(* A statement is met; MsgDesc allocates its id. *)
Execute(s, f, vals) ==
    /\ pc = Idle
    /\ MapThenSumSet(LAMBDA g : Len(ring[g]), File) < program.max
    /\ MayUse(f)
    /\ LET first == NeedsDescriptor(s, f)
       IN  /\ pc' = [todo |-> IF first THEN Order ELSE <<"store">>,
                     stmt |-> s, file |-> f, vals |-> vals]
           /\ home' = IF first THEN [home EXCEPT ![s] = @ \cup {f}] ELSE home
           /\ IF ids[s] = 0
              THEN /\ ids' = [ids EXCEPT ![s] = nextId[Handle(f)]]
                   /\ nextId' = [nextId EXCEPT ![Handle(f)] = @ + 1]
              ELSE UNCHANGED <<ids, nextId>>
    /\ UNCHANGED <<progVars, pyFmt, described, descs, failed, ring, readVars>>

At(step) == pc.todo # <<>> /\ pc.todo[1] = step
Done == IF Len(pc.todo) = 1 THEN Idle ELSE [pc EXCEPT !.todo = Tail(@)]

(* finish(): write() may store the descriptor, part of it or nothing. *)
Describe(wrote) ==
    LET s == pc.stmt
        f == pc.file
        entry == [id |-> ids[s], stmt |-> s, whole |-> wrote = "whole"]
    IN  /\ At("describe")
        /\ descs' = IF wrote = "none" THEN descs ELSE [descs EXCEPT ![f] = Append(@, entry)]
        /\ described' = [described EXCEPT ![f] = @ \cup {ids[s]}]
        /\ pyFmt' = IF program.api = "python" THEN Enter(pyFmt, ids[s], Key(s)) ELSE pyFmt
        /\ failed' = IF wrote = "whole" THEN failed ELSE [failed EXCEPT ![s] = @ \cup {f}]
        /\ pc' = Done
        /\ UNCHANGED <<progVars, ids, nextId, home, ring, readVars>>

(* The arguments that Python's trace() finds: too many are ignored, for one *)
(* that is missing it takes None.                                           *)
Argument(vals, i) == IF i <= Len(vals) THEN vals[i] ELSE Plain(4)

(* startMsg to endMsg. *)
Store ==
    LET s == pc.stmt
        key == IF program.api = "python" THEN pyFmt[ids[s]] ELSE Key(s)
        all == (IF Clock(s) THEN <<Plain(0), Plain(0)>> ELSE <<>>) \o pc.vals
        vals == [i \in DOMAIN key |-> Argument(all, i)]
        limit == IF program.stmts[s].long THEN LongString ELSE MaxString
    IN  /\ At("store")
        /\ ring' = [ring EXCEPT ![pc.file] = Append(@,
               [id |-> ids[s], stmt |-> s, vals |-> vals, bytes |-> Stored(key, vals, limit)])]
        /\ pc' = Done
        /\ UNCHANGED <<progVars, idVars, readVars>>

(* close() of QuickTrace.py, between two handles: the ids are forgotten. *)
PyClose ==
    /\ program.api = "python" /\ program.files = "handles"
    /\ pc = Idle /\ \E s \in Stmt : ids[s] # 0
    /\ ring[1] # <<>> /\ ring[2] = <<>>
    /\ ids' = [s \in Stmt |-> 0]
    /\ UNCHANGED <<progVars, nextId, pyFmt, described, descs, home, failed, ring, pc, readVars>>

(***************************************************************************)
(* qttail                                                                  *)
(***************************************************************************)
TheRing == ring[reading.file]
TheDescs == descs[reading.file]

(* parse(): the descriptors written since; the first one of an id stays. *)
ParseStep(dict, e) == IF e.id \in DOMAIN dict THEN dict ELSE Enter(dict, e.id, e.stmt)
Parsed(dict) == FoldLeft(LAMBDA d, e : ParseStep(d, e), dict, TheDescs)

(* A key with a type that qttail does not know ends it; a descriptor that *)
(* was cut short leaves the parser astray.                                *)
Trouble ==
    LET bad == {k \in DOMAIN TheDescs : ~TheDescs[k].whole \/ ~Supported(Key(TheDescs[k].stmt))}
    IN  CASE bad = {} -> "on"
          [] bad # {} /\ ~TheDescs[Min(bad)].whole -> "lost"
          [] bad # {} /\ TheDescs[Min(bad)].whole -> "exit"

\* Mutant: the descriptors are parsed once.
DictOnce(id) == IF reader.dict # <<>> THEN reader.dict ELSE Parsed(reader.dict)

(* Messages::get parses on if it does not know the id. *)
Dict(id) == IF id \in DOMAIN reader.dict THEN reader.dict ELSE Parsed(reader.dict)
Fine(id) == id \in DOMAIN reader.dict \/ Trouble = "on"
Desc(s) == [text |-> Text(s), key |-> Key(s), clock |-> Clock(s)]

(* RingBuffer::next: the message is described, and as long as it should be. *)
Accepts(m, dict) ==
    /\ m.id \in DOMAIN dict
    /\ Text(dict[m.id]) # <<>>
    /\ LET n == Length(Formatters(Desc(dict[m.id])), m.bytes)
       IN  Peek(m.bytes, n + 1) = Header + n

(* For the history: a precision stays set, and so does a width that no output *)
(* used up: that of a string, or of anything while failbit is set.            *)
Leaves(s, silent) ==
    \E k \in DOMAIN Text(s) : LET t == Text(s)[k] IN
        /\ IsArg(t)
        /\ \/ "precision" \in t.spec
           \/ "width" \in t.spec /\ (silent \/ \E i \in DOMAIN Key(s) : Key(s)[i].type = "p")

HasNext == reader.state = "on" /\ reader.at <= Len(TheRing)

(* RingBuffer::dump: a timestamp, the message, the end of the line.  When wall *)
(* clocks are asked for, the messages without one are formatted with failbit   *)
(* set.                                                                        *)
Dump ==
    LET m == TheRing[reader.at]
        dict == Dict(m.id)
        s == dict[m.id]
        silent == reading.wall /\ ~Clock(s)
        quiet(os) == [os EXCEPT !.width = silent /\ @]
        st == Format(Formatters(Desc(s)), m.bytes, silent, quiet(reader.os))
    IN  /\ HasNext /\ Fine(m.id) /\ Accepts(m, dict)
        /\ reader' = [dict |-> dict, at |-> reader.at + 1, os |-> quiet(st.os), state |-> "on"]
        /\ line' = IF silent THEN line ELSE
                      [stmt |-> s, msg |-> reader.at, items |-> st.items,
                       padded |-> reader.os.width \/ st.os.width]
        /\ clean' = (clean /\ (line.msg = 0 \/ ~Leaves(line.stmt, FALSE))
                           /\ ~(silent /\ Leaves(s, TRUE)))
        /\ UNCHANGED <<progVars, idVars, ring, pc>>

(* Not a message yet, or never: looked at again, up to corruptionThreshold_ *)
(* times.                                                                   *)
Refused == HasNext /\ Fine(TheRing[reader.at].id)
                   /\ ~Accepts(TheRing[reader.at], Dict(TheRing[reader.at].id))

Retry ==
    /\ Refused
    /\ reader' = [reader EXCEPT !.dict = Dict(TheRing[reader.at].id)]
    /\ UNCHANGED <<progVars, idVars, ring, pc, line, clean>>

GiveUp ==
    /\ Refused
    /\ reader' = [reader EXCEPT !.state = "corrupt"]
    /\ UNCHANGED <<progVars, idVars, ring, pc, line, clean>>

Stop ==
    /\ HasNext /\ ~Fine(TheRing[reader.at].id)
    /\ reader' = [reader EXCEPT !.state = Trouble]
    /\ UNCHANGED <<progVars, idVars, ring, pc, line, clean>>

Next ==
    \/ \E s \in Stmt, f \in File : \E vals \in program.stmts[s].values : Execute(s, f, vals)
    \/ \E wrote \in {"whole", "short", "none"} : Describe(wrote)
    \/ Store \/ PyClose \/ Dump \/ Retry \/ GiveUp \/ Stop

(* A statement returns, and qttail goes on: weak fairness, with the condition *)
(* for qttail's steps written out.                                            *)
MayGoOn == HasNext /\ (Refused => Dict(TheRing[reader.at].id) # reader.dict)

Spec == /\ Init /\ [][Next]_vars
        /\ WF_vars(\E w \in {"whole", "short", "none"} : Describe(w)) /\ WF_vars(Store)
        /\ ([]<>~MayGoOn \/ []<><<Dump \/ Retry \/ Stop>>_vars)

(***************************************************************************)
(* Reference: the line that a statement asks for.                          *)
(***************************************************************************)

Meant(s) == LET st == program.stmts[s]
            IN  IF st.braces THEN FlattenSeq([k \in DOMAIN st.units |-> Unit[st.units[k]].is])
                ELSE st.text

Letters(str) == [k \in DOMAIN str |-> [c |-> str[k]]]
Bytes(m, i) == Put(Key(m.stmt)[i], m.vals[i],
                   IF program.stmts[m.stmt].long THEN LongString ELSE MaxString, i)

(* The numbers of a wall clock are left out if there are values behind them. *)
Skipped(s) == IF Clock(s) /\ program.stmts[s].key # <<>> THEN 2 ELSE 0

(* The value that a placeholder stands for. *)
ArgsTo(s, k) == Cardinality({j \in 1 .. k : IsArg(Meant(s)[j])})
ArgOf(s, k) == Skipped(s) + ArgsTo(s, k)

(* Placeholders and values agree in number. *)
Agrees(s) == ArgOf(s, Len(Meant(s))) = Len(Key(s))

Expected(m) ==
    LET s == m.stmt
        text == Meant(s)
        show(i, hex) == <<[bytes |-> Bytes(m, i),
                           hex |-> hex /\ Key(s)[i].type \in {"u", "s", "i", "q"}]>>
    IN  IF Agrees(s)
        THEN FlattenSeq([k \in DOMAIN text |->
                CASE ~IsArg(text[k]) -> Letters(IF text[k].k = "percent" THEN <<"%">>
                                                ELSE Raw(text[k]))
                  [] IsArg(text[k]) -> Letters(IF text[k].conv = "p" THEN <<"0x">> ELSE <<>>)
                                       \o show(ArgOf(s, k), text[k].conv # "s")])
        ELSE Letters(FlattenSeq([k \in DOMAIN text |-> Raw(text[k])]) \o <<" % (">>) \o
             FlattenSeq([i \in DOMAIN Key(s) |->
                Letters(IF i > 1 THEN <<",">> ELSE <<>>) \o show(i, FALSE)]) \o
             Letters(<<") ">>)

(* The line without its layout. *)
IsValue(item) == "bytes" \in DOMAIN item
Bare(items) ==
    FlattenSeq([k \in DOMAIN items |->
        IF IsValue(items[k]) THEN <<[bytes |-> items[k].bytes, hex |-> items[k].hex]>>
        ELSE Letters(items[k].of)])

(***************************************************************************)
(* Properties                                                              *)
(***************************************************************************)
Decodable(m) == \A i \in DOMAIN m.vals : m.vals[i].len # -1
Fits(m) == Text(m.stmt) # <<>> /\ Header + Len(m.bytes) - 1 < Base

\* The file has no descriptor of this statement: only QTRACE asks whether it
\* has, and none asks whether it was written.
Undescribed(f, s) == f \in failed[s] \/ (program.api # "cpp" /\ f \notin home[s])

\* Whoever reads a file finds the statement of a message under the message's
\* id, in spite of a descriptor's being written once and ids' being shared
\* by the files of a handle.  QTRACE sees to it in every file.  The other APIs
\* do in the file in which the statement met its descriptor; the first message
\* of a QPROFF comes before it.  A descriptor that was not written in full is
\* never written again.
Known ==
    \A f \in File : \A k \in DOMAIN ring[f] :
        LET m == ring[f][k]
            mine == {d \in DOMAIN descs[f] : descs[f][d].id = m.id}
        IN  \/ Undescribed(f, m.stmt)
            \/ At("describe") /\ program.api = "cprof" /\ pc.stmt = m.stmt /\ pc.file = f
            \/ mine # {} /\ descs[f][Min(mine)].stmt = m.stmt /\ descs[f][Min(mine)].whole

\* A message is printed as its statement asks: the text, each placeholder
\* replaced by the bytes that were put for its value, in hexadecimal where that
\* was asked for; text and values apart where they do not agree in number.  It
\* is refused exactly when it is empty, or so long that the byte behind it
\* cannot say how long.
DecodesWhatWasPut ==
    /\ line.msg # 0 =>
          LET m == TheRing[line.msg]
          IN  ~Undescribed(reading.file, m.stmt) /\ Decodable(m) =>
                 line.stmt = m.stmt /\ Bare(line.items) = Expected(m)
    /\ \A k \in DOMAIN TheRing :
          LET m == TheRing[k]
              dict == Parsed(reader.dict)
          IN  Trouble = "on" /\ m.id \in DOMAIN dict /\ dict[m.id] = m.stmt /\ Decodable(m)
                => (Accepts(m, dict) <=> Fits(m))

\* qttail prints every message, also one that it met before its descriptor:
\* it is held up only by one that has none, does not fit, or whose str()
\* raised.
Printed ==
    <>[](HasNext => LET m == TheRing[reader.at]
                    IN  Undescribed(reading.file, m.stmt) \/ ~Fits(m) \/ ~Decodable(m))

\* A width, a precision or a flag is seen in the value that it stands before
\* and nowhere else: not in the text behind it, in another value, or in the
\* next line, as long as no width was given to a string and no precision to
\* anything.
SpecsUndone ==
    LET s == line.stmt
        items == line.items
        number(k) == Skipped(s) + Cardinality({j \in 1 .. k : IsValue(items[j])})
        spec(k) == UNION {Meant(s)[j].spec : j \in
                      {j \in DOMAIN Meant(s) : /\ Agrees(s) /\ IsArg(Meant(s)[j])
                                              /\ ArgOf(s, j) = number(k)}}
    IN  line.msg # 0 /\ clean /\ ~Leaves(s, FALSE) =>
            /\ ~line.padded
            /\ \A k \in DOMAIN items :
                  IF IsValue(items[k])
                  THEN /\ items[k].pad = ("width" \in spec(k))
                       /\ items[k].flags = ("flags" \in spec(k))
                       /\ ~items[k].precise
                  ELSE ~items[k].pad
=============================================================================
