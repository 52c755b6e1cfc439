--------------------------- MODULE MessagesProofs ---------------------------
(***************************************************************************)
(* Proofs about Messages, for every program, API and order of its          *)
(* statements, and any number of statements, messages and files, where a   *)
(* C++ program does not trace through two handles (HandlesApart).          *)
(*                                                                         *)
(* Known: whoever reads a file finds the statement of a message under the  *)
(* message's id (KnownIInv).  DecodesWhatWasPut: the line that qttail      *)
(* prints is the one that the statement asks for (DecodeInv, which rests   *)
(* on KnownIInv and on what FormatProofs proves of one message).           *)
(* SpecsUndone: the formats of a line do not reach beyond their values     *)
(* (SpecsInv).                                                             *)
(***************************************************************************)
EXTENDS FormatProofs

(***************************************************************************)
(* The program: types, and what each action changes.                       *)
(***************************************************************************)

\* A descriptor in a file.
DescType == [id : Nat, stmt : Stmt, whole : BOOLEAN]

\* A message in a ring.
MessageType == [id : Nat, stmt : Stmt, vals : Seq(ValueType), bytes : Seq(Cells)]

\* The statement under way has this still to do.
Due(step) == \E k \in DOMAIN pc.todo : pc.todo[k] = step

\* What the variables of the program hold.
ProgramTypes ==
    /\ program \in Programs
    /\ ids \in [Stmt -> Nat]
    /\ nextId \in [File -> Nat \ {0}]
    /\ described \in [File -> SUBSET Nat]
    /\ descs \in [File -> Seq(DescType)]
    /\ ring \in [File -> Seq(MessageType)]
    /\ home \in [Stmt -> SUBSET File]
    /\ failed \in [Stmt -> SUBSET File]
    /\ DOMAIN pc = {"todo", "stmt", "file", "vals"}
    /\ pc.todo # <<>> =>
          /\ pc.todo \in {<<"describe", "store">>, <<"store">>}
                         \cup (IF program.api = "cprof" THEN {<<"store", "describe">>, <<"describe">>}
                               ELSE {})
          /\ pc.stmt \in Stmt /\ pc.file \in File /\ pc.vals \in program.stmts[pc.stmt].values
          /\ ids[pc.stmt] # 0
    /\ DOMAIN pyFmt \subseteq Nat
    /\ \A i \in DOMAIN pyFmt : pyFmt[i] \in Seq(Entry)
    /\ program.api = "python" => \A s \in Stmt :
          ids[s] # 0 => ids[s] \in DOMAIN pyFmt \/ (Due("describe") /\ pc.stmt = s)

\* What is known of a statement of the program.
LEMMA Statement ==
    ASSUME ProgramTypes, NEW s \in Stmt
    PROVE  LET st == program.stmts[s]
           IN  /\ st.clock \in BOOLEAN /\ st.braces \in BOOLEAN /\ st.long \in BOOLEAN
               /\ st.key \in Seq(Entry)
               /\ IF st.braces THEN UnitsOf(st) ELSE st.text \in Seq(Token)
               /\ \A v \in st.values : /\ v \in Seq(ValueType)
                                       /\ \A i \in DOMAIN v \cap DOMAIN st.key : v[i].given <= st.key[i].opt
BY ProgramsAssumption DEF ProgramTypes, Stmt

\* A key is a sequence of entries.
LEMMA KeyType ==
    ASSUME ProgramTypes, NEW s \in Stmt
    PROVE  Key(s) \in Seq(Entry)
<1>1. Quad \in Entry
  BY DEF Quad, Entry, Size
<1>2. <<Quad, Quad>> \in Seq(Entry)
  BY <1>1
<1>3. program.stmts[s].key \in Seq(Entry)
  BY Statement
<1> QED BY <1>2, <1>3 DEF Key

\* The files of a program, and their handles.
LEMMA FileIs ==
    ASSUME ProgramTypes
    PROVE  /\ File \in {{1}, {1, 2}} /\ 1 \in File
           /\ \A f \in File : Handle(f) \in File /\ (program.files # "handles" => Handle(f) = 1)
           /\ \A f \in File : program.files = "handles" => Handle(f) = f
           /\ program.files = "one" => File = {1}
BY DEF Handle, File

\* What Execute changes, variable by variable.
LEMMA ExecuteDoes ==
    ASSUME ProgramTypes, NEW s \in Stmt, NEW f \in File, NEW vals \in program.stmts[s].values,
           Execute(s, f, vals)
    PROVE  /\ UNCHANGED <<program, reading, pyFmt, described, descs, failed, ring, readVars>>
           /\ pc = Idle /\ MayUse(f)
           /\ \A t \in Stmt : t # s => ids'[t] = ids[t] /\ home'[t] = home[t]
           /\ IF ids[s] = 0 THEN ids'[s] = nextId[Handle(f)] /\ nextId'[Handle(f)] = nextId[Handle(f)] + 1
                                 /\ \A g \in File : g # Handle(f) => nextId'[g] = nextId[g]
              ELSE ids' = ids /\ nextId' = nextId
           /\ ids' \in [Stmt -> Nat] /\ nextId' \in [File -> Nat \ {0}] /\ ids'[s] # 0
           /\ home' \in [Stmt -> SUBSET File]
           /\ home'[s] = IF NeedsDescriptor(s, f) THEN home[s] \cup {f} ELSE home[s]
           /\ pc' = [todo |-> IF NeedsDescriptor(s, f) THEN Order ELSE <<"store">>,
                     stmt |-> s, file |-> f, vals |-> vals]
           /\ Stmt' = Stmt /\ File' = File
<1>1. Handle(f) \in File
  BY FileIs
<1>2. /\ UNCHANGED <<program, reading, pyFmt, described, descs, failed, ring, readVars>>
      /\ pc = Idle /\ MayUse(f)
      /\ pc' = [todo |-> IF NeedsDescriptor(s, f) THEN Order ELSE <<"store">>,
                     stmt |-> s, file |-> f, vals |-> vals]
  BY DEF Execute, progVars
<1>3. home' = IF NeedsDescriptor(s, f) THEN [home EXCEPT ![s] = @ \cup {f}] ELSE home
  BY DEF Execute
<1>4. IF ids[s] = 0
      THEN /\ ids' = [ids EXCEPT ![s] = nextId[Handle(f)]]
           /\ nextId' = [nextId EXCEPT ![Handle(f)] = @ + 1]
      ELSE ids' = ids /\ nextId' = nextId
  BY DEF Execute
<1>5. home \in [Stmt -> SUBSET File] /\ ids \in [Stmt -> Nat] /\ nextId \in [File -> Nat \ {0}]
  BY DEF ProgramTypes
<1>6. /\ home' \in [Stmt -> SUBSET File] /\ \A t \in Stmt : t # s => home'[t] = home[t]
      /\ home'[s] = IF NeedsDescriptor(s, f) THEN home[s] \cup {f} ELSE home[s]
  BY <1>3, <1>5
<1>7. CASE ids[s] = 0
  <2>1. /\ ids' \in [Stmt -> Nat] /\ nextId' \in [File -> Nat \ {0}] /\ ids'[s] # 0
        /\ \A t \in Stmt : t # s => ids'[t] = ids[t]
        /\ ids'[s] = nextId[Handle(f)]
    BY <1>1, <1>4, <1>5, <1>7
  <2>2. /\ nextId'[Handle(f)] = nextId[Handle(f)] + 1
        /\ \A g \in File : g # Handle(f) => nextId'[g] = nextId[g]
    BY <1>1, <1>4, <1>5, <1>7
  <2> QED BY <1>2, <1>6, <1>7, <2>1, <2>2 DEF Stmt, File
<1>8. CASE ids[s] # 0
  BY <1>2, <1>4, <1>5, <1>6, <1>8 DEF Stmt, File
<1> QED BY <1>7, <1>8

\* What Describe changes, variable by variable.
LEMMA DescribeDoes ==
    ASSUME ProgramTypes, NEW wrote \in {"whole", "short", "none"}, Describe(wrote)
    PROVE  LET s == pc.stmt
               f == pc.file
               entry == [id |-> ids[s], stmt |-> s, whole |-> wrote = "whole"]
           IN  /\ UNCHANGED <<program, reading, ids, nextId, home, ring, readVars>>
               /\ Stmt' = Stmt /\ File' = File
               /\ s \in Stmt /\ f \in File /\ ids[s] # 0 /\ ids[s] \in Nat /\ entry \in DescType
               /\ pc.todo = <<"describe", "store">> \/ (program.api = "cprof" /\ pc.todo = <<"describe">>)
               /\ descs' \in [File -> Seq(DescType)]
               /\ \A g \in File : g # f => descs'[g] = descs[g]
               /\ descs'[f] = IF wrote = "none" THEN descs[f] ELSE Append(descs[f], entry)
               /\ described' \in [File -> SUBSET Nat]
               /\ \A g \in File : described'[g] = IF g = f THEN described[g] \cup {ids[s]} ELSE described[g]
               /\ failed' \in [Stmt -> SUBSET File]
               /\ \A t \in Stmt : failed'[t] = IF wrote # "whole" /\ t = s THEN failed[t] \cup {f} ELSE failed[t]
               /\ pyFmt' = IF program.api = "python" THEN Enter(pyFmt, ids[s], Key(s)) ELSE pyFmt
               /\ IF pc.todo = <<"describe">> THEN pc' = Idle
                  ELSE /\ DOMAIN pc' = {"todo", "stmt", "file", "vals"}
                       /\ pc'.todo = <<"store">> /\ pc'.stmt = s /\ pc'.file = f /\ pc'.vals = pc.vals
<1> DEFINE s == pc.stmt
           f == pc.file
           entry == [id |-> ids[s], stmt |-> s, whole |-> wrote = "whole"]
<1>0. UNCHANGED <<program, reading, ids, nextId, home, ring, readVars>> /\ Stmt' = Stmt /\ File' = File
  BY DEF Describe, progVars, Stmt, File
<1>1. /\ s \in Stmt /\ f \in File /\ ids[s] # 0 /\ ids[s] \in Nat
      /\ pc.todo = <<"describe", "store">> \/ (program.api = "cprof" /\ pc.todo = <<"describe">>)
  BY DEF Describe, At, ProgramTypes
<1>2. entry \in DescType
  BY <1>1 DEF DescType
<1>3. /\ descs' = IF wrote = "none" THEN descs ELSE [descs EXCEPT ![f] = Append(@, entry)]
      /\ described' = [described EXCEPT ![f] = @ \cup {ids[s]}]
      /\ pyFmt' = IF program.api = "python" THEN Enter(pyFmt, ids[s], Key(s)) ELSE pyFmt
      /\ failed' = IF wrote = "whole" THEN failed ELSE [failed EXCEPT ![s] = @ \cup {f}]
      /\ pc' = Done
  BY DEF Describe
<1>4. /\ descs \in [File -> Seq(DescType)] /\ described \in [File -> SUBSET Nat]
      /\ failed \in [Stmt -> SUBSET File] /\ DOMAIN pc = {"todo", "stmt", "file", "vals"}
  BY DEF ProgramTypes
<1> HIDE DEF entry
<1>5. /\ descs' \in [File -> Seq(DescType)]
      /\ \A g \in File : g # f => descs'[g] = descs[g]
      /\ descs'[f] = IF wrote = "none" THEN descs[f] ELSE Append(descs[f], entry)
  <2>1. Append(descs[f], entry) \in Seq(DescType)
    BY <1>1, <1>2, <1>4
  <2> QED BY <1>1, <1>3, <1>4, <2>1
<1>6. /\ described' \in [File -> SUBSET Nat]
      /\ \A g \in File : described'[g] = IF g = f THEN described[g] \cup {ids[s]} ELSE described[g]
  BY <1>1, <1>3, <1>4
<1>7. /\ failed' \in [Stmt -> SUBSET File]
      /\ \A t \in Stmt : failed'[t] = IF wrote # "whole" /\ t = s THEN failed[t] \cup {f} ELSE failed[t]
  BY <1>1, <1>3, <1>4
<1>8. IF pc.todo = <<"describe">> THEN pc' = Idle
      ELSE /\ DOMAIN pc' = {"todo", "stmt", "file", "vals"}
           /\ pc'.todo = <<"store">> /\ pc'.stmt = s /\ pc'.file = f /\ pc'.vals = pc.vals
  <2>1. CASE pc.todo = <<"describe">>
    BY <1>3, <2>1 DEF Done
  <2>2. CASE pc.todo = <<"describe", "store">>
    <3>1. Len(pc.todo) = 2 /\ Tail(pc.todo) = <<"store">> /\ pc.todo # <<"describe">>
      BY <2>2
    <3>2. pc' = [pc EXCEPT !.todo = Tail(pc.todo)]
      BY <1>3, <3>1 DEF Done
    <3>3. DOMAIN pc' = DOMAIN pc /\ pc'.todo = Tail(pc.todo) /\ pc'.stmt = s /\ pc'.file = f /\ pc'.vals = pc.vals
      BY <3>2, <1>4
    <3> QED BY <1>4, <3>1, <3>3
  <2> QED BY <1>1, <2>1, <2>2
<1> QED BY <1>0, <1>1, <1>2, <1>3, <1>5, <1>6, <1>7, <1>8 DEF entry

\* Where a string of this statement is cut.
Limit(s) == IF program.stmts[s].long THEN LongString ELSE MaxString

\* The values of a message, where those of the clock and those left out are counted.
ValsFor(s, key, vals) ==
    [i \in DOMAIN key |-> Argument((IF Clock(s) THEN <<Plain(0), Plain(0)>> ELSE <<>>) \o vals, i)]

\* There are as many values in a message as there are entries in its key.
LEMMA ValsType ==
    ASSUME ProgramTypes, NEW s \in Stmt, NEW key \in Seq(Entry), NEW vals \in program.stmts[s].values
    PROVE  /\ ValsFor(s, key, vals) \in Seq(ValueType)
           /\ Len(ValsFor(s, key, vals)) = Len(key)
<1>1. vals \in Seq(ValueType)
  BY Statement
<1>2. \A n \in Nat : Plain(n) \in ValueType
  BY DEF Plain, ValueType
<1>3. (IF Clock(s) THEN <<Plain(0), Plain(0)>> ELSE <<>>) \o vals \in Seq(ValueType)
  <2>1. <<Plain(0), Plain(0)>> \in Seq(ValueType) /\ <<>> \in Seq(ValueType)
    BY <1>2
  <2> QED BY <1>1, <2>1
<1> DEFINE all == (IF Clock(s) THEN <<Plain(0), Plain(0)>> ELSE <<>>) \o vals
<1> HIDE DEF all
<1>4. \A i \in 1 .. Len(key) : Argument(all, i) \in ValueType
  BY <1>2, <1>3 DEF Argument, all
<1>5. ValsFor(s, key, vals) = [i \in 1 .. Len(key) |-> Argument(all, i)]
  BY DEF ValsFor, all
<1> QED BY <1>4, <1>5

\* What Store changes, variable by variable.
LEMMA StoreDoes ==
    ASSUME ProgramTypes, Store
    PROVE  LET s == pc.stmt
               f == pc.file
               key == IF program.api = "python" THEN pyFmt[ids[s]] ELSE Key(s)
               m == [id |-> ids[s], stmt |-> s, vals |-> ValsFor(s, key, pc.vals),
                     bytes |-> Stored(key, ValsFor(s, key, pc.vals), Limit(s))]
           IN  /\ UNCHANGED <<program, reading, ids, nextId, home, descs, described, failed, pyFmt, readVars>>
               /\ Stmt' = Stmt /\ File' = File
               /\ s \in Stmt /\ f \in File /\ ids[s] # 0 /\ ids[s] \in Nat
               /\ key \in Seq(Entry) /\ m \in MessageType
               /\ pc.todo = <<"store">> \/ (program.api = "cprof" /\ pc.todo = <<"store", "describe">>)
               /\ ring' \in [File -> Seq(MessageType)]
               /\ \A g \in File : g # f => ring'[g] = ring[g]
               /\ ring'[f] = Append(ring[f], m)
               /\ IF pc.todo = <<"store">> THEN pc' = Idle
                  ELSE /\ DOMAIN pc' = {"todo", "stmt", "file", "vals"}
                       /\ pc'.todo = <<"describe">> /\ pc'.stmt = s /\ pc'.file = f /\ pc'.vals = pc.vals
<1> DEFINE s == pc.stmt
           f == pc.file
           key == IF program.api = "python" THEN pyFmt[ids[s]] ELSE Key(s)
           m == [id |-> ids[s], stmt |-> s, vals |-> ValsFor(s, key, pc.vals),
                     bytes |-> Stored(key, ValsFor(s, key, pc.vals), Limit(s))]
<1>0. /\ UNCHANGED <<program, reading, ids, nextId, home, descs, described, failed, pyFmt, readVars>>
      /\ Stmt' = Stmt /\ File' = File
  BY DEF Store, progVars, idVars, Stmt, File
<1>1. /\ s \in Stmt /\ f \in File /\ ids[s] # 0 /\ ids[s] \in Nat /\ pc.vals \in program.stmts[s].values
      /\ pc.todo = <<"store">> \/ (program.api = "cprof" /\ pc.todo = <<"store", "describe">>)
  BY DEF Store, At, ProgramTypes
<1>2. key \in Seq(Entry)
  <2>1. Key(s) \in Seq(Entry)
    BY <1>1, KeyType
  <2>2. program.api = "python" => pyFmt[ids[s]] \in Seq(Entry)
    <3>1. program.api = "python" => ~Due("describe")
      BY <1>1 DEF Due
    <3> QED BY <1>1, <3>1 DEF ProgramTypes
  <2> QED BY <2>1, <2>2
<1>3. m \in MessageType
  <2>1. /\ ValsFor(s, key, pc.vals) \in Seq(ValueType)
        /\ Len(ValsFor(s, key, pc.vals)) = Len(key)
    <3> HIDE DEF s, key
    <3> QED BY <1>1, <1>2, ValsType
  <2>2. Limit(s) \in Nat
    BY <1>1, WidthAssumption DEF Limit
  <2>3. Stored(key, ValsFor(s, key, pc.vals), Limit(s)) \in Seq(Cells)
    <3> HIDE DEF s, key
    <3> QED BY <1>2, <2>1, <2>2, StoredType
  <2> HIDE DEF s, key
  <2> QED BY <1>1, <2>1, <2>3 DEF MessageType
<1>4. ring' = [ring EXCEPT ![f] = Append(@, m)] /\ pc' = Done
  BY DEF Store, ValsFor, Limit
<1>5. ring \in [File -> Seq(MessageType)] /\ DOMAIN pc = {"todo", "stmt", "file", "vals"}
  BY DEF ProgramTypes
<1> HIDE DEF m
<1>6. /\ ring' \in [File -> Seq(MessageType)]
      /\ \A g \in File : g # f => ring'[g] = ring[g]
      /\ ring'[f] = Append(ring[f], m)
  <2>1. Append(ring[f], m) \in Seq(MessageType)
    BY <1>1, <1>3, <1>5
  <2> QED BY <1>1, <1>4, <1>5, <2>1
<1>7. IF pc.todo = <<"store">> THEN pc' = Idle
      ELSE /\ DOMAIN pc' = {"todo", "stmt", "file", "vals"}
           /\ pc'.todo = <<"describe">> /\ pc'.stmt = s /\ pc'.file = f /\ pc'.vals = pc.vals
  <2>1. CASE pc.todo = <<"store">>
    BY <1>4, <2>1 DEF Done
  <2>2. CASE pc.todo = <<"store", "describe">>
    <3>1. Len(pc.todo) = 2 /\ Tail(pc.todo) = <<"describe">> /\ pc.todo # <<"store">>
      BY <2>2
    <3>2. pc' = [pc EXCEPT !.todo = Tail(pc.todo)]
      BY <1>4, <3>1 DEF Done
    <3>3. DOMAIN pc' = DOMAIN pc /\ pc'.todo = Tail(pc.todo) /\ pc'.stmt = s /\ pc'.file = f /\ pc'.vals = pc.vals
      BY <3>2, <1>5
    <3> QED BY <1>5, <3>1, <3>3
  <2> QED BY <1>1, <2>1, <2>2
<1> QED BY <1>0, <1>1, <1>2, <1>3, <1>6, <1>7 DEF m

\* The descriptor that Describe appends, if it appends one.
LEMMA DescribeAdds ==
    ASSUME ProgramTypes, NEW wrote \in {"whole", "short", "none"}, Describe(wrote)
    PROVE  \E s \in Stmt, f \in File, entry \in DescType :
              /\ UNCHANGED <<program, reading, home, ring, readVars>>
              /\ \A g \in File : g # f => descs'[g] = descs[g]
              /\ descs'[f] = descs[f] \/ descs'[f] = Append(descs[f], entry)
<1> DEFINE entry == [id |-> ids[pc.stmt], stmt |-> pc.stmt, whole |-> wrote = "whole"]
<1>1. /\ UNCHANGED <<program, reading, home, ring, readVars>>
      /\ pc.stmt \in Stmt /\ pc.file \in File /\ entry \in DescType
      /\ \A g \in File : g # pc.file => descs'[g] = descs[g]
      /\ descs'[pc.file] = IF wrote = "none" THEN descs[pc.file] ELSE Append(descs[pc.file], entry)
  BY DescribeDoes
<1> HIDE DEF entry
<1>2. descs'[pc.file] = descs[pc.file] \/ descs'[pc.file] = Append(descs[pc.file], entry)
  BY <1>1
<1> QED BY <1>1, <1>2

\* The message that Store appends.
LEMMA StoreAdds ==
    ASSUME ProgramTypes, Store
    PROVE  \E s \in Stmt, f \in File, n \in Nat, new \in MessageType :
              /\ s = pc.stmt /\ f = pc.file /\ n = ids[pc.stmt] /\ new.stmt = s /\ new.id = n
              /\ ring'[f] = Append(ring[f], new)
              /\ \A g \in File : g # f => ring'[g] = ring[g]
<1> DEFINE key == IF program.api = "python" THEN pyFmt[ids[pc.stmt]] ELSE Key(pc.stmt)
           m == [id |-> ids[pc.stmt], stmt |-> pc.stmt, vals |-> ValsFor(pc.stmt, key, pc.vals),
                 bytes |-> Stored(key, ValsFor(pc.stmt, key, pc.vals), Limit(pc.stmt))]
<1>1. /\ pc.stmt \in Stmt /\ pc.file \in File /\ ids[pc.stmt] \in Nat /\ m \in MessageType
      /\ \A g \in File : g # pc.file => ring'[g] = ring[g]
      /\ ring'[pc.file] = Append(ring[pc.file], m)
  BY StoreDoes
<1>2. m.stmt = pc.stmt /\ m.id = ids[pc.stmt]
  OBVIOUS
<1> HIDE DEF m
<1> QED BY <1>1, <1>2

\* A step of qttail.
Reading == Dump \/ Retry \/ GiveUp \/ Stop

\* What PyClose changes, variable by variable.
LEMMA PyCloseDoes ==
    ASSUME ProgramTypes, PyClose
    PROVE  /\ UNCHANGED <<program, reading, nextId, pyFmt, described, descs, home, failed, ring, pc, readVars>>
           /\ Stmt' = Stmt /\ File' = File
           /\ program.api = "python" /\ program.files = "handles" /\ pc = Idle
           /\ ring[1] # <<>> /\ ring[2] = <<>>
           /\ ids' \in [Stmt -> Nat] /\ \A s \in Stmt : ids'[s] = 0
BY DEF PyClose, progVars, Stmt, File

\* qttail changes nothing of the program.
LEMMA ReadingDoes ==
    ASSUME Reading
    PROVE  UNCHANGED <<progVars, idVars, ring, pc>>
BY DEF Reading, Dump, Retry, GiveUp, Stop

\* The types hold at the start.
LEMMA InitTypes == Init => ProgramTypes
<1> SUFFICES ASSUME Init PROVE ProgramTypes
  OBVIOUS
<1>1. 1 \in Nat \ {0} /\ 0 \in Nat /\ pc.todo = <<>>
  BY DEF Init, Idle
<1> QED BY <1>1 DEF Init, ProgramTypes, Idle, Due

\* Execute keeps the types.
LEMMA ExecuteTypes ==
    ASSUME ProgramTypes, NEW s \in Stmt, NEW f \in File, NEW vals \in program.stmts[s].values,
           Execute(s, f, vals)
    PROVE  ProgramTypes'
<1>0. /\ UNCHANGED <<program, pyFmt, described, descs, failed, ring>>
      /\ pc = Idle
      /\ \A t \in Stmt : t # s => ids'[t] = ids[t] /\ home'[t] = home[t]
      /\ ids[s] # 0 => ids' = ids
      /\ ids' \in [Stmt -> Nat] /\ nextId' \in [File -> Nat \ {0}] /\ ids'[s] # 0
      /\ home' \in [Stmt -> SUBSET File]
      /\ pc' = [todo |-> IF NeedsDescriptor(s, f) THEN Order ELSE <<"store">>,
                stmt |-> s, file |-> f, vals |-> vals]
      /\ Stmt' = Stmt /\ File' = File
  BY ExecuteDoes
<1>1. DescType' = DescType /\ MessageType' = MessageType
  BY <1>0 DEF DescType, MessageType
<1>2. /\ DOMAIN pc' = {"todo", "stmt", "file", "vals"} /\ pc'.stmt = s /\ pc'.file = f /\ pc'.vals = vals
      /\ pc'.todo = IF NeedsDescriptor(s, f) THEN Order ELSE <<"store">>
  BY <1>0
<1>3. pc'.todo \in {<<"describe", "store">>, <<"store">>}
                   \cup (IF program.api = "cprof" THEN {<<"store", "describe">>, <<"describe">>} ELSE {})
  BY <1>2 DEF Order
<1>4. program.api = "python" /\ ids[s] = 0 => Due("describe")'
  <2>1. SUFFICES ASSUME program.api = "python", ids[s] = 0 PROVE Due("describe")'
    OBVIOUS
  <2>2. pc'.todo = <<"describe", "store">>
    BY <2>1, <1>2 DEF NeedsDescriptor, Order
  <2> QED BY <2>2 DEF Due
<1>5. \A t \in Stmt : ids[t] # 0 /\ program.api = "python" => ids[t] \in DOMAIN pyFmt
  BY <1>0 DEF ProgramTypes, Idle, Due
<1>6. program.api = "python" => \A t \in Stmt :
          ids'[t] # 0 => ids'[t] \in DOMAIN pyFmt \/ (Due("describe")' /\ pc'.stmt = t)
  BY <1>0, <1>2, <1>4, <1>5
<1> QED BY <1>0, <1>1, <1>2, <1>3, <1>6 DEF ProgramTypes

\* Describe keeps the types.
LEMMA DescribeTypes ==
    ASSUME ProgramTypes, NEW wrote \in {"whole", "short", "none"}, Describe(wrote)
    PROVE  ProgramTypes'
<1> DEFINE s == pc.stmt
           f == pc.file
<1>0. /\ UNCHANGED <<program, ids, nextId, home, ring>>
      /\ Stmt' = Stmt /\ File' = File
      /\ s \in Stmt /\ f \in File /\ ids[s] # 0 /\ ids[s] \in Nat
      /\ descs' \in [File -> Seq(DescType)]
      /\ described' \in [File -> SUBSET Nat]
      /\ failed' \in [Stmt -> SUBSET File]
      /\ pyFmt' = IF program.api = "python" THEN Enter(pyFmt, ids[s], Key(s)) ELSE pyFmt
      /\ IF pc.todo = <<"describe">> THEN pc' = Idle
         ELSE /\ DOMAIN pc' = {"todo", "stmt", "file", "vals"}
              /\ pc'.todo = <<"store">> /\ pc'.stmt = s /\ pc'.file = f /\ pc'.vals = pc.vals
  BY DescribeDoes
<1>1. DescType' = DescType /\ MessageType' = MessageType
  BY <1>0 DEF DescType, MessageType
<1>2. pc.vals \in program.stmts[s].values
  BY DEF Describe, At, ProgramTypes
<1>3. /\ DOMAIN pc' = {"todo", "stmt", "file", "vals"}
      /\ pc'.todo # <<>> => pc'.todo = <<"store">> /\ pc'.stmt = s /\ pc'.file = f /\ pc'.vals = pc.vals
  BY <1>0 DEF Idle
<1>4. /\ DOMAIN pyFmt' \subseteq Nat /\ \A i \in DOMAIN pyFmt' : pyFmt'[i] \in Seq(Entry)
      /\ DOMAIN pyFmt \subseteq DOMAIN pyFmt'
      /\ program.api = "python" => ids[s] \in DOMAIN pyFmt'
  <2>1. Key(s) \in Seq(Entry)
    BY <1>0, KeyType
  <2> QED BY <1>0, <2>1 DEF ProgramTypes, Enter
<1>5. program.api = "python" => \A t \in Stmt : ids[t] # 0 => ids[t] \in DOMAIN pyFmt'
  BY <1>4, <1>0 DEF ProgramTypes
<1> QED BY <1>0, <1>1, <1>2, <1>3, <1>4, <1>5 DEF ProgramTypes

\* Store keeps the types.
LEMMA StoreTypes ==
    ASSUME ProgramTypes, Store
    PROVE  ProgramTypes'
<1> DEFINE s == pc.stmt
           f == pc.file
<1>0. /\ UNCHANGED <<program, ids, nextId, home, descs, described, failed, pyFmt>>
      /\ Stmt' = Stmt /\ File' = File
      /\ s \in Stmt /\ f \in File /\ ids[s] # 0
      /\ pc.todo = <<"store">> \/ (program.api = "cprof" /\ pc.todo = <<"store", "describe">>)
      /\ ring' \in [File -> Seq(MessageType)]
      /\ IF pc.todo = <<"store">> THEN pc' = Idle
         ELSE /\ DOMAIN pc' = {"todo", "stmt", "file", "vals"}
              /\ pc'.todo = <<"describe">> /\ pc'.stmt = s /\ pc'.file = f /\ pc'.vals = pc.vals
  BY StoreDoes
<1>1. DescType' = DescType /\ MessageType' = MessageType
  BY <1>0 DEF DescType, MessageType
<1>2. pc.vals \in program.stmts[s].values
  BY DEF Store, At, ProgramTypes
<1>3. /\ DOMAIN pc' = {"todo", "stmt", "file", "vals"}
      /\ pc'.todo # <<>> => /\ program.api = "cprof" /\ pc'.todo = <<"describe">>
                            /\ pc'.stmt = s /\ pc'.file = f /\ pc'.vals = pc.vals
  BY <1>0 DEF Idle
<1>4. program.api = "python" => \A t \in Stmt : ids[t] # 0 => ids[t] \in DOMAIN pyFmt
  BY <1>0 DEF ProgramTypes, Due
<1> QED BY <1>0, <1>1, <1>2, <1>3, <1>4 DEF ProgramTypes

\* What changes nothing of the program keeps the types.
LEMMA OtherTypes ==
    ASSUME ProgramTypes, UNCHANGED <<progVars, idVars, ring, pc>>
    PROVE  ProgramTypes'
<1>0. /\ UNCHANGED <<program, ids, nextId, home, descs, described, failed, pyFmt, ring, pc>>
      /\ Stmt' = Stmt /\ File' = File
  BY DEF progVars, idVars, Stmt, File
<1>1. DescType' = DescType /\ MessageType' = MessageType /\ (Due("describe") <=> Due("describe")')
  BY <1>0 DEF DescType, MessageType, Due
<1> QED BY <1>0, <1>1 DEF ProgramTypes

\* Every step keeps the types.
LEMMA NextTypes ==
    ASSUME ProgramTypes, [Next]_vars
    PROVE  ProgramTypes'
<1>1. ASSUME NEW s \in Stmt, NEW f \in File, NEW vals \in program.stmts[s].values, Execute(s, f, vals)
      PROVE  ProgramTypes'
  BY <1>1, ExecuteTypes
<1>2. ASSUME NEW wrote \in {"whole", "short", "none"}, Describe(wrote)
      PROVE  ProgramTypes'
  BY <1>2, DescribeTypes
<1>3. CASE Store
  BY <1>3, StoreTypes
<1>4. CASE PyClose
  <2>1. /\ UNCHANGED <<program, nextId, home, descs, described, failed, pyFmt, ring, pc>>
        /\ Stmt' = Stmt /\ File' = File /\ pc = Idle
        /\ ids' \in [Stmt -> Nat] /\ \A s \in Stmt : ids'[s] = 0
    BY <1>4, PyCloseDoes
  <2>2. DescType' = DescType /\ MessageType' = MessageType /\ pc.todo = <<>>
    BY <2>1 DEF DescType, MessageType, Idle
  <2> QED BY <2>1, <2>2 DEF ProgramTypes
<1>5. CASE Reading
  BY <1>5, ReadingDoes, OtherTypes
<1>6. CASE UNCHANGED vars
  <2>1. UNCHANGED <<progVars, idVars, ring, pc>>
    BY <1>6 DEF vars
  <2> QED BY <2>1, OtherTypes
<1> QED BY <1>1, <1>2, <1>3, <1>4, <1>5, <1>6 DEF Next, Reading

(***************************************************************************)
(* Known: whom an id means.                                                *)
(***************************************************************************)

\* Files of two handles that threads of one C++ program trace into share no ids.
HandlesApart == \A p \in Programs : p.api = "cpp" => p.files # "handles"

\* The file in which a statement got the id that it keeps.
GaveId(s, f) == f \in home[s] /\ \A g \in home[s] : g <= f

\* File f has a descriptor of statement s with id i.
HasDesc(f, i, s) ==
    \E d \in DOMAIN descs[f] : descs[f][d].id = i /\ descs[f][d].stmt = s

\* A Python program that closes its handle and opens another one.
TwoHandles == program.api = "python" /\ program.files = "handles"

\* The descriptor of s is about to be written to f.
Describing(s, f) == Due("describe") /\ pc.stmt = s /\ pc.file = f

\* Ids of a handle are handed out once.
IdsGiven ==
    /\ \A s \in Stmt : ids[s] # 0 => \E f \in File : GaveId(s, f) /\ ids[s] < nextId[Handle(f)]
    /\ \A s, t \in Stmt : s # t /\ ids[s] # 0 /\ ids[t] = ids[s] =>
          \A f, g \in File : GaveId(s, f) /\ GaveId(t, g) => Handle(f) # Handle(g)
    /\ \A f \in File : \A i \in described[f] : i < nextId[Handle(f)]

\* Where statements met their descriptors: none of them before it has an id,
\* and but one file for every API that asks for the id alone.
Homes ==
    \A s \in Stmt :
        /\ ids[s] = 0 => home[s] = {} \/ TwoHandles
        /\ program.api # "cpp" => TwoHandles \/ \A f, g \in home[s] : f = g
        /\ TwoHandles /\ 2 \in home[s] => ring[2] # <<>> \/ (pc.todo # <<>> /\ pc.file = 2)

\* Id i of file f is that of statement s.
Means(f, i, s) ==
    /\ i # 0 /\ i < nextId[Handle(f)]
    /\ \A d \in DOMAIN descs[f] : descs[f][d].id = i => descs[f][d].stmt = s
    /\ \A t \in Stmt : t # s /\ ids[t] = i => \A g \in File : GaveId(t, g) => Handle(g) # Handle(f)

\* The descriptor e of file f.
Described(f, e) == /\ f \in home[e.stmt]
                   /\ e.whole \/ f \in failed[e.stmt]
                   /\ Means(f, e.id, e.stmt)

\* Every descriptor belongs to one who met it there, and its id means that one.
Entries == \A f \in File : \A d \in DOMAIN descs[f] : Described(f, descs[f][d])

\* The message m of file f.
Traced(f, m) ==
    /\ f \notin home[m.stmt] => program.api # "cpp" /\ home[m.stmt] # {} /\ ids[m.stmt] # 0
    /\ f \in home[m.stmt] => /\ Means(f, m.id, m.stmt)
                             /\ \/ f \in failed[m.stmt]
                                \/ HasDesc(f, m.id, m.stmt)
                                \/ /\ program.api = "cprof" /\ At("describe")
                                   /\ Describing(m.stmt, f) /\ m.id = ids[m.stmt]

\* Every message of every file.
AllTraced == \A f \in File : \A k \in DOMAIN ring[f] : Traced(f, ring[f][k])

\* A statement whose id was described, or is about to be.
Filed ==
    \A s \in Stmt, f \in File :
         ids[s] # 0 /\ (IF program.api = "cpp" THEN ids[s] \in described[f] ELSE GaveId(s, f))
         => /\ f \in home[s]
            /\ f \in failed[s] \/ HasDesc(f, ids[s], s) \/ Describing(s, f)

\* The statement under way has met its descriptor if it is one that asks the file.
Running ==
    pc.todo # <<>> =>
        /\ pc.file \in home[pc.stmt] => program.api = "cpp" \/ GaveId(pc.stmt, pc.file)
        /\ Due("describe") \/ program.api = "cpp" => pc.file \in home[pc.stmt]
        /\ pc.todo = <<"store">> /\ program.api = "cpp" => ids[pc.stmt] \in described[pc.file]

\* The inductive invariant.
KnownIInv == ProgramTypes /\ IdsGiven /\ Homes /\ Entries /\ AllTraced /\ Filed /\ Running

\* There is one such file.
LEMMA GaveOne ==
    ASSUME ProgramTypes, NEW s \in Stmt, NEW f \in File, NEW g \in File, GaveId(s, f), GaveId(s, g)
    PROVE  f = g
<1>1. f \in Nat /\ g \in Nat /\ f <= g /\ g <= f
  BY DEF GaveId, File
<1> QED BY <1>1

\* The files of a C++ program have one handle.
LEMMA OneHandle ==
    ASSUME HandlesApart, ProgramTypes, program.api = "cpp"
    PROVE  \A f, g \in File : Handle(f) = Handle(g)
BY FileIs DEF HandlesApart, ProgramTypes

\* The types of what a file holds.
LEMMA Stored1 ==
    ASSUME ProgramTypes, NEW f \in File
    PROVE  /\ \A d \in DOMAIN descs[f] : /\ descs[f][d] \in DescType
                                          /\ descs[f][d].id \in Nat /\ descs[f][d].stmt \in Stmt
                                          /\ descs[f][d].whole \in BOOLEAN
           /\ \A k \in DOMAIN ring[f] : /\ ring[f][k] \in MessageType
                                         /\ ring[f][k].id \in Nat /\ ring[f][k].stmt \in Stmt
                                         /\ ring[f][k].vals \in Seq(ValueType)
                                         /\ ring[f][k].bytes \in Seq(Cells)
<1>1. descs[f] \in Seq(DescType) /\ ring[f] \in Seq(MessageType)
  BY DEF ProgramTypes
<1>2. \A d \in DOMAIN descs[f] : descs[f][d] \in DescType
  BY <1>1
<1>3. \A k \in DOMAIN ring[f] : ring[f][k] \in MessageType
  BY <1>1
<1> QED BY <1>2, <1>3 DEF DescType, MessageType

\* The id that a statement has in a file is its own there.
LEMMA OwnId ==
    ASSUME HandlesApart, ProgramTypes, IdsGiven, Entries,
           NEW s \in Stmt, NEW f \in File, ids[s] # 0, program.api = "cpp" \/ GaveId(s, f)
    PROVE  /\ Means(f, ids[s], s)
           /\ \A st \in Stmt : Means(f, ids[s], st) => st = s
<1>1. PICK g \in File : GaveId(s, g) /\ ids[s] < nextId[Handle(g)]
  BY DEF IdsGiven
<1>2. Handle(g) = Handle(f)
  <2>1. CASE program.api = "cpp"
    BY <2>1, OneHandle
  <2>2. CASE GaveId(s, f)
    BY <1>1, <2>2, GaveOne
  <2> QED BY <2>1, <2>2
<1>3. \A st \in Stmt : Means(f, ids[s], st) => st = s
  BY <1>1, <1>2 DEF Means
<1>4. \A d \in DOMAIN descs[f] : descs[f][d].id = ids[s] => descs[f][d].stmt = s
  <2> TAKE d \in DOMAIN descs[f]
  <2>1. descs[f][d].stmt \in Stmt
    BY Stored1
  <2> QED BY <1>3, <2>1 DEF Entries, Described
<1>5. \A t \in Stmt : t # s /\ ids[t] = ids[s] => \A h \in File : GaveId(t, h) => Handle(h) # Handle(f)
  BY <1>1, <1>2 DEF IdsGiven
<1> QED BY <1>1, <1>2, <1>3, <1>4, <1>5 DEF Means

\* Execute keeps the invariant: an id that is handed out is new to its handle.
LEMMA ExecuteKnown ==
    ASSUME HandlesApart, KnownIInv,
           NEW s \in Stmt, NEW f \in File, NEW vals \in program.stmts[s].values, Execute(s, f, vals)
    PROVE  KnownIInv'
<1>0. /\ UNCHANGED <<program, described, descs, failed, ring>>
      /\ pc = Idle /\ MayUse(f)
      /\ \A t \in Stmt : t # s => ids'[t] = ids[t] /\ home'[t] = home[t]
      /\ IF ids[s] = 0 THEN ids'[s] = nextId[Handle(f)] /\ nextId'[Handle(f)] = nextId[Handle(f)] + 1
                            /\ \A g \in File : g # Handle(f) => nextId'[g] = nextId[g]
         ELSE ids' = ids /\ nextId' = nextId
      /\ ids' \in [Stmt -> Nat] /\ nextId' \in [File -> Nat \ {0}] /\ ids'[s] # 0
      /\ home' \in [Stmt -> SUBSET File]
      /\ home'[s] = IF NeedsDescriptor(s, f) THEN home[s] \cup {f} ELSE home[s]
      /\ pc' = [todo |-> IF NeedsDescriptor(s, f) THEN Order ELSE <<"store">>,
                stmt |-> s, file |-> f, vals |-> vals]
      /\ Stmt' = Stmt /\ File' = File
  BY ExecuteDoes DEF KnownIInv
<1>1. ProgramTypes /\ ProgramTypes'
  BY ExecuteTypes DEF KnownIInv
<1>2. /\ ids \in [Stmt -> Nat] /\ nextId \in [File -> Nat \ {0}] /\ home \in [Stmt -> SUBSET File]
      /\ descs \in [File -> Seq(DescType)] /\ ring \in [File -> Seq(MessageType)]
  BY <1>1 DEF ProgramTypes
<1>3. \A g \in File : Handle(g) \in File /\ Handle(g)' = Handle(g) /\ g \in Nat
  BY <1>0, <1>1, FileIs DEF Handle, File
<1>4. \A g \in File : nextId'[g] >= nextId[g]
  <2> TAKE g \in File
  <2>1. nextId[g] \in Nat /\ nextId'[g] \in Nat
    BY <1>0, <1>2
  <2>2. nextId'[g] = nextId[g] \/ nextId'[g] = nextId[g] + 1
    BY <1>0
  <2> QED BY <2>1, <2>2
<1>5. \A t \in Stmt : home[t] \subseteq home'[t] /\ home'[t] \subseteq File
  BY <1>0
<1>6. NeedsDescriptor(s, f) => GaveId(s, f)' \/ program.api = "cpp"
  <2>1. SUFFICES ASSUME NeedsDescriptor(s, f), program.api # "cpp" PROVE GaveId(s, f)'
    OBVIOUS
  <2>2. ids[s] = 0 /\ home'[s] = home[s] \cup {f}
    BY <1>0, <2>1 DEF NeedsDescriptor
  <2>3. home[s] = {} \/ (TwoHandles /\ (2 \in home[s] => ring[2] # <<>>))
    BY <1>0, <2>2 DEF KnownIInv, Homes, Idle
  <2>4. \A g \in home[s] : g <= f
    <3>1. CASE home[s] = {}
      BY <3>1
    <3>2. CASE TwoHandles /\ (2 \in home[s] => ring[2] # <<>>)
      <4>1. File = {1, 2}
        BY <3>2 DEF TwoHandles, File
      <4>2. f = 2 \/ 2 \notin home[s]
        BY <1>0, <3>2, <4>1 DEF MayUse, TwoHandles
      <4>3. home[s] \subseteq {1, 2} /\ f \in {1, 2}
        BY <1>2, <4>1
      <4> QED BY <4>2, <4>3
    <3> QED BY <2>3, <3>1, <3>2
  <2> QED BY <2>2, <2>4, <1>3 DEF GaveId
<1>7. ids[s] = 0 => GaveId(s, f)'
  <2>1. SUFFICES ASSUME ids[s] = 0 PROVE GaveId(s, f)'
    OBVIOUS
  <2>2. NeedsDescriptor(s, f)
    BY <2>1 DEF NeedsDescriptor
  <2>3. CASE program.api = "cpp"
    <3>1. home[s] = {}
      BY <2>1, <2>3 DEF KnownIInv, Homes, TwoHandles
    <3>2. home'[s] = {f}
      BY <3>1, <2>2, <1>0
    <3> QED BY <3>2, <1>3 DEF GaveId
  <2> QED BY <2>2, <2>3, <1>6
<1>8. \A t \in Stmt, g \in File : t # s \/ ~NeedsDescriptor(s, f) => (GaveId(t, g)' <=> GaveId(t, g))
  BY <1>0 DEF GaveId
<1>9. ids[s] = 0 => \A g \in File : GaveId(s, g)' => g = f
  <2>1. SUFFICES ASSUME ids[s] = 0, NEW g \in File, GaveId(s, g)' PROVE g = f
    OBVIOUS
  <2>2. f <= g /\ g <= f
    BY <1>7, <2>1, <1>3 DEF GaveId
  <2> QED BY <2>2, <1>3
<1>10. NeedsDescriptor(s, f) /\ ids[s] # 0 => program.api = "cpp" /\ \A g, h \in File : Handle(g) = Handle(h)
  <2>1. NeedsDescriptor(s, f) /\ ids[s] # 0 => program.api = "cpp"
    BY DEF NeedsDescriptor
  <2> QED BY <2>1, <1>1, OneHandle
<1>11. \A t \in Stmt : ids[t] # 0 => \E g \in File : GaveId(t, g) /\ ids[t] < nextId[Handle(g)]
  BY DEF KnownIInv, IdsGiven
<1>12. IdsGiven'
  <2>1. ASSUME NEW t \in Stmt, ids'[t] # 0
        PROVE  \E g \in File : GaveId(t, g)' /\ ids'[t] < nextId'[Handle(g)]
    <3>1. CASE t = s /\ ids[s] = 0
      BY <3>1, <1>0, <1>2, <1>3, <1>7
    <3>2. CASE t # s \/ ~NeedsDescriptor(s, f)
      <4>1. ids'[t] = ids[t]
        BY <3>2, <1>0 DEF NeedsDescriptor
      <4>2. PICK g \in File : GaveId(t, g) /\ ids[t] < nextId[Handle(g)]
        BY <2>1, <4>1, <1>11
      <4>3. GaveId(t, g)'
        BY <3>2, <4>2, <1>8
      <4>4. Handle(g) \in File /\ nextId'[Handle(g)] >= nextId[Handle(g)] /\ nextId'[Handle(g)] \in Nat /\ nextId[Handle(g)] \in Nat /\ ids[t] \in Nat
        BY <1>0, <1>2, <1>3, <1>4
      <4>5. ids'[t] < nextId'[Handle(g)]
        BY <4>1, <4>2, <4>4
      <4> QED BY <4>3, <4>5
    <3>3. CASE t = s /\ ids[s] # 0 /\ NeedsDescriptor(s, f)
      <4>1. PICK g \in File : GaveId(s, g) /\ ids[s] < nextId[Handle(g)]
        BY <3>3, <1>11
      <4>2. home'[s] = home[s] \cup {f} /\ ids'[s] = ids[s] /\ nextId' = nextId
        BY <3>3, <1>0
      <4>3. GaveId(s, IF f <= g THEN g ELSE f)'
        <5> DEFINE h == IF f <= g THEN g ELSE f
        <5>1. h \in File /\ f \in Nat /\ g \in Nat /\ f <= h /\ g <= h /\ (h = f \/ h = g)
          BY <1>3
        <5>2. \A j \in home[s] : j \in Nat /\ j <= g
          BY <4>1, <1>2, <1>3 DEF GaveId
        <5> HIDE DEF h
        <5>3. h \in home'[s] /\ \A j \in home'[s] : j <= h
          BY <4>1, <4>2, <5>1, <5>2 DEF GaveId
        <5>4. GaveId(s, h)'
          BY <5>3 DEF GaveId
        <5> QED BY <5>4 DEF h
      <4>4. Handle(IF f <= g THEN g ELSE f) = Handle(g)
        BY <3>3, <1>10
      <4> QED BY <3>3, <4>1, <4>2, <4>3, <4>4
    <3> QED BY <3>1, <3>2, <3>3
  <2>2. ASSUME NEW t \in Stmt, NEW u \in Stmt, t # u, ids'[t] # 0, ids'[u] = ids'[t],
               NEW g \in File, NEW h \in File, GaveId(t, g)', GaveId(u, h)'
        PROVE  Handle(g) # Handle(h)
    <3>1. ASSUME NEW v \in Stmt, v # s, NEW k \in File, GaveId(v, k)', ids[s] = 0, ids'[v] = ids'[s]
          PROVE  Handle(k) # Handle(f)
      <4>1. ids[v] = ids'[v] /\ ids[v] # 0 /\ GaveId(v, k)
        BY <3>1, <1>0, <1>8
      <4>2. PICK j \in File : GaveId(v, j) /\ ids[v] < nextId[Handle(j)]
        BY <4>1, <1>11
      <4>3. j = k
        BY <4>1, <4>2, <1>1, GaveOne
      <4>4. ids[v] = nextId[Handle(f)] /\ nextId[Handle(f)] \in Nat
        BY <4>1, <3>1, <1>0, <1>2, <1>3
      <4> QED BY <4>2, <4>3, <4>4
    <3>2. CASE ids[s] = 0 /\ t = s
      BY <2>2, <3>1, <3>2, <1>9
    <3>3. CASE ids[s] = 0 /\ u = s
      BY <2>2, <3>1, <3>3, <1>9
    <3>4. CASE ids[s] # 0 \/ (t # s /\ u # s)
      <4>1. ids'[t] = ids[t] /\ ids'[u] = ids[u]
        BY <3>4, <1>0
      <4>2. CASE (t # s /\ u # s) \/ ~NeedsDescriptor(s, f)
        <5>1. GaveId(t, g) /\ GaveId(u, h)
          BY <2>2, <4>2, <1>8
        <5> QED BY <2>2, <4>1, <5>1 DEF KnownIInv, IdsGiven
      <4>3. CASE ~(t # s /\ u # s) /\ NeedsDescriptor(s, f)
        <5>1. ids[s] # 0
          BY <3>4, <4>3
        <5>2. \A k, l \in File : Handle(k) = Handle(l)
          BY <5>1, <4>3, <1>10
        <5>3. PICK k \in File : GaveId(t, k)
          BY <2>2, <4>1, <1>11
        <5>4. PICK l \in File : GaveId(u, l)
          BY <2>2, <4>1, <1>11
        <5>5. Handle(k) # Handle(l)
          BY <2>2, <4>1, <5>3, <5>4 DEF KnownIInv, IdsGiven
        <5> QED BY <5>2, <5>5
      <4> QED BY <4>2, <4>3
    <3> QED BY <3>2, <3>3, <3>4
  <2>3. ASSUME NEW g \in File, NEW i \in described[g]
        PROVE  i < nextId'[Handle(g)]
    <3>1. i < nextId[Handle(g)] /\ i \in Nat
      BY <1>1 DEF KnownIInv, IdsGiven, ProgramTypes
    <3>2. Handle(g) \in File /\ nextId'[Handle(g)] >= nextId[Handle(g)] /\ nextId'[Handle(g)] \in Nat /\ nextId[Handle(g)] \in Nat
      BY <1>0, <1>2, <1>3, <1>4
    <3> QED BY <3>1, <3>2
  <2> QED BY <2>1, <2>2, <2>3, <1>0, <1>3 DEF IdsGiven
<1>13. ASSUME NEW g \in File, NEW i \in Nat, NEW st \in Stmt, Means(g, i, st)
       PROVE  Means(g, i, st)'
  <2>1. i # 0 /\ i < nextId'[Handle(g)]
    <3>1. /\ nextId'[Handle(g)] >= nextId[Handle(g)]
          /\ nextId[Handle(g)] \in Nat /\ nextId'[Handle(g)] \in Nat
      BY <1>0, <1>2, <1>3, <1>4
    <3> QED BY <1>13, <3>1 DEF Means
  <2>2. ASSUME NEW t \in Stmt, t # st, ids'[t] = i, NEW h \in File, GaveId(t, h)'
        PROVE  Handle(h) # Handle(g)
    <3>1. CASE t = s /\ ids[s] = 0
      <4>1. h = f /\ i = nextId[Handle(f)] /\ nextId[Handle(f)] \in Nat
        BY <3>1, <2>2, <1>0, <1>2, <1>3, <1>9
      <4> QED BY <4>1, <1>13 DEF Means
    <3>2. CASE t # s \/ ids[s] # 0
      <4>1. ids[t] = i /\ i # 0
        BY <2>1, <2>2, <3>2, <1>0
      <4>2. CASE t # s \/ ~NeedsDescriptor(s, f)
        BY <2>2, <4>1, <4>2, <1>8, <1>13 DEF Means
      <4>3. CASE t = s /\ ids[s] # 0 /\ NeedsDescriptor(s, f)
        <5>1. PICK j \in File : GaveId(t, j)
          BY <4>1, <1>11
        <5>2. Handle(j) # Handle(g)
          BY <2>2, <4>1, <5>1, <1>13 DEF Means
        <5> QED BY <5>2, <4>3, <1>10
      <4> QED BY <3>2, <4>2, <4>3
    <3> QED BY <3>1, <3>2
  <2> QED BY <2>1, <2>2, <1>0, <1>3, <1>13 DEF Means
<1>14. Homes'
  <2>1. ASSUME NEW t \in Stmt
        PROVE  /\ ids'[t] = 0 => home'[t] = {} \/ TwoHandles
               /\ program.api # "cpp" => TwoHandles \/ \A g, h \in home'[t] : g = h
               /\ TwoHandles /\ 2 \in home'[t] => ring[2] # <<>> \/ pc'.file = 2
    <3>1. CASE home'[t] = home[t] /\ (t # s \/ ids[s] # 0)
      <4>1. ids'[t] = ids[t]
        BY <3>1, <1>0
      <4> QED BY <3>1, <4>1, <1>0 DEF KnownIInv, Homes, Idle
    <3>2. CASE t = s /\ NeedsDescriptor(s, f)
      <4>1. ids'[t] # 0 /\ home'[t] = home[t] \cup {f}
        BY <3>2, <1>0
      <4>2. program.api # "cpp" => home[t] = {} \/ TwoHandles
        BY <3>2 DEF KnownIInv, Homes, NeedsDescriptor
      <4>3. pc'.file = f
        BY <1>0
      <4>4. TwoHandles /\ 2 \in home[t] => ring[2] # <<>>
        BY <1>0 DEF KnownIInv, Homes, Idle
      <4> QED BY <4>1, <4>2, <4>3, <4>4
    <3> QED BY <3>1, <3>2, <1>0 DEF NeedsDescriptor
  <2>2. pc'.todo # <<>>
    BY <1>1, <1>0 DEF Order
  <2> QED BY <2>1, <2>2, <1>0 DEF Homes, TwoHandles
<1>15. Entries'
  <2>1. ASSUME NEW g \in File, NEW d \in DOMAIN descs[g], NEW e, e = descs[g][d]
        PROVE  Described(g, e)'
    <3>1. e.stmt \in Stmt /\ e.id \in Nat
      BY <1>1, <2>1, Stored1
    <3>2. /\ g \in home[e.stmt] /\ Means(g, e.id, e.stmt)
          /\ e.whole \/ g \in failed[e.stmt]
      BY <2>1 DEF KnownIInv, Entries, Described
    <3>3. Means(g, e.id, e.stmt)'
      BY <3>1, <3>2, <1>13
    <3> QED BY <3>1, <3>2, <3>3, <1>0, <1>5 DEF Described
  <2>2. ASSUME NEW g \in File, NEW d \in DOMAIN descs[g]
        PROVE  Described(g, descs[g][d])'
    <3>1. PICK e : e = descs[g][d]
      OBVIOUS
    <3>2. Described(g, e)' /\ e = descs'[g][d]
      BY <2>1, <3>1, <1>0
    <3> QED BY <3>2
  <2> QED BY <2>2, <1>0 DEF Entries
<1>16. AllTraced'
  <2>1. ASSUME NEW g \in File, NEW k \in DOMAIN ring[g]
        PROVE  Traced(g, ring[g][k])'
    <3> DEFINE m == ring[g][k]
    <3>0. m' = m /\ m.stmt \in Stmt /\ m.id \in Nat
      BY <1>0, <1>1, Stored1
    <3> HIDE DEF m
    <3>1. Traced(g, m)
      BY DEF KnownIInv, AllTraced, m
    <3>2. CASE g \notin home[m.stmt]
      <4>1. program.api # "cpp" /\ home[m.stmt] # {} /\ ids[m.stmt] # 0
        BY <3>1, <3>2 DEF Traced
      <4>2. home'[m.stmt] = home[m.stmt] /\ ids'[m.stmt] # 0
        BY <3>0, <4>1, <1>0 DEF NeedsDescriptor
      <4>3. Traced(g, m)'
        BY <3>0, <3>2, <4>1, <4>2, <1>0 DEF Traced
      <4> QED BY <3>0, <4>3 DEF m
    <3>3. CASE g \in home[m.stmt]
      <4>1. Means(g, m.id, m.stmt) /\ (g \in failed[m.stmt] \/ HasDesc(g, m.id, m.stmt))
        BY <3>1, <3>3, <1>0 DEF Traced, At, Idle
      <4>2. Means(g, m.id, m.stmt)'
        BY <3>0, <4>1, <1>0, <1>13
      <4>3. g \in home'[m.stmt]
        BY <3>0, <3>3, <1>5
      <4>4. (g \in failed[m.stmt] \/ HasDesc(g, m.id, m.stmt))'
        BY <3>0, <4>1, <1>0 DEF HasDesc
      <4>5. Traced(g, m)'
        BY <4>2, <4>3, <4>4, <3>0 DEF Traced
      <4> QED BY <3>0, <4>5 DEF m
    <3> QED BY <3>2, <3>3
  <2> QED BY <2>1, <1>0 DEF AllTraced
<1>17. NeedsDescriptor(s, f) => Due("describe")'
  <2>1. SUFFICES ASSUME NeedsDescriptor(s, f) PROVE Due("describe")'
    OBVIOUS
  <2>2. pc'.todo = Order
    BY <2>1, <1>0
  <2>3. pc'.todo = <<"describe", "store">> \/ pc'.todo = <<"store", "describe">>
    BY <2>2 DEF Order
  <2> QED BY <2>3 DEF Due
<1>18. pc'.stmt = s /\ pc'.file = f
  BY <1>0
<1>19. Filed'
  <2>1. ASSUME NEW t \in Stmt, NEW g \in File, ids'[t] # 0,
               IF program.api = "cpp" THEN ids'[t] \in described[g] ELSE GaveId(t, g)'
        PROVE  /\ g \in home'[t]
               /\ g \in failed[t] \/ HasDesc(g, ids'[t], t) \/ Describing(t, g)'
    <3>1. CASE ids[t] # 0
      <4>1. ids'[t] = ids[t]
        BY <3>1, <1>0
      <4>2. program.api # "cpp" => GaveId(t, g)
        BY <2>1, <3>1, <1>8, <1>10
      <4>3. g \in home[t] /\ (g \in failed[t] \/ HasDesc(g, ids[t], t) \/ Describing(t, g))
        BY <2>1, <3>1, <4>1, <4>2 DEF KnownIInv, Filed
      <4>4. ~Describing(t, g)
        BY <1>0 DEF Describing, Due, Idle
      <4> QED BY <4>1, <4>3, <4>4, <1>5
    <3>2. CASE ids[t] = 0
      <4>1. t = s /\ NeedsDescriptor(s, f)
        BY <2>1, <3>2, <1>0 DEF NeedsDescriptor
      <4>2. CASE program.api = "cpp"
        <5>1. ids'[t] = nextId[Handle(f)] /\ nextId[Handle(f)] \in Nat
          BY <3>2, <4>1, <1>0, <1>2, <1>3
        <5>2. ids'[t] < nextId[Handle(g)]
          BY <2>1, <4>2 DEF KnownIInv, IdsGiven
        <5> QED BY <5>1, <5>2, <4>2, <1>1, OneHandle
      <4>3. CASE program.api # "cpp"
        <5>1. g = f
          BY <2>1, <3>2, <4>1, <4>3, <1>9
        <5> QED BY <4>1, <5>1, <1>0, <1>17, <1>18 DEF Describing
      <4> QED BY <4>2, <4>3
    <3> QED BY <3>1, <3>2
  <2> QED BY <2>1, <1>0 DEF Filed, HasDesc
<1>20. Running'
  <2>1. f \in home'[s] => program.api = "cpp" \/ GaveId(s, f)'
    <3>1. SUFFICES ASSUME f \in home'[s], program.api # "cpp", ~NeedsDescriptor(s, f) PROVE GaveId(s, f)'
      BY <1>6
    <3>2. f \in home[s] /\ ids[s] # 0
      BY <3>1, <1>0 DEF NeedsDescriptor
    <3>3. \A g \in home[s] : g <= f
      <4>1. CASE ~TwoHandles
        <5>1. \A g \in home[s] : g = f
          BY <3>1, <3>2, <4>1 DEF KnownIInv, Homes
        <5> QED BY <5>1, <1>3
      <4>2. CASE TwoHandles
        <5>1. File = {1, 2}
          BY <4>2 DEF TwoHandles, File
        <5>2. 2 \in home[s] => ring[2] # <<>>
          BY <4>2, <1>0 DEF KnownIInv, Homes, Idle
        <5>3. f = 2 \/ 2 \notin home[s]
          BY <1>0, <4>2, <5>1, <5>2 DEF MayUse, TwoHandles
        <5>4. home[s] \subseteq {1, 2} /\ f \in {1, 2}
          BY <1>2, <5>1
        <5> QED BY <5>3, <5>4
      <4> QED BY <4>1, <4>2
    <3>4. GaveId(s, f)
      BY <3>2, <3>3 DEF GaveId
    <3> QED BY <3>1, <3>4, <1>8
  <2>2. Due("describe")' \/ program.api = "cpp" => f \in home'[s]
    <3>1. CASE NeedsDescriptor(s, f)
      BY <3>1, <1>0
    <3>2. CASE ~NeedsDescriptor(s, f)
      <4>1. ~Due("describe")'
        BY <3>2, <1>0 DEF Due
      <4>2. program.api = "cpp" => f \in home[s]
        BY <3>2 DEF KnownIInv, Filed, NeedsDescriptor
      <4> QED BY <4>1, <4>2, <1>5
    <3> QED BY <3>1, <3>2
  <2>3. pc'.todo = <<"store">> /\ program.api = "cpp" => ids'[s] \in described[f]
    <3>1. SUFFICES ASSUME pc'.todo = <<"store">>, program.api = "cpp" PROVE ids'[s] \in described[f]
      OBVIOUS
    <3>2. ~NeedsDescriptor(s, f)
      BY <3>1, <1>0 DEF Order
    <3> QED BY <3>1, <3>2, <1>0 DEF NeedsDescriptor
  <2> QED BY <2>1, <2>2, <2>3, <1>0, <1>18 DEF Running
<1> QED BY <1>1, <1>12, <1>14, <1>15, <1>16, <1>19, <1>20 DEF KnownIInv

\* What a statement that gets an id, or meets another file, has afterwards.
\* Whoever an id was of, it is of nobody else now.
LEMMA DescribeKnown ==
    ASSUME HandlesApart, KnownIInv, NEW wrote \in {"whole", "short", "none"}, Describe(wrote)
    PROVE  KnownIInv'
<1>a. ProgramTypes /\ ProgramTypes'
  BY DescribeTypes DEF KnownIInv
<1>b. PICK s \in Stmt, f \in File, n \in Nat : s = pc.stmt /\ f = pc.file /\ n = ids[pc.stmt]
  <2>1. pc.stmt \in Stmt /\ pc.file \in File /\ ids[pc.stmt] \in Nat
    BY <1>a, DescribeDoes
  <2> QED BY <2>1
<1> DEFINE entry == [id |-> n, stmt |-> s, whole |-> wrote = "whole"]
<1>0. /\ UNCHANGED <<program, ids, nextId, home, ring>>
      /\ Stmt' = Stmt /\ File' = File
      /\ ids[s] = n /\ n # 0 /\ entry \in DescType
      /\ pc.todo = <<"describe", "store">> \/ (program.api = "cprof" /\ pc.todo = <<"describe">>)
      /\ descs' \in [File -> Seq(DescType)]
      /\ \A g \in File : g # f => descs'[g] = descs[g]
      /\ descs'[f] = IF wrote = "none" THEN descs[f] ELSE Append(descs[f], entry)
      /\ described' \in [File -> SUBSET Nat]
      /\ \A g \in File : described'[g] = IF g = f THEN described[g] \cup {n} ELSE described[g]
      /\ failed' \in [Stmt -> SUBSET File]
      /\ \A t \in Stmt : failed'[t] = IF wrote # "whole" /\ t = s THEN failed[t] \cup {f} ELSE failed[t]
      /\ IF pc.todo = <<"describe">> THEN pc' = Idle
         ELSE /\ DOMAIN pc' = {"todo", "stmt", "file", "vals"}
              /\ pc'.todo = <<"store">> /\ pc'.stmt = s /\ pc'.file = f /\ pc'.vals = pc.vals
  BY <1>a, <1>b, DescribeDoes
<1>1. ProgramTypes /\ ProgramTypes'
  BY <1>a
<1>2. /\ Due("describe") /\ pc.todo # <<>> /\ ~Due("describe")'
      /\ (pc.todo = <<"describe", "store">> => pc'.todo # <<>> /\ pc'.file = f)
      /\ (At("describe") \/ TRUE)
  <2>1. CASE pc.todo = <<"describe", "store">>
    <3>1. pc.todo # <<"describe">>
      BY <2>1
    <3>2. pc'.todo = <<"store">> /\ pc'.file = f
      BY <1>0, <3>1
    <3> QED BY <2>1, <3>2 DEF Due
  <2>2. CASE pc.todo = <<"describe">>
    BY <1>0, <2>2 DEF Due, Idle
  <2> QED BY <1>0, <2>1, <2>2
<1>3. f \in home[s] /\ (program.api = "cpp" \/ GaveId(s, f))
  BY <1>2, <1>b DEF KnownIInv, Running
<1> HIDE DEF entry
<1>4. /\ Means(f, n, s)
      /\ \A st \in Stmt : Means(f, n, st) => st = s
  BY <1>0, <1>3, OwnId DEF KnownIInv
<1>5. \A g \in File : Handle(g)' = Handle(g)
  BY <1>0 DEF Handle
<1>6. \A t \in Stmt, g \in File : GaveId(t, g)' <=> GaveId(t, g)
  BY <1>0 DEF GaveId
<1>7. /\ \A d \in DOMAIN descs[f] : d \in DOMAIN descs'[f] /\ descs'[f][d] = descs[f][d]
      /\ \A d \in DOMAIN descs'[f] : \/ d \in DOMAIN descs[f] /\ descs'[f][d] = descs[f][d]
                                     \/ wrote # "none" /\ descs'[f][d] = entry
      /\ wrote # "none" => \E d \in DOMAIN descs'[f] : descs'[f][d] = entry
  <2>1. descs[f] \in Seq(DescType)
    BY <1>0, <1>1 DEF ProgramTypes
  <2>2. CASE wrote = "none"
    BY <1>0, <2>2
  <2>3. CASE wrote # "none"
    <3>1. descs'[f] = Append(descs[f], entry)
      BY <1>0, <2>3
    <3>2. /\ DOMAIN descs'[f] = 1 .. Len(descs[f]) + 1 /\ DOMAIN descs[f] = 1 .. Len(descs[f])
          /\ descs'[f][Len(descs[f]) + 1] = entry
          /\ \A d \in 1 .. Len(descs[f]) : descs'[f][d] = descs[f][d]
          /\ Len(descs[f]) \in Nat
      BY <2>1, <3>1
    <3>3. \A d \in 1 .. Len(descs[f]) + 1 : d \in 1 .. Len(descs[f]) \/ d = Len(descs[f]) + 1
      BY <3>2
    <3>4. Len(descs[f]) + 1 \in 1 .. Len(descs[f]) + 1 /\ \A d \in 1 .. Len(descs[f]) : d \in 1 .. Len(descs[f]) + 1
      BY <3>2
    <3> QED BY <2>3, <3>2, <3>3, <3>4
  <2> QED BY <2>2, <2>3
<1>8. entry.id = n /\ entry.stmt = s /\ entry.whole = (wrote = "whole")
  BY DEF entry
<1>9. \A t \in Stmt, g \in File, i \in Nat : HasDesc(g, i, t) => HasDesc(g, i, t)'
  <2>1. ASSUME NEW t \in Stmt, NEW g \in File, NEW i \in Nat, HasDesc(g, i, t) PROVE HasDesc(g, i, t)'
    <3>1. PICK d \in DOMAIN descs[g] : descs[g][d].id = i /\ descs[g][d].stmt = t
      BY <2>1 DEF HasDesc
    <3>2. d \in DOMAIN descs'[g] /\ descs'[g][d] = descs[g][d]
      <4>1. CASE g = f
        BY <3>1, <4>1, <1>7
      <4>2. CASE g # f
        BY <3>1, <4>2, <1>0
      <4> QED BY <4>1, <4>2
    <3>3. descs'[g][d].id = i /\ descs'[g][d].stmt = t
      BY <3>1, <3>2
    <3> QED BY <3>2, <3>3 DEF HasDesc
  <2> QED BY <2>1
<1>10. ASSUME NEW g \in File, NEW i \in Nat, NEW st \in Stmt, Means(g, i, st)
       PROVE  Means(g, i, st)'
  <2>1. ASSUME NEW d \in DOMAIN descs'[g], descs'[g][d].id = i
        PROVE  descs'[g][d].stmt = st
    <3>1. CASE d \in DOMAIN descs[g] /\ descs'[g][d] = descs[g][d]
      BY <2>1, <3>1, <1>10 DEF Means
    <3>2. CASE g = f /\ descs'[g][d] = entry
      <4>1. i = n
        BY <2>1, <3>2, <1>8
      <4>2. st = s
        BY <4>1, <3>2, <1>4, <1>10
      <4> QED BY <3>2, <4>2, <1>8
    <3> QED BY <3>1, <3>2, <1>0, <1>7
  <2> QED BY <2>1, <1>0, <1>5, <1>6, <1>10 DEF Means
<1>11. f \in failed'[s] \/ HasDesc(f, n, s)'
  <2>1. CASE wrote = "whole"
    <3>1. PICK d \in DOMAIN descs'[f] : descs'[f][d] = entry
      BY <2>1, <1>7
    <3> QED BY <3>1, <1>0, <1>8 DEF HasDesc
  <2>2. CASE wrote # "whole"
    BY <2>2, <1>0
  <2> QED BY <2>1, <2>2
<1>12. \A t \in Stmt : failed[t] \subseteq failed'[t]
  BY <1>0
<1>13. IdsGiven'
  <2>1. ASSUME NEW g \in File, NEW i \in described'[g]
        PROVE  i < nextId[Handle(g)]
    <3>1. CASE i \in described[g]
      BY <3>1 DEF KnownIInv, IdsGiven
    <3>2. CASE g = f /\ i = n
      BY <3>2, <1>4 DEF Means
    <3> QED BY <3>1, <3>2, <1>0
  <2>2. /\ \A t \in Stmt : ids[t] # 0 => \E g \in File : GaveId(t, g) /\ ids[t] < nextId[Handle(g)]
        /\ \A t, u \in Stmt : t # u /\ ids[t] # 0 /\ ids[u] = ids[t] =>
             \A g, h \in File : GaveId(t, g) /\ GaveId(u, h) => Handle(g) # Handle(h)
    BY DEF KnownIInv, IdsGiven
  <2>3. (\A t \in Stmt : ids[t] # 0 => \E g \in File : GaveId(t, g) /\ ids[t] < nextId[Handle(g)])'
    <3>1. ASSUME NEW t \in Stmt, ids'[t] # 0
          PROVE  \E g \in File : GaveId(t, g)' /\ ids'[t] < nextId'[Handle(g)']
      <4>1. PICK g \in File : GaveId(t, g) /\ ids[t] < nextId[Handle(g)]
        BY <2>2, <3>1, <1>0
      <4>2. GaveId(t, g)' /\ ids'[t] < nextId'[Handle(g)']
        BY <4>1, <1>0, <1>5, <1>6
      <4> QED BY <4>2
    <3> QED BY <3>1, <1>0
  <2>4. (\A t, u \in Stmt : t # u /\ ids[t] # 0 /\ ids[u] = ids[t] =>
             \A g, h \in File : GaveId(t, g) /\ GaveId(u, h) => Handle(g) # Handle(h))'
    BY <2>2, <1>0, <1>5, <1>6
  <2>5. (\A g \in File : \A i \in described[g] : i < nextId[Handle(g)])'
    BY <2>1, <1>0, <1>5
  <2> QED BY <2>3, <2>4, <2>5 DEF IdsGiven
<1>14. Homes'
  <2>1. ASSUME NEW t \in Stmt, TwoHandles, 2 \in home[t]
        PROVE  ring[2] # <<>> \/ (pc'.todo # <<>> /\ pc'.file = 2)
    <3>1. ring[2] # <<>> \/ f = 2
      BY <2>1, <1>b DEF KnownIInv, Homes
    <3>2. pc.todo = <<"describe", "store">>
      BY <2>1, <1>0 DEF TwoHandles
    <3> QED BY <3>1, <3>2, <1>2
  <2> QED BY <2>1, <1>0 DEF KnownIInv, Homes, TwoHandles
<1>15. ASSUME NEW g \in File, NEW e \in DescType, Described(g, e)
       PROVE  Described(g, e)'
  <2>1. e.stmt \in Stmt /\ e.id \in Nat
    BY DEF DescType
  <2> QED BY <2>1, <1>0, <1>10, <1>12, <1>15 DEF Described
<1>16. Entries'
  <2>1. ASSUME NEW g \in File, NEW d \in DOMAIN descs'[g], NEW e, e = descs'[g][d]
        PROVE  Described(g, e)'
    <3>1. CASE d \in DOMAIN descs[g] /\ descs'[g][d] = descs[g][d]
      <4>1. e \in DescType /\ Described(g, e)
        BY <2>1, <3>1, <1>1, Stored1 DEF KnownIInv, Entries
      <4> QED BY <4>1, <1>15
    <3>2. CASE g = f /\ descs'[g][d] = entry
      <4>1. Means(f, n, s)'
        BY <1>0, <1>4, <1>10
      <4>2. wrote = "whole" \/ f \in failed'[s]
        BY <1>0
      <4>3. e.id = n /\ e.stmt = s /\ e.whole = (wrote = "whole") /\ g = f
        BY <2>1, <3>2, <1>8
      <4>4. Means(g, e.id, e.stmt)'
        BY <4>1, <4>3, <1>0
      <4> QED BY <4>2, <4>3, <4>4, <1>0, <1>3 DEF Described
    <3> QED BY <3>1, <3>2, <1>0, <1>7
  <2>2. ASSUME NEW g \in File, NEW d \in DOMAIN descs'[g]
        PROVE  Described(g, descs[g][d])'
    <3>1. PICK e : e = descs'[g][d]
      OBVIOUS
    <3>2. Described(g, e)'
      BY <2>1, <3>1
    <3> QED BY <3>1, <3>2
  <2> QED BY <2>2, <1>0 DEF Entries
<1>17. ASSUME NEW g \in File, NEW m \in MessageType, Traced(g, m)
       PROVE  Traced(g, m)'
  <2>0. m.stmt \in Stmt /\ m.id \in Nat
    BY DEF MessageType
  <2>1. CASE g \notin home[m.stmt]
    BY <2>1, <1>17, <1>0 DEF Traced
  <2>2. CASE g \in home[m.stmt]
    <3>1. Means(g, m.id, m.stmt)'
      BY <2>0, <2>2, <1>10, <1>17 DEF Traced
    <3>2. CASE g \in failed[m.stmt] \/ HasDesc(g, m.id, m.stmt)
      BY <2>0, <2>2, <3>1, <3>2, <1>0, <1>9, <1>12 DEF Traced
    <3>3. CASE Describing(m.stmt, g) /\ m.id = ids[m.stmt]
      <4>1. m.stmt = s /\ g = f
        BY <3>3, <1>b DEF Describing
      <4>2. g \in failed'[m.stmt] \/ HasDesc(g, m.id, m.stmt)'
        <5>1. m.id = n
          BY <3>3, <4>1, <1>0
        <5> QED BY <4>1, <5>1, <1>11, <1>0 DEF HasDesc
      <4> QED BY <2>2, <3>1, <4>2, <1>0 DEF Traced
    <3> QED BY <2>2, <3>2, <3>3, <1>17 DEF Traced
  <2> QED BY <2>1, <2>2
<1>18. AllTraced'
  <2>1. ASSUME NEW g \in File, NEW k \in DOMAIN ring[g], NEW m, m = ring[g][k]
        PROVE  Traced(g, m)'
    <3>1. m \in MessageType /\ Traced(g, m)
      BY <2>1, <1>1, Stored1 DEF KnownIInv, AllTraced
    <3> QED BY <3>1, <1>17
  <2>2. ASSUME NEW g \in File, NEW k \in DOMAIN ring[g]
        PROVE  Traced(g, ring[g][k])'
    <3>1. PICK m : m = ring[g][k]
      OBVIOUS
    <3>2. Traced(g, m)' /\ m = ring'[g][k]
      BY <2>1, <3>1, <1>0
    <3> QED BY <3>2
  <2> QED BY <2>2, <1>0 DEF AllTraced
<1>19. Filed'
  <2>1. ASSUME NEW t \in Stmt, NEW g \in File, ids[t] # 0,
               IF program.api = "cpp" THEN ids[t] \in described'[g] ELSE GaveId(t, g)
        PROVE  /\ g \in home[t]
               /\ g \in failed'[t] \/ HasDesc(g, ids[t], t)'
    <3>1. CASE t = s /\ g = f
      <4>1. f \in failed'[s] \/ HasDesc(f, n, s)'
        BY <1>11
      <4> QED BY <3>1, <4>1, <1>0, <1>3 DEF HasDesc
    <3>2. CASE (t # s \/ g # f) /\ (program.api = "cpp" => ids[t] \in described[g])
      <4>1. /\ g \in home[t] /\ ids[t] \in Nat
            /\ g \in failed[t] \/ HasDesc(g, ids[t], t) \/ Describing(t, g)
        BY <2>1, <3>2, <1>1 DEF KnownIInv, Filed, ProgramTypes
      <4>2. ~Describing(t, g)
        BY <3>2, <1>b DEF Describing
      <4>3. HasDesc(g, ids[t], t) => HasDesc(g, ids[t], t)'
        <5>1. PICK i \in Nat : i = ids[t]
          BY <4>1
        <5>2. HasDesc(g, i, t) => HasDesc(g, i, t)'
          BY <1>9
        <5> QED BY <5>1, <5>2, <1>0 DEF HasDesc
      <4> QED BY <4>1, <4>2, <4>3, <1>12
    <3>3. CASE t # s /\ program.api = "cpp" /\ g = f /\ ids[t] = ids[s]
      <4>1. PICK h \in File : GaveId(t, h)
        BY <2>1 DEF KnownIInv, IdsGiven
      <4>2. PICK j \in File : GaveId(s, j)
        BY <1>0 DEF KnownIInv, IdsGiven
      <4>3. Handle(h) # Handle(j)
        BY <2>1, <3>3, <4>1, <4>2, <1>0 DEF KnownIInv, IdsGiven
      <4> QED BY <3>3, <4>3, <1>1, OneHandle
    <3> QED BY <2>1, <3>1, <3>2, <3>3, <1>0
  <2> QED BY <2>1, <1>0, <1>6 DEF Filed, HasDesc
<1>20. Running'
  <2>1. SUFFICES ASSUME pc'.todo # <<>> PROVE /\ pc'.stmt = s /\ pc'.file = f
                                              /\ n \in described'[f]
    BY <1>0, <1>3, <1>6 DEF Running, GaveId
  <2> QED BY <2>1, <1>0 DEF Idle
<1> QED BY <1>1, <1>13, <1>14, <1>16, <1>18, <1>19, <1>20 DEF KnownIInv

\* Store keeps the invariant: a message is stored under such an id.
LEMMA StoreKnown ==
    ASSUME HandlesApart, KnownIInv, Store
    PROVE  KnownIInv'
<1>a. ProgramTypes /\ ProgramTypes'
  BY StoreTypes DEF KnownIInv
<1>b. PICK s \in Stmt, f \in File, n \in Nat, new \in MessageType :
         /\ s = pc.stmt /\ f = pc.file /\ n = ids[pc.stmt] /\ new.stmt = s /\ new.id = n
         /\ ring'[f] = Append(ring[f], new)
         /\ \A g \in File : g # f => ring'[g] = ring[g]
  BY <1>a, StoreAdds
<1>0. /\ UNCHANGED <<program, ids, nextId, home, descs, described, failed>>
      /\ Stmt' = Stmt /\ File' = File
      /\ n # 0 /\ ids[s] = n
      /\ pc.todo = <<"store">> \/ (program.api = "cprof" /\ pc.todo = <<"store", "describe">>)
      /\ IF pc.todo = <<"store">> THEN pc' = Idle
         ELSE pc'.todo = <<"describe">> /\ pc'.stmt = s /\ pc'.file = f
  BY <1>a, <1>b, StoreDoes
<1>c. pc.todo # <<>>
  BY DEF Store, At
<1>1. ring[f] \in Seq(MessageType)
  BY <1>a DEF ProgramTypes
<1>2. \/ pc.todo = <<"store">> /\ ~Due("describe") /\ pc'.todo = <<>> /\ ~Due("describe")'
      \/ /\ pc.todo = <<"store", "describe">> /\ program.api = "cprof" /\ Due("describe")
         /\ pc'.todo = <<"describe">> /\ At("describe")' /\ Due("describe")' /\ pc'.stmt = s /\ pc'.file = f
  <2>1. CASE pc.todo = <<"store">>
    BY <1>0, <2>1 DEF Due, Idle
  <2>2. CASE pc.todo = <<"store", "describe">>
    <3>1. pc.todo # <<"store">> /\ program.api = "cprof"
      BY <1>0, <2>2
    <3>2. pc'.todo = <<"describe">> /\ pc'.stmt = s /\ pc'.file = f
      BY <1>0, <3>1
    <3>3. At("describe")' /\ Due("describe")' /\ Due("describe")
      BY <2>2, <3>2 DEF At, Due
    <3> QED BY <2>2, <3>1, <3>2, <3>3
  <2> QED BY <1>0, <2>1, <2>2
<1>3. /\ DOMAIN ring'[f] = 1 .. Len(ring[f]) + 1 /\ ring'[f] # <<>>
      /\ \A k \in DOMAIN ring'[f] : ring'[f][k] = new \/ (k \in DOMAIN ring[f] /\ ring'[f][k] = ring[f][k])
  BY <1>1, <1>b
<1>4. \A t \in Stmt, g \in File : GaveId(t, g)' <=> GaveId(t, g)
  BY <1>0 DEF GaveId
<1>5. \A g \in File, i \in Nat, t \in Stmt : /\ HasDesc(g, i, t)' <=> HasDesc(g, i, t)
                                             /\ Means(g, i, t)' <=> Means(g, i, t)
  BY <1>0 DEF HasDesc, Means, GaveId, Handle
<1>6. IdsGiven'
  BY <1>0 DEF KnownIInv, IdsGiven, GaveId, Handle
<1>7. Homes'
  <2>1. ASSUME NEW t \in Stmt, TwoHandles, 2 \in home[t]
        PROVE  ring'[2] # <<>>
    <3>1. ring[2] # <<>> \/ f = 2
      BY <2>1, <1>b DEF KnownIInv, Homes
    <3>2. File = {1, 2}
      BY <2>1 DEF TwoHandles, File
    <3> QED BY <3>1, <3>2, <1>b, <1>3
  <2> QED BY <2>1, <1>0 DEF KnownIInv, Homes, TwoHandles
<1>8. Entries'
  <2>1. ASSUME NEW g \in File, NEW d \in DOMAIN descs[g], NEW e, e = descs[g][d]
        PROVE  Described(g, e)'
    <3>1. e.stmt \in Stmt /\ e.id \in Nat /\ Described(g, e)
      BY <2>1, <1>a, Stored1 DEF KnownIInv, Entries
    <3> QED BY <3>1, <1>0, <1>5 DEF Described
  <2>2. ASSUME NEW g \in File, NEW d \in DOMAIN descs[g]
        PROVE  Described(g, descs[g][d])'
    <3>1. PICK e : e = descs[g][d]
      OBVIOUS
    <3>2. Described(g, e)' /\ e = descs'[g][d]
      BY <2>1, <3>1, <1>0
    <3> QED BY <3>2
  <2> QED BY <2>2, <1>0 DEF Entries
<1>9. Traced(f, new)'
  <2>1. CASE f \notin home[s]
    <3>1. program.api # "cpp"
      BY <2>1, <1>b, <1>c DEF KnownIInv, Running
    <3>2. home[s] # {}
      BY <1>0 DEF KnownIInv, IdsGiven, GaveId
    <3> QED BY <2>1, <3>1, <3>2, <1>b, <1>0 DEF Traced
  <2>2. CASE f \in home[s]
    <3>1. program.api = "cpp" \/ GaveId(s, f)
      BY <2>2, <1>b, <1>c DEF KnownIInv, Running
    <3>2. Means(f, n, s)'
      BY <3>1, <1>a, <1>0, <1>5, OwnId DEF KnownIInv
    <3>3. CASE pc.todo = <<"store">> /\ ~Due("describe")
      <4>1. program.api = "cpp" => n \in described[f]
        BY <3>3, <1>b, <1>0 DEF KnownIInv, Running
      <4>2. f \in failed[s] \/ HasDesc(f, n, s)
        BY <4>1, <3>1, <3>3, <1>0 DEF KnownIInv, Filed, Describing
      <4>3. (f \in failed[s] \/ HasDesc(f, n, s))'
        BY <4>2, <1>0, <1>5
      <4> QED BY <2>2, <3>2, <4>3, <1>b, <1>0 DEF Traced
    <3>4. CASE /\ program.api = "cprof" /\ At("describe")' /\ Due("describe")'
               /\ pc'.stmt = s /\ pc'.file = f
      <4>1. Describing(s, f)'
        BY <3>4 DEF Describing
      <4> QED BY <2>2, <3>2, <3>4, <4>1, <1>b, <1>0 DEF Traced
    <3> QED BY <3>3, <3>4, <1>2
  <2> QED BY <2>1, <2>2
<1>10. ASSUME NEW g \in File, NEW m \in MessageType, Traced(g, m)
       PROVE  Traced(g, m)'
  <2>0. m.stmt \in Stmt /\ m.id \in Nat
    BY DEF MessageType
  <2>1. ~At("describe")
    <3>1. pc.todo[1] = "store"
      BY <1>0
    <3> QED BY <3>1 DEF At
  <2> QED BY <2>0, <2>1, <1>10, <1>0, <1>5 DEF Traced
<1>11. AllTraced'
  <2>1. ASSUME NEW g \in File, NEW k \in DOMAIN ring'[g], NEW m, m = ring'[g][k]
        PROVE  Traced(g, m)'
    <3>1. CASE k \in DOMAIN ring[g] /\ m = ring[g][k]
      <4>1. m \in MessageType /\ Traced(g, m)
        BY <3>1, <1>a, Stored1 DEF KnownIInv, AllTraced
      <4> QED BY <4>1, <1>10
    <3>2. CASE g = f /\ m = new
      BY <3>2, <1>9
    <3> QED BY <2>1, <3>1, <3>2, <1>b, <1>3
  <2>2. ASSUME NEW g \in File, NEW k \in DOMAIN ring'[g]
        PROVE  Traced(g, ring[g][k])'
    <3>1. PICK m : m = ring'[g][k]
      OBVIOUS
    <3>2. Traced(g, m)'
      BY <2>1, <3>1
    <3> QED BY <3>1, <3>2
  <2> QED BY <2>2, <1>0 DEF AllTraced
<1>12. Filed'
  <2>1. ASSUME NEW t \in Stmt, NEW g \in File, ids[t] # 0,
               IF program.api = "cpp" THEN ids[t] \in described[g] ELSE GaveId(t, g)
        PROVE  g \in home[t] /\ (g \in failed[t] \/ HasDesc(g, ids[t], t) \/ Describing(t, g)')
    <3>1. g \in home[t] /\ (g \in failed[t] \/ HasDesc(g, ids[t], t) \/ Describing(t, g))
      BY <2>1 DEF KnownIInv, Filed
    <3>2. Describing(t, g) => Describing(t, g)'
      BY <1>2, <1>b DEF Describing
    <3> QED BY <3>1, <3>2
  <2> QED BY <2>1, <1>0, <1>4 DEF Filed, HasDesc
<1>13. Running'
  <2>1. CASE pc'.todo = <<>>
    BY <2>1 DEF Running
  <2>2. CASE /\ pc.todo = <<"store", "describe">> /\ program.api = "cprof" /\ Due("describe")
             /\ pc'.todo = <<"describe">> /\ pc'.stmt = s /\ pc'.file = f
    <3>1. pc.todo # <<>> /\ f \in home[s] /\ GaveId(s, f)
      BY <2>2, <1>b DEF KnownIInv, Running
    <3>2. pc'.todo # <<"store">>
      BY <2>2
    <3> QED BY <2>2, <3>1, <3>2, <1>0, <1>4 DEF Running
  <2> QED BY <2>1, <2>2, <1>2
<1> QED BY <1>a, <1>6, <1>7, <1>8, <1>11, <1>12, <1>13 DEF KnownIInv

\* The new message: in a file that is no home of its statement nothing is asked.
\* One that is there stays as it was.
LEMMA PyCloseKnown ==
    ASSUME HandlesApart, KnownIInv, PyClose
    PROVE  KnownIInv'
<1>0. /\ UNCHANGED <<program, nextId, home, descs, described, failed, ring, pc>>
      /\ Stmt' = Stmt /\ File' = File
      /\ program.api = "python" /\ program.files = "handles" /\ pc = Idle
      /\ ring[1] # <<>> /\ ring[2] = <<>>
      /\ ids' \in [Stmt -> Nat] /\ \A s \in Stmt : ids'[s] = 0
  BY PyCloseDoes DEF KnownIInv
<1>1. ProgramTypes /\ ProgramTypes'
  <2>1. [Next]_vars
    BY DEF Next
  <2> QED BY <2>1, NextTypes DEF KnownIInv
<1>2. TwoHandles /\ TwoHandles' /\ pc.todo = <<>>
  BY <1>0 DEF TwoHandles, Idle
<1>3. IdsGiven'
  <2>1. (\A s \in Stmt : ids[s] # 0 => \E f \in File : GaveId(s, f) /\ ids[s] < nextId[Handle(f)])'
    BY <1>0
  <2>2. (\A s, t \in Stmt : s # t /\ ids[s] # 0 /\ ids[t] = ids[s] =>
          \A f, g \in File : GaveId(s, f) /\ GaveId(t, g) => Handle(f) # Handle(g))'
    BY <1>0
  <2>3. (\A f \in File : \A i \in described[f] : i < nextId[Handle(f)])'
    BY <1>0 DEF KnownIInv, IdsGiven, Handle
  <2> QED BY <2>1, <2>2, <2>3 DEF IdsGiven
<1>4. Homes'
  BY <1>0, <1>2 DEF KnownIInv, Homes, TwoHandles
<1>5. \A f \in File, i \in Nat, s \in Stmt : Means(f, i, s) => Means(f, i, s)'
  BY <1>0 DEF Means, Handle
<1>6. Entries'
  <2>1. ASSUME NEW g \in File, NEW d \in DOMAIN descs[g], NEW e, e = descs[g][d]
        PROVE  Described(g, e)'
    <3>1. e.stmt \in Stmt /\ e.id \in Nat /\ Described(g, e)
      BY <2>1, <1>1, Stored1 DEF KnownIInv, Entries
    <3> QED BY <3>1, <1>0, <1>5 DEF Described
  <2>2. ASSUME NEW g \in File, NEW d \in DOMAIN descs[g]
        PROVE  Described(g, descs[g][d])'
    <3>1. PICK e : e = descs[g][d]
      OBVIOUS
    <3>2. Described(g, e)' /\ e = descs'[g][d]
      BY <2>1, <3>1, <1>0
    <3> QED BY <3>2
  <2> QED BY <2>2, <1>0 DEF Entries
<1>7. \A g \in File : ring[g] # <<>> => g = 1
  BY <1>0 DEF File
<1>8. \A s \in Stmt : home[s] \subseteq {1}
  <2> TAKE s \in Stmt
  <2>1. 2 \notin home[s]
    BY <1>0, <1>2 DEF KnownIInv, Homes
  <2>2. home[s] \subseteq {1, 2}
    BY <1>0, <1>1 DEF ProgramTypes, File
  <2> QED BY <2>1, <2>2
<1>9. AllTraced'
  <2>1. ASSUME NEW g \in File, NEW k \in DOMAIN ring[g], NEW m, m = ring[g][k]
        PROVE  Traced(g, m)'
    <3>1. m.stmt \in Stmt /\ m.id \in Nat /\ Traced(g, m)
      BY <2>1, <1>1, Stored1 DEF KnownIInv, AllTraced
    <3>2. ring[g] # <<>>
      BY <2>1
    <3>3. g = 1
      BY <1>7, <3>2
    <3>4. g \in home[m.stmt]
      <4>1. g \notin home[m.stmt] => home[m.stmt] # {}
        BY <3>1 DEF Traced
      <4> QED BY <3>1, <3>3, <4>1, <1>8
    <3>5. Means(g, m.id, m.stmt)' /\ (g \in failed[m.stmt] \/ HasDesc(g, m.id, m.stmt))
      BY <3>1, <3>4, <1>0, <1>2, <1>5 DEF Traced, At
    <3> QED BY <3>4, <3>5, <1>0 DEF Traced, HasDesc
  <2>2. ASSUME NEW g \in File, NEW k \in DOMAIN ring[g]
        PROVE  Traced(g, ring[g][k])'
    <3>1. PICK m : m = ring[g][k]
      OBVIOUS
    <3>2. Traced(g, m)' /\ m = ring'[g][k]
      BY <2>1, <3>1, <1>0
    <3> QED BY <3>2
  <2> QED BY <2>2, <1>0 DEF AllTraced
<1>10. Filed' /\ Running'
  BY <1>0, <1>2 DEF Filed, Running
<1> QED BY <1>1, <1>3, <1>4, <1>6, <1>9, <1>10 DEF KnownIInv

\* Only the first file holds messages, and no statement has met the second one.
\* Steps of qttail, and none.
LEMMA OtherKnown ==
    ASSUME KnownIInv, UNCHANGED <<progVars, idVars, ring, pc>>
    PROVE  KnownIInv'
<1>0. /\ UNCHANGED <<program, nextId, ids, home, descs, described, failed, ring, pc>>
      /\ Stmt' = Stmt /\ File' = File
  BY DEF progVars, idVars, Stmt, File
<1>1. ProgramTypes'
  BY OtherTypes DEF KnownIInv
<1>2. IdsGiven'
  BY <1>0 DEF KnownIInv, IdsGiven, GaveId, Handle
<1>3. Homes'
  BY <1>0 DEF KnownIInv, Homes, TwoHandles
<1>4. Entries'
  BY <1>0 DEF KnownIInv, Entries, Described, Means, GaveId, Handle
<1>5. AllTraced'
  BY <1>0 DEF KnownIInv, AllTraced, Traced, Means, GaveId, Handle, HasDesc, At, Describing, Due
<1>6. Filed'
  BY <1>0 DEF KnownIInv, Filed, GaveId, HasDesc, Describing, Due
<1>7. Running'
  BY <1>0 DEF KnownIInv, Running, GaveId, Due
<1> QED BY <1>1, <1>2, <1>3, <1>4, <1>5, <1>6, <1>7 DEF KnownIInv

\* The invariant holds at the start.
LEMMA KnownInit == Init => KnownIInv
<1> SUFFICES ASSUME Init PROVE KnownIInv
  OBVIOUS
<1>1. ProgramTypes
  BY InitTypes
<1>2. /\ \A s \in Stmt : ids[s] = 0 /\ home[s] = {}
      /\ \A f \in File : descs[f] = <<>> /\ ring[f] = <<>> /\ described[f] = {}
      /\ pc.todo = <<>>
  BY DEF Init, Idle
<1> QED BY <1>1, <1>2 DEF KnownIInv, IdsGiven, Homes, Entries, AllTraced, Filed, Running

\* Every step keeps the invariant.
LEMMA KnownStep ==
    ASSUME HandlesApart, KnownIInv, [Next]_vars
    PROVE  KnownIInv'
<1>1. ASSUME NEW s \in Stmt, NEW f \in File, NEW vals \in program.stmts[s].values, Execute(s, f, vals)
      PROVE  KnownIInv'
  BY <1>1, ExecuteKnown
<1>2. ASSUME NEW wrote \in {"whole", "short", "none"}, Describe(wrote)
      PROVE  KnownIInv'
  BY <1>2, DescribeKnown
<1>3. CASE Store
  BY <1>3, StoreKnown
<1>4. CASE PyClose
  BY <1>4, PyCloseKnown
<1>5. CASE Reading
  BY <1>5, ReadingDoes, OtherKnown
<1>6. CASE UNCHANGED vars
  <2>1. UNCHANGED <<progVars, idVars, ring, pc>>
    BY <1>6 DEF vars
  <2> QED BY <2>1, OtherKnown
<1> QED BY <1>1, <1>2, <1>3, <1>4, <1>5, <1>6 DEF Next, Reading

\* A set of numbers that is not empty has a smallest one.
LEMMA Smallest ==
    ASSUME NEW T \in SUBSET Nat, T # {}
    PROVE  Min(T) \in T
<1> DEFINE R == OpToRel(<, Nat)
<1>1. IsWellFoundedOn(R, Nat)
  BY NatLessThanWellFounded
<1>2. \A x, y \in Nat : <<y, x>> \in R <=> y < x
  BY DEF OpToRel
<1> HIDE DEF R
<1>3. PICK x \in T : \A y \in T : ~ (<<y, x>> \in R)
  BY <1>1, WFMin
<1>4. ASSUME NEW y \in T
      PROVE  x <= y
  <2>1. x \in Nat /\ y \in Nat
    OBVIOUS
  <2>2. ~ (y < x)
    BY <1>2, <1>3, <2>1
  <2> QED BY <2>1, <2>2
<1>5. \E z \in T : \A y \in T : z <= y
  BY <1>4
<1> QED BY <1>5 DEF Min

\* The invariant implies the property.
LEMMA KnownHolds == KnownIInv => Known
<1> SUFFICES ASSUME KnownIInv, NEW f \in File, NEW k \in DOMAIN ring[f], NEW m, m = ring[f][k]
             PROVE  LET mine == {d \in DOMAIN descs[f] : descs[f][d].id = m.id}
                    IN  \/ Undescribed(f, m.stmt)
                        \/ At("describe") /\ program.api = "cprof" /\ pc.stmt = m.stmt /\ pc.file = f
                        \/ mine # {} /\ descs[f][Min(mine)].stmt = m.stmt /\ descs[f][Min(mine)].whole
  BY DEF Known
<1> DEFINE mine == {d \in DOMAIN descs[f] : descs[f][d].id = m.id}
<1>1. Traced(f, m) /\ m.stmt \in Stmt /\ m.id \in Nat
  BY Stored1 DEF KnownIInv, AllTraced
<1>2. CASE f \notin home[m.stmt]
  BY <1>1, <1>2 DEF Traced, Undescribed
<1>3. CASE f \in home[m.stmt] /\ HasDesc(f, m.id, m.stmt) /\ f \notin failed[m.stmt]
  <2>1. mine # {} /\ mine \in SUBSET Nat
    <3>1. descs[f] \in Seq(DescType)
      BY DEF KnownIInv, ProgramTypes
    <3> QED BY <3>1, <1>3 DEF HasDesc
  <2>2. PICK d \in DOMAIN descs[f] : d = Min(mine) /\ descs[f][d].id = m.id
    <3> HIDE DEF mine
    <3>1. Min(mine) \in mine
      BY <2>1, Smallest
    <3> QED BY <3>1 DEF mine
  <2>3. descs[f][d].stmt = m.stmt
    BY <1>1, <1>3, <2>2 DEF Traced, Means
  <2>4. descs[f][d].whole \/ f \in failed[descs[f][d].stmt]
    BY DEF KnownIInv, Entries, Described
  <2> QED BY <1>3, <2>1, <2>2, <2>3, <2>4
<1>4. CASE f \in home[m.stmt] /\ ~HasDesc(f, m.id, m.stmt) /\ f \notin failed[m.stmt]
  <2>1. program.api = "cprof" /\ At("describe") /\ Describing(m.stmt, f)
    BY <1>1, <1>4 DEF Traced
  <2> QED BY <2>1 DEF Describing
<1>5. CASE f \in failed[m.stmt]
  BY <1>5 DEF Undescribed
<1> QED BY <1>2, <1>3, <1>4, <1>5

\* The inductive invariant holds for all programs in which no C++ program traces
\* through two handles.
THEOREM KnownInvariance == ASSUME HandlesApart PROVE Spec => []KnownIInv
<1>1. Init => KnownIInv
  BY KnownInit
<1>2. KnownIInv /\ [Next]_vars => KnownIInv'
  BY KnownStep
<1> QED BY <1>1, <1>2, PTL DEF Spec

\* Whoever reads a file finds the statement of a message under its id: Messages::get
\* of qttail among the descriptors that finish() wrote, for every program and every
\* order of its statements, where a C++ program does not trace through two handles.
THEOREM KnownAlways == ASSUME HandlesApart PROVE Spec => []Known
<1>1. KnownIInv => Known
  BY KnownHolds
<1> QED BY <1>1, KnownInvariance, PTL

(***************************************************************************)
(* What is expected of a message, in terms of FormatProofs.                *)
(***************************************************************************)

\* The text in a descriptor is what its statement means.
LEMMA TextMeant ==
    ASSUME ProgramTypes, NEW s \in Stmt
    PROVE  Text(s) = Meant(s) /\ Text(s) \in Seq(TokenType)
<1> DEFINE st == program.stmts[s]
<1>1. /\ st.braces \in BOOLEAN
      /\ IF st.braces THEN UnitsOf(st) ELSE st.text \in Seq(Token)
  BY Statement
<1> HIDE DEF st
<1>2. CASE st.braces
  <2>1. UnitsOf(st)
    BY <1>1, <1>2
  <2>2. /\ st.units \in Seq(DOMAIN Unit)
        /\ \A k \in DOMAIN st.units : st.units[k] \in {"loose", "odd"} => k = Len(st.units)
        /\ st.text = FlattenSeq([k \in DOMAIN st.units |-> Unit[st.units[k]].of])
    BY <2>1 DEF UnitsOf
  <2>3. /\ FlattenSeq([k \in DOMAIN st.units |-> Unit[st.units[k]].is]) \in Seq(TokenType)
        /\ FmtTokens(FlattenSeq([k \in DOMAIN st.units |-> Unit[st.units[k]].of])) =
              FlattenSeq([k \in DOMAIN st.units |-> Unit[st.units[k]].is])
    BY <2>2, UnitsMean
  <2>4. Text(s) = FmtTokens(st.text)
    BY <1>2 DEF Text, st
  <2>5. Meant(s) = FlattenSeq([k \in DOMAIN st.units |-> Unit[st.units[k]].is])
    BY <1>2 DEF Meant, st
  <2> QED BY <2>2, <2>3, <2>4, <2>5
<1>3. CASE ~st.braces
  <2>1. st.text \in Seq(Token)
    BY <1>1, <1>3
  <2>2. Token \subseteq TokenType
    BY DEF Token, TokenType, Letter
  <2>3. st.text \in Seq(TokenType)
    BY <2>1, <2>2
  <2>4. Text(s) = st.text /\ Meant(s) = st.text
    BY <1>3 DEF Text, Meant, st
  <2> QED BY <2>3, <2>4
<1> QED BY <1>1, <1>2, <1>3

\* The description of a statement.
LEMMA DescOf ==
    ASSUME ProgramTypes, NEW s \in Stmt
    PROVE  /\ Desc(s) \in DescType0 /\ Desc(s).text = Meant(s) /\ Desc(s).text = Text(s) /\ Desc(s).key = Key(s)
           /\ Key(s) \in Seq(Entry) /\ Meant(s) \in Seq(TokenType) /\ Limit(s) \in Nat
           /\ Start(Desc(s)).used = Skipped(s) /\ Skipped(s) \in Nat
<1>1. Text(s) = Meant(s) /\ Text(s) \in Seq(TokenType)
  BY TextMeant
<1>2. Key(s) \in Seq(Entry) /\ Clock(s) \in BOOLEAN /\ program.stmts[s].key \in Seq(Entry)
  <2>1. program.stmts[s].clock \in BOOLEAN /\ program.stmts[s].key \in Seq(Entry)
    BY Statement
  <2> QED BY <2>1, KeyType DEF Clock
<1>3. Desc(s).text = Text(s) /\ Desc(s).key = Key(s) /\ Desc(s).clock = Clock(s)
  BY DEF Desc
<1>4. Desc(s) \in DescType0
  BY <1>1, <1>2 DEF Desc, DescType0
<1>5. Limit(s) \in Nat
  BY WidthAssumption DEF Limit
<1>6. Start(Desc(s)).used = Skipped(s) /\ Skipped(s) \in Nat
  <2>1. CASE Clock(s)
    <3>1. PICK k \in Seq(Entry) : k = program.stmts[s].key
      BY <1>2
    <3>2. PICK q \in Entry : q = Quad
      BY DEF Quad, Entry, Size
    <3>3. PICK z \in Seq(Entry) : z = <<q, q>> \o k
      <4>1. <<q, q>> \in Seq(Entry)
        OBVIOUS
      <4>2. <<q, q>> \o k \in Seq(Entry)
        BY <4>1
      <4> QED BY <4>2
    <3>4. Len(z) = 2 + Len(k) /\ Len(k) \in Nat /\ z[1] = q /\ z[2] = q
      BY <3>3
    <3>5. SubSeq(z, 1, 2) = <<q, q>>
      <4>1. 1 <= 2 /\ 2 <= Len(z) /\ 1 \in 1 .. Len(z) + 1 /\ 2 \in 0 .. Len(z)
        BY <3>4
      <4>2. Len(SubSeq(z, 1, 2)) = 2 /\ SubSeq(z, 1, 2)[1] = z[1] /\ SubSeq(z, 1, 2)[2] = z[2] /\ SubSeq(z, 1, 2) \in Seq(Entry)
        BY <4>1
      <4>3. PICK r \in Seq(Entry) : r = SubSeq(z, 1, 2)
        BY <4>2
      <4>4. Len(r) = 2 /\ r[1] = q /\ r[2] = q
        BY <3>4, <4>2, <4>3
      <4>5. r = <<q, q>>
        BY <4>4
      <4> QED BY <4>3, <4>5
    <3>6. Key(s) = z
      BY <2>1, <3>1, <3>2, <3>3 DEF Key
    <3>7. Skips(Desc(s)) <=> Len(z) > 2
      BY <1>3, <2>1, <3>2, <3>5, <3>6 DEF Skips
    <3>8. Len(z) > 2 <=> k # <<>>
      BY <3>4
    <3>9. Skipped(s) = IF k # <<>> THEN 2 ELSE 0
      BY <2>1, <3>1 DEF Skipped
    <3> QED BY <3>7, <3>8, <3>9 DEF Start
  <2>2. CASE ~Clock(s)
    BY <1>3, <2>2 DEF Skips, Start, Skipped
  <2> QED BY <2>1, <2>2
<1> QED BY <1>1, <1>2, <1>3, <1>4, <1>5, <1>6

\* What a number leaves of itself.
LEMMA Remains ==
    ASSUME NEW x \in Nat, NEW b \in Nat \ {0}
    PROVE  x % b = x <=> x < b
OBVIOUS

\* A message that its statement put is accepted if its length can be told.
LEMMA AcceptsFits ==
    ASSUME ProgramTypes, NEW m \in MessageType, Supported(Key(m.stmt)), Takes(Key(m.stmt), m.vals),
           m.bytes = Stored(Key(m.stmt), m.vals, Limit(m.stmt)),
           NEW dict, m.id \in DOMAIN dict, dict[m.id] = m.stmt
    PROVE  Accepts(m, dict) <=> Fits(m)
<1> DEFINE s == m.stmt
           vals == m.vals
           n == Length(Formatters(Desc(s)), m.bytes)
           puts == PutAll(Key(s), vals, Limit(s))
<1>1. s \in Stmt /\ vals \in Seq(ValueType)
  BY DEF MessageType
<1>2. /\ Desc(s) \in DescType0 /\ Desc(s).text = Text(s) /\ Desc(s).key = Key(s)
      /\ Key(s) \in Seq(Entry) /\ Limit(s) \in Nat
  BY <1>1, DescOf
<1>3. FreshStream \in Stream
  BY DEF FreshStream, Stream
<1>4. Supported(Key(s)) /\ Takes(Key(s), vals) /\ m.bytes = Stored(Key(s), vals, Limit(s)) /\ Len(vals) = Len(Key(s))
  BY DEF Takes
<1> HIDE DEF s, vals
<1>5. DescShown(Desc(s), vals, Limit(s), FALSE, FreshStream)
  <2>1. PICK d \in DescType0 : d = Desc(s)
    BY <1>2
  <2>2. Supported(d.key) /\ Takes(d.key, vals)
    BY <1>2, <1>4, <2>1
  <2>3. DescShown(d, vals, Limit(s), FALSE, FreshStream)
    BY <1>1, <1>2, <1>3, <2>2, Printing
  <2> QED BY <2>1, <2>3
<1>6. n = Off(puts, Len(Key(s)))
  BY <1>2, <1>4, <1>5 DEF DescShown
<1>7. /\ Off(puts, Len(Key(s))) \in Nat
      /\ Len(m.bytes) = Off(puts, Len(Key(s))) + 1
      /\ Peek(m.bytes, Off(puts, Len(Key(s))) + 1) = (Header + Off(puts, Len(Key(s)))) % Base
  BY <1>1, <1>2, <1>4, PeekIs
<1> HIDE DEF puts, n
<1>8. n \in Nat /\ Len(m.bytes) = n + 1 /\ Peek(m.bytes, n + 1) = (Header + n) % Base
  BY <1>6, <1>7
<1>9. Header + n \in Nat /\ Header + (n + 1) - 1 = Header + n /\ Base \in Nat \ {0}
  BY <1>8, WidthAssumption DEF Header
<1>10. (Header + n) % Base = Header + n <=> Header + n < Base
  BY <1>9, Remains
<1>11. Accepts(m, dict) <=> Text(s) # <<>> /\ Peek(m.bytes, n + 1) = Header + n
  BY DEF Accepts, n, s
<1>12. Fits(m) <=> Text(s) # <<>> /\ Header + Len(m.bytes) - 1 < Base
  BY DEF Fits, s
<1>13. Header + Len(m.bytes) - 1 = Header + n
  BY <1>8, <1>9
<1> QED BY <1>8, <1>10, <1>11, <1>12, <1>13

\* What Expected makes of one token, and of one value that stands behind the text.
TokenShown(m, k) ==
    LET s == m.stmt
        text == Meant(s)
    IN  CASE ~IsArg(text[k]) -> Letters(IF text[k].k = "percent" THEN <<"%">> ELSE Raw(text[k]))
          [] IsArg(text[k]) ->
                Letters(IF text[k].conv = "p" THEN <<"0x">> ELSE <<>>)
                \o <<[bytes |-> Bytes(m, ArgOf(s, k)),
                      hex |-> text[k].conv # "s" /\ Key(s)[ArgOf(s, k)].type \in {"u", "s", "i", "q"}]>>

\* What Expected shows of value i, where text and values are apart.
ValueShown(m, i) ==
    Letters(IF i > 1 THEN <<",">> ELSE <<>>)
    \o <<[bytes |-> Bytes(m, i), hex |-> FALSE /\ Key(m.stmt)[i].type \in {"u", "s", "i", "q"}]>>

\* Expected, part by part.
LEMMA ExpectedParts ==
    ASSUME NEW m
    PROVE  Expected(m) =
              IF Agrees(m.stmt)
              THEN FlattenSeq([k \in DOMAIN Meant(m.stmt) |-> TokenShown(m, k)])
              ELSE Letters(FlattenSeq([k \in DOMAIN Meant(m.stmt) |-> Raw(Meant(m.stmt)[k])]) \o <<" % (">>) \o
                   FlattenSeq([i \in DOMAIN Key(m.stmt) |-> ValueShown(m, i)]) \o
                   Letters(<<") ">>)
BY DEF Expected, TokenShown, ValueShown

\* A line as it is expected is a line as it is printed.
LEMMA ExpectedIs ==
    ASSUME ProgramTypes, NEW m \in MessageType, Len(m.vals) = Len(Key(m.stmt))
    PROVE  Expected(m) =
              IF Agreed(Desc(m.stmt))
              THEN FlattenSeq(PiecesOf(Meant(m.stmt), Start(Desc(m.stmt)).used, Key(m.stmt),
                                       PutAll(Key(m.stmt), m.vals, Limit(m.stmt))))
              ELSE ApartShown(Meant(m.stmt), Key(m.stmt), PutAll(Key(m.stmt), m.vals, Limit(m.stmt)))
<1> DEFINE s == m.stmt
           text == Meant(s)
           key == Key(s)
           puts == PutAll(key, m.vals, Limit(s))
           base == Skipped(s)
<1>1. /\ s \in Stmt
      /\ text \in Seq(TokenType) /\ key \in Seq(Entry) /\ base \in Nat
      /\ Start(Desc(s)).used = base /\ Desc(s).text = text /\ Desc(s).key = key
  <2>1. s \in Stmt
    BY DEF MessageType
  <2> QED BY <2>1, DescOf
<1>2. DOMAIN text = 1 .. Len(text) /\ DOMAIN key = 1 .. Len(key) /\ Len(text) \in Nat /\ Len(key) \in Nat
      /\ Len(text) \in 0 .. Len(text)
  BY <1>1
<1>3. \A k \in 1 .. Len(text) : ArgOf(s, k) = base + Count(text, k)
  BY DEF ArgOf, ArgsTo, Count
<1>4. Agrees(s) <=> base + Count(text, Len(text)) = Len(key)
  BY DEF Agrees, ArgOf, ArgsTo, Count
<1>5. Agreed(Desc(s)) <=> base + Count(text, Len(text)) = Len(key)
  BY <1>1 DEF Agreed
<1>6. \A i \in 1 .. Len(key) : Bytes(m, i) = puts[i]
  BY DEF Bytes, PutAll, Limit
<1>a. Expected(m) = IF Agrees(s)
              THEN FlattenSeq([k \in DOMAIN text |-> TokenShown(m, k)])
              ELSE Letters(FlattenSeq([k \in DOMAIN text |-> Raw(text[k])]) \o <<" % (">>) \o
                   FlattenSeq([i \in DOMAIN key |-> ValueShown(m, i)]) \o
                   Letters(<<") ">>)
  BY ExpectedParts
<1>7. CASE Agrees(s)
  <2>1. ASSUME NEW k \in 1 .. Len(text)
        PROVE  TokenShown(m, k) = Piece(text[k], base + Count(text, k), key, puts)
    <3>1. CASE ~IsArg(text[k])
      <4>1. TokenShown(m, k) = Letters(IF text[k].k = "percent" THEN <<"%">> ELSE Raw(text[k]))
        BY <3>1 DEF TokenShown
      <4> QED BY <3>1, <4>1 DEF Piece, WordOf
    <3>2. CASE IsArg(text[k])
      <4> DEFINE i == ArgOf(s, k)
                 t == text[k]
      <4>1. i \in 1 .. Len(key) /\ i = base + Count(text, k)
        <5>1. k \in 0 .. Len(text) /\ k - 1 \in 0 .. Len(text)
          BY <1>2
        <5>2. Count(text, k) \in Nat /\ Count(text, k - 1) \in Nat /\ Count(text, Len(text)) \in Nat
          BY <1>1, <1>2, <5>1, CountIs
        <5>3. \A n \in 0 .. Len(text) : \A j \in 0 .. n : Count(text, j) <= Count(text, n)
          BY <1>1, CountIs
        <5>4. Count(text, k) = Count(text, k - 1) + 1
          BY <1>1, <3>2, CountIs
        <5>5. Count(text, k) <= Count(text, Len(text))
          BY <1>2, <5>1, <5>3
        <5>6. base + Count(text, k) \in 1 .. Len(key) /\ i = base + Count(text, k)
          <6>1. base + Count(text, Len(text)) = Len(key) /\ base \in Nat
            BY <1>1, <1>4, <1>7
          <6>2. i = base + Count(text, k)
            BY <1>3
          <6> HIDE DEF i, text, base
          <6> QED BY <1>2, <5>2, <5>4, <5>5, <6>1, <6>2
        <5> QED BY <5>6
      <4>2. TokenShown(m, k) = Letters(IF t.conv = "p" THEN <<"0x">> ELSE <<>>)
                \o <<[bytes |-> Bytes(m, i), hex |-> t.conv # "s" /\ key[i].type \in {"u", "s", "i", "q"}]>>
        BY <3>2 DEF TokenShown
      <4>3. t \in TokenType /\ IsArg(t)
        BY <1>1, <3>2
      <4> HIDE DEF i, t
      <4>4. t.conv # "s" <=> t.conv \in {"x", "p"}
        BY <4>3, TokenIs
      <4>5. Bytes(m, i) = puts[i]
        BY <1>6, <4>1
      <4>6. [bytes |-> Bytes(m, i), hex |-> t.conv # "s" /\ key[i].type \in {"u", "s", "i", "q"}] =
               [bytes |-> puts[i], hex |-> t.conv \in {"x", "p"} /\ key[i].type \in {"u", "s", "i", "q"}]
        BY <4>4, <4>5
      <4>7. TokenShown(m, k) = Piece(t, i, key, puts)
        BY <4>2, <4>3, <4>6 DEF Piece, PrefixOf
      <4> QED BY <4>1, <4>7 DEF t
    <3> QED BY <3>1, <3>2
  <2> HIDE DEF text, key, base, puts
  <2>2. [k \in DOMAIN text |-> TokenShown(m, k)] = PiecesOf(text, base, key, puts)
    BY <1>2, <2>1 DEF PiecesOf
  <2> QED BY <1>1, <1>4, <1>5, <1>7, <1>a, <2>2 DEF s, text, key, puts
<1>8. CASE ~Agrees(s)
  <2>1. [i \in DOMAIN key |-> ValueShown(m, i)] = Listed(key, puts)
    <3>1. ASSUME NEW i \in 1 .. Len(key)
          PROVE  ValueShown(m, i) = Letters(Comma(i)) \o <<[bytes |-> puts[i], hex |-> FALSE]>>
      <4>1. ValueShown(m, i) = Letters(Comma(i)) \o <<[bytes |-> Bytes(m, i), hex |-> FALSE /\ key[i].type \in {"u", "s", "i", "q"}]>>
        BY DEF ValueShown, Comma
      <4>2. (FALSE /\ key[i].type \in {"u", "s", "i", "q"}) <=> FALSE
        OBVIOUS
      <4>3. [bytes |-> Bytes(m, i), hex |-> FALSE /\ key[i].type \in {"u", "s", "i", "q"}] = [bytes |-> puts[i], hex |-> FALSE]
        BY <1>6, <4>2
      <4> QED BY <4>1, <4>3
    <3> HIDE DEF puts, key
    <3> QED BY <1>2, <3>1 DEF Listed
  <2>2. FlattenSeq([k \in DOMAIN text |-> Raw(text[k])]) = RawText(text)
    BY <1>2 DEF RawText
  <2> HIDE DEF text, key, puts
  <2>3. RawText(text) \in Seq(Letter)
    BY <1>1, RawType
  <2>4. <<" % (">> \in Seq(Letter)
    BY LettersAre
  <2>5. Letters(RawText(text) \o <<" % (">>) = HeadShown(text)
    <3>1. PICK w \in Seq(Letter) : w = <<" % (">>
      BY <2>4
    <3>2. Letters(RawText(text) \o w) = Letters(RawText(text)) \o Letters(w)
      BY <2>3, LettersMore
    <3> QED BY <3>1, <3>2 DEF HeadShown
  <2>6. Expected(m) = HeadShown(text) \o FlattenSeq(Listed(key, puts)) \o Letters(<<") ">>)
    BY <1>8, <1>a, <2>1, <2>2, <2>5
  <2>7. Expected(m) = ApartShown(text, key, puts)
    BY <2>6 DEF ApartShown
  <2> QED BY <1>4, <1>5, <1>8, <2>7 DEF s, text, key, puts
<1> QED BY <1>7, <1>8

(***************************************************************************)
(* DecodesWhatWasPut, in the files: messages are what their statements put.*)
(***************************************************************************)

\* The second handle of a Python program has been traced into, or is about to be.
PastOne == ring[2] # <<>> \/ (pc.todo # <<>> /\ pc.file = 2)

\* Python formats a message with the key that it noted for its id: that of the
\* statement, unless this met its descriptor only in the file that is closed.
PyKeys ==
    program.api = "python" =>
        /\ \A s \in Stmt : ids[s] # 0 /\ ~(Due("describe") /\ pc.stmt = s) =>
              pyFmt[ids[s]] = Key(s) \/ (TwoHandles /\ 2 \notin home[s] /\ PastOne)
        /\ TwoHandles /\ pc.todo # <<>> /\ pc.file = 1 => ring[2] = <<>>

\* The bytes of a message are those of its values, as its statement's key says.
Whole(m) == /\ Len(m.vals) = Len(Key(m.stmt))
            /\ \A i \in 1 .. Len(m.vals) : m.vals[i].given <= Key(m.stmt)[i].opt
            /\ m.bytes = Stored(Key(m.stmt), m.vals, Limit(m.stmt))

\* Every message whose statement met its descriptor in the file is what this put.
Content == \A f \in File : \A k \in DOMAIN ring[f] :
              f \in home[ring[f][k].stmt] => Whole(ring[f][k])

\* The inductive invariant of what lies in the files.
PutInv == KnownIInv /\ PyKeys /\ Content

\* A statement that has traced into a file meets no descriptor there any more.
LEMMA NoNewHome ==
    ASSUME KnownIInv, NEW s \in Stmt, NEW f \in File, NEW vals \in program.stmts[s].values, Execute(s, f, vals),
           NEW g \in File, NEW m, Traced(g, m), m.stmt \in Stmt, g \in home'[m.stmt]
    PROVE  g \in home[m.stmt]
<1>0. ProgramTypes
  BY DEF KnownIInv
<1>1. /\ \A t \in Stmt : t # s => home'[t] = home[t]
      /\ home'[s] = IF NeedsDescriptor(s, f) THEN home[s] \cup {f} ELSE home[s]
  BY <1>0, ExecuteDoes
<1>2. CASE m.stmt # s
  BY <1>1, <1>2
<1>3. CASE m.stmt = s /\ g \notin home[s]
  <2>1. program.api # "cpp" /\ ids[s] # 0
    BY <1>3 DEF Traced
  <2>2. ~NeedsDescriptor(s, f)
    BY <2>1 DEF NeedsDescriptor
  <2> QED BY <1>1, <1>3, <2>2
<1> QED BY <1>2, <1>3

\* What describing and keys are does not change while nobody traces.
LEMMA PyExecute ==
    ASSUME KnownIInv, PyKeys, NEW s \in Stmt, NEW f \in File, NEW vals \in program.stmts[s].values, Execute(s, f, vals)
    PROVE  PyKeys'
<1>0. ProgramTypes
  BY DEF KnownIInv
<1>1. /\ UNCHANGED <<program, pyFmt, ring>>
      /\ pc = Idle /\ MayUse(f)
      /\ \A t \in Stmt : t # s => ids'[t] = ids[t] /\ home'[t] = home[t]
      /\ ids[s] # 0 => ids' = ids
      /\ home'[s] = IF NeedsDescriptor(s, f) THEN home[s] \cup {f} ELSE home[s]
      /\ pc' = [todo |-> IF NeedsDescriptor(s, f) THEN Order ELSE <<"store">>,
                stmt |-> s, file |-> f, vals |-> vals]
      /\ Stmt' = Stmt /\ File' = File
  BY <1>0, ExecuteDoes
<1>2. SUFFICES ASSUME program.api = "python" PROVE PyKeys'
  BY <1>1 DEF PyKeys
<1>3. pc.todo = <<>> /\ ~Due("describe")
  BY <1>1 DEF Idle, Due
<1>4. pc'.stmt = s /\ pc'.file = f /\ pc'.todo = IF NeedsDescriptor(s, f) THEN Order ELSE <<"store">>
  BY <1>1
<1>5. ids[s] = 0 => Due("describe")'
  <2>1. ids[s] = 0 => pc'.todo = <<"describe", "store">>
    BY <1>2, <1>4 DEF NeedsDescriptor, Order
  <2> QED BY <2>1 DEF Due
<1>6. (TwoHandles' <=> TwoHandles) /\ \A t \in Stmt : Key(t)' = Key(t)
  BY <1>1 DEF TwoHandles, Key, Clock
<1>7. ASSUME NEW t \in Stmt, ids'[t] # 0, ~(Due("describe")' /\ pc'.stmt = t)
      PROVE  pyFmt[ids'[t]] = Key(t) \/ (TwoHandles /\ 2 \notin home'[t] /\ PastOne')
  <2>1. ids'[t] = ids[t] /\ home'[t] = home[t]
    <3>1. CASE t = s
      <4>1. ids[s] # 0
        BY <1>4, <1>5, <1>7, <3>1
      <4>2. ~NeedsDescriptor(s, f)
        BY <1>2, <4>1 DEF NeedsDescriptor
      <4> QED BY <1>1, <3>1, <4>1, <4>2
    <3> QED BY <1>1, <3>1
  <2>2. pyFmt[ids[t]] = Key(t) \/ (TwoHandles /\ 2 \notin home[t] /\ PastOne)
    BY <1>2, <1>3, <1>7, <2>1 DEF PyKeys
  <2>3. PastOne => PastOne'
    BY <1>1, <1>3 DEF PastOne
  <2> QED BY <2>1, <2>2, <2>3
<1>8. TwoHandles /\ f = 1 => ring[2] = <<>>
  <2>1. TwoHandles => File = {1, 2}
    BY DEF TwoHandles, File
  <2>2. 2 > 1
    OBVIOUS
  <2> QED BY <1>1, <2>1, <2>2 DEF MayUse, TwoHandles
<1> QED BY <1>1, <1>4, <1>6, <1>7, <1>8 DEF PyKeys

\* Describe keeps the keys of Python.
LEMMA PyDescribe ==
    ASSUME KnownIInv, PyKeys, NEW wrote \in {"whole", "short", "none"}, Describe(wrote)
    PROVE  PyKeys'
<1>0. ProgramTypes
  BY DEF KnownIInv
<1>a. PICK s \in Stmt, f \in File : s = pc.stmt /\ f = pc.file
  BY <1>0, DescribeDoes
<1>1. /\ UNCHANGED <<program, ids, home, ring>>
      /\ Stmt' = Stmt /\ File' = File
      /\ ids[s] # 0 /\ ids[s] \in Nat
      /\ pc.todo = <<"describe", "store">> \/ (program.api = "cprof" /\ pc.todo = <<"describe">>)
      /\ pyFmt' = IF program.api = "python" THEN Enter(pyFmt, ids[s], Key(s)) ELSE pyFmt
      /\ IF pc.todo = <<"describe">> THEN pc' = Idle
         ELSE pc'.todo = <<"store">> /\ pc'.stmt = s /\ pc'.file = f
  BY <1>0, <1>a, DescribeDoes
<1>2. SUFFICES ASSUME program.api = "python" PROVE PyKeys'
  BY <1>1 DEF PyKeys
<1>3. /\ pc.todo = <<"describe", "store">> /\ pc.todo # <<>> /\ Due("describe")
      /\ pc'.todo = <<"store">> /\ pc'.todo # <<>> /\ pc'.file = f /\ ~Due("describe")'
  <2>1. pc.todo = <<"describe", "store">>
    BY <1>1, <1>2
  <2>2. pc.todo # <<>> /\ Due("describe") /\ pc.todo # <<"describe">>
    BY <2>1 DEF Due
  <2>3. pc'.todo = <<"store">> /\ pc'.file = f
    BY <1>1, <2>2
  <2> QED BY <2>1, <2>2, <2>3 DEF Due
<1>4. (TwoHandles' <=> TwoHandles) /\ (PastOne' <=> PastOne) /\ \A t \in Stmt : Key(t)' = Key(t)
  BY <1>1, <1>3, <1>a DEF TwoHandles, PastOne, Key, Clock
<1>5. /\ pyFmt'[ids[s]] = Key(s)
      /\ \A t \in Stmt : ids[t] # ids[s] /\ ids[t] \in DOMAIN pyFmt => pyFmt'[ids[t]] = pyFmt[ids[t]]
  BY <1>1, <1>2 DEF Enter
<1>6. GaveId(s, f)
  <2>1. f \in home[s]
    BY <1>3, <1>a DEF KnownIInv, Running
  <2> QED BY <1>2, <1>3, <1>a, <2>1 DEF KnownIInv, Running
<1>7. ASSUME NEW t \in Stmt, ids[t] # 0
      PROVE  pyFmt'[ids[t]] = Key(t) \/ (TwoHandles /\ 2 \notin home[t] /\ PastOne)
  <2>1. CASE t = s
    BY <1>5, <2>1
  <2>2. CASE t # s /\ ids[t] = ids[s]
    <3>1. PICK g \in File : GaveId(t, g)
      BY <1>7 DEF KnownIInv, IdsGiven
    <3>2. Handle(f) # Handle(g)
      BY <1>1, <1>6, <2>2, <3>1 DEF KnownIInv, IdsGiven
    <3>3. TwoHandles /\ f # g /\ File = {1, 2}
      BY <1>2, <3>2 DEF TwoHandles, Handle, File
    <3>4. CASE f = 2 /\ g = 1
      <4>1. 2 \notin home[t]
        BY <3>1, <3>4 DEF GaveId
      <4>2. PastOne
        BY <1>3, <1>a, <3>4 DEF PastOne
      <4> QED BY <3>3, <4>1, <4>2
    <3>5. CASE f = 1 /\ g = 2
      <4>1. 2 \in home[t]
        BY <3>1, <3>5 DEF GaveId
      <4>2. ring[2] # <<>> \/ pc.file = 2
        BY <3>3, <4>1 DEF KnownIInv, Homes
      <4>3. ring[2] = <<>>
        BY <1>2, <1>3, <1>a, <3>3, <3>5 DEF PyKeys
      <4> QED BY <1>a, <3>5, <4>2, <4>3
    <3> QED BY <3>3, <3>4, <3>5
  <2>3. CASE t # s /\ ids[t] # ids[s]
    <3>1. ids[t] \in DOMAIN pyFmt
      BY <1>0, <1>2, <1>7, <1>a, <2>3 DEF ProgramTypes
    <3> QED BY <1>2, <1>5, <1>7, <1>a, <2>3, <3>1 DEF PyKeys
  <2> QED BY <2>1, <2>2, <2>3
<1>8. TwoHandles /\ f = 1 => ring[2] = <<>>
  BY <1>2, <1>3, <1>a DEF PyKeys
<1> QED BY <1>1, <1>2, <1>3, <1>4, <1>7, <1>8 DEF PyKeys

\* Store keeps the keys of Python.
LEMMA PyStore ==
    ASSUME KnownIInv, PyKeys, Store
    PROVE  PyKeys'
<1>0. ProgramTypes
  BY DEF KnownIInv
<1>a. PICK s \in Stmt, f \in File, new \in MessageType :
         s = pc.stmt /\ f = pc.file /\ ring'[f] = Append(ring[f], new) /\ \A g \in File : g # f => ring'[g] = ring[g]
  BY <1>0, StoreDoes
<1>1. /\ UNCHANGED <<program, ids, home, pyFmt>>
      /\ Stmt' = Stmt /\ File' = File
      /\ pc.todo = <<"store">> \/ (program.api = "cprof" /\ pc.todo = <<"store", "describe">>)
      /\ pc.todo = <<"store">> => pc' = Idle
  BY <1>0, StoreDoes
<1>2. SUFFICES ASSUME program.api = "python" PROVE PyKeys'
  BY <1>1 DEF PyKeys
<1>3. pc.todo = <<"store">> /\ ~Due("describe") /\ pc'.todo = <<>>
  <2>1. pc.todo = <<"store">>
    BY <1>1, <1>2
  <2> QED BY <1>1, <2>1 DEF Due, Idle
<1>4. (TwoHandles' <=> TwoHandles) /\ \A t \in Stmt : Key(t)' = Key(t)
  BY <1>1 DEF TwoHandles, Key, Clock
<1>5. TwoHandles /\ PastOne => PastOne'
  <2>1. ring[f] \in Seq(MessageType)
    BY <1>0 DEF ProgramTypes
  <2>2. ring'[f] # <<>>
    <3>1. PICK q \in Seq(MessageType) : q = ring[f]
      BY <2>1
    <3>2. Append(q, new) # <<>>
      <4>1. Append(q, new) \in Seq(MessageType) /\ Len(Append(q, new)) = Len(q) + 1 /\ Len(q) \in Nat
        OBVIOUS
      <4>2. Len(Append(q, new)) # 0 /\ Len(<<>>) = 0
        BY <4>1
      <4> QED BY <4>2
    <3> QED BY <1>a, <3>1, <3>2
  <2>3. TwoHandles => File = {1, 2}
    BY DEF TwoHandles, File
  <2> QED BY <1>a, <2>2, <2>3 DEF PastOne
<1>6. \A t \in Stmt : ids[t] # 0 => pyFmt[ids[t]] = Key(t) \/ (TwoHandles /\ 2 \notin home[t] /\ PastOne)
  BY <1>2, <1>3 DEF PyKeys
<1> QED BY <1>1, <1>3, <1>4, <1>5, <1>6 DEF PyKeys

\* Where nothing of the program changes, its messages and keys stay as they are.
LEMMA PutOther ==
    ASSUME PyKeys, Content, UNCHANGED <<progVars, idVars, ring, pc>>
    PROVE  PyKeys' /\ Content'
<1>1. /\ UNCHANGED <<program, ids, home, pyFmt, ring, pc>>
      /\ Stmt' = Stmt /\ File' = File
  BY DEF progVars, idVars, Stmt, File
<1>2. /\ TwoHandles' <=> TwoHandles
      /\ PastOne' <=> PastOne
      /\ Due("describe")' <=> Due("describe")
      /\ \A t : Key(t)' = Key(t) /\ Limit(t)' = Limit(t)
  BY <1>1 DEF TwoHandles, PastOne, Due, Key, Clock, Limit
<1>3. PyKeys'
  BY <1>1, <1>2 DEF PyKeys
<1>4. Content'
  BY <1>1, <1>2 DEF Content, Whole
<1> QED BY <1>3, <1>4

\* Execute stores nothing.
LEMMA ContentExecute ==
    ASSUME KnownIInv, Content, NEW s \in Stmt, NEW f \in File, NEW vals \in program.stmts[s].values, Execute(s, f, vals)
    PROVE  Content'
<1>0. ProgramTypes
  BY DEF KnownIInv
<1>1. UNCHANGED <<program, ring>> /\ Stmt' = Stmt /\ File' = File
  BY <1>0, ExecuteDoes
<1>2. ASSUME NEW g \in File, NEW k \in DOMAIN ring[g], g \in home'[ring[g][k].stmt]
      PROVE  Whole(ring[g][k])
  <2>1. PICK m \in MessageType : m = ring[g][k] /\ m.stmt \in Stmt
    BY <1>0, Stored1
  <2>2. Traced(g, m)
    BY <2>1 DEF KnownIInv, AllTraced
  <2>3. g \in home[m.stmt]
    BY <1>2, <2>1, <2>2, NoNewHome
  <2> QED BY <2>1, <2>3 DEF Content
<1>3. \A m : Whole(m)' <=> Whole(m)
  BY <1>1 DEF Whole, Key, Clock, Limit
<1> QED BY <1>1, <1>2, <1>3 DEF Content

\* Describe stores nothing.
LEMMA ContentDescribe ==
    ASSUME KnownIInv, Content, NEW wrote \in {"whole", "short", "none"}, Describe(wrote)
    PROVE  Content'
<1>1. UNCHANGED <<program, ring, home>> /\ Stmt' = Stmt /\ File' = File
  BY DescribeDoes DEF KnownIInv
<1>2. \A m : Whole(m)' <=> Whole(m)
  BY <1>1 DEF Whole, Key, Clock, Limit
<1> QED BY <1>1, <1>2 DEF Content

\* PyClose stores nothing.
LEMMA ContentClose ==
    ASSUME KnownIInv, Content, PyClose
    PROVE  Content'
<1>1. UNCHANGED <<program, ring, home>> /\ Stmt' = Stmt /\ File' = File
  BY PyCloseDoes DEF KnownIInv
<1>2. \A m : Whole(m)' <=> Whole(m)
  BY <1>1 DEF Whole, Key, Clock, Limit
<1> QED BY <1>1, <1>2 DEF Content

\* The arguments of a statement hold no more than its key has room for.
LEMMA ValsFit ==
    ASSUME ProgramTypes, NEW s \in Stmt, NEW vals \in program.stmts[s].values
    PROVE  \A i \in 1 .. Len(Key(s)) : ValsFor(s, Key(s), vals)[i].given <= Key(s)[i].opt
<1> DEFINE key == program.stmts[s].key
           head == IF Clock(s) THEN <<Plain(0), Plain(0)>> ELSE <<>>
           all == head \o vals
<1>1. /\ key \in Seq(Entry) /\ vals \in Seq(ValueType)
      /\ \A i \in DOMAIN vals \cap DOMAIN key : vals[i].given <= key[i].opt
  BY Statement
<1>2. \A n \in Nat : Plain(n) \in ValueType /\ Plain(n).given = 0
  BY DEF Plain, ValueType
<1>3. Key(s) \in Seq(Entry)
  BY KeyType
<1>4. \A i \in 1 .. Len(Key(s)) : Key(s)[i].opt \in Nat
  <2> TAKE i \in 1 .. Len(Key(s))
  <2>1. Key(s)[i] \in Entry
    BY <1>3
  <2> QED BY <2>1 DEF Entry
<1>5. ASSUME NEW i \in 1 .. Len(Key(s))
      PROVE  Argument(all, i).given <= Key(s)[i].opt
  <2>0. i \in Nat /\ 4 \in Nat
    OBVIOUS
  <2>1. CASE Clock(s)
    <3>1. PICK p \in ValueType : p = Plain(0)
      BY <1>2
    <3>2. PICK q \in Entry : q = Quad
      BY DEF Quad, Entry, Size
    <3>3. <<p, p>> \in Seq(ValueType) /\ <<q, q>> \in Seq(Entry)
      OBVIOUS
    <3>4. PICK a \in Seq(ValueType), k \in Seq(Entry) : a = <<p, p>> \o vals /\ k = <<q, q>> \o key
      <4>1. PICK v \in Seq(ValueType), e \in Seq(Entry), w \in Seq(ValueType), d \in Seq(Entry) :
               v = vals /\ e = key /\ w = <<p, p>> /\ d = <<q, q>>
        BY <1>1, <3>3
      <4>2. w \o v \in Seq(ValueType) /\ d \o e \in Seq(Entry)
        OBVIOUS
      <4> QED BY <4>1, <4>2
    <3>5. all = a /\ Key(s) = k
      BY <2>1, <3>1, <3>2, <3>4 DEF Key
    <3> HIDE DEF all, key
    <3>6. /\ Len(a) = 2 + Len(vals) /\ Len(k) = 2 + Len(key)
          /\ a[1] = p /\ a[2] = p
          /\ \A j \in 1 .. Len(vals) : a[2 + j] = vals[j]
          /\ \A j \in 1 .. Len(key) : k[2 + j] = key[j]
      BY <1>1, <3>4
    <3>7. CASE i > 2 /\ i <= Len(a)
      <4>1. PICK j \in Nat : j = i - 2
        BY <2>0, <3>7
      <4>2. j \in 1 .. Len(vals) /\ j \in 1 .. Len(key) /\ i = 2 + j
        BY <1>1, <3>5, <3>6, <3>7, <4>1
      <4>3. a[i] = vals[j] /\ k[i] = key[j]
        BY <3>6, <4>2
      <4>4. vals[j].given <= key[j].opt
        BY <1>1, <4>2
      <4> QED BY <3>5, <3>7, <4>3, <4>4 DEF Argument
    <3>8. CASE i <= 2 /\ i <= Len(a)
      <4>1. i = 1 \/ i = 2
        BY <3>8
      <4>2. a[i] = p
        BY <3>6, <4>1
      <4>3. Argument(all, i).given = 0
        BY <1>2, <3>1, <3>5, <3>8, <4>2 DEF Argument
      <4>4. \A x \in Nat : 0 <= x
        OBVIOUS
      <4> QED BY <1>4, <4>3, <4>4
    <3>9. CASE ~(i <= Len(a))
      <4>1. Argument(all, i).given = 0
        BY <1>2, <2>0, <3>5, <3>9 DEF Argument
      <4>2. \A x \in Nat : 0 <= x
        OBVIOUS
      <4> QED BY <1>4, <4>1, <4>2
    <3>10. Len(a) \in Nat
      BY <3>4
    <3> QED BY <2>0, <3>7, <3>8, <3>9, <3>10
  <2>2. CASE ~Clock(s)
    <3>1. all = vals
      <4>1. <<>> \o vals = vals
        BY <1>1
      <4> QED BY <2>2, <4>1
    <3>2. Key(s) = key
      BY <2>2 DEF Key
    <3> HIDE DEF all
    <3>3. CASE i <= Len(vals)
      <4>1. i \in DOMAIN vals \cap DOMAIN key
        BY <1>1, <3>2, <3>3
      <4> QED BY <1>1, <3>1, <3>2, <3>3, <4>1 DEF Argument
    <3>4. CASE ~(i <= Len(vals))
      <4>1. Argument(all, i).given = 0
        BY <1>2, <2>0, <3>1, <3>4 DEF Argument
      <4>2. \A x \in Nat : 0 <= x
        OBVIOUS
      <4> QED BY <1>4, <4>1, <4>2
    <3> QED BY <3>3, <3>4
  <2> QED BY <2>1, <2>2
<1>6. ValsFor(s, Key(s), vals) = [i \in DOMAIN Key(s) |-> Argument(all, i)]
  BY DEF ValsFor
<1> HIDE DEF all
<1> QED BY <1>3, <1>5, <1>6

\* Store stores what its statement put.
LEMMA ContentStore ==
    ASSUME KnownIInv, PyKeys, Content, Store
    PROVE  Content'
<1>0. ProgramTypes
  BY DEF KnownIInv
<1> DEFINE key == IF program.api = "python" THEN pyFmt[ids[pc.stmt]] ELSE Key(pc.stmt)
<1>a. PICK s \in Stmt, f \in File : s = pc.stmt /\ f = pc.file
  BY <1>0, StoreDoes
<1>b. PICK new \in MessageType :
         /\ new = [id |-> ids[s], stmt |-> s, vals |-> ValsFor(s, key, pc.vals),
                   bytes |-> Stored(key, ValsFor(s, key, pc.vals), Limit(s))]
         /\ ring'[f] = Append(ring[f], new)
  BY <1>0, <1>a, StoreDoes
<1>1. /\ UNCHANGED <<program, ids, home, pyFmt>>
      /\ Stmt' = Stmt /\ File' = File
      /\ ids[s] # 0
      /\ pc.todo = <<"store">> \/ (program.api = "cprof" /\ pc.todo = <<"store", "describe">>)
      /\ \A g \in File : g # f => ring'[g] = ring[g]
  BY <1>0, <1>a, StoreDoes
<1>2. pc.todo # <<>> /\ pc.vals \in program.stmts[s].values
  BY <1>0, <1>a DEF Store, At, ProgramTypes
<1>3. \A m : Whole(m)' <=> Whole(m)
  BY <1>1 DEF Whole, Key, Clock, Limit
<1>4. ASSUME f \in home[s]
      PROVE  key = Key(s)
  <2>1. CASE program.api # "python"
    BY <1>a, <2>1
  <2>2. CASE program.api = "python"
    <3>1. ~Due("describe")
      BY <1>1, <2>2 DEF Due
    <3>2. pyFmt[ids[s]] = Key(s) \/ (TwoHandles /\ 2 \notin home[s] /\ PastOne)
      BY <1>1, <2>2, <3>1 DEF PyKeys
    <3>3. ~(TwoHandles /\ 2 \notin home[s] /\ PastOne)
      <4> SUFFICES ASSUME TwoHandles, 2 \notin home[s], PastOne PROVE FALSE
        OBVIOUS
      <4>1. f = 1
        BY <1>4 DEF File
      <4>2. ring[2] = <<>>
        BY <1>2, <1>a, <2>2, <4>1 DEF PyKeys
      <4> QED BY <1>a, <4>1, <4>2 DEF PastOne
    <3> QED BY <1>a, <2>2, <3>2, <3>3
  <2> QED BY <2>1, <2>2
<1>5. f \in home[s] => Whole(new)
  <2> SUFFICES ASSUME f \in home[s] PROVE Whole(new)
    OBVIOUS
  <2>1. /\ new.stmt = s /\ new.vals = ValsFor(s, Key(s), pc.vals)
        /\ new.bytes = Stored(Key(s), ValsFor(s, Key(s), pc.vals), Limit(s))
    BY <1>4, <1>b
  <2> HIDE DEF key
  <2>2. Key(s) \in Seq(Entry)
    BY <1>0, KeyType
  <2>3. Len(ValsFor(s, Key(s), pc.vals)) = Len(Key(s))
    BY <1>0, <1>2, <2>2, ValsType
  <2>4. \A i \in 1 .. Len(Key(s)) : ValsFor(s, Key(s), pc.vals)[i].given <= Key(s)[i].opt
    BY <1>0, <1>2, ValsFit
  <2> QED BY <2>1, <2>3, <2>4 DEF Whole
<1>6. new.stmt = s
  BY <1>b
<1> HIDE DEF key
<1>7. ASSUME NEW g \in File, NEW k \in DOMAIN ring'[g], g \in home[ring'[g][k].stmt]
      PROVE  Whole(ring'[g][k])
  <2>1. CASE g # f
    BY <1>1, <1>7, <2>1 DEF Content
  <2>2. CASE g = f
    <3>1. PICK q \in Seq(MessageType) : q = ring[f] /\ ring'[f] = Append(q, new)
      BY <1>0, <1>b DEF ProgramTypes
    <3>2. ring'[g][k] = new \/ (k \in DOMAIN ring[g] /\ ring'[g][k] = ring[g][k])
      <4>1. \A j \in DOMAIN Append(q, new) : Append(q, new)[j] = new \/ (j \in DOMAIN q /\ Append(q, new)[j] = q[j])
        OBVIOUS
      <4> QED BY <2>2, <3>1, <4>1
    <3> QED BY <1>5, <1>6, <1>7, <2>2, <3>2 DEF Content
  <2> QED BY <2>1, <2>2
<1> QED BY <1>1, <1>3, <1>7 DEF Content

\* What a program puts into its files stays right.
LEMMA PutStep ==
    ASSUME HandlesApart, PutInv, [Next]_vars
    PROVE  PutInv'
<1>0. KnownIInv'
  BY KnownStep DEF PutInv
<1>1. ASSUME NEW s \in Stmt, NEW f \in File, NEW vals \in program.stmts[s].values, Execute(s, f, vals)
      PROVE  PyKeys' /\ Content'
  BY <1>1, PyExecute, ContentExecute DEF PutInv
<1>2. ASSUME NEW wrote \in {"whole", "short", "none"}, Describe(wrote)
      PROVE  PyKeys' /\ Content'
  BY <1>2, PyDescribe, ContentDescribe DEF PutInv
<1>3. ASSUME Store PROVE PyKeys' /\ Content'
  BY <1>3, PyStore, ContentStore DEF PutInv
<1>4. ASSUME PyClose PROVE PyKeys' /\ Content'
  <2>1. PyKeys'
    <3>1. /\ Stmt' = Stmt /\ \A s \in Stmt : ids'[s] = 0
          /\ pc = Idle /\ UNCHANGED pc
      BY <1>4, PyCloseDoes DEF PutInv, KnownIInv
    <3>2. pc'.todo = <<>>
      BY <3>1 DEF Idle
    <3> QED BY <3>1, <3>2 DEF PyKeys
  <2> QED BY <1>4, <2>1, ContentClose DEF PutInv
<1>5. ASSUME Reading PROVE PyKeys' /\ Content'
  BY <1>5, ReadingDoes, PutOther DEF PutInv
<1>6. ASSUME UNCHANGED vars PROVE PyKeys' /\ Content'
  <2>1. UNCHANGED <<progVars, idVars, ring, pc>>
    BY <1>6 DEF vars
  <2> QED BY <2>1, PutOther DEF PutInv
<1> QED BY <1>0, <1>1, <1>2, <1>3, <1>4, <1>5, <1>6 DEF Next, Reading, PutInv

\* The invariant holds at the start.
LEMMA PutInit == Init => PutInv
<1> SUFFICES ASSUME Init PROVE PutInv
  OBVIOUS
<1>1. KnownIInv
  BY KnownInit
<1>2. /\ \A s \in Stmt : ids[s] = 0
      /\ \A f \in File : ring[f] = <<>>
      /\ pc.todo = <<>>
  BY DEF Init, Idle
<1> QED BY <1>1, <1>2 DEF PutInv, PyKeys, Content

(***************************************************************************)
(* DecodesWhatWasPut, in qttail: what it has parsed is what the file says. *)
(***************************************************************************)

\* What qttail has parsed is what the file says, and all of it can be formatted.
Understood(dict) ==
    \A i \in DOMAIN dict : dict[i] \in Stmt /\ Supported(Key(dict[i])) /\ HasDesc(reading.file, i, dict[i])

\* What qttail holds.
ReaderInv ==
    /\ reading.file \in File /\ reading.wall \in BOOLEAN
    /\ reader.at \in Nat \ {0} /\ reader.os \in Stream /\ clean \in BOOLEAN
    /\ Understood(reader.dict)

\* What was printed last is what was asked for.
LineInv ==
    line.msg # 0 =>
        /\ line.msg \in DOMAIN TheRing /\ line.stmt \in Stmt
        /\ reading.file \in home[TheRing[line.msg].stmt] /\ Decodable(TheRing[line.msg]) =>
              line.stmt = TheRing[line.msg].stmt /\ Bare(line.items) = Expected(TheRing[line.msg])

\* The inductive invariant.
DecodeInv == PutInv /\ ReaderInv /\ LineInv

\* Parsing adds what the file says.
LEMMA ParseUnderstands ==
    ASSUME ProgramTypes, ReaderInv, Trouble = "on"
    PROVE  Understood(Parsed(reader.dict))
<1> DEFINE list == TheDescs
           P(k) == ParsedTo(reader.dict, First(list, k))
           T == {k \in Nat : k <= Len(list) => Understood(P(k))}
<1>1. list \in Seq(DescType) /\ Len(list) \in Nat
  BY DEF ProgramTypes, ReaderInv, TheDescs
<1>2. ASSUME NEW d \in DOMAIN list
      PROVE  list[d].stmt \in Stmt /\ Supported(Key(list[d].stmt)) /\ HasDesc(reading.file, list[d].id, list[d].stmt)
  <2> DEFINE bad == {k \in DOMAIN list : ~list[k].whole \/ ~Supported(Key(list[k].stmt))}
  <2>1. bad = {}
    <3>1. Trouble = CASE bad = {} -> "on"
                      [] bad # {} /\ ~list[Min(bad)].whole -> "lost"
                      [] bad # {} /\ list[Min(bad)].whole -> "exit"
      BY DEF Trouble
    <3> HIDE DEF bad, list
    <3> QED BY <3>1
  <2>2. Supported(Key(list[d].stmt))
    BY <2>1
  <2>3. HasDesc(reading.file, list[d].id, list[d].stmt)
    BY DEF HasDesc, TheDescs
  <2>4. list[d] \in DescType
    BY <1>1
  <2> QED BY <2>2, <2>3, <2>4 DEF DescType
<1>3. First(list, 0) = <<>> /\ First(list, Len(list)) = list
  BY <1>1, FirstOf
<1> HIDE DEF list
<1>4. P(0) = reader.dict
  <2>1. PICK x \in {0}, d \in {reader.dict} : d = reader.dict
    OBVIOUS
  <2>2. <<>> \in Seq({0})
    OBVIOUS
  <2>3. ParsedTo(d, <<>>) = d
    BY <2>2, ParseMore
  <2> QED BY <1>3, <2>1, <2>3
<1>5. ASSUME NEW k \in Nat, k + 1 <= Len(list), Understood(P(k))
      PROVE  Understood(P(k + 1))
  <2>1. k + 1 \in 1 .. Len(list) /\ (k + 1) - 1 = k /\ k \in 0 .. Len(list) /\ k + 1 \in DOMAIN list
    BY <1>1, <1>5
  <2>2. First(list, k) \in Seq(DescType) /\ First(list, k + 1) = Append(First(list, k), list[k + 1])
    BY <1>1, <2>1, FirstOf
  <2>3. PICK e \in DescType : e = list[k + 1]
    BY <1>1, <2>1
  <2>4. P(k + 1) = ParseStep(P(k), e)
    <3>1. PICK d \in {reader.dict}, l \in Seq(DescType) : d = reader.dict /\ l = First(list, k)
      BY <2>2
    <3>2. ParsedTo(d, Append(l, e)) = ParseStep(ParsedTo(d, l), e)
      BY ParseMore
    <3> QED BY <2>2, <2>3, <3>1, <3>2
  <2>5. e.stmt \in Stmt /\ Supported(Key(e.stmt)) /\ HasDesc(reading.file, e.id, e.stmt)
    BY <1>2, <2>1, <2>3
  <2> HIDE DEF P
  <2> QED BY <1>5, <2>4, <2>5 DEF ParseStep, Enter, Understood
<1> HIDE DEF P
<1>6. 0 \in T
  BY <1>4 DEF ReaderInv
<1>7. ASSUME NEW n \in Nat, n \in T PROVE n + 1 \in T
  <2>1. n + 1 \in Nat
    OBVIOUS
  <2>2. SUFFICES ASSUME n + 1 <= Len(list) PROVE Understood(P(n + 1))
    BY <2>1
  <2>3. Understood(P(n))
    BY <1>1, <1>7, <2>2
  <2> QED BY <1>5, <2>2, <2>3
<1> HIDE DEF T
<1>8. Len(list) \in T /\ Len(list) <= Len(list)
  BY <1>1, <1>6, <1>7, Induction
<1>9. Understood(P(Len(list)))
  BY <1>8 DEF T
<1> QED BY <1>3, <1>9 DEF P, list, Parsed, ParsedTo

(***************************************************************************)
(* A step of dump().                                                       *)
(***************************************************************************)

\* A stream between two parts of a line.
Quiet(os, silent) == [os EXCEPT !.width = silent /\ @]

\* It is a state of std::cout.
LEMMA QuietType ==
    ASSUME NEW os \in Stream, NEW silent \in BOOLEAN
    PROVE  Quiet(os, silent) \in Stream
BY DEF Quiet, Stream

\* There are values for every statement that qttail knows.
LEMMA SomeShown ==
    ASSUME ProgramTypes, NEW s \in Stmt, Supported(Key(s)), NEW silent \in BOOLEAN, NEW os \in Stream
    PROVE  \E vals \in Seq(ValueType) : Takes(Key(s), vals) /\ DescShown(Desc(s), vals, Limit(s), silent, os)
<1> DEFINE none == [i \in 1 .. Len(Key(s)) |-> Plain(0)]
<1>1. /\ Desc(s) \in DescType0 /\ Desc(s).key = Key(s)
      /\ Key(s) \in Seq(Entry) /\ Limit(s) \in Nat
  BY DescOf
<1>2. Plain(0) \in ValueType /\ Plain(0).given = 0 /\ Plain(0).len = 0
  BY DEF Plain, ValueType
<1>3. Len(Key(s)) \in Nat
  BY <1>1
<1>4. none \in Seq(ValueType) /\ Len(none) = Len(Key(s)) /\ \A i \in 1 .. Len(Key(s)) : none[i] = Plain(0)
  BY <1>2, <1>3
<1> HIDE DEF none
<1>5. \A i \in 1 .. Len(Key(s)) : Key(s)[i].opt \in Nat /\ 0 <= Key(s)[i].opt
  <2> TAKE i \in 1 .. Len(Key(s))
  <2>1. Key(s)[i] \in Entry
    BY <1>1
  <2> QED BY <2>1 DEF Entry
<1>6. Takes(Key(s), none)
  BY <1>2, <1>4, <1>5 DEF Takes
<1>7. PICK d \in DescType0, v \in Seq(ValueType) : d = Desc(s) /\ v = none
  BY <1>1, <1>4
<1>8. Supported(d.key) /\ Takes(d.key, v)
  BY <1>1, <1>6, <1>7
<1>9. DescShown(d, v, Limit(s), silent, os)
  BY <1>1, <1>8, Printing
<1> QED BY <1>6, <1>7, <1>9

\* The formatters of a statement that qttail knows format whatever it finds.
LEMMA FormattersOk ==
    ASSUME ProgramTypes, NEW s \in Stmt, Supported(Key(s)),
           NEW bytes \in Seq(Cells), NEW silent \in BOOLEAN, NEW os \in Stream
    PROVE  /\ Formatters(Desc(s)) \in Seq(FormatterType)
           /\ Format(Formatters(Desc(s)), bytes, silent, os) \in PrintType
           /\ Format(Formatters(Desc(s)), bytes, silent, os).os \in Stream
<1>1. Formatters(Desc(s)) \in Seq(FormatterType)
  BY SomeShown DEF DescShown
<1>2. Format(Formatters(Desc(s)), bytes, silent, os) \in PrintType
  BY <1>1, FormatIs
<1> QED BY <1>1, <1>2 DEF PrintType

\* A message that its statement put is printed as it asks.
LEMMA LineShown ==
    ASSUME ProgramTypes, NEW m \in MessageType, Supported(Key(m.stmt)), Whole(m), Decodable(m),
           NEW silent \in BOOLEAN, NEW os \in Stream
    PROVE  /\ Takes(Key(m.stmt), m.vals)
           /\ Bare(Format(Formatters(Desc(m.stmt)), m.bytes, silent, os).items) = Expected(m)
<1> DEFINE s == m.stmt
           key == Key(s)
           puts == PutAll(key, m.vals, Limit(s))
<1>1. s \in Stmt /\ m.vals \in Seq(ValueType)
  BY DEF MessageType
<1>2. /\ Desc(s) \in DescType0 /\ Desc(s).key = key /\ Desc(s).text = Meant(s)
      /\ key \in Seq(Entry) /\ Limit(s) \in Nat
  BY <1>1, DescOf
<1>3. /\ Len(m.vals) = Len(key) /\ m.bytes = Stored(key, m.vals, Limit(s))
      /\ \A i \in 1 .. Len(m.vals) : m.vals[i].given <= key[i].opt
  BY DEF Whole
<1>4. Takes(key, m.vals)
  BY <1>1, <1>3 DEF Takes, Decodable
<1> HIDE DEF key
<1>5. DescShown(Desc(s), m.vals, Limit(s), silent, os)
  <2>1. PICK d \in DescType0, v \in Seq(ValueType) : d = Desc(s) /\ v = m.vals
    BY <1>1, <1>2
  <2>2. Supported(d.key) /\ Takes(d.key, v)
    BY <1>2, <1>4, <2>1 DEF key
  <2>3. DescShown(d, v, Limit(s), silent, os)
    BY <1>2, <2>2, Printing
  <2> QED BY <2>1, <2>3
<1>6. Bare(Format(Formatters(Desc(s)), m.bytes, silent, os).items)
         = IF Agreed(Desc(s)) THEN FlattenSeq(PiecesOf(Meant(s), Start(Desc(s)).used, key, puts))
           ELSE ApartShown(Meant(s), key, puts)
  BY <1>2, <1>3, <1>5 DEF DescShown
<1>7. Expected(m) = IF Agreed(Desc(s)) THEN FlattenSeq(PiecesOf(Meant(s), Start(Desc(s)).used, key, puts))
                    ELSE ApartShown(Meant(s), key, puts)
  <2>1. Len(m.vals) = Len(Key(m.stmt))
    BY <1>3 DEF key
  <2> QED BY <2>1, ExpectedIs DEF key
<1> QED BY <1>4, <1>6, <1>7 DEF key

\* What qttail looks a message up in.
LEMMA DictIs ==
    ASSUME ProgramTypes, ReaderInv, NEW id, Fine(id)
    PROVE  Understood(Dict(id))
<1>1. CASE id \in DOMAIN reader.dict
  BY <1>1 DEF Dict, ReaderInv
<1>2. CASE id \notin DOMAIN reader.dict
  <2>1. Trouble = "on"
    BY <1>2 DEF Fine
  <2> QED BY <1>2, <2>1, ParseUnderstands DEF Dict
<1> QED BY <1>1, <1>2

\* What dump() does, for the message m of the statement s as it takes it.
DumpedLine(m, s) ==
    /\ line'.msg = reader.at /\ line'.stmt = s
    /\ line'.items = Format(Formatters(Desc(s)), m.bytes, FALSE, Quiet(reader.os, FALSE)).items
    /\ line'.padded = (reader.os.width \/ Format(Formatters(Desc(s)), m.bytes, FALSE, Quiet(reader.os, FALSE)).os.width)

\* All that dump() does with it.
Dumped(m, s) ==
    LET silent == reading.wall /\ ~Clock(s)
    IN  /\ Supported(Key(s)) /\ HasDesc(reading.file, m.id, s) /\ Understood(Dict(m.id))
        /\ reader'.dict = Dict(m.id) /\ reader'.at = reader.at + 1
        /\ reader'.os = Quiet(Format(Formatters(Desc(s)), m.bytes, silent, Quiet(reader.os, silent)).os, silent)
        /\ IF silent THEN line' = line ELSE DumpedLine(m, s)
        /\ clean' = (clean /\ (line.msg = 0 \/ ~Leaves(line.stmt, FALSE)) /\ ~(silent /\ Leaves(s, TRUE)))

\* What Dump changes, variable by variable.
LEMMA DumpDoes ==
    ASSUME ProgramTypes, ReaderInv, Dump
    PROVE  \E m \in MessageType, s \in Stmt :
              m = TheRing[reader.at] /\ reader.at \in DOMAIN TheRing /\ Dumped(m, s)
<1>1. /\ TheRing \in Seq(MessageType) /\ reader.at \in Nat \ {0}
      /\ reader.at \in DOMAIN TheRing /\ Fine(TheRing[reader.at].id)
  <2>1. TheRing \in Seq(MessageType) /\ reader.at \in Nat \ {0}
    BY DEF ProgramTypes, ReaderInv, TheRing
  <2>2. reader.at <= Len(TheRing) /\ Fine(TheRing[reader.at].id)
    BY DEF Dump, HasNext
  <2> QED BY <2>1, <2>2
<1>2. PICK m \in MessageType : m = TheRing[reader.at]
  BY <1>1
<1>3. Understood(Dict(m.id))
  BY <1>1, <1>2, DictIs
<1>4. m.id \in DOMAIN Dict(m.id)
  BY <1>2 DEF Dump, Accepts
<1>5. PICK s \in Stmt : s = Dict(m.id)[m.id] /\ Supported(Key(s)) /\ HasDesc(reading.file, m.id, s)
  BY <1>3, <1>4 DEF Understood
<1> DEFINE silent == reading.wall /\ ~Clock(s)
           st == Format(Formatters(Desc(s)), m.bytes, silent, Quiet(reader.os, silent))
<1>6. /\ reader' = [dict |-> Dict(m.id), at |-> reader.at + 1, os |-> Quiet(st.os, silent), state |-> "on"]
      /\ line' = IF silent THEN line ELSE
                      [stmt |-> s, msg |-> reader.at, items |-> st.items,
                       padded |-> reader.os.width \/ st.os.width]
      /\ clean' = (clean /\ (line.msg = 0 \/ ~Leaves(line.stmt, FALSE)) /\ ~(silent /\ Leaves(s, TRUE)))
  BY <1>2, <1>5 DEF Dump, Quiet
<1>7. ~silent => silent = FALSE
  OBVIOUS
<1>8. IF silent THEN line' = line ELSE DumpedLine(m, s)
  <2>1. CASE silent
    BY <1>6, <2>1
  <2>2. CASE ~silent
    <3>1. st = Format(Formatters(Desc(s)), m.bytes, FALSE, Quiet(reader.os, FALSE))
      BY <1>7, <2>2
    <3>2. line' = [stmt |-> s, msg |-> reader.at, items |-> st.items, padded |-> reader.os.width \/ st.os.width]
      BY <1>6, <2>2
    <3> HIDE DEF st
    <3> QED BY <2>2, <3>1, <3>2 DEF DumpedLine
  <2> QED BY <2>1, <2>2
<1>9. reader'.dict = Dict(m.id) /\ reader'.at = reader.at + 1 /\ reader'.os = Quiet(st.os, silent)
  BY <1>6
<1>10. Dumped(m, s)
  BY <1>3, <1>5, <1>6, <1>8, <1>9 DEF Dumped
<1> QED BY <1>1, <1>2, <1>10

\* The file that is read is one of the program's, and its messages are typed.
LEMMA ReadFile ==
    ASSUME ProgramTypes, ReaderInv
    PROVE  /\ reading.file \in File
           /\ TheRing \in Seq(MessageType) /\ TheDescs \in Seq(DescType)
           /\ TheRing = ring[reading.file] /\ TheDescs = descs[reading.file]
BY DEF ProgramTypes, ReaderInv, TheRing, TheDescs

\* The descriptors in a file say whose messages those are that the file describes.
LEMMA DescribedAs ==
    ASSUME KnownIInv, ReaderInv, NEW k \in DOMAIN TheRing, NEW m, m = TheRing[k],
           reading.file \in home[m.stmt], NEW s \in Stmt, HasDesc(reading.file, m.id, s)
    PROVE  s = m.stmt
<1>1. Traced(reading.file, m)
  BY ReadFile DEF KnownIInv, AllTraced
<1>2. Means(reading.file, m.id, m.stmt)
  BY <1>1 DEF Traced
<1> QED BY <1>2 DEF Means, HasDesc

\* What is understood stays so while descriptors are only added.
LEMMA UnderstoodStays ==
    ASSUME UNCHANGED <<program, reading>>,
           \A d \in DOMAIN TheDescs : d \in DOMAIN TheDescs' /\ TheDescs'[d] = TheDescs[d],
           NEW dict, Understood(dict)
    PROVE  Understood(dict)'
<1>1. Stmt' = Stmt /\ (\A s \in Stmt : Key(s)' = Key(s)) /\ reading' = reading
  BY DEF Stmt, Key, Clock
<1>2. ASSUME NEW i, NEW s, HasDesc(reading.file, i, s)
      PROVE  HasDesc(reading.file, i, s)'
  <2>1. PICK d \in DOMAIN TheDescs : TheDescs[d].id = i /\ TheDescs[d].stmt = s
    BY <1>2 DEF HasDesc, TheDescs
  <2>2. d \in DOMAIN TheDescs' /\ TheDescs'[d].id = i /\ TheDescs'[d].stmt = s
    BY <2>1
  <2> QED BY <1>1, <2>2 DEF HasDesc, TheDescs
<1>3. ASSUME NEW i \in DOMAIN dict
      PROVE  dict[i] \in Stmt /\ Supported(Key(dict[i])') /\ HasDesc(reading.file, i, dict[i])'
  <2>1. dict[i] \in Stmt /\ Supported(Key(dict[i])) /\ HasDesc(reading.file, i, dict[i])
    BY <1>3 DEF Understood
  <2>2. Key(dict[i])' = Key(dict[i])
    BY <1>1, <2>1
  <2> QED BY <1>2, <2>1, <2>2
<1> QED BY <1>1, <1>3 DEF Understood

\* The program's steps leave qttail where it was.
LEMMA ReaderStays ==
    ASSUME ReaderInv, UNCHANGED <<program, reading, readVars>>,
           \A d \in DOMAIN TheDescs : d \in DOMAIN TheDescs' /\ TheDescs'[d] = TheDescs[d]
    PROVE  ReaderInv'
<1>1. UNCHANGED <<reader, clean>> /\ File' = File
  BY DEF readVars, File
<1>2. PICK dict : dict = reader.dict
  OBVIOUS
<1>3. Understood(dict)'
  BY <1>2, UnderstoodStays DEF ReaderInv
<1>4. Understood(reader.dict)'
  BY <1>1, <1>2, <1>3
<1> QED BY <1>1, <1>4 DEF ReaderInv

\* What is expected is a matter of the program.
LEMMA ExpectedSame ==
    ASSUME UNCHANGED program, NEW m
    PROVE  Expected(m)' = Expected(m)
BY DEF Expected, Agrees, ArgOf, ArgsTo, Skipped, Clock, Key, Meant, Bytes

\* The line that was printed last stays right while messages are only added.
LEMMA LineStays ==
    ASSUME LineInv, UNCHANGED <<program, reading, line>>,
           \A k \in DOMAIN TheRing : k \in DOMAIN TheRing' /\ TheRing'[k] = TheRing[k],
           \A k \in DOMAIN TheRing :
              reading.file \in home'[TheRing[k].stmt] => reading.file \in home[TheRing[k].stmt]
    PROVE  LineInv'
<1>1. Stmt' = Stmt /\ reading' = reading /\ line' = line
  BY DEF Stmt
<1>2. SUFFICES ASSUME line.msg # 0
               PROVE  /\ line.msg \in DOMAIN TheRing' /\ line.stmt \in Stmt
                      /\ reading.file \in home'[TheRing'[line.msg].stmt] /\ Decodable(TheRing'[line.msg]) =>
                           line.stmt = TheRing'[line.msg].stmt /\ Bare(line.items) = Expected(TheRing[line.msg])'
  BY <1>1 DEF LineInv
<1>3. PICK m : m = TheRing[line.msg]
  OBVIOUS
<1>4. line.msg \in DOMAIN TheRing /\ TheRing'[line.msg] = m /\ line.msg \in DOMAIN TheRing' /\ line.stmt \in Stmt
  BY <1>2, <1>3 DEF LineInv
<1>5. Expected(m)' = Expected(m)
  BY ExpectedSame
<1>6. Expected(TheRing[line.msg])' = Expected(m)'
  BY <1>1, <1>4
<1>7. reading.file \in home[m.stmt] /\ Decodable(m) => line.stmt = m.stmt /\ Bare(line.items) = Expected(m)
  BY <1>2, <1>3 DEF LineInv
<1>8. reading.file \in home'[m.stmt] => reading.file \in home[m.stmt]
  BY <1>3, <1>4
<1> QED BY <1>4, <1>5, <1>6, <1>7, <1>8

\* The line that dump() prints.
LEMMA LineDump ==
    ASSUME PutInv, ReaderInv, LineInv, Dump
    PROVE  LineInv'
<1>0. ProgramTypes /\ KnownIInv
  BY DEF PutInv, KnownIInv
<1>1. UNCHANGED <<program, reading, ring, home>>
  BY DEF Dump, progVars, idVars
<1>2. PICK m \in MessageType, s \in Stmt :
         m = TheRing[reader.at] /\ reader.at \in DOMAIN TheRing /\ Dumped(m, s)
  BY <1>0, DumpDoes
<1>3. /\ TheRing' = TheRing /\ Stmt' = Stmt
      /\ reader.at \in Nat \ {0}
  BY <1>1 DEF TheRing, Stmt, ReaderInv
<1>4. CASE reading.wall /\ ~Clock(s)
  <2>1. line' = line
    BY <1>2, <1>4 DEF Dumped
  <2> QED BY <1>1, <1>3, <2>1, LineStays
<1>5. CASE ~(reading.wall /\ ~Clock(s))
  <2>1. DumpedLine(m, s) /\ Supported(Key(s)) /\ HasDesc(reading.file, m.id, s)
    BY <1>2, <1>5 DEF Dumped
  <2>2. line'.msg = reader.at /\ line'.stmt = s
    BY <2>1 DEF DumpedLine
  <2>3. ASSUME reading.file \in home[m.stmt], Decodable(m)
        PROVE  s = m.stmt /\ Bare(line'.items) = Expected(m)
    <3>1. s = m.stmt
      BY <1>0, <1>2, <2>1, <2>3, DescribedAs
    <3>2. Whole(m)
      BY <1>0, <1>2, <2>3, ReadFile DEF PutInv, Content
    <3>3. PICK os \in Stream, silent \in BOOLEAN : os = Quiet(reader.os, FALSE) /\ silent = FALSE
      BY QuietType DEF ReaderInv
    <3>4. Supported(Key(m.stmt))
      BY <2>1, <3>1
    <3>5. Bare(Format(Formatters(Desc(m.stmt)), m.bytes, silent, os).items) = Expected(m)
      BY <1>0, <2>3, <3>2, <3>4, LineShown
    <3>6. line'.items = Format(Formatters(Desc(m.stmt)), m.bytes, silent, os).items
      BY <2>1, <3>1, <3>3 DEF DumpedLine
    <3> QED BY <3>1, <3>5, <3>6
  <2>4. Expected(m)' = Expected(m)
    BY <1>1, ExpectedSame
  <2>5. TheRing'[line'.msg] = m /\ Expected(TheRing[line.msg])' = Expected(m)'
    BY <1>2, <1>3, <2>2
  <2> QED BY <1>1, <1>2, <1>3, <2>2, <2>3, <2>4, <2>5 DEF LineInv
<1> QED BY <1>4, <1>5

\* What qttail knows after dump().
LEMMA ReaderDump ==
    ASSUME PutInv, ReaderInv, Dump
    PROVE  ReaderInv'
<1>0. ProgramTypes
  BY DEF PutInv, KnownIInv
<1>1. UNCHANGED <<program, reading, descs>>
  BY DEF Dump, progVars, idVars
<1>2. PICK m \in MessageType, s \in Stmt :
         m = TheRing[reader.at] /\ reader.at \in DOMAIN TheRing /\ Dumped(m, s)
  BY <1>0, DumpDoes
<1>3. TheDescs' = TheDescs /\ File' = File
  BY <1>1 DEF TheDescs, File
<1>4. Understood(reader.dict)'
  <2>1. PICK dict : dict = Dict(m.id)
    OBVIOUS
  <2>2. Understood(dict) /\ reader'.dict = dict
    BY <1>2, <2>1 DEF Dumped
  <2>3. Understood(dict)'
    BY <1>1, <1>3, <2>2, UnderstoodStays
  <2> QED BY <2>2, <2>3
<1>5. reader'.at \in Nat \ {0}
  <2>1. reader'.at = reader.at + 1 /\ reader.at \in Nat
    BY <1>2 DEF Dumped, ReaderInv
  <2> QED BY <2>1
<1>6. reader'.os \in Stream
  <2>1. PICK silent \in BOOLEAN : silent = (reading.wall /\ ~Clock(s))
    OBVIOUS
  <2>2. PICK os \in Stream : os = Quiet(reader.os, silent)
    BY QuietType DEF ReaderInv
  <2>3. m.bytes \in Seq(Cells) /\ Supported(Key(s))
    BY <1>2 DEF MessageType, Dumped
  <2>4. PICK end \in Stream : end = Format(Formatters(Desc(s)), m.bytes, silent, os).os
    BY <1>0, <2>3, FormattersOk
  <2>5. Quiet(end, silent) \in Stream
    BY QuietType
  <2> QED BY <1>2, <2>1, <2>2, <2>4, <2>5 DEF Dumped
<1>7. clean' \in BOOLEAN
  BY <1>2 DEF Dumped
<1> QED BY <1>1, <1>3, <1>4, <1>5, <1>6, <1>7 DEF ReaderInv

\* What qttail knows after it has looked again, or has given up.
LEMMA ReaderOther ==
    ASSUME PutInv, ReaderInv, Retry \/ GiveUp \/ Stop
    PROVE  ReaderInv' /\ UNCHANGED <<program, reading, ring, home, line>>
<1>0. ProgramTypes
  BY DEF PutInv, KnownIInv
<1>1. UNCHANGED <<program, reading, descs, ring, home, line, clean>>
  BY DEF Retry, GiveUp, Stop, progVars, idVars
<1>2. TheDescs' = TheDescs /\ File' = File
  BY <1>1 DEF TheDescs, File
<1>3. ASSUME Retry
      PROVE  reader'.at = reader.at /\ reader'.os = reader.os /\ Understood(reader'.dict)
  <2>1. PICK id : id = TheRing[reader.at].id
    OBVIOUS
  <2>2. Fine(id)
    BY <1>3, <2>1 DEF Retry, Refused
  <2>3. Understood(Dict(id))
    BY <1>0, <2>2, DictIs
  <2>4. reader' = [reader EXCEPT !.dict = Dict(id)]
    BY <1>3, <2>1 DEF Retry
  <2>5. reader'.at = reader.at /\ reader'.os = reader.os /\ (reader'.dict = Dict(id) \/ reader'.dict = reader.dict)
    BY <2>4
  <2> QED BY <2>3, <2>5 DEF ReaderInv
<1>4. ASSUME GiveUp \/ Stop
      PROVE  reader'.at = reader.at /\ reader'.os = reader.os /\ Understood(reader'.dict)
  <2>1. \E state : reader' = [reader EXCEPT !.state = state]
    BY <1>4 DEF GiveUp, Stop
  <2>2. reader'.at = reader.at /\ reader'.os = reader.os /\ reader'.dict = reader.dict
    BY <2>1
  <2> QED BY <2>2 DEF ReaderInv
<1>5. reader'.at = reader.at /\ reader'.os = reader.os /\ Understood(reader'.dict)
  BY <1>3, <1>4
<1>6. Understood(reader.dict)'
  <2>1. PICK dict : dict = reader'.dict
    OBVIOUS
  <2>2. Understood(dict)'
    BY <1>1, <1>2, <1>5, <2>1, UnderstoodStays
  <2> QED BY <2>1, <2>2
<1> QED BY <1>1, <1>2, <1>5, <1>6 DEF ReaderInv

(***************************************************************************)
(* DecodesWhatWasPut: the theorem.                                         *)
(***************************************************************************)

\* Steps of the program leave qttail and the line it printed last alone.
LEMMA ProgramSteps ==
    ASSUME DecodeInv,
           UNCHANGED <<program, reading, readVars>>,
           \A d \in DOMAIN TheDescs : d \in DOMAIN TheDescs' /\ TheDescs'[d] = TheDescs[d],
           \A k \in DOMAIN TheRing : k \in DOMAIN TheRing' /\ TheRing'[k] = TheRing[k],
           \A k \in DOMAIN TheRing :
              reading.file \in home'[TheRing[k].stmt] => reading.file \in home[TheRing[k].stmt]
    PROVE  ReaderInv' /\ LineInv'
<1>1. UNCHANGED line
  BY DEF readVars
<1>2. ReaderInv'
  BY ReaderStays DEF DecodeInv
<1>3. LineInv'
  BY <1>1, LineStays DEF DecodeInv
<1> QED BY <1>2, <1>3

\* Every step keeps the invariant.
LEMMA DecodeStep ==
    ASSUME HandlesApart, DecodeInv, [Next]_vars
    PROVE  DecodeInv'
<1>0. ProgramTypes /\ KnownIInv /\ PutInv
  BY DEF DecodeInv, PutInv, KnownIInv
<1>1. PutInv'
  BY PutStep DEF DecodeInv
<1>2. /\ reading.file \in File /\ TheRing \in Seq(MessageType) /\ TheDescs \in Seq(DescType)
      /\ TheRing = ring[reading.file] /\ TheDescs = descs[reading.file]
  BY <1>0, ReadFile DEF DecodeInv
<1>3. ASSUME NEW s \in Stmt, NEW f \in File, NEW vals \in program.stmts[s].values, Execute(s, f, vals)
      PROVE  ReaderInv' /\ LineInv'
  <2>1. UNCHANGED <<program, reading, descs, ring, readVars>>
    BY <1>0, <1>3, ExecuteDoes
  <2>2. TheRing' = TheRing /\ TheDescs' = TheDescs
    BY <2>1 DEF TheRing, TheDescs
  <2>3. ASSUME NEW k \in DOMAIN TheRing, reading.file \in home'[TheRing[k].stmt]
        PROVE  reading.file \in home[TheRing[k].stmt]
    <3>1. PICK m \in MessageType : m = TheRing[k]
      BY <1>2
    <3>2. Traced(reading.file, m) /\ m.stmt \in Stmt
      BY <1>0, <1>2, <3>1 DEF KnownIInv, AllTraced, MessageType
    <3> QED BY <1>0, <1>2, <1>3, <2>3, <3>1, <3>2, NoNewHome
  <2> QED BY <2>1, <2>2, <2>3, ProgramSteps
<1>4. ASSUME NEW wrote \in {"whole", "short", "none"}, Describe(wrote)
      PROVE  ReaderInv' /\ LineInv'
  <2>1. PICK s \in Stmt, f \in File, entry \in DescType :
           /\ UNCHANGED <<program, reading, home, ring, readVars>>
           /\ \A g \in File : g # f => descs'[g] = descs[g]
           /\ descs'[f] = descs[f] \/ descs'[f] = Append(descs[f], entry)
    BY <1>0, <1>4, DescribeAdds
  <2>2. TheRing' = TheRing /\ TheDescs' = descs'[reading.file]
    BY <2>1 DEF TheRing, TheDescs
  <2>3. TheDescs' = TheDescs \/ TheDescs' = Append(TheDescs, entry)
    BY <1>2, <2>1, <2>2
  <2>4. \A d \in DOMAIN TheDescs : d \in DOMAIN TheDescs' /\ TheDescs'[d] = TheDescs[d]
    BY <1>2, <2>3
  <2> QED BY <2>1, <2>2, <2>4, ProgramSteps
<1>5. ASSUME Store
      PROVE  ReaderInv' /\ LineInv'
  <2>1. PICK f \in File, new \in MessageType :
           /\ ring'[f] = Append(ring[f], new)
           /\ \A g \in File : g # f => ring'[g] = ring[g]
    BY <1>0, <1>5, StoreAdds
  <2>2. UNCHANGED <<program, reading, home, descs, readVars>>
    BY <1>5 DEF Store, progVars, idVars
  <2>3. TheDescs' = TheDescs /\ TheRing' = ring'[reading.file]
    BY <2>2 DEF TheRing, TheDescs
  <2>4. TheRing' = TheRing \/ TheRing' = Append(TheRing, new)
    BY <1>2, <2>1, <2>3
  <2>5. \A k \in DOMAIN TheRing : k \in DOMAIN TheRing' /\ TheRing'[k] = TheRing[k]
    <3>1. PICK r \in Seq(MessageType) : r = TheRing
      BY <1>2
    <3>2. \A k \in DOMAIN r : k \in DOMAIN Append(r, new) /\ Append(r, new)[k] = r[k]
      OBVIOUS
    <3> QED BY <2>4, <3>1, <3>2
  <2> QED BY <2>2, <2>3, <2>5, ProgramSteps
<1>6. ASSUME PyClose
      PROVE  ReaderInv' /\ LineInv'
  <2>1. UNCHANGED <<program, reading, home, descs, ring, readVars>>
    BY <1>6 DEF PyClose, progVars
  <2>2. TheRing' = TheRing /\ TheDescs' = TheDescs
    BY <2>1 DEF TheRing, TheDescs
  <2> QED BY <2>1, <2>2, ProgramSteps
<1>7. ASSUME Dump
      PROVE  ReaderInv' /\ LineInv'
  BY <1>0, <1>7, ReaderDump, LineDump DEF DecodeInv
<1>8. ASSUME Retry \/ GiveUp \/ Stop
      PROVE  ReaderInv' /\ LineInv'
  <2>1. ReaderInv' /\ UNCHANGED <<program, reading, ring, home, line>>
    BY <1>0, <1>8, ReaderOther DEF DecodeInv
  <2>2. TheRing' = TheRing
    BY <2>1 DEF TheRing
  <2>3. LineInv'
    BY <2>1, <2>2, LineStays DEF DecodeInv
  <2> QED BY <2>1, <2>3
<1>9. ASSUME UNCHANGED vars
      PROVE  ReaderInv' /\ LineInv'
  <2>1. UNCHANGED <<program, reading, home, descs, ring, readVars>>
    BY <1>9 DEF vars, progVars, idVars
  <2>2. TheRing' = TheRing /\ TheDescs' = TheDescs
    BY <2>1 DEF TheRing, TheDescs
  <2> QED BY <2>1, <2>2, ProgramSteps
<1> QED BY <1>1, <1>3, <1>4, <1>5, <1>6, <1>7, <1>8, <1>9 DEF Next, DecodeInv

\* It holds at the start.
LEMMA DecodeInit == Init => DecodeInv
<1> SUFFICES ASSUME Init PROVE DecodeInv
  OBVIOUS
<1>1. PutInv
  BY PutInit
<1>2. reader.dict = <<>> /\ reader.at = 1 /\ reader.os = FreshStream /\ clean = TRUE /\ line.msg = 0
  BY DEF Init, NoLine
<1>3. FreshStream \in Stream /\ 1 \in Nat \ {0}
  BY DEF FreshStream, Stream
<1>4. reading.file \in File /\ reading.wall \in BOOLEAN
  BY DEF Init
<1>5. Understood(reader.dict)
  <2>1. DOMAIN reader.dict = {}
    BY <1>2
  <2> QED BY <2>1 DEF Understood
<1> QED BY <1>1, <1>2, <1>3, <1>4, <1>5 DEF DecodeInv, ReaderInv, LineInv

\* It implies the property.
LEMMA DecodeHolds == DecodeInv => DecodesWhatWasPut
<1> SUFFICES ASSUME DecodeInv PROVE DecodesWhatWasPut
  OBVIOUS
<1>0. ProgramTypes /\ KnownIInv /\ ReaderInv
  BY DEF DecodeInv, PutInv, KnownIInv
<1>1. /\ reading.file \in File /\ TheRing \in Seq(MessageType) /\ TheDescs \in Seq(DescType)
      /\ TheRing = ring[reading.file] /\ TheDescs = descs[reading.file]
  BY <1>0, ReadFile
<1>2. ASSUME line.msg # 0, NEW m, m = TheRing[line.msg], ~Undescribed(reading.file, m.stmt), Decodable(m)
      PROVE  line.stmt = m.stmt /\ Bare(line.items) = Expected(m)
  <2>1. line.msg \in DOMAIN TheRing
    BY <1>2 DEF DecodeInv, LineInv
  <2>2. Traced(reading.file, m)
    BY <1>0, <1>1, <1>2, <2>1 DEF KnownIInv, AllTraced
  <2>3. reading.file \in home[m.stmt]
    BY <1>2, <2>2 DEF Traced, Undescribed
  <2> QED BY <1>2, <2>3 DEF DecodeInv, LineInv
<1>3. ASSUME NEW k \in DOMAIN TheRing, NEW dict, dict = Parsed(reader.dict), NEW m, m = TheRing[k],
             Trouble = "on", m.id \in DOMAIN dict, dict[m.id] = m.stmt, Decodable(m)
      PROVE  Accepts(m, dict) <=> Fits(m)
  <2>1. m \in MessageType /\ m.stmt \in Stmt
    <3>1. m \in MessageType
      BY <1>1, <1>3
    <3> QED BY <3>1 DEF MessageType
  <2>2. Understood(dict)
    BY <1>0, <1>3, ParseUnderstands
  <2>3. Supported(Key(m.stmt)) /\ HasDesc(reading.file, m.id, m.stmt)
    BY <1>3, <2>2 DEF Understood
  <2>4. PICK d \in DOMAIN descs[reading.file] :
           descs[reading.file][d].id = m.id /\ descs[reading.file][d].stmt = m.stmt
    BY <2>3 DEF HasDesc
  <2>5. reading.file \in home[m.stmt]
    BY <1>0, <1>1, <2>4 DEF KnownIInv, Entries, Described
  <2>6. Whole(m)
    BY <1>1, <1>3, <2>5 DEF DecodeInv, PutInv, Content
  <2>7. Takes(Key(m.stmt), m.vals)
    <3>1. PICK os \in Stream : os = FreshStream
      BY DEF FreshStream, Stream
    <3>2. PICK silent \in BOOLEAN : silent = FALSE
      OBVIOUS
    <3> QED BY <1>0, <1>3, <2>1, <2>3, <2>6, <3>1, <3>2, LineShown
  <2>8. m.bytes = Stored(Key(m.stmt), m.vals, Limit(m.stmt))
    BY <2>6 DEF Whole
  <2> QED BY <1>0, <1>3, <2>1, <2>3, <2>7, <2>8, AcceptsFits
<1> QED BY <1>2, <1>3 DEF DecodesWhatWasPut

\* What lies in a file, what qttail has parsed of it and the line that it printed
\* last stay as DecodeInv says, for every program, API and order of statements,
\* where a C++ program does not trace through two handles.
THEOREM DecodeInvariance == ASSUME HandlesApart PROVE Spec => []DecodeInv
<1>1. Init => DecodeInv
  BY DecodeInit
<1>2. DecodeInv /\ [Next]_vars => DecodeInv'
  BY DecodeStep
<1> QED BY <1>1, <1>2, PTL DEF Spec

\* RingBuffer::dump prints the message that the statement traced: MessageFormatter
\* takes the bytes of the ring apart as QuickTraceRingBuf.h put them, under the text
\* that QTFMT made, and Messages::get refuses a message exactly when its text is
\* empty or it is too long for the byte that ends it.
THEOREM DecodesAlways == ASSUME HandlesApart PROVE Spec => []DecodesWhatWasPut
<1>1. DecodeInv => DecodesWhatWasPut
  BY DecodeHolds
<1> QED BY <1>1, DecodeInvariance, PTL

(***************************************************************************)
(* SpecsUndone.                                                            *)
(***************************************************************************)

\* A statement whose formats leave nothing behind.
LEMMA LeavesNothing ==
    ASSUME NEW s \in Stmt, NEW silent \in BOOLEAN, ~Leaves(s, silent)
    PROVE  StaysIn(Text(s), Key(s), silent)
BY DEF Leaves, StaysIn

\* Where a width stands, there are no strings.
LEMMA OneOrOther ==
    ASSUME NEW text \in Seq(TokenType), NEW key \in Seq(Entry), NEW silent \in BOOLEAN, StaysIn(text, key, silent)
    PROVE  Covers(NoStrings, text, key) \/ Covers(NoWidths, text, key)
<1>1. /\ NoStrings \subseteq FormatterType /\ NoWidths \subseteq FormatterType
      /\ WallClock.type = "w"
  BY DEF NoStrings, NoWidths, WallClock
<1>2. ASSUME NEW str \in Seq(Letter)
      PROVE  [f |-> "static", of |-> str] \in NoStrings /\ [f |-> "static", of |-> str] \in NoWidths
  <2>1. [f |-> "static", of |-> str] \in FormatterType
    BY DEF FormatterType
  <2> QED BY <2>1 DEF NoStrings, NoWidths
<1>3. ASSUME NEW e \in Entry \cup {WallClock}, NEW hex \in BOOLEAN
      PROVE  /\ [f |-> "value", e |-> e, hex |-> hex] \in NoWidths
             /\ e.type # "p" => [f |-> "value", e |-> e, hex |-> hex] \in NoStrings
  <2>1. [f |-> "value", e |-> e, hex |-> hex] \in FormatterType
    BY DEF FormatterType
  <2> QED BY <2>1 DEF NoStrings, NoWidths
<1>4. ASSUME NEW spec \in SpecType, NEW f \in {"apply", "reset"}
      PROVE  /\ [f |-> f, spec |-> spec] \in NoStrings
             /\ "width" \notin spec => [f |-> f, spec |-> spec] \in NoWidths
  <2>1. [f |-> f, spec |-> spec] \in FormatterType
    BY DEF FormatterType, SpecType
  <2> QED BY <2>1 DEF NoStrings, NoWidths
<1>5. \A j \in DOMAIN text : IsArg(text[j]) => text[j].spec \in SpecType
  <2> TAKE j \in DOMAIN text
  <2>1. text[j] \in TokenType
    OBVIOUS
  <2> QED BY <2>1, TokenIs DEF SpecType
<1>6. \A i \in DOMAIN key : key[i] \in Entry \cup {WallClock}
  OBVIOUS
<1>7. WallClock \in Entry \cup {WallClock}
  OBVIOUS
<1> HIDE DEF NoStrings, NoWidths
<1>8. CASE \A i \in DOMAIN key : key[i].type # "p"
  <2>1. \A hex \in BOOLEAN : /\ [f |-> "value", e |-> WallClock, hex |-> hex] \in NoStrings
                            /\ \A i \in DOMAIN key : [f |-> "value", e |-> key[i], hex |-> hex] \in NoStrings
    BY <1>1, <1>3, <1>6, <1>7, <1>8
  <2>2. \A j \in DOMAIN text : IsArg(text[j]) => /\ [f |-> "apply", spec |-> text[j].spec] \in NoStrings
                                                /\ [f |-> "reset", spec |-> text[j].spec] \in NoStrings
    BY <1>4, <1>5
  <2> QED BY <1>1, <1>2, <2>1, <2>2 DEF Covers
<1>9. CASE ~(\A i \in DOMAIN key : key[i].type # "p")
  <2>1. \A hex \in BOOLEAN : /\ [f |-> "value", e |-> WallClock, hex |-> hex] \in NoWidths
                            /\ \A i \in DOMAIN key : [f |-> "value", e |-> key[i], hex |-> hex] \in NoWidths
    BY <1>3, <1>6, <1>7
  <2>2. \A j \in DOMAIN text : IsArg(text[j]) => "width" \notin text[j].spec
    BY <1>9 DEF StaysIn
  <2>3. \A j \in DOMAIN text : IsArg(text[j]) => /\ [f |-> "apply", spec |-> text[j].spec] \in NoWidths
                                                /\ [f |-> "reset", spec |-> text[j].spec] \in NoWidths
    BY <1>4, <1>5, <2>2
  <2> QED BY <1>1, <1>2, <2>1, <2>3 DEF Covers
<1> QED BY <1>8, <1>9

\* How the items of a line are laid out.
LaidOut(s, items) ==
    IF Agreed(Desc(s)) THEN Formatted(Meant(s), items) ELSE Formatted(Blanks(Key(s)), items)

\* Whatever the bytes are, the formats of a statement that leaves nothing behind
\* are seen in the values that they stand before.
LEMMA AnyBytes ==
    ASSUME ProgramTypes, NEW s \in Stmt, Supported(Key(s)), NEW bytes \in Seq(Cells),
           NEW silent \in BOOLEAN, ~Leaves(s, silent)
    PROVE  LET S == Format(Formatters(Desc(s)), bytes, silent, FreshStream)
           IN  S.os = FreshStream /\ LaidOut(s, S.items)
<1> DEFINE list == Formatters(Desc(s))
           S == Format(list, bytes, silent, FreshStream)
<1>1. /\ Desc(s) \in DescType0 /\ Desc(s).key = Key(s) /\ Desc(s).text = Text(s) /\ Desc(s).text = Meant(s)
      /\ Key(s) \in Seq(Entry) /\ Meant(s) \in Seq(TokenType) /\ Limit(s) \in Nat
  BY DescOf
<1>2. FreshStream \in Stream /\ ~FreshStream.width
  BY DEF FreshStream, Stream
<1>3. PICK vals \in Seq(ValueType) :
         Takes(Key(s), vals) /\ DescShown(Desc(s), vals, Limit(s), silent, FreshStream)
  BY <1>2, SomeShown
<1>4. PICK other \in Seq(Cells) : other = Stored(Key(s), vals, Limit(s))
  <2>1. Len(vals) = Len(Key(s))
    BY <1>3 DEF Takes
  <2> QED BY <1>1, <2>1, PeekIs
<1> DEFINE S0 == Format(list, other, silent, FreshStream)
<1>5. StaysIn(Text(s), Key(s), silent)
  BY LeavesNothing
<1>6. list \in Seq(FormatterType) /\ S0 \in PrintType /\ S0.os = FreshStream /\ LaidOut(s, S0.items)
  BY <1>1, <1>3, <1>4, <1>5 DEF DescShown, LaidOut
<1>7. list \in Seq(NoStrings) \/ list \in Seq(NoWidths)
  <2>1. Covers(NoStrings, Desc(s).text, Desc(s).key) \/ Covers(NoWidths, Desc(s).text, Desc(s).key)
    BY <1>1, <1>5, OneOrOther
  <2> QED BY <1>1, <2>1, FormattersCovered
<1> HIDE DEF list
<1>8. S \in PrintType
  BY <1>2, <1>6, FormatIs
<1>9. Alike(S0, S)
  BY <1>2, <1>6, <1>7, FormatAlike
<1> HIDE DEF S0, S
<1>10. \A text, k : ShowFormats(text, k, S0.items) => ShowFormats(text, k, S.items)
  BY <1>6, <1>8, <1>9, AlikeShows
<1>11. S.os = FreshStream
  BY <1>6, <1>9 DEF Alike
<1>12. LaidOut(s, S.items)
  BY <1>6, <1>10 DEF LaidOut, Formatted
<1> QED BY <1>11, <1>12 DEF S, list

\* Unless a format was left behind, std::cout is as it was at first.
StreamInv == clean /\ (line.msg = 0 \/ ~Leaves(line.stmt, FALSE)) => reader.os = FreshStream

\* The line printed last shows the formats of its statement.
LayoutInv == line.msg # 0 /\ clean /\ ~Leaves(line.stmt, FALSE) =>
                ~line.padded /\ LaidOut(line.stmt, line.items)

\* The inductive invariant.
SpecsInv == DecodeInv /\ StreamInv /\ LayoutInv

\* How a statement's values are laid out is a matter of the program.
LEMMA LaidOutSame ==
    ASSUME UNCHANGED program
    PROVE  /\ \A s, silent : Leaves(s, silent)' <=> Leaves(s, silent)
           /\ \A s, items : LaidOut(s, items)' <=> LaidOut(s, items)
<1>1. \A s : /\ Text(s)' = Text(s) /\ Key(s)' = Key(s) /\ Meant(s)' = Meant(s) /\ Desc(s)' = Desc(s)
  BY DEF Text, Key, Clock, Meant, Desc
<1> QED BY <1>1 DEF Leaves, LaidOut, Agreed

\* Steps that print nothing.
LEMMA SpecsStay ==
    ASSUME StreamInv, LayoutInv, UNCHANGED <<program, line, clean>>, reader'.os = reader.os
    PROVE  StreamInv' /\ LayoutInv'
<1>1. PICK l : l = line
  OBVIOUS
<1>2. line' = l /\ clean' = clean
  BY <1>1
<1>3. Leaves(l.stmt, FALSE)' <=> Leaves(l.stmt, FALSE)
  BY LaidOutSame
<1>4. LaidOut(l.stmt, l.items)' <=> LaidOut(l.stmt, l.items)
  BY LaidOutSame
<1>5. ASSUME clean', line'.msg = 0 \/ ~Leaves(l.stmt, FALSE)'
      PROVE  reader'.os = FreshStream
  <2>1. line.msg = 0 \/ ~Leaves(l.stmt, FALSE)
    BY <1>1, <1>2, <1>3, <1>5
  <2>2. line.msg = 0 \/ ~Leaves(line.stmt, FALSE)
    BY <1>1, <2>1
  <2>3. clean
    BY <1>2, <1>5
  <2>4. clean /\ (line.msg = 0 \/ ~Leaves(line.stmt, FALSE)) => reader.os = FreshStream
    BY DEF StreamInv
  <2> QED BY <2>2, <2>3, <2>4
<1>6. ASSUME clean', line'.msg # 0, ~Leaves(l.stmt, FALSE)'
      PROVE  ~line'.padded /\ LaidOut(l.stmt, l.items)'
  <2>1. line.msg # 0 /\ ~Leaves(l.stmt, FALSE)
    BY <1>1, <1>2, <1>3, <1>6
  <2>2. line.msg # 0 /\ ~Leaves(line.stmt, FALSE)
    BY <1>1, <2>1
  <2>3. clean
    BY <1>2, <1>6
  <2>4. ~line.padded /\ LaidOut(line.stmt, line.items)
    BY <2>2, <2>3 DEF LayoutInv
  <2>5. LaidOut(l.stmt, l.items)
    BY <1>1, <2>4
  <2>6. line'.padded = line.padded
    BY <1>1, <1>2
  <2> QED BY <1>4, <2>4, <2>5, <2>6
<1>7. StreamInv'
  BY <1>2, <1>5 DEF StreamInv
<1>8. LayoutInv'
  BY <1>2, <1>6 DEF LayoutInv
<1> QED BY <1>7, <1>8

\* The line that dump() prints, and what it leaves behind.
LEMMA SpecsDump ==
    ASSUME SpecsInv, Dump
    PROVE  StreamInv' /\ LayoutInv'
<1>0. ProgramTypes /\ ReaderInv /\ StreamInv /\ LayoutInv
  BY DEF SpecsInv, DecodeInv, PutInv, KnownIInv
<1>1. UNCHANGED program
  BY DEF Dump, progVars
<1>2. PICK m \in MessageType, s \in Stmt : Dumped(m, s)
  BY <1>0, DumpDoes
<1> DEFINE silent == reading.wall /\ ~Clock(s)
<1>3. m.bytes \in Seq(Cells) /\ Supported(Key(s))
  BY <1>2 DEF MessageType, Dumped
<1>4. \A o \in BOOLEAN : Quiet(FreshStream, o) = FreshStream
  <2> TAKE o \in BOOLEAN
  <2>1. (o /\ FreshStream.width) = FALSE /\ FreshStream.width = FALSE
    BY DEF FreshStream
  <2>2. Quiet(FreshStream, o) = [FreshStream EXCEPT !.width = FALSE]
    BY <2>1 DEF Quiet
  <2> QED BY <2>2 DEF FreshStream
<1>5. ASSUME clean'
      PROVE  clean /\ (line.msg = 0 \/ ~Leaves(line.stmt, FALSE)) /\ ~(silent /\ Leaves(s, TRUE)) /\ reader.os = FreshStream
  BY <1>0, <1>2, <1>5 DEF Dumped, StreamInv
<1>6. CASE silent
  <2>1. line' = line
    BY <1>2, <1>6 DEF Dumped
  <2>2. ASSUME clean'
        PROVE  reader'.os = FreshStream
    <3>1. ~Leaves(s, TRUE) /\ reader.os = FreshStream
      BY <1>5, <1>6, <2>2
    <3>2. Format(Formatters(Desc(s)), m.bytes, TRUE, FreshStream).os = FreshStream
      BY <1>0, <1>3, <3>1, AnyBytes
    <3>3. reader'.os = Quiet(Format(Formatters(Desc(s)), m.bytes, TRUE, Quiet(reader.os, TRUE)).os, TRUE)
      <4>1. silent = TRUE
        BY <1>0, <1>6 DEF ReaderInv
      <4> QED BY <1>2, <4>1 DEF Dumped
    <3> QED BY <1>4, <3>1, <3>2, <3>3
  <2>3. PICK l : l = line
    OBVIOUS
  <2>4. line' = l
    BY <2>1, <2>3
  <2>5. Leaves(l.stmt, FALSE)' <=> Leaves(l.stmt, FALSE)
    BY <1>1, LaidOutSame
  <2>6. LaidOut(l.stmt, l.items)' <=> LaidOut(l.stmt, l.items)
    BY <1>1, LaidOutSame
  <2>7. StreamInv'
    BY <2>2 DEF StreamInv
  <2>8. LayoutInv'
    BY <1>0, <1>5, <2>3, <2>4, <2>5, <2>6 DEF LayoutInv
  <2> QED BY <2>7, <2>8
<1>7. CASE ~silent
  <2>1. DumpedLine(m, s)
    BY <1>2, <1>7 DEF Dumped
  <2>2. reader'.os = Quiet(Format(Formatters(Desc(s)), m.bytes, FALSE, Quiet(reader.os, FALSE)).os, FALSE)
    <3>1. silent = FALSE
      BY <1>7
    <3> QED BY <1>2, <3>1 DEF Dumped
  <2>3. ASSUME clean', ~Leaves(s, FALSE)
        PROVE  /\ reader'.os = FreshStream
               /\ ~line'.padded /\ LaidOut(s, line'.items)
    <3>1. reader.os = FreshStream /\ Quiet(reader.os, FALSE) = FreshStream
      BY <1>4, <1>5, <2>3
    <3>2. PICK S : S = Format(Formatters(Desc(s)), m.bytes, FALSE, FreshStream)
      OBVIOUS
    <3>3. S.os = FreshStream /\ LaidOut(s, S.items)
      BY <1>0, <1>3, <2>3, <3>2, AnyBytes
    <3>4. line'.items = S.items /\ line'.padded = (reader.os.width \/ S.os.width)
      BY <2>1, <3>1, <3>2 DEF DumpedLine
    <3>5. ~line'.padded
      <4>1. FreshStream.width = FALSE
        BY DEF FreshStream
      <4>2. reader.os.width = FALSE /\ S.os.width = FALSE
        BY <3>1, <3>3, <4>1
      <4> QED BY <3>4, <4>2
    <3> QED BY <1>4, <2>2, <3>1, <3>2, <3>3, <3>4, <3>5
  <2>4. PICK items : items = line'.items
    OBVIOUS
  <2>5. Leaves(s, FALSE)' <=> Leaves(s, FALSE)
    BY <1>1, LaidOutSame
  <2>6. LaidOut(s, items)' <=> LaidOut(s, items)
    BY <1>1, LaidOutSame
  <2>7. line'.stmt = s /\ line'.msg # 0
    BY <1>0, <2>1 DEF DumpedLine, ReaderInv
  <2>8. StreamInv'
    BY <2>3, <2>5, <2>7 DEF StreamInv
  <2>9. LayoutInv'
    BY <2>3, <2>4, <2>5, <2>6, <2>7 DEF LayoutInv
  <2> QED BY <2>8, <2>9
<1> QED BY <1>6, <1>7

\* Every step keeps the invariant.
LEMMA SpecsStep ==
    ASSUME HandlesApart, SpecsInv, [Next]_vars
    PROVE  SpecsInv'
<1>0. DecodeInv /\ StreamInv /\ LayoutInv
  BY DEF SpecsInv
<1>1. DecodeInv'
  BY <1>0, DecodeStep
<1>2. CASE Dump
  BY <1>1, <1>2, SpecsDump DEF SpecsInv
<1>3. CASE ~Dump
  <2>1. UNCHANGED <<program, line, clean>> /\ reader'.os = reader.os
    <3>1. ASSUME NEW s \in Stmt, NEW f \in File, NEW vals \in program.stmts[s].values, Execute(s, f, vals)
          PROVE  UNCHANGED <<program, readVars>>
      BY <1>0, <3>1, ExecuteDoes DEF DecodeInv, PutInv, KnownIInv
    <3>2. ASSUME NEW wrote \in {"whole", "short", "none"}, Describe(wrote)
          PROVE  UNCHANGED <<program, readVars>>
      BY <1>0, <3>2, DescribeDoes DEF DecodeInv, PutInv, KnownIInv
    <3>3. ASSUME Store \/ PyClose
          PROVE  UNCHANGED <<program, readVars>>
      BY <3>3 DEF Store, PyClose, progVars
    <3>4. ASSUME Retry \/ GiveUp \/ Stop
          PROVE  /\ UNCHANGED <<program, line, clean>>
                 /\ (\E d : reader' = [reader EXCEPT !.dict = d]) \/ (\E st : reader' = [reader EXCEPT !.state = st])
      BY <3>4 DEF Retry, GiveUp, Stop, progVars
    <3>5. ASSUME UNCHANGED <<program, readVars>>
          PROVE  UNCHANGED <<program, line, clean>> /\ reader'.os = reader.os
      BY <3>5 DEF readVars
    <3>6. ASSUME Retry \/ GiveUp \/ Stop
          PROVE  UNCHANGED <<program, line, clean>> /\ reader'.os = reader.os
      <4>1. ASSUME NEW d, reader' = [reader EXCEPT !.dict = d]
            PROVE  reader'.os = reader.os
        BY <4>1
      <4>2. ASSUME NEW st, reader' = [reader EXCEPT !.state = st]
            PROVE  reader'.os = reader.os
        BY <4>2
      <4> QED BY <3>4, <3>6, <4>1, <4>2
    <3>7. ASSUME UNCHANGED vars
          PROVE  UNCHANGED <<program, readVars>>
      BY <3>7 DEF vars, progVars, readVars
    <3> QED BY <1>3, <3>1, <3>2, <3>3, <3>5, <3>6, <3>7 DEF Next
  <2> QED BY <1>0, <1>1, <2>1, SpecsStay DEF SpecsInv
<1> QED BY <1>2, <1>3

\* It holds at the start.
LEMMA SpecsInit == Init => SpecsInv
<1> SUFFICES ASSUME Init PROVE SpecsInv
  OBVIOUS
<1>1. DecodeInv
  BY DecodeInit
<1>2. reader.os = FreshStream /\ line.msg = 0
  BY DEF Init, NoLine
<1> QED BY <1>1, <1>2 DEF SpecsInv, StreamInv, LayoutInv

\* The placeholder that a value stands for is the one of its number.
LEMMA SpecsHold == SpecsInv => SpecsUndone
<1> SUFFICES ASSUME SpecsInv, line.msg # 0, clean, ~Leaves(line.stmt, FALSE)
             PROVE  SpecsUndone
  BY DEF SpecsUndone
<1> DEFINE s == line.stmt
           items == line.items
           text == Meant(s)
           number(x) == Skipped(s) + Cardinality({j \in 1 .. x : IsValue(items[j])})
           spec(x) == UNION {Meant(s)[j].spec : j \in
                         {j \in DOMAIN Meant(s) : Agrees(s) /\ IsArg(Meant(s)[j]) /\ ArgOf(s, j) = number(x)}}
<1>0. ProgramTypes /\ s \in Stmt /\ ~line.padded /\ LaidOut(s, items)
  BY DEF SpecsInv, DecodeInv, PutInv, KnownIInv, LineInv, LayoutInv
<1>1. /\ Desc(s) \in DescType0 /\ Desc(s).key = Key(s) /\ Desc(s).text = text
      /\ text \in Seq(TokenType) /\ Key(s) \in Seq(Entry)
      /\ Start(Desc(s)).used = Skipped(s) /\ Skipped(s) \in Nat
  BY <1>0, DescOf
<1>2. Agreed(Desc(s)) <=> Agrees(s)
  BY <1>1 DEF Agreed, Agrees, ArgOf, ArgsTo, Count
<1>3. \A j \in DOMAIN text : ArgOf(s, j) = Skipped(s) + Count(text, j)
  BY DEF ArgOf, ArgsTo, Count
<1>4. \A x : number(x) = Skipped(s) + Values(items, x)
  BY DEF Values
<1>5. DOMAIN text = 1 .. Len(text) /\ \A j \in 1 .. Len(text) : Count(text, j) \in Nat
  <2>1. \A j \in 1 .. Len(text) : j \in 0 .. Len(text)
    BY <1>1
  <2> QED BY <1>1, <2>1, CountIs
<1>6. ASSUME NEW x \in DOMAIN items
      PROVE  IF IsValue(items[x])
             THEN /\ items[x].pad = ("width" \in spec(x))
                  /\ items[x].flags = ("flags" \in spec(x))
                  /\ ~items[x].precise
             ELSE ~items[x].pad
  <2>1. CASE Agrees(s)
    <3>1. ShowsFormat(text, Len(text), items, x)
      BY <1>0, <1>2, <2>1 DEF LaidOut, Formatted, ShowFormats
    <3>2. CASE IsValue(items[x])
      <4>1. PICK j \in 1 .. Len(text) : /\ IsArg(text[j]) /\ Count(text, j) = Values(items, x)
                                       /\ items[x].pad = ("width" \in text[j].spec)
                                       /\ items[x].flags = ("flags" \in text[j].spec)
                                       /\ ~items[x].precise
        BY <3>1, <3>2 DEF ShowsFormat
      <4>2. ASSUME NEW i \in DOMAIN text
            PROVE  IsArg(text[i]) /\ ArgOf(s, i) = number(x) <=> i = j
        <5>1. ArgOf(s, i) = Skipped(s) + Count(text, i) /\ number(x) = Skipped(s) + Count(text, j)
          BY <1>3, <1>4, <4>1
        <5>2. i \in 1 .. Len(text) /\ Count(text, i) \in Nat /\ Count(text, j) \in Nat /\ Skipped(s) \in Nat
          BY <1>1, <1>5
        <5> HIDE DEF s, text, number
        <5>3. ArgOf(s, i) = number(x) <=> Count(text, i) = Count(text, j)
          BY <5>1, <5>2
        <5>4. IsArg(text[i]) /\ Count(text, i) = Count(text, j) => i = j
          BY <1>1, <4>1, <5>2, CountIs
        <5> QED BY <4>1, <5>3, <5>4
      <4>3. {i \in DOMAIN text : Agrees(s) /\ IsArg(text[i]) /\ ArgOf(s, i) = number(x)} = {j}
        <5>1. j \in DOMAIN text
          BY <1>5
        <5> HIDE DEF s, text, number
        <5> QED BY <2>1, <4>2, <5>1
      <4>4. spec(x) = text[j].spec
        <5> HIDE DEF number
        <5> QED BY <4>3
      <4> QED BY <3>2, <4>1, <4>4
    <3>3. CASE ~IsValue(items[x])
      BY <3>1, <3>3 DEF ShowsFormat
    <3> QED BY <3>2, <3>3
  <2>2. CASE ~Agrees(s)
    <3>1. ShowsFormat(Blanks(Key(s)), Len(Blanks(Key(s))), items, x)
      BY <1>0, <1>2, <2>2 DEF LaidOut, Formatted, ShowFormats
    <3>2. spec(x) = {}
      BY <2>2
    <3>3. \A j \in 1 .. Len(Blanks(Key(s))) : Blanks(Key(s))[j].spec = {}
      BY <1>1, BlankIs
    <3> HIDE DEF spec
    <3>4. CASE IsValue(items[x])
      <4>1. PICK j \in 1 .. Len(Blanks(Key(s))) :
               /\ items[x].pad = ("width" \in Blanks(Key(s))[j].spec)
               /\ items[x].flags = ("flags" \in Blanks(Key(s))[j].spec)
               /\ ~items[x].precise
        BY <3>1, <3>4 DEF ShowsFormat
      <4>2. Blanks(Key(s))[j].spec = spec(x)
        BY <3>2, <3>3
      <4> QED BY <3>4, <4>1, <4>2
    <3>5. CASE ~IsValue(items[x])
      BY <3>1, <3>5 DEF ShowsFormat
    <3> QED BY <3>4, <3>5
  <2> QED BY <2>1, <2>2
<1> HIDE DEF spec, number, text
<1>7. ~line.padded /\ \A x \in DOMAIN items :
         IF IsValue(items[x])
         THEN /\ items[x].pad = ("width" \in spec(x))
              /\ items[x].flags = ("flags" \in spec(x))
              /\ ~items[x].precise
         ELSE ~items[x].pad
  BY <1>0, <1>6
<1> QED BY <1>7 DEF SpecsUndone, spec, number

\* Unless a width was given to a string or to what is not printed, or a precision to
\* anything, RingBuffer::dump finds std::cout as it was at first, for every program
\* in which no C++ program traces through two handles.
THEOREM SpecsInvariance == ASSUME HandlesApart PROVE Spec => []SpecsInv
<1>1. Init => SpecsInv
  BY SpecsInit
<1>2. SpecsInv /\ [Next]_vars => SpecsInv'
  BY SpecsStep
<1> QED BY <1>1, <1>2, PTL DEF Spec

\* resetCFormatSpec of MessageFormatter undoes what applyCFormatSpec did: a width or
\* a flag shows in the value that it stands before and nowhere else in this line or
\* the next, under the same condition.
THEOREM SpecsUndoneAlways == ASSUME HandlesApart PROVE Spec => []SpecsUndone
<1>1. SpecsInv => SpecsUndone
  BY SpecsHold
<1> QED BY <1>1, SpecsInvariance, PTL
=============================================================================
