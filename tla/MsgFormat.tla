----------------------------- MODULE MsgFormat -----------------------------
(***************************************************************************)
(* One message from the statement that traces it to the line that is       *)
(* printed: how its values are put into the ring and how a message ends    *)
(* (QuickTraceRingBuf.h, QuickTraceOptFormatter.h, QuickTrace.cpp), how    *)
(* QTFMT rewrites its text (QtFmtGeneric.cpp), and how qttail takes the    *)
(* text and the key apart and prints with them (MessageFormatter.cpp).     *)
(*                                                                         *)
(* A byte of the ring is a cell: the number that a reader may make of it,  *)
(* for the bytes that say how long something is, and the value that it     *)
(* belongs to.  A key is a sequence of entries: the letter of a type, and  *)
(* how many times OPT stands before it.  A value says how many of these    *)
(* optionals hold something, and how long its string is (-1 when str() of  *)
(* a Python value raises).  The digits of a number are left out.           *)
(***************************************************************************)
EXTENDS Integers, Sequences, FiniteSetsExt, SequencesExt

CONSTANTS
    Base,          \* values of a byte: 256
    MaxString,     \* qtMaxStringLen
    LongString     \* LONGSTRING_LIMIT

ASSUME WidthAssumption == /\ {Base, MaxString, LongString} \subseteq Nat \ {0}
                          /\ MaxString < Base /\ LongString < Base

Header == 12       \* a timestamp and a message id

Size == [u |-> 1, c |-> 1, b |-> 1, s |-> 2, i |-> 4, f |-> 4, q |-> 8, d |-> 8]
Entry == [opt : Nat, type : DOMAIN Size \cup {"p"}]
ValueType == [given : Nat, len : Nat \cup {-1}]

(***************************************************************************)
(* What the program stores.                                                *)
(***************************************************************************)
Cell(n, of) == [n |-> n, of |-> of]

(* A string is cut at the limit and stored behind its length. *)
PutString(len, limit, of) ==
    LET n == Min({len, limit})
    IN  <<Cell(n, of)>> \o [k \in 1 .. n |-> Cell(0, of)]

(* An optional is stored behind a flag; an empty one is the flag alone. *)
Put(e, v, limit, of) ==
    [k \in 1 .. v.given |-> Cell(1, of)] \o
    (IF v.given < e.opt THEN <<Cell(0, of)>>
     ELSE IF e.type # "p" THEN [k \in 1 .. Size[e.type] |-> Cell(0, of)]
     ELSE IF v.len = -1 THEN <<>> ELSE PutString(v.len, limit, of))

(* The bytes behind the header, and the length that ends a message. *)
Stored(key, vals, limit) ==
    LET data == FlattenSeq([i \in 1 .. Len(key) |-> Put(key[i], vals[i], limit, i)])
    IN  Append(data, Cell((Header + Len(data)) % Base, 0))

(***************************************************************************)
(* The text of a message is a sequence of tokens: characters, "%%", a '%'  *)
(* that begins no conversion, and conversions with their flags, width and  *)
(* precision.                                                              *)
(***************************************************************************)
Char(c) == [k |-> "char", c |-> c]
Percent == [k |-> "percent"]
Lone == [k |-> "lone"]
Arg(conv, spec) == [k |-> "arg", conv |-> conv, spec |-> spec]
IsArg(t) == t.k = "arg"
Token == {Percent, Lone} \cup [k : {"char"}, c : STRING]
         \cup [k : {"arg"}, conv : {"s", "x", "p"}, spec : SUBSET {"width", "precision", "flags"}]

(* How a token stands in the text. *)
Raw(t) == CASE t.k = "char"    -> <<t.c>>
            [] t.k = "percent" -> <<"%", "%">>
            [] t.k = "lone"    -> <<"%">>
            [] t.k = "arg"     -> <<"%", t.conv>>

(* QTFMT: {}, {:x} and {:#x} become conversions, {{ and }} one brace; from *)
(* anything else that a brace begins, the rest is copied as it is.         *)
FmtTokens(chars) ==
    LET At(i, s) == SubSeq(chars, i, Min({Len(chars), i + Len(s) - 1})) = s
        rest[i \in 1 .. Len(chars) + 1] ==
            CASE i > Len(chars) -> <<>>
              [] At(i, <<"{", "{">>) -> <<Char("{")>> \o rest[i + 2]
              [] At(i, <<"}", "}">>) -> <<Char("}")>> \o rest[i + 2]
              [] At(i, <<"{", "}">>) -> <<Arg("s", {})>> \o rest[i + 2]
              [] At(i, <<"{", ":", "x", "}">>) -> <<Arg("x", {})>> \o rest[i + 4]
              [] At(i, <<"{", ":", "#", "x", "}">>) -> <<Arg("x", {"flags"})>> \o rest[i + 5]
              [] OTHER -> IF chars[i] \in {"{", "}"}
                          THEN [k \in 1 .. Len(chars) - i + 1 |-> Char(chars[i + k - 1])]
                          ELSE <<Char(chars[i])>> \o rest[i + 1]
    IN  rest[1]

(***************************************************************************)
(* What qttail makes of a descriptor.                                      *)
(***************************************************************************)
WallClock == [opt |-> 0, type |-> "w"]     \* internal: skips 16 bytes
Quad == [opt |-> 0, type |-> "q"]

(* The types that selectFormatter and selectLength know: optionals do not nest. *)
Supported(key) == \A i \in DOMAIN key : key[i].opt <= 1

Static(of) == <<[f |-> "static", of |-> of]>>
SpecOf(f, t) == IF t.spec = {} THEN <<>> ELSE <<[f |-> f, spec |-> t.spec]>>
Value(e, hex) == <<[f |-> "value", e |-> e, hex |-> hex]>>

(* init() walks the text; a conversion takes the next entry of the key.  It *)
(* gives up where the key has no more.                                      *)
InitStep(key, st, t) ==
    LET pending == IF st.text = <<>> THEN <<>> ELSE Static(st.text)
    IN  CASE st.stop -> st
          [] ~st.stop /\ t.k \in {"char", "lone"} -> [st EXCEPT !.text = @ \o Raw(t)]
          [] ~st.stop /\ t.k = "percent" ->
                [st EXCEPT !.list = @ \o Static(Append(st.text, "%")), !.text = <<>>]
          [] ~st.stop /\ IsArg(t) /\ st.used = Len(key) -> [st EXCEPT !.stop = TRUE]
          [] ~st.stop /\ IsArg(t) /\ st.used < Len(key) ->
                [st EXCEPT !.used = @ + 1, !.text = <<>>,
                    !.list = @ \o pending
                             \o (IF t.conv = "p" THEN Static(<<"0x">>) ELSE <<>>)
                             \o SpecOf("apply", t)
                             \o Value(key[st.used + 1], t.conv \in {"x", "p"})
                             \o SpecOf("reset", t)]

(* Text and key of different lengths: the text as it stands, then the values. *)
Apart(text, key) ==
    Static(FlattenSeq([k \in 1 .. Len(text) |-> Raw(text[k])])) \o Static(<<" % (">>) \o
    FlattenSeq([i \in 1 .. Len(key) |->
                   (IF i > 1 THEN Static(<<",">>) ELSE <<>>) \o Value(key[i], FALSE)]) \o
    Static(<<") ">>)

(* formatters_.  Line number 0 marks a message with a wall clock: its two *)
(* numbers are skipped, if there are values behind them.                  *)
Formatters(m) ==
    LET skip == m.clock /\ Len(m.key) > 2 /\ SubSeq(m.key, 1, 2) = <<Quad, Quad>>
        start == [list |-> IF skip THEN Value(WallClock, FALSE) ELSE <<>>,
                  used |-> IF skip THEN 2 ELSE 0, text |-> <<>>, stop |-> FALSE]
        end == FoldLeft(LAMBDA st, t : InitStep(m.key, st, t), start, m.text)
    IN  IF end.stop \/ end.used < Len(m.key) THEN Apart(m.text, m.key)
        ELSE IF end.text = <<>> THEN end.list ELSE end.list \o Static(end.text)

(***************************************************************************)
(* Reading.  Behind a message are the eight zeros that endMsg stores; what *)
(* lies behind these is taken for zero too.                                *)
(***************************************************************************)
Peek(bytes, at) == IF at <= Len(bytes) THEN bytes[at].n ELSE 0

\* Mutant: an optional always holds something.
LengthOptAlways(e, bytes, at) ==
    IF e.type = "w" THEN 16
    ELSE e.opt + (IF e.type = "p" THEN 1 + Peek(bytes, at + e.opt) ELSE Size[e.type])

LengthOf(e, bytes, at) ==
    IF e.type = "w" THEN 16
    ELSE IF e.opt = 1 /\ Peek(bytes, at) = 0 THEN 1
    ELSE e.opt + (IF e.type = "p" THEN 1 + Peek(bytes, at + e.opt) ELSE Size[e.type])

(* length(): the bytes of the values behind the header. *)
LengthStep(bytes, n, f) == IF f.f = "value" THEN n + LengthOf(f.e, bytes, n + 1) ELSE n
Length(list, bytes) == FoldLeft(LAMBDA n, f : LengthStep(bytes, n, f), 0, list)

(* std::cout: is a width set, is fixed set, has a precision been set, are *)
(* the flags (#, + and 0) set.                                            *)
FreshStream == [width |-> FALSE, fixed |-> FALSE, precision |-> FALSE, flags |-> FALSE]

applyCFormatSpec(spec, os) ==
    [width |-> os.width \/ "width" \in spec,
     fixed |-> os.fixed \/ spec \cap {"width", "precision"} # {},
     precision |-> os.precision \/ "precision" \in spec,
     flags |-> os.flags \/ "flags" \in spec]

\* Mutant: the flags stay.
resetCFormatFloat(os) == [os EXCEPT !.fixed = FALSE]

resetCFormatSpec(os) == [os EXCEPT !.fixed = FALSE, !.flags = FALSE]

(* One formatter.  Output that formats uses a width up; formatString writes *)
(* the characters of a string unformatted.  While failbit is set nothing is *)
(* put out, and a width stays.                                              *)
FormatStep(bytes, silent, st, f) ==
    LET os == st.os
        len == LengthOf(f.e, bytes, st.n + 1)
        formats == f.e.type # "p" \/ (f.e.opt = 1 /\ Peek(bytes, st.n + 1) = 0)
        used == [os EXCEPT !.width = silent /\ @]
    IN  CASE f.f = "apply" -> [st EXCEPT !.os = applyCFormatSpec(f.spec, os)]
          [] f.f = "reset" -> [st EXCEPT !.os = resetCFormatSpec(os)]
          [] f.f = "static" -> [st EXCEPT !.os = used,
                !.items = Append(@, [of |-> f.of, pad |-> os.width])]
          [] f.f = "value" /\ f.e.type = "w" -> [st EXCEPT !.n = @ + len]
          [] f.f = "value" /\ f.e.type # "w" ->
                [n |-> st.n + len,
                 os |-> IF formats THEN used ELSE os,
                 items |-> Append(st.items,
                    [bytes |-> SubSeq(bytes, st.n + 1, Min({st.n + len, Len(bytes)})),
                     hex |-> f.hex /\ f.e.type \in {"u", "s", "i", "q"},
                     pad |-> os.width /\ formats,
                     precise |-> os.fixed /\ os.precision /\ f.e.type \in {"f", "d"},
                     flags |-> os.flags])]

(* format() *)
Format(list, bytes, silent, os) ==
    FoldLeft(LAMBDA st, f : FormatStep(bytes, silent, st, f),
             [n |-> 0, os |-> os, items |-> <<>>], list)
=============================================================================
