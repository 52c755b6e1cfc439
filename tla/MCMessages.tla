----------------------------- MODULE MCMessages -----------------------------
EXTENDS Messages

(* Values: an optional that is empty, and strings at both sides of the limits. *)
MCValues(e) == {[given |-> g, len |-> n] : g \in 0 .. e.opt, n \in IF e.type = "p" THEN {0, 12} ELSE {0}}
MCAll(key) == LET each == [i \in DOMAIN key |-> MCValues(key[i])]
              IN  IF Len(key) = 0 THEN {<<>>}
                  ELSE IF Len(key) = 1 THEN {<<v>> : v \in each[1]}
                  ELSE {<<v, w>> : v \in each[1], w \in each[2]}
MCStmt(text, key) == [text |-> text, key |-> key, values |-> MCAll(key), clock |-> FALSE,
                      braces |-> FALSE, long |-> FALSE]
MCProgram(api, files, max, stmts) == [api |-> api, files |-> files, max |-> max, stmts |-> stmts]
E(type) == [opt |-> 0, type |-> type]

MCTokens == {Char("a"), Percent, Lone, Arg("s", {}), Arg("x", {}), Arg("p", {"flags"})}
MCKeys == SeqOf({E("u"), E("p"), [opt |-> 1, type |-> "q"]}, 2)

(* QTRACE: every short text with every short key. *)
MCTexts == {MCProgram("cpp", "one", 1, <<MCStmt(t, k)>>) : t \in SeqOf(MCTokens, 2), k \in MCKeys}

(* QTFMT: every short text, also with a brace too much at its end. *)
MCBraces(u) == [text |-> FlattenSeq([k \in DOMAIN u |-> Unit[u[k]].of]), units |-> u,
                key |-> <<E("i")>>, values |-> {<<Plain(0)>>}, clock |-> FALSE,
                braces |-> TRUE, long |-> FALSE]
MCFmt == {MCProgram("cpp", "one", 1, <<MCBraces(u \o last)>>) :
             u \in SeqOf({"text", "open", "close", "value", "hex", "alt"}, 2),
             last \in {<<>>, <<"loose">>, <<"odd">>}}

(* Formats that reach beyond their value, wall clocks and what has none. *)
MCPlain == MCStmt(<<Char("a"), Arg("s", {})>>, <<E("i")>>)
MCWide == MCStmt(<<Arg("s", {"width"}), Char("a")>>, <<E("i")>>)
MCStrings == MCStmt(<<Arg("s", {"width"}), Char("a")>>, <<E("p")>>)
MCExact == MCStmt(<<Arg("s", {"precision"}), Arg("s", {"width"})>>, <<E("d"), E("f")>>)
MCFloat == MCStmt(<<Arg("s", {"flags", "width"})>>, <<E("f")>>)
MCClock == [MCPlain EXCEPT !.clock = TRUE]
MCClockOnly == [MCStmt(<<Char("a")>>, <<>>) EXCEPT !.clock = TRUE]
MCClockTwo == [MCStmt(<<Arg("s", {}), Arg("x", {"flags"})>>, <<>>) EXCEPT !.clock = TRUE]
MCLong == [MCStmt(<<Arg("s", {})>>, <<E("p")>>) EXCEPT !.long = TRUE, !.values = {<<Plain(n)>> : n \in {7, 17, 20}}]
MCNested == MCStmt(<<Arg("s", {})>>, <<[opt |-> 2, type |-> "u"]>>)
MCPairs == {MCProgram("cpp", "one", 2, <<a, b>>) :
               a \in {MCWide, MCStrings, MCExact, MCNested, MCLong}, b \in {MCFloat, MCClock, MCClockOnly, MCClockTwo}}

(* Every API, with the files it can have.  An int of Python has eight bytes. *)
MCPyInt == MCStmt(<<Char("a"), Arg("s", {})>>, <<E("q")>>)
MCString == MCStmt(<<Arg("s", {})>>, <<E("p")>>)
MCTwo(api) == <<IF api = "python" THEN MCPyInt ELSE MCPlain, MCString>>
MCApis == {MCProgram(a, "one", 3, MCTwo(a)) : a \in {"cpp", "c", "cprof", "python", "go"}}
          \cup {MCProgram(a, "threads", 3, MCTwo(a)) : a \in {"cpp", "python", "go"}}
          \cup {MCProgram(a, "handles", 3, MCTwo(a)) : a \in {"c", "cprof", "python"}}

(* Python: arguments that vary, and a str() that raises. *)
MCVarying == [MCStmt(<<Arg("s", {}), Arg("s", {})>>, <<E("p"), E("d")>>) EXCEPT
                 !.values = {<<>>, <<Plain(1)>>, <<Plain(-1), Plain(0)>>,
                             <<Plain(12), Plain(0), Plain(0)>>}]
MCPython == {MCProgram("python", "one", 2, <<MCVarying, MCPyInt>>)}

MCPrograms == MCTexts \cup MCFmt \cup MCPairs \cup MCApis \cup MCPython
=============================================================================
