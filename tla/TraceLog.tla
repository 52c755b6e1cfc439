------------------------------ MODULE TraceLog ------------------------------
(***************************************************************************)
(* What a trace level promises to somebody who runs qttail beside the      *)
(* program: a log that grows at one end, and a reader that begins at some  *)
(* point of it and then sees every message, once and in order (README.md   *)
(* :321-323, "print out any new trace messages that appear").              *)
(***************************************************************************)
EXTENDS Integers

VARIABLES
    traced,   \* number of messages the program has completed
    shown,    \* number of messages that lie behind the reader, -1 before it began
    astray    \* the reader has lost the log, nothing is promised any more

Init ==
    /\ traced = 0
    /\ shown = -1
    /\ astray = FALSE

\* The program completes a message.
Trace == traced' = traced + 1 /\ UNCHANGED <<shown, astray>>

\* The reader takes up its position in the log.
Attach ==
    /\ ~ astray
    /\ shown = -1
    /\ shown' \in 0 .. traced
    /\ UNCHANGED <<traced, astray>>

\* The reader shows the next message.
Show ==
    /\ ~ astray
    /\ shown \in 0 .. traced - 1
    /\ shown' = shown + 1
    /\ UNCHANGED <<traced, astray>>

\* The reader loses the log, or has lost it: from then on it may show anything,
\* but it still does not disturb the program.
Stray ==
    /\ astray' = TRUE
    /\ traced' \in {traced, traced + 1}
    /\ shown' \in Int

Next == Trace \/ Attach \/ Show \/ Stray

\* Nobody has to trace, but what is traced is shown, unless the reader strays.
Spec ==
    /\ Init
    /\ [][Next]_<<traced, shown, astray>>
    /\ WF_<<traced, shown, astray>>(Attach)
    /\ WF_<<traced, shown, astray>>(Show)

=============================================================================
