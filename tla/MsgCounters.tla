---------------------------- MODULE MsgCounters ----------------------------
(***************************************************************************)
(* The message counters in the header of a trace file, written without any *)
(* lock by three processes: the program (startMsg, QuickTrace.cpp 760-785),*)
(* qtctl (qtctl.cpp 115-158) and qtclear (qtclear.cpp 63-92).  The top bit *)
(* of lastTsc switches a message off, the rest is the time of its last     *)
(* hit.  Every load and every store of a counter is a step.                *)
(***************************************************************************)
EXTENDS Integers

CONSTANTS
    NumIds,       \* messages that the file describes: ids 1 .. NumIds
    NumCounters,  \* numMsgCounters_
    Half,         \* 2^31: times of the last hit are below it
    MaxHits,      \* bound: trace statements of the program
    MaxCommands   \* bound: runs of qtctl and qtclear together

ASSUME SizesAssumption == {NumIds, NumCounters, Half} \subseteq Nat \ {0}
ASSUME BoundsAssumption == {MaxHits, MaxCommands} \subseteq Nat

Id == 1 .. NumIds
Counter == 0 .. NumCounters - 1

\* RingBuf::msgCounter and counterIndex of qtctl.
MsgCounter(i) == i % NumCounters

VARIABLES
    off,          \* the top bit of lastTsc of every counter
    time,         \* the rest of it
    count,        \* MsgCounter.count
    clock,        \* rdtsc() >> 28
    tracer,       \* the program: where it is in startMsg and what it loaded
    ctl,          \* qtctl: its command, the messages it still has to do, ...
    clear,        \* qtclear: the fields it still has to set to zero
    commands,     \* history: commands given
    hits,         \* history: trace statements that passed startMsg, per counter
    since,        \* history: hits when the counter was last set to zero; -1 if
                  \* the program was counting meanwhile
    told          \* history: what the last command made of a counter, "on" or
                  \* "off"; "open" if a trace statement was under way meanwhile

fields == <<off, time, count>>
histVars == <<commands, hits, since, told>>
countersVars == <<fields, clock, tracer, ctl, clear, histVars>>

Last(c) == [off |-> off[c], time |-> time[c]]
Unset == [off |-> FALSE, time |-> 0]

CountersInit ==
    /\ off = [c \in Counter |-> FALSE]
    /\ time = [c \in Counter |-> 0]
    /\ count = [c \in Counter |-> 0]
    /\ clock = 0
    /\ tracer = [pc |-> "idle", id |-> 1, last |-> Unset, count |-> 0]
    /\ ctl = [pc |-> "idle", on |-> FALSE, todo |-> {}, id |-> 1, last |-> Unset]
    /\ clear = {}
    /\ commands = 0
    /\ hits = [c \in Counter |-> 0]
    /\ since = [c \in Counter |-> 0]
    /\ told = [c \in Counter |-> "on"]

(***************************************************************************)
(* The program.                                                            *)
(***************************************************************************)

\* The program is between its first load and its store of this lastTsc.
Updating(c) == tracer.pc \in {"load", "store"} /\ MsgCounter(tracer.id) = c

\* startMsg takes the time and looks at the off bit, which decides whether the
\* message is written.
StartMsg(i) ==
    /\ tracer.pc = "idle"
    /\ clock < MaxHits
    /\ clock' = clock + 1
    /\ tracer' = [tracer EXCEPT !.pc = "load", !.id = i, !.last = Last(MsgCounter(i))]
    /\ UNCHANGED <<fields, ctl, clear, histVars>>

\* It loads lastTsc for updateLastTsc; the compiler may use the first load.
LoadLast ==
    /\ tracer.pc = "load"
    /\ \E last \in {tracer.last, Last(MsgCounter(tracer.id))} :
            tracer' = [tracer EXCEPT !.pc = "store", !.last = last]
    /\ UNCHANGED <<fields, clock, ctl, clear, histVars>>

\* Mutant of StoreLast: the time is not kept out of the top bit.
StoreLastUnmasked ==
    LET c == MsgCounter(tracer.id)
    IN  /\ tracer.pc = "store"
        /\ off' = [off EXCEPT ![c] = tracer.last.off \/ clock % (2 * Half) >= Half]
        /\ time' = [time EXCEPT ![c] = clock % Half]
        /\ tracer' = [tracer EXCEPT !.pc = "count"]
        /\ UNCHANGED <<count, clock, ctl, clear, histVars>>

\* updateLastTsc: the old off bit, and the time in the other bits.
StoreLast ==
    LET c == MsgCounter(tracer.id)
    IN  /\ tracer.pc = "store"
        /\ off' = [off EXCEPT ![c] = tracer.last.off]
        /\ time' = [time EXCEPT ![c] = clock % Half]
        /\ tracer' = [tracer EXCEPT !.pc = "count"]
        /\ UNCHANGED <<count, clock, ctl, clear, histVars>>

\* count++ is a load ...
LoadCount ==
    /\ tracer.pc = "count"
    /\ tracer' = [tracer EXCEPT !.pc = "add", !.count = count[MsgCounter(tracer.id)]]
    /\ UNCHANGED <<fields, clock, ctl, clear, histVars>>

\* Mutant of StoreCount: hits of messages that are off do not count.
StoreCountIfOn ==
    LET c == MsgCounter(tracer.id)
    IN  /\ tracer.pc = "add"
        /\ count' = [count EXCEPT ![c] = IF off[c] THEN @ ELSE tracer.count + 1]
        /\ hits' = [hits EXCEPT ![c] = @ + 1]
        /\ tracer' = [tracer EXCEPT !.pc = "idle"]
        /\ UNCHANGED <<off, time, clock, ctl, clear, commands, since, told>>

\* ... and a store.
StoreCount ==
    LET c == MsgCounter(tracer.id)
    IN  /\ tracer.pc = "add"
        /\ count' = [count EXCEPT ![c] = tracer.count + 1]
        /\ hits' = [hits EXCEPT ![c] = @ + 1]
        /\ tracer' = [tracer EXCEPT !.pc = "idle"]
        /\ UNCHANGED <<off, time, clock, ctl, clear, commands, since, told>>

(***************************************************************************)
(* qtctl and qtclear.                                                      *)
(***************************************************************************)

Command == commands < MaxCommands /\ commands' = commands + 1

\* qtctl on|off, for the messages that match the regexp and the -m argument.
Qtctl(on, ids) ==
    /\ ctl.pc = "idle" /\ Command
    /\ ctl' = [ctl EXCEPT !.pc = "next", !.on = on, !.todo = ids]
    /\ UNCHANGED <<fields, clock, tracer, clear, hits, since, told>>

\* The next message: the counter is loaded ...
CtlLoad ==
    /\ ctl.pc = "next" /\ ctl.todo # {}
    /\ \E i \in ctl.todo :
          /\ \A later \in ctl.todo : i <= later
          /\ ctl' = [ctl EXCEPT !.pc = "store", !.id = i, !.todo = @ \ {i},
                                !.last = Last(MsgCounter(i))]
    /\ UNCHANGED <<fields, clock, tracer, clear, histVars>>

\* ... and stored with the bit set or not.
CtlStore ==
    LET c == MsgCounter(ctl.id)
    IN  /\ ctl.pc = "store"
        /\ off' = [off EXCEPT ![c] = ~ ctl.on]
        /\ time' = [time EXCEPT ![c] = ctl.last.time]
        /\ ctl' = [ctl EXCEPT !.pc = "next"]
        /\ told' = [told EXCEPT ![c] = CASE Updating(c) -> "open"
                                         [] ~ Updating(c) /\ ctl.on -> "on"
                                         [] OTHER -> "off"]
        /\ UNCHANGED <<count, clock, tracer, clear, commands, hits, since>>

CtlEnd ==
    /\ ctl.pc = "next" /\ ctl.todo = {}
    /\ ctl' = [ctl EXCEPT !.pc = "idle"]
    /\ UNCHANGED <<fields, clock, tracer, clear, histVars>>

\* qtclear: memset of all counters, in no particular order.
Qtclear ==
    /\ clear = {} /\ Command
    /\ clear' = Counter \X {"last", "count"}
    /\ UNCHANGED <<fields, clock, tracer, ctl, hits, since, told>>

ClearLast(c) ==
    /\ <<c, "last">> \in clear
    /\ clear' = clear \ {<<c, "last">>}
    /\ off' = [off EXCEPT ![c] = FALSE]
    /\ time' = [time EXCEPT ![c] = 0]
    /\ told' = [told EXCEPT ![c] = IF Updating(c) THEN "open" ELSE "on"]
    /\ UNCHANGED <<count, clock, tracer, ctl, commands, hits, since>>

ClearCount(c) ==
    /\ <<c, "count">> \in clear
    /\ clear' = clear \ {<<c, "count">>}
    /\ count' = [count EXCEPT ![c] = 0]
    /\ since' = [since EXCEPT ![c] =
            IF tracer.pc = "add" /\ MsgCounter(tracer.id) = c THEN -1 ELSE hits[c]]
    /\ UNCHANGED <<off, time, clock, tracer, ctl, commands, hits, told>>

Tracer == LoadLast \/ StoreLast \/ LoadCount \/ StoreCount \/ \E i \in Id : StartMsg(i)

Ctl ==
    \/ CtlLoad \/ CtlStore \/ CtlEnd
    \/ \E on \in BOOLEAN, ids \in SUBSET Id : Qtctl(on, ids)

Clear == Qtclear \/ \E c \in Counter : ClearLast(c) \/ ClearCount(c)

CountersNext == Tracer \/ Ctl \/ Clear

\* Nothing is said of when, or whether, a process goes on.
CountersSpec == CountersInit /\ [][CountersNext]_countersVars

(***************************************************************************)
(* Properties                                                              *)
(***************************************************************************)

\* What the last command made of a counter stays, however often and however
\* late its messages are hit, unless a trace statement was updating lastTsc
\* while the command stored.  In particular the time never spills into the bit.
CommandHolds == \A c \in Counter : told[c] # "open" => off[c] = (told[c] = "off")

\* Counts are exact: a hit counts once, on or off, in spite of qtctl, and since
\* the last qtclear, unless that zeroed the counter in the middle of a count++.
CountsExact == \A c \in Counter : since[c] # -1 => count[c] = hits[c] - since[c]

\* Types.
Loaded == [off : BOOLEAN, time : Nat]

CountersTypeOK ==
    /\ off \in [Counter -> BOOLEAN]
    /\ time \in [Counter -> Nat]
    /\ count \in [Counter -> Int]
    /\ clock \in Nat
    /\ tracer \in [pc : {"idle", "load", "store", "count", "add"}, id : Id,
                   last : Loaded, count : Int]
    /\ ctl \in [pc : {"idle", "next", "store"}, on : BOOLEAN, todo : SUBSET Id,
                id : Id, last : Loaded]
    /\ clear \subseteq Counter \X {"last", "count"}
    /\ hits \in [Counter -> Nat]
    /\ since \in [Counter -> Nat \cup {-1}]
    /\ told \in [Counter -> {"on", "off", "open"}]

=============================================================================
