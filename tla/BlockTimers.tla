---------------------------- MODULE BlockTimers ----------------------------
(***************************************************************************)
(* The profiling macros on one thread: objects on the stack that take the  *)
(* time of their block (BlockTimer, BlockTimerMsg, BlockTimerSelf and      *)
(* BlockTimerSelfMsg, QuickTrace.cpp 797-857), and the per-thread stack    *)
(* threadSubFuncStack by which the self timers find out how much of it was *)
(* spent in nested self timers.                                            *)
(***************************************************************************)
EXTENDS Integers, Sequences

CONSTANTS
    Id,           \* message ids of the profiled blocks
    Kind,         \* Kind[id]: which of the four timers the block has
    MaxClock,     \* bound: length of the run, in ticks
    MaxDepth,     \* bound: nested blocks
    MaxBlocks     \* bound: blocks entered in a run

ASSUME KindAssumption == Kind \in [Id -> {"prof", "msg", "self", "selfmsg"}]
ASSUME BoundsAssumption == {MaxClock, MaxDepth, MaxBlocks} \subseteq Nat

VARIABLES
    clock,        \* rdtsc
    blocks,       \* open blocks, innermost last: their id, tsc_ and, as
                  \* history, how many self timers were open with it
    subStack,     \* threadSubFuncStack, back() last
    tscCount,     \* MsgCounter.tscCount of every id
    tscSelf,      \* MsgCounter.tscSelfCount
    count,        \* MsgCounter.count
    lastTsc,      \* MsgCounter.lastTsc, 0 if never set
    starts,       \* history: tsc_ of every open self timer
    ticks,        \* history: ticks during which it was the innermost of them
    own,          \* history: such ticks of all closed self timers of an id
    entered       \* history: blocks entered so far

counters == <<tscCount, tscSelf, count, lastTsc>>
timersVars == <<clock, blocks, subStack, counters, starts, ticks, own, entered>>

Self(id) == Kind[id] \in {"self", "selfmsg"}
Weight(id) == IF Self(id) THEN 1 ELSE 0
Traces(id) == Kind[id] \in {"msg", "selfmsg"}

Block == [id : Id, tsc : Nat, level : Nat]

Back(s) == s[Len(s)]
Pop(s) == SubSeq(s, 1, Len(s) - 1)
AddToBack(s, n) == [s EXCEPT ![Len(s)] = @ + n]

TimersInit ==
    /\ clock = 1
    /\ blocks = <<>>
    /\ subStack = <<0>>
    /\ tscCount = [id \in Id |-> 0]
    /\ tscSelf = [id \in Id |-> 0]
    /\ count = [id \in Id |-> 0]
    /\ lastTsc = [id \in Id |-> 0]
    /\ starts = <<>>
    /\ ticks = <<>>
    /\ own = [id \in Id |-> 0]
    /\ entered = 0

\* Time passes, on the innermost self timer's own account.
Tick ==
    /\ clock < MaxClock
    /\ clock' = clock + 1
    /\ ticks' = IF ticks = <<>> THEN ticks ELSE AddToBack(ticks, 1)
    /\ UNCHANGED <<blocks, subStack, starts, counters, own, entered>>

\* The constructor.  In the tracing variants startMsg came before it: it took
\* the timestamp and counted the hit.
Enter(id) ==
    /\ Len(blocks) < MaxDepth /\ entered < MaxBlocks
    /\ entered' = entered + 1
    /\ blocks' = Append(blocks, [id |-> id, tsc |-> clock,
                            level |-> Len(starts) + Weight(id)])
    /\ IF Self(id)
       THEN /\ subStack' = Append(subStack, 0)
            /\ starts' = Append(starts, clock)
            /\ ticks' = Append(ticks, 0)
       ELSE UNCHANGED <<subStack, starts, ticks>>
    /\ IF Traces(id)
       THEN /\ count' = [count EXCEPT ![id] = @ + 1]
            /\ lastTsc' = [lastTsc EXCEPT ![id] = clock]
       ELSE UNCHANGED <<count, lastTsc>>
    /\ UNCHANGED <<clock, tscCount, tscSelf, own>>

\* Mutant of LeaveSelf: the time of nested timers is not taken off.
LeaveSelfTakesAll(id, delta) ==
    /\ tscSelf' = [tscSelf EXCEPT ![id] = @ + delta]
    /\ subStack' = AddToBack(Pop(subStack), delta)
    /\ starts' = Pop(starts)
    /\ ticks' = Pop(ticks)
    /\ own' = [own EXCEPT ![id] = @ + Back(ticks)]

\* The self timers' part of the destructor.
LeaveSelf(id, delta) ==
    /\ tscSelf' = [tscSelf EXCEPT ![id] = @ + delta - Back(subStack)]
    /\ subStack' = AddToBack(Pop(subStack), delta)
    /\ starts' = Pop(starts)
    /\ ticks' = Pop(ticks)
    /\ own' = [own EXCEPT ![id] = @ + Back(ticks)]

\* The destructor of the innermost block.  BlockTimer counts the hit,
\* BlockTimerSelf counts it and takes its time.
Leave ==
    /\ blocks # <<>>
    /\ LET b == Back(blocks)
           delta == clock - b.tsc
       IN  /\ blocks' = Pop(blocks)
           /\ tscCount' = [tscCount EXCEPT ![b.id] = @ + delta]
           /\ count' = IF Traces(b.id) THEN count ELSE [count EXCEPT ![b.id] = @ + 1]
           /\ lastTsc' = IF Kind[b.id] = "self" THEN [lastTsc EXCEPT ![b.id] = clock]
                         ELSE lastTsc
           /\ \/ Self(b.id) /\ LeaveSelf(b.id, delta)
              \/ ~ Self(b.id) /\ UNCHANGED <<tscSelf, subStack, starts, ticks, own>>
    /\ UNCHANGED <<clock, entered>>

TimersNext == Tick \/ Leave \/ \E id \in Id : Enter(id)

TimersSpec == TimersInit /\ [][TimersNext]_timersVars

(***************************************************************************)
(* Properties                                                              *)
(***************************************************************************)

\* Whatever the nesting and the recursion, the self time of an id is exactly
\* the time during which one of its blocks was the innermost self timer: what
\* nested self timers took is excluded, once, and what other timers and plain
\* code took is not.
SelfExact == tscSelf = own

\* Self time is part of the total time, and never negative: the unsigned
\* counter does not wrap when the nested time is taken off.
SelfWithinTotal == \A id \in Id : 0 <= tscSelf[id] /\ tscSelf[id] <= tscCount[id]

\* Types.  That no self time is negative is SelfWithinTotal.
TimersTypeOK ==
    /\ clock \in Nat
    /\ blocks \in Seq(Block)
    /\ subStack \in Seq(Nat)
    /\ tscCount \in [Id -> Nat]
    /\ tscSelf \in [Id -> Int]
    /\ count \in [Id -> Nat]
    /\ lastTsc \in [Id -> Nat]
    /\ starts \in Seq(Nat)
    /\ ticks \in Seq(Nat)
    /\ own \in [Id -> Nat]
    /\ entered \in Nat

=============================================================================
