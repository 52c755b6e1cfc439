------------------------------ MODULE RingRead ------------------------------
(***************************************************************************)
(* What every use of class RingBuffer in qttail begins with: its place in  *)
(* the ring, and how it reads a timestamp (qttail.cpp 43-45, 513-554).     *)
(***************************************************************************)
EXTENDS RingBuf

VARIABLES
    cur,       \* cur_
    lastTsc    \* lastTsc_

\* No single message fills the ring.
MessageFits == \A id \in Id : Start + LenOf(id) + 1 < BufEnd

\* What LOAD_TSC reads: UINT64_MAX from ones, and from the bytes of another
\* field a number that is no timestamp of this program.
AllOnes == MaxTsc + 2
Garbage == MaxTsc + 3

LoadTsc(a) == CASE mem[a].kind = "tsc" -> mem[a].val
                [] mem[a].kind = "ones" -> AllOnes
                [] OTHER -> Garbage

\* RingBuffer::nextTsc: at the start a timestamp below lastTsc_ is an old one.
NextTsc ==
    LET tsc == LoadTsc(cur)
    IN  IF cur = Start /\ tsc < lastTsc THEN 0 ELSE tsc

=============================================================================
