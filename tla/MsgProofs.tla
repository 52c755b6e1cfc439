----------------------------- MODULE MsgProofs -----------------------------
(***************************************************************************)
(* What a trace statement leaves behind beside its message.                *)
(*                                                                         *)
(* Message ids and descriptors, proved for any number of threads, trace    *)
(* statements and handles (module MsgIds): as long as a statement is used  *)
(* with one handle and descriptors can be written, a trace file is         *)
(* readable.                                                               *)
(*                                                                         *)
(* The message counters, proved for any number of messages and counters,   *)
(* any width of the time, and any interleaving of the program with qtctl   *)
(* and qtclear (module MsgCounters): commands hold and counts are exact.   *)
(***************************************************************************)
EXTENDS MsgIds, MsgCounters, TLAPS

(***************************************************************************)
(* The inductive invariant behind Readable, for statements that are each   *)
(* used with one handle and descriptors that can be written.               *)
(***************************************************************************)
OneHandle == \A s \in Stmt : \A g, h \in Used[s] : g = h

\* allocateMsgId is a critical section of the handle.
Exclusive ==
    \A t \in Thread :
        /\ pc[t] # "idle" => H(t) \in Used[S(t)]
        /\ pc[t] \in {"check", "alloc", "unlock"} => mutex[H(t)] = t
        /\ pc[t] = "alloc" => msgId[S(t)] = 0
        /\ pc[t] \in {"unlock", "take", "write", "start"} => msgId[S(t)] # 0
        /\ pc[t] = "write" => id[t] = msgId[S(t)]

\* Ids are handed out once.
Distinct ==
    \A h \in Handle : ~ wrapped[h] =>
        \A s \in Stmt : h \in Used[s] =>
            /\ nextMsgId[h] = 0 \/ msgId[s] < nextMsgId[h]
            /\ \A r \in Stmt : h \in Used[r] /\ msgId[r] = msgId[s] /\ r # s
                                => msgId[s] = 0

\* The entry stands under the id of its statement.
Owned(h, e) == e.id # 0 /\ e.id = msgId[e.stmt] /\ h \in Used[e.stmt]

\* Files hold entries of statements under their ids, and a thread about to
\* trace has described the statement in its file.
FiledIn(h, t) ==
    /\ \A d \in 1 .. Len(descs[h][t]) : Owned(h, descs[h][t][d])
    /\ \A i \in 1 .. Len(ring[h][t]) : /\ Owned(h, ring[h][t][i])
                                       /\ ring[h][t][i].id \in described[h][t]
    /\ pc[t] = "start" /\ H(t) = h => msgId[S(t)] \in described[h][t]
    /\ 0 \notin described[h][t]

Filed == \A h \in Handle, t \in Thread : FiledIn(h, t)

IInv == TypeOK /\ Exclusive /\ Distinct /\ Filed /\ DescriptorAdded


\* The increment of a MsgId.
LEMMA IncrementType ==
    ASSUME NEW n \in 1 .. MaxId
    PROVE  /\ (n + 1) % (MaxId + 1) \in Ids
           /\ (n + 1) % (MaxId + 1) = 0 \/ (n + 1) % (MaxId + 1) = n + 1
<1>1. CASE n = MaxId
  <2>1. (MaxId + 1) % (MaxId + 1) = 0
    BY MaxIdAssumption
  <2> QED BY <1>1, <2>1, MaxIdAssumption DEF Ids
<1>2. CASE n < MaxId
  <2>1. (n + 1) % (MaxId + 1) = n + 1
    BY <1>2, MaxIdAssumption
  <2> QED BY <1>2, <2>1, MaxIdAssumption DEF Ids
<1> QED BY <1>1, <1>2, MaxIdAssumption

\* The statement and the handle of a thread.
LEMMA AtType ==
    ASSUME TypeOK, NEW t \in Thread
    PROVE  S(t) \in Stmt /\ H(t) \in Handle
BY DEF TypeOK, S, H

\* The initial state.
LEMMA InitIInv == Init => IInv
<1> SUFFICES ASSUME Init PROVE IInv
  OBVIOUS
<1> USE DEF Init
<1>1. TypeOK
  BY MaxIdAssumption DEF TypeOK, Ids, PC
<1>2. Exclusive
  BY DEF Exclusive
<1>3. Distinct
  BY DEF Distinct
<1>4. Filed
  <2>1. 1 .. Len(<<>>) = {}
    OBVIOUS
  <2>2. \A h \in Handle, t \in Thread :
            /\ descs[h][t] = <<>> /\ ring[h][t] = <<>> /\ described[h][t] = {}
            /\ pc[t] # "start"
    OBVIOUS
  <2> QED BY <2>1, <2>2, Zenon DEF Filed, FiledIn
<1>5. DescriptorAdded
  BY DEF DescriptorAdded
<1> QED BY <1>1, <1>2, <1>3, <1>4, <1>5 DEF IInv

\* The entries of a file after one more.
LEMMA AppendEntries ==
    ASSUME NEW q \in Seq(Entry), NEW e \in Entry,
           NEW i \in 1 .. Len(Append(q, e))
    PROVE  \/ i = Len(q) + 1 /\ Append(q, e)[i] = e
           \/ i \in 1 .. Len(q) /\ Append(q, e)[i] = q[i]
<1>1. Len(Append(q, e)) = Len(q) + 1
  OBVIOUS
<1> QED BY <1>1

\* What is known of the entries of one file, and of a thread about to trace.
LEMMA EntryFacts ==
    ASSUME TypeOK, Filed, NEW h \in Handle, NEW t \in Thread
    PROVE  /\ descs[h][t] \in Seq(Entry) /\ ring[h][t] \in Seq(Entry)
           /\ \A d \in 1 .. Len(descs[h][t]) :
                descs[h][t][d] \in Entry /\ Owned(h, descs[h][t][d])
           /\ \A i \in 1 .. Len(ring[h][t]) :
                /\ ring[h][t][i] \in Entry /\ Owned(h, ring[h][t][i])
                /\ ring[h][t][i].id \in described[h][t]
           /\ pc[t] = "start" /\ H(t) = h => msgId[S(t)] \in described[h][t]
           /\ 0 \notin described[h][t]
<1>1. descs[h][t] \in Seq(Entry) /\ ring[h][t] \in Seq(Entry)
  BY DEF TypeOK
<1>2. /\ \A d \in 1 .. Len(descs[h][t]) : descs[h][t][d] \in Entry
      /\ \A i \in 1 .. Len(ring[h][t]) : ring[h][t][i] \in Entry
  BY <1>1
<1>3. FiledIn(h, t)
  BY DEF Filed
<1> QED BY <1>1, <1>2, <1>3, Zenon DEF FiledIn

(***************************************************************************)
(* The actions.  Only Allocate changes a static id, only Finish and        *)
(* Message a file.                                                         *)
(***************************************************************************)

\* Steps that change neither ids nor files.
LEMMA QuietSteps ==
    ASSUME IInv, TypeOK', Exclusive', UNCHANGED <<msgId, nextMsgId, wrapped, fileVars>>,
           \A t \in Thread : pc'[t] = "start" =>
               \/ pc[t] = "start" /\ at'[t] = at[t]
               \/ msgId[at'[t][1]] \in described[at'[t][2]][t]
    PROVE  IInv'
<1> USE DEF IInv, fileVars
<1>1. Distinct'
  BY DEF Distinct
<1>2. Filed'
  <2>1. \A h \in Handle, t \in Thread : pc'[t] = "start" /\ H(t)' = h =>
            msgId[S(t)'] \in described[h][t]
    BY DEF Filed, FiledIn, S, H
  <2> QED BY <2>1 DEF Filed, FiledIn, Owned
<1>3. DescriptorAdded'
  BY DEF DescriptorAdded
<1> QED BY <1>1, <1>2, <1>3

\* A thread comes to a statement, looks at its id.
LEMMA EnterIInv ==
    ASSUME IInv, NEW t \in Thread, NEW s \in Stmt, NEW h \in Handle, Enter(t, s, h)
    PROVE  IInv'
<1> USE DEF IInv, Enter, Goto, idVars, fileVars
<1>1. TypeOK'
  BY DEF TypeOK, PC
<1>2. Exclusive'
  <2>1. /\ at'[t] = <<s, h>> /\ pc'[t] \in {"new", "start"}
        /\ pc'[t] = "start" => msgId[s] # 0
    BY DEF TypeOK, MsgIdInitialized
  <2>2. \A u \in Thread \ {t} : pc'[u] = pc[u] /\ at'[u] = at[u]
    BY DEF TypeOK
  <2> QED BY <2>1, <2>2 DEF Exclusive, S, H
<1>3. \A u \in Thread : pc'[u] = "start" =>
          \/ pc[u] = "start" /\ at'[u] = at[u]
          \/ msgId[at'[u][1]] \in described[at'[u][2]][u]
  BY DEF TypeOK, MsgIdInitialized
<1> QED BY <1>1, <1>2, <1>3, QuietSteps

\* The constructor of MsgDesc.
LEMMA ConstructIInv ==
    ASSUME IInv, NEW t \in Thread, Construct(t)
    PROVE  IInv'
<1> USE DEF IInv, Construct, Goto, idVars, fileVars
<1>1. TypeOK'
  BY DEF TypeOK, PC
<1>2. Exclusive'
  BY DEF Exclusive, S, H, TypeOK
<1> QED BY <1>1, <1>2, QuietSteps DEF TypeOK

\* allocateMsgId takes the mutex.
LEMMA LockIInv ==
    ASSUME IInv, NEW t \in Thread, Lock(t)
    PROVE  IInv'
<1> USE DEF IInv, Lock, Goto, fileVars
<1>1. TypeOK'
  BY AtType DEF TypeOK, PC
<1>2. Exclusive'
  BY NoOneAssumption, AtType DEF Exclusive, S, H, TypeOK
<1> QED BY <1>1, <1>2, QuietSteps DEF TypeOK

\* It looks whether another thread was faster.
LEMMA CheckIInv ==
    ASSUME IInv, NEW t \in Thread, Check(t)
    PROVE  IInv'
<1> USE DEF IInv, Check, Goto, idVars, fileVars
<1>1. TypeOK'
  BY DEF TypeOK, PC
<1>2. Exclusive'
  BY DEF Exclusive, S, H, TypeOK
<1> QED BY <1>1, <1>2, QuietSteps DEF TypeOK

\* It releases the mutex.
LEMMA UnlockIInv ==
    ASSUME IInv, NEW t \in Thread, Unlock(t)
    PROVE  IInv'
<1> USE DEF IInv, Unlock, Goto, fileVars
<1>1. TypeOK'
  BY AtType DEF TypeOK, PC
<1>2. Exclusive'
  BY AtType DEF Exclusive, S, H, TypeOK
<1> QED BY <1>1, <1>2, QuietSteps DEF TypeOK

\* The constructor takes the id.
LEMMA TakeIInv ==
    ASSUME IInv, NEW t \in Thread, Take(t)
    PROVE  IInv'
<1> USE DEF IInv, Take, Goto, idVars, fileVars
<1>1. TypeOK'
  BY AtType DEF TypeOK, PC
<1>2. Exclusive'
  BY DEF Exclusive, S, H, TypeOK
<1> QED BY <1>1, <1>2, QuietSteps DEF TypeOK

\* allocateMsgId: the only step that changes a static id, from 0.
LEMMA AllocateIInv ==
    ASSUME OneHandle, IInv, NEW t \in Thread, Allocate(t)
    PROVE  IInv'
<1> DEFINE s == S(t)
           h == H(t)
           n == IF nextMsgId[h] = 0 THEN 1 ELSE nextMsgId[h]
<1> USE DEF IInv
<1>1. s \in Stmt /\ h \in Handle /\ h \in Used[s] /\ msgId[s] = 0
  BY AtType DEF Allocate, Exclusive
<1>2. n \in 1 .. MaxId
  BY <1>1, MaxIdAssumption DEF TypeOK, Ids
<1>3. /\ msgId' = [msgId EXCEPT ![s] = n]
      /\ nextMsgId' = [nextMsgId EXCEPT ![h] = (n + 1) % (MaxId + 1)]
      /\ wrapped' = [wrapped EXCEPT ![h] = @ \/ nextMsgId[h] = 0]
      /\ pc[t] = "alloc" /\ pc' = [pc EXCEPT ![t] = "unlock"]
      /\ UNCHANGED <<mutex, described, descs, ring, at, id>>
  BY DEF Allocate, Goto, fileVars
<1> HIDE DEF s, h, n
<1>4. n \in Ids /\ (n + 1) % (MaxId + 1) \in Ids
  BY <1>2, IncrementType, MaxIdAssumption DEF Ids
<1>5. TypeOK'
  BY <1>1, <1>3, <1>4 DEF TypeOK, PC
<1>6. \A r \in Stmt : msgId'[r] = IF r = s THEN n ELSE msgId[r]
  BY <1>1, <1>3 DEF TypeOK
<1>7. Exclusive'
  <2> SUFFICES ASSUME NEW u \in Thread
               PROVE  /\ pc'[u] # "idle" => H(u)' \in Used[S(u)']
                      /\ pc'[u] \in {"check", "alloc", "unlock"} => mutex'[H(u)'] = u
                      /\ pc'[u] = "alloc" => msgId'[S(u)'] = 0
                      /\ pc'[u] \in {"unlock", "take", "write", "start"} =>
                            msgId'[S(u)'] # 0
                      /\ pc'[u] = "write" => id'[u] = msgId'[S(u)']
    BY DEF Exclusive
  <2>1. S(u)' = S(u) /\ H(u)' = H(u) /\ S(u) \in Stmt /\ H(u) \in Handle
    BY <1>3, AtType DEF S, H
  <2>2. CASE u = t
    BY <1>1, <1>2, <1>3, <1>6, <2>1, <2>2 DEF TypeOK, Exclusive, s, h
  <2>3. CASE u # t
    <3>1. pc'[u] = pc[u]
      BY <1>3, <2>3 DEF TypeOK
    <3>2. pc[u] = "alloc" => S(u) # s
      BY <1>1, <1>3, <2>1, <2>3 DEF Exclusive, OneHandle, s, h
    <3> QED BY <1>1, <1>2, <1>3, <1>6, <2>1, <3>1, <3>2 DEF Exclusive
  <2> QED BY <2>2, <2>3
<1>8. Distinct'
  <2> SUFFICES ASSUME NEW g \in Handle, ~ wrapped'[g],
                      NEW q \in Stmt, g \in Used[q]
               PROVE  /\ nextMsgId'[g] = 0 \/ msgId'[q] < nextMsgId'[g]
                      /\ \A r \in Stmt : g \in Used[r] /\ msgId'[r] = msgId'[q] /\ r # q
                                          => msgId'[q] = 0
    BY DEF Distinct
  <2>1. ~ wrapped[g]
    BY <1>1, <1>3 DEF TypeOK
  <2>2. \A r \in Stmt : msgId[r] \in Nat
    BY DEF TypeOK, Ids
  <2>3. CASE g = h
    <3>1. nextMsgId[h] # 0 /\ n = nextMsgId[h]
      BY <1>1, <1>3, <2>3 DEF TypeOK, n
    <3>2. nextMsgId'[g] = 0 \/ nextMsgId'[g] = n + 1
      BY <1>1, <1>2, <1>3, <2>3, IncrementType DEF TypeOK
    <3>3. \A r \in Stmt : g \in Used[r] => msgId[r] < n
      BY <2>1, <2>3, <3>1 DEF Distinct
    <3>4. nextMsgId'[g] = 0 \/ msgId'[q] < nextMsgId'[g]
      BY <1>2, <1>6, <2>2, <3>2, <3>3
    <3>5. ASSUME NEW r \in Stmt, g \in Used[r], msgId'[r] = msgId'[q], r # q
          PROVE  msgId'[q] = 0
      BY <1>1, <1>2, <1>6, <2>1, <2>2, <3>3, <3>5 DEF Distinct
    <3> QED BY <3>4, <3>5
  <2>4. CASE g # h
    <3>1. \A r \in Stmt : g \in Used[r] => r # s
      BY <1>1, <2>4 DEF OneHandle
    <3>2. nextMsgId'[g] = nextMsgId[g]
      BY <1>3, <2>4 DEF TypeOK
    <3> QED BY <1>6, <2>1, <3>1, <3>2 DEF Distinct
  <2> QED BY <2>3, <2>4
<1>9. Filed'
  <2> SUFFICES ASSUME NEW g \in Handle, NEW u \in Thread
               PROVE  FiledIn(g, u)'
    BY DEF Filed
  <2>1. \A d \in 1 .. Len(descs[g][u]) :
            descs[g][u][d].stmt \in Stmt /\ descs[g][u][d].stmt # s
    BY <1>1, EntryFacts DEF Entry, Owned
  <2>2. \A i \in 1 .. Len(ring[g][u]) :
            ring[g][u][i].stmt \in Stmt /\ ring[g][u][i].stmt # s
    BY <1>1, EntryFacts DEF Entry, Owned
  <2>3. pc'[u] = "start" /\ H(u)' = g => msgId'[S(u)'] \in described[g][u]
    <3>1. S(u)' = S(u) /\ H(u)' = H(u) /\ S(u) \in Stmt
      BY <1>3, AtType DEF S, H
    <3>2. pc'[u] = "start" => pc[u] = "start"
      BY <1>3 DEF TypeOK
    <3>3. pc[u] = "start" => S(u) # s
      BY <1>1 DEF Exclusive
    <3>4. pc[u] = "start" /\ H(u) = g => msgId[S(u)] \in described[g][u]
      BY EntryFacts
    <3> QED BY <1>6, <3>1, <3>2, <3>3, <3>4
  <2>4. (\A d \in 1 .. Len(descs[g][u]) : Owned(g, descs[g][u][d]))'
    BY <1>3, <1>6, <2>1, EntryFacts DEF Owned
  <2>5. (\A i \in 1 .. Len(ring[g][u]) : /\ Owned(g, ring[g][u][i])
                                        /\ ring[g][u][i].id \in described[g][u])'
    BY <1>3, <1>6, <2>2, EntryFacts DEF Owned
  <2> QED BY <1>3, <2>3, <2>4, <2>5, EntryFacts DEF FiledIn
<1>10. DescriptorAdded'
  BY <1>3 DEF DescriptorAdded
<1> QED BY <1>5, <1>7, <1>8, <1>9, <1>10

\* finish: the descriptor is in the file before its id counts as described.
LEMMA FinishIInv ==
    ASSUME ~ WritesFail, IInv, NEW t \in Thread, Finish(t)
    PROVE  IInv'
<1> DEFINE s == S(t)
           h == H(t)
           e == [id |-> msgId[s], stmt |-> s]
<1> USE DEF IInv
<1>1. /\ s \in Stmt /\ h \in Handle /\ h \in Used[s]
      /\ id[t] = msgId[s] /\ msgId[s] # 0 /\ e \in Entry
  BY AtType DEF Finish, Exclusive, TypeOK, Entry
<1>2. /\ descs' = [descs EXCEPT ![h][t] = Append(@, e)]
      /\ described' = [described EXCEPT ![h][t] = @ \cup {msgId[s]}]
      /\ pc[t] = "write" /\ pc' = [pc EXCEPT ![t] = "start"]
      /\ UNCHANGED <<msgId, nextMsgId, mutex, wrapped, ring, at, id>>
  BY <1>1 DEF Finish, Goto, idVars
<1>3. e.id = msgId[s] /\ e.stmt = s
  OBVIOUS
<1> HIDE DEF s, h, e
<1>4. TypeOK'
  BY SMTT(30), <1>1, <1>2 DEF TypeOK, PC, Ids
<1>5. Exclusive'
  <2>1. \A u \in Thread : S(u)' = S(u) /\ H(u)' = H(u)
    BY <1>2 DEF S, H
  <2>2. \A u \in Thread : pc'[u] = IF u = t THEN "start" ELSE pc[u]
    BY <1>2 DEF TypeOK
  <2> QED BY <1>1, <1>2, <2>1, <2>2 DEF Exclusive, s
<1>6. Distinct'
  BY <1>2 DEF Distinct
<1>7. \A g \in Handle, u \in Thread :
          /\ g = h /\ u = t => /\ descs'[g][u] = Append(descs[g][u], e)
                               /\ described'[g][u] = described[g][u] \cup {msgId[s]}
          /\ ~(g = h /\ u = t) => /\ descs'[g][u] = descs[g][u]
                                  /\ described'[g][u] = described[g][u]
  BY <1>1, <1>2 DEF TypeOK
<1>8. \A g \in Handle, u \in Thread : descs[g][u] \in Seq(Entry)
  BY DEF TypeOK
<1>9. Filed'
  <2> SUFFICES ASSUME NEW g \in Handle, NEW u \in Thread
               PROVE  FiledIn(g, u)'
    BY DEF Filed
  <2>1. \A d \in 1 .. Len(descs'[g][u]) :
            (descs'[g][u][d] = e /\ g = h) \/
            (d \in 1 .. Len(descs[g][u]) /\ descs'[g][u][d] = descs[g][u][d])
    <3>1. CASE g = h /\ u = t
      <4>1. descs'[g][u] = Append(descs[g][u], e) /\ descs[g][u] \in Seq(Entry)
        BY <1>7, <1>8, <3>1
      <4> QED BY <1>1, <3>1, <4>1, AppendEntries
    <3>2. CASE ~(g = h /\ u = t)
      BY <1>7, <3>2
    <3> QED BY <3>1, <3>2
  <2>2. S(u)' = S(u) /\ H(u)' = H(u) /\ (u # t => pc'[u] = pc[u])
    BY <1>2 DEF S, H, TypeOK
  <2>3. pc'[u] = "start" /\ H(u)' = g => msgId[S(u)'] \in described'[g][u]
    <3>1. CASE u = t
      BY <1>7, <2>2, <3>1 DEF s, h
    <3>2. CASE u # t
      BY <1>7, <2>2, <3>2, EntryFacts
    <3> QED BY <3>1, <3>2
  <2>4. (\A d \in 1 .. Len(descs[g][u]) : Owned(g, descs[g][u][d]))'
    <3> SUFFICES ASSUME NEW d \in 1 .. Len(descs'[g][u])
                 PROVE  Owned(g, descs'[g][u][d])
      BY <1>2 DEF Owned
    <3>1. CASE descs'[g][u][d] = e /\ g = h
      BY <1>1, <1>3, <3>1 DEF Owned
    <3> QED BY <2>1, <3>1, EntryFacts
  <2>5. (\A i \in 1 .. Len(ring[g][u]) : /\ Owned(g, ring[g][u][i])
                                        /\ ring[g][u][i].id \in described[g][u])'
    BY <1>2, <1>7, EntryFacts DEF Owned
  <2>6. 0 \notin described'[g][u]
    BY <1>1, <1>7, EntryFacts
  <2> QED BY <1>2, <2>3, <2>4, <2>5, <2>6 DEF FiledIn
<1>10. DescriptorAdded'
  <2> SUFFICES ASSUME NEW g \in Handle, NEW u \in Thread, NEW i \in described'[g][u]
               PROVE  \E d \in 1 .. Len(descs'[g][u]) : descs'[g][u][d].id = i
    BY DEF DescriptorAdded
  <2>1. CASE i \in described[g][u]
    <3>1. PICK d \in 1 .. Len(descs[g][u]) : descs[g][u][d].id = i
      BY <2>1 DEF DescriptorAdded
    <3>2. d \in 1 .. Len(descs'[g][u]) /\ descs'[g][u][d] = descs[g][u][d]
      BY <1>7, <1>8
    <3> QED BY <3>1, <3>2
  <2>2. CASE i \notin described[g][u]
    <3>1. g = h /\ u = t /\ i = msgId[s]
      BY <1>7, <2>2
    <3>2. descs'[g][u][Len(descs'[g][u])] = e /\ Len(descs'[g][u]) \in 1 .. Len(descs'[g][u])
      BY <1>1, <1>7, <1>8, <3>1
    <3> QED BY <1>3, <3>1, <3>2
  <2> QED BY <2>1, <2>2
<1> QED BY <1>4, <1>5, <1>6, <1>9, <1>10

\* The message itself: its id is described in the file.
LEMMA MessageIInv ==
    ASSUME IInv, NEW t \in Thread, Message(t)
    PROVE  IInv'
<1> DEFINE s == S(t)
           h == H(t)
           e == [id |-> msgId[s], stmt |-> s]
<1> USE DEF IInv
<1>1. /\ s \in Stmt /\ h \in Handle /\ h \in Used[s]
      /\ msgId[s] # 0 /\ e \in Entry /\ msgId[s] \in described[h][t]
  BY AtType, EntryFacts DEF Message, Exclusive, TypeOK, Entry
<1>2. /\ ring' = [ring EXCEPT ![h][t] = Append(@, e)]
      /\ pc[t] = "start" /\ pc' = [pc EXCEPT ![t] = "idle"]
      /\ UNCHANGED <<msgId, nextMsgId, mutex, wrapped, described, descs, at, id>>
  BY DEF Message, Goto, idVars
<1>3. e.id = msgId[s] /\ e.stmt = s
  OBVIOUS
<1> HIDE DEF s, h, e
<1>4. TypeOK'
  BY <1>1, <1>2 DEF TypeOK, PC
<1>5. Exclusive'
  <2>1. \A u \in Thread : S(u)' = S(u) /\ H(u)' = H(u)
    BY <1>2 DEF S, H
  <2>2. \A u \in Thread : pc'[u] = IF u = t THEN "idle" ELSE pc[u]
    BY <1>2 DEF TypeOK
  <2> QED BY <1>1, <1>2, <2>1, <2>2 DEF Exclusive
<1>6. Distinct' /\ DescriptorAdded'
  BY <1>2 DEF Distinct, DescriptorAdded
<1>7. \A g \in Handle, u \in Thread :
          /\ ring[g][u] \in Seq(Entry)
          /\ g = h /\ u = t => ring'[g][u] = Append(ring[g][u], e)
          /\ ~(g = h /\ u = t) => ring'[g][u] = ring[g][u]
  BY <1>1, <1>2 DEF TypeOK
<1>8. Filed'
  <2> SUFFICES ASSUME NEW g \in Handle, NEW u \in Thread
               PROVE  FiledIn(g, u)'
    BY DEF Filed
  <2>1. \A i \in 1 .. Len(ring'[g][u]) :
            (ring'[g][u][i] = e /\ g = h /\ u = t) \/
            (i \in 1 .. Len(ring[g][u]) /\ ring'[g][u][i] = ring[g][u][i])
    <3>1. CASE g = h /\ u = t
      <4>1. \A q \in Seq(Entry) : \A i \in 1 .. Len(Append(q, e)) :
                \/ Append(q, e)[i] = e
                \/ i \in 1 .. Len(q) /\ Append(q, e)[i] = q[i]
        BY <1>1, AppendEntries
      <4>2. ring[g][u] \in Seq(Entry) /\ ring'[g][u] = Append(ring[g][u], e)
        BY <1>7, <3>1
      <4> HIDE DEF e
      <4> QED BY <3>1, <4>1, <4>2
    <3>2. CASE ~(g = h /\ u = t)
      BY <1>7, <3>2
    <3> QED BY <3>1, <3>2
  <2>2. S(u)' = S(u) /\ H(u)' = H(u) /\ (pc'[u] = "start" => pc[u] = "start")
    BY <1>2 DEF S, H, TypeOK
  <2>3. pc'[u] = "start" /\ H(u)' = g => msgId[S(u)'] \in described[g][u]
    BY <2>2, EntryFacts
  <2>4. (\A i \in 1 .. Len(ring[g][u]) : /\ Owned(g, ring[g][u][i])
                                        /\ ring[g][u][i].id \in described[g][u])'
    <3> SUFFICES ASSUME NEW i \in 1 .. Len(ring'[g][u])
                 PROVE  Owned(g, ring'[g][u][i]) /\ ring'[g][u][i].id \in described[g][u]
      BY <1>2 DEF Owned
    <3>1. CASE ring'[g][u][i] = e /\ g = h /\ u = t
      BY <1>1, <1>3, <3>1 DEF Owned
    <3> QED BY <2>1, <3>1, EntryFacts
  <2>5. (\A d \in 1 .. Len(descs[g][u]) : Owned(g, descs[g][u][d]))'
    BY <1>2, EntryFacts DEF Owned
  <2> QED BY <1>2, <2>3, <2>4, <2>5, EntryFacts DEF FiledIn
<1> QED BY <1>4, <1>5, <1>6, <1>8

(***************************************************************************)
(* The theorems.                                                           *)
(***************************************************************************)

\* Every step keeps the invariant.
LEMMA NextIInv ==
    ASSUME OneHandle, ~ WritesFail, IInv, [Next]_vars
    PROVE  IInv'
<1>1. CASE UNCHANGED vars
  <2> USE <1>1 DEF vars, idVars, fileVars, IInv
  <2>1. TypeOK' /\ Exclusive'
    BY DEF TypeOK, Exclusive, S, H
  <2> QED BY <2>1, QuietSteps
<1>2. ASSUME NEW t \in Thread, NEW s \in Stmt, NEW h \in Handle, Enter(t, s, h)
      PROVE  IInv'
  BY <1>2, EnterIInv
<1>3. ASSUME NEW t \in Thread, Step(t)
      PROVE  IInv'
  BY <1>3, ConstructIInv, LockIInv, CheckIInv, AllocateIInv, UnlockIInv,
     TakeIInv, FinishIInv, MessageIInv DEF Step
<1> QED BY <1>1, <1>2, <1>3 DEF Next

\* The invariant makes every file readable.
LEMMA IInvReadable == IInv => Readable
<1> SUFFICES ASSUME IInv, NEW h \in Handle, NEW t \in Thread, ~ wrapped[h],
                    NEW i \in 1 .. Len(ring[h][t])
             PROVE  Has(h, t, ring[h][t][i])
  BY DEF Readable
<1> DEFINE m == ring[h][t][i]
<1> USE DEF IInv
<1>1. /\ m \in Entry /\ m.id # 0 /\ m.id = msgId[m.stmt] /\ h \in Used[m.stmt]
      /\ m.id \in described[h][t]
  BY EntryFacts DEF Owned
<1>2. ASSUME NEW d \in 1 .. Len(descs[h][t]), descs[h][t][d].id = m.id
      PROVE  descs[h][t][d] = m
  <2>1. /\ descs[h][t][d] \in Entry
        /\ descs[h][t][d].id = msgId[descs[h][t][d].stmt]
        /\ h \in Used[descs[h][t][d].stmt]
    BY EntryFacts DEF Owned
  <2>2. descs[h][t][d].stmt = m.stmt
    BY <1>1, <1>2, <2>1 DEF Distinct, Entry
  <2> QED BY <1>1, <1>2, <2>1, <2>2 DEF Entry
<1>3. PICK d \in 1 .. Len(descs[h][t]) : descs[h][t][d].id = m.id
  BY <1>1 DEF DescriptorAdded
<1> QED BY <1>2, <1>3 DEF Has

\* The invariant holds throughout, if every statement is used with one handle
\* and descriptors can be written.
THEOREM Invariance ==
    ASSUME OneHandle, ~ WritesFail
    PROVE  Spec => []IInv
<1>1. Init => IInv
  BY InitIInv
<1>2. IInv /\ [Next]_vars => IInv'
  BY NextIInv
<1> QED BY <1>1, <1>2, PTL DEF Spec

\* Every message of every trace file can be printed with the format of the
\* statement that traced it, whichever threads raced for the id.
THEOREM FilesReadable ==
    ASSUME OneHandle, ~ WritesFail
    PROVE  Spec => []Readable
BY Invariance, IInvReadable, PTL

\* Ids and descriptors are well formed.
THEOREM TypeCorrect ==
    ASSUME OneHandle, ~ WritesFail
    PROVE  Spec => []TypeOK
<1>1. IInv => TypeOK
  BY DEF IInv
<1> QED BY <1>1, Invariance, PTL

(***************************************************************************)
(* The inductive invariant behind CommandHolds and CountsExact.            *)
(***************************************************************************)

\* While startMsg updates a lastTsc, the off bit that it has loaded is the one
\* that the last command left, if no command came in between.
LoadedOff == \A c \in Counter :
    Updating(c) /\ told[c] # "open" => tracer.last.off = off[c]

\* Likewise for the count, while it is incremented.
LoadedCount == \A c \in Counter :
    tracer.pc = "add" /\ MsgCounter(tracer.id) = c /\ since[c] # -1
        => tracer.count = count[c]

CountersIInv == CountersTypeOK /\ LoadedOff /\ LoadedCount /\ CommandHolds /\ CountsExact



\* The counter of a message.
LEMMA MsgCounterType ==
    ASSUME NEW i \in Id
    PROVE  MsgCounter(i) \in Counter
<1>1. i \in Int /\ NumCounters \in Nat /\ NumCounters > 0
  BY SizesAssumption DEF Id
<1>2. i % NumCounters \in 0 .. NumCounters - 1
  BY <1>1
<1> QED BY <1>2 DEF MsgCounter, Counter

\* A time fits below the off bit, and is a number.
LEMMA TimeType ==
    ASSUME NEW n \in Nat
    PROVE  n % Half \in Nat
BY SizesAssumption

\* The initial state.
LEMMA CountersInitIInv == CountersInit => CountersIInv
<1> SUFFICES ASSUME CountersInit PROVE CountersIInv
  OBVIOUS
<1> USE DEF CountersInit
<1>1. CountersTypeOK
  BY SizesAssumption DEF CountersTypeOK, Loaded, Unset, Id
<1>2. LoadedOff /\ LoadedCount
  BY DEF LoadedOff, LoadedCount, Updating
<1>3. CommandHolds
  <2>1. \A c \in Counter : ~ off[c] /\ told[c] # "off" /\ off[c] \in BOOLEAN
    OBVIOUS
  <2> QED BY <2>1, Zenon DEF CommandHolds
<1>4. CountsExact
  BY DEF CountsExact
<1> QED BY <1>1, <1>2, <1>3, <1>4 DEF CountersIInv

\* startMsg begins with a load of lastTsc.
LEMMA StartMsgIInv ==
    ASSUME CountersIInv, NEW i \in Id, StartMsg(i)
    PROVE  CountersIInv'
<1> USE DEF StartMsg, fields, histVars
<1>1. MsgCounter(i) \in Counter
  BY MsgCounterType
<1>2. Last(MsgCounter(i)) \in Loaded
  BY <1>1 DEF CountersIInv, CountersTypeOK, Last, Loaded
<1>3. CountersTypeOK'
  <2> DEFINE last == Last(MsgCounter(i))
  <2>1. tracer' = [tracer EXCEPT !.pc = "load", !.id = i, !.last = last]
    OBVIOUS
  <2>2. UNCHANGED <<off, time, count, ctl, clear, hits, since, told>>
    OBVIOUS
  <2>3. clock' = clock + 1
    OBVIOUS
  <2>4. tracer \in [pc : {"idle", "load", "store", "count", "add"}, id : Id,
                    last : Loaded, count : Int]
    BY DEF CountersIInv, CountersTypeOK
  <2>5. last \in Loaded
    BY <1>2
  <2> HIDE DEF last, StartMsg
  <2>6. tracer' \in [pc : {"idle", "load", "store", "count", "add"}, id : Id,
                     last : Loaded, count : Int]
    BY <2>1, <2>4, <2>5
  <2> QED BY <2>2, <2>3, <2>6 DEF CountersIInv, CountersTypeOK
<1>4. /\ tracer'.pc = "load" /\ tracer'.id = i
      /\ tracer'.last.off = off[MsgCounter(i)]
  BY DEF CountersIInv, CountersTypeOK, Last
<1>5. LoadedOff'
  BY <1>4 DEF CountersIInv, LoadedOff, Updating
<1>6. LoadedCount'
  BY <1>4 DEF LoadedCount
<1> QED BY <1>3, <1>5, <1>6 DEF CountersIInv, CommandHolds, CountsExact

\* What is loaded for updateLastTsc is what the counter holds, or what was
\* loaded before.
LEMMA LoadLastIInv == CountersIInv /\ LoadLast => CountersIInv'
<1> SUFFICES ASSUME CountersIInv, LoadLast PROVE CountersIInv'
  OBVIOUS
<1> USE DEF LoadLast, fields, histVars
<1>0. tracer.id \in Id /\ MsgCounter(tracer.id) \in Counter
  BY MsgCounterType DEF CountersIInv, CountersTypeOK
<1>1. PICK last \in {tracer.last, Last(MsgCounter(tracer.id))} :
         tracer' = [tracer EXCEPT !.pc = "store", !.last = last]
  OBVIOUS
<1>2. last \in Loaded
  BY <1>0 DEF CountersIInv, CountersTypeOK, Last, Loaded
<1>3. CountersTypeOK'
  BY <1>1, <1>2 DEF CountersIInv, CountersTypeOK
<1>4. tracer'.pc = "store" /\ tracer'.last = last /\ tracer'.id = tracer.id
  BY <1>1 DEF CountersIInv, CountersTypeOK
<1>5. LoadedOff'
  <2>1. \/ tracer'.last = tracer.last
        \/ tracer'.last.off = off[MsgCounter(tracer.id)]
    BY <1>4 DEF Last
  <2> QED BY <1>4, <2>1 DEF CountersIInv, LoadedOff, Updating
<1>6. LoadedCount'
  BY <1>4 DEF LoadedCount
<1> QED BY <1>3, <1>5, <1>6 DEF CountersIInv, CommandHolds, CountsExact

\* updateLastTsc stores the bit that it has loaded.
LEMMA StoreLastIInv == CountersIInv /\ StoreLast => CountersIInv'
<1> SUFFICES ASSUME CountersIInv, StoreLast PROVE CountersIInv'
  OBVIOUS
<1> DEFINE c == MsgCounter(tracer.id)
<1> USE DEF StoreLast, histVars
<1>0. tracer.id \in Id /\ c \in Counter
  BY MsgCounterType DEF CountersIInv, CountersTypeOK
<1>1. Updating(c) /\ tracer.last.off \in BOOLEAN
  BY DEF Updating, CountersIInv, CountersTypeOK, Loaded
<1>2. CountersTypeOK'
  BY <1>0, <1>1, TimeType DEF CountersIInv, CountersTypeOK
<1>3. tracer'.pc = "count"
  BY DEF CountersIInv, CountersTypeOK
<1>4. LoadedOff' /\ LoadedCount'
  BY <1>3 DEF LoadedOff, LoadedCount, Updating
<1>5. CommandHolds'
  <2> SUFFICES ASSUME NEW d \in Counter, told[d] # "open"
               PROVE  off'[d] = (told[d] = "off")
    BY DEF CommandHolds
  <2>1. off[d] = (told[d] = "off")
    BY DEF CountersIInv, CommandHolds
  <2>2. off'[d] = IF d = c THEN tracer.last.off ELSE off[d]
    BY <1>0 DEF CountersIInv, CountersTypeOK
  <2>3. d = c => tracer.last.off = off[d]
    BY <1>0, <1>1 DEF CountersIInv, LoadedOff
  <2> QED BY <2>1, <2>2, <2>3
<1> QED BY <1>2, <1>4, <1>5 DEF CountersIInv, CountsExact

\* count++ loads the count and stores the next one.
LEMMA CountIInv ==
    ASSUME CountersIInv, LoadCount \/ StoreCount
    PROVE  CountersIInv'
<1> DEFINE c == MsgCounter(tracer.id)
<1>0. tracer.id \in Id /\ c \in Counter
  BY MsgCounterType DEF CountersIInv, CountersTypeOK
<1>1. CASE LoadCount
  <2> USE <1>0, <1>1 DEF LoadCount, fields, histVars
  <2>1. CountersTypeOK'
    BY DEF CountersIInv, CountersTypeOK
  <2>2. tracer'.pc = "add" /\ tracer'.id = tracer.id /\ tracer'.count = count[c]
    BY DEF CountersIInv, CountersTypeOK
  <2>3. LoadedOff' /\ LoadedCount'
    BY <2>2 DEF LoadedOff, LoadedCount, Updating
  <2> QED BY <2>1, <2>3 DEF CountersIInv, CommandHolds, CountsExact
<1>2. CASE StoreCount
  <2> USE <1>0, <1>2 DEF StoreCount
  <2>1. CountersTypeOK'
    BY DEF CountersIInv, CountersTypeOK
  <2>2. tracer'.pc = "idle"
    BY DEF CountersIInv, CountersTypeOK
  <2>3. LoadedOff' /\ LoadedCount'
    BY <2>2 DEF LoadedOff, LoadedCount, Updating
  <2>4. CountsExact'
    <3> SUFFICES ASSUME NEW d \in Counter, since[d] # -1
                 PROVE  count'[d] = hits'[d] - since[d]
      BY DEF CountsExact
    <3>1. count[d] = hits[d] - since[d]
      BY DEF CountersIInv, CountsExact
    <3>2. CASE d = c
      <4>1. tracer.count = count[d]
        BY <3>2 DEF CountersIInv, LoadedCount
      <4>2. count'[d] = count[d] + 1 /\ hits'[d] = hits[d] + 1
        BY <3>2, <4>1 DEF CountersIInv, CountersTypeOK
      <4> QED BY <3>1, <4>2 DEF CountersIInv, CountersTypeOK
    <3>3. CASE d # c
      <4>1. count'[d] = count[d] /\ hits'[d] = hits[d]
        BY <3>3 DEF CountersIInv, CountersTypeOK
      <4> QED BY <3>1, <4>1
    <3> QED BY <3>2, <3>3
  <2> QED BY <2>1, <2>3, <2>4 DEF CountersIInv, CommandHolds
<1> QED BY <1>1, <1>2

\* qtctl: only its store touches a counter.
LEMMA CtlIInv == CountersIInv /\ Ctl => CountersIInv'
<1> SUFFICES ASSUME CountersIInv, Ctl PROVE CountersIInv'
  OBVIOUS
<1> USE DEF fields, histVars
<1>1. CASE CtlLoad
  <2> USE <1>1 DEF CtlLoad
  <2>1. PICK i \in ctl.todo :
           ctl' = [ctl EXCEPT !.pc = "store", !.id = i, !.todo = @ \ {i},
                              !.last = Last(MsgCounter(i))]
    OBVIOUS
  <2>2. i \in Id
    BY DEF CountersIInv, CountersTypeOK
  <2>3. Last(MsgCounter(i)) \in Loaded
    BY <2>2, MsgCounterType DEF CountersIInv, CountersTypeOK, Last, Loaded
  <2>4. CountersTypeOK'
    BY <2>1, <2>2, <2>3 DEF CountersIInv, CountersTypeOK
  <2> QED
    BY <2>4 DEF CountersIInv, LoadedOff, LoadedCount, CommandHolds, CountsExact, Updating
<1>2. CASE CtlStore
  <2> DEFINE c == MsgCounter(ctl.id)
  <2> USE <1>2 DEF CtlStore
  <2>0. c \in Counter
    BY MsgCounterType DEF CountersIInv, CountersTypeOK
  <2>1. CountersTypeOK'
    <3>1. ctl.on \in BOOLEAN /\ ctl.last.time \in Nat
      BY DEF CountersIInv, CountersTypeOK, Loaded
    <3> QED BY <2>0, <3>1 DEF CountersIInv, CountersTypeOK
  <2>2. /\ \A d \in Counter : d # c => off'[d] = off[d] /\ told'[d] = told[d]
        /\ off'[c] = ~ ctl.on
        /\ Updating(c) => told'[c] = "open"
        /\ ~ Updating(c) => told'[c] = IF ctl.on THEN "on" ELSE "off"
    BY <2>0 DEF CountersIInv, CountersTypeOK
  <2>3. \A d \in Counter : Updating(d)' <=> Updating(d)
    BY DEF Updating
  <2>4. LoadedOff'
    BY <2>0, <2>2, <2>3 DEF CountersIInv, LoadedOff
  <2>5. CommandHolds'
    BY <2>0, <2>2 DEF CountersIInv, CountersTypeOK, CommandHolds
  <2> QED BY <2>1, <2>4, <2>5 DEF CountersIInv, LoadedCount, CountsExact
<1>3. CASE CtlEnd \/ \E on \in BOOLEAN, ids \in SUBSET Id : Qtctl(on, ids)
  <2> USE <1>3 DEF CtlEnd, Qtctl, Command
  <2>1. CountersTypeOK'
    BY DEF CountersIInv, CountersTypeOK
  <2>2. LoadedOff' /\ LoadedCount'
    BY DEF CountersIInv, LoadedOff, LoadedCount, Updating
  <2>3. CommandHolds' /\ CountsExact'
    BY DEF CountersIInv, CommandHolds, CountsExact
  <2> QED BY <2>1, <2>2, <2>3 DEF CountersIInv
<1> QED BY <1>1, <1>2, <1>3 DEF Ctl

\* qtclear: one field after the other.
LEMMA ClearIInv == CountersIInv /\ Clear => CountersIInv'
<1> SUFFICES ASSUME CountersIInv, Clear PROVE CountersIInv'
  OBVIOUS
<1> USE DEF fields, histVars
<1>1. CASE Qtclear
  <2> USE <1>1 DEF Qtclear, Command
  <2>1. CountersTypeOK'
    BY DEF CountersIInv, CountersTypeOK
  <2>2. LoadedOff' /\ LoadedCount'
    BY DEF CountersIInv, LoadedOff, LoadedCount, Updating
  <2>3. CommandHolds' /\ CountsExact'
    BY DEF CountersIInv, CommandHolds, CountsExact
  <2> QED BY <2>1, <2>2, <2>3 DEF CountersIInv
<1>2. ASSUME NEW c \in Counter, ClearLast(c)
      PROVE  CountersIInv'
  <2> USE <1>2 DEF ClearLast
  <2>1. CountersTypeOK'
    BY DEF CountersIInv, CountersTypeOK
  <2>2. /\ \A d \in Counter : d # c => off'[d] = off[d] /\ told'[d] = told[d]
        /\ off'[c] = FALSE
        /\ told'[c] = IF Updating(c) THEN "open" ELSE "on"
    BY DEF CountersIInv, CountersTypeOK
  <2>3. \A d \in Counter : Updating(d)' <=> Updating(d)
    BY DEF Updating
  <2>4. LoadedOff'
    BY <2>2, <2>3 DEF CountersIInv, LoadedOff
  <2>5. CommandHolds'
    <3>1. \A d \in Counter : d # c /\ told'[d] # "open" => off'[d] = (told'[d] = "off")
      BY <2>2 DEF CountersIInv, CommandHolds
    <3>2. told'[c] # "off" /\ off'[c] = FALSE
      BY <2>2
    <3> QED BY <3>1, <3>2, Zenon DEF CommandHolds
  <2> QED BY <2>1, <2>4, <2>5 DEF CountersIInv, LoadedCount, CountsExact
<1>3. ASSUME NEW c \in Counter, ClearCount(c)
      PROVE  CountersIInv'
  <2> USE <1>3 DEF ClearCount
  <2>1. CountersTypeOK'
    BY DEF CountersIInv, CountersTypeOK
  <2>2. /\ \A d \in Counter : d # c => count'[d] = count[d] /\ since'[d] = since[d]
        /\ count'[c] = 0
        /\ since'[c] = IF tracer.pc = "add" /\ MsgCounter(tracer.id) = c
                       THEN -1 ELSE hits[c]
    BY DEF CountersIInv, CountersTypeOK
  <2>3. LoadedCount'
    BY <2>2 DEF CountersIInv, LoadedCount
  <2>4. CountsExact'
    <3> SUFFICES ASSUME NEW d \in Counter, since'[d] # -1
                 PROVE  count'[d] = hits[d] - since'[d]
      BY DEF CountsExact
    <3>1. CASE d = c
      BY <2>2, <3>1 DEF CountersIInv, CountersTypeOK
    <3>2. CASE d # c
      BY <2>2, <3>2 DEF CountersIInv, CountsExact
    <3> QED BY <3>1, <3>2
  <2> QED BY <2>1, <2>3, <2>4 DEF CountersIInv, LoadedOff, CommandHolds, Updating
<1> QED BY <1>1, <1>2, <1>3 DEF Clear

\* A step of any process.
LEMMA CountersNextIInv == CountersIInv /\ [CountersNext]_countersVars => CountersIInv'
<1> SUFFICES ASSUME CountersIInv, [CountersNext]_countersVars PROVE CountersIInv'
  OBVIOUS
<1>1. CASE UNCHANGED countersVars
  BY <1>1 DEF countersVars, fields, histVars, CountersIInv, CountersTypeOK, LoadedOff, LoadedCount,
              CommandHolds, CountsExact, Updating
<1>2. CASE Tracer
  BY <1>2, StartMsgIInv, LoadLastIInv, StoreLastIInv, CountIInv DEF Tracer
<1> QED BY <1>1, <1>2, CtlIInv, ClearIInv DEF CountersNext

\* Program, qtctl and qtclear, in any interleaving of their loads and stores.
THEOREM CountersInvariance == CountersSpec => []CountersIInv
<1> QED BY CountersInitIInv, CountersNextIInv, PTL DEF CountersSpec

\* CommandHolds: what the last command made of a counter stays, unless it came
\* while startMsg was updating lastTsc.
THEOREM CommandsHold == CountersSpec => []CommandHolds
<1>1. CountersIInv => CommandHolds
  BY DEF CountersIInv
<1> QED BY CountersInvariance, <1>1, PTL

\* CountsExact: hits are counted once, whatever qtctl does, and from the last
\* qtclear on, unless it came in the middle of a count++.
THEOREM CountsAreExact == CountersSpec => []CountsExact
<1>1. CountersIInv => CountsExact
  BY DEF CountersIInv
<1> QED BY CountersInvariance, <1>1, PTL
=============================================================================
