# A TLA+ model of QuickTrace

QuickTrace is a tracing library (C++, with C and Python wrappers). A program
traces into a memory mapped file that outlives it; other programs look into that
file while it is being written, or after its writer has crashed: `qttail`
prints messages, `qtctl` switches messages on and off, `qtclear` resets
counters. Nothing is locked between the program and these tools, and nearly
nothing between the threads of the program. What makes the code correct is the
order of its loads and stores, and that is what these modules are about.

## The system

One trace file of a program is laid out as: header, message counters, up to ten
ring buffers (one per trace level), and, appended, one descriptor per message.

| Component (source) | State it keeps | Operations | Hard parts |
|---|---|---|---|
| Ring buffer writer (`RingBuf`: QuickTrace.cpp 706-794, QuickTraceRingBuf.h) | `ptr_`, `msgStart_`, `tailPtr` and the bytes of the ring | `startMsg`, `operator<<`, `endMsg`, `doWrap` | the file can be read, or be all that is left of the program, after any store; the wrap; the trailer is not bound-checked |
| Ring reader (`RingBuffer` in qttail.cpp) | `cur_`, `lastTsc_`, `corruption_` | `rewind`, `fastforward`, `next`, `dump`, `skip`, `reset` | every value it reads may have changed since; telling a half-written message, the end of a lap and corruption apart |
| Message ids and descriptors (macros of QuickTrace.h, `MsgDesc`, `allocateMsgId`) | static `MsgId` of a statement, `nextMsgId_` of a handle, `msgIdInitialized_` of a file | first execution of a statement | threads meet at a statement; one statement, several files; overflow |
| Message counters (header of the file) | `count`, `lastTsc` (its top bit: off), `tscCount`, `tscSelfCount` | `startMsg`; `qtctl on`/`off`; `qtclear` | read-modify-write in three processes without a lock |
| Profiling timers (`BlockTimer` ...) | `threadSubFuncStack` | constructors and destructors | nesting of timers that do and do not use the stack |
| Trace handles and files (`TraceHandle`, `TraceFile`) | `traceHandleMap`, `traceFiles_`, thread-local files, `traceHandleMutex` | construct, create a thread's file, close, delete, resize, thread end, `fork` | what the child of a fork inherits; what is read before the mutex is taken |
| Tail status machine, inotify (`Tail`, `Watch`, `TailControl`) | status of a file, watches | poll, event handlers | a file that is deleted and created anew while it is read |
| Merge of the levels (`Tail::nextTsc`, `CatControl`) | `next_` of a file, queue of files by timestamp | `nextTsc`, `tailMany`, `catMany` | the smallest of timestamps that change while they are compared, or are stored in part |
| Creation and rotation of files, forever log | names in the directory, `foreverLogIndex_` | `saveOldFiles`, `getfile`, `maybeBackupBuffer` | one system call of several fails, or the program crashes between two and starts again |
| Size specification | `SizeSpec`, `mappedTraceFileSize_` | `addAndLimitSizes`, `scaleDownSizes`, layout of the rings | 32 bit arithmetic at the limits; two loops that must agree |
| Messages as bytes and as text (`put`, `MsgDesc`, `Messages`, `MessageFormatter`; C, Python and Go APIs, `QTFMT`, `WCQT`) | ids of statements, descriptors, dictionary of `qttail`, format state of `std::cout` | trace statement, descriptor, `Messages::get`, `init`, `length`, `format` | two programs agree on the length of a message by its type only; a message is met before its descriptor; format state outlives a value |

The program and the tools interact through the mapped file only. Within the
program the trace macros call `MsgDesc` (descriptor), then `RingBuf` (message and
counter); both belong to the `TraceFile` that `TraceHandle::traceFile` finds. In
`qttail`, `TailControl` polls inotify and calls `Tail`, which picks the
`RingBuffer` with the smallest timestamp and dumps one message of it; the
`RingBuffer` asks `Messages` for the message's descriptor, and its formatters, built
by `MessageFormatter`, tell the length of a message and print it. A `TraceFile` gets
its sizes from its handle's `SizeSpec`, rotates what lies under its name when
it is created, and copies itself at a wrap if there is a forever log.

PROJECT.json lists every component with what is left out of it, and every hazard
with the properties that are about it.

## The modules

| Module | Models |
|---|---|
| `RingBuf` | the writer of one ring, store by store; `qtctl` on and off |
| `RingRead` | the place of the reader, and the loads that both readers share |
| `QtCat`, `MCQtCat` | `qttail -c` on the ring of a stopped or crashed program |
| `RingTail`, `MCRingTail` | `qttail` following the ring while it is written, load by load |
| `RingProofs` | the proofs about `RingBuf`, `RingTail` and `QtCat` |
| `TraceLog` | abstract: a log that grows, of which every message is shown once and in order, by a reader that may lose it |
| `MsgIds`, `MCMsgIds` | ids and descriptors, any number of threads, statements and handles |
| `MsgCounters`, `MCMsgCounters` | `count` and `lastTsc` under the program, `qtctl` and `qtclear` |
| `MsgProofs` | the proofs about `MsgIds` and `MsgCounters` |
| `BlockTimers`, `MCBlockTimers` | profiling timers of one thread |
| `Handles`, `MCHandles` | trace handles, trace files, threads and fork |
| `ThreadsProofs` | the proofs about `Handles` and `BlockTimers` |
| `Merge`, `MCMerge`, `MergeProofs` | the order of the lines of several rings and files: `nextTsc`, `tailMany`, `catMany` |
| `MsgFormat` | a message as bytes, its descriptor as tokens and key, and the formatters that `qttail` makes of it |
| `Messages`, `MCMessages` | trace statements of every API, and `qttail` that looks up, decodes and prints |
| `FormatProofs` | the proofs about the operators of `MsgFormat`: one message, put and printed |
| `MessagesProofs` | the proofs about `Messages`, on top of `FormatProofs` |
| `SizeSpec` | sizes of the rings, and where they lie in the file |
| `TraceFiles`, `MCTraceFiles` | creation, rotation, resizing and backup of the file under one name, with crashes (on top of `SizeSpec`) |
| `TraceFilesProofs` | the inductive invariants of `SizeSpec`, of the rotation and of the backups |
| `TailStatus`, `MCTailStatus`, `TailStatusProofs` | `qttail` while its files are deleted and created anew: status of a file, inotify, main loops |

### State and actions against the code

**RingBuf.** `mem` is the ring, one cell per field: timestamp, id, word of data,
length byte. A cell knows which kind of field was stored in it. That is the
abstraction: a reader that decodes bytes of the wrong kind is taken to notice,
where the code compares lengths and timestamps and notices with high
probability. `ptr`, `msgStart`, `tailPtr` are the variables of the class.
`StartMsg` is the store of the timestamp, `PutId`, `PutWord`, `EndMsgLen`,
`EndMsgZero` are the stores after it, `WrapSeal` and `WrapTurn` those of `doWrap`;
`StartMsgOff` is a message that is switched off. Each stands for the code between
its store and the next. Stores become visible in program order, as on the
processors the code is for (x86: it uses `rdtsc`). The timestamp counter strictly
grows between two calls, each trace statement takes two values.

**QtCat** is `qttail -c` as a process, a turn of a loop per step: `Begin`, `Forward` or `Refuse`,
`Split`, `Back`, `Found` are `rewind` with its two loops, `Dump` and `End` the loop of `catOne`. The
program may stop for good after any store, so `CatNext` lets `qttail` begin in every
reachable state of `RingBuf`, and from then on the ring stays as it is. What is printed
after every possible crash is thus what `lines` can be.

**RingTail** is the same reader as a process: `Open`, `Poll`, `Order` are the loop of
`Tail`, `ReadTsc`, `ReadId`, `ReadLen`, `ReadNext`, `ReadStart` the loads of
`RingBuffer::next`, `Format` and `Dumped` the printing and the second check of `dump`,
`Reset` what is done about corruption. `out` records the lines with what the reader
cannot know of them: whether the text is `exact`ly what was traced, or at least the
`data` are, whether it passed the check after printing (`ok`), whether the writer
`touched` the message while it was read, whether its id was loaded `early`, between
the stores of timestamp and id in `startMsg`. `misled` says that an id so loaded led the
reader beyond the end of its message.

**MsgIds** has a step for everything between two accesses to shared state, from
`msgIdInitialized` in the macro through the mutex of `allocateMsgId` to the write of
the descriptor and the message in the ring.

**MsgCounters** splits `|=`, `&=`, `++` and `memset` into loads and stores. `told` and
`since` remember what the last command should have achieved.

**BlockTimers**: `blocks` is the C++ stack, `subStack` is `threadSubFuncStack`;
`starts`, `ticks`, `own` measure, independently of the code's arithmetic, for how
long each self-timed block was the innermost one.

**Handles** has a step per section under `traceHandleMutex`, and one per access without
it. After a fork one of the two processes is followed, which of them is a choice:
they share no memory but the trace files, and a file is named by the process, the
thread and the call that made it, so storing into a file of the other process is
recognised. Closing, deleting and forking may come between any two steps of the other
threads, in the middle of a trace statement, of a profiled block and of the making of a
file too; only the rule of C++ is kept that nobody uses an object while it is
deleted. Where the code then runs into undefined behaviour or its own assertion the process
may die (`EndTrace`, `LeaveBlock`, `DeleteTwice`, `Abort`).

**TailStatus** takes a file as a number of messages and perhaps a half-written one, which
may be taken for older than complete ones of other levels (`torn`): how
a ring is read is the matter of `RingTail`, and the reader is assumed to keep up.
`StatusIs`, `ModWatchIs` and the three `On` actions are `Tail::statusIs`,
`watchForModificationsIs` and `Watch::process`; `OpenAgain`, `Activate`, `Skip`, `Find` are the
branches of `Tail::nextTsc`; `Pick`, `Dump`, `DumpOther`, `DumpNot`, `Idle` the loops of `tailOne` and
`tailMany` (`tails` tells which). Agents rename, create, resize, fill and abandon files, each
as a step of its own, and the kernel queues the events `qttail` has asked for.

**Merge** takes a message as its timestamp. `log` has the messages complete in a ring,
`writer` the one under way, which can be seen as a timestamp stored in part (`StoreSome`:
timestamps are not aligned), whole, and complete; how its bytes are read is the matter
of `RingTail`. `ScanLevel` is one pass of the inner loop of `Tail::nextTsc`, `ScanEnd` the end of
the outer one, which goes on until two rounds agree; `next` is `next_`. `Begin`, `AskNext`,
`Pick` are `tailMany`; `Populate`, `CatDump`, `Requeue` are `catMany` with its map of keys. Reader
and programs interleave between any two loads.

**MsgFormat** has no state. A byte in the ring is a cell: the number a reader may make
of it if it says how long something is, and the value it belongs to. The text of
a descriptor is a sequence of tokens (a character, `%%`, a `%` that begins nothing, a
conversion), its key a sequence of types with the number of `OPT` before each. `Stored`
is what `put` and `endMsg` write; `Formatters`, `Length`, `Format` are `init`, `length` and `format` of
`MessageFormatter`, the last with the state of `std::cout` (width, fixed, precision, flags).

**Messages** runs one statement at a time through `Execute` (id, is a descriptor due),
`Describe` and `Store`, in the order of the API; `QPROFF` stores first. `program.files` tells
whether a program has one file, one for each of two threads, or two handles one
after the other. `Dump`, `Retry`, `GiveUp`, `Stop` are what comes of `RingBuffer::next` and `dump` for
the message at hand: printed, not decodable yet, given up after
`corruptionThreshold_` tries, or `qttail` ended or led astray by a descriptor.

**SizeSpec** has a step for a pass of each loop: `AddAndLimit` and `Added` (`addAndLimitSizes`),
`ScaleDown` (`scaleDownSizes`, whose float factor may be off, see `Scaled`), `Map`
(`adjustSizeSpec`), `Place` (the constructor of `TraceFile`, where `addLevelSizes` adds up again).

**TraceFiles**: `fs` is the directory, a file for each name; a step is a system call of
`saveOldFiles` (`LookAtOld` ... `RenameOld`), `getfile` (`Create`, `CreateFails`) or `maybeBackupBuffer`
(`Backup`), and `Crash` can come between any two and loses all but `fs`. A ring of n KB
holds the last n messages, so that `BackupsHoldEverything` can say which are gone.
`Compress` is done by somebody else. `first`, `prev`, `bare`, `missed` are histories: the
first and the last file rotated, whether `.1.gz` was removed for nothing, and the
messages that a failed, short or overwritten copy did not keep.

## What the runs show

| Run | Bounds | Shows |
|---|---|---|
| `Ring` | ring of 10 usable cells and 5 of trailer, messages of 3 and 4 cells (5 and 6 with their ends), 9 trace statements, one id switched | completed messages stay readable; what `qttail -c` prints after a crash at any store |
| `RingTail` | 5 usable cells, 5 statements, no assumption on speed | no false line unless the message was overwritten under the reader; no repetition; the reader always finds back |
| `RingTailKeepsUp` | 10 usable cells, 4 statements, two kinds of message of 3 cells and one of 6, reader keeps up | data of every line exact, its text unless the id was loaded between the two stores of `startMsg`; the abstract log is implemented, with liveness, until such an id leads the reader too far |
| `MsgIds` | 2 threads, 3 statements, 2 handles, 2 ids (so they overflow) | every file can be read by itself; statements return |
| `MsgIdsHandles` | statements used with both handles | violated: see departure 1 |
| `BlockTimers` | depth 3, 4 blocks, 5 ticks, a block of each kind | self times are exact, never negative |
| `MsgCounters` | 3 messages on 2 counters, 3 hits, 2 commands, time of 1 bit | commands hold, counts are exact, but for what the properties except |
| `Handles` | 2 threads, 2 default handles one after the other, a plain one, 5 calls, closing at any moment | one writer per open file, tracing begins with open files only, no leak but files made too late, nothing of the parent's open in a child, all calls return |
| `Merge` | `qttail` on two files with two levels and 3 messages; `qttail -c` on two or three files with messages at 3 times, one level, the last perhaps incomplete | lines of a file in order, none passed over or repeated; printed files as one sorted sequence; every message shown |
| `Messages` | texts of up to 2 tokens with keys of up to 2 types, every short `QTFMT` text, pairs of statements with formats that reach beyond their value, all APIs with one file or two; up to 3 messages | a message finds its own descriptor; what is printed is what was put; which formats leak into other values; what can be printed is printed |
| `TraceFiles` | 2 levels, sizes too large for a level, 0, and too large together; 6 files created or messages traced; 3 backup names | rings fit the file; rotation keeps the first and the last file; messages in no backup are accounted for |
| `TailStatus` | `qttail` on one file or two, one with two messages and replaced once, the other deleted at most | no file is let go unread, opened twice or missed; the shared watch serves whoever awaits a file; when `qttail` ends or aborts |

A run has the name of its cfg, but for `Ring`, which is `QtCat.cfg`.

*Why these bounds are enough.* The invariants of the ring relate at most two laps:
the run reaches a third, so every cell is overwritten at least once by a message
of other length, and all offsets between the laps occur, as messages have two
coprime lengths. `RingTail` has a smaller ring, so that the reader can be
overtaken by a whole lap. Thresholds of 1 and 2 stand for the 1024 tries of the code:
`RingTail` is about a reader that gives up too early, `RingTailKeepsUp` (`Patient`)
about one that does not give up within a message. There, two messages of one length
and one of twice that length let an old id pass for a new one in both possible ways,
and both do occur: without their exceptions `LinesExact` and `ImplementsLog` are violated.
`MsgIds` has two threads at one
statement and an id counter that overflows after two ids; more is covered by the
proof. `Half = 2` in `MsgCounters` makes the time wrap into the off bit if nothing
masks it. The five calls of `Handles` suffice for initialize, a file for either
thread, close, initialize again, fork and the end of a thread in many of their orders.
`TailStatus` has two files because the watch is shared by a directory: one is awaited
while the other one is deleted; and two messages in a file, so that one under way can
hide a complete one. Agents wait before they cause an event that `qttail`
has still to read, as the queue would grow without end otherwise. In `Merge` the
smallest timestamp changes between two rounds when a message starts at a level
already passed, for which two levels and two messages suffice; the queue of
`catMany` needs three files for a place in the middle. `Torn = {1, 4}` are a part of a
timestamp that is smaller, and one that is larger, than all. `Messages` scales the
widths: a byte has `Base = 32` values for 256, `MaxString = 9` stands for `qtMaxStringLen`,
`LongString = 18` for `LONGSTRING_LIMIT`: as in the code, one string at its limit fits
into a message and two do not. Two tokens and two types give every order of text,
conversion and missing or surplus value. `MaxWork = 6` in `TraceFiles` allows four
rotations and a message, or a wrap, a backup, a crash and a backup under the same
index. `MaxLevel`, `MaxTotal`, `KB`, `Headers`, `Width` are the code's constants, small, with
their proportions but for `NumTraceLevels`; the proofs hold for all.

*Constants that are assumptions on the program.* `KeepsUp`: the writer does not
overwrite a message that is unread. `Patient`: it completes a message within the
reader's tries. `CompressAnyTime` false: saved files are not compressed during a rotation.
`BackupName`: backups have names of their own. `QtctlIds` empty, in the runs of
`RingTail`: nothing is switched off. `KeepsUp` and `Patient` are false in run `RingTail`. What
the code does without each of the others is told below.

*Deadlock* is not checked, as all systems here may stop: the trace statements are
bounded, and a program may trace no more.

## Fairness

`RingTail`: `qttail` polls for ever (its loop has no blocking call but a poll of 1 ms),
so its steps are weakly fair; the steps within a trace statement are weakly fair as
nothing blocks in them; *that* a program traces is not assumed. `Recovers` and the
liveness of `TraceLog` rest on that. `MsgIds`: each step of a thread inside a macro is
weakly fair; the mutex needs no strong fairness, since a thread that waits competes
with finitely many (a statement needs an id once). `Handles`: likewise weak fairness
of the steps inside calls and fork handlers; the number of calls is bounded, so
that nobody is kept from the mutex for ever. A program that kept taking the mutex
could starve a thread, as `std::mutex` promises no order. `TailStatus`: `qttail` is
weakly fair; what `Follows` needs of the agents is its antecedent. `Merge`: `qttail` is
weakly fair as in `RingTail`, and so is the end of a message once its timestamp was
taken, or else `nextTsc` could wait for it for ever; tracing is not. `Messages`: `Describe`
and `Store` are weakly fair (a statement returns); of `qttail` it is said that it goes on
while it has something to read that is not refused for good. `Spec` writes that
out with `MayGoOn` in place of an ENABLED that TLC would have to compute. Whether it
gives up is left open, so `Printed` speaks of a `qttail` that does not. `TraceFiles` has
no liveness: a program that crashes again and again never gets anywhere.

## What is proved

For every value of the constants that satisfies the named assumptions of the
module, checked by TLAPS:

* `RingProofs`, of the writer alone: `Spec => []IInv`, hence `TypeOK`, `LapReadable`, `OldLapReadable`,
  `Delimited`. `TypeOK` alone is not inductive: that `ptr` stays in the ring after a
  message needs `TrailerAssumption` *and* that a message starts below `BufEnd`
  (`Laid`); that `LapReadable` survives the next store needs that all of the lap lies
  below the writer (`Position`, `Laid`) and what is already stored of the message under
  way (`Partial`). `OldLapReadable` uses that messages lie back to back. The proof has a
  lemma per action; `StoreElsewhere` says that a store beside a message leaves it.
  Assumed: the trailer holds a longest message and a terminator (the code's constants
  make it so and nothing checks it).
* `MsgProofs`, of ids: `OneHandle /\ ~ WritesFail => (Spec => []IInv)`, hence `Readable`. The
  strengthening: the mutex excludes (`Exclusive`), ids are handed out once and below
  `nextMsgId` (`Distinct`), entries of files stand under their statement's id (`Filed`),
  described ids have descriptors. `OneHandle` is needed: `MsgIdsHandles` is the
  counterexample without it.
* `TraceFilesProofs`: `Spec => []SizeInv`, hence `RingsFit`. A sum is exact only below `Width`, so
  every loop's invariant says that *if* the true sum (`asked`, `got`) fits, the
  computed one equals it (`Summed`). That it fits follows from the limit on a level
  (`SizeAssumption`: the largest limited file is below 2 GB) or, for `resize`, from
  `Reasonable`. While scaling, the sum is related to the factor, with the float error
  of each product (`FloatError`, at most the total); hence the at most
  `NumTraceLevels` KB above the maximum. And `Apart => (Spec => []RotationKeeps)`. The
  strengthening `FileInv`: a file is there compressed or not, never both; the first
  file is the oldest or about to be (`FirstKept`), the last one the old one, or the
  oldest if there is none (`LastKept`); and what `access` found still holds at the
  later calls (`Looked`). `Apart` is needed for each of them: see the departures.
  `BackupsAreComplete` needs less, `NamesApart` (backups have names of their own). Its
  strengthening `BackupInv`: every lap before the current one is in a backup or
  excepted, and so is the current one when the writer stores into the next lap.
* `ThreadsProofs`, of timers: `TimersSpec => []TimersIInv`, hence `SelfExact`, `SelfWithinTotal`. The heart is
  `Accounts`: between the starts of two nested self timers lie the ticks of the outer
  one and what its stack element has collected.
* `MsgProofs`, of counters: `CountersSpec => []CountersIInv`, hence `CommandHolds`, `CountsExact`. What a process has
  loaded is still what the word holds, unless another one stored in between, which
  `since` and `told` record (`LoadedOff`, `LoadedCount`).
* `ThreadsProofs`, of handles: `SuffixesApart => (Spec => []HandlesInv)`, hence `OneWriter`,
  `FindsOpenFile`, `FilesAccounted`, `ForkCloses`, whatever is closed, deleted or forked while other
  threads trace, make files or end. `HandlesInv` is `IInv`, or the process has died (`Dead`).
  Where a thread is says what it holds (`Places`, `Locked`), one thread is in the sections of
  the mutex (`Alone`), nobody is in a call of a handle that is constructed, deleted or
  resized (`NobodyAlone`), a file is owned by who made it (`Owned`, `Fresh`), whatever is open
  can be reached, unless it is being made (`Accounted`, `Listed`), and the files that a closed
  handle still has were made too late (`late`). `SuffixesApart` is needed for `ForkCloses`,
  as the departures below show; nothing in the code checks it.
* `RingProofs`, of the reader: `MessageFits => (TailSpec => []TailIInv)`, hence `NoFalseLine`,
  `LinesInOrder`. Of the ring: a timestamp is in one place, and is followed by all
  of its message unless that is under way (`Single`, `Kept`); behind a length byte that is
  left from before comes another message (`Followed`), so that the terminator of a
  new message is what a reader finds there. Of the reader: what it has read is what is
  there, unless it was `touched` (`ReadsTrue`); a line that was printed is older than all
  that it will read (`Printed`). With a message as long as the ring TLC finds both
  properties violated; rings are multiples of 1 KB (QuickTrace.cpp:641), messages of
  at most 255 bytes, so `MessageFits` holds.

  With a reader that keeps up (`KeptUpWith`: `KeepsUp` and `Patient`, nothing switched off, a
  threshold of at least two) it also proves `KeepsUpInv`, hence `HoldsItsPlace`, `LinesExact`, and
  that every step maps to one of `TraceLog` or a stutter (`LogIsImplemented`: all of
  `ImplementsLog` but its fairness). Every interleaving of loads and stores is in it, the load
  of an id between the two stores of `startMsg` included: what the reader then has is a
  message of the old id at the new place, which ends where the new one ends, or it is
  `misled` and nothing is claimed of it any more. The reader stands behind message `k`
  (`AtPlace`): at its end, or at
  the start if that is in the trailer (`Passed`); the writer will overwrite nothing
  from there on (`Ahead`); what is chosen and being read is message `k + 1`, complete or
  under way (`Asked`, `Reads`). `k` grows by one when a line is printed, and never
  else after fastforward. That the reader does not give up, which is `reset`, needs
  the count of its tries (`Tries`): of those that fail while no trace statement
  runs there are at most two per message, one as the message or the start of the
  ring was read too early and one as the following message began after the poll. So a
  threshold of two is enough; the code's is 1024.
* `RingProofs`, of `qttail -c`: `MessageFits => (CatSpec => []CatIInv)`, hence `CatSuffix`,
  `CatComplete`, `CatRefusesOnlyTorn`, `BackWalkInStep`. Of the ring (`LapsHold`): laps have
  messages that follow one another in time and place (`Rising`, `Filled`, `InPlace`); of the
  old lap the length bytes beyond the writer are still there (`OldRemains`), which is
  all that the walk backwards needs; ones are stored beyond the usable area only
  (`OnesBeyond`), so a message and the message being written differ in what may follow
  them. A message being written passes for a whole one only by a length byte that was
  there before, and only at the end of the lap (`Passes`). Of the reader: `rewind` is at
  the end of a message of the new lap (`AtSplit`, `Walked`), then at one of the old lap
  beyond the split point (`AtBack`, `WentBack`); `AtDump` has a message from which on all
  are printed (`Oldest`, `Prints`), perhaps followed by the one under way (`PrintedTorn`),
  or else the reader hangs at the tail with nothing printed (`StuckAtTail`).
* `MergeProofs`: `Spec => []MergeIInv`, hence `LevelsInOrder`, and `Spec => []CatIInv`, hence
  `CatSorted`, without assumptions. The heart of the first is `Compared`, what a round
  knows of the timestamp that the round before found: it has found a smaller one, or
  will, or nothing older can come any more. So when two rounds agree either the oldest
  message was found, or a timestamp was read in part that is not the one that `tailBuffer`
  will read there (`Misread`), and nothing is printed. The second adds that the queue has
  a message of each file that has one (`Covered`), in order (`InOrder`), and each is the oldest
  of its file. That a set of numbers has a smallest one (`MinTail`) comes from
  `WFMin` of `WellFoundedInduction`.
* `TailStatusProofs`: `Spec => []StatusIInv`, hence `AwaitsModification`, `EndsRead`, `AbortsOnlyBehind`,
  `OldFileRead`, `OpensOnce`, without assumptions beyond those on the constants. The
  events that `qttail` was told of and has not gone through (`Pending`: those of the last
  read, then the queue) fit the directory: whatever is still to be heard of a name, the
  creation of the file that is there comes last (`ToldOfFile`), or else its deletion, unless
  that was heard already (`ToldOfDeletion`). So a file that is taken for deleted is, except
  while the event of its creation is among those being gone through (`TakenForDeleted`):
  when `qttail` is idle, what it has shown of such a file stays all there was. `Rounds` says
  which tails were asked in this round, and that those of deleted files have a message or
  let go; at the end of the loop after a message that could not be dumped (`DumpNot`, in
  `tailOne` only) the reader is behind all complete messages of its file, or took one under
  way for older than they are (`ReadOrHidden`). `OpenedLast`: a file
  opened after the event of its creation will not be awaited again.

* `MessagesProofs`: `HandlesApart => (Spec => []KnownIInv)`, hence `Known`, for any programs. `Means`
  says that an id of a file belongs to one statement: whoever has that id elsewhere got it
  from another handle (`GaveId` is the file in which a statement got the id that it keeps).
  Descriptors and messages bear such ids (`Entries`, `AllTraced`), and an id that was
  described, or that a statement kept from where it met its descriptor, has its
  descriptor there, or it is about to be written (`Filed`). `HandlesApart` says that no C++ program
  traces through two handles, which departure 1 shows to be needed.
* `FormatProofs`, of one message, without any state. `Printing`: for every text, every key without
  nested optionals, all values that it takes, any limit of a string and any state of
  `std::cout`, `format` reads exactly the bytes that were put, `length` says how many they
  are, and what is printed without layout is the text with each placeholder replaced by
  its value, or text and values apart. A walk of `init` over the first `k` tokens leaves
  formatters that read the first values up to where their bytes end (`Shown`), by
  induction over `k`; a value tells its own length by its flags and its length byte
  (`PutLength`, `LengthAt`), which holds for a string because a limit is below `Base`.
  `UnitsMean`: `QTFMT` makes of a text what its pieces mean, by induction from its end
  on, as the rest of a text is read without what stands before it. `FormatAlike`: how the items of a line are laid out does not
  depend on their bytes, if there are no strings or no widths.

  On that rests `MessagesProofs`, of what is printed: `HandlesApart => (Spec => []DecodeInv)`, hence
  `DecodesWhatWasPut`. The strengthening has three parts. `PutInv`, of the files: a message
  holds what its statement put (`Whole`), unless its file never met the statement (`Content`); for
  Python, the formats that are kept by id are the keys of their statements (`PyKeys`),
  which rests on `KnownIInv`. `ReaderInv`, of what `qttail` holds: its dictionary says of
  an id only what a descriptor of the file says, and knows only keys that can be
  formatted (`Understood`). `LineInv`: the line printed last is that of its message. A step
  of `dump` looks a message up (`DescribedAs`: by `KnownIInv` that is its statement) and formats it
  (`LineShown`, by `Printing`, `ExpectedIs` and, for the text, `TextMeant`). That a
  message is refused exactly if it does not fit is `AcceptsFits`: `length` is the
  number of bytes put, and the byte behind them is that number modulo `Base`.

  And `HandlesApart => (Spec => []SpecsInv)`, hence `SpecsUndone`: while every statement printed so far
  leaves no format behind, `std::cout` is as it was at first (`StreamInv`), and so the
  formats of the next line are seen in its values (`LayoutInv`, by `AnyBytes`). That is so
  whatever the bytes are, also of a message that is decoded as another statement's,
  or that is not printed, with failbit set.

  TLC found all these parts to hold on the instance of the run `Messages` before they were proved.

Only model-checked: liveness and fairness (`Recovers`, `TraceReturns`, `CallsReturn`, `Follows`,
`Shown`, `Printed`, that of `ImplementsLog`).

## Where the code departs from what it says

With a run that shows it:

1. `MsgIdsHandles`. A static id is shared by all handles, ids are allocated per handle:
   statements used with two handles collide in one file.

Met while modelling; the properties state what holds instead, and the runs find
them violated without their exception:

* qttail.cpp:381-383 says the first valid message may be missed. If one
  old message directly follows the terminator, *nothing* of the ring is printed:
  `rewind` ends with `cur_` at `tailPtr`, where `dump` reads ones (`CatComplete`).
* qttail.cpp:481-484 tells "incomplete" from "wrapped" by the timestamp at the
  start of the ring. A message that is off calls `maybeWrap` and stores none. The
  reader takes it for corruption, resets and misses the last message of the lap
  (`HoldsItsPlace` needs `QtctlIds` to be empty).
* `maybeCreateMtTraceFile` looks at `initialized_` before it takes the
  mutex: a closed handle gets a file, and its next `close` or destructor fails an assertion
  (`Abort`; `FilesAccounted` excepts files in `late`).
* A trace statement in flight undoes `qtctl off` (QuickTrace.cpp:781 stores what it
  loaded before). `CommandHolds` excepts exactly that overlap.
* `qttail` aborts, whatever other files it tails, if a file it opens again is gone
  (qttail.cpp:659): deleted since its modification was read, or just renamed by the
  next instance of the agent (`AbortsOnlyBehind`). It exits if the file is still
  empty (665-667), between the creation and the second `ftruncate` of `getfile`.
* A modification of a new file before `IN_MODIFY` is watched goes unnoticed:
  the file is followed at the next write of a descriptor only (`Follows` assumes
  more of them). Stores through the mapping make no event.
* A file that was opened before the event of its own creation was read is opened
  and printed a second time; `OpensOnce` excepts it.
* `qttail -c` may print a last message that the program was inside of, if it reaches
  into the trailer (487-489 accepts ones there). `CatSuffix` has it as `Torn`.
* After a crash inside a message of a wrapped ring, `rewind` may refuse the file as
  "changed while reading" (`CatRefusesOnlyTorn`: only then).
* The id of a message is stored after its timestamp: in between, the reader finds the
  old id there. It passes for the new one if both messages have the same length, or
  if the old one was longer and a later message ends where it ended: a false
  line is printed, however far the reader is from being overtaken. `LinesExact` excepts the
  text of a line whose id was loaded then (`early`), its data are right. In the second
  case the check behind the line notices it, `reset` loses the place, and the message
  in between is never printed: there `HoldsItsPlace`, `LinesExact` and `ImplementsLog` end
  (`misled`). Run `RingTailKeepsUp` has messages of both kinds.
* With a single file, `qttail` ends on its deletion as soon as a message cannot be dumped
  (qttail.cpp:1181, "all messages have been emitted"). One under way whose timestamp
  is stored in part can pass for older than complete messages of other levels, which
  are then never printed (`torn`, excepted in `EndsRead`).
* `finish` marks an id as described even if `write` failed (QuickTrace.cpp:211). The
  proof assumes `~ WritesFail`; `Known` excepts such descriptors (`Undescribed`).
* `catMany` ends `qttail` at a message that does not decode (`CatSorted`: what is older
  has been printed), `catOne` only ends the loop.
* `catMany` changes the key at the head of its queue in place (qttail.cpp:1047, "does not
  change order"): among equal timestamps it can, which does no harm.
* `resetCFormatSpec` (MessageFormatter.cpp:664, "undo the effects") leaves the precision
  set, and a width nothing used up: that of a string, which is written unformatted.
  It pads or rounds what comes next, the head of the next line included (`SpecsUndone`).
* The byte behind a message holds its length modulo 256, strings are limited one by
  one (QuickTrace.cpp:388-391): with two at the limit the message is refused (`Fits`).
* A Python value whose `str()` raises stores nothing (`_QuickTrace.cpp`:195-196
  promises an invalid value), and the message cannot be decoded (`Decodable`).
* A `WCQT` message without values is printed with the two numbers of its wall clock,
  which MessageFormatter.cpp:131-132 wants ignored. An optional of an optional can
  be traced, and ends `qttail` (`Stop`).
* Rotation unlinks `.1.gz` without knowing that a file takes its place
  (QuickTrace.cpp:299): after a start that failed, the next one removes the most recent
  file (`bare`), where README.md:313 promises to keep it.
* If somebody compresses a file between the calls of a rotation, `oldGz` is
  stale and the first or the last file is lost (`CompressAnyTime`). The rotation is said to
  use `link()` (README.md:309); it uses `rename`, and a default ring has 8 KB, not the 10 of
  README.md:271.
* A forever log with the path of the trace file itself, as in
  test/QtTailForeverLogTest.py:42, gives backups the names of saved files, and
  each overwrites the other (`BackupName <- MCSamePath` violates
  `BackupsHoldEverything`).
* A copy onto a longer file keeps that file's end, a short `sendfile` is taken for
  success, and after a restart the index begins where the program says: with 0,
  the backups of the last run are overwritten (`missed`).
* Nothing limits the sizes of `resize`: from 2 GB on the offsets of the rings overflow
  (`Reasonable`).
* QPROF blocks set no `lastTsc` (QuickTrace.cpp:803), README.md:204 counts them as
  messages. `qtclear` racing with `count++` loses the reset (`since = -1` in
  `CountsExact`), and it clears off bits too (qtclear.cpp:85). Messages that share a counter are
  switched together (qtctl.cpp:135).
* README.md:293 says a thread's file is created the first time the thread
  traces. It is created by `maybeCreateMtTraceFile` only.
* `initialize` in the child of a fork returns true though the handle is closed.
* Two handles of one suffix: the map (QuickTrace.cpp:1043-1047, "all the
  TraceHandles in the process") keeps the later one, a fork closes only that. The proof
  assumes that there are none, the run has none (but default handles, of which there is one
  at a time), so no property covers it.
* A thread that ends after its handle was closed deletes its `TraceFile` a second
  time (888-897, `DeleteTwice`); a trace statement or profiled block that is under way when
  its handle is closed, or a block that is left after a fork, uses a deleted one (799,
  `EndTrace`, `LeaveBlock`). The code leaves it to the program to avoid that, and so no
  property says that it cannot happen: the process of the model may die there.

## Not modelled

* The timestamp formatter: floating point and layout, no state of its own.
* Registration: hooks that do nothing unless replaced.
* Of the formatter: the digits of numbers, plugins for user types, a text that ends
  inside a conversion, and a `+` that takes part of a width.
* Of files: how the directory is found (`getQtDir`), what the files of threads are
  called, two processes that use one name, a forever log path with "null" in it
  (no backup is made), that a file's pages are touched one by one.
* Of ids: the unlocked allocation of single threaded handles in signal handlers.
* Of the tools: option parsing, regular expressions (`qtctl` picks any set of messages),
  `qtctl show`, which changes nothing.
* Memory orders weaker than program order, and the interior of library and kernel
  calls (`mmap`, `write`, `rename`, pthread keys), which are modelled as they are used.
* Build files and tests: the latter are a source of what the code promises.

## Plan

Done: `RingBuf`, `QtCat`, `RingTail` with `TraceLog`, `MsgIds`, `MsgCounters`, `BlockTimers`, `Handles`,
`TailStatus`, `Merge`, `MsgFormat` with `Messages`, `SizeSpec` with `TraceFiles`; proofs of all of
them, of every invariant and action property that a run checks.
