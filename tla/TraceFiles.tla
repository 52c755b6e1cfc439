----------------------------- MODULE TraceFiles -----------------------------
(***************************************************************************)
(* The trace files of a program that starts, stops, crashes and resizes    *)
(* its rings again and again: saveOldFiles and getfile, called by the      *)
(* constructor of TraceFile (QuickTrace.cpp 576-623), and                  *)
(* maybeBackupBuffer (307-373), which copies the file whenever a ring has  *)
(* wrapped, if the handle has a forever log.  A step is a system call, and *)
(* the program may crash between any two.  The sizes are those of SizeSpec *)
(* (a ring of n KB takes n messages before it wraps).  Somebody else       *)
(* compresses the files that were saved.                                   *)
(***************************************************************************)
EXTENDS SizeSpec, FiniteSets

CONSTANTS
    Sizes,            \* what constructors and resize are asked for
    BackupName,       \* foreverLogPath_ with an index: a function of 0 .. MaxIndex
    CompressAnyTime,  \* are files compressed also while others are being renamed
    MaxWork,          \* bound: files created and messages traced
    MaxIndex          \* bound of the index

Saved == {"qt", "1", "1.gz", "2", "2.gz"}
Backups == {BackupName[k] : k \in 0 .. MaxIndex}
Name == Saved \cup Backups

ASSUME FilesAssumption ==
    /\ Sizes \subseteq [Level -> Nat]
    /\ BackupName \in [0 .. MaxIndex -> STRING]
    /\ CompressAnyTime \in BOOLEAN
    /\ {MaxWork, MaxIndex} \subseteq Nat

VARIABLES
    fs,        \* the directory: what lies under a name
    pc,        \* what the program is doing
    rotate,    \* rotateLogFile
    oldGz,     \* old_is_gz
    level,     \* the level of the statement under way
    index,     \* foreverLogIndex_
    files,     \* history: the number of files created, and
    traced,    \* that of messages traced
    first,     \* history: the file that was rotated first, and
    prev,      \* the one that was last
    bare,      \* history: .1.gz was removed, and no file has taken its place
    missed     \* history: messages that were not, or are no longer, backed up

fileVars == <<fs, pc, rotate, oldGz, level, index, files, traced, first, prev, bare, missed>>
hist == <<files, traced, first, prev, bare, missed>>
vars == <<sizeVars, fileVars>>

(* A file: its number, what its rings can take and what was traced into them, *)
(* its length (at the most), and, of a backup, whether it is a copy.          *)
None == [gen |-> 0, cap |-> [l \in Level |-> 0], written |-> [l \in Level |-> 0],
         len |-> 0, copy |-> TRUE]
New == [gen |-> files + 1, cap |-> sizeSpec, written |-> [l \in Level |-> 0],
        len |-> mapped, copy |-> TRUE]
There(n) == fs[n].gen # 0

(* A ring holds its last messages. *)
Holds(f, l) == {k \in 1 .. f.written[l] : k > f.written[l] - f.cap[l]}
Messages(f) == UNION {{<<f.gen, l, k>> : k \in Holds(f, l)} : l \in Level}

(* No program: its variables are gone. *)
NoProgram == pc = "down" /\ rotate = TRUE /\ oldGz = FALSE /\ level = 0 /\ index = 0
Down == Forget /\ pc' = "down" /\ rotate' = TRUE /\ oldGz' = FALSE /\ level' = 0 /\ index' = 0

Init ==
    /\ SizeInit
    /\ NoProgram
    /\ fs = [n \in Name |-> None]
    /\ files = 0 /\ traced = 0 /\ first = 0 /\ prev = 0 /\ bare = FALSE
    /\ missed = {}

(***************************************************************************)
(* The constructor of a handle, and resize                                 *)
(***************************************************************************)

(* The index is the one the program gives: 0, or behind all there are. *)
Construct(spec, rot, from) ==
    /\ pc = "down" /\ files + traced < MaxWork
    /\ from \in 0 .. MaxIndex
    /\ from = 0 \/ \A k \in 0 .. MaxIndex : There(BackupName[k]) <=> k < from
    /\ Adjust(spec, TRUE)
    /\ pc' = "size" /\ rotate' = rot /\ index' = from
    /\ UNCHANGED <<fs, oldGz, level, hist>>

Resize(spec) ==
    /\ pc = "run" /\ files + traced < MaxWork
    /\ spec # sizeSpec
    /\ Adjust(spec, FALSE)
    /\ pc' = "size" /\ rotate' = TRUE
    /\ UNCHANGED <<fs, oldGz, level, index, hist>>

Size ==
    /\ pc \in {"size", "lay"}
    /\ AddAndLimit \/ Added \/ ScaleDown \/ ScaledDown \/ Map \/ Place
    /\ UNCHANGED fileVars

(***************************************************************************)
(* saveOldFiles                                                            *)
(***************************************************************************)
Keep ==
    /\ pc = "size" /\ step = "mapped" /\ ~rotate
    /\ pc' = "create"
    /\ UNCHANGED <<sizeVars, fs, rotate, oldGz, level, index, hist>>

LookAtOld ==
    /\ pc = "size" /\ step = "mapped" /\ rotate
    /\ oldGz' = There("1.gz")
    /\ pc' = "look"
    /\ UNCHANGED <<sizeVars, fs, rotate, level, index, hist>>

LookAtOldestGz ==
    /\ pc = "look"
    /\ pc' = IF There("2.gz") THEN "clear" ELSE "look again"
    /\ UNCHANGED <<sizeVars, fs, rotate, oldGz, level, index, hist>>

\* Mutant: the oldest file is overwritten.
LookAtOldestOverwrite ==
    /\ pc = "look again"
    /\ pc' = "oldest"
    /\ UNCHANGED <<sizeVars, fs, rotate, oldGz, level, index, hist>>

LookAtOldest ==
    /\ pc = "look again"
    /\ pc' = IF There("2") THEN "clear" ELSE "oldest"
    /\ UNCHANGED <<sizeVars, fs, rotate, oldGz, level, index, hist>>

Renamed(from, to) == IF There(from) THEN [fs EXCEPT ![to] = fs[from], ![from] = None] ELSE fs

RenameOldest ==
    /\ pc = "oldest"
    /\ fs' = IF oldGz THEN Renamed("1.gz", "2.gz") ELSE Renamed("1", "2")
    /\ pc' = "clear"
    /\ UNCHANGED <<sizeVars, rotate, oldGz, level, index, hist>>

UnlinkOld ==
    /\ pc = "clear"
    /\ fs' = IF oldGz THEN [fs EXCEPT !["1.gz"] = None] ELSE fs
    /\ bare' = (bare \/ oldGz)
    /\ pc' = "old"
    /\ UNCHANGED <<sizeVars, rotate, oldGz, level, index, files, traced, first, prev, missed>>

RenameOld ==
    /\ pc = "old"
    /\ fs' = Renamed("qt", "1")
    /\ IF There("qt") THEN /\ first' = IF first = 0 THEN fs["qt"].gen ELSE first
                           /\ prev' = fs["qt"].gen
                           /\ bare' = FALSE
                      ELSE UNCHANGED <<first, prev, bare>>
    /\ pc' = "create"
    /\ UNCHANGED <<sizeVars, rotate, oldGz, level, index, files, traced, missed>>

(***************************************************************************)
(* getfile and mmap                                                        *)
(***************************************************************************)
Create ==
    /\ pc = "create"
    /\ LayOut
    /\ fs' = [fs EXCEPT !["qt"] = New]
    /\ files' = files + 1
    /\ pc' = "lay"
    /\ UNCHANGED <<rotate, oldGz, level, index, traced, first, prev, bare, missed>>

Ready ==
    /\ pc = "lay"
    /\ Placed
    /\ pc' = "run"
    /\ UNCHANGED <<fs, rotate, oldGz, level, index, hist>>

(* open() fails; the filesystem is full; the file cannot be mapped.  There is *)
(* no tracing then until the next start.                                      *)
CreateFails(how) ==
    /\ pc = "create"
    /\ fs' = CASE how = "open" -> fs
               [] how = "full" -> [fs EXCEPT !["qt"] = None]
               [] how = "map"  -> [fs EXCEPT !["qt"] = New]
    /\ files' = IF how = "map" THEN files + 1 ELSE files
    /\ Down
    /\ UNCHANGED <<traced, first, prev, bare, missed>>

(***************************************************************************)
(* Messages                                                                *)
(***************************************************************************)
Full(l) == fs["qt"].written[l] # 0 /\ fs["qt"].written[l] % fs["qt"].cap[l] = 0

\* Mutant: the message is stored, then the file is copied.
StartMsgStoreFirst(l) ==
    /\ pc = "run" /\ files + traced < MaxWork
    /\ Full(l) => index <= MaxIndex
    /\ level' = l
    /\ fs' = [fs EXCEPT !["qt"].written[l] = IF Full(l) THEN @ + 1 ELSE @]
    /\ pc' = IF Full(l) THEN "backup" ELSE "store"
    /\ UNCHANGED <<sizeVars, rotate, oldGz, index, hist>>

(* maybeWrap.  The messages of the other levels are in the copy too. *)
StartMsg(l) ==
    /\ pc = "run" /\ files + traced < MaxWork
    /\ Full(l) => index <= MaxIndex
    /\ level' = l
    /\ pc' = IF Full(l) THEN "backup" ELSE "store"
    /\ UNCHANGED <<sizeVars, fs, rotate, oldGz, index, hist>>

(* It comes to nothing; sendfile fails, or copies a part without saying so; *)
(* the copy is whole, unless what was there before was longer.  The index   *)
(* goes on where sendfile reports no error.                                 *)
Backup(outcome) ==
    LET to == BackupName[index]
        this == fs["qt"]
        whole == outcome = "whole" /\ fs[to].len <= this.len
        longer == IF fs[to].len > this.len THEN fs[to].len ELSE this.len
    IN  /\ pc = "backup"
        /\ fs' = IF outcome = "none" THEN fs
                 ELSE [fs EXCEPT ![to] = [this EXCEPT !.copy = whole, !.len = longer]]
        /\ index' = IF outcome \in {"short", "whole"} THEN index + 1 ELSE index
        /\ missed' = missed \cup (IF outcome # "none" /\ fs[to].copy THEN Messages(fs[to]) ELSE {})
                            \cup (IF whole THEN {} ELSE Messages(this))
        /\ pc' = "store"
        /\ UNCHANGED <<sizeVars, rotate, oldGz, level, files, traced, first, prev, bare>>

Store ==
    /\ pc = "store"
    /\ fs' = [fs EXCEPT !["qt"].written[level] = @ + 1]
    /\ traced' = traced + 1
    /\ pc' = "run"
    /\ UNCHANGED <<sizeVars, rotate, oldGz, level, index, files, first, prev, bare, missed>>

(***************************************************************************)
(* A crash at any point, or the end; compression of saved files.           *)
(***************************************************************************)
Crash ==
    /\ pc # "down"
    /\ Down
    /\ UNCHANGED <<fs, hist>>

Compress(n, gz) ==
    /\ pc \in {"down", "run"} \/ CompressAnyTime
    /\ There(n) /\ ~There(gz)
    /\ fs' = Renamed(n, gz)
    /\ UNCHANGED <<sizeVars, pc, rotate, oldGz, level, index, hist>>

Next ==
    \/ \E spec \in Sizes, rot \in BOOLEAN, from \in 0 .. MaxIndex : Construct(spec, rot, from)
    \/ \E spec \in Sizes : Resize(spec)
    \/ Size \/ Keep \/ LookAtOld \/ LookAtOldestGz \/ LookAtOldest
    \/ RenameOldest \/ UnlinkOld \/ RenameOld \/ Create \/ Ready
    \/ \E how \in {"open", "full", "map"} : CreateFails(how)
    \/ \E l \in Level : StartMsg(l)
    \/ \E outcome \in {"none", "error", "short", "whole"} : Backup(outcome)
    \/ Store \/ Crash \/ Compress("1", "1.gz") \/ Compress("2", "2.gz")

Spec == Init /\ [][Next]_vars

(***************************************************************************)
(* Properties                                                              *)
(***************************************************************************)
Gens == {fs[n].gen : n \in Saved}

\* However often and wherever the program crashes, and whatever is compressed
\* meanwhile, the file that was rotated first is kept, and the one that was
\* rotated last, and there are at most three.  The last one is lost only when it
\* had been compressed: it is removed, whether or not a newer file comes to
\* take its place.
RotationKeeps ==
    /\ first # 0 => first \in Gens
    /\ prev # 0 => prev \in Gens \/ bare
    /\ Cardinality({n \in Saved : There(n)}) <= 3

\* Every message of every file that is still there is in the file or in a
\* backup, in spite of wraps, crashes and resizing, except for those that were
\* in no other place when a backup failed, fell short, was stored over a longer
\* file, or was stored over theirs.
BackupsHoldEverything ==
    \A n \in Saved, l \in Level : \A k \in 1 .. fs[n].written[l] :
        \/ k \in Holds(fs[n], l)
        \/ \E b \in Backups : /\ fs[b].gen = fs[n].gen /\ fs[b].copy
                              /\ k \in Holds(fs[b], l)
        \/ <<fs[n].gen, l, k>> \in missed

File == [gen : Nat, cap : [Level -> Nat], written : [Level -> Nat], len : Nat, copy : BOOLEAN]

FileTypes ==
    /\ fs \in [Name -> File]
    /\ level \in Level /\ index \in Nat /\ oldGz \in BOOLEAN
    /\ pc = "backup" => index <= MaxIndex
    /\ {files, first, prev} \subseteq Nat
    /\ bare \in BOOLEAN

=============================================================================
