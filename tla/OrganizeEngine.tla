--------------------------- MODULE OrganizeEngine ---------------------------
(***************************************************************************)
(* The organize engine and its undo queue: core/organize_engine.cpp,       *)
(* core/organize_engine_undo.cpp and the UPDATE of                         *)
(* core/database_file_state.cpp they end in.                               *)
(*                                                                         *)
(* State: the disk (which content lies at which path), the rows of the     *)
(* files table, the undo_queue table, and for every process that has the   *)
(* library open (a CLI command, the GUI, a test) where it is in            *)
(* organizeFile() or undoAll().  A process can be interrupted between any  *)
(* two file or database operations, by another process or by a crash.      *)
(*                                                                         *)
(* What returns early without touching disk or database is no action: an   *)
(* unknown id, a rejected destination, a destination equal to the source,  *)
(* a skipped collision, a dry run.                                         *)
(***************************************************************************)
EXTENDS Naturals, Sequences, FiniteSets

CONSTANTS
    Proc,        \* processes that have the library open
    FileId,      \* ids of the rows of files
    Packed,      \* the rows that are members of an archive
    Path,        \* absolute paths
    NoPath,      \* SQL NULL where a path could stand
    Content,     \* what a file can contain
    NoFile,      \* nothing at this path
    Disk0,       \* the disk before the first command
    Home,        \* where each row's file was scanned
    Targets,     \* the paths the template can give each row
    Suffixed,    \* <<base_1.ext, base_2.ext, ...>> of a path
    Stash,       \* the .NAME.remus_backup_MS names of a path
    Stage,       \* the .NAME.remus_copy_MS names of a path
    Foreign,     \* contents other programs may put on the disk
    Ops,         \* FileOperation values asked for
    Strategies,  \* CollisionStrategy values set
    Undoes,      \* forms of undo asked for
    Gaps,        \* seconds CURRENT_TIMESTAMP may advance between two INSERTs
    MaxOps,      \* bound on undo_queue
    MaxFaults,   \* bound on operations that fail though they could succeed
    MaxCrashes   \* bound on crashes

ASSUME FilesAssumption ==
    /\ FileId \subseteq Nat \ {0}
    /\ Packed \subseteq FileId
    /\ Home \in [FileId -> Path]
    /\ Targets \in [FileId -> SUBSET Path]
    /\ NoPath \notin Path

ASSUME DiskAssumption ==
    /\ NoFile \notin Content
    /\ Foreign \subseteq Content
    /\ Disk0 \in [Path -> Content \cup {NoFile}]
    /\ \A f \in FileId : Disk0[Home[f]] # NoFile
    /\ \A q, r \in Path : Disk0[q] = Disk0[r] /\ Disk0[q] # NoFile => q = r

ASSUME NamesAssumption ==
    /\ Suffixed \in [Path -> Seq(Path)]
    /\ Stash \in [Path -> SUBSET Path]
    /\ Stage \in [Path -> SUBSET Path]

ASSUME OptionsAssumption ==
    /\ Ops \subseteq {"move", "copy"}
    /\ Strategies \subseteq {"skip", "rename", "overwrite", "ask"}
    /\ Undoes \subseteq {"all", "last", "one"}
    /\ Gaps \subseteq Nat
    /\ MaxOps \in Nat
    /\ MaxFaults \in Nat
    /\ MaxCrashes \in Nat

VARIABLES
    disk,    \* what lies at each path
    files,   \* rows of files: current_path, filename, archive_path
    undo,    \* rows of undo_queue, by id
    clock,   \* the last CURRENT_TIMESTAMP
    pc,      \* the next step of each process
    job,     \* the locals of each process
    todo,    \* undoAll: the ids selected and not yet tried
    faults,  \* operations that failed though they could have succeeded
    crashes  \* crashes so far

vars == <<disk, files, undo, clock, pc, job, todo, faults, crashes>>

-----------------------------------------------------------------------------
Row == [path : Path, name : Path, archive : Path \cup {NoPath}]

(* holds is no column: it remembers which content the operation put in     *)
(* place, so that an undo can be judged by it.  No action reads it.        *)
Entry == [op : {"move", "copy"}, old : Path, new : Path,
          file : FileId \cup {0}, at : Nat, undone : BOOLEAN,
          holds : Content \cup {NoFile}]

Job == [file : FileId \cup {0}, op : {"move", "copy"},
        old : Path \cup {NoPath}, new : Path \cup {NoPath},
        over : BOOLEAN, backup : Path \cup {NoPath},
        staged : Path \cup {NoPath}, row : FileId \cup {0}, entry : Nat]

JobFor(f, op, old, new, over, i) ==
    [file |-> f, op |-> op, old |-> old, new |-> new, over |-> over,
     backup |-> NoPath, staged |-> NoPath, row |-> 0, entry |-> i]

NoJob == JobFor(0, "move", NoPath, NoPath, FALSE, 0)

Steps == {"stage", "exec", "copyover", "swapin", "drop", "restore", "find",
          "record", "save", "undo", "unfs", "unrow", "unmark"}

Init ==
    /\ disk = Disk0
    /\ files = [f \in FileId |->
                  [path |-> Home[f], name |-> Home[f],
                   archive |-> IF f \in Packed THEN Home[f] ELSE NoPath]]
    /\ undo = <<>>
    /\ clock = 0
    /\ pc = [p \in Proc |-> "idle"]
    /\ job = [p \in Proc |-> NoJob]
    /\ todo = [p \in Proc |-> {}]
    /\ faults = 0
    /\ crashes = 0

-----------------------------------------------------------------------------
(* The file operations of Qt the engine uses.  QFile::rename never         *)
(* replaces its target; nor does QFile::copy.                              *)

Exists(q) == disk[q] # NoFile

CanRename(q, r) == Exists(q) /\ ~Exists(r)

Renamed(q, r) == [disk EXCEPT ![r] = disk[q], ![q] = NoFile]

Copied(q, r) == [disk EXCEPT ![r] = disk[q]]

Removed(q) == [disk EXCEPT ![q] = NoFile]

(* An operation that could succeed may still fail (I/O error, permission,  *)
(* a symlink refused, a database that is locked): done says whether it     *)
(* went through.                                                           *)
Attempt(can, done) ==
    \/ can /\ done /\ UNCHANGED faults
    \/ ~can /\ ~done /\ UNCHANGED faults
    \/ can /\ ~done /\ faults < MaxFaults /\ faults' = faults + 1

Goto(p, step) == pc' = [pc EXCEPT ![p] = step]

Finish(p) == Goto(p, "idle") /\ job' = [job EXCEPT ![p] = NoJob]

-----------------------------------------------------------------------------
(* organizeFile                                                            *)

(* The first free of base_1.ext, base_2.ext, ...                           *)
FreeSuffixes(t) == {k \in DOMAIN Suffixed[t] : ~Exists(Suffixed[t][k])}

resolveCollision(t) ==
    Suffixed[t][CHOOSE k \in FreeSuffixes(t) : \A j \in FreeSuffixes(t) : k <= j]

wouldCollide(t) == Exists(t)

(* The template and the disc-set subfolder; the path the row has already   *)
(* is an early return.                                                     *)
generateDestinationPath(f) == Targets[f] \ {files[f].path}

Destination(t, s) ==
    IF wouldCollide(t) /\ s = "rename" THEN resolveCollision(t) ELSE t

(* getFileById, generateDestinationPath and the collision handling.        *)
BeginFile(p, f, op, s, t) ==
    LET over == wouldCollide(t) /\ s = "overwrite"
    IN /\ ~(wouldCollide(t) /\ s = "skip")
       /\ wouldCollide(t) /\ s = "rename" => FreeSuffixes(t) # {}
       /\ job' = [job EXCEPT ![p] =
                    JobFor(f, op, files[f].path, Destination(t, s), over, 0)]
       /\ Goto(p, IF over THEN "stage" ELSE "exec")

Begin(p) ==
    /\ pc[p] = "idle"
    /\ Len(undo) < MaxOps
    /\ \E f \in FileId, op \in Ops, s \in Strategies :
         \E t \in generateDestinationPath(f) : BeginFile(p, f, op, s, t)
    /\ UNCHANGED <<disk, files, undo, clock, todo, faults, crashes>>

(* Mutant: the file in the way is deleted instead of set aside.            *)
AsideByRemoval(q, b) == Removed(q)

Aside(q, b) == Renamed(q, b)

(* Overwrite: the file in the way is renamed to a backup name first.       *)
StageBackup(p) ==
    /\ pc[p] = "stage"
    /\ \E b \in Stash[job[p].new], done \in BOOLEAN :
         /\ Attempt(CanRename(job[p].new, b), done)
         /\ IF done
            THEN /\ disk' = Aside(job[p].new, b)
                 /\ job' = [job EXCEPT ![p].backup = b]
                 /\ Goto(p, IF job[p].op = "copy" THEN "copyover" ELSE "exec")
            ELSE Finish(p) /\ UNCHANGED disk
    /\ UNCHANGED <<files, undo, clock, todo, crashes>>

(* Mutant: the backup is never removed.                                    *)
AfterSuccessUndropped(p) == "find"

AfterSuccess(p) == IF job[p].over THEN "drop" ELSE "find"

(* Mutant: Move handled like Copy.                                         *)
PerformedByCopy(p) == Copied(job[p].old, job[p].new)

Performed(p) == IF job[p].op = "move" THEN Renamed(job[p].old, job[p].new)
                                      ELSE Copied(job[p].old, job[p].new)

(* Mutant: a failed overwrite returns without restoring the backup.        *)
AfterFailureForgotten(p) == "idle"

AfterFailure(p) == IF job[p].over THEN "restore" ELSE "idle"

executeOperation(p) ==
    /\ pc[p] = "exec"
    /\ \E done \in BOOLEAN :
         /\ Attempt(CanRename(job[p].old, job[p].new), done)
         /\ IF done
            THEN /\ disk' = Performed(p)
                 /\ Goto(p, AfterSuccess(p))
                 /\ UNCHANGED job
            ELSE /\ UNCHANGED disk
                 /\ Goto(p, AfterFailure(p))
                 /\ job' = IF job[p].over THEN job ELSE [job EXCEPT ![p] = NoJob]
    /\ UNCHANGED <<files, undo, clock, todo, crashes>>

(* Overwrite by copy: the copy is made under a staging name ...            *)
CopyOver(p) ==
    /\ pc[p] = "copyover"
    /\ \E s \in Stage[job[p].new], done \in BOOLEAN :
         /\ Attempt(CanRename(job[p].old, s), done)
         /\ job' = [job EXCEPT ![p].staged = s]
         /\ IF done
            THEN disk' = Copied(job[p].old, s) /\ Goto(p, "swapin")
            ELSE disk' = Removed(s) /\ Goto(p, "restore")
    /\ UNCHANGED <<files, undo, clock, todo, crashes>>

(* ... and renamed into place; what is staged is removed on failure.       *)
SwapIn(p) ==
    /\ pc[p] = "swapin"
    /\ \E done \in BOOLEAN :
         /\ Attempt(CanRename(job[p].staged, job[p].new), done)
         /\ IF done
            THEN disk' = Renamed(job[p].staged, job[p].new) /\ Goto(p, AfterSuccess(p))
            ELSE disk' = Removed(job[p].staged) /\ Goto(p, "restore")
    /\ UNCHANGED <<files, undo, clock, job, todo, crashes>>

(* The backup goes once the new file is in place; a failure is ignored.    *)
DropBackup(p) ==
    /\ pc[p] = "drop"
    /\ \E done \in BOOLEAN :
         /\ Attempt(Exists(job[p].backup), done)
         /\ disk' = IF done THEN Removed(job[p].backup) ELSE disk
    /\ Goto(p, "find")
    /\ UNCHANGED <<files, undo, clock, job, todo, crashes>>

(* restoreBackupPath: whatever took the destination meanwhile is removed,  *)
(* and the backup renamed back.                                            *)
RestoreBackup(p) ==
    /\ pc[p] = "restore"
    /\ Finish(p)
    /\ LET b == job[p].backup
           d == job[p].new
       IN \/ Exists(b) /\ UNCHANGED faults
             /\ disk' = [Removed(b) EXCEPT ![d] = disk[b]]
          \/ ~Exists(b) /\ UNCHANGED <<disk, faults>>
          \/ /\ Exists(b) /\ faults < MaxFaults /\ faults' = faults + 1
             /\ disk' \in {disk, Removed(d)}
    /\ UNCHANGED <<files, undo, clock, todo, crashes>>

(* Mutant: the row is looked up by the path it was scanned at.             *)
RowsAtOriginal(q) == {f \in FileId : Home[f] = q}

(* The row the undo entry names is the first one found at the old path.    *)
RowsAt(q) == {f \in FileId : files[f].path = q}

RowAt(q) == IF RowsAt(q) = {} THEN 0
            ELSE CHOOSE f \in RowsAt(q) : \A g \in RowsAt(q) : f <= g

(* recordUndo, the SELECT: when it fails the entry names no row.           *)
FindRow(p) ==
    /\ pc[p] = "find"
    /\ \E done \in BOOLEAN :
         /\ Attempt(TRUE, done)
         /\ job' = [job EXCEPT ![p].row = IF done THEN RowAt(job[p].old) ELSE 0]
    /\ Goto(p, "record")
    /\ UNCHANGED <<disk, files, undo, clock, todo, crashes>>

NewEntry(p, t) ==
    [op |-> job[p].op, old |-> job[p].old, new |-> job[p].new,
     file |-> job[p].row, at |-> t, undone |-> FALSE, holds |-> disk[job[p].new]]

(* Mutant: a file that has an entry to undo gets no second one.            *)
InsertedOnce(p, t) ==
    IF \E i \in DOMAIN undo : undo[i].file = job[p].file /\ ~undo[i].undone
    THEN undo ELSE Append(undo, NewEntry(p, t))

Inserted(p, t) == Append(undo, NewEntry(p, t))

(* recordUndo, the INSERT: a failed one gives -1, which the caller ignores.*)
recordUndo(p) ==
    /\ pc[p] = "record"
    /\ \E done \in BOOLEAN :
         /\ Attempt(TRUE, done)
         /\ IF done
            THEN \E gap \in Gaps :
                   /\ clock' = clock + gap
                   /\ undo' = Inserted(p, clock + gap)
            ELSE UNCHANGED <<undo, clock>>
    /\ Goto(p, "save")
    /\ UNCHANGED <<disk, files, job, todo, crashes>>

(* Mutant: archive_path keeps naming the place the archive has left.       *)
AtPathKeepingArchive(f, q) == [files[f] EXCEPT !.path = q, !.name = q]

(* Mutant: a loose row takes its archive_path too.                         *)
AtPathOfArchive(f, q) == [files[f] EXCEPT !.path = files[f].archive]

(* The row as organizeFile and undoOperation write it back.  The columns   *)
(* of the snapshot that are not kept here are written unchanged.           *)
AtPath(f, q) ==
    IF files[f].archive # NoPath
    THEN [files[f] EXCEPT !.path = q, !.archive = q]
    ELSE [files[f] EXCEPT !.path = q, !.name = q]

(* updateFileStorageState: its result is ignored too.                      *)
SaveRow(p) ==
    /\ pc[p] = "save"
    /\ \E done \in BOOLEAN :
         /\ Attempt(TRUE, done)
         /\ files' = IF done
                     THEN [files EXCEPT ![job[p].file] =
                                          AtPath(job[p].file, job[p].new)]
                     ELSE files
    /\ Finish(p)
    /\ UNCHANGED <<disk, undo, clock, todo, crashes>>

-----------------------------------------------------------------------------
(* undoAll and undoOperation                                               *)

Live == {i \in DOMAIN undo : ~undo[i].undone}

(* Mutant: ORDER BY executed_at without DESC.                              *)
Earliest(S) == {i \in S : \A j \in S : undo[j].at >= undo[i].at}

Latest(S) == {i \in S : \A j \in S : undo[j].at <= undo[i].at}

(* SELECT id ... WHERE undone = 0 ORDER BY executed_at DESC [LIMIT 1], or  *)
(* undoOperation called with an id.  Rows of one second come in any order: *)
(* todo is a set, and UndoNext takes any of the latest.                    *)
undoAll(p) ==
    /\ pc[p] = "idle"
    /\ \E S \in (IF "all" \in Undoes THEN {Live} ELSE {})
                \cup (IF "last" \in Undoes THEN {{i} : i \in Latest(Live)} ELSE {})
                \cup (IF "one" \in Undoes THEN {{i} : i \in DOMAIN undo} ELSE {}) :
         /\ S # {}
         /\ todo' = [todo EXCEPT ![p] = S]
    /\ Goto(p, "undo")
    /\ UNCHANGED <<disk, files, undo, clock, job, faults, crashes>>

(* Mutant: undoAll stops after its first entry.                            *)
DropAll(p, i) ==
    /\ todo' = [todo EXCEPT ![p] = {}]
    /\ job' = [job EXCEPT ![p] = NoJob]
    /\ Goto(p, "idle")

(* The next id; undoAll goes on after an entry that could not be undone.   *)
Drop(p, i) ==
    /\ todo' = [todo EXCEPT ![p] = @ \ {i}]
    /\ job' = [job EXCEPT ![p] = NoJob]
    /\ Goto(p, IF todo[p] \ {i} = {} THEN "idle" ELSE "undo")

UndoNext(p) ==
    /\ pc[p] = "undo"
    /\ \E i \in Latest(todo[p]) :
         IF undo[i].undone
         THEN Drop(p, i)
         ELSE /\ job' = [job EXCEPT ![p] =
                   JobFor(undo[i].file, undo[i].op, undo[i].old, undo[i].new, FALSE, i)]
              /\ Goto(p, "unfs")
              /\ UNCHANGED todo
    /\ UNCHANGED <<disk, files, undo, clock, faults, crashes>>

(* Mutant: a file that took the old place is replaced.                     *)
CanUndoByForce(p) == Exists(job[p].new)

CanUndo(p) == IF job[p].op = "move" THEN CanRename(job[p].new, job[p].old)
                                    ELSE Exists(job[p].new)

(* Move: rename back.  Copy: remove whatever is at the new path now.       *)
UndoFile(p) ==
    /\ pc[p] = "unfs"
    /\ \E done \in BOOLEAN :
         /\ Attempt(CanUndo(p), done)
         /\ IF done
            THEN /\ disk' = IF job[p].op = "move"
                            THEN Renamed(job[p].new, job[p].old)
                            ELSE Removed(job[p].new)
                 /\ Goto(p, IF job[p].file > 0 THEN "unrow" ELSE "unmark")
                 /\ UNCHANGED <<job, todo>>
            ELSE Drop(p, job[p].entry) /\ UNCHANGED disk
    /\ UNCHANGED <<files, undo, clock, crashes>>

(* getFileById and updateFileStorageState on the entry's row.              *)
UndoRow(p) ==
    /\ pc[p] = "unrow"
    /\ \E done \in BOOLEAN :
         /\ Attempt(TRUE, done)
         /\ files' = IF done
                     THEN [files EXCEPT ![job[p].file] =
                                          AtPath(job[p].file, job[p].old)]
                     ELSE files
    /\ Goto(p, "unmark")
    /\ UNCHANGED <<disk, undo, clock, job, todo, crashes>>

(* UPDATE undo_queue SET undone = 1                                        *)
UndoMark(p) ==
    /\ pc[p] = "unmark"
    /\ \E done \in BOOLEAN :
         /\ Attempt(TRUE, done)
         /\ undo' = IF done
                    THEN [undo EXCEPT ![job[p].entry].undone = TRUE]
                    ELSE undo
    /\ Drop(p, job[p].entry)
    /\ UNCHANGED <<disk, files, clock, crashes>>

-----------------------------------------------------------------------------
(* The environment                                                         *)

(* The process dies, or its machine does: its locals are gone.             *)
Crash(p) ==
    /\ pc[p] # "idle"
    /\ crashes < MaxCrashes
    /\ crashes' = crashes + 1
    /\ Finish(p)
    /\ todo' = [todo EXCEPT ![p] = {}]
    /\ UNCHANGED <<disk, files, undo, clock, faults>>

(* Another program puts a file where there was none.                       *)
Arrive(c, q) ==
    /\ ~Exists(q)
    /\ \A r \in Path : disk[r] # c
    /\ disk' = [disk EXCEPT ![q] = c]
    /\ UNCHANGED <<files, undo, clock, pc, job, todo, faults, crashes>>

Organize(p) ==
    \/ StageBackup(p) \/ executeOperation(p) \/ CopyOver(p) \/ SwapIn(p)
    \/ DropBackup(p) \/ RestoreBackup(p) \/ FindRow(p) \/ recordUndo(p) \/ SaveRow(p)

UndoStep(p) == UndoNext(p) \/ UndoFile(p) \/ UndoRow(p) \/ UndoMark(p)

Next ==
    \/ \E p \in Proc : Begin(p) \/ undoAll(p) \/ Organize(p) \/ UndoStep(p) \/ Crash(p)
    \/ \E c \in Foreign, q \in Path : Arrive(c, q)

Spec == Init /\ [][Next]_vars

(* A command that has started runs on to its end.                          *)
FairSpec == Spec /\ \A p \in Proc : WF_vars(Organize(p) \/ UndoStep(p))
-----------------------------------------------------------------------------
TypeOK ==
    /\ disk \in [Path -> Content \cup {NoFile}]
    /\ files \in [FileId -> Row]
    /\ undo \in Seq(Entry)
    /\ clock \in Nat
    /\ pc \in [Proc -> Steps \cup {"idle"}]
    /\ job \in [Proc -> Job]
    /\ todo \in [Proc -> SUBSET Nat]
    /\ faults \in 0 .. MaxFaults
    /\ crashes \in 0 .. MaxCrashes

Quiet == \A p \in Proc : pc[p] = "idle"

OnDisk(c) == \E q \in Path : disk[q] = c

(* No interleaving of moves, undos, failures and crashes destroys a file:  *)
(* what is on the disk stays on the disk, under some name.                 *)
MovesKeepEveryFile == [][\A c \in Content : OnDisk(c) => OnDisk(c)']_vars

(* ... and none of them leaves a file on the disk twice.                   *)
OneCopyEach ==
    \A q, r \in Path : disk[q] = disk[r] /\ disk[q] # NoFile => q = r

(* Files of the library that are not where they were scanned, nor where    *)
(* some undo entry has them, nor in the hands of a process that is about   *)
(* to record them.                                                         *)
Unlogged ==
    {q \in Path :
        /\ disk[q] \notin Foreign \cup {NoFile} /\ disk[q] # Disk0[q]
        /\ \A i \in DOMAIN undo : q \notin {undo[i].old, undo[i].new}
        /\ \A p \in Proc : pc[p] \in {"find", "record"} => job[p].new # q}

(* Nothing is moved behind the undo queue's back (the engine's "undo queue *)
(* with database tracking"): every operation that fails, and every process *)
(* that dies, costs the queue one file at the most, whatever the others do *)
(* with what it left.                                                      *)
EveryMoveIsLogged == Cardinality(Unlogged) <= faults + crashes

(* Between commands every row names the place its file lies at, and a      *)
(* member of an archive has the archive's path in both columns.            *)
RowsFollowFiles ==
    Quiet => \A f \in FileId :
        /\ disk[files[f].path] = Disk0[Home[f]]
        /\ files[f].path = IF f \in Packed THEN files[f].archive ELSE files[f].name

(* When every entry has been undone the disk and the rows are as they were *)
(* before the first organize.                                              *)
UndoAllRestores ==
    Quiet /\ Live = {} =>
        disk = Disk0 /\ \A f \in FileId : files[f].path = Home[f]

(* undoAll over the whole queue gets every entry undone.                   *)
UndoAllSucceeds ==
    \A p \in Proc : (pc[p] = "undo" /\ todo[p] = Live) ~> (Live = {})

(* "Undo all operations in reverse order" (organize_engine.h): an entry is *)
(* undone when no later one of the same call is left.                      *)
ReverseOrder ==
    \A p \in Proc : pc[p] = "unfs" => \A i \in todo[p] : i <= job[p].entry

-----------------------------------------------------------------------------
(* Overwriting.  What another program would call the state of the library: *)
(* a file set aside still counts as being at its place, a staged copy does *)
(* not count yet.                                                          *)

Temporary == UNION {Stash[q] \cup Stage[q] : q \in Path}

SetAside(p) == job[p].over /\ pc[p] \in {"exec", "copyover", "swapin", "restore"}

Visible == [q \in Path |->
    IF \E p \in Proc : SetAside(p) /\ job[p].new = q
    THEN disk[job[CHOOSE p \in Proc : SetAside(p) /\ job[p].new = q].backup]
    ELSE IF q \in Temporary THEN NoFile ELSE disk[q]]

(* Overwriting is all or nothing: a step of one process on a library of    *)
(* its own leaves what is visible alone, or performs the whole move, copy  *)
(* or undo, unless the process dies or the restoring itself fails.         *)
OverwriteIsAtomic ==
    [][\/ Visible' = Visible
       \/ \E q, r \in Path : q # r /\ Visible[q] # NoFile /\ Visible' \in
             {[Visible EXCEPT ![r] = Visible[q], ![q] = NoFile],
              [Visible EXCEPT ![r] = Visible[q]]}
       \/ \E p \in Proc : pc[p] = "unfs" /\ job[p].op = "copy"
             /\ Visible' = [Visible EXCEPT ![job[p].new] = NoFile]
       \/ \E p \in Proc : pc[p] = "restore" /\ faults' > faults
       \/ crashes' > crashes]_<<disk, pc>>

(* By the log another file lies at the place of entry i: a later operation *)
(* put it there and is not undone, or it was moved from there and is back. *)
TakenOver(i) ==
    \E j \in DOMAIN undo :
        \/ j > i /\ undo[j].new = undo[i].new /\ ~undo[j].undone
        \/ undo[j].op = "move" /\ undo[j].old = undo[i].new /\ undo[j].undone

(* What undoing a copy deletes is the content that was copied, unless by   *)
(* the log another file has its place.  An operation that failed or a      *)
(* process that died may be missing in the log.                            *)
TakesBackItsCopy(p) ==
    \/ disk[job[p].new] = undo[job[p].entry].holds
    \/ TakenOver(job[p].entry)
    \/ faults + crashes > 0

(* Even then a content leaves the disk in two cases only: it was replaced  *)
(* and the new file is already in its place; or it was copied, lies on the *)
(* disk only as that copy by now, and the copy is undone.  A third way,    *)
(* undoing a copy whose place another file has, is open by the log alone;  *)
(* UndoneCopyIsTheCopied is about it.                                      *)
OnlyTheReplacedIsLost ==
    [][\A c \in Content : OnDisk(c) /\ ~OnDisk(c)' =>
         \E p \in Proc :
            \/ pc[p] = "drop" /\ disk[job[p].backup] = c /\ Exists(job[p].new)
            \/ pc[p] = "unfs" /\ job[p].op = "copy" /\ disk[job[p].new] = c
               /\ TakesBackItsCopy(p)]_vars

(* Rolling an operation back ("undo_queue table for file operation         *)
(* rollback", database_schema.cpp) takes back what it did: a copy that is  *)
(* about to be undone is removed, not another file in its place.           *)
UndoneCopyIsTheCopied ==
    \A p \in Proc :
        pc[p] = "unfs" /\ job[p].op = "copy" /\ Exists(job[p].new)
        => disk[job[p].new] = undo[job[p].entry].holds

(* Backups and staged copies are gone when a command has ended, unless an  *)
(* operation failed or a process died.                                     *)
NothingLeftBehind ==
    Quiet /\ faults + crashes = 0 => \A q \in Temporary : ~Exists(q)
=============================================================================
