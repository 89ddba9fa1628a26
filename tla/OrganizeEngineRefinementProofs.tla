------------------- MODULE OrganizeEngineRefinementProofs -------------------
(***************************************************************************)
(* OrganizeEngine implements UndoLog: one process that moves, on a disk no *)
(* other program writes, with entries of distinct seconds and operations   *)
(* that neither fail nor are interrupted (Solo).  Any number of files,     *)
(* targets, paths and entries; the disk may hold files no row knows.       *)
(* The proof carries UndoLog's own invariant (IInv of UndoLogProofs): that *)
(* the place an entry came from is free when its turn comes, and that the  *)
(* file lies where the entry put it, is known of the abstract log only.    *)
(***************************************************************************)
EXTENDS OrganizeEngineProofs, OrganizeEngineRefinement

AP == INSTANCE UndoLogProofs WITH
    File <- FileId, Place <- Path, Start <- Home,
    place <- [f \in FileId |-> PlaceOf(f)], log <- Log

Solo ==
    /\ \E p : Proc = {p}
    /\ MoveOnly /\ "one" \notin Undoes
    /\ 0 \notin Gaps /\ Foreign = {} /\ MaxFaults = 0 /\ MaxCrashes = 0
    /\ \A f, g \in FileId : Home[f] = Home[g] => f = g

ContentOf(f) == Disk0[Home[f]]

(* A file no row knows.                                                    *)
Stray(q) == Disk0[q] # NoFile /\ \A f \in FileId : Home[f] # q

DiskInv ==
    /\ OneCopyEach
    /\ \A f \in FileId : OnDisk(ContentOf(f))
    /\ \A q \in Path : Stray(q) => disk[q] = Disk0[q]
    /\ \A q \in Path : disk[q] # NoFile => Stray(q) \/ \E f \in FileId : disk[q] = ContentOf(f)

ColumnsInv ==
    \A f \in FileId :
        /\ files[f].archive # NoPath <=> f \in Packed
        /\ files[f].path = IF f \in Packed THEN files[f].archive ELSE files[f].name

(* Where the row of f has it: behind by one step while its move or its     *)
(* undoing has yet to be saved.                                            *)
Behind(p, f) == pc[p] \in {"find", "record", "save", "unrow"} /\ job[p].file = f

RowsInv ==
    /\ \A f \in FileId : (\A p \in Proc : ~Behind(p, f)) => files[f].path = PlaceOf(f)
    /\ \A p \in Proc :
         /\ pc[p] \in {"exec", "find", "record", "save"} => files[job[p].file].path = job[p].old
         /\ pc[p] \in {"find", "record", "save"} => PlaceOf(job[p].file) = job[p].new
         /\ pc[p] = "unrow" => PlaceOf(job[p].file) = job[p].old
         /\ pc[p] \in {"find", "record"} => disk[job[p].old] = NoFile
         /\ pc[p] = "record" => job[p].row = job[p].file

EntriesInv ==
    /\ \A i \in DOMAIN undo : undo[i].file \in FileId /\ ~Stray(undo[i].old)
    /\ \A i, j \in DOMAIN undo : i < j => undo[i].at < undo[j].at
    /\ \A i \in DOMAIN undo : undo[i].at <= clock

TodoInv ==
    \A p \in Proc :
        /\ todo[p] \subseteq Live
        /\ \A i \in todo[p] : \A j \in Live : j > i => j \in todo[p]
        /\ pc[p] \notin Undoing \cup {"undo"} => todo[p] = {}
        /\ pc[p] \in Undoing =>
             /\ job[p].entry \in todo[p] /\ \A i \in todo[p] : i <= job[p].entry
             /\ job[p].file = undo[job[p].entry].file
             /\ job[p].old = undo[job[p].entry].old /\ job[p].new = undo[job[p].entry].new

StateInv == MoveInv /\ DiskInv /\ ColumnsInv /\ RowsInv /\ EntriesInv /\ TodoInv

SoloInv == StateInv /\ AP!IInv
-----------------------------------------------------------------------------
LEMMA PlaceFacts ==
  ASSUME TypeInv, DiskInv, NEW f \in FileId
  PROVE  /\ PlaceOf(f) \in Path /\ disk[PlaceOf(f)] = ContentOf(f) /\ ContentOf(f) # NoFile
         /\ \A q \in Path : disk[q] = ContentOf(f) => q = PlaceOf(f)
<1>1. ContentOf(f) # NoFile
  BY DiskAssumption DEF ContentOf
<1>2. \E q \in Path : disk[q] = ContentOf(f)
  BY DEF DiskInv, OnDisk
<1>3. PlaceOf(f) \in Path /\ disk[PlaceOf(f)] = ContentOf(f)
  BY <1>2 DEF PlaceOf, ContentOf
<1> QED
  BY <1>1, <1>3 DEF DiskInv, OneCopyEach

LEMMA ContentsDiffer ==
  ASSUME Solo, NEW f \in FileId
  PROVE  /\ \A g \in FileId : ContentOf(g) = ContentOf(f) => g = f
         /\ \A q \in Path : Stray(q) => Disk0[q] # ContentOf(f)
<1>1. Home \in [FileId -> Path]
  BY FilesAssumption
<1>2. \A g \in FileId : ContentOf(g) = ContentOf(f) => Home[g] = Home[f]
  BY <1>1, DiskAssumption DEF ContentOf
<1>3. \A q \in Path : Disk0[q] = ContentOf(f) => q = Home[f]
  BY <1>1, DiskAssumption DEF ContentOf
<1> QED
  BY <1>2, <1>3 DEF Solo, Stray

(* A file that is renamed to a free path is there, and no other has moved. *)
LEMMA RenameMoves ==
  ASSUME Solo, TypeInv, DiskInv, NEW f \in FileId, NEW r \in Path, disk[r] = NoFile,
         disk' = Renamed(PlaceOf(f), r)
  PROVE  /\ DiskInv'
         /\ PlaceOf(f)' = r
         /\ \A g \in FileId \ {f} : PlaceOf(g)' = PlaceOf(g)
<1> PICK q \in Path : q = PlaceOf(f)
  BY PlaceFacts
<1>1. disk \in [Path -> Content \cup {NoFile}] /\ disk[q] = ContentOf(f) /\ ContentOf(f) # NoFile
  BY PlaceFacts DEF TypeInv, TypeOK
<1>2. disk'[q] = NoFile /\ disk'[r] = ContentOf(f) /\ q # r
  BY <1>1 DEF Renamed
<1>3. \A s \in Path \ {q, r} : disk'[s] = disk[s]
  BY <1>1 DEF Renamed
<1>4. ASSUME NEW g \in FileId \ {f}
      PROVE  PlaceOf(g) \in Path \ {q, r} /\ disk'[PlaceOf(g)] = ContentOf(g)
  <2>1. PlaceOf(g) \in Path /\ disk[PlaceOf(g)] = ContentOf(g) /\ ContentOf(g) # NoFile
    BY PlaceFacts
  <2>2. ContentOf(g) # ContentOf(f)
    BY ContentsDiffer
  <2> QED
    BY <1>1, <1>3, <2>1, <2>2
<1>5. OneCopyEach'
  <2> SUFFICES ASSUME NEW s \in Path, NEW t \in Path, disk'[s] = disk'[t], disk'[s] # NoFile
               PROVE  s = t
    BY DEF OneCopyEach
  <2>1. \A u \in Path : disk[u] = disk[q] => u = q
    BY <1>1 DEF DiskInv, OneCopyEach
  <2> QED
    BY <1>1, <1>2, <1>3, <2>1 DEF DiskInv, OneCopyEach
<1>6. \A g \in FileId : OnDisk(ContentOf(g))'
  <2>1. \A g \in FileId : ContentOf(g)' = ContentOf(g)
    BY DEF ContentOf
  <2> QED
    BY <1>2, <1>4, <2>1 DEF OnDisk
<1>7. ASSUME NEW s \in Path, Stray(s) PROVE disk'[s] = Disk0[s]
  <2>1. disk[s] = Disk0[s] /\ Disk0[s] # NoFile /\ Disk0[s] # ContentOf(f)
    BY <1>7, ContentsDiffer DEF DiskInv, Stray
  <2> QED
    BY <1>1, <1>3, <2>1
<1>8. ASSUME NEW s \in Path, disk'[s] # NoFile
      PROVE  Stray(s) \/ \E g \in FileId : disk'[s] = ContentOf(g)
  BY <1>2, <1>3, <1>8 DEF DiskInv
<1>9. DiskInv'
  <2>1. \A s : Stray(s)' = Stray(s)
    BY DEF Stray
  <2>2. \A g : ContentOf(g)' = ContentOf(g)
    BY DEF ContentOf
  <2> QED
    BY <1>5, <1>6, <1>7, <1>8, <2>1, <2>2 DEF DiskInv
<1>10. ASSUME NEW g \in FileId, NEW s \in Path, disk'[s] = ContentOf(g) PROVE PlaceOf(g)' = s
  <2>1. ContentOf(g) # NoFile
    BY PlaceFacts
  <2>2. \A t \in Path : disk'[t] = ContentOf(g) <=> t = s
    BY <1>5, <1>10, <2>1 DEF OneCopyEach
  <2> QED
    BY <2>2 DEF PlaceOf, ContentOf
<1> QED
  BY <1>2, <1>4, <1>9, <1>10

-----------------------------------------------------------------------------
Logged(i, live) == LogEntry(undo[i].file, undo[i].old, undo[i].new, live)

LEMMA LogShape ==
  ASSUME NEW p, Proc = {p}, TypeInv, EntriesInv
  PROVE  /\ Recorded \in Seq(AP!Record) /\ DOMAIN Recorded = DOMAIN undo /\ Len(Recorded) = Len(undo)
         /\ \A i \in DOMAIN undo : Unmarked(i) <=> pc[p] \in {"unrow", "unmark"} /\ job[p].entry = i
         /\ \A i \in DOMAIN undo : Recorded[i] = Logged(i, ~undo[i].undone /\ ~Unmarked(i))
         /\ pc[p] \notin {"find", "record"} => Log = Recorded
         /\ pc[p] \in {"find", "record"} =>
              Log = Append(Recorded, LogEntry(job[p].file, job[p].old, job[p].new, TRUE))
<1>1. /\ undo \in Seq(Entry) /\ DOMAIN undo = 1 .. Len(undo) /\ Len(undo) \in Nat
      /\ \A i \in DOMAIN undo : undo[i] \in Entry
  BY LenProperties, ElementOfSeq DEF TypeInv, TypeOK
<1>2. \A i \in DOMAIN undo : Recorded[i] = Logged(i, ~undo[i].undone /\ ~Unmarked(i))
  BY DEF Recorded, Logged
<1>3. \A i \in DOMAIN undo : Recorded[i] \in AP!Record
  <2> SUFFICES ASSUME NEW i \in DOMAIN undo
               PROVE  LogEntry(undo[i].file, undo[i].old, undo[i].new, ~undo[i].undone /\ ~Unmarked(i))
                        \in AP!Record
    BY <1>2 DEF Logged
  <2>1. undo[i].file \in FileId /\ undo[i].old \in Path /\ undo[i].new \in Path
    BY <1>1 DEF EntriesInv, Entry
  <2>2. (~undo[i].undone /\ ~Unmarked(i)) \in BOOLEAN
    OBVIOUS
  <2> QED
    BY <2>1, <2>2 DEF LogEntry, AP!Record
<1>4. DOMAIN Recorded = DOMAIN undo
  BY DEF Recorded
<1>5. Recorded \in [1 .. Len(undo) -> AP!Record]
  <2>1. Recorded = [i \in 1 .. Len(undo) |-> Recorded[i]]
    BY <1>1 DEF Recorded
  <2> HIDE DEF Recorded
  <2> QED
    BY <1>1, <1>3, <2>1
<1>6. Recorded \in Seq(AP!Record)
  BY <1>1, <1>5, SeqDef
<1>7. Len(Recorded) = Len(undo)
  <2>1. DOMAIN Recorded = 1 .. Len(Recorded) /\ Len(Recorded) \in Nat
    BY <1>6, LenProperties
  <2> QED
    BY <1>1, <1>4, <2>1
<1>8. \A i \in DOMAIN undo : Unmarked(i) <=> pc[p] \in {"unrow", "unmark"} /\ job[p].entry = i
  BY DEF Unmarked
<1>9. pc[p] \notin {"find", "record"} => Log = Recorded
  BY DEF Log, Unrecorded
<1>10. ASSUME pc[p] \in {"find", "record"}
       PROVE  Log = Append(Recorded, LogEntry(job[p].file, job[p].old, job[p].new, TRUE))
  <2>1. Unrecorded = {p}
    BY <1>10 DEF Unrecorded
  <2>2. (CHOOSE r \in Unrecorded : TRUE) = p
    BY <2>1
  <2> QED
    BY <2>1, <2>2 DEF Log
<1> QED
  BY <1>2, <1>4, <1>6, <1>7, <1>8, <1>9, <1>10
-----------------------------------------------------------------------------
Places == [f \in FileId |-> PlaceOf(f)]

LEMMA PlacesMoved ==
  ASSUME NEW f \in FileId, NEW r, PlaceOf(f)' = r,
         \A g \in FileId \ {f} : PlaceOf(g)' = PlaceOf(g)
  PROVE  Places' = [Places EXCEPT ![f] = r]
  BY DEF Places

LEMMA SameLog ==
  ASSUME NEW p, Proc = {p}, UNCHANGED undo,
         pc[p] \notin {"find", "record"}, pc'[p] \notin {"find", "record"},
         \A i \in DOMAIN undo : Unmarked(i)' <=> Unmarked(i)
  PROVE  Log' = Log
<1>1. Recorded' = Recorded
  BY DEF Recorded
<1> QED
  BY <1>1 DEF Log, Unrecorded

LEMMA PendingLog ==
  ASSUME NEW p, Proc = {p}, pc'[p] \in {"find", "record"}
  PROVE  Log' = Append(Recorded', LogEntry(job'[p].file, job'[p].old, job'[p].new, TRUE))
<1>1. Unrecorded' = {p}
  BY DEF Unrecorded
<1>2. (CHOOSE r \in Unrecorded' : TRUE) = p
  BY <1>1
<1> QED
  BY <1>1, <1>2 DEF Log

LEMMA SamePlaces ==
  ASSUME UNCHANGED disk
  PROVE  Places' = Places /\ \A f \in FileId : PlaceOf(f)' = PlaceOf(f)
  BY DEF Places, PlaceOf

LEMMA SameDisk ==
  ASSUME DiskInv, UNCHANGED disk
  PROVE  DiskInv'
  BY DEF DiskInv, OneCopyEach, OnDisk, ContentOf, Stray

LEMMA SameEntries ==
  ASSUME EntriesInv, UNCHANGED <<undo, clock>>
  PROVE  EntriesInv' /\ Live' = Live
  BY DEF EntriesInv, Stray, Live

(* A step of neither the log nor the places.                               *)
Stutter == UNCHANGED <<Places, Log>>

LEMMA EntryFacts ==
  ASSUME TypeInv, EntriesInv
  PROVE  /\ undo \in Seq(Entry) /\ DOMAIN undo = 1 .. Len(undo) /\ Len(undo) \in Nat
         /\ \A i \in DOMAIN undo : /\ undo[i] \in Entry
                                  /\ undo[i].file \in FileId /\ undo[i].old \in Path
                                  /\ undo[i].new \in Path /\ undo[i].at \in Nat
                                  /\ undo[i].undone \in BOOLEAN
         /\ Live \subseteq DOMAIN undo
<1>1. /\ undo \in Seq(Entry) /\ DOMAIN undo = 1 .. Len(undo) /\ Len(undo) \in Nat
      /\ \A i \in DOMAIN undo : undo[i] \in Entry
  BY LenProperties, ElementOfSeq DEF TypeInv, TypeOK
<1> QED
  BY <1>1 DEF EntriesInv, Entry, Live

LEMMA SoloBegin ==
  ASSUME Solo, StateInv, MoveInv', NEW p, Proc = {p}, Begin(p)
  PROVE  StateInv' /\ Stutter
<1>1. PICK f \in FileId, op \in Ops, s \in Strategies, t \in Path : BeginFile(p, f, op, s, t)
  BY FilesAssumption DEF Begin, generateDestinationPath
<1> DEFINE this == JobFor(f, op, files[f].path, Destination(t, s), FALSE, 0)
<1>2. s # "overwrite"
  BY DEF Solo, MoveOnly
<1>3. /\ job' = [job EXCEPT ![p] = this] /\ pc' = [pc EXCEPT ![p] = "exec"] /\ pc[p] = "idle"
      /\ UNCHANGED <<disk, files, undo, clock, todo>>
  BY <1>1, <1>2 DEF BeginFile, Goto, Begin
<1>4. this.file = f /\ this.old = files[f].path
  BY DEF JobFor
<1> HIDE DEF this
<1>5. job'[p] = this /\ pc'[p] = "exec"
  BY <1>3 DEF StateInv, MoveInv, TypeInv, TypeOK
<1>6. DiskInv' /\ EntriesInv' /\ Live' = Live
  BY <1>3, SameDisk, SameEntries DEF StateInv
<1>7. ColumnsInv'
  BY <1>3 DEF StateInv, ColumnsInv
<1>8. RowsInv'
  BY <1>3, <1>4, <1>5, SamePlaces DEF StateInv, RowsInv, Behind
<1>9. TodoInv'
  BY <1>3, <1>5, <1>6 DEF StateInv, TodoInv, Undoing
<1>10. Stutter
  BY <1>3, <1>5, SamePlaces, SameLog DEF Stutter, Unmarked
<1> QED
  BY <1>6, <1>7, <1>8, <1>9, <1>10 DEF StateInv

LEMMA SoloUndoAll ==
  ASSUME Solo, StateInv, MoveInv', NEW p, Proc = {p}, undoAll(p)
  PROVE  StateInv' /\ Stutter
<1>1. PICK S : /\ S = Live \/ \E i \in Latest(Live) : S = {i}
               /\ todo' = [todo EXCEPT ![p] = S]
  BY DEF undoAll, Solo
<1>2. /\ pc' = [pc EXCEPT ![p] = "undo"] /\ pc[p] = "idle"
      /\ UNCHANGED <<disk, files, undo, clock, job>>
  BY DEF undoAll, Goto
<1>3. todo'[p] = S /\ pc'[p] = "undo"
  BY <1>1, <1>2 DEF StateInv, MoveInv, TypeInv, TypeOK
<1>4. DiskInv' /\ EntriesInv' /\ Live' = Live
  BY <1>2, SameDisk, SameEntries DEF StateInv
<1>5. ColumnsInv'
  BY <1>2 DEF StateInv, ColumnsInv
<1>6. RowsInv'
  BY <1>2, <1>3, SamePlaces DEF StateInv, RowsInv, Behind
<1>7. TodoInv'
  <2>1. S \subseteq Live
    BY <1>1 DEF Latest
  <2>2. ASSUME NEW i \in S, NEW j \in Live, j > i PROVE j \in S
    <3>1. i \in DOMAIN undo /\ j \in DOMAIN undo /\ undo[i].at < undo[j].at
      BY <2>1, <2>2 DEF StateInv, EntriesInv, Live
    <3>2. undo[i].at \in Nat /\ undo[j].at \in Nat
      BY <3>1, EntryFacts DEF StateInv, MoveInv
    <3> QED
      BY <1>1, <2>2, <3>1, <3>2 DEF Latest
  <2> QED
    BY <1>3, <1>4, <2>1, <2>2 DEF TodoInv, Undoing
<1>8. Stutter
  BY <1>2, <1>3, SamePlaces, SameLog DEF Stutter, Unmarked
<1> QED
  BY <1>4, <1>5, <1>6, <1>7, <1>8 DEF StateInv
LEMMA Faultless ==
  ASSUME Solo, TypeInv, TypeInv', NEW can \in BOOLEAN, NEW done \in BOOLEAN, Attempt(can, done)
  PROVE  done <=> can
<1>1. faults = 0 /\ faults' = 0
  BY DEF Solo, TypeInv, TypeOK
<1> QED
  BY <1>1, AttemptFaultless

LEMMA SoloExecute ==
  ASSUME Solo, StateInv, MoveInv', NEW p, Proc = {p}, executeOperation(p)
  PROVE  /\ StateInv'
         /\ Stutter \/ AP!Move(job[p].file, job[p].new)
<1> PICK f, old, new : f = job[p].file /\ old = job[p].old /\ new = job[p].new
  OBVIOUS
<1>1. PICK done \in BOOLEAN :
        /\ Attempt(CanRename(old, new), done)
        /\ IF done
           THEN disk' = Performed(p) /\ Goto(p, AfterSuccess(p)) /\ UNCHANGED job
           ELSE /\ UNCHANGED disk
                /\ Goto(p, AfterFailure(p))
                /\ job' = IF job[p].over THEN job ELSE [job EXCEPT ![p] = NoJob]
  BY DEF executeOperation
<1>2. TypeInv /\ TypeInv' /\ DiskInv /\ RowsInv /\ EntriesInv /\ TodoInv
  BY DEF StateInv, MoveInv
<1>3. /\ pc[p] = "exec" /\ f \in FileId /\ old \in Path /\ new \in Path
      /\ ~job[p].over /\ job[p].op = "move" /\ UNCHANGED <<files, undo, clock, todo>>
  BY <1>2 DEF executeOperation, StateInv, MoveInv, TypeInv, JobOK, Organizing
<1>4. done <=> CanRename(old, new)
  BY <1>1, <1>2, Faultless DEF CanRename, Exists
<1>5. files[f].path = old /\ old = PlaceOf(f) /\ todo[p] = {}
  BY <1>2, <1>3 DEF RowsInv, Behind, TodoInv, Undoing
<1>6. \A g \in FileId : files[g].path = PlaceOf(g)
  BY <1>2, <1>3 DEF RowsInv, Behind
<1>7. EntriesInv' /\ Live' = Live /\ ColumnsInv'
  BY <1>2, <1>3, SameEntries DEF StateInv, ColumnsInv
<1>8. pc'[p] \in {"find", "idle"} => TodoInv'
  BY <1>3, <1>5 DEF TodoInv, Undoing
<1>9. CASE done
  <2>1. /\ disk[new] = NoFile /\ disk' = Renamed(PlaceOf(f), new)
        /\ pc' = [pc EXCEPT ![p] = "find"] /\ UNCHANGED job
    BY <1>1, <1>3, <1>4, <1>5, <1>9 DEF Performed, CanRename, Exists, AfterSuccess, Goto
  <2>2. /\ DiskInv' /\ PlaceOf(f)' = new
        /\ \A g \in FileId \ {f} : PlaceOf(g)' = PlaceOf(g)
    BY <1>2, <1>3, <2>1, RenameMoves
  <2>3. pc'[p] = "find" /\ disk'[old] = NoFile
    <3>1. old # new
      BY <1>2, <1>3, <1>5, <2>1, PlaceFacts
    <3> QED
      BY <1>2, <1>3, <1>5, <2>1, <3>1 DEF TypeInv, TypeOK, Renamed
  <2>4. RowsInv'
    <3>1. \A g \in FileId : (\A r \in Proc : ~Behind(r, g)') => files'[g].path = PlaceOf(g)'
      BY <1>3, <1>6, <2>1, <2>2, <2>3 DEF Behind
    <3> QED
      BY <1>3, <1>5, <2>1, <2>2, <2>3, <3>1 DEF RowsInv
  <2>5. Places' = [Places EXCEPT ![f] = new]
    BY <1>3, <2>2, PlacesMoved
  <2>6. Log' = Append(Log, AP!Entry(f, Places[f], new, TRUE))
    <3>1. Log = Recorded
      BY <1>2, <1>3, LogShape
    <3>2. Log' = Append(Recorded', LogEntry(f, old, new, TRUE))
      BY <2>1, <2>3, PendingLog
    <3>3. Recorded' = Recorded
      BY <1>3, <2>1, <2>3 DEF Recorded, Unmarked
    <3>4. LogEntry(f, old, new, TRUE) = AP!Entry(f, Places[f], new, TRUE)
      BY <1>3, <1>5 DEF LogEntry, AP!Entry, Places
    <3> QED
      BY <3>1, <3>2, <3>3, <3>4
  <2>7. \A g \in FileId : Places[g] # new
    BY <1>2, <2>1, PlaceFacts DEF Places
  <2>8. AP!Move(f, new)
    BY <2>5, <2>6, <2>7 DEF AP!Move, AP!Free, Places
  <2> QED
    BY <1>7, <1>8, <2>2, <2>3, <2>4, <2>8 DEF StateInv
<1>10. CASE ~done
  <2>1. UNCHANGED disk /\ pc' = [pc EXCEPT ![p] = "idle"] /\ job' = [job EXCEPT ![p] = NoJob]
    BY <1>1, <1>3, <1>10 DEF AfterFailure, Goto
  <2>2. pc'[p] = "idle"
    BY <1>2, <2>1 DEF TypeInv, TypeOK
  <2>3. RowsInv'
    BY <1>3, <1>6, <2>1, <2>2, SamePlaces DEF RowsInv, Behind
  <2>4. Stutter
    BY <1>3, <2>1, <2>2, SamePlaces, SameLog DEF Stutter, Unmarked
  <2> QED
    BY <1>2, <1>7, <1>8, <2>1, <2>2, <2>3, <2>4, SameDisk DEF StateInv
<1> QED
  BY <1>9, <1>10
LEMMA IsAppended ==
  ASSUME NEW S, NEW s \in Seq(S), NEW e \in S, NEW t,
         t = [i \in 1 .. Len(s) + 1 |-> t[i]], t[Len(s) + 1] = e,
         \A i \in 1 .. Len(s) : t[i] = s[i]
  PROVE  t = Append(s, e)
<1> PICK n : n = Len(s)
  OBVIOUS
<1>1. Append(s, e) \in Seq(S) /\ Len(Append(s, e)) = n + 1 /\ n \in Nat
  BY AppendProperties, LenProperties
<1>2. Append(s, e)[n + 1] = e /\ \A i \in 1 .. n : Append(s, e)[i] = s[i]
  BY <1>1
<1> PICK u : u = Append(s, e)
  OBVIOUS
<1>3. u \in Seq(S) /\ Len(u) = n + 1
  BY <1>1
<1>4. u \in [1 .. n + 1 -> S]
  BY <1>3, LenProperties
<1>5. \A i \in 1 .. n + 1 : u[i] = t[i]
  <2> SUFFICES ASSUME NEW i \in 1 .. n + 1 PROVE u[i] = t[i]
    OBVIOUS
  <2>1. i = n + 1 \/ i \in 1 .. n
    BY <1>1
  <2> QED
    BY <1>2, <2>1
<1> QED
  BY <1>4, <1>5

(* The entry names the file that was moved: no other row has the path it   *)
(* came from, since nothing lies there now.                                *)
LEMMA RowIsFound ==
  ASSUME StateInv, NEW p, Proc = {p}, pc[p] = "find"
  PROVE  RowAt(job[p].old) = job[p].file
<1> PICK f, old : f = job[p].file /\ old = job[p].old
  OBVIOUS
<1>1. f \in FileId /\ f \in Nat /\ files[f].path = old /\ disk[old] = NoFile
  BY FilesAssumption DEF StateInv, MoveInv, TypeInv, JobOK, Organizing, RowsInv
<1>2. ASSUME NEW g \in FileId, g # f PROVE files[g].path # old
  <2>1. files[g].path = PlaceOf(g)
    BY <1>2 DEF StateInv, RowsInv, Behind
  <2>2. disk[PlaceOf(g)] # NoFile
    BY PlaceFacts DEF StateInv, MoveInv
  <2> QED
    BY <1>1, <2>1, <2>2
<1>3. RowsAt(old) = {f}
  BY <1>1, <1>2 DEF RowsAt
<1> QED
  BY <1>1, <1>3 DEF RowAt

LEMMA SoloFind ==
  ASSUME Solo, StateInv, MoveInv', NEW p, Proc = {p}, FindRow(p)
  PROVE  StateInv' /\ Stutter
<1> PICK f, old, new : f = job[p].file /\ old = job[p].old /\ new = job[p].new
  OBVIOUS
<1>1. TypeInv /\ TypeInv' /\ RowsInv /\ TodoInv
  BY DEF StateInv, MoveInv
<1>2. /\ pc[p] = "find" /\ Goto(p, "record") /\ f \in FileId
      /\ UNCHANGED <<disk, files, undo, clock, todo>> /\ job[p] \in Job
  BY <1>1, Found DEF TypeInv, TypeOK, JobOK, Organizing
<1>3. pc'[p] = "record"
  BY <1>1, <1>2, GotoTyped DEF Steps
<1>4. job' = [job EXCEPT ![p].row = RowAt(old)]
  <2>1. PICK done \in BOOLEAN :
          /\ Attempt(TRUE, done)
          /\ job' = [job EXCEPT ![p].row = IF done THEN RowAt(job[p].old) ELSE 0]
    BY DEF FindRow
  <2>2. done
    BY <1>1, <2>1, Faultless
  <2> QED
    BY <2>1, <2>2
<1>5. job'[p].row = f /\ job'[p].file = f /\ job'[p].old = old /\ job'[p].new = new
  <2>1. RowAt(old) = f
    BY <1>2, RowIsFound
  <2>2. job'[p] = [job[p] EXCEPT !.row = RowAt(old)]
    BY <1>1, <1>4 DEF TypeInv, TypeOK
  <2> QED
    BY <1>2, <2>1, <2>2 DEF Job
<1>6. DiskInv' /\ EntriesInv' /\ Live' = Live /\ ColumnsInv'
  BY <1>2, SameDisk, SameEntries DEF StateInv, ColumnsInv
<1>7. \A g \in FileId : PlaceOf(g)' = PlaceOf(g)
  BY <1>2, SamePlaces
<1>8. RowsInv'
  <2>1. \A g \in FileId : Behind(p, g)' <=> Behind(p, g)
    BY <1>2, <1>3, <1>5 DEF Behind
  <2>2. \A g \in FileId : (\A r \in Proc : ~Behind(r, g)') => files'[g].path = PlaceOf(g)'
    BY <1>1, <1>2, <1>7, <2>1 DEF RowsInv
  <2>3. files[f].path = old /\ PlaceOf(f) = new /\ disk[old] = NoFile
    BY <1>1, <1>2 DEF RowsInv
  <2> QED
    BY <1>2, <1>3, <1>5, <1>7, <2>2, <2>3 DEF RowsInv
<1>9. TodoInv'
  <2>1. todo[p] = {}
    BY <1>1, <1>2 DEF TodoInv, Undoing
  <2> QED
    BY <1>2, <1>3, <2>1 DEF TodoInv, Undoing
<1>10. Stutter
  <2>1. (\A i : ~Unmarked(i)) /\ (\A i : ~Unmarked(i)')
    BY <1>2, <1>3 DEF Unmarked
  <2>2. Recorded' = Recorded
    BY <1>2, <2>1 DEF Recorded
  <2>3. /\ Unrecorded = {p} /\ Unrecorded' = {p}
        /\ (CHOOSE r \in Unrecorded : TRUE) = p /\ (CHOOSE r \in Unrecorded' : TRUE) = p
    BY <1>2, <1>3 DEF Unrecorded
  <2>4. Log' = Log
    BY <1>5, <2>2, <2>3 DEF Log
  <2> QED
    BY <1>2, <2>4, SamePlaces DEF Stutter
<1> QED
  BY <1>6, <1>8, <1>9, <1>10 DEF StateInv

LEMMA SoloRecord ==
  ASSUME Solo, StateInv, MoveInv', NEW p, Proc = {p}, recordUndo(p)
  PROVE  StateInv' /\ Stutter
<1> PICK f, old, new, n : f = job[p].file /\ old = job[p].old /\ new = job[p].new /\ n = Len(undo)
  OBVIOUS
<1>1. TypeInv /\ TypeInv' /\ DiskInv /\ RowsInv /\ EntriesInv /\ TodoInv
  BY DEF StateInv, MoveInv
<1>2. /\ pc[p] = "record" /\ pc' = [pc EXCEPT ![p] = "save"]
      /\ UNCHANGED <<disk, files, job, todo>>
  BY DEF recordUndo, Goto
<1>3. pc'[p] = "save"
  BY <1>1, <1>2 DEF TypeInv, TypeOK
<1>4. PICK gap \in Gaps : clock' = clock + gap /\ undo' = Inserted(p, clock + gap)
  <2>1. PICK done \in BOOLEAN :
          /\ Attempt(TRUE, done)
          /\ IF done
             THEN \E gap \in Gaps : clock' = clock + gap /\ undo' = Inserted(p, clock + gap)
             ELSE UNCHANGED <<undo, clock>>
    BY DEF recordUndo
  <2> QED
    BY <1>1, <2>1, Faultless
<1>5. clock \in Nat /\ clock' \in Nat /\ clock < clock'
  BY <1>1, <1>4, OptionsAssumption DEF TypeInv, TypeOK, Solo
<1> PICK e : e = NewEntry(p, clock')
  OBVIOUS
<1>6. e.op = job[p].op /\ e.old = old /\ e.new = new /\ e.file = f /\ e.at = clock' /\ e.undone = FALSE
  BY <1>1, <1>2 DEF NewEntry, RowsInv
<1>7. /\ undo \in Seq(Entry) /\ DOMAIN undo = 1 .. n /\ n \in Nat /\ Live \subseteq 1 .. n
      /\ \A i \in 1 .. n : undo[i].at \in Nat
  BY <1>1, EntryFacts
<1>8. undo' = Append(undo, e) /\ undo' \in Seq(Entry)
  BY <1>1, <1>4 DEF Inserted, TypeInv, TypeOK
<1>9. DOMAIN undo' = 1 .. n + 1 /\ undo'[n + 1] = e /\ \A i \in 1 .. n : undo'[i] = undo[i]
  <2>1. Len(undo') = n + 1 /\ undo'[n + 1] = e /\ \A i \in 1 .. n : undo'[i] = undo[i]
    BY <1>7, <1>8
  <2>2. DOMAIN undo' = 1 .. Len(undo')
    BY <1>8, LenProperties
  <2> QED
    BY <2>1, <2>2
<1>10. f \in FileId /\ ~Stray(old) /\ old \in Path
  <2>1. f \in FileId /\ disk[old] = NoFile /\ old \in Path
    BY <1>1, <1>2 DEF TypeInv, JobOK, Organizing, RowsInv
  <2> QED
    BY <1>1, <2>1 DEF DiskInv, Stray
<1>11. EntriesInv'
  <2>1. \A i \in 1 .. n + 1 : undo'[i].file \in FileId /\ ~Stray(undo'[i].old)
    BY <1>1, <1>6, <1>7, <1>9, <1>10 DEF EntriesInv
  <2>2. \A i \in 1 .. n : undo[i].at < clock'
    BY <1>1, <1>5, <1>7 DEF EntriesInv
  <2>3. \A i, j \in 1 .. n + 1 : i < j => undo'[i].at < undo'[j].at
    <3> SUFFICES ASSUME NEW i \in 1 .. n + 1, NEW j \in 1 .. n + 1, i < j
                 PROVE  undo'[i].at < undo'[j].at
      OBVIOUS
    <3>1. i \in 1 .. n /\ undo'[i] = undo[i]
      BY <1>7, <1>9
    <3>2. CASE j = n + 1
      BY <1>6, <1>9, <2>2, <3>1, <3>2
    <3>3. CASE j \in 1 .. n
      BY <1>1, <1>7, <1>9, <3>1, <3>3 DEF EntriesInv
    <3> QED
      BY <1>7, <3>2, <3>3
  <2>4. \A i \in 1 .. n + 1 : undo'[i].at <= clock'
    BY <1>5, <1>6, <1>7, <1>9, <2>2
  <2> QED
    BY <1>9, <2>1, <2>3, <2>4 DEF EntriesInv, Stray
<1>12. TodoInv'
  <2>1. todo[p] = {}
    BY <1>1, <1>2 DEF TodoInv, Undoing
  <2> QED
    BY <1>2, <1>3, <2>1 DEF TodoInv, Undoing
<1>13. RowsInv' /\ ColumnsInv' /\ DiskInv'
  <2>1. RowsInv'
    <3>1. \A g \in FileId : PlaceOf(g)' = PlaceOf(g)
      BY <1>2, SamePlaces
    <3>2. \A g \in FileId : Behind(p, g)' <=> Behind(p, g)
      BY <1>2, <1>3 DEF Behind
    <3>3. \A g \in FileId : (\A r \in Proc : ~Behind(r, g)') => files'[g].path = PlaceOf(g)'
      BY <1>1, <1>2, <3>1, <3>2 DEF RowsInv
    <3>4. files[f].path = old /\ PlaceOf(f)' = new
      BY <1>1, <1>2, <1>10, <3>1 DEF RowsInv
    <3> QED
      BY <1>2, <1>3, <3>3, <3>4 DEF RowsInv
  <2> QED
    BY <1>1, <1>2, <2>1, SameDisk DEF StateInv, ColumnsInv
<1>14. Log' = Log
  <2> PICK l : l = LogEntry(f, old, new, TRUE)
    OBVIOUS
  <2>1. /\ Recorded \in Seq(AP!Record) /\ Len(Recorded) = n /\ Log = Append(Recorded, l)
        /\ \A i \in 1 .. n : Recorded[i] = Logged(i, ~undo[i].undone)
    BY <1>1, <1>2, <1>7, LogShape
  <2>2. l \in AP!Record
    BY <1>1, <1>2, <1>10 DEF LogEntry, AP!Record, TypeInv, JobOK, Organizing
  <2>3. Recorded' = [i \in 1 .. n + 1 |-> Recorded'[i]]
    <3>1. Recorded' = [i \in 1 .. n + 1 |->
             LogEntry(undo'[i].file, undo'[i].old, undo'[i].new, ~undo'[i].undone /\ ~Unmarked(i)')]
      BY <1>9 DEF Recorded
    <3> QED
      BY <3>1
  <2>4. \A i \in 1 .. n + 1 : Recorded'[i] =
          LogEntry(undo'[i].file, undo'[i].old, undo'[i].new, ~undo'[i].undone)
    <3>1. \A i : ~Unmarked(i)'
      BY <1>3 DEF Unmarked
    <3> QED
      BY <1>9, <3>1 DEF Recorded
  <2>5. Recorded'[n + 1] = l
    <3>1. l = LogEntry(e.file, e.old, e.new, ~e.undone)
      BY <1>6 DEF LogEntry
    <3>2. n + 1 \in 1 .. n + 1
      BY <1>7
    <3> QED
      BY <1>9, <2>4, <3>1, <3>2
  <2>6. ASSUME NEW i \in 1 .. n PROVE Recorded'[i] = Recorded[i]
    <3>1. i \in 1 .. n + 1 /\ undo'[i] = undo[i]
      BY <1>7, <1>9
    <3> QED
      BY <2>1, <2>4, <3>1 DEF Logged
  <2>7. Recorded' = Append(Recorded, l)
    <3>0. PICK R, s, t : R = AP!Record /\ s = Recorded /\ t = Recorded'
      OBVIOUS
    <3>1. s \in Seq(R) /\ l \in R /\ Len(s) = n
      BY <2>1, <2>2, <3>0
    <3>2. t = [i \in 1 .. n + 1 |-> t[i]] /\ t[n + 1] = l /\ \A i \in 1 .. n : t[i] = s[i]
      BY <2>3, <2>5, <2>6, <3>0, Zenon
    <3>3. /\ t = [i \in 1 .. Len(s) + 1 |-> t[i]] /\ t[Len(s) + 1] = l
          /\ \A i \in 1 .. Len(s) : t[i] = s[i]
      BY <3>1, <3>2, Zenon
    <3>4. t = Append(s, l)
      BY <3>1, <3>3, IsAppended, Zenon
    <3> QED
      BY <3>0, <3>4
  <2>8. Log' = Recorded'
    BY <1>3 DEF Log, Unrecorded
  <2> QED
    BY <2>1, <2>7, <2>8
<1> QED
  BY <1>2, <1>11, <1>12, <1>13, <1>14, SamePlaces DEF StateInv, Stutter
(* The row catches up with the file, in both columns of an archive member. *)
LEMMA RowSaved ==
  ASSUME TypeInv, ColumnsInv, NEW f \in FileId, NEW q \in Path,
         files' = [files EXCEPT ![f] = AtPath(f, q)]
  PROVE  /\ ColumnsInv'
         /\ files'[f].path = q /\ \A g \in FileId \ {f} : files'[g] = files[g]
<1> PICK row : row = AtPath(f, q)
  OBVIOUS
<1>1. files[f] \in Row /\ q # NoPath
  BY FilesAssumption DEF TypeInv, TypeOK
<1>2. /\ row.path = q
      /\ row.archive # NoPath <=> f \in Packed
      /\ q = IF f \in Packed THEN row.archive ELSE row.name
  BY <1>1 DEF AtPath, Row, ColumnsInv
<1>3. files'[f] = row /\ \A g \in FileId \ {f} : files'[g] = files[g]
  BY DEF TypeInv, TypeOK
<1> QED
  BY <1>2, <1>3 DEF ColumnsInv

LEMMA SoloSave ==
  ASSUME Solo, StateInv, MoveInv', NEW p, Proc = {p}, SaveRow(p)
  PROVE  StateInv' /\ Stutter
<1> PICK f, new : f = job[p].file /\ new = job[p].new
  OBVIOUS
<1>1. TypeInv /\ TypeInv' /\ DiskInv /\ RowsInv /\ EntriesInv /\ TodoInv
  BY DEF StateInv, MoveInv
<1>2. /\ pc[p] = "save" /\ f \in FileId /\ new \in Path
      /\ Finish(p) /\ UNCHANGED <<disk, undo, clock, todo>>
  BY <1>1 DEF SaveRow, TypeInv, JobOK, Organizing
<1>3. pc'[p] = "idle"
  BY <1>1, <1>2, FinishTyped
<1>4. files' = [files EXCEPT ![f] = AtPath(f, new)]
  <2>1. PICK done \in BOOLEAN :
          /\ Attempt(TRUE, done)
          /\ files' = IF done THEN [files EXCEPT ![f] = AtPath(f, new)] ELSE files
    BY DEF SaveRow
  <2> QED
    BY <1>1, <2>1, Faultless
<1>5. /\ ColumnsInv'
      /\ files'[f].path = new /\ \A g \in FileId \ {f} : files'[g] = files[g]
  BY <1>1, <1>2, <1>4, RowSaved DEF StateInv
<1>6. \A g \in FileId : files'[g].path = PlaceOf(g)'
  <2>1. PlaceOf(f)' = new
    BY <1>1, <1>2, SamePlaces DEF RowsInv
  <2>2. ASSUME NEW g \in FileId \ {f} PROVE files'[g].path = PlaceOf(g)'
    <3>1. files[g].path = PlaceOf(g)
      BY <1>1, <2>2 DEF RowsInv, Behind
    <3> QED
      BY <1>2, <1>5, <3>1, SamePlaces
  <2> QED
    BY <1>5, <2>1, <2>2
<1>7. RowsInv'
  BY <1>3, <1>6 DEF RowsInv
<1>8. TodoInv'
  BY <1>1, <1>2, <1>3 DEF TodoInv, Undoing
<1>9. Stutter
  BY <1>2, <1>3, SamePlaces, SameLog DEF Stutter, Unmarked
<1> QED
  BY <1>1, <1>2, <1>5, <1>7, <1>8, <1>9, SameDisk, SameEntries DEF StateInv

LEMMA SoloUndoNext ==
  ASSUME Solo, StateInv, MoveInv', NEW p, Proc = {p}, UndoNext(p)
  PROVE  StateInv' /\ Stutter
<1>1. TypeInv /\ TypeInv' /\ DiskInv /\ RowsInv /\ EntriesInv /\ TodoInv
  BY DEF StateInv, MoveInv
<1>2. /\ pc[p] = "undo" /\ UNCHANGED <<disk, files, undo, clock>> /\ todo[p] \subseteq Live
  BY <1>1 DEF UndoNext, TodoInv
<1>3. PICK i \in Latest(todo[p]) :
        IF undo[i].undone
        THEN Drop(p, i)
        ELSE /\ job' = [job EXCEPT ![p] =
                  JobFor(undo[i].file, undo[i].op, undo[i].old, undo[i].new, FALSE, i)]
             /\ Goto(p, "unfs")
             /\ UNCHANGED todo
  BY DEF UndoNext
<1>4. i \in todo[p] /\ ~undo[i].undone
  BY <1>2, <1>3 DEF Latest, Live
<1> PICK this : this = JobFor(undo[i].file, undo[i].op, undo[i].old, undo[i].new, FALSE, i)
  OBVIOUS
<1>5. /\ this.entry = i /\ this.file = undo[i].file
      /\ this.old = undo[i].old /\ this.new = undo[i].new
  BY DEF JobFor
<1>6. job' = [job EXCEPT ![p] = this] /\ pc' = [pc EXCEPT ![p] = "unfs"] /\ UNCHANGED todo
  BY <1>3, <1>4 DEF Goto
<1>7. job'[p] = this /\ pc'[p] = "unfs"
  BY <1>1, <1>6 DEF TypeInv, TypeOK
<1>8. RowsInv' /\ ColumnsInv' /\ DiskInv' /\ EntriesInv' /\ Live' = Live
  <2>1. RowsInv'
    BY <1>1, <1>2, <1>7, SamePlaces DEF RowsInv, Behind
  <2> QED
    BY <1>1, <1>2, <2>1, SameDisk, SameEntries DEF StateInv, ColumnsInv
<1>9. \A j \in todo[p] : j <= i
  <2> SUFFICES ASSUME NEW j \in todo[p], ~(j <= i) PROVE FALSE
    OBVIOUS
  <2>1. /\ i \in DOMAIN undo /\ j \in DOMAIN undo /\ i \in Nat /\ j \in Nat
        /\ undo[i].at \in Nat /\ undo[j].at \in Nat
    BY <1>1, <1>2, <1>4, EntryFacts
  <2>2. undo[i].at < undo[j].at
    BY <1>1, <2>1 DEF EntriesInv
  <2>3. undo[j].at <= undo[i].at
    BY DEF Latest
  <2> QED
    BY <2>1, <2>2, <2>3
<1>10. TodoInv'
  <2>1. todo'[p] = todo[p] /\ UNCHANGED undo /\ Live' = Live
    BY <1>2, <1>6, <1>8
  <2>2. \A j \in todo[p] : \A k \in Live : k > j => k \in todo[p]
    BY <1>1 DEF TodoInv
  <2> QED
    BY <1>2, <1>4, <1>5, <1>7, <1>9, <2>1, <2>2 DEF TodoInv, Undoing
<1>11. Stutter
  BY <1>2, <1>7, SamePlaces, SameLog DEF Stutter, Unmarked
<1> QED
  BY <1>8, <1>10, <1>11 DEF StateInv

LEMMA SoloUndoRow ==
  ASSUME Solo, StateInv, MoveInv', NEW p, Proc = {p}, UndoRow(p)
  PROVE  StateInv' /\ Stutter
<1> PICK f, old : f = job[p].file /\ old = job[p].old
  OBVIOUS
<1>1. TypeInv /\ TypeInv' /\ DiskInv /\ RowsInv /\ EntriesInv /\ TodoInv
  BY DEF StateInv, MoveInv
<1>2. /\ pc[p] = "unrow" /\ f \in FileId /\ old \in Path
      /\ Goto(p, "unmark") /\ UNCHANGED <<disk, undo, clock, job, todo>>
  BY <1>1 DEF UndoRow, TypeInv, TypeOK, Job, JobOK, Undoing
<1>3. pc'[p] = "unmark"
  BY <1>1, <1>2, GotoTyped DEF Steps
<1>4. files' = [files EXCEPT ![f] = AtPath(f, old)]
  <2>1. PICK done \in BOOLEAN :
          /\ Attempt(TRUE, done)
          /\ files' = IF done THEN [files EXCEPT ![f] = AtPath(f, old)] ELSE files
    BY DEF UndoRow
  <2> QED
    BY <1>1, <2>1, Faultless
<1>5. /\ ColumnsInv'
      /\ files'[f].path = old /\ \A g \in FileId \ {f} : files'[g] = files[g]
  BY <1>1, <1>2, <1>4, RowSaved DEF StateInv
<1>6. \A g \in FileId : files'[g].path = PlaceOf(g)'
  <2>1. PlaceOf(f)' = old
    BY <1>1, <1>2, SamePlaces DEF RowsInv
  <2>2. ASSUME NEW g \in FileId \ {f} PROVE files'[g].path = PlaceOf(g)'
    <3>1. files[g].path = PlaceOf(g)
      BY <1>1, <2>2 DEF RowsInv, Behind
    <3> QED
      BY <1>2, <1>5, <3>1, SamePlaces
  <2> QED
    BY <1>5, <2>1, <2>2
<1>7. RowsInv'
  BY <1>3, <1>6 DEF RowsInv
<1>8. TodoInv'
  <2>1. Live' = Live
    BY <1>1, <1>2, SameEntries
  <2> QED
    BY <1>1, <1>2, <1>3, <2>1 DEF TodoInv, Undoing
<1>9. Stutter
  BY <1>2, <1>3, SamePlaces, SameLog DEF Stutter, Unmarked
<1> QED
  BY <1>1, <1>2, <1>5, <1>7, <1>8, <1>9, SameDisk, SameEntries DEF StateInv
LEMMA SoloUndoFile ==
  ASSUME Solo, SoloInv, MoveInv', NEW p, Proc = {p}, UndoFile(p)
  PROVE  /\ StateInv'
         /\ job[p].entry \in DOMAIN Log /\ AP!UndoLast(job[p].entry)
<1>0. PICK i, f, old, new : /\ i = job[p].entry /\ f = job[p].file
                            /\ old = job[p].old /\ new = job[p].new
  OBVIOUS
<1>1. TypeInv /\ TypeInv' /\ DiskInv /\ RowsInv /\ EntriesInv /\ TodoInv
  BY DEF SoloInv, StateInv, MoveInv
<1>2. /\ pc[p] = "unfs" /\ job[p].op = "move" /\ i \in todo[p] /\ todo[p] \subseteq Live
      /\ \A j \in todo[p] : j <= i
      /\ f = undo[i].file /\ old = undo[i].old /\ new = undo[i].new
      /\ UNCHANGED <<files, undo, clock>>
  BY <1>0, <1>1 DEF UndoFile, TodoInv, Undoing, SoloInv, StateInv, MoveInv
<1>3. /\ i \in DOMAIN undo /\ DOMAIN undo \subseteq Nat /\ f \in FileId /\ f > 0
      /\ old \in Path /\ new \in Path /\ ~undo[i].undone /\ ~Stray(old)
  <2>1. i \in DOMAIN undo /\ ~undo[i].undone
    BY <1>2 DEF Live
  <2>2. f \in FileId /\ ~Stray(old)
    BY <1>1, <1>2, <2>1 DEF EntriesInv
  <2>3. DOMAIN undo \subseteq Nat /\ undo[i].old \in Path /\ undo[i].new \in Path
    BY <1>1, <2>1, EntryFacts
  <2>4. f \in Nat /\ f # 0
    BY <2>2, FilesAssumption
  <2> QED
    BY <1>2, <2>1, <2>2, <2>3, <2>4
<1>4. i \in Live /\ \A j \in Live : j <= i
  <2>1. \A j \in Live : j \in Nat
    BY <1>1, <1>3, EntryFacts
  <2>2. \A j \in Live : j > i => j \in todo[p]
    BY <1>1, <1>2 DEF TodoInv
  <2> QED
    BY <1>2, <1>3, <2>1, <2>2
<1>5. /\ Log = Recorded /\ DOMAIN Log = DOMAIN undo
      /\ \A j \in DOMAIN undo : Log[j] = Logged(j, ~undo[j].undone)
  <2>1. \A j \in DOMAIN undo : ~Unmarked(j)
    BY <1>2 DEF Unmarked
  <2> QED
    BY <1>1, <1>2, <2>1, LogShape
<1>6. /\ Log[i].file = f /\ Log[i].from = old /\ Log[i].to = new
      /\ AP!LiveEntries = Live
  <2>1. \A j \in DOMAIN undo : /\ Log[j].file = undo[j].file /\ Log[j].from = undo[j].old
                              /\ Log[j].to = undo[j].new /\ Log[j].live = ~undo[j].undone
    BY <1>5 DEF Logged, LogEntry
  <2> QED
    BY <1>2, <1>3, <1>5, <2>1 DEF AP!LiveEntries, Live
<1>7. PlaceOf(f) = new
  <2>1. Places[Log[i].file] = Log[i].to
    BY <1>4, <1>6, AP!LastIsHere DEF Places, SoloInv
  <2> QED
    BY <1>3, <1>6, <2>1 DEF Places
<1>8. AP!Free(old) /\ \A g \in FileId : PlaceOf(g) # old
  <2>1. AP!Free(old)
    BY <1>4, <1>6, AP!IInvUndoable DEF AP!LastCanBeUndone, SoloInv
  <2> QED
    BY <2>1 DEF AP!Free
<1>9. disk[old] = NoFile /\ disk[new] # NoFile
  <2>1. ASSUME NEW g \in FileId PROVE disk[old] # ContentOf(g)
    BY <1>1, <1>3, <1>8, PlaceFacts
  <2>2. disk[new] # NoFile
    BY <1>1, <1>3, <1>7, PlaceFacts
  <2> QED
    BY <1>1, <1>3, <2>1, <2>2 DEF DiskInv
<1>10. /\ disk' = Renamed(PlaceOf(f), old)
       /\ pc' = [pc EXCEPT ![p] = "unrow"] /\ UNCHANGED <<job, todo>>
  <2>1. PICK done \in BOOLEAN :
          /\ Attempt(CanUndo(p), done)
          /\ IF done
             THEN /\ disk' = IF job[p].op = "move" THEN Renamed(job[p].new, job[p].old)
                                                   ELSE Removed(job[p].new)
                  /\ Goto(p, IF job[p].file > 0 THEN "unrow" ELSE "unmark")
                  /\ UNCHANGED <<job, todo>>
             ELSE Drop(p, job[p].entry) /\ UNCHANGED disk
    BY DEF UndoFile
  <2>2. CanUndo(p)
    BY <1>0, <1>2, <1>9 DEF CanUndo, CanRename, Exists
  <2>3. CanUndo(p) \in BOOLEAN
    BY <2>2
  <2>4. done
    BY <1>1, <2>1, <2>2, <2>3, Faultless
  <2> QED
    BY <1>0, <1>2, <1>3, <1>7, <2>1, <2>4 DEF Goto
<1>11. pc'[p] = "unrow"
  BY <1>1, <1>10 DEF TypeInv, TypeOK
<1>12. /\ DiskInv' /\ PlaceOf(f)' = old
       /\ \A g \in FileId \ {f} : PlaceOf(g)' = PlaceOf(g)
  BY <1>1, <1>3, <1>9, <1>10, RenameMoves
<1>13. RowsInv'
  <2>1. \A g \in FileId : files[g].path = PlaceOf(g)
    BY <1>1, <1>2 DEF RowsInv, Behind
  <2>2. \A g \in FileId : (\A r \in Proc : ~Behind(r, g)') => files'[g].path = PlaceOf(g)'
    BY <1>0, <1>2, <1>10, <1>11, <1>12, <2>1 DEF Behind
  <2> QED
    BY <1>0, <1>10, <1>11, <1>12, <2>2 DEF RowsInv
<1>14. TodoInv' /\ EntriesInv' /\ ColumnsInv'
  <2>1. EntriesInv' /\ Live' = Live
    BY <1>1, <1>2, SameEntries
  <2> QED
    BY <1>1, <1>2, <1>10, <1>11, <2>1 DEF TodoInv, Undoing, ColumnsInv, SoloInv, StateInv
<1>15. Places' = [Places EXCEPT ![f] = old]
  BY <1>3, <1>12, PlacesMoved
<1>16. Log' = [Log EXCEPT ![i] = AP!Undone(Log[i])]
  <2>1. Log' = Recorded'
    BY <1>11 DEF Log, Unrecorded
  <2>2. Recorded' = [j \in DOMAIN undo |->
           LogEntry(undo[j].file, undo[j].old, undo[j].new, ~undo[j].undone /\ j # i)]
    <3>1. \A j : Unmarked(j)' <=> j = i
      BY <1>0, <1>10, <1>11 DEF Unmarked
    <3> QED
      BY <1>2, <3>1 DEF Recorded
  <2>3. [Log EXCEPT ![i] = AP!Undone(Log[i])] =
          [j \in DOMAIN undo |-> IF j = i THEN AP!Undone(Log[i]) ELSE Log[j]]
    BY <1>5 DEF Recorded
  <2>4. AP!Undone(Log[i]) = LogEntry(undo[i].file, undo[i].old, undo[i].new, FALSE)
    BY <1>2, <1>6 DEF AP!Undone, AP!Entry, LogEntry
  <2>5. \A j \in DOMAIN undo : j # i =>
          Log[j] = LogEntry(undo[j].file, undo[j].old, undo[j].new, ~undo[j].undone /\ j # i)
    BY <1>5 DEF Logged
  <2> QED
    BY <2>1, <2>2, <2>3, <2>4, <2>5
<1>17. AP!UndoLast(i)
  <2>1. AP!Free(Log[i].from) /\ i \in AP!LiveEntries /\ \A j \in AP!LiveEntries : j <= i
    BY <1>4, <1>6, <1>8
  <2> QED
    BY <1>6, <1>15, <1>16, <2>1 DEF AP!UndoLast, Places
<1> QED
  BY <1>0, <1>3, <1>5, <1>12, <1>13, <1>14, <1>17 DEF StateInv

LEMMA SoloUndoMark ==
  ASSUME Solo, StateInv, MoveInv', NEW p, Proc = {p}, UndoMark(p)
  PROVE  StateInv' /\ Stutter
<1>0. PICK i : i = job[p].entry
  OBVIOUS
<1>1. TypeInv /\ TypeInv' /\ DiskInv /\ RowsInv /\ EntriesInv /\ TodoInv
  BY DEF StateInv, MoveInv
<1>2. /\ pc[p] = "unmark" /\ i \in todo[p] /\ todo[p] \subseteq Live
      /\ Drop(p, i) /\ UNCHANGED <<disk, files, clock>>
  BY <1>0, <1>1 DEF UndoMark, TodoInv, Undoing
<1>3. undo' = [undo EXCEPT ![i].undone = TRUE]
  <2>1. PICK done \in BOOLEAN :
          /\ Attempt(TRUE, done)
          /\ undo' = IF done THEN [undo EXCEPT ![job[p].entry].undone = TRUE] ELSE undo
    BY DEF UndoMark
  <2> QED
    BY <1>0, <1>1, <2>1, Faultless
<1>4. /\ i \in DOMAIN undo /\ DOMAIN undo' = DOMAIN undo
      /\ \A j \in DOMAIN undo \ {i} : undo'[j] = undo[j]
      /\ undo'[i] = [undo[i] EXCEPT !.undone = TRUE] /\ undo[i] \in Entry
  <2>1. i \in DOMAIN undo /\ \A j \in DOMAIN undo : undo[j] \in Entry
    BY <1>1, <1>2, EntryFacts
  <2>2. undo' = [undo EXCEPT ![i] = [undo[i] EXCEPT !.undone = TRUE]]
    BY <1>3
  <2>3. PICK e : e = [undo[i] EXCEPT !.undone = TRUE]
    OBVIOUS
  <2>4. undo' = [undo EXCEPT ![i] = e]
    BY <2>2, <2>3
  <2>5. \A j \in DOMAIN undo : undo'[j] = IF j = i THEN e ELSE undo[j]
    BY <2>4
  <2>6. DOMAIN undo' = DOMAIN undo
    BY <2>4
  <2> QED
    BY <2>1, <2>3, <2>5, <2>6
<1>5. undo'[i].undone = TRUE
  BY <1>4 DEF Entry
<1>6. \A j \in DOMAIN undo : /\ undo'[j].file = undo[j].file /\ undo'[j].old = undo[j].old
                            /\ undo'[j].new = undo[j].new /\ undo'[j].at = undo[j].at
  <2>1. /\ undo'[i].file = undo[i].file /\ undo'[i].old = undo[i].old
        /\ undo'[i].new = undo[i].new /\ undo'[i].at = undo[i].at
    BY <1>4 DEF Entry
  <2> QED
    BY <1>4, <2>1
<1>7. Live' = Live \ {i}
  <2>1. \A j \in DOMAIN undo : ~undo'[j].undone <=> (~undo[j].undone /\ j # i)
    BY <1>4, <1>5
  <2> QED
    BY <1>4, <2>1, Zenon DEF Live
<1>8. /\ todo' = [todo EXCEPT ![p] = @ \ {i}] /\ job' = [job EXCEPT ![p] = NoJob]
      /\ pc' = [pc EXCEPT ![p] = IF todo[p] \ {i} = {} THEN "idle" ELSE "undo"]
  BY <1>2 DEF Drop, Goto
<1>9. /\ todo'[p] = todo[p] \ {i}
      /\ pc'[p] = IF todo[p] \ {i} = {} THEN "idle" ELSE "undo"
  BY <1>1, <1>8 DEF TypeInv, TypeOK
<1>10. EntriesInv'
  <2>1. /\ \A j \in DOMAIN undo : /\ undo'[j].file = undo[j].file /\ undo'[j].old = undo[j].old
                                 /\ undo'[j].at = undo[j].at
        /\ DOMAIN undo' = DOMAIN undo /\ clock' = clock
    BY <1>2, <1>4, <1>6
  <2> QED
    BY <1>1, <2>1 DEF EntriesInv, Stray
<1>11. TodoInv'
  <2>1. \A j \in todo[p] : \A k \in Live : k > j => k \in todo[p]
    BY <1>1 DEF TodoInv
  <2> QED
    BY <1>2, <1>7, <1>9, <2>1 DEF TodoInv, Undoing
<1>12. RowsInv'
  BY <1>1, <1>2, <1>9, SamePlaces DEF RowsInv, Behind
<1>13. Log' = Log
  <2>1. Log = Recorded /\ Log' = Recorded'
    BY <1>2, <1>9 DEF Log, Unrecorded
  <2>2. (\A j : Unmarked(j) <=> j = i) /\ \A j : ~Unmarked(j)'
    BY <1>0, <1>2, <1>9 DEF Unmarked
  <2>3. Recorded' = [j \in DOMAIN undo |->
           LogEntry(undo[j].file, undo[j].old, undo[j].new, ~undo[j].undone /\ ~Unmarked(j))]
    <3>1. \A j \in DOMAIN undo :
            (~undo'[j].undone /\ ~Unmarked(j)') <=> (~undo[j].undone /\ ~Unmarked(j))
      BY <1>4, <1>5, <2>2
    <3>2. Recorded' = [j \in DOMAIN undo |->
             LogEntry(undo'[j].file, undo'[j].old, undo'[j].new, ~undo'[j].undone /\ ~Unmarked(j)')]
      BY <1>4 DEF Recorded
    <3>3. \A j \in DOMAIN undo : /\ undo'[j].file = undo[j].file /\ undo'[j].old = undo[j].old
                                /\ undo'[j].new = undo[j].new
      BY <1>6
    <3> QED
      BY <3>1, <3>2, <3>3
  <2> QED
    BY <2>1, <2>3 DEF Recorded
<1> QED
  BY <1>1, <1>2, <1>10, <1>11, <1>12, <1>13, SameDisk, SamePlaces DEF StateInv, ColumnsInv, Stutter
-----------------------------------------------------------------------------
LEMMA SoloActs ==
  ASSUME Solo, SoloInv, MoveInv', NEW p, Proc = {p}, Next
  PROVE  /\ StateInv'
         /\ \/ Stutter
            \/ AP!Move(job[p].file, job[p].new) /\ job[p].file \in FileId /\ job[p].new \in Path
            \/ job[p].entry \in DOMAIN Log /\ AP!UndoLast(job[p].entry)
<1>1. StateInv /\ pc[p] \notin Replacing /\ p \in Proc
  BY DEF SoloInv, StateInv, MoveInv
<1>2. CASE Begin(p)
  BY <1>1, <1>2, SoloBegin
<1>3. CASE undoAll(p)
  BY <1>1, <1>3, SoloUndoAll
<1>4. CASE executeOperation(p)
  <2>1. pc[p] = "exec" /\ JobOK(p)
    BY <1>1, <1>4 DEF executeOperation, StateInv, MoveInv, TypeInv
  <2>2. job[p].file \in FileId /\ job[p].new \in Path
    BY <2>1 DEF JobOK, Organizing
  <2> QED
    BY <1>1, <1>4, <2>2, SoloExecute
<1>5. CASE recordUndo(p)
  BY <1>1, <1>5, SoloRecord
<1>6. CASE SaveRow(p)
  BY <1>1, <1>6, SoloSave
<1>7. CASE UndoNext(p)
  BY <1>1, <1>7, SoloUndoNext
<1>8. CASE UndoFile(p)
  BY <1>8, SoloUndoFile
<1>9. CASE UndoRow(p)
  BY <1>1, <1>9, SoloUndoRow
<1>10. CASE UndoMark(p)
  BY <1>1, <1>10, SoloUndoMark
<1>11. ~Crash(p)
  BY <1>1 DEF Crash, Solo, StateInv, MoveInv, TypeInv, TypeOK
<1>12. ~(StageBackup(p) \/ CopyOver(p) \/ SwapIn(p) \/ DropBackup(p) \/ RestoreBackup(p))
  BY <1>1 DEF StageBackup, CopyOver, SwapIn, DropBackup, RestoreBackup, Replacing
<1>13. \/ Begin(p) \/ undoAll(p) \/ executeOperation(p) \/ FindRow(p) \/ recordUndo(p) \/ SaveRow(p)
       \/ UndoNext(p) \/ UndoFile(p) \/ UndoRow(p) \/ UndoMark(p)
  BY <1>11, <1>12 DEF Next, Organize, UndoStep, Solo
<1>14. CASE FindRow(p)
  BY <1>1, <1>14, SoloFind
<1> QED
  BY <1>2, <1>3, <1>4, <1>5, <1>6, <1>7, <1>8, <1>9, <1>10, <1>13, <1>14

LEMMA SoloSame ==
  ASSUME SoloInv, UNCHANGED vars
  PROVE  StateInv' /\ Stutter
<1>1. /\ UNCHANGED disk /\ UNCHANGED undo /\ UNCHANGED files /\ UNCHANGED clock
      /\ UNCHANGED pc /\ UNCHANGED job /\ UNCHANGED todo
  BY DEF vars
<1>2. Places' = Places /\ \A f \in FileId : PlaceOf(f)' = PlaceOf(f)
  BY <1>1, SamePlaces
<1>3. Log' = Log
  <2>1. Recorded' = Recorded
    BY <1>1 DEF Recorded, Unmarked
  <2> QED
    BY <1>1, <2>1 DEF Log, Unrecorded
<1>4. MoveInv'
  BY DEF vars, SoloInv, StateInv, MoveInv, TypeInv, TypeOK, JobOK
<1>5. DiskInv' /\ EntriesInv'
  BY <1>1, SameDisk, SameEntries DEF SoloInv, StateInv
<1>6. ColumnsInv' /\ RowsInv'
  <2>1. ColumnsInv'
    BY <1>1 DEF SoloInv, StateInv, ColumnsInv
  <2>2. RowsInv
    BY DEF SoloInv, StateInv
  <2>3. ASSUME NEW p \in Proc, pc[p] \in {"find", "record", "save", "unrow"}
        PROVE  PlaceOf(job[p].file)' = PlaceOf(job[p].file)
    <3>1. job[p].file \in FileId
      <4>1. TypeInv /\ EntriesInv /\ TodoInv
        BY DEF SoloInv, StateInv, MoveInv
      <4>2. CASE pc[p] = "unrow"
        BY <4>1, <4>2, EntryFacts DEF TodoInv, Undoing
      <4>3. CASE pc[p] # "unrow"
        BY <2>3, <4>1, <4>3 DEF TypeInv, JobOK, Organizing
      <4> QED
        BY <4>2, <4>3
    <3> QED
      BY <1>1, <1>2, <3>1
  <2> QED
    BY <1>1, <1>2, <2>1, <2>2, <2>3 DEF RowsInv, Behind
<1>7. TodoInv'
  BY <1>1 DEF SoloInv, StateInv, TodoInv, Live
<1> QED
  BY <1>2, <1>3, <1>4, <1>5, <1>6, <1>7 DEF StateInv, Stutter

LEMMA SoloStep ==
  ASSUME Solo, SoloInv, [Next]_vars
  PROVE  SoloInv' /\ [AP!Next]_(AP!vars)
<1>1. PICK p : Proc = {p}
  BY DEF Solo
<1>2. /\ StateInv'
      /\ \/ Stutter
         \/ AP!Move(job[p].file, job[p].new) /\ job[p].file \in FileId /\ job[p].new \in Path
         \/ job[p].entry \in DOMAIN Log /\ AP!UndoLast(job[p].entry)
  <2>1. CASE Next
    <3>1. MoveInv'
      BY MoveStep DEF Solo, SoloInv, StateInv
    <3> QED
      BY <1>1, <2>1, <3>1, SoloActs
  <2>2. CASE UNCHANGED vars
    BY <2>2, SoloSame
  <2> QED
    BY <2>1, <2>2
<1>3. AP!Next \/ UNCHANGED AP!vars
  BY <1>2 DEF AP!Next, AP!vars, Stutter, Places
<1>4. AP!IInv'
  BY <1>3, AP!IInvKept DEF SoloInv
<1> QED
  BY <1>2, <1>3, <1>4 DEF SoloInv

LEMMA SoloInit ==
  ASSUME Solo, Init
  PROVE  SoloInv /\ AP!Init
<1>1. PICK p : Proc = {p}
  BY DEF Solo
<1>2. /\ Home \in [FileId -> Path] /\ disk = Disk0 /\ undo = <<>> /\ clock = 0
      /\ pc[p] = "idle" /\ todo[p] = {} /\ Live = {}
  BY <1>1, FilesAssumption DEF Init, Live
<1>3. DiskInv
  BY <1>2, DiskAssumption DEF DiskInv, OneCopyEach, OnDisk, ContentOf, Stray
<1>4. MoveInv
  BY MoveInit
<1>5. \A f \in FileId : PlaceOf(f) = Home[f]
  BY <1>2, <1>3, <1>4, PlaceFacts DEF MoveInv, ContentOf
<1>6. ColumnsInv /\ RowsInv
  <2>1. \A f \in FileId : /\ files[f].path = Home[f] /\ files[f].name = Home[f]
                          /\ files[f].archive = IF f \in Packed THEN Home[f] ELSE NoPath
    BY DEF Init
  <2> QED
    BY <1>1, <1>2, <1>5, <2>1, FilesAssumption DEF ColumnsInv, RowsInv, Behind
<1>7. EntriesInv
  BY <1>2 DEF EntriesInv
<1>8. TodoInv
  BY <1>1, <1>2 DEF TodoInv, Undoing
<1>9. AP!Init
  <2>1. Log = <<>>
    BY <1>1, <1>2 DEF Log, Unrecorded, Recorded
  <2> QED
    BY <1>2, <1>5, <2>1 DEF AP!Init
<1>10. AP!IInv
  BY <1>2, <1>9, AP!InitIInv DEF Solo, AP!Distinct
<1> QED
  BY <1>3, <1>4, <1>6, <1>7, <1>8, <1>9, <1>10 DEF SoloInv, StateInv

(* For one process and operations that neither fail nor are interrupted,   *)
(* on a disk no other program writes: what the engine does is what the     *)
(* abstract log of moves does, the rename being the moment of a move and   *)
(* the rename back the moment of its undoing.                              *)
THEOREM EngineImplementsUndoLog ==
  ASSUME Solo
  PROVE  Spec => ImplementsUndoLog
<1>1. Init => SoloInv /\ Abstract!Init
  BY SoloInit DEF AP!Init, Abstract!Init
<1>2. SoloInv /\ [Next]_vars => SoloInv' /\ [Abstract!Next]_(Abstract!vars)
  <2> SUFFICES ASSUME SoloInv, [Next]_vars PROVE SoloInv' /\ [Abstract!Next]_(Abstract!vars)
    OBVIOUS
  <2>1. SoloInv' /\ [AP!Next]_(AP!vars)
    BY SoloStep
  <2>2. AP!Next => Abstract!Next
    BY DEF AP!Next, AP!Move, AP!UndoLast, AP!Free, AP!LiveEntries, AP!Undone, AP!Entry,
           Abstract!Next, Abstract!Move, Abstract!UndoLast, Abstract!Free, Abstract!LiveEntries,
           Abstract!Undone, Abstract!Entry
  <2> QED
    BY <2>1, <2>2 DEF AP!vars, Abstract!vars
<1> QED
  BY <1>1, <1>2, PTL DEF Spec, ImplementsUndoLog, Abstract!Spec

(* ... and so between commands every row names the place its file lies at. *)
THEOREM RowsKeepUp ==
  ASSUME Solo
  PROVE  Spec => []RowsFollowFiles
<1>1. SoloInv => RowsFollowFiles
  <2> SUFFICES ASSUME SoloInv, Quiet, NEW f \in FileId
               PROVE  /\ disk[files[f].path] = Disk0[Home[f]]
                      /\ files[f].path = IF f \in Packed THEN files[f].archive ELSE files[f].name
    BY DEF RowsFollowFiles
  <2>1. files[f].path = PlaceOf(f)
    BY DEF SoloInv, StateInv, RowsInv, Quiet, Behind
  <2>2. disk[PlaceOf(f)] = Disk0[Home[f]]
    BY PlaceFacts DEF SoloInv, StateInv, MoveInv, ContentOf
  <2> QED
    BY <2>1, <2>2 DEF SoloInv, StateInv, ColumnsInv
<1> QED
  BY <1>1, SoloInit, SoloStep, PTL DEF Spec

(* ... and when every entry is undone, the disk and the rows are as they   *)
(* were before the first command.                                          *)
THEOREM UndoRestores ==
  ASSUME Solo
  PROVE  Spec => []UndoAllRestores
<1>1. SoloInv => UndoAllRestores
  <2> SUFFICES ASSUME SoloInv, Quiet, Live = {}
               PROVE  disk = Disk0 /\ \A f \in FileId : files[f].path = Home[f]
    BY DEF UndoAllRestores
  <2>1. TypeInv /\ DiskInv /\ RowsInv /\ EntriesInv /\ Home \in [FileId -> Path]
    BY FilesAssumption DEF SoloInv, StateInv, MoveInv
  <2>2. PICK p : Proc = {p}
    BY DEF Solo
  <2>3. AP!LiveEntries = {}
    <3>1. pc[p] = "idle"
      BY <2>2 DEF Quiet
    <3>2. /\ Log = Recorded /\ DOMAIN Recorded = DOMAIN undo
          /\ \A i \in DOMAIN undo : Recorded[i] = Logged(i, ~undo[i].undone /\ ~Unmarked(i))
      BY <2>1, <2>2, <3>1, LogShape
    <3>3. \A i \in DOMAIN undo : undo[i].undone
      BY DEF Live
    <3>4. \A i \in DOMAIN undo : (~undo[i].undone /\ ~Unmarked(i)) = FALSE
      BY <3>3
    <3>5. \A i \in DOMAIN undo : Recorded[i] = Logged(i, FALSE)
      BY <3>2, <3>4
    <3>6. \A i : Logged(i, FALSE).live = FALSE
      BY DEF Logged, LogEntry
    <3> QED
      BY <3>2, <3>5, <3>6 DEF AP!LiveEntries
  <2>4. \A f \in FileId : PlaceOf(f) = Home[f]
    <3>1. Places = Home
      <4>1. AP!Inv
        BY DEF SoloInv, AP!IInv
      <4>2. AP!AllUndoneIsStart
        BY <2>1, <4>1, AP!InvRestores
      <4> QED
        BY <2>3, <4>2 DEF AP!AllUndoneIsStart, Places
    <3> QED
      BY <3>1 DEF Places
  <2>5. \A f \in FileId : files[f].path = Home[f]
    BY <2>1, <2>4 DEF RowsInv, Quiet, Behind
  <2>6. ASSUME NEW q \in Path PROVE disk[q] = Disk0[q]
    <3>1. CASE Stray(q)
      BY <2>1, <3>1 DEF DiskInv
    <3>2. CASE \E f \in FileId : Home[f] = q
      BY <2>1, <2>4, <3>2, PlaceFacts DEF ContentOf
    <3>3. CASE Disk0[q] = NoFile /\ \A f \in FileId : Home[f] # q
      <4>1. ~Stray(q) /\ \A f \in FileId : disk[q] # ContentOf(f)
        BY <2>1, <2>4, <3>3, PlaceFacts DEF Stray
      <4> QED
        BY <2>1, <3>3, <4>1 DEF DiskInv
    <3> QED
      BY <3>1, <3>2, <3>3 DEF Stray
  <2> QED
    BY <2>1, <2>5, <2>6, DiskAssumption DEF TypeInv, TypeOK
<1> QED
  BY <1>1, SoloInit, SoloStep, PTL DEF Spec
=============================================================================
