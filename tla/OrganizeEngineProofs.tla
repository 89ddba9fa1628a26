------------------------ MODULE OrganizeEngineProofs ------------------------
(***************************************************************************)
(* Theorems about OrganizeEngine for any number of processes, files and    *)
(* paths, any failures and any crashes.                                    *)
(***************************************************************************)
EXTENDS OrganizeEngine, FiniteSetTheorems, SequenceTheorems, WellFoundedInduction, TLAPS

Organizing == {"stage", "exec", "copyover", "swapin", "drop", "restore",
               "find", "record", "save"}

Undoing == {"unfs", "unrow", "unmark"}

(* What the locals of a process hold at each of its steps.                 *)
JobOK(p) ==
    /\ pc[p] \in Organizing =>
         job[p].file \in FileId /\ job[p].old \in Path /\ job[p].new \in Path
    /\ pc[p] \in Undoing =>
         job[p].entry \in DOMAIN undo /\ job[p].old \in Path /\ job[p].new \in Path
    /\ pc[p] \in {"stage", "copyover", "swapin", "drop", "restore"} => job[p].over
    /\ pc[p] \in {"copyover", "swapin", "drop", "restore"} => job[p].backup \in Path
    /\ pc[p] = "exec" /\ job[p].over => job[p].backup \in Path
    /\ pc[p] = "swapin" => job[p].staged \in Path
    /\ pc[p] = "unrow" => job[p].file > 0
    /\ todo[p] \subseteq DOMAIN undo

TypeInv == TypeOK /\ \A p \in Proc : JobOK(p)

LEMMA NoJobTyped == NoJob \in Job
  BY DEF NoJob, JobFor, Job

LEMMA TypeInit == Init => TypeInv
<1> SUFFICES ASSUME Init PROVE TypeInv
  OBVIOUS
<1>1. disk \in [Path -> Content \cup {NoFile}]
  BY DiskAssumption DEF Init
<1>2. files \in [FileId -> Row]
  BY FilesAssumption DEF Init, Row
<1>3. undo \in Seq(Entry) /\ DOMAIN undo = {}
  BY EmptySeq DEF Init
<1>4. TypeOK
  BY <1>1, <1>2, <1>3, NoJobTyped, OptionsAssumption DEF Init, TypeOK, Steps
<1>5. \A p \in Proc : JobOK(p)
  BY <1>3 DEF Init, JobOK, NoJob, JobFor, Organizing, Undoing
<1> QED
  BY <1>4, <1>5 DEF TypeInv

LEMMA AttemptTyped ==
  ASSUME faults \in 0 .. MaxFaults, NEW can \in BOOLEAN, NEW done \in BOOLEAN,
         Attempt(can, done)
  PROVE  /\ faults' \in 0 .. MaxFaults
         /\ done => can
  BY OptionsAssumption DEF Attempt

LEMMA AtPathTyped ==
  ASSUME files \in [FileId -> Row], NEW f \in FileId, NEW q \in Path
  PROVE  AtPath(f, q) \in Row
  BY FilesAssumption DEF AtPath, Row

LEMMA LeastNat ==
  ASSUME NEW S \in SUBSET Nat, S # {}
  PROVE  \E n \in S : \A m \in S : n <= m
<1> DEFINE Less == OpToRel(<, Nat)
<1>1. IsWellFoundedOn(Less, Nat)
  BY NatLessThanWellFounded
<1>2. PICK n \in S : \A m \in S : <<m, n>> \notin Less
  BY <1>1, WFMin, Zenon
<1>3. \A m \in S : ~(m < n)
  BY <1>2 DEF OpToRel
<1> QED
  BY <1>3

LEMMA RowAtTyped ==
  ASSUME NEW q \in Path
  PROVE  RowAt(q) \in FileId \cup {0}
<1>1. CASE RowsAt(q) = {}
  BY <1>1 DEF RowAt
<1>2. CASE RowsAt(q) # {}
  <2>1. RowsAt(q) \in SUBSET Nat
    BY FilesAssumption DEF RowsAt
  <2>2. \E f \in RowsAt(q) : \A g \in RowsAt(q) : f <= g
    BY <1>2, <2>1, LeastNat
  <2> QED
    BY <1>2, <2>2 DEF RowAt, RowsAt
<1> QED
  BY <1>1, <1>2

LEMMA ResolvedTyped ==
  ASSUME NEW t \in Path, FreeSuffixes(t) # {}
  PROVE  resolveCollision(t) \in Path
<1>1. Suffixed[t] \in Seq(Path)
  BY NamesAssumption
<1>2. DOMAIN Suffixed[t] \subseteq Nat /\ \A k \in DOMAIN Suffixed[t] : Suffixed[t][k] \in Path
  BY <1>1, LenProperties, ElementOfSeq
<1>3. FreeSuffixes(t) \in SUBSET Nat
  BY <1>2 DEF FreeSuffixes
<1>4. \E k \in FreeSuffixes(t) : \A j \in FreeSuffixes(t) : k <= j
  BY <1>3, LeastNat
<1> DEFINE least == CHOOSE k \in FreeSuffixes(t) : \A j \in FreeSuffixes(t) : k <= j
<1>5. least \in FreeSuffixes(t)
  BY <1>4
<1>6. least \in DOMAIN Suffixed[t]
  BY <1>5 DEF FreeSuffixes
<1> HIDE DEF least
<1>7. Suffixed[t][least] \in Path
  BY <1>2, <1>6
<1> QED
  BY <1>7 DEF resolveCollision, least

(* A step of one process leaves the locals of the others as they were.     *)
LEMMA OthersKept ==
  ASSUME TypeInv, NEW p \in Proc,
         \A r \in Proc \ {p} : pc'[r] = pc[r] /\ job'[r] = job[r] /\ todo'[r] = todo[r],
         DOMAIN undo \subseteq DOMAIN undo',
         TypeOK', JobOK(p)'
  PROVE  TypeInv'
<1>1. ASSUME NEW r \in Proc \ {p} PROVE JobOK(r)'
  <2>1. pc'[r] = pc[r] /\ job'[r] = job[r] /\ todo'[r] = todo[r]
    OBVIOUS
  <2>2. JobOK(r)
    BY DEF TypeInv
  <2> QED
    BY <2>1, <2>2 DEF JobOK
<1> QED
  BY <1>1 DEF TypeInv

LEMMA JobForTyped ==
  ASSUME NEW f \in FileId \cup {0}, NEW op \in {"move", "copy"},
         NEW old \in Path \cup {NoPath}, NEW new \in Path \cup {NoPath},
         NEW over \in BOOLEAN, NEW i \in Nat
  PROVE  JobFor(f, op, old, new, over, i) \in Job
  BY DEF JobFor, Job

LEMMA BeginTyped ==
  ASSUME TypeInv, NEW p \in Proc, Begin(p)
  PROVE  TypeInv'
<1>1. PICK f \in FileId, op \in Ops, s \in Strategies, t \in Path : BeginFile(p, f, op, s, t)
  BY FilesAssumption DEF Begin, generateDestinationPath
<1> DEFINE over == wouldCollide(t) /\ s = "overwrite"
           step == IF over THEN "stage" ELSE "exec"
           this == JobFor(f, op, files[f].path, Destination(t, s), over, 0)
<1>2. Destination(t, s) \in Path
  BY <1>1, ResolvedTyped DEF BeginFile, Destination
<1>3. /\ files[f].path \in Path /\ op \in {"move", "copy"} /\ over \in BOOLEAN
      /\ step \in Steps /\ (step = "stage" => over) /\ (step = "exec" => ~over)
  BY OptionsAssumption DEF TypeInv, TypeOK, Row, wouldCollide, Exists, Steps
<1>4. this \in Job
  BY <1>2, <1>3, JobForTyped
<1>5. /\ job' = [job EXCEPT ![p] = this] /\ pc' = [pc EXCEPT ![p] = step]
      /\ UNCHANGED <<disk, files, undo, clock, todo, faults, crashes>>
  BY <1>1 DEF BeginFile, Goto, Begin
<1>6. this.file \in FileId /\ this.old \in Path /\ this.new \in Path /\ this.over = over
  BY <1>2, <1>3 DEF JobFor
<1> HIDE DEF over, step, this
<1>7. TypeOK'
  BY <1>3, <1>4, <1>5 DEF TypeInv, TypeOK
<1>8. JobOK(p)'
  <2>1. job'[p] = this /\ pc'[p] = step /\ step \in {"stage", "exec"}
    BY <1>5 DEF TypeInv, TypeOK, step
  <2>2. todo'[p] \subseteq DOMAIN undo'
    BY <1>5 DEF TypeInv, JobOK
  <2> QED
    BY <1>3, <1>6, <2>1, <2>2 DEF JobOK, Organizing, Undoing
<1> QED
  BY <1>5, <1>7, <1>8, OthersKept DEF TypeInv, TypeOK

(* What the file operations leave is a disk.                               *)
LEMMA DiskTyped ==
  ASSUME disk \in [Path -> Content \cup {NoFile}], NEW q \in Path, NEW r \in Path
  PROVE  /\ Renamed(q, r) \in [Path -> Content \cup {NoFile}]
         /\ Copied(q, r) \in [Path -> Content \cup {NoFile}]
         /\ Removed(q) \in [Path -> Content \cup {NoFile}]
  BY DEF Renamed, Copied, Removed

LEMMA FinishTyped ==
  ASSUME TypeInv, NEW p \in Proc, Finish(p)
  PROVE  /\ pc' \in [Proc -> Steps \cup {"idle"}] /\ job' \in [Proc -> Job]
         /\ pc'[p] = "idle" /\ job'[p] = NoJob
         /\ \A r \in Proc \ {p} : pc'[r] = pc[r] /\ job'[r] = job[r]
  BY NoJobTyped DEF Finish, Goto, TypeInv, TypeOK

LEMMA GotoTyped ==
  ASSUME TypeInv, NEW p \in Proc, NEW step \in Steps \cup {"idle"}, Goto(p, step)
  PROVE  /\ pc' \in [Proc -> Steps \cup {"idle"}] /\ pc'[p] = step
         /\ \A r \in Proc \ {p} : pc'[r] = pc[r]
  BY DEF Goto, TypeInv, TypeOK

LEMMA IdleOK ==
  ASSUME NEW p \in Proc, pc[p] = "idle", todo[p] \subseteq DOMAIN undo
  PROVE  JobOK(p)
  BY DEF JobOK, Organizing, Undoing

LEMMA JobFieldsTyped ==
  ASSUME NEW j \in Job, NEW q \in Path
  PROVE  [j EXCEPT !.backup = q] \in Job /\ [j EXCEPT !.staged = q] \in Job
  BY DEF Job

LEMMA StageBackupTyped ==
  ASSUME TypeInv, NEW p \in Proc, StageBackup(p)
  PROVE  TypeInv'
<1> USE DEF TypeInv, TypeOK
<1>1. PICK b \in Path, done \in BOOLEAN :
        /\ b \in Stash[job[p].new]
        /\ Attempt(CanRename(job[p].new, b), done)
        /\ IF done
           THEN /\ disk' = Aside(job[p].new, b)
                /\ job' = [job EXCEPT ![p].backup = b]
                /\ Goto(p, IF job[p].op = "copy" THEN "copyover" ELSE "exec")
           ELSE Finish(p) /\ UNCHANGED disk
  BY NamesAssumption DEF StageBackup, JobOK, Organizing
<1>2. /\ UNCHANGED <<files, undo, clock, todo, crashes>> /\ faults' \in 0 .. MaxFaults
      /\ job[p].new \in Path /\ pc[p] = "stage" /\ JobOK(p)
  BY <1>1, AttemptTyped DEF StageBackup, JobOK, Organizing, CanRename
<1>3. CASE done
  <2>1. disk' \in [Path -> Content \cup {NoFile}]
    BY <1>1, <1>2, <1>3, DiskTyped DEF Aside
  <2>2. job' = [job EXCEPT ![p].backup = b]
    BY <1>1, <1>3
  <2>3. job' \in [Proc -> Job] /\ \A r \in Proc \ {p} : job'[r] = job[r]
    <3>1. [job[p] EXCEPT !.backup = b] \in Job
      BY JobFieldsTyped
    <3>2. job' = [job EXCEPT ![p] = [job[p] EXCEPT !.backup = b]]
      BY <2>2
    <3> QED
      BY <3>1, <3>2
  <2>4. PICK step \in {"copyover", "exec"} : Goto(p, step)
    BY <1>1, <1>3
  <2>5. /\ pc' \in [Proc -> Steps \cup {"idle"}] /\ pc'[p] = step
        /\ \A r \in Proc \ {p} : pc'[r] = pc[r]
    BY <2>4, GotoTyped DEF Steps
  <2>6. JobOK(p)'
    BY <1>2, <2>2, <2>5 DEF JobOK, Organizing, Undoing, Job
  <2> QED
    BY <1>2, <2>1, <2>3, <2>5, <2>6, OthersKept
<1>4. CASE ~done
  <2>1. Finish(p) /\ UNCHANGED disk
    BY <1>1, <1>4
  <2>2. JobOK(p)'
    BY <1>2, <2>1, FinishTyped DEF JobOK, Organizing, Undoing
  <2> QED
    BY <1>2, <2>1, <2>2, FinishTyped, OthersKept
<1> QED
  BY <1>3, <1>4

LEMMA ExecuteTyped ==
  ASSUME TypeInv, NEW p \in Proc, executeOperation(p)
  PROVE  TypeInv'
<1> USE DEF TypeInv, TypeOK
<1>1. PICK done \in BOOLEAN :
        /\ Attempt(CanRename(job[p].old, job[p].new), done)
        /\ IF done
           THEN disk' = Performed(p) /\ Goto(p, AfterSuccess(p)) /\ UNCHANGED job
           ELSE /\ UNCHANGED disk
                /\ Goto(p, AfterFailure(p))
                /\ job' = IF job[p].over THEN job ELSE [job EXCEPT ![p] = NoJob]
  BY DEF executeOperation
<1>2. /\ UNCHANGED <<files, undo, clock, todo, crashes>> /\ faults' \in 0 .. MaxFaults
      /\ job[p].old \in Path /\ job[p].new \in Path /\ pc[p] = "exec" /\ JobOK(p)
  BY <1>1, AttemptTyped DEF executeOperation, JobOK, Organizing, CanRename
<1>3. disk' \in [Path -> Content \cup {NoFile}]
  BY <1>1, <1>2, DiskTyped DEF Performed
<1>4. job' \in [Proc -> Job] /\ \A r \in Proc \ {p} : job'[r] = job[r]
  BY <1>1, NoJobTyped
<1>5. PICK step \in {"drop", "find", "restore", "idle"} :
        /\ Goto(p, step)
        /\ step \in {"drop", "restore"} => job[p].over
        /\ step # "idle" => job' = job
  BY <1>1 DEF AfterSuccess, AfterFailure
<1>6. /\ pc' \in [Proc -> Steps \cup {"idle"}] /\ pc'[p] = step
      /\ \A r \in Proc \ {p} : pc'[r] = pc[r]
  BY <1>5, GotoTyped DEF Steps
<1>7. JobOK(p)'
  BY <1>2, <1>5, <1>6 DEF JobOK, Organizing, Undoing
<1> QED
  BY <1>2, <1>3, <1>4, <1>6, <1>7, OthersKept

LEMMA CopyOverTyped ==
  ASSUME TypeInv, NEW p \in Proc, CopyOver(p)
  PROVE  TypeInv'
<1> USE DEF TypeInv, TypeOK
<1>1. /\ job[p].old \in Path /\ job[p].new \in Path /\ pc[p] = "copyover" /\ JobOK(p)
      /\ UNCHANGED <<files, undo, clock, todo, crashes>>
  BY DEF CopyOver, JobOK, Organizing
<1>2. PICK s \in Path, done \in BOOLEAN :
        /\ Attempt(CanRename(job[p].old, s), done)
        /\ job' = [job EXCEPT ![p].staged = s]
        /\ IF done
           THEN disk' = Copied(job[p].old, s) /\ Goto(p, "swapin")
           ELSE disk' = Removed(s) /\ Goto(p, "restore")
  BY <1>1, NamesAssumption DEF CopyOver
<1>3. disk' \in [Path -> Content \cup {NoFile}] /\ faults' \in 0 .. MaxFaults
  BY <1>1, <1>2, AttemptTyped, DiskTyped DEF CanRename
<1>4. job' \in [Proc -> Job] /\ \A r \in Proc \ {p} : job'[r] = job[r]
  <2>1. [job[p] EXCEPT !.staged = s] \in Job
    BY JobFieldsTyped
  <2>2. job' = [job EXCEPT ![p] = [job[p] EXCEPT !.staged = s]]
    BY <1>2
  <2> QED
    BY <2>1, <2>2
<1>5. PICK step \in {"swapin", "restore"} : Goto(p, step)
  BY <1>2
<1>6. /\ pc' \in [Proc -> Steps \cup {"idle"}] /\ pc'[p] = step
      /\ \A r \in Proc \ {p} : pc'[r] = pc[r]
  BY <1>5, GotoTyped DEF Steps
<1>7. JobOK(p)'
  BY <1>1, <1>2, <1>6 DEF JobOK, Organizing, Undoing, Job
<1> QED
  BY <1>1, <1>3, <1>4, <1>6, <1>7, OthersKept

LEMMA SwapInTyped ==
  ASSUME TypeInv, NEW p \in Proc, SwapIn(p)
  PROVE  TypeInv'
<1> USE DEF TypeInv, TypeOK
<1>1. /\ job[p].new \in Path /\ job[p].staged \in Path /\ pc[p] = "swapin" /\ JobOK(p)
      /\ UNCHANGED <<files, undo, clock, job, todo, crashes>>
  BY DEF SwapIn, JobOK, Organizing
<1>2. PICK done \in BOOLEAN :
        /\ Attempt(CanRename(job[p].staged, job[p].new), done)
        /\ IF done
           THEN disk' = Renamed(job[p].staged, job[p].new) /\ Goto(p, AfterSuccess(p))
           ELSE disk' = Removed(job[p].staged) /\ Goto(p, "restore")
  BY DEF SwapIn
<1>3. disk' \in [Path -> Content \cup {NoFile}] /\ faults' \in 0 .. MaxFaults
  BY <1>1, <1>2, AttemptTyped, DiskTyped DEF CanRename
<1>4. PICK step \in {"drop", "restore"} : Goto(p, step)
  BY <1>1, <1>2 DEF AfterSuccess, JobOK
<1>5. /\ pc' \in [Proc -> Steps \cup {"idle"}] /\ pc'[p] = step
      /\ \A r \in Proc \ {p} : pc'[r] = pc[r]
  BY <1>4, GotoTyped DEF Steps
<1>6. JobOK(p)'
  BY <1>1, <1>5 DEF JobOK, Organizing, Undoing
<1> QED
  BY <1>1, <1>3, <1>5, <1>6, OthersKept

LEMMA DropBackupTyped ==
  ASSUME TypeInv, NEW p \in Proc, DropBackup(p)
  PROVE  TypeInv'
<1> USE DEF TypeInv, TypeOK
<1>1. /\ job[p].backup \in Path /\ pc[p] = "drop" /\ JobOK(p) /\ Goto(p, "find")
      /\ UNCHANGED <<files, undo, clock, job, todo, crashes>>
  BY DEF DropBackup, JobOK, Organizing
<1>2. disk' \in [Path -> Content \cup {NoFile}] /\ faults' \in 0 .. MaxFaults
  BY <1>1, AttemptTyped, DiskTyped DEF DropBackup, Exists
<1>3. /\ pc' \in [Proc -> Steps \cup {"idle"}] /\ pc'[p] = "find"
      /\ \A r \in Proc \ {p} : pc'[r] = pc[r]
  BY <1>1, GotoTyped DEF Steps
<1>4. JobOK(p)'
  BY <1>1, <1>3 DEF JobOK, Organizing, Undoing
<1> QED
  BY <1>1, <1>2, <1>3, <1>4, OthersKept

LEMMA RestoreBackupTyped ==
  ASSUME TypeInv, NEW p \in Proc, RestoreBackup(p)
  PROVE  TypeInv'
<1> USE DEF TypeInv, TypeOK
<1>1. /\ job[p].backup \in Path /\ job[p].new \in Path /\ JobOK(p) /\ Finish(p)
      /\ UNCHANGED <<files, undo, clock, todo, crashes>>
  BY DEF RestoreBackup, JobOK, Organizing
<1>2. faults' \in 0 .. MaxFaults
  BY OptionsAssumption DEF RestoreBackup
<1>3. disk' \in {disk, Removed(job[p].new),
                 [Removed(job[p].backup) EXCEPT ![job[p].new] = disk[job[p].backup]]}
  BY DEF RestoreBackup
<1>4. disk' \in [Path -> Content \cup {NoFile}]
  BY <1>1, <1>3 DEF Removed
<1>5. JobOK(p)'
  BY <1>1, FinishTyped, IdleOK DEF JobOK, Organizing, Undoing
<1> QED
  BY <1>1, <1>2, <1>4, <1>5, FinishTyped, OthersKept

(* The SELECT of recordUndo changes one field of the locals.               *)
LEMMA Found ==
  ASSUME TypeInv, NEW p \in Proc, FindRow(p)
  PROVE  /\ pc[p] = "find" /\ Goto(p, "record")
         /\ UNCHANGED <<disk, files, undo, clock, todo, crashes>>
         /\ job' \in [Proc -> Job] /\ \A r \in Proc \ {p} : job'[r] = job[r]
         /\ \E f \in FileId \cup {0} : job'[p] = [job[p] EXCEPT !.row = f]
<1>1. /\ pc[p] = "find" /\ Goto(p, "record") /\ job[p].old \in Path /\ job[p] \in Job
      /\ UNCHANGED <<disk, files, undo, clock, todo, crashes>>
  BY DEF FindRow, TypeInv, TypeOK, JobOK, Organizing
<1>2. PICK f \in FileId \cup {0} : job' = [job EXCEPT ![p].row = f]
  BY <1>1, RowAtTyped DEF FindRow
<1>3. [job[p] EXCEPT !.row = f] \in Job
  BY <1>1 DEF Job
<1>4. job' = [job EXCEPT ![p] = [job[p] EXCEPT !.row = f]]
  BY <1>2
<1> QED
  BY <1>1, <1>3, <1>4 DEF TypeInv, TypeOK

LEMMA FindTyped ==
  ASSUME TypeInv, NEW p \in Proc, FindRow(p)
  PROVE  TypeInv'
<1> USE DEF TypeInv, TypeOK
<1>1. /\ pc[p] = "find" /\ Goto(p, "record") /\ job' \in [Proc -> Job]
      /\ \A r \in Proc \ {p} : job'[r] = job[r]
      /\ UNCHANGED <<disk, files, undo, clock, todo, crashes>>
  BY Found
<1>2. PICK f \in FileId \cup {0} : job'[p] = [job[p] EXCEPT !.row = f]
  BY Found
<1>3. faults' \in 0 .. MaxFaults
  BY AttemptTyped DEF FindRow
<1>4. /\ pc' \in [Proc -> Steps \cup {"idle"}] /\ pc'[p] = "record"
      /\ \A r \in Proc \ {p} : pc'[r] = pc[r]
  BY <1>1, GotoTyped DEF Steps
<1>5. /\ job'[p].file = job[p].file /\ job'[p].old = job[p].old /\ job'[p].new = job[p].new
  BY <1>2 DEF Job
<1>6. JobOK(p)'
  BY <1>1, <1>4, <1>5 DEF JobOK, Organizing, Undoing
<1> QED
  BY <1>1, <1>3, <1>4, <1>6, OthersKept

LEMMA RecordTyped ==
  ASSUME TypeInv, NEW p \in Proc, recordUndo(p)
  PROVE  TypeInv'
<1> USE DEF TypeInv, TypeOK
<1>1. /\ job[p].old \in Path /\ job[p].new \in Path /\ job[p].file \in FileId
      /\ pc[p] = "record" /\ JobOK(p) /\ Goto(p, "save")
      /\ UNCHANGED <<disk, files, job, todo, crashes>>
  BY DEF recordUndo, JobOK, Organizing
<1>2. faults' \in 0 .. MaxFaults
  BY AttemptTyped DEF recordUndo
<1>3. undo' \in Seq(Entry) /\ clock' \in Nat /\ DOMAIN undo \subseteq DOMAIN undo'
  <2>1. CASE UNCHANGED <<undo, clock>>
    BY <2>1
  <2>2. ASSUME NEW gap \in Gaps, clock' = clock + gap, undo' = Inserted(p, clock + gap)
        PROVE  undo' \in Seq(Entry) /\ clock' \in Nat /\ DOMAIN undo \subseteq DOMAIN undo'
    <3>1. clock + gap \in Nat
      BY OptionsAssumption
    <3>2. NewEntry(p, clock + gap) \in Entry
      BY <1>1, <3>1 DEF NewEntry, Entry, Job
    <3> HIDE DEF TypeInv, TypeOK
    <3>3. undo \in Seq(Entry)
      BY DEF TypeInv, TypeOK
    <3>4. undo' \in Seq(Entry) /\ Len(undo') = Len(undo) + 1
      BY <2>2, <3>2, <3>3, AppendProperties DEF Inserted
    <3>5. DOMAIN undo = 1 .. Len(undo) /\ DOMAIN undo' = 1 .. Len(undo') /\ Len(undo) \in Nat
      BY <3>3, <3>4, LenProperties
    <3> QED
      BY <2>2, <3>1, <3>4, <3>5
  <2> QED
    BY <2>1, <2>2 DEF recordUndo
<1>4. /\ pc' \in [Proc -> Steps \cup {"idle"}] /\ pc'[p] = "save"
      /\ \A r \in Proc \ {p} : pc'[r] = pc[r]
  BY <1>1, GotoTyped DEF Steps
<1>5. JobOK(p)'
  BY <1>1, <1>3, <1>4 DEF JobOK, Organizing, Undoing
<1> QED
  BY <1>1, <1>2, <1>3, <1>4, <1>5, OthersKept

LEMMA SaveTyped ==
  ASSUME TypeInv, NEW p \in Proc, SaveRow(p)
  PROVE  TypeInv'
<1> USE DEF TypeInv, TypeOK
<1>1. /\ job[p].new \in Path /\ job[p].file \in FileId /\ JobOK(p) /\ Finish(p)
      /\ UNCHANGED <<disk, undo, clock, todo, crashes>>
  BY DEF SaveRow, JobOK, Organizing
<1>2. faults' \in 0 .. MaxFaults
  BY AttemptTyped DEF SaveRow
<1>3. files' \in [FileId -> Row]
  BY <1>1, AtPathTyped DEF SaveRow
<1>4. JobOK(p)'
  BY <1>1, FinishTyped, IdleOK DEF JobOK, Organizing, Undoing
<1> QED
  BY <1>1, <1>2, <1>3, <1>4, FinishTyped, OthersKept

LEMMA UndoAllTyped ==
  ASSUME TypeInv, NEW p \in Proc, undoAll(p)
  PROVE  TypeInv'
<1> USE DEF TypeInv, TypeOK
<1>1. DOMAIN undo \subseteq Nat
  BY LenProperties
<1>2. PICK S \in SUBSET DOMAIN undo : todo' = [todo EXCEPT ![p] = S]
  <2>1. PICK S \in (IF "all" \in Undoes THEN {Live} ELSE {})
                   \cup (IF "last" \in Undoes THEN {{i} : i \in Latest(Live)} ELSE {})
                   \cup (IF "one" \in Undoes THEN {{i} : i \in DOMAIN undo} ELSE {}) :
          todo' = [todo EXCEPT ![p] = S]
    BY Zenon DEF undoAll
  <2>2. S = Live \/ (\E i \in Latest(Live) : S = {i}) \/ (\E i \in DOMAIN undo : S = {i})
    BY <2>1, Zenon
  <2>3. S \in SUBSET DOMAIN undo
    BY <2>2 DEF Live, Latest
  <2> QED
    BY <2>1, <2>3
<1>3. UNCHANGED <<disk, files, undo, clock, job, faults, crashes>> /\ Goto(p, "undo")
  BY DEF undoAll
<1>4. /\ pc' \in [Proc -> Steps \cup {"idle"}] /\ pc'[p] = "undo"
      /\ \A r \in Proc \ {p} : pc'[r] = pc[r]
  BY <1>3, GotoTyped DEF Steps
<1>5. JobOK(p)'
  BY <1>2, <1>3, <1>4 DEF JobOK, Organizing, Undoing
<1> QED
  BY <1>1, <1>2, <1>3, <1>4, <1>5, OthersKept

LEMMA DropTyped ==
  ASSUME TypeInv, NEW p \in Proc, NEW i, Drop(p, i)
  PROVE  /\ pc' \in [Proc -> Steps \cup {"idle"}] /\ job' \in [Proc -> Job]
         /\ todo' \in [Proc -> SUBSET Nat]
         /\ pc'[p] \in {"idle", "undo"} /\ job'[p] = NoJob /\ todo'[p] \subseteq todo[p]
         /\ \A r \in Proc \ {p} : pc'[r] = pc[r] /\ job'[r] = job[r] /\ todo'[r] = todo[r]
<1>1. PICK step \in {"idle", "undo"} : Goto(p, step)
  BY DEF Drop
<1>2. /\ pc' \in [Proc -> Steps \cup {"idle"}] /\ pc'[p] = step
      /\ \A r \in Proc \ {p} : pc'[r] = pc[r]
  BY <1>1, GotoTyped DEF Steps
<1> QED
  BY <1>2, NoJobTyped DEF Drop, TypeInv, TypeOK

LEMMA DropOK ==
  ASSUME TypeInv, NEW p \in Proc, NEW i, Drop(p, i), DOMAIN undo' = DOMAIN undo
  PROVE  JobOK(p)'
  BY DropTyped DEF TypeInv, JobOK, Organizing, Undoing

LEMMA UndoNextTyped ==
  ASSUME TypeInv, NEW p \in Proc, UndoNext(p)
  PROVE  TypeInv'
<1> USE DEF TypeInv, TypeOK
<1>1. UNCHANGED <<disk, files, undo, clock, faults, crashes>> /\ JobOK(p)
  BY DEF UndoNext
<1>2. PICK i \in todo[p] :
        IF undo[i].undone
        THEN Drop(p, i)
        ELSE /\ job' = [job EXCEPT ![p] =
                  JobFor(undo[i].file, undo[i].op, undo[i].old, undo[i].new, FALSE, i)]
             /\ Goto(p, "unfs")
             /\ UNCHANGED todo
  BY DEF UndoNext, Latest
<1>3. CASE undo[i].undone
  BY <1>1, <1>2, <1>3, DropTyped, DropOK, OthersKept
<1>4. CASE ~undo[i].undone
  <2> DEFINE this == JobFor(undo[i].file, undo[i].op, undo[i].old, undo[i].new, FALSE, i)
  <2>1. i \in DOMAIN undo /\ i \in Nat
    BY <1>1 DEF JobOK
  <2>2. undo[i] \in Entry
    BY <2>1, ElementOfSeq, LenProperties
  <2>3. this \in Job
    BY <2>1, <2>2, JobForTyped DEF Entry
  <2>4. this.entry = i /\ this.old \in Path /\ this.new \in Path
    BY <2>2 DEF JobFor, Entry
  <2> HIDE DEF this
  <2>5. job' = [job EXCEPT ![p] = this] /\ Goto(p, "unfs") /\ UNCHANGED todo
    BY <1>2, <1>4 DEF this
  <2>6. /\ pc' \in [Proc -> Steps \cup {"idle"}] /\ pc'[p] = "unfs"
        /\ \A r \in Proc \ {p} : pc'[r] = pc[r]
    BY <2>5, GotoTyped DEF Steps
  <2>7. JobOK(p)'
    BY <1>1, <2>1, <2>4, <2>5, <2>6 DEF JobOK, Organizing, Undoing
  <2> QED
    BY <1>1, <2>3, <2>5, <2>6, <2>7, OthersKept
<1> QED
  BY <1>3, <1>4

LEMMA UndoFileTyped ==
  ASSUME TypeInv, NEW p \in Proc, UndoFile(p)
  PROVE  TypeInv'
<1> USE DEF TypeInv, TypeOK
<1>1. /\ job[p].old \in Path /\ job[p].new \in Path /\ pc[p] = "unfs" /\ JobOK(p)
      /\ UNCHANGED <<files, undo, clock, crashes>>
  BY DEF UndoFile, JobOK, Undoing
<1>2. PICK done \in BOOLEAN :
        /\ Attempt(CanUndo(p), done)
        /\ IF done
           THEN /\ disk' = IF job[p].op = "move" THEN Renamed(job[p].new, job[p].old)
                                                ELSE Removed(job[p].new)
                /\ Goto(p, IF job[p].file > 0 THEN "unrow" ELSE "unmark")
                /\ UNCHANGED <<job, todo>>
           ELSE Drop(p, job[p].entry) /\ UNCHANGED disk
  BY DEF UndoFile
<1>3. faults' \in 0 .. MaxFaults
  BY <1>2, AttemptTyped DEF CanUndo, CanRename, Exists
<1>4. disk' \in [Path -> Content \cup {NoFile}]
  BY <1>1, <1>2, DiskTyped
<1>5. CASE done
  <2>1. PICK step \in {"unrow", "unmark"} :
          Goto(p, step) /\ (step = "unrow" => job[p].file > 0)
    BY <1>2, <1>5
  <2>2. /\ pc' \in [Proc -> Steps \cup {"idle"}] /\ pc'[p] = step
        /\ \A r \in Proc \ {p} : pc'[r] = pc[r]
    BY <2>1, GotoTyped DEF Steps
  <2>3. UNCHANGED <<job, todo>>
    BY <1>2, <1>5
  <2>4. JobOK(p)'
    BY <1>1, <2>1, <2>2, <2>3 DEF JobOK, Organizing, Undoing
  <2> QED
    BY <1>1, <1>3, <1>4, <2>2, <2>3, <2>4, OthersKept
<1>6. CASE ~done
  <2>1. Drop(p, job[p].entry)
    BY <1>2, <1>6
  <2>2. JobOK(p)'
    BY <1>1, <2>1, DropOK
  <2> QED
    BY <1>1, <1>3, <1>4, <2>1, <2>2, DropTyped, OthersKept
<1> QED
  BY <1>5, <1>6

LEMMA UndoRowTyped ==
  ASSUME TypeInv, NEW p \in Proc, UndoRow(p)
  PROVE  TypeInv'
<1> USE DEF TypeInv, TypeOK
<1>1. /\ job[p].old \in Path /\ job[p].file \in FileId /\ pc[p] = "unrow" /\ JobOK(p)
      /\ UNCHANGED <<disk, undo, clock, job, todo, crashes>> /\ Goto(p, "unmark")
  BY DEF UndoRow, JobOK, Undoing, Job
<1>2. faults' \in 0 .. MaxFaults
  BY AttemptTyped DEF UndoRow
<1>3. files' \in [FileId -> Row]
  BY <1>1, AtPathTyped DEF UndoRow
<1>4. /\ pc' \in [Proc -> Steps \cup {"idle"}] /\ pc'[p] = "unmark"
      /\ \A r \in Proc \ {p} : pc'[r] = pc[r]
  BY <1>1, GotoTyped DEF Steps
<1>5. JobOK(p)'
  BY <1>1, <1>4 DEF JobOK, Organizing, Undoing
<1> QED
  BY <1>1, <1>2, <1>3, <1>4, <1>5, OthersKept

LEMMA UndoMarkTyped ==
  ASSUME TypeInv, NEW p \in Proc, UndoMark(p)
  PROVE  TypeInv' /\ DOMAIN undo' = DOMAIN undo
<1>1. /\ job[p].entry \in DOMAIN undo /\ Drop(p, job[p].entry)
      /\ UNCHANGED <<disk, files, clock, crashes>>
  BY DEF UndoMark, TypeInv, JobOK, Undoing
<1>2. faults' \in 0 .. MaxFaults
  BY AttemptTyped DEF UndoMark, TypeInv, TypeOK
<1>3. undo' \in Seq(Entry) /\ DOMAIN undo' = DOMAIN undo
  <2> DEFINE i == job[p].entry
             marked == [undo[i] EXCEPT !.undone = TRUE]
  <2>1. undo \in Seq(Entry)
    BY DEF TypeInv, TypeOK
  <2>2. i \in 1 .. Len(undo) /\ undo[i] \in Entry
    BY <1>1, <2>1, LenProperties, ElementOfSeq
  <2>3. marked \in Entry
    BY <2>2 DEF Entry
  <2>4. undo' = undo \/ undo' = [undo EXCEPT ![i] = marked]
    BY DEF UndoMark
  <2> HIDE DEF i, marked
  <2>5. [undo EXCEPT ![i] = marked] \in Seq(Entry)
    BY <2>1, <2>2, <2>3, ExceptSeq
  <2> QED
    BY <2>1, <2>4, <2>5
<1>4. TypeOK'
  BY <1>1, <1>2, <1>3, DropTyped DEF TypeInv, TypeOK
<1>5. JobOK(p)'
  BY <1>1, <1>3, DropOK
<1> QED
  BY <1>1, <1>3, <1>4, <1>5, DropTyped, OthersKept

LEMMA CrashTyped ==
  ASSUME TypeInv, NEW p \in Proc, Crash(p)
  PROVE  TypeInv'
<1> USE DEF TypeInv, TypeOK
<1>1. /\ Finish(p) /\ UNCHANGED <<disk, files, undo, clock, faults>>
      /\ todo' = [todo EXCEPT ![p] = {}] /\ crashes' \in 0 .. MaxCrashes
  BY OptionsAssumption DEF Crash
<1>2. JobOK(p)'
  BY <1>1, FinishTyped DEF JobOK, Organizing, Undoing
<1> QED
  BY <1>1, <1>2, FinishTyped, OthersKept

LEMMA ArriveTyped ==
  ASSUME TypeInv, NEW c \in Foreign, NEW q \in Path, Arrive(c, q)
  PROVE  TypeInv'
<1>1. TypeOK'
  BY DiskAssumption DEF Arrive, TypeInv, TypeOK
<1>2. \A r \in Proc : JobOK(r)'
  BY DEF Arrive, TypeInv, JobOK
<1> QED
  BY <1>1, <1>2 DEF TypeInv

LEMMA TypeStep == TypeInv /\ [Next]_vars => TypeInv'
<1> SUFFICES ASSUME TypeInv, [Next]_vars PROVE TypeInv'
  OBVIOUS
<1>1. CASE UNCHANGED vars
  <2>1. \A r \in Proc : JobOK(r)'
    BY <1>1 DEF vars, TypeInv, JobOK
  <2> QED
    BY <1>1, <2>1 DEF vars, TypeInv, TypeOK
<1>2. ASSUME NEW p \in Proc, Begin(p) PROVE TypeInv'
  BY <1>2, BeginTyped
<1>3. ASSUME NEW p \in Proc, undoAll(p) PROVE TypeInv'
  BY <1>3, UndoAllTyped
<1>4. ASSUME NEW p \in Proc, Organize(p) PROVE TypeInv'
  BY <1>4, StageBackupTyped, ExecuteTyped, CopyOverTyped, SwapInTyped, DropBackupTyped,
     RestoreBackupTyped, FindTyped, RecordTyped, SaveTyped DEF Organize
<1>5. ASSUME NEW p \in Proc, UndoStep(p) PROVE TypeInv'
  BY <1>5, UndoNextTyped, UndoFileTyped, UndoRowTyped, UndoMarkTyped DEF UndoStep
<1>6. ASSUME NEW p \in Proc, Crash(p) PROVE TypeInv'
  BY <1>6, CrashTyped
<1>7. ASSUME NEW c \in Foreign, NEW q \in Path, Arrive(c, q) PROVE TypeInv'
  BY <1>7, ArriveTyped
<1> QED
  BY <1>1, <1>2, <1>3, <1>4, <1>5, <1>6, <1>7 DEF Next

LEMMA TypeInvariant == Spec => []TypeInv
<1>1. Init => TypeInv
  BY TypeInit
<1>2. TypeInv /\ [Next]_vars => TypeInv'
  BY TypeStep
<1> QED
  BY <1>1, <1>2, PTL DEF Spec

(* In every reachable state each variable has its type, whatever fails and *)
(* whoever dies: an undo entry always has two paths, and names a row of    *)
(* files or none.                                                          *)
THEOREM TypeCorrect == Spec => []TypeOK
<1>1. TypeInv => TypeOK
  BY DEF TypeInv
<1> QED
  BY <1>1, TypeInvariant, PTL

-----------------------------------------------------------------------------
(* Moves alone, the way the program itself organizes (organizeLibrary asks *)
(* for FileOperation::Move and leaves the strategy at Rename).             *)

MoveOnly == Ops \subseteq {"move"} /\ "overwrite" \notin Strategies

Replacing == {"stage", "copyover", "swapin", "drop", "restore"}

MoveInv ==
    /\ TypeInv
    /\ \A p \in Proc : pc[p] \notin Replacing /\ ~job[p].over /\ job[p].op = "move"
    /\ \A i \in DOMAIN undo : undo[i].op = "move"

LEMMA MoveInit == Init => MoveInv
  BY TypeInit DEF Init, MoveInv, NoJob, JobFor, Replacing

(* A step that leaves the undo queue alone and the locals of one process   *)
(* without an overwrite.                                                   *)
LEMMA MoveKept ==
  ASSUME MoveInv, TypeInv', NEW p \in Proc, UNCHANGED undo,
         \A r \in Proc \ {p} : pc'[r] = pc[r] /\ job'[r] = job[r],
         pc'[p] \notin Replacing, ~job'[p].over, job'[p].op = "move"
  PROVE  MoveInv'
  BY DEF MoveInv

LEMMA MoveBegin ==
  ASSUME MoveOnly, MoveInv, TypeInv', NEW p \in Proc, Begin(p)
  PROVE  MoveInv'
<1>1. PICK f \in FileId, op \in Ops, s \in Strategies, t \in Path : BeginFile(p, f, op, s, t)
  BY FilesAssumption DEF Begin, generateDestinationPath
<1>2. op = "move" /\ s # "overwrite"
  BY DEF MoveOnly
<1> DEFINE this == JobFor(f, op, files[f].path, Destination(t, s), FALSE, 0)
<1>3. job' = [job EXCEPT ![p] = this] /\ pc' = [pc EXCEPT ![p] = "exec"] /\ UNCHANGED undo
  BY <1>1, <1>2 DEF BeginFile, Goto, Begin
<1>4. ~this.over /\ this.op = "move"
  BY <1>2 DEF JobFor
<1> HIDE DEF this
<1> QED
  BY <1>3, <1>4, MoveKept DEF MoveInv, TypeInv, TypeOK, Replacing

LEMMA MoveIdle ==
  ASSUME MoveInv, TypeInv', NEW p \in Proc, UNCHANGED undo,
         Finish(p) \/ \E i \in Nat : Drop(p, i)
  PROVE  MoveInv'
<1>1. /\ pc'[p] \in {"idle", "undo"} /\ job'[p] = NoJob
      /\ \A r \in Proc \ {p} : pc'[r] = pc[r] /\ job'[r] = job[r]
  BY FinishTyped, DropTyped DEF MoveInv
<1> QED
  BY <1>1, MoveKept DEF NoJob, JobFor, Replacing

LEMMA MoveGoto ==
  ASSUME MoveInv, TypeInv', NEW p \in Proc, NEW step \in Steps, Goto(p, step),
         step \notin Replacing, UNCHANGED <<undo, job>>
  PROVE  MoveInv'
  BY GotoTyped, MoveKept DEF MoveInv

LEMMA MoveRecord ==
  ASSUME MoveInv, TypeInv', NEW p \in Proc, recordUndo(p)
  PROVE  MoveInv'
<1>1. Goto(p, "save") /\ UNCHANGED job
  BY DEF recordUndo
<1>2. \A r \in Proc : pc'[r] \notin Replacing
  BY <1>1, GotoTyped DEF MoveInv, Steps, Replacing
<1>3. \A i \in DOMAIN undo' : undo'[i].op = "move"
  <2>1. CASE UNCHANGED undo
    BY <2>1 DEF MoveInv
  <2>2. ASSUME NEW t, undo' = Append(undo, NewEntry(p, t))
        PROVE  \A i \in DOMAIN undo' : undo'[i].op = "move"
    <3>1. undo \in Seq(Entry) /\ undo' \in Seq(Entry)
      BY DEF MoveInv, TypeInv, TypeOK
    <3>2. NewEntry(p, t).op = "move"
      BY DEF NewEntry, MoveInv
    <3>3. DOMAIN undo = 1 .. Len(undo)
      BY <3>1, LenProperties
    <3>4. DOMAIN undo' = 1 .. Len(undo) + 1
      BY <2>2, <3>1, LenProperties
    <3>5. \A i \in 1 .. Len(undo) : undo'[i] = undo[i]
      BY <2>2, <3>1
    <3>6. undo'[Len(undo) + 1] = NewEntry(p, t)
      BY <2>2, <3>1
    <3> QED
      BY <3>1, <3>2, <3>3, <3>4, <3>5, <3>6, LenProperties DEF MoveInv
  <2> QED
    BY <2>1, <2>2 DEF recordUndo, Inserted
<1> QED
  BY <1>1, <1>2, <1>3 DEF MoveInv

LEMMA MoveUndoNext ==
  ASSUME MoveInv, TypeInv', NEW p \in Proc, UndoNext(p)
  PROVE  MoveInv'
<1>1. PICK i \in todo[p] :
        IF undo[i].undone
        THEN Drop(p, i)
        ELSE /\ job' = [job EXCEPT ![p] =
                  JobFor(undo[i].file, undo[i].op, undo[i].old, undo[i].new, FALSE, i)]
             /\ Goto(p, "unfs")
  BY DEF UndoNext, Latest
<1>2. i \in Nat /\ i \in DOMAIN undo /\ UNCHANGED undo
  BY DEF UndoNext, MoveInv, TypeInv, TypeOK, JobOK
<1>3. CASE undo[i].undone
  BY <1>1, <1>2, <1>3, MoveIdle
<1>4. CASE ~undo[i].undone
  <2> DEFINE this == JobFor(undo[i].file, undo[i].op, undo[i].old, undo[i].new, FALSE, i)
  <2>1. ~this.over /\ this.op = "move"
    BY <1>2 DEF JobFor, MoveInv
  <2> HIDE DEF this
  <2>2. job' = [job EXCEPT ![p] = this] /\ Goto(p, "unfs")
    BY <1>1, <1>4 DEF this
  <2> QED
    BY <1>2, <2>1, <2>2, GotoTyped, MoveKept DEF MoveInv, TypeInv, TypeOK, Steps, Replacing
<1> QED
  BY <1>3, <1>4

LEMMA MoveUndoMark ==
  ASSUME MoveInv, TypeInv', NEW p \in Proc, UndoMark(p)
  PROVE  MoveInv'
<1>1. job[p].entry \in DOMAIN undo /\ Drop(p, job[p].entry)
  BY DEF UndoMark, MoveInv, TypeInv, JobOK, Undoing
<1>2. DOMAIN undo' = DOMAIN undo
  BY UndoMarkTyped DEF MoveInv
<1>3. \A i \in DOMAIN undo : undo[i] \in Entry
  BY ElementOfSeq, LenProperties DEF MoveInv, TypeInv, TypeOK
<1>4. \A i \in DOMAIN undo : undo'[i].op = undo[i].op
  BY <1>1, <1>3 DEF UndoMark, Entry
<1>5. /\ pc'[p] \in {"idle", "undo"} /\ job'[p] = NoJob
      /\ \A r \in Proc \ {p} : pc'[r] = pc[r] /\ job'[r] = job[r]
  BY <1>1, DropTyped DEF MoveInv
<1>6. \A r \in Proc : pc'[r] \notin Replacing /\ ~job'[r].over /\ job'[r].op = "move"
  BY <1>5 DEF MoveInv, NoJob, JobFor, Replacing
<1> QED
  BY <1>2, <1>4, <1>6 DEF MoveInv

LEMMA MoveOrganize ==
  ASSUME MoveInv, TypeInv', NEW p \in Proc, Organize(p)
  PROVE  MoveInv'
<1>1. executeOperation(p) \/ FindRow(p) \/ recordUndo(p) \/ SaveRow(p)
  BY DEF Organize, MoveInv, Replacing, StageBackup, CopyOver, SwapIn, DropBackup, RestoreBackup
<1>2. CASE executeOperation(p)
  <2>1. \/ Goto(p, "find") /\ UNCHANGED <<undo, job>>
        \/ Finish(p) /\ UNCHANGED undo
    BY <1>2 DEF executeOperation, AfterSuccess, AfterFailure, MoveInv, Finish
  <2> QED
    BY <2>1, MoveGoto, MoveIdle DEF Steps, Replacing
<1>3. CASE recordUndo(p)
  BY <1>3, MoveRecord
<1>4. CASE SaveRow(p)
  BY <1>4, MoveIdle DEF SaveRow
<1>5. CASE FindRow(p)
  <2>1. /\ Goto(p, "record") /\ UNCHANGED undo /\ job[p] \in Job
        /\ \A r \in Proc \ {p} : job'[r] = job[r]
        /\ \E f \in FileId \cup {0} : job'[p] = [job[p] EXCEPT !.row = f]
    BY <1>5, Found DEF MoveInv, TypeInv, TypeOK
  <2>2. job'[p].over = job[p].over /\ job'[p].op = job[p].op
    BY <2>1 DEF Job
  <2>3. pc'[p] = "record" /\ \A r \in Proc \ {p} : pc'[r] = pc[r]
    BY <2>1, GotoTyped DEF MoveInv, Steps
  <2>4. pc'[p] \notin Replacing /\ ~job'[p].over /\ job'[p].op = "move"
    BY <2>2, <2>3 DEF MoveInv, Replacing
  <2> QED
    BY <2>1, <2>3, <2>4, MoveKept
<1> QED
  BY <1>1, <1>2, <1>3, <1>4, <1>5

LEMMA MoveUndoStep ==
  ASSUME MoveInv, TypeInv', NEW p \in Proc, UndoStep(p)
  PROVE  MoveInv'
<1>1. CASE UndoFile(p)
  <2>1. job[p].entry \in Nat
    BY DEF MoveInv, TypeInv, TypeOK, Job
  <2>2. PICK done \in BOOLEAN :
          IF done THEN Goto(p, IF job[p].file > 0 THEN "unrow" ELSE "unmark") /\ UNCHANGED job
                  ELSE Drop(p, job[p].entry)
    BY <1>1 DEF UndoFile
  <2>3. UNCHANGED undo
    BY <1>1 DEF UndoFile
  <2> QED
    BY <2>1, <2>2, <2>3, MoveGoto, MoveIdle DEF Steps, Replacing
<1>2. CASE UndoRow(p)
  BY <1>2, MoveGoto DEF UndoRow, Steps, Replacing
<1> QED
  BY <1>1, <1>2, MoveUndoNext, MoveUndoMark DEF UndoStep

LEMMA MoveStep == MoveOnly /\ MoveInv /\ [Next]_vars => MoveInv'
<1> SUFFICES ASSUME MoveOnly, MoveInv, [Next]_vars PROVE MoveInv'
  OBVIOUS
<1>1. TypeInv'
  BY TypeStep DEF MoveInv
<1>2. CASE UNCHANGED vars
  BY <1>1, <1>2 DEF vars, MoveInv
<1>3. ASSUME NEW p \in Proc, Begin(p) PROVE MoveInv'
  BY <1>1, <1>3, MoveBegin
<1>4. ASSUME NEW p \in Proc, undoAll(p) PROVE MoveInv'
  BY <1>1, <1>4, MoveGoto DEF undoAll, Steps, Replacing
<1>5. ASSUME NEW p \in Proc, Crash(p) PROVE MoveInv'
  BY <1>1, <1>5, MoveIdle DEF Crash
<1>6. ASSUME NEW c \in Foreign, NEW q \in Path, Arrive(c, q) PROVE MoveInv'
  BY <1>1, <1>6 DEF Arrive, MoveInv
<1> QED
  BY <1>1, <1>2, <1>3, <1>4, <1>5, <1>6, MoveOrganize, MoveUndoStep DEF Next

(* What a step can do to the disk when only moves are made.                *)
DiskStep ==
    \/ UNCHANGED disk
    \/ \E q, r \in Path : CanRename(q, r) /\ disk' = Renamed(q, r)
    \/ \E c \in Content, r \in Path :
         /\ disk[r] = NoFile /\ \A q \in Path : disk[q] # c
         /\ disk' = [disk EXCEPT ![r] = c]

LEMMA DiskSteps == MoveInv /\ [Next]_vars => DiskStep
<1> SUFFICES ASSUME MoveInv, Next, ~UNCHANGED disk PROVE DiskStep
  BY DEF DiskStep, vars
<1>1. ASSUME NEW p \in Proc, executeOperation(p) PROVE DiskStep
  <2>1. job[p].op = "move" /\ job[p].old \in Path /\ job[p].new \in Path
    BY <1>1 DEF executeOperation, MoveInv, TypeInv, JobOK, Organizing
  <2>2. CanRename(job[p].old, job[p].new) /\ disk' = Performed(p)
    BY <1>1 DEF executeOperation, Attempt
  <2> QED
    BY <2>1, <2>2 DEF Performed, DiskStep
<1>2. ASSUME NEW p \in Proc, UndoFile(p) PROVE DiskStep
  <2>1. job[p].op = "move" /\ job[p].old \in Path /\ job[p].new \in Path
    BY <1>2 DEF UndoFile, MoveInv, TypeInv, JobOK, Undoing
  <2>2. CanUndo(p) /\ disk' = Renamed(job[p].new, job[p].old)
    BY <1>2, <2>1 DEF UndoFile, Attempt
  <2> QED
    BY <2>1, <2>2 DEF CanUndo, DiskStep
<1>3. ASSUME NEW c \in Foreign, NEW q \in Path, Arrive(c, q) PROVE DiskStep
  BY <1>3, DiskAssumption DEF Arrive, Exists, DiskStep
<1>4. \A p \in Proc : ~(Begin(p) \/ undoAll(p) \/ Crash(p))
  BY DEF Begin, undoAll, Crash
<1>5. \A p \in Proc : UndoStep(p) => UndoFile(p)
  BY DEF UndoStep, UndoNext, UndoRow, UndoMark
<1>6. \A p \in Proc : Organize(p) => executeOperation(p)
  BY DEF Organize, MoveInv, Replacing, StageBackup, CopyOver, SwapIn, DropBackup,
         RestoreBackup, FindRow, recordUndo, SaveRow
<1> QED
  BY <1>1, <1>2, <1>3, <1>4, <1>5, <1>6 DEF Next

(* However many processes organize and undo at once, whatever fails and    *)
(* whoever dies half way: a file that is on the disk stays on the disk.    *)
THEOREM MovesKeepFiles ==
  ASSUME MoveOnly
  PROVE  Spec => MovesKeepEveryFile
<1>1. Init => MoveInv
  BY MoveInit
<1>2. MoveInv /\ [Next]_vars => MoveInv'
  BY MoveStep
<1>3. MoveInv /\ [Next]_vars => [\A c \in Content : OnDisk(c) => OnDisk(c)']_vars
  <2> SUFFICES ASSUME MoveInv, DiskStep, NEW c \in Content, NEW q \in Path, disk[q] = c
               PROVE  \E r \in Path : disk'[r] = c
    BY DiskSteps DEF OnDisk
  <2>1. disk \in [Path -> Content \cup {NoFile}] /\ c # NoFile
    BY DiskAssumption DEF MoveInv, TypeInv, TypeOK
  <2>2. ASSUME NEW s \in Path, NEW r \in Path, CanRename(s, r), disk' = Renamed(s, r)
        PROVE  \E t \in Path : disk'[t] = c
    <3>1. CASE q = s
      BY <2>1, <2>2, <3>1 DEF Renamed, CanRename, Exists
    <3>2. CASE q # s
      BY <2>1, <2>2, <3>2 DEF Renamed, CanRename, Exists
    <3> QED
      BY <3>1, <3>2
  <2> QED
    BY <2>1, <2>2 DEF DiskStep
<1> QED
  BY <1>1, <1>2, <1>3, PTL DEF Spec, MovesKeepEveryFile

(* ... and is there once: no move, undo or crash leaves a second copy.     *)
THEOREM MovesLeaveOneCopy ==
  ASSUME MoveOnly
  PROVE  Spec => []OneCopyEach
<1>1. Init => MoveInv /\ OneCopyEach
  BY MoveInit, DiskAssumption DEF Init, OneCopyEach
<1>2. MoveInv /\ OneCopyEach /\ [Next]_vars => MoveInv' /\ OneCopyEach'
  <2> SUFFICES ASSUME MoveInv, OneCopyEach, DiskStep PROVE OneCopyEach'
    BY MoveStep, DiskSteps
  <2>1. disk \in [Path -> Content \cup {NoFile}]
    BY DEF MoveInv, TypeInv, TypeOK
  <2>2. CASE \E q, r \in Path : CanRename(q, r) /\ disk' = Renamed(q, r)
    BY <2>1, <2>2 DEF OneCopyEach, Renamed, CanRename, Exists
  <2> QED
    BY <2>1, <2>2 DEF DiskStep, OneCopyEach
<1> QED
  BY <1>1, <1>2, PTL DEF Spec
-----------------------------------------------------------------------------
(* Without overwriting, moves and copies alike.                            *)

Plain == "overwrite" \notin Strategies

PlainInv == TypeInv /\ \A p \in Proc : pc[p] \notin Replacing /\ ~job[p].over

LEMMA PlainStep == Plain /\ PlainInv /\ [Next]_vars => PlainInv'
<1> SUFFICES ASSUME Plain, PlainInv, [Next]_vars PROVE PlainInv'
  OBVIOUS
<1> USE DEF Replacing
<1>1. TypeInv /\ TypeInv'
  BY TypeStep DEF PlainInv
<1>2. CASE UNCHANGED vars
  BY <1>1, <1>2 DEF vars, PlainInv
<1>3. ASSUME NEW p \in Proc, pc'[p] \notin Replacing, ~job'[p].over,
             \A r \in Proc \ {p} : pc'[r] = pc[r] /\ job'[r] = job[r]
      PROVE  PlainInv'
  BY <1>1, <1>3 DEF PlainInv
<1>4. ASSUME NEW p \in Proc, Finish(p) \/ \E i \in Nat : Drop(p, i)
      PROVE  PlainInv'
  <2>1. /\ pc'[p] \in {"idle", "undo"} /\ job'[p] = NoJob
        /\ \A r \in Proc \ {p} : pc'[r] = pc[r] /\ job'[r] = job[r]
    BY <1>1, <1>4, FinishTyped, DropTyped
  <2> QED
    BY <1>3, <2>1 DEF NoJob, JobFor
<1>5. ASSUME NEW p \in Proc, NEW step \in Steps \ Replacing, Goto(p, step), UNCHANGED job
      PROVE  PlainInv'
  BY <1>1, <1>3, <1>5, GotoTyped DEF PlainInv
<1>6. ASSUME NEW p \in Proc, Begin(p) PROVE PlainInv'
  <2>1. PICK f \in FileId, op \in Ops, s \in Strategies, t \in Path : BeginFile(p, f, op, s, t)
    BY <1>6, FilesAssumption DEF Begin, generateDestinationPath
  <2> DEFINE this == JobFor(f, op, files[f].path, Destination(t, s), FALSE, 0)
  <2>2. job' = [job EXCEPT ![p] = this] /\ pc' = [pc EXCEPT ![p] = "exec"]
    BY <2>1 DEF BeginFile, Goto, Plain
  <2>3. ~this.over
    BY DEF JobFor
  <2> HIDE DEF this
  <2> QED
    BY <1>1, <1>3, <2>2, <2>3 DEF TypeInv, TypeOK
<1>7. ASSUME NEW p \in Proc, executeOperation(p) PROVE PlainInv'
  <2>1. Finish(p) \/ (Goto(p, "find") /\ UNCHANGED job)
    BY <1>7 DEF executeOperation, AfterSuccess, AfterFailure, PlainInv, Finish
  <2> QED
    BY <1>4, <1>5, <2>1 DEF Steps
<1>8. ASSUME NEW p \in Proc, Organize(p) PROVE PlainInv'
  <2>1. executeOperation(p) \/ FindRow(p) \/ recordUndo(p) \/ SaveRow(p)
    BY <1>8 DEF Organize, PlainInv, StageBackup, CopyOver, SwapIn, DropBackup, RestoreBackup
  <2>2. CASE recordUndo(p)
    BY <1>5, <2>2 DEF recordUndo, Steps
  <2>3. CASE SaveRow(p)
    BY <1>4, <2>3 DEF SaveRow
  <2>4. CASE FindRow(p)
    <3>1. /\ Goto(p, "record") /\ job[p] \in Job /\ ~job[p].over
          /\ \A r \in Proc \ {p} : job'[r] = job[r]
          /\ \E f \in FileId \cup {0} : job'[p] = [job[p] EXCEPT !.row = f]
      BY <1>1, <2>4, Found DEF PlainInv, TypeInv, TypeOK
    <3>2. ~job'[p].over
      BY <3>1 DEF Job
    <3>3. pc'[p] = "record" /\ \A r \in Proc \ {p} : pc'[r] = pc[r]
      BY <1>1, <3>1, GotoTyped DEF Steps
    <3> QED
      BY <1>3, <3>1, <3>2, <3>3
  <2> QED
    BY <1>7, <2>1, <2>2, <2>3, <2>4
<1>9. ASSUME NEW p \in Proc, UndoNext(p) PROVE PlainInv'
  <2>1. PICK i \in todo[p] :
          IF undo[i].undone
          THEN Drop(p, i)
          ELSE /\ job' = [job EXCEPT ![p] =
                    JobFor(undo[i].file, undo[i].op, undo[i].old, undo[i].new, FALSE, i)]
               /\ Goto(p, "unfs")
    BY <1>9 DEF UndoNext, Latest
  <2>2. i \in Nat
    BY <1>1 DEF TypeInv, TypeOK
  <2>3. CASE undo[i].undone
    BY <1>4, <2>1, <2>2, <2>3
  <2>4. CASE ~undo[i].undone
    <3> DEFINE this == JobFor(undo[i].file, undo[i].op, undo[i].old, undo[i].new, FALSE, i)
    <3>1. ~this.over
      BY DEF JobFor
    <3> HIDE DEF this
    <3>2. job' = [job EXCEPT ![p] = this] /\ Goto(p, "unfs")
      BY <2>1, <2>4 DEF this
    <3> QED
      BY <1>1, <1>3, <3>1, <3>2, GotoTyped DEF TypeInv, TypeOK, Steps
  <2> QED
    BY <2>3, <2>4
<1>10. ASSUME NEW p \in Proc, UndoStep(p) PROVE PlainInv'
  <2>1. job[p].entry \in Nat
    BY <1>1 DEF TypeInv, TypeOK, Job
  <2>2. CASE UndoFile(p)
    <3>1. \/ Goto(p, "unrow") /\ UNCHANGED job
          \/ Goto(p, "unmark") /\ UNCHANGED job
          \/ Drop(p, job[p].entry)
      BY <2>2 DEF UndoFile
    <3> QED
      BY <1>4, <1>5, <2>1, <3>1 DEF Steps
  <2>3. CASE UndoRow(p)
    BY <1>5, <2>3 DEF UndoRow, Steps
  <2>4. CASE UndoMark(p)
    BY <1>4, <2>1, <2>4 DEF UndoMark
  <2> QED
    BY <1>9, <1>10, <2>2, <2>3, <2>4 DEF UndoStep
<1>11. ASSUME NEW p \in Proc, undoAll(p) PROVE PlainInv'
  BY <1>5, <1>11 DEF undoAll, Steps
<1>12. ASSUME NEW p \in Proc, Crash(p) PROVE PlainInv'
  BY <1>4, <1>12 DEF Crash
<1>13. ASSUME NEW c \in Foreign, NEW q \in Path, Arrive(c, q) PROVE PlainInv'
  BY <1>1, <1>13 DEF Arrive, PlainInv
<1> QED
  BY <1>2, <1>6, <1>8, <1>10, <1>11, <1>12, <1>13 DEF Next

(* An entry, once recorded, keeps all but its mark.                        *)
EntryKept(i) ==
    /\ i \in DOMAIN undo'
    /\ undo'[i].op = undo[i].op /\ undo'[i].file = undo[i].file /\ undo'[i].at = undo[i].at
    /\ undo'[i].old = undo[i].old /\ undo'[i].new = undo[i].new
    /\ undo'[i].holds = undo[i].holds
    /\ undo[i].undone => undo'[i].undone

LEMMA EntriesKept == TypeInv /\ [Next]_vars => \A i \in DOMAIN undo : EntryKept(i)
<1> SUFFICES ASSUME TypeInv, [Next]_vars, NEW i \in DOMAIN undo PROVE EntryKept(i)
  OBVIOUS
<1> USE DEF EntryKept
<1>1. /\ undo \in Seq(Entry) /\ DOMAIN undo = 1 .. Len(undo) /\ Len(undo) \in Nat
      /\ undo[i] \in Entry
  BY LenProperties, ElementOfSeq DEF TypeInv, TypeOK
<1>2. CASE UNCHANGED undo
  BY <1>2
<1>3. ASSUME NEW p \in Proc, recordUndo(p) PROVE EntryKept(i)
  <2>1. ASSUME NEW t, undo' = Append(undo, NewEntry(p, t)) PROVE EntryKept(i)
    <3>1. undo' \in Seq(Entry) /\ DOMAIN undo' = 1 .. Len(undo')
      BY <1>3, RecordTyped, LenProperties DEF TypeInv, TypeOK
    <3>2. Len(undo') = Len(undo) + 1 /\ undo'[i] = undo[i]
      BY <1>1, <2>1
    <3> QED
      BY <1>1, <3>1, <3>2
  <2> QED
    BY <1>2, <1>3, <2>1 DEF recordUndo, Inserted
<1>4. ASSUME NEW p \in Proc, UndoMark(p) PROVE EntryKept(i)
  BY <1>1, <1>4, UndoMarkTyped DEF UndoMark, Entry
<1>5. CASE UNCHANGED vars
  BY <1>2, <1>5 DEF vars
<1> QED
  BY <1>2, <1>3, <1>4, <1>5
     DEF Next, Begin, undoAll, Organize, UndoStep, Crash, Arrive, StageBackup, executeOperation,
         CopyOver, SwapIn, DropBackup, RestoreBackup, FindRow, SaveRow, UndoNext, UndoFile, UndoRow

(* A process that undoes an entry works on the paths of this entry.        *)
OnItsEntry(p) ==
    pc[p] \in Undoing => /\ job[p].op = undo[job[p].entry].op
                         /\ job[p].old = undo[job[p].entry].old
                         /\ job[p].new = undo[job[p].entry].new

LoggedInv ==
    /\ PlainInv
    /\ \A p \in Proc : OnItsEntry(p)
    /\ IsFiniteSet(Unlogged)
    /\ EveryMoveIsLogged

Acts(p) == Begin(p) \/ undoAll(p) \/ Organize(p) \/ UndoStep(p) \/ Crash(p)

LEMMA OneProcess ==
  ASSUME TypeInv, NEW p \in Proc, Acts(p)
  PROVE  \A r \in Proc \ {p} : pc'[r] = pc[r] /\ job'[r] = job[r] /\ todo'[r] = todo[r]
<1> SUFFICES ASSUME NEW r \in Proc, r # p
             PROVE  pc'[r] = pc[r] /\ job'[r] = job[r] /\ todo'[r] = todo[r]
  OBVIOUS
<1>1. pc'[r] = pc[r]
  <2>1. \/ \E step : Goto(p, step)
        \/ UNCHANGED pc
    BY DEF Acts, Begin, BeginFile, undoAll, Organize, StageBackup, executeOperation, CopyOver, SwapIn,
           DropBackup, RestoreBackup, FindRow, recordUndo, SaveRow, UndoStep, UndoNext, UndoFile, UndoRow,
           UndoMark, Crash, Finish, Drop
  <2> QED
    BY <2>1 DEF Goto, TypeInv, TypeOK
<1>2. job'[r] = job[r]
  BY DEF Acts, Begin, BeginFile, undoAll, Organize, StageBackup, executeOperation, CopyOver, SwapIn,
         DropBackup, RestoreBackup, FindRow, recordUndo, SaveRow, UndoStep, UndoNext, UndoFile, UndoRow,
         UndoMark, Crash, Finish, Drop, TypeInv, TypeOK
<1>3. todo'[r] = todo[r]
  BY DEF Acts, Begin, undoAll, Organize, StageBackup, executeOperation, CopyOver, SwapIn,
         DropBackup, RestoreBackup, FindRow, recordUndo, SaveRow, UndoStep, UndoNext, UndoFile, UndoRow,
         UndoMark, Crash, Drop, TypeInv, TypeOK
<1> QED
  BY <1>1, <1>2, <1>3

LEMMA BeginsUndoing ==
  ASSUME TypeInv, NEW p \in Proc, Acts(p), pc'[p] = "unfs"
  PROVE  UndoNext(p)
<1>1. ~\E step \in (Steps \cup {"idle"}) \ {"unfs"} : Goto(p, step)
  BY GotoTyped
<1>2. ~Finish(p) /\ ~\E i : Drop(p, i)
  BY FinishTyped, DropTyped
<1>3. ~Begin(p) /\ ~undoAll(p) /\ ~Crash(p)
  BY <1>1, <1>2 DEF Begin, BeginFile, undoAll, Crash, Steps
<1>4. ~Organize(p)
  BY <1>1, <1>2 DEF Organize, StageBackup, executeOperation, CopyOver, SwapIn, DropBackup, RestoreBackup,
     FindRow, recordUndo, SaveRow, AfterSuccess, AfterFailure, Steps
<1>5. UndoStep(p) => UndoNext(p)
  BY <1>1, <1>2 DEF UndoStep, UndoFile, UndoRow, UndoMark, Steps
<1> QED
  BY <1>3, <1>4, <1>5 DEF Acts

LEMMA GoesOnUndoing ==
  ASSUME TypeInv, NEW p \in Proc, Acts(p), pc'[p] \in {"unrow", "unmark"}
  PROVE  /\ \/ pc[p] = "unfs" /\ UndoFile(p)
            \/ pc[p] = "unrow" /\ UNCHANGED disk
         /\ UNCHANGED <<undo, job>>
<1>1. ~\E step \in (Steps \cup {"idle"}) \ {"unrow", "unmark"} : Goto(p, step)
  BY GotoTyped
<1>2. ~Finish(p) /\ ~\E i : Drop(p, i)
  BY FinishTyped, DropTyped
<1>3. ~Begin(p) /\ ~undoAll(p) /\ ~Crash(p)
  BY <1>1, <1>2 DEF Begin, BeginFile, undoAll, Crash, Steps
<1>4. ~Organize(p)
  BY <1>1, <1>2 DEF Organize, StageBackup, executeOperation, CopyOver, SwapIn, DropBackup, RestoreBackup,
     FindRow, recordUndo, SaveRow, AfterSuccess, AfterFailure, Steps
<1>5. UndoStep(p) => UndoFile(p) \/ UndoRow(p)
  BY <1>1, <1>2 DEF UndoStep, UndoNext, UndoMark, Steps
<1> QED
  BY <1>2, <1>3, <1>4, <1>5 DEF Acts, UndoFile, UndoRow

LEMMA OnItsEntryKept ==
  ASSUME TypeInv, [Next]_vars, \A p \in Proc : OnItsEntry(p)
  PROVE  \A p \in Proc : OnItsEntry(p)'
<1> SUFFICES ASSUME NEW p \in Proc, pc'[p] \in Undoing PROVE OnItsEntry(p)'
  BY DEF OnItsEntry
<1>1. CASE pc[p] \in Undoing /\ job'[p] = job[p]
  <2>1. job[p].entry \in DOMAIN undo
    BY <1>1 DEF TypeInv, JobOK
  <2>2. EntryKept(job[p].entry)
    BY <2>1, EntriesKept
  <2>3. OnItsEntry(p) /\ pc[p] \in Undoing
    BY <1>1
  <2> QED
    BY <1>1, <2>2, <2>3 DEF OnItsEntry, EntryKept
<1>2. CASE UndoNext(p)
  <2>1. PICK i \in todo[p] :
          IF undo[i].undone
          THEN Drop(p, i)
          ELSE job' = [job EXCEPT ![p] =
                 JobFor(undo[i].file, undo[i].op, undo[i].old, undo[i].new, FALSE, i)]
    BY <1>2 DEF UndoNext, Latest
  <2>2. ~undo[i].undone
    BY <2>1, DropTyped DEF Undoing
  <2> DEFINE this == JobFor(undo[i].file, undo[i].op, undo[i].old, undo[i].new, FALSE, i)
  <2>3. this.entry = i /\ this.op = undo[i].op /\ this.old = undo[i].old /\ this.new = undo[i].new
    BY DEF JobFor
  <2> HIDE DEF this
  <2>4. job' = [job EXCEPT ![p] = this]
    BY <2>1, <2>2 DEF this
  <2>5. job'[p] = this /\ UNCHANGED undo
    BY <1>2, <2>4 DEF TypeInv, TypeOK, UndoNext
  <2> QED
    BY <2>3, <2>5 DEF OnItsEntry
<1>3. \/ UNCHANGED <<pc, job>>
      \/ Acts(p)
      \/ \E r \in Proc \ {p} : Acts(r)
  BY DEF Next, Acts, Arrive, vars
<1>4. CASE Acts(p)
  BY <1>1, <1>2, <1>4, BeginsUndoing, GoesOnUndoing DEF Undoing
<1> QED
  BY <1>1, <1>3, <1>4, OneProcess

LEMMA AttemptCounts ==
  ASSUME faults \in Nat, NEW can \in BOOLEAN, NEW done \in BOOLEAN, Attempt(can, done)
  PROVE  faults' \in Nat /\ faults <= faults' /\ (faults' = faults => done = can)
  BY DEF Attempt

LEMMA CountersGrow ==
  ASSUME TypeInv, [Next]_vars
  PROVE  /\ faults \in Nat /\ crashes \in Nat /\ faults' \in Nat /\ crashes' \in Nat
         /\ faults <= faults' /\ crashes <= crashes'
<1>1. faults \in Nat /\ crashes \in Nat
  BY OptionsAssumption DEF TypeInv, TypeOK
<1>2. CASE UNCHANGED <<faults, crashes>>
  BY <1>1, <1>2
<1>3. ASSUME UNCHANGED crashes, NEW can \in BOOLEAN, NEW done \in BOOLEAN, Attempt(can, done)
      PROVE  /\ faults' \in Nat /\ crashes' \in Nat
             /\ faults <= faults' /\ crashes <= crashes'
  BY <1>1, <1>3, AttemptCounts
<1>4. ASSUME NEW p \in Proc, Organize(p)
      PROVE  /\ faults' \in Nat /\ crashes' \in Nat
             /\ faults <= faults' /\ crashes <= crashes'
  <2>1. CASE RestoreBackup(p)
    BY <1>1, <2>1 DEF RestoreBackup
  <2>2. CASE ~RestoreBackup(p)
    <3>1. /\ UNCHANGED crashes
          /\ \E can \in BOOLEAN, done \in BOOLEAN : Attempt(can, done)
      BY <1>4, <2>2 DEF Organize, StageBackup, executeOperation, CopyOver, SwapIn, DropBackup,
         FindRow, recordUndo, SaveRow, CanRename, Exists
    <3> QED
      BY <1>3, <3>1
  <2> QED
    BY <2>1, <2>2
<1>5. ASSUME NEW p \in Proc, UndoStep(p)
      PROVE  /\ faults' \in Nat /\ crashes' \in Nat
             /\ faults <= faults' /\ crashes <= crashes'
  <2>1. /\ UNCHANGED crashes
        /\ \/ UNCHANGED faults
           \/ \E can \in BOOLEAN, done \in BOOLEAN : Attempt(can, done)
    BY <1>5 DEF UndoStep, UndoNext, UndoFile, UndoRow, UndoMark, CanUndo, CanRename, Exists
  <2> QED
    BY <1>2, <1>3, <2>1
<1>6. ASSUME NEW p \in Proc, Crash(p)
      PROVE  /\ faults' \in Nat /\ crashes' \in Nat
             /\ faults <= faults' /\ crashes <= crashes'
  BY <1>1, <1>6 DEF Crash
<1> QED
  BY <1>1, <1>2, <1>4, <1>5, <1>6 DEF Next, Begin, undoAll, Arrive, vars

LEMMA AttemptFaultless ==
  ASSUME faults = 0, faults' = 0, NEW can, NEW done \in BOOLEAN, Attempt(can, done)
  PROVE  done <=> can
  BY DEF Attempt

(* An entry that could not be inserted, or a process that died before.     *)
Forgets(p) ==
    \/ recordUndo(p) /\ faults' = faults + 1 /\ crashes' = crashes
    \/ Crash(p) /\ crashes' = crashes + 1 /\ faults' = faults

LEMMA InsertedOrForgotten ==
  ASSUME TypeInv, NEW p \in Proc, recordUndo(p)
  PROVE  \/ \E j \in DOMAIN undo' : undo'[j].new = job[p].new
         \/ Forgets(p)
<1>1. PICK done \in BOOLEAN :
         /\ Attempt(TRUE, done)
         /\ IF done
            THEN \E gap \in Gaps :
                   /\ clock' = clock + gap
                   /\ undo' = Inserted(p, clock + gap)
            ELSE UNCHANGED <<undo, clock>>
  BY DEF recordUndo
<1>2. CASE ~done
  BY <1>1, <1>2 DEF Forgets, Attempt, recordUndo
<1>3. CASE done
  <2>1. PICK t : undo' = Append(undo, NewEntry(p, t))
    BY <1>1, <1>3 DEF Inserted
  <2>2. undo \in Seq(Entry) /\ undo' \in Seq(Entry) /\ Len(undo) \in Nat
    BY RecordTyped, LenProperties DEF TypeInv, TypeOK
  <2>3. Len(undo') = Len(undo) + 1 /\ undo'[Len(undo) + 1] = NewEntry(p, t)
    BY <2>1, <2>2
  <2>4. Len(undo) + 1 \in DOMAIN undo'
    BY <2>2, <2>3, LenProperties
  <2> QED
    BY <2>3, <2>4 DEF NewEntry
<1> QED
  BY <1>2, <1>3

(* Where a file comes to lie without an entry, its process is about to     *)
(* make one, and does not get there.                                       *)
LEMMA NewlyUnlogged ==
  ASSUME Plain, PlainInv, PlainInv', \A p \in Proc : OnItsEntry(p), [Next]_vars,
         NEW q \in Unlogged', q \notin Unlogged
  PROVE  \E p \in Proc : Forgets(p) /\ q = job[p].new
<1>1. TypeInv /\ TypeInv'
  BY DEF PlainInv
<1>2. /\ q \in Path /\ disk'[q] \notin Foreign \cup {NoFile} /\ disk'[q] # Disk0[q]
      /\ \A i \in DOMAIN undo' : q \notin {undo'[i].old, undo'[i].new}
      /\ \A p \in Proc : pc'[p] \in {"find", "record"} => job'[p].new # q
  BY DEF Unlogged
<1>3. \A i \in DOMAIN undo : q \notin {undo[i].old, undo[i].new}
  BY <1>1, <1>2, EntriesKept DEF EntryKept
<1>4. disk'[q] = disk[q]
  <2> SUFFICES ASSUME disk'[q] # disk[q] PROVE FALSE
    OBVIOUS
  <2>1. ASSUME NEW p \in Proc, executeOperation(p) PROVE FALSE
    <3>1. /\ disk' = Performed(p) /\ Goto(p, "find") /\ UNCHANGED job
          /\ job[p].old \in Path /\ job[p].new \in Path
      BY <1>1, <2>1 DEF executeOperation, AfterSuccess, PlainInv, TypeInv, JobOK, Organizing
    <3>2. q = job[p].new
      BY <1>1, <1>2, <3>1 DEF Performed, Renamed, Copied, TypeInv, TypeOK
    <3> QED
      BY <1>1, <1>2, <3>1, <3>2, GotoTyped DEF Steps
  <2>2. ASSUME NEW p \in Proc, UndoFile(p) PROVE FALSE
    <3>1. /\ disk' = Renamed(job[p].new, job[p].old) \/ disk' = Removed(job[p].new)
          /\ pc[p] = "unfs" /\ job[p].entry \in DOMAIN undo
          /\ job[p].old \in Path /\ job[p].new \in Path
      BY <1>1, <2>2 DEF UndoFile, TypeInv, JobOK, Undoing
    <3>2. q \in {job[p].old, job[p].new}
      BY <1>1, <1>2, <3>1 DEF Renamed, Removed, TypeInv, TypeOK
    <3> QED
      BY <1>3, <3>1, <3>2 DEF OnItsEntry, Undoing
  <2>3. ~\E c \in Foreign, r \in Path : Arrive(c, r)
    BY <1>1, <1>2 DEF Arrive, TypeInv, TypeOK
  <2>4. \E p \in Proc : executeOperation(p) \/ UndoFile(p)
    BY <1>1, <2>3
       DEF Next, Begin, undoAll, Organize, StageBackup, CopyOver, SwapIn, DropBackup, RestoreBackup,
           FindRow, recordUndo, SaveRow, UndoStep, UndoNext, UndoRow, UndoMark, Crash, PlainInv,
           Replacing, vars
  <2> QED
    BY <2>1, <2>2, <2>4
<1>5. PICK p \in Proc : pc[p] \in {"find", "record"} /\ job[p].new = q
  BY <1>2, <1>3, <1>4 DEF Unlogged
<1>6. ~(pc'[p] = pc[p] /\ job'[p] = job[p])
  BY <1>2, <1>5
<1>7. Acts(p) => FindRow(p) \/ recordUndo(p) \/ Crash(p)
  BY <1>5 DEF Acts, Begin, undoAll, Organize, StageBackup, executeOperation, CopyOver, SwapIn,
     DropBackup, RestoreBackup, SaveRow, UndoStep, UndoNext, UndoFile, UndoRow, UndoMark
<1>8. Acts(p)
  <2>1. \/ UNCHANGED <<pc, job>>
        \/ Acts(p)
        \/ \E r \in Proc \ {p} : Acts(r)
    BY DEF Next, Acts, Arrive, vars
  <2> QED
    BY <1>1, <1>6, <2>1, OneProcess
<1>9. ~FindRow(p)
  <2> SUFFICES ASSUME FindRow(p) PROVE FALSE
    OBVIOUS
  <2>1. /\ Goto(p, "record") /\ job[p] \in Job
        /\ \E f \in FileId \cup {0} : job'[p] = [job[p] EXCEPT !.row = f]
    BY <1>1, Found DEF TypeInv, TypeOK
  <2>2. pc'[p] = "record" /\ job'[p].new = job[p].new
    BY <1>1, <2>1, GotoTyped DEF Job, Steps
  <2> QED
    BY <1>2, <1>5, <2>2
<1>10. recordUndo(p) => Forgets(p)
  BY <1>1, <1>2, <1>5, InsertedOrForgotten
<1>11. Crash(p) => Forgets(p)
  BY DEF Crash, Forgets
<1> QED
  BY <1>5, <1>7, <1>8, <1>9, <1>10, <1>11

LEMMA ForgetsLeaves ==
  ASSUME TypeInv, NEW p \in Proc, Forgets(p)
  PROVE  Acts(p) /\ pc'[p] # pc[p]
<1>1. recordUndo(p) \/ Crash(p)
  BY DEF Forgets
<1>2. CASE recordUndo(p)
  <2>1. pc[p] = "record" /\ Goto(p, "save")
    BY <1>2 DEF recordUndo
  <2>2. pc'[p] = "save"
    BY <2>1, GotoTyped DEF Steps
  <2> QED
    BY <1>2, <2>1, <2>2 DEF Acts, Organize
<1>3. CASE Crash(p)
  <2>1. pc[p] # "idle" /\ Goto(p, "idle")
    BY <1>3 DEF Crash, Finish
  <2>2. pc'[p] = "idle"
    BY <2>1, GotoTyped
  <2> QED
    BY <1>3, <2>1, <2>2 DEF Acts
<1> QED
  BY <1>1, <1>2, <1>3

LEMMA OneMore ==
  ASSUME NEW a \in Nat, NEW b \in Nat, NEW c \in Nat, NEW d \in Nat, NEW m \in Nat, NEW n \in Nat,
         m <= a + b, n <= m + 1, (c = a + 1 /\ d = b) \/ (d = b + 1 /\ c = a)
  PROVE  n <= c + d
  OBVIOUS

LEMMA LoggedStep == Plain /\ LoggedInv /\ [Next]_vars => LoggedInv'
<1> SUFFICES ASSUME Plain, LoggedInv, [Next]_vars PROVE LoggedInv'
  OBVIOUS
<1>1. PlainInv /\ PlainInv' /\ TypeInv /\ TypeInv'
  BY PlainStep DEF LoggedInv, PlainInv
<1>2. \A p \in Proc : OnItsEntry(p)'
  BY <1>1, OnItsEntryKept DEF LoggedInv
<1>3. /\ faults \in Nat /\ crashes \in Nat /\ faults' \in Nat /\ crashes' \in Nat
      /\ faults <= faults' /\ crashes <= crashes'
  BY <1>1, CountersGrow
<1>4. /\ IsFiniteSet(Unlogged) /\ Cardinality(Unlogged) <= faults + crashes
      /\ Cardinality(Unlogged) \in Nat
  BY FS_CardinalityType DEF LoggedInv, EveryMoveIsLogged
<1>5. CASE Unlogged' \subseteq Unlogged
  <2>1. IsFiniteSet(Unlogged') /\ Cardinality(Unlogged') <= Cardinality(Unlogged)
    BY <1>4, <1>5, FS_Subset
  <2>2. Cardinality(Unlogged') \in Nat
    BY <2>1, FS_CardinalityType
  <2> QED
    BY <1>1, <1>2, <1>3, <1>4, <2>1, <2>2 DEF LoggedInv, EveryMoveIsLogged
<1>6. CASE ~(Unlogged' \subseteq Unlogged)
  <2>1. PICK p \in Proc : Forgets(p)
    BY <1>1, <1>6, NewlyUnlogged DEF LoggedInv
  <2>2. Unlogged' \subseteq Unlogged \cup {job[p].new}
    <3> SUFFICES ASSUME NEW q \in Unlogged', q \notin Unlogged PROVE q = job[p].new
      OBVIOUS
    <3>1. PICK r \in Proc : Forgets(r) /\ q = job[r].new
      BY <1>1, NewlyUnlogged DEF LoggedInv
    <3>2. r = p
      BY <1>1, <2>1, <3>1, ForgetsLeaves, OneProcess
    <3> QED
      BY <3>1, <3>2
  <2>3. /\ IsFiniteSet(Unlogged \cup {job[p].new})
        /\ Cardinality(Unlogged \cup {job[p].new}) <= Cardinality(Unlogged) + 1
    BY <1>4, FS_AddElement
  <2>4. /\ IsFiniteSet(Unlogged')
        /\ Cardinality(Unlogged') <= Cardinality(Unlogged \cup {job[p].new})
    BY <2>2, <2>3, FS_Subset
  <2>5. Cardinality(Unlogged') \in Nat /\ Cardinality(Unlogged \cup {job[p].new}) \in Nat
    BY <2>3, <2>4, FS_CardinalityType
  <2>6. \/ faults' = faults + 1 /\ crashes' = crashes
        \/ crashes' = crashes + 1 /\ faults' = faults
    BY <2>1 DEF Forgets
  <2>7. Cardinality(Unlogged') <= faults' + crashes'
    <3>1. Cardinality(Unlogged') <= Cardinality(Unlogged) + 1
      BY <1>4, <2>3, <2>4, <2>5
    <3> QED
      BY <1>3, <1>4, <2>5, <2>6, <3>1, OneMore
  <2> QED
    BY <1>1, <1>2, <2>4, <2>7 DEF LoggedInv, EveryMoveIsLogged
<1> QED
  BY <1>5, <1>6

(* Whatever commands move, copy and undo at once, with any failures and    *)
(* deaths: at most one file for each of them is neither where it was at    *)
(* first nor where the undo queue has it, nor about to be recorded.        *)
THEOREM MovesAreLogged ==
  ASSUME Plain
  PROVE  Spec => []EveryMoveIsLogged
<1>1. Init => LoggedInv
  <2> SUFFICES ASSUME Init PROVE LoggedInv
    OBVIOUS
  <2>1. Unlogged = {}
    BY DEF Init, Unlogged
  <2>2. IsFiniteSet(Unlogged) /\ EveryMoveIsLogged
    BY <2>1, FS_EmptySet DEF Init, EveryMoveIsLogged
  <2> QED
    BY <2>2, TypeInit DEF Init, LoggedInv, PlainInv, OnItsEntry, NoJob, JobFor, Replacing, Undoing
<1>2. LoggedInv => EveryMoveIsLogged
  BY DEF LoggedInv
<1> QED
  BY <1>1, <1>2, LoggedStep, PTL DEF Spec
-----------------------------------------------------------------------------
(* Backups and staged copies have hidden names: none is the name of a file *)
(* of the library, of a target or of a suffixed target.                    *)
HiddenNames ==
    /\ \A q \in Temporary : Disk0[q] = NoFile
    /\ \A f \in FileId : Home[f] \notin Temporary /\ Targets[f] \cap Temporary = {}
    /\ \A t \in Path : \A k \in DOMAIN Suffixed[t] : Suffixed[t][k] \notin Temporary

Shown(q) == q \in Path \ Temporary

(* What a process has at a hidden name.                                    *)
Holds(p, q) ==
    \/ pc[p] \in {"exec", "copyover", "swapin", "drop", "restore"} /\ job[p].over /\ job[p].backup = q
    \/ pc[p] = "swapin" /\ job[p].staged = q

ShownPaths ==
    /\ \A f \in FileId : Shown(files[f].path)
    /\ \A i \in DOMAIN undo : Shown(undo[i].old) /\ Shown(undo[i].new)
    /\ \A p \in Proc : pc[p] \in Organizing \cup Undoing => Shown(job[p].old) /\ Shown(job[p].new)

Held == faults + crashes = 0 => \A q \in Temporary : Exists(q) => \E p \in Proc : Holds(p, q)

LeftInv == TypeInv /\ ShownPaths /\ Held

LEMMA ResolvedShown ==
  ASSUME HiddenNames, NEW t \in Path, FreeSuffixes(t) # {}
  PROVE  Shown(resolveCollision(t))
<1>1. Suffixed[t] \in Seq(Path)
  BY NamesAssumption
<1>2. DOMAIN Suffixed[t] \subseteq Nat
  BY <1>1, LenProperties
<1>3. FreeSuffixes(t) \in SUBSET Nat
  BY <1>2 DEF FreeSuffixes
<1>4. \E k \in FreeSuffixes(t) : \A j \in FreeSuffixes(t) : k <= j
  BY <1>3, LeastNat
<1> DEFINE least == CHOOSE k \in FreeSuffixes(t) : \A j \in FreeSuffixes(t) : k <= j
<1>5. least \in DOMAIN Suffixed[t]
  BY <1>4 DEF FreeSuffixes
<1> HIDE DEF least
<1>6. Suffixed[t][least] \notin Temporary
  BY <1>5 DEF HiddenNames
<1> QED
  BY <1>6, ResolvedTyped DEF resolveCollision, least, Shown

(* The only steps that give a process new paths, or a row or an entry one. *)
LEMMA ShownKept ==
  ASSUME HiddenNames, TypeInv, TypeInv', ShownPaths, [Next]_vars
  PROVE  ShownPaths'
<1>1. \A f \in FileId : Shown(files'[f].path)
  <2>1. CASE UNCHANGED files
    BY <2>1 DEF ShownPaths
  <2>2. ASSUME NEW p \in Proc, NEW f \in FileId, NEW q, Shown(q),
               files' = [files EXCEPT ![f] = AtPath(f, q)]
        PROVE  \A g \in FileId : Shown(files'[g].path)
    <3>1. AtPath(f, q).path = q
      BY DEF AtPath, Shown, TypeInv, TypeOK, Row
    <3> QED
      BY <2>2, <3>1 DEF ShownPaths, TypeInv, TypeOK
  <2>3. ASSUME NEW p \in Proc, SaveRow(p) PROVE \A f \in FileId : Shown(files'[f].path)
    BY <2>1, <2>2, <2>3 DEF SaveRow, ShownPaths, TypeInv, JobOK, Organizing
  <2>4. ASSUME NEW p \in Proc, UndoRow(p) PROVE \A f \in FileId : Shown(files'[f].path)
    <3>1. job[p].file \in FileId
      BY <2>4 DEF UndoRow, TypeInv, TypeOK, Job, JobOK
    <3> QED
      BY <2>1, <2>2, <2>4, <3>1 DEF UndoRow, ShownPaths, Undoing
  <2> QED
    BY <2>1, <2>3, <2>4 DEF Next, Begin, undoAll, Organize, StageBackup, executeOperation, CopyOver,
       SwapIn, DropBackup, RestoreBackup, FindRow, recordUndo, UndoStep, UndoNext, UndoFile, UndoMark,
       Crash, Arrive, vars
<1>2. \A i \in DOMAIN undo' : Shown(undo'[i].old) /\ Shown(undo'[i].new)
  <2>1. CASE DOMAIN undo' = DOMAIN undo
    BY <2>1, EntriesKept DEF EntryKept, ShownPaths
  <2>2. ASSUME NEW p \in Proc, recordUndo(p), DOMAIN undo' # DOMAIN undo
        PROVE  \A i \in DOMAIN undo' : Shown(undo'[i].old) /\ Shown(undo'[i].new)
    <3>1. PICK t : undo' = Append(undo, NewEntry(p, t))
      BY <2>2 DEF recordUndo, Inserted
    <3>2. undo \in Seq(Entry) /\ undo' \in Seq(Entry)
      BY DEF TypeInv, TypeOK
    <3>3. DOMAIN undo = 1 .. Len(undo) /\ DOMAIN undo' = 1 .. Len(undo') /\ Len(undo) \in Nat
      BY <3>2, LenProperties
    <3>4. Len(undo') = Len(undo) + 1 /\ undo'[Len(undo) + 1] = NewEntry(p, t)
      BY <3>1, <3>2
    <3>5. Shown(NewEntry(p, t).old) /\ Shown(NewEntry(p, t).new)
      BY <2>2 DEF NewEntry, recordUndo, ShownPaths, Organizing
    <3>6. \A i \in DOMAIN undo' : i = Len(undo) + 1 \/ i \in DOMAIN undo
      BY <3>3, <3>4
    <3> QED
      BY <3>4, <3>5, <3>6, EntriesKept DEF EntryKept, ShownPaths
  <2>3. ASSUME NEW p \in Proc, UndoMark(p) PROVE DOMAIN undo' = DOMAIN undo
    BY <2>3, UndoMarkTyped
  <2> QED
    BY <2>1, <2>2, <2>3 DEF Next, Begin, undoAll, Organize, StageBackup, executeOperation, CopyOver,
       SwapIn, DropBackup, RestoreBackup, FindRow, SaveRow, UndoStep, UndoNext, UndoFile, UndoRow,
       Crash, Arrive, vars
<1>3. ASSUME NEW p \in Proc, pc'[p] \in Organizing \cup Undoing
      PROVE  Shown(job'[p].old) /\ Shown(job'[p].new)
  <2>1. CASE pc[p] \in Organizing \cup Undoing /\ job'[p].old = job[p].old /\ job'[p].new = job[p].new
    BY <2>1 DEF ShownPaths
  <2>2. CASE Begin(p)
    <3>1. PICK f \in FileId, op \in Ops, s \in Strategies, t \in Path :
                 t \in Targets[f] /\ BeginFile(p, f, op, s, t)
      BY <2>2, FilesAssumption DEF Begin, generateDestinationPath
    <3> DEFINE this == JobFor(f, op, files[f].path, Destination(t, s), wouldCollide(t) /\ s = "overwrite", 0)
    <3>2. this.old = files[f].path /\ this.new = Destination(t, s)
      BY DEF JobFor
    <3> HIDE DEF this
    <3>3. job' = [job EXCEPT ![p] = this]
      BY <3>1 DEF BeginFile, this
    <3>4. job'[p] = this
      BY <3>3 DEF TypeInv, TypeOK
    <3>5. Shown(t)
      BY <3>1 DEF HiddenNames, Shown
    <3>6. Shown(Destination(t, s))
      BY <3>1, <3>5, ResolvedShown DEF BeginFile, Destination
    <3> QED
      BY <3>2, <3>4, <3>6 DEF ShownPaths
  <2>3. CASE UndoNext(p)
    <3>1. PICK i \in todo[p] :
            IF undo[i].undone
            THEN Drop(p, i)
            ELSE job' = [job EXCEPT ![p] =
                   JobFor(undo[i].file, undo[i].op, undo[i].old, undo[i].new, FALSE, i)]
      BY <2>3 DEF UndoNext, Latest
    <3>2. ~undo[i].undone
      BY <1>3, <3>1, DropTyped DEF Organizing, Undoing
    <3> DEFINE this == JobFor(undo[i].file, undo[i].op, undo[i].old, undo[i].new, FALSE, i)
    <3>3. this.old = undo[i].old /\ this.new = undo[i].new
      BY DEF JobFor
    <3> HIDE DEF this
    <3>4. job' = [job EXCEPT ![p] = this]
      BY <3>1, <3>2 DEF this
    <3>5. job'[p] = this /\ i \in DOMAIN undo
      BY <3>4 DEF TypeInv, TypeOK, JobOK
    <3> QED
      BY <3>3, <3>5 DEF ShownPaths
  <2>4. CASE Organize(p) \/ UndoFile(p) \/ UndoRow(p) \/ UndoMark(p)
    <3>1. pc[p] \in Organizing \cup Undoing
      BY <2>4 DEF Organize, StageBackup, executeOperation, CopyOver, SwapIn, DropBackup, RestoreBackup,
         FindRow, recordUndo, SaveRow, UndoFile, UndoRow, UndoMark, Organizing, Undoing
    <3>2. ~Finish(p) /\ ~\E i : Drop(p, i)
      BY <1>3, FinishTyped, DropTyped DEF Organizing, Undoing
    <3>3. CASE StageBackup(p)
      <4>1. PICK b : job' = [job EXCEPT ![p].backup = b]
        BY <3>2, <3>3 DEF StageBackup
      <4> QED
        BY <2>1, <3>1, <4>1 DEF TypeInv, TypeOK, Job
    <3>4. CASE CopyOver(p)
      <4>1. PICK b : job' = [job EXCEPT ![p].staged = b]
        BY <3>4 DEF CopyOver
      <4> QED
        BY <2>1, <3>1, <4>1 DEF TypeInv, TypeOK, Job
    <3>5. CASE executeOperation(p)
      <4>1. Goto(p, AfterFailure(p)) => job[p].over
        BY <1>3, GotoTyped DEF AfterFailure, Organizing, Undoing
      <4>2. job' = job
        BY <3>5, <4>1 DEF executeOperation
      <4> QED
        BY <2>1, <3>1, <4>2
    <3>6. CASE SwapIn(p) \/ DropBackup(p) \/ recordUndo(p) \/ UndoFile(p) \/ UndoRow(p)
      <4>1. job' = job
        BY <3>2, <3>6 DEF SwapIn, DropBackup, recordUndo, UndoFile, UndoRow
      <4> QED
        BY <2>1, <3>1, <4>1
    <3>7. CASE FindRow(p)
      <4>1. job[p] \in Job /\ \E f \in FileId \cup {0} : job'[p] = [job[p] EXCEPT !.row = f]
        BY <3>7, Found DEF TypeInv, TypeOK
      <4> QED
        BY <2>1, <3>1, <4>1 DEF Job
    <3> QED
      BY <2>4, <3>2, <3>3, <3>4, <3>5, <3>6, <3>7 DEF Organize, RestoreBackup, SaveRow, UndoMark
  <2>5. ~Crash(p) /\ ~undoAll(p)
    BY <1>3, FinishTyped, GotoTyped DEF Crash, undoAll, Steps, Organizing, Undoing
  <2>6. UNCHANGED <<pc, job>> \/ Acts(p) \/ \E r \in Proc \ {p} : Acts(r)
    BY DEF Next, Acts, Arrive, vars
  <2>7. CASE pc'[p] = pc[p] /\ job'[p] = job[p]
    BY <1>3, <2>1, <2>7
  <2> QED
    BY <2>2, <2>3, <2>4, <2>5, <2>6, <2>7, OneProcess DEF Acts, UndoStep
<1> QED
  BY <1>1, <1>2, <1>3 DEF ShownPaths

LEMMA SumIsZero ==
  ASSUME NEW a \in Nat, NEW b \in Nat, a + b = 0
  PROVE  a = 0 /\ b = 0
  OBVIOUS

(* A file at a hidden name is held by a process, or it has just been       *)
(* removed or renamed away by the one that held it.                        *)
LEMMA HeldKept ==
  ASSUME HiddenNames, Foreign = {}, LeftInv, TypeInv', [Next]_vars
  PROVE  Held'
<1> SUFFICES ASSUME faults' + crashes' = 0, NEW q \in Temporary, disk'[q] # NoFile
             PROVE  \E p \in Proc : Holds(p, q)'
  <2>1. Temporary' = Temporary
    BY DEF Temporary
  <2> QED
    BY <2>1 DEF Held, Exists
<1>1. TypeInv /\ ShownPaths /\ Held
  BY DEF LeftInv
<1>2. faults = 0 /\ crashes = 0 /\ faults' = 0 /\ crashes' = 0
  <2>1. /\ faults \in Nat /\ crashes \in Nat /\ faults' \in Nat /\ crashes' \in Nat
        /\ faults <= faults' /\ crashes <= crashes'
    BY <1>1, CountersGrow
  <2>2. faults' = 0 /\ crashes' = 0
    BY <2>1, SumIsZero
  <2> QED
    BY <2>1, <2>2
<1>3. q \in Path /\ disk \in [Path -> Content \cup {NoFile}] /\ ~Shown(q)
  BY <1>1, NamesAssumption DEF Temporary, TypeInv, TypeOK, Shown
<1>4. disk[q] # NoFile => \E p \in Proc : Holds(p, q)
  BY <1>1, <1>2 DEF Held, Exists
<1>5. CASE UNCHANGED <<disk, pc, job>>
  BY <1>4, <1>5 DEF Holds
<1>6. ASSUME NEW p \in Proc, Acts(p),
             disk[q] = NoFile \/ Holds(p, q) => Holds(p, q)'
      PROVE  \E r \in Proc : Holds(r, q)'
  <2>1. \A r \in Proc \ {p} : pc'[r] = pc[r] /\ job'[r] = job[r]
    BY <1>1, <1>6, OneProcess
  <2> QED
    BY <1>4, <1>6, <2>1 DEF Holds
<1>7. ASSUME NEW p \in Proc, StageBackup(p)
      PROVE  disk[q] = NoFile \/ Holds(p, q) => Holds(p, q)'
  <2>1. PICK b \in Path, done \in BOOLEAN :
          IF done
          THEN /\ disk' = Aside(job[p].new, b)
               /\ job' = [job EXCEPT ![p].backup = b]
               /\ Goto(p, IF job[p].op = "copy" THEN "copyover" ELSE "exec")
          ELSE Finish(p) /\ UNCHANGED disk
    BY <1>1, <1>7, NamesAssumption DEF StageBackup, TypeInv, JobOK, Organizing
  <2>2. pc[p] = "stage" /\ job[p].over /\ ~Holds(p, q) /\ job[p] \in Job
        /\ job[p].new \in Path
    BY <1>1, <1>7 DEF StageBackup, TypeInv, TypeOK, JobOK, Holds, Organizing
  <2>3. CASE disk[q] = NoFile
    <3>1. done /\ q = b
      BY <1>3, <2>1, <2>2, <2>3 DEF Aside, Renamed
    <3>2. pc'[p] \in {"copyover", "exec"}
      <4>1. PICK step \in {"copyover", "exec"} : Goto(p, step)
        BY <2>1, <3>1
      <4> QED
        BY <1>1, <4>1, GotoTyped DEF Steps
    <3>3. job'[p].over /\ job'[p].backup = q
      BY <1>1, <2>1, <2>2, <3>1 DEF TypeInv, TypeOK, Job
    <3> QED
      BY <3>2, <3>3 DEF Holds
  <2> QED
    BY <2>2, <2>3
<1>8. ASSUME NEW p \in Proc, executeOperation(p)
      PROVE  disk[q] = NoFile \/ Holds(p, q) => Holds(p, q)'
  <2>1. PICK done \in BOOLEAN :
          IF done
          THEN disk' = Performed(p) /\ Goto(p, AfterSuccess(p)) /\ UNCHANGED job
          ELSE /\ UNCHANGED disk
               /\ Goto(p, AfterFailure(p))
               /\ job' = IF job[p].over THEN job ELSE [job EXCEPT ![p] = NoJob]
    BY <1>8 DEF executeOperation
  <2>2. /\ pc[p] = "exec" /\ job[p].new \in Path /\ job[p].old \in Path
        /\ Shown(job[p].new)
    BY <1>1, <1>8 DEF executeOperation, TypeInv, JobOK, Organizing, ShownPaths
  <2>3. disk[q] # NoFile
    BY <1>3, <2>1, <2>2 DEF Performed, Renamed, Copied
  <2>4. ASSUME job[p].over PROVE pc'[p] \in {"drop", "restore"} /\ job'[p] = job[p]
    BY <1>1, <2>1, <2>4, GotoTyped DEF AfterSuccess, AfterFailure, Steps
  <2> QED
    BY <2>2, <2>3, <2>4 DEF Holds
<1>9. ASSUME NEW p \in Proc, CopyOver(p)
      PROVE  disk[q] = NoFile \/ Holds(p, q) => Holds(p, q)'
  <2>1. PICK s \in Path, done \in BOOLEAN :
          /\ job' = [job EXCEPT ![p].staged = s]
          /\ IF done
             THEN disk' = Copied(job[p].old, s) /\ Goto(p, "swapin")
             ELSE disk' = Removed(s) /\ Goto(p, "restore")
    BY <1>1, <1>9, NamesAssumption DEF CopyOver, TypeInv, JobOK, Organizing
  <2>2. pc[p] = "copyover" /\ job[p].over /\ job[p] \in Job
    BY <1>1, <1>9 DEF CopyOver, TypeInv, TypeOK, JobOK
  <2>3. job'[p].over /\ job'[p].backup = job[p].backup /\ job'[p].staged = s
    BY <1>1, <2>1, <2>2 DEF TypeInv, TypeOK, Job
  <2>4. pc'[p] = IF done THEN "swapin" ELSE "restore"
    BY <1>1, <2>1, GotoTyped DEF Steps
  <2>5. disk[q] = NoFile => done /\ q = s
    BY <1>3, <2>1 DEF Copied, Removed
  <2> QED
    BY <2>2, <2>3, <2>4, <2>5 DEF Holds
<1>10. ASSUME NEW p \in Proc, SwapIn(p)
       PROVE  disk[q] = NoFile \/ Holds(p, q) => Holds(p, q)'
  <2>1. PICK done \in BOOLEAN :
          IF done
          THEN disk' = Renamed(job[p].staged, job[p].new) /\ Goto(p, AfterSuccess(p))
          ELSE disk' = Removed(job[p].staged) /\ Goto(p, "restore")
    BY <1>10 DEF SwapIn
  <2>2. /\ pc[p] = "swapin" /\ job[p].over /\ UNCHANGED job
        /\ job[p].new \in Path /\ job[p].staged \in Path /\ Shown(job[p].new)
    BY <1>1, <1>10 DEF SwapIn, TypeInv, JobOK, Organizing, ShownPaths
  <2>3. disk[q] # NoFile /\ q # job[p].staged
    BY <1>3, <2>1, <2>2 DEF Renamed, Removed
  <2>4. pc'[p] \in {"drop", "restore"}
    BY <1>1, <2>1, <2>2, GotoTyped DEF AfterSuccess, Steps
  <2> QED
    BY <2>2, <2>3, <2>4 DEF Holds
<1>11. ASSUME NEW p \in Proc, DropBackup(p)
       PROVE  disk[q] # NoFile /\ ~Holds(p, q)
  <2>1. disk' = IF Exists(job[p].backup) THEN Removed(job[p].backup) ELSE disk
    <3>1. PICK done \in BOOLEAN :
            /\ Attempt(Exists(job[p].backup), done)
            /\ disk' = IF done THEN Removed(job[p].backup) ELSE disk
      BY <1>11 DEF DropBackup
    <3>2. done = Exists(job[p].backup)
      BY <1>2, <3>1, AttemptFaultless DEF Exists
    <3> QED
      BY <3>1, <3>2
  <2>2. pc[p] = "drop" /\ job[p].backup \in Path
    BY <1>1, <1>11 DEF DropBackup, TypeInv, JobOK
  <2>3. disk[q] # NoFile /\ q # job[p].backup
    BY <1>3, <2>1, <2>2 DEF Removed, Exists
  <2> QED
    BY <2>2, <2>3 DEF Holds
<1>12. ASSUME NEW p \in Proc, RestoreBackup(p)
       PROVE  disk[q] # NoFile /\ ~Holds(p, q)
  <2>1. \/ /\ Exists(job[p].backup)
           /\ disk' = [Removed(job[p].backup) EXCEPT ![job[p].new] = disk[job[p].backup]]
        \/ ~Exists(job[p].backup) /\ UNCHANGED disk
    BY <1>2, <1>12 DEF RestoreBackup
  <2>2. /\ pc[p] = "restore" /\ job[p].backup \in Path /\ job[p].new \in Path
        /\ Shown(job[p].new)
    BY <1>1, <1>12 DEF RestoreBackup, TypeInv, JobOK, Organizing, ShownPaths
  <2>3. disk[q] # NoFile /\ q # job[p].backup
    BY <1>3, <2>1, <2>2 DEF Removed, Exists
  <2> QED
    BY <2>2, <2>3 DEF Holds
<1>13. ASSUME NEW p \in Proc, UndoFile(p)
       PROVE  disk[q] # NoFile /\ ~Holds(p, q)
  <2>1. disk' \in {disk, Renamed(job[p].new, job[p].old), Removed(job[p].new)}
    BY <1>13 DEF UndoFile
  <2>2. pc[p] = "unfs" /\ job[p].old \in Path /\ job[p].new \in Path /\ Shown(job[p].old)
    BY <1>1, <1>13 DEF UndoFile, TypeInv, JobOK, Undoing, ShownPaths
  <2> QED
    BY <1>3, <2>1, <2>2 DEF Renamed, Removed, Holds
<1>14. ASSUME NEW p \in Proc, \/ Begin(p) \/ undoAll(p) \/ FindRow(p) \/ recordUndo(p) \/ SaveRow(p)
                             \/ UndoNext(p) \/ UndoRow(p) \/ UndoMark(p)
       PROVE  disk[q] # NoFile /\ ~Holds(p, q)
  <2>1. UNCHANGED disk /\ pc[p] \in {"idle", "find", "record", "save", "undo", "unrow", "unmark"}
    BY <1>14 DEF Begin, undoAll, FindRow, recordUndo, SaveRow, UndoNext, UndoRow, UndoMark
  <2> QED
    BY <2>1 DEF Holds
<1>15. \A p \in Proc : ~Crash(p)
  BY <1>2 DEF Crash
<1>16. ASSUME NEW p \in Proc, Acts(p)
       PROVE  disk[q] = NoFile \/ Holds(p, q) => Holds(p, q)'
  BY <1>7, <1>8, <1>9, <1>10, <1>11, <1>12, <1>13, <1>14, <1>15, <1>16 DEF Acts, Organize, UndoStep
<1> QED
  BY <1>5, <1>6, <1>16 DEF Next, Acts, vars

(* However many processes overwrite at once, a backup or a staged copy is  *)
(* on the disk only while the command that made it runs; what stays under  *)
(* a hidden name is there because an operation failed or a process died.   *)
THEOREM OverwritingCleansUp ==
  ASSUME HiddenNames, Foreign = {}
  PROVE  Spec => []NothingLeftBehind
<1>1. Init => LeftInv
  <2> SUFFICES ASSUME Init PROVE LeftInv
    OBVIOUS
  <2>1. TypeInv
    BY TypeInit
  <2>2. ShownPaths
    BY FilesAssumption, EmptySeq DEF Init, ShownPaths, HiddenNames, Shown, Organizing, Undoing
  <2>3. Held
    BY DEF Init, Held, HiddenNames, Exists
  <2> QED
    BY <2>1, <2>2, <2>3 DEF LeftInv
<1>2. LeftInv /\ [Next]_vars => LeftInv'
  BY TypeStep, ShownKept, HeldKept DEF LeftInv
<1>3. LeftInv => NothingLeftBehind
  BY DEF LeftInv, Held, NothingLeftBehind, Quiet, Holds
<1> QED
  BY <1>1, <1>2, <1>3, PTL DEF Spec
-----------------------------------------------------------------------------
(* What a process that overwrites may rely on when it has the library to   *)
(* itself: the place it emptied stays empty until the new file is in, what *)
(* it replaced and what it copies lie under hidden names, and the copy is  *)
(* that of a file still there.                                             *)
Aiming(p) == pc[p] \in {"exec", "copyover", "swapin", "restore"} /\ job[p].over

Overwriting(p) ==
    /\ Aiming(p) => ~Exists(job[p].new)
    /\ Aiming(p) \/ pc[p] = "drop" => job[p].backup \in Stash[job[p].new]
    /\ pc[p] = "drop" => Exists(job[p].new)
    /\ pc[p] = "swapin" =>
         /\ job[p].staged \in Stage[job[p].new]
         /\ Exists(job[p].old) /\ disk[job[p].staged] = disk[job[p].old]

Alone == \E p : Proc = {p}

OverInv == TypeInv /\ ShownPaths /\ \A p \in Proc : Overwriting(p)

(* What the steps of an overwriting process do to the disk; j is its job   *)
(* and s its next step.                                                    *)
SetsAside(p) ==
    /\ pc[p] = "stage" /\ pc'[p] \in {"copyover", "exec"}
    /\ \E b \in Stash[job[p].new] :
         /\ CanRename(job[p].new, b) /\ disk' = Renamed(job[p].new, b)
         /\ job'[p] = [job[p] EXCEPT !.backup = b]

Performs(p) ==
    /\ pc[p] = "exec" /\ CanRename(job[p].old, job[p].new) /\ disk' = Performed(p)
    /\ pc'[p] = AfterSuccess(p) /\ job'[p] = job[p]

Stages(p) ==
    /\ pc[p] = "copyover"
    /\ \E s \in Stage[job[p].new] :
         /\ job'[p] = [job[p] EXCEPT !.staged = s]
         /\ \/ CanRename(job[p].old, s) /\ disk' = Copied(job[p].old, s) /\ pc'[p] = "swapin"
            \/ disk' = Removed(s) /\ pc'[p] = "restore"

SwapsIn(p) ==
    /\ pc[p] = "swapin" /\ job'[p] = job[p]
    /\ \/ CanRename(job[p].staged, job[p].new) /\ disk' = Renamed(job[p].staged, job[p].new) /\ pc'[p] = "drop"
       \/ disk' = Removed(job[p].staged) /\ pc'[p] = "restore"

Drops(p) ==
    /\ pc[p] = "drop" /\ pc'[p] = "find" /\ disk' \in {disk, Removed(job[p].backup)}

Restores(p) ==
    /\ pc[p] = "restore" /\ pc'[p] = "idle"
    /\ \/ Exists(job[p].backup) /\ disk' = [Removed(job[p].backup) EXCEPT ![job[p].new] = disk[job[p].backup]]
       \/ ~Exists(job[p].backup) /\ UNCHANGED disk
       \/ faults' > faults /\ disk' \in {disk, Removed(job[p].new)}

TakesBack(p) ==
    /\ pc[p] = "unfs" /\ pc'[p] \in {"unrow", "unmark"}
    /\ \/ job[p].op = "move" /\ CanRename(job[p].new, job[p].old) /\ disk' = Renamed(job[p].new, job[p].old)
       \/ job[p].op = "copy" /\ disk' = Removed(job[p].new)

GivesUp(p) ==
    /\ pc[p] = "exec" /\ job[p].over /\ pc'[p] = "restore" /\ job'[p] = job[p] /\ UNCHANGED disk

(* A step that touches neither the disk nor a file set aside.              *)
Elsewhere(p) ==
    /\ UNCHANGED disk /\ ~Aiming(p)
    /\ pc'[p] \notin {"copyover", "swapin", "restore", "drop"}
    /\ pc'[p] = "exec" => ~job'[p].over

Dies(p) == UNCHANGED disk /\ pc'[p] = "idle" /\ crashes' > crashes

Outcome(p) ==
    \/ SetsAside(p) \/ Performs(p) \/ Stages(p) \/ SwapsIn(p) \/ Drops(p) \/ Restores(p)
    \/ TakesBack(p) \/ GivesUp(p) \/ Elsewhere(p) \/ Dies(p)

LEMMA Outcomes ==
  ASSUME TypeInv, NEW p \in Proc, Acts(p)
  PROVE  Outcome(p)
<1>1. /\ job[p] \in Job /\ JobOK(p) /\ crashes \in Nat /\ faults \in Nat
      /\ \A step \in Steps \cup {"idle"} : Goto(p, step) => pc'[p] = step
      /\ Finish(p) => pc'[p] = "idle" /\ job'[p] = NoJob
      /\ \A i : Drop(p, i) => pc'[p] \in {"idle", "undo"}
  BY OptionsAssumption, GotoTyped, FinishTyped, DropTyped DEF TypeInv, TypeOK
<1>2. CASE Begin(p)
  <2>1. PICK f \in FileId, op \in Ops, s \in Strategies, t \in Path : BeginFile(p, f, op, s, t)
    BY <1>2, FilesAssumption DEF Begin, generateDestinationPath
  <2> DEFINE over == wouldCollide(t) /\ s = "overwrite"
             this == JobFor(f, op, files[f].path, Destination(t, s), over, 0)
  <2>2. this.over = over /\ job' = [job EXCEPT ![p] = this] /\ Goto(p, IF over THEN "stage" ELSE "exec")
    BY <2>1 DEF BeginFile, JobFor
  <2> HIDE DEF over, this
  <2>3. job'[p].over = over /\ pc'[p] = IF over THEN "stage" ELSE "exec"
    BY <1>1, <2>2 DEF TypeInv, TypeOK, Steps
  <2> QED
    BY <1>2, <2>3 DEF Begin, Outcome, Elsewhere, Aiming
<1>3. CASE undoAll(p)
  BY <1>1, <1>3 DEF undoAll, Steps, Outcome, Elsewhere, Aiming
<1>4. CASE StageBackup(p)
  <2>1. PICK b \in Stash[job[p].new], done \in BOOLEAN :
          /\ Attempt(CanRename(job[p].new, b), done)
          /\ IF done
             THEN /\ disk' = Aside(job[p].new, b)
                  /\ job' = [job EXCEPT ![p].backup = b]
                  /\ Goto(p, IF job[p].op = "copy" THEN "copyover" ELSE "exec")
             ELSE Finish(p) /\ UNCHANGED disk
    BY <1>4 DEF StageBackup
  <2>2. pc[p] = "stage"
    BY <1>4 DEF StageBackup
  <2>3. CASE done
    <3>1. CanRename(job[p].new, b)
      BY <2>1, <2>3 DEF Attempt
    <3>2. job'[p] = [job[p] EXCEPT !.backup = b]
      BY <2>1, <2>3 DEF TypeInv, TypeOK
    <3>3. pc'[p] \in {"copyover", "exec"}
      BY <1>1, <2>1, <2>3 DEF Steps
    <3> QED
      BY <2>1, <2>2, <2>3, <3>1, <3>2, <3>3 DEF Outcome, SetsAside, Aside
  <2>4. CASE ~done
    BY <1>1, <2>1, <2>2, <2>4 DEF Outcome, Elsewhere, Aiming
  <2> QED
    BY <2>3, <2>4
<1>5. CASE executeOperation(p)
  <2>1. PICK done \in BOOLEAN :
          /\ Attempt(CanRename(job[p].old, job[p].new), done)
          /\ IF done
             THEN disk' = Performed(p) /\ Goto(p, AfterSuccess(p)) /\ UNCHANGED job
             ELSE /\ UNCHANGED disk
                  /\ Goto(p, AfterFailure(p))
                  /\ job' = IF job[p].over THEN job ELSE [job EXCEPT ![p] = NoJob]
    BY <1>5 DEF executeOperation
  <2>2. pc[p] = "exec"
    BY <1>5 DEF executeOperation
  <2>3. CASE done
    <3>1. CanRename(job[p].old, job[p].new)
      BY <2>1, <2>3 DEF Attempt
    <3>2. pc'[p] = AfterSuccess(p)
      BY <1>1, <2>1, <2>3 DEF AfterSuccess, Steps
    <3> QED
      BY <2>1, <2>2, <2>3, <3>1, <3>2 DEF Outcome, Performs
  <2>4. CASE ~done /\ job[p].over
    BY <1>1, <2>1, <2>2, <2>4 DEF AfterFailure, Steps, Outcome, GivesUp
  <2>5. CASE ~done /\ ~job[p].over
    BY <1>1, <2>1, <2>2, <2>5 DEF AfterFailure, Steps, Outcome, Elsewhere, Aiming
  <2> QED
    BY <2>3, <2>4, <2>5
<1>6. CASE CopyOver(p)
  <2>1. PICK s \in Stage[job[p].new], done \in BOOLEAN :
          /\ Attempt(CanRename(job[p].old, s), done)
          /\ job' = [job EXCEPT ![p].staged = s]
          /\ IF done
             THEN disk' = Copied(job[p].old, s) /\ Goto(p, "swapin")
             ELSE disk' = Removed(s) /\ Goto(p, "restore")
    BY <1>6 DEF CopyOver
  <2>2. job'[p] = [job[p] EXCEPT !.staged = s]
    BY <2>1 DEF TypeInv, TypeOK
  <2>3. done => CanRename(job[p].old, s)
    BY <2>1 DEF Attempt
  <2>4. pc[p] = "copyover" /\ pc'[p] = IF done THEN "swapin" ELSE "restore"
    BY <1>1, <1>6, <2>1 DEF CopyOver, Steps
  <2> QED
    BY <2>1, <2>2, <2>3, <2>4 DEF Outcome, Stages
<1>7. CASE SwapIn(p)
  <2>1. PICK done \in BOOLEAN :
          /\ Attempt(CanRename(job[p].staged, job[p].new), done)
          /\ IF done
             THEN disk' = Renamed(job[p].staged, job[p].new) /\ Goto(p, AfterSuccess(p))
             ELSE disk' = Removed(job[p].staged) /\ Goto(p, "restore")
    BY <1>7 DEF SwapIn
  <2>2. done => CanRename(job[p].staged, job[p].new)
    BY <2>1 DEF Attempt
  <2>3. pc[p] = "swapin" /\ job[p].over /\ job' = job
    BY <1>1, <1>7 DEF SwapIn, JobOK
  <2>4. pc'[p] = IF done THEN "drop" ELSE "restore"
    BY <1>1, <2>1, <2>3 DEF AfterSuccess, Steps
  <2> QED
    BY <2>1, <2>2, <2>3, <2>4 DEF Outcome, SwapsIn
<1>8. CASE DropBackup(p)
  BY <1>1, <1>8 DEF DropBackup, Steps, Outcome, Drops
<1>9. CASE RestoreBackup(p)
  <2>1. pc[p] = "restore" /\ pc'[p] = "idle"
    BY <1>1, <1>9 DEF RestoreBackup
  <2>2. \/ Exists(job[p].backup) /\ disk' = [Removed(job[p].backup) EXCEPT ![job[p].new] = disk[job[p].backup]]
        \/ ~Exists(job[p].backup) /\ UNCHANGED disk
        \/ faults' > faults /\ disk' \in {disk, Removed(job[p].new)}
    BY <1>1, <1>9 DEF RestoreBackup
  <2> QED
    BY <2>1, <2>2 DEF Outcome, Restores
<1>10. CASE UndoFile(p)
  <2>1. PICK done \in BOOLEAN :
         /\ Attempt(CanUndo(p), done)
         /\ IF done
            THEN /\ disk' = IF job[p].op = "move"
                            THEN Renamed(job[p].new, job[p].old)
                            ELSE Removed(job[p].new)
                 /\ Goto(p, IF job[p].file > 0 THEN "unrow" ELSE "unmark")
            ELSE Drop(p, job[p].entry) /\ UNCHANGED disk
    BY <1>10 DEF UndoFile
  <2>2. pc[p] = "unfs" /\ job[p].op \in {"move", "copy"}
    BY <1>1, <1>10 DEF UndoFile, Job
  <2>3. CASE done
    <3>1. CanUndo(p)
      BY <2>1, <2>3 DEF Attempt
    <3>2. pc'[p] \in {"unrow", "unmark"}
      BY <1>1, <2>1, <2>3 DEF Steps
    <3> QED
      BY <2>1, <2>2, <2>3, <3>1, <3>2 DEF Outcome, TakesBack, CanUndo
  <2>4. CASE ~done
    BY <1>1, <2>1, <2>2, <2>4 DEF Outcome, Elsewhere, Aiming
  <2> QED
    BY <2>3, <2>4
<1>11. CASE FindRow(p) \/ recordUndo(p) \/ SaveRow(p) \/ UndoRow(p)
  BY <1>1, <1>11 DEF FindRow, recordUndo, SaveRow, UndoRow, Steps, Outcome, Elsewhere, Aiming
<1>12. CASE UndoNext(p)
  <2>1. UNCHANGED disk /\ pc[p] = "undo" /\ pc'[p] \in {"idle", "undo", "unfs"}
    BY <1>1, <1>12 DEF UndoNext, Steps
  <2> QED
    BY <2>1 DEF Outcome, Elsewhere, Aiming
<1>13. CASE UndoMark(p)
  BY <1>1, <1>13 DEF UndoMark, Outcome, Elsewhere, Aiming
<1>14. CASE Crash(p)
  BY <1>1, <1>14 DEF Crash, Outcome, Dies
<1> QED
  BY <1>2, <1>3, <1>4, <1>5, <1>6, <1>7, <1>8, <1>9, <1>10, <1>11, <1>12, <1>13, <1>14
  DEF Acts, Organize, UndoStep

(* The one process of a library, or nobody, makes each step.               *)
LEMMA AloneStep ==
  ASSUME Foreign = {}, TypeInv, NEW p, Proc = {p}, Next
  PROVE  Acts(p)
  BY DEF Next, Acts

LEMMA OverKept ==
  ASSUME HiddenNames, Foreign = {}, OverInv, TypeInv', ShownPaths', NEW p, Proc = {p}, [Next]_vars
  PROVE  Overwriting(p)'
<1>1. /\ TypeInv /\ ShownPaths /\ Overwriting(p) /\ p \in Proc /\ JobOK(p) /\ job[p] \in Job
      /\ disk \in [Path -> Content \cup {NoFile}]
  BY DEF OverInv, TypeInv, TypeOK
<1>2. CASE UNCHANGED vars
  BY <1>1, <1>2 DEF vars, Overwriting, Aiming, Exists
<1>3. CASE Next
  <2>1. Acts(p) /\ Outcome(p)
    BY <1>1, <1>3, AloneStep, Outcomes
  <2>2. pc[p] \in Organizing => /\ job[p].old \in Path /\ job[p].new \in Path
                                /\ Shown(job[p].old) /\ Shown(job[p].new)
    BY <1>1 DEF JobOK, ShownPaths
  <2>3. CASE SetsAside(p)
    <3>1. PICK b \in Stash[job[p].new] :
            CanRename(job[p].new, b) /\ disk' = Renamed(job[p].new, b) /\ job'[p] = [job[p] EXCEPT !.backup = b]
      BY <2>3 DEF SetsAside
    <3>2. job[p].new \in Path /\ b \in Path
      BY <2>2, <2>3, <3>1, NamesAssumption DEF SetsAside, Organizing
    <3>3. disk'[job[p].new] = NoFile
      BY <1>1, <3>1, <3>2 DEF Renamed
    <3>4. job'[p].new = job[p].new /\ job'[p].backup = b
      BY <1>1, <3>1 DEF Job
    <3> QED
      BY <2>3, <3>1, <3>3, <3>4 DEF SetsAside, Overwriting, Aiming, Exists
  <2>4. CASE Performs(p)
    <3>1. pc'[p] = "find" \/ (pc'[p] = "drop" /\ job[p].over)
      BY <2>4 DEF Performs, AfterSuccess
    <3>2. job'[p] = job[p] /\ job[p].old \in Path /\ job[p].new \in Path
      BY <2>2, <2>4 DEF Performs, Organizing
    <3>3. disk'[job[p].new] # NoFile
      BY <1>1, <2>4, <3>2 DEF Performs, Performed, Renamed, Copied, CanRename, Exists
    <3>4. job[p].over => job[p].backup \in Stash[job[p].new]
      BY <1>1, <2>4 DEF Performs, Overwriting, Aiming
    <3> QED
      BY <3>1, <3>2, <3>3, <3>4 DEF Overwriting, Aiming, Exists
  <2>5. CASE Stages(p)
    <3>1. PICK s \in Stage[job[p].new] :
            /\ job'[p] = [job[p] EXCEPT !.staged = s]
            /\ \/ CanRename(job[p].old, s) /\ disk' = Copied(job[p].old, s) /\ pc'[p] = "swapin"
               \/ disk' = Removed(s) /\ pc'[p] = "restore"
      BY <2>5 DEF Stages
    <3>2. /\ pc[p] = "copyover" /\ job[p].over /\ job[p].old \in Path /\ job[p].new \in Path
          /\ Shown(job[p].old) /\ Shown(job[p].new)
      BY <1>1, <2>2, <2>5 DEF Stages, JobOK, Organizing
    <3>3. s \in Path /\ s \in Temporary
      BY <3>1, <3>2, NamesAssumption DEF Temporary
    <3>4. /\ job'[p].new = job[p].new /\ job'[p].old = job[p].old /\ job'[p].backup = job[p].backup
          /\ job'[p].staged = s
      BY <1>1, <3>1 DEF Job
    <3>5. disk[job[p].new] = NoFile /\ job[p].backup \in Stash[job[p].new]
      BY <1>1, <3>2 DEF Overwriting, Aiming, Exists
    <3>6. disk'[job[p].new] = NoFile
      BY <1>1, <3>1, <3>2, <3>3, <3>5 DEF Shown, Copied, Removed
    <3>7. pc'[p] = "swapin" => disk'[job[p].old] # NoFile /\ disk'[s] = disk'[job[p].old]
      BY <1>1, <3>1, <3>2, <3>3 DEF Shown, CanRename, Exists, Copied
    <3>8. pc'[p] \in {"swapin", "restore"}
      BY <3>1
    <3> QED
      BY <3>1, <3>4, <3>5, <3>6, <3>7, <3>8 DEF Overwriting, Aiming, Exists
  <2>6. CASE SwapsIn(p)
    <3>1. /\ pc[p] = "swapin" /\ job[p].over /\ job[p].new \in Path /\ job[p].staged \in Path /\ job'[p] = job[p]
          /\ Shown(job[p].new) /\ job[p].staged \in Temporary /\ job[p].backup \in Stash[job[p].new]
          /\ disk[job[p].new] = NoFile
      BY <1>1, <2>2, <2>6 DEF SwapsIn, JobOK, Organizing, Overwriting, Aiming, Exists, Temporary
    <3>2. CASE CanRename(job[p].staged, job[p].new) /\ disk' = Renamed(job[p].staged, job[p].new) /\ pc'[p] = "drop"
      <4>1. disk'[job[p].new] # NoFile
        BY <1>1, <3>1, <3>2 DEF CanRename, Exists, Renamed, Shown
      <4> QED
        BY <3>1, <3>2, <4>1 DEF Overwriting, Aiming, Exists
    <3>3. CASE disk' = Removed(job[p].staged) /\ pc'[p] = "restore"
      <4>1. disk'[job[p].new] = NoFile
        BY <1>1, <3>1, <3>3 DEF Removed
      <4> QED
        BY <3>1, <3>3, <4>1 DEF Overwriting, Aiming, Exists
    <3> QED
      BY <2>6, <3>2, <3>3 DEF SwapsIn
  <2>7. CASE GivesUp(p)
    BY <1>1, <2>7 DEF GivesUp, Overwriting, Aiming, Exists
  <2>8. CASE Drops(p) \/ Restores(p) \/ TakesBack(p) \/ Elsewhere(p) \/ Dies(p)
    BY <2>8 DEF Drops, Restores, TakesBack, Elsewhere, Dies, Overwriting, Aiming
  <2> QED
    BY <2>1, <2>3, <2>4, <2>5, <2>6, <2>7, <2>8 DEF Outcome
<1> QED
  BY <1>2, <1>3

LEMMA OverInit == HiddenNames /\ Init => OverInv
<1> SUFFICES ASSUME HiddenNames, Init PROVE OverInv
  OBVIOUS
<1>1. TypeInv
  BY TypeInit
<1>2. ShownPaths
  BY FilesAssumption, EmptySeq DEF Init, ShownPaths, HiddenNames, Shown, Organizing, Undoing
<1>3. \A p \in Proc : Overwriting(p)
  BY DEF Init, Overwriting, Aiming
<1> QED
  BY <1>1, <1>2, <1>3 DEF OverInv

LEMMA OverStep == HiddenNames /\ Foreign = {} /\ Alone /\ OverInv /\ [Next]_vars => OverInv'
<1> SUFFICES ASSUME HiddenNames, Foreign = {}, OverInv, [Next]_vars, NEW p, Proc = {p} PROVE OverInv'
  BY DEF Alone
<1>1. TypeInv' /\ ShownPaths'
  BY TypeStep, ShownKept DEF OverInv
<1> QED
  BY <1>1, OverKept DEF OverInv

-----------------------------------------------------------------------------
(* No name is both that of a backup and that of a staged copy.             *)
DistinctNames == \A q, r \in Path : Stash[q] \cap Stage[r] = {}

(* What is visible on disk d of a library one process with job j works on. *)
Seen(j, aiming, d) == [q \in Path |->
    IF aiming /\ j.new = q THEN d[j.backup]
    ELSE IF q \in Temporary THEN NoFile ELSE d[q]]

LEMMA SeenAlone ==
  ASSUME NEW p, Proc = {p}
  PROVE  /\ Visible = Seen(job[p], Aiming(p), disk)
         /\ Visible' = Seen(job'[p], Aiming(p)', disk')
<1>1. Aiming(p) = SetAside(p) /\ Aiming(p)' = SetAside(p)'
  BY DEF Aiming, SetAside
<1>2. Visible = Seen(job[p], Aiming(p), disk)
  <2>1. \A q : (\E x \in Proc : SetAside(x) /\ job[x].new = q) <=> Aiming(p) /\ job[p].new = q
    BY <1>1
  <2>2. \A q : Aiming(p) /\ job[p].new = q => (CHOOSE x \in Proc : SetAside(x) /\ job[x].new = q) = p
    BY <1>1
  <2> QED
    BY <2>1, <2>2 DEF Visible, Seen
<1>3. Visible' = Seen(job'[p], Aiming(p)', disk')
  <2>1. \A q : (\E x \in Proc : SetAside(x)' /\ job'[x].new = q) <=> Aiming(p)' /\ job'[p].new = q
    BY <1>1
  <2>2. \A q : Aiming(p)' /\ job'[p].new = q
               => (CHOOSE x \in Proc : SetAside(x)' /\ job'[x].new = q) = p
    BY <1>1
  <2> QED
    BY <2>1, <2>2 DEF Visible, Seen
<1> QED
  BY <1>2, <1>3

Atomic ==
    \/ Visible' = Visible
    \/ \E q, r \in Path : q # r /\ Visible[q] # NoFile /\ Visible' \in
          {[Visible EXCEPT ![r] = Visible[q], ![q] = NoFile],
           [Visible EXCEPT ![r] = Visible[q]]}
    \/ \E p \in Proc : pc[p] = "unfs" /\ job[p].op = "copy"
          /\ Visible' = [Visible EXCEPT ![job[p].new] = NoFile]
    \/ \E p \in Proc : pc[p] = "restore" /\ faults' > faults
    \/ crashes' > crashes

LEMMA AtomicStep ==
  ASSUME HiddenNames, DistinctNames, Foreign = {}, OverInv, NEW p, Proc = {p}, Next
  PROVE  Atomic
<1>1. /\ TypeInv /\ Overwriting(p) /\ p \in Proc /\ JobOK(p) /\ job[p] \in Job
      /\ disk \in [Path -> Content \cup {NoFile}]
      /\ pc[p] \in Organizing \cup Undoing =>
           /\ job[p].old \in Path /\ job[p].new \in Path
           /\ job[p].old \notin Temporary /\ job[p].new \notin Temporary
  BY DEF OverInv, TypeInv, TypeOK, ShownPaths, Shown
<1>2. /\ Visible = Seen(job[p], Aiming(p), disk)
      /\ Visible' = Seen(job'[p], Aiming(p)', disk')
  BY SeenAlone
<1>3. Outcome(p)
  BY <1>1, AloneStep, Outcomes
<1>4. \A b \in Stash[job[p].new] : job[p].new \in Path => b \in Path /\ b \in Temporary
  BY NamesAssumption DEF Temporary
<1>5. \A s \in Stage[job[p].new] : job[p].new \in Path => s \in Path /\ s \in Temporary
  BY NamesAssumption DEF Temporary
<1>6. CASE SetsAside(p)
  <2>1. PICK b \in Stash[job[p].new] :
          CanRename(job[p].new, b) /\ disk' = Renamed(job[p].new, b) /\ job'[p] = [job[p] EXCEPT !.backup = b]
    BY <1>6 DEF SetsAside
  <2>2. /\ job[p].new \in Path /\ job[p].new \notin Temporary /\ b \in Path /\ b \in Temporary
        /\ ~Aiming(p) /\ job[p].over
    BY <1>1, <1>4, <1>6 DEF SetsAside, Organizing, JobOK, Aiming
  <2>3. job'[p].new = job[p].new /\ job'[p].backup = b /\ job'[p].over
    BY <1>1, <2>1, <2>2 DEF Job
  <2>4. Aiming(p)'
    BY <1>6, <2>3 DEF SetsAside, Aiming
  <2>5. disk'[b] = disk[job[p].new] /\ \A q \in Path \ {b, job[p].new} : disk'[q] = disk[q]
    BY <1>1, <2>1, <2>2 DEF Renamed
  <2>6. Seen(job'[p], Aiming(p)', disk') = Seen(job[p], Aiming(p), disk)
    BY <2>2, <2>3, <2>4, <2>5 DEF Seen
  <2> QED
    BY <1>2, <2>6 DEF Atomic
<1>7. CASE Performs(p)
  <2> DEFINE q == job[p].old
             r == job[p].new
  <2>1. /\ q \in Path /\ r \in Path /\ q \notin Temporary /\ r \notin Temporary
        /\ disk[q] # NoFile /\ disk[r] = NoFile /\ q # r
    BY <1>1, <1>7 DEF Performs, Organizing, CanRename, Exists
  <2>2. ~Aiming(p)'
    BY <1>7 DEF Performs, AfterSuccess, Aiming
  <2>3. \/ disk' = [disk EXCEPT ![r] = disk[q], ![q] = NoFile]
        \/ disk' = [disk EXCEPT ![r] = disk[q]]
    BY <1>7 DEF Performs, Performed, Renamed, Copied
  <2>4. Visible[q] = disk[q] /\ Visible \in [Path -> Content \cup {NoFile}]
    <3>1. Aiming(p) => job[p].backup \in Path
      BY <1>1, <1>4, <2>1 DEF Overwriting
    <3> QED
      BY <1>1, <1>2, <2>1, <3>1 DEF Seen
  <2> HIDE DEF q, r
  <2>5. \A x \in Path \ {r} : Visible[x] = IF x \in Temporary THEN NoFile ELSE disk[x]
    BY <1>2, <2>1 DEF Seen, r
  <2>6. \A x \in Path : Visible'[x] = IF x \in Temporary THEN NoFile ELSE disk'[x]
    BY <1>2, <2>2 DEF Seen
  <2>7. Visible' = [x \in Path |-> Visible'[x]]
    BY <1>2 DEF Seen
  <2>8. \/ Visible' = [Visible EXCEPT ![r] = Visible[q], ![q] = NoFile]
        \/ Visible' = [Visible EXCEPT ![r] = Visible[q]]
    <3>1. CASE disk' = [disk EXCEPT ![r] = disk[q], ![q] = NoFile]
      <4>1. disk'[r] = disk[q] /\ disk'[q] = NoFile /\ \A x \in Path \ {q, r} : disk'[x] = disk[x]
        BY <1>1, <2>1, <3>1
      <4> QED
        BY <2>1, <2>4, <2>5, <2>6, <2>7, <4>1
    <3>2. CASE disk' = [disk EXCEPT ![r] = disk[q]]
      <4>1. disk'[r] = disk[q] /\ \A x \in Path \ {r} : disk'[x] = disk[x]
        BY <1>1, <2>1, <3>2
      <4> QED
        BY <2>1, <2>4, <2>5, <2>6, <2>7, <4>1
    <3> QED
      BY <2>3, <3>1, <3>2
  <2> QED
    BY <2>1, <2>4, <2>8 DEF Atomic
<1>8. CASE Stages(p)
  <2>1. PICK s \in Stage[job[p].new] :
          /\ job'[p] = [job[p] EXCEPT !.staged = s]
          /\ \/ disk' = Copied(job[p].old, s) /\ pc'[p] = "swapin"
             \/ disk' = Removed(s) /\ pc'[p] = "restore"
    BY <1>8 DEF Stages
  <2>2. /\ job[p].new \in Path /\ job[p].new \notin Temporary /\ s \in Path /\ s \in Temporary
        /\ Aiming(p) /\ job[p].over /\ job[p].backup \in Stash[job[p].new]
    BY <1>1, <1>5, <1>8 DEF Stages, Organizing, JobOK, Aiming, Overwriting
  <2>3. job'[p].new = job[p].new /\ job'[p].backup = job[p].backup /\ job'[p].over
    BY <1>1, <2>1, <2>2 DEF Job
  <2>4. Aiming(p)'
    BY <2>1, <2>3 DEF Aiming
  <2>5. job[p].backup # s /\ job[p].backup \in Path
    BY <1>4, <2>2 DEF DistinctNames
  <2>6. \A q \in Path \ {s} : disk'[q] = disk[q]
    BY <1>1, <2>1, <2>2 DEF Copied, Removed
  <2>7. Seen(job'[p], Aiming(p)', disk') = Seen(job[p], Aiming(p), disk)
    BY <2>2, <2>3, <2>4, <2>5, <2>6 DEF Seen
  <2> QED
    BY <1>2, <2>7 DEF Atomic
<1>9. CASE SwapsIn(p)
  <2> DEFINE q == job[p].old
             r == job[p].new
             s == job[p].staged
  <2>1. /\ q \in Path /\ r \in Path /\ q \notin Temporary /\ r \notin Temporary
        /\ Aiming(p) /\ job[p].over /\ job[p].backup \in Stash[job[p].new] /\ s \in Stage[job[p].new]
        /\ disk[r] = NoFile /\ disk[q] # NoFile /\ disk[s] = disk[q] /\ job'[p] = job[p]
    BY <1>1, <1>9 DEF SwapsIn, Organizing, JobOK, Aiming, Overwriting, Exists
  <2>2. s \in Path /\ s \in Temporary /\ job[p].backup # s /\ job[p].backup \in Path /\ q # r
    BY <1>4, <1>5, <2>1 DEF DistinctNames
  <2>3. CASE disk' = Renamed(s, r) /\ pc'[p] = "drop"
    <3>1. ~Aiming(p)'
      BY <2>3 DEF Aiming
    <3>2. disk'[r] = disk[q] /\ \A x \in Path \ {r, s} : disk'[x] = disk[x]
      BY <1>1, <2>1, <2>2, <2>3 DEF Renamed
    <3>3. Visible[q] = disk[q] /\ Visible \in [Path -> Content \cup {NoFile}]
      BY <1>1, <1>2, <2>1, <2>2 DEF Seen
    <3>4. Visible' = [Visible EXCEPT ![r] = Visible[q]]
      BY <1>2, <2>1, <2>2, <3>1, <3>2, <3>3 DEF Seen
    <3>5. Visible[q] # NoFile
      BY <2>1, <3>3
    <3> HIDE DEF q, r
    <3> QED
      BY <2>1, <2>2, <3>4, <3>5 DEF Atomic
  <2>4. CASE disk' = Removed(s) /\ pc'[p] = "restore"
    <3>1. Aiming(p)'
      BY <2>1, <2>4 DEF Aiming
    <3>2. \A x \in Path \ {s} : disk'[x] = disk[x]
      BY <1>1, <2>2, <2>4 DEF Removed
    <3>3. Seen(job'[p], Aiming(p)', disk') = Seen(job[p], Aiming(p), disk)
      BY <2>1, <2>2, <3>1, <3>2 DEF Seen
    <3> QED
      BY <1>2, <3>3 DEF Atomic
  <2> QED
    BY <1>9, <2>3, <2>4 DEF SwapsIn
<1>10. CASE Drops(p)
  <2>1. ~Aiming(p) /\ ~Aiming(p)' /\ job[p].new \in Path /\ job[p].backup \in Stash[job[p].new]
    BY <1>1, <1>10 DEF Drops, Aiming, Organizing, Overwriting
  <2>2. \A x \in Path \ {job[p].backup} : disk'[x] = disk[x]
    BY <1>1, <1>10 DEF Drops, Removed
  <2>3. Seen(job'[p], Aiming(p)', disk') = Seen(job[p], Aiming(p), disk)
    BY <1>4, <2>1, <2>2 DEF Seen
  <2> QED
    BY <1>2, <2>3 DEF Atomic
<1>11. CASE Restores(p)
  <2> DEFINE b == job[p].backup
             r == job[p].new
  <2>1. /\ r \in Path /\ r \notin Temporary /\ Aiming(p) /\ ~Aiming(p)' /\ disk[r] = NoFile
        /\ b \in Path /\ b \in Temporary
    BY <1>1, <1>4, <1>11 DEF Restores, Aiming, Organizing, Overwriting, JobOK, Exists
  <2>2. CASE disk' = [Removed(b) EXCEPT ![r] = disk[b]]
    <3>1. disk'[r] = disk[b] /\ \A x \in Path \ {b, r} : disk'[x] = disk[x]
      BY <1>1, <2>1, <2>2 DEF Removed
    <3>2. Seen(job'[p], Aiming(p)', disk') = Seen(job[p], Aiming(p), disk)
      BY <2>1, <3>1 DEF Seen
    <3> QED
      BY <1>2, <3>2 DEF Atomic
  <2>3. CASE ~Exists(b) /\ UNCHANGED disk
    <3>1. Seen(job'[p], Aiming(p)', disk') = Seen(job[p], Aiming(p), disk)
      BY <2>1, <2>3 DEF Seen, Exists
    <3> QED
      BY <1>2, <3>1 DEF Atomic
  <2>4. CASE faults' > faults
    BY <1>1, <1>11, <2>4 DEF Restores, Atomic
  <2> QED
    BY <1>11, <2>2, <2>3, <2>4 DEF Restores
<1>12. CASE TakesBack(p)
  <2> DEFINE q == job[p].new
             r == job[p].old
  <2>1. /\ q \in Path /\ r \in Path /\ q \notin Temporary /\ r \notin Temporary
        /\ ~Aiming(p) /\ ~Aiming(p)' /\ pc[p] = "unfs"
    BY <1>1, <1>12 DEF TakesBack, Undoing, Aiming
  <2>2. Visible = [x \in Path |-> IF x \in Temporary THEN NoFile ELSE disk[x]]
    BY <1>2, <2>1 DEF Seen
  <2>3. Visible' = [x \in Path |-> IF x \in Temporary THEN NoFile ELSE disk'[x]]
    BY <1>2, <2>1 DEF Seen
  <2>4. CASE job[p].op = "move" /\ CanRename(q, r) /\ disk' = Renamed(q, r)
    <3>1. q # r /\ Visible[q] # NoFile /\ Visible[q] = disk[q]
      BY <2>1, <2>2, <2>4 DEF CanRename, Exists
    <3>2. disk'[r] = disk[q] /\ disk'[q] = NoFile /\ \A x \in Path \ {q, r} : disk'[x] = disk[x]
      BY <1>1, <2>1, <2>4, <3>1 DEF Renamed
    <3> HIDE DEF q, r
    <3>3. Visible' = [Visible EXCEPT ![r] = Visible[q], ![q] = NoFile]
      BY <2>1, <2>2, <2>3, <3>1, <3>2
    <3> QED
      BY <2>1, <3>1, <3>3 DEF Atomic
  <2>5. CASE job[p].op = "copy" /\ disk' = Removed(q)
    <3>1. disk'[q] = NoFile /\ \A x \in Path \ {q} : disk'[x] = disk[x]
      BY <1>1, <2>1, <2>5 DEF Removed
    <3>2. Visible' = [Visible EXCEPT ![q] = NoFile]
      BY <2>1, <2>2, <2>3, <3>1
    <3> QED
      BY <1>1, <2>1, <2>5, <3>2 DEF Atomic
  <2> QED
    BY <1>12, <2>4, <2>5 DEF TakesBack
<1>13. CASE GivesUp(p)
  <2>1. Aiming(p) /\ Aiming(p)' /\ job'[p] = job[p] /\ UNCHANGED disk
    BY <1>13 DEF GivesUp, Aiming
  <2> QED
    BY <1>2, <2>1 DEF Atomic
<1>14. CASE Elsewhere(p)
  <2>1. ~Aiming(p) /\ ~Aiming(p)' /\ UNCHANGED disk
    BY <1>14 DEF Elsewhere, Aiming
  <2>2. Seen(job'[p], Aiming(p)', disk') = Seen(job[p], Aiming(p), disk)
    BY <2>1 DEF Seen
  <2> QED
    BY <1>2, <2>2 DEF Atomic
<1>15. CASE Dies(p)
  BY <1>15 DEF Dies, Atomic
<1> QED
  BY <1>3, <1>6, <1>7, <1>8, <1>9, <1>10, <1>11, <1>12, <1>13, <1>14, <1>15 DEF Outcome

(* A process that has the library to itself never shows half an overwrite: *)
(* at every step the library looks as before, or as after a whole move,    *)
(* copy or undo, unless the process dies or putting the old file back      *)
(* fails too.                                                              *)
THEOREM OverwritingIsAtomic ==
  ASSUME HiddenNames, DistinctNames, Foreign = {}, Alone
  PROVE  Spec => OverwriteIsAtomic
<1>1. PICK p : Proc = {p}
  BY DEF Alone
<1>2. OverInv /\ [Next]_vars => [Atomic]_<<disk, pc>>
  <2>1. CASE UNCHANGED vars
    BY <2>1 DEF vars
  <2> QED
    BY <1>1, <2>1, AtomicStep
<1>3. OverInv /\ [Next]_vars => OverInv'
  BY OverStep
<1>4. Init => OverInv
  BY OverInit
<1> QED
  BY <1>2, <1>3, <1>4, PTL DEF Spec, OverwriteIsAtomic, Atomic

-----------------------------------------------------------------------------
(* A file lies under a staging name only until it is swapped in.           *)
Unstaged ==
    \A q \in Path : \A s \in Stage[q] :
        Exists(s) => \E p \in Proc : pc[p] = "swapin" /\ job[p].staged = s

KeepInv == OverInv /\ Unstaged

LEMMA UnstagedKept ==
  ASSUME HiddenNames, DistinctNames, Foreign = {}, MaxCrashes = 0,
         KeepInv, TypeInv', NEW p, Proc = {p}, [Next]_vars
  PROVE  Unstaged'
<1>1. /\ TypeInv /\ Overwriting(p) /\ p \in Proc /\ JobOK(p) /\ job[p] \in Job
      /\ disk \in [Path -> Content \cup {NoFile}]
      /\ pc[p] \in Organizing \cup Undoing =>
           /\ job[p].old \in Path /\ job[p].new \in Path
           /\ job[p].old \notin Temporary /\ job[p].new \notin Temporary
  BY DEF KeepInv, OverInv, TypeInv, TypeOK, ShownPaths, Shown
<1>2. SUFFICES ASSUME NEW q \in Path, NEW s \in Stage[q], disk'[s] # NoFile
               PROVE  pc'[p] = "swapin" /\ job'[p].staged = s
  BY DEF Unstaged, Exists
<1>3. s \in Path /\ s \in Temporary
  BY NamesAssumption DEF Temporary
<1>4. disk[s] # NoFile => pc[p] = "swapin" /\ job[p].staged = s
  BY DEF KeepInv, Unstaged, Exists
<1>5. CASE UNCHANGED vars
  BY <1>2, <1>4, <1>5 DEF vars
<1>6. CASE Next
  <2>1. Outcome(p)
    BY <1>1, <1>6, AloneStep, Outcomes
  <2>2. CASE SetsAside(p)
    <3>1. PICK b \in Stash[job[p].new] : disk' = Renamed(job[p].new, b)
      BY <2>2 DEF SetsAside
    <3>2. pc[p] = "stage" /\ job[p].new \in Path
      BY <1>1, <2>2 DEF SetsAside, Organizing
    <3>3. b # s /\ b \in Path
      BY <3>2, NamesAssumption DEF DistinctNames
    <3> QED
      BY <1>1, <1>2, <1>3, <1>4, <3>1, <3>2, <3>3 DEF Renamed
  <2>3. CASE Performs(p)
    BY <1>1, <1>2, <1>3, <1>4, <2>3 DEF Performs, Performed, Organizing, Renamed, Copied
  <2>4. CASE Stages(p)
    <3>1. PICK t \in Stage[job[p].new] :
            /\ job'[p] = [job[p] EXCEPT !.staged = t]
            /\ \/ disk' = Copied(job[p].old, t) /\ pc'[p] = "swapin"
               \/ disk' = Removed(t)
      BY <2>4 DEF Stages
    <3>2. pc[p] = "copyover" /\ job[p].new \in Path /\ t \in Path
      BY <1>1, <2>4, NamesAssumption DEF Stages, Organizing
    <3>3. job'[p].staged = t
      BY <1>1, <3>1 DEF Job
    <3> QED
      BY <1>1, <1>2, <1>3, <1>4, <3>1, <3>2, <3>3 DEF Copied, Removed
  <2>5. CASE SwapsIn(p)
    <3>1. /\ job[p].staged \in Path /\ job[p].new \in Path /\ job[p].new \notin Temporary
          /\ disk[s] # NoFile => s = job[p].staged
      BY <1>1, <1>4, <2>5 DEF SwapsIn, JobOK, Organizing
    <3> QED
      BY <1>1, <1>2, <1>3, <2>5, <3>1 DEF SwapsIn, Renamed, Removed
  <2>6. CASE Drops(p)
    <3>1. job[p].backup \in Path
      BY <1>1, <2>6 DEF Drops, JobOK
    <3> QED
      BY <1>1, <1>2, <1>3, <1>4, <2>6, <3>1 DEF Drops, Removed
  <2>7. CASE Restores(p)
    <3>1. pc[p] = "restore" /\ job[p].backup \in Path /\ job[p].new \in Path /\ job[p].new # s
      BY <1>1, <1>3, <2>7 DEF Restores, JobOK, Organizing
    <3> QED
      BY <1>1, <1>2, <1>3, <1>4, <2>7, <3>1 DEF Restores, Removed
  <2>8. CASE TakesBack(p)
    BY <1>1, <1>2, <1>3, <1>4, <2>8 DEF TakesBack, Undoing, Renamed, Removed
  <2>9. CASE GivesUp(p) \/ Elsewhere(p)
    BY <1>1, <1>2, <1>4, <2>9 DEF GivesUp, Elsewhere, Aiming, JobOK
  <2>10. ~Dies(p)
    BY <1>1 DEF Dies, TypeInv, TypeOK
  <2> QED
    BY <2>1, <2>2, <2>3, <2>4, <2>5, <2>6, <2>7, <2>8, <2>9, <2>10 DEF Outcome
<1> QED
  BY <1>5, <1>6

(* While nothing has failed, what lies at the place of a copy is the copy, *)
(* unless by the log, or by what a process is about to log, another file   *)
(* has the place.                                                          *)
Undisturbed(i) == undo[i].op = "copy" /\ ~TakenOver(i)

CopyAt(p, i) ==
    \/ disk[undo[i].new] \in {undo[i].holds, NoFile}
    \/ pc[p] \in {"drop", "find", "record"} /\ job[p].new = undo[i].new
    \/ pc[p] \in {"unrow", "unmark"} /\ job[p].op = "move" /\ job[p].old = undo[i].new

(* ... and of the copy that was set aside the same holds.                  *)
CopyAside(p, i) ==
    Aiming(p) /\ job[p].new = undo[i].new => disk[job[p].backup] \in {undo[i].holds, NoFile}

TakenBack(p) == pc[p] \in {"unrow", "unmark"} => disk[job[p].new] = NoFile

CopyInv ==
    \A p \in Proc :
        /\ OnItsEntry(p) /\ TakenBack(p)
        /\ faults + crashes = 0 =>
              \A i \in DOMAIN undo : Undisturbed(i) => CopyAt(p, i) /\ CopyAside(p, i)

(* What the steps after the file operation do to the queue.                *)
LEMMA TailSteps ==
  ASSUME TypeInv, NEW p \in Proc, Acts(p), faults = 0, faults' = 0, ~Crash(p)
  PROVE  /\ pc[p] = "drop" => pc'[p] = "find" /\ UNCHANGED <<undo, job>>
         /\ pc[p] = "find" =>
              /\ pc'[p] = "record" /\ UNCHANGED <<disk, undo>>
              /\ job'[p].new = job[p].new /\ job'[p].old = job[p].old /\ job'[p].op = job[p].op
         /\ pc[p] = "record" =>
              /\ pc'[p] = "save" /\ UNCHANGED disk /\ \E t : undo' = Append(undo, NewEntry(p, t))
         /\ pc[p] = "unrow" => pc'[p] = "unmark" /\ UNCHANGED <<disk, undo, job>>
         /\ pc[p] = "unmark" =>
              /\ pc'[p] \in {"idle", "undo"} /\ UNCHANGED disk
              /\ undo' = [undo EXCEPT ![job[p].entry].undone = TRUE]
         /\ pc[p] \notin {"record", "unmark"} => UNCHANGED undo
<1> USE DEF Acts, Organize, UndoStep
<1>1. /\ job[p] \in Job
      /\ \A step \in Steps \cup {"idle"} : Goto(p, step) => pc'[p] = step
      /\ \A i : Drop(p, i) => pc'[p] \in {"idle", "undo"}
  BY GotoTyped, DropTyped DEF TypeInv, TypeOK
<1>2. pc[p] = "drop" => DropBackup(p)
  BY DEF Begin, undoAll, StageBackup, executeOperation, CopyOver, SwapIn, RestoreBackup, FindRow,
         recordUndo, SaveRow, UndoNext, UndoFile, UndoRow, UndoMark
<1>3. pc[p] = "find" => FindRow(p)
  BY DEF Begin, undoAll, StageBackup, executeOperation, CopyOver, SwapIn, RestoreBackup, DropBackup,
         recordUndo, SaveRow, UndoNext, UndoFile, UndoRow, UndoMark
<1>4. pc[p] = "record" => recordUndo(p)
  BY DEF Begin, undoAll, StageBackup, executeOperation, CopyOver, SwapIn, RestoreBackup, DropBackup,
         FindRow, SaveRow, UndoNext, UndoFile, UndoRow, UndoMark
<1>5. pc[p] = "unrow" => UndoRow(p)
  BY DEF Begin, undoAll, StageBackup, executeOperation, CopyOver, SwapIn, RestoreBackup, DropBackup,
         FindRow, recordUndo, SaveRow, UndoNext, UndoFile, UndoMark
<1>6. pc[p] = "unmark" => UndoMark(p)
  BY DEF Begin, undoAll, StageBackup, executeOperation, CopyOver, SwapIn, RestoreBackup, DropBackup,
         FindRow, recordUndo, SaveRow, UndoNext, UndoFile, UndoRow
<1>7. pc[p] \notin {"record", "unmark"} => UNCHANGED undo
  BY DEF Begin, undoAll, StageBackup, executeOperation, CopyOver, SwapIn, RestoreBackup, DropBackup,
         FindRow, recordUndo, SaveRow, UndoNext, UndoFile, UndoRow, UndoMark
<1>8. pc[p] = "drop" => pc'[p] = "find" /\ UNCHANGED <<undo, job>>
  BY <1>1, <1>2 DEF DropBackup, Steps
<1>9. ASSUME pc[p] = "find"
      PROVE  /\ pc'[p] = "record" /\ UNCHANGED <<disk, undo>>
             /\ job'[p].new = job[p].new /\ job'[p].old = job[p].old /\ job'[p].op = job[p].op
  <2>1. /\ Goto(p, "record") /\ UNCHANGED <<disk, undo>>
        /\ \E f \in FileId \cup {0} : job'[p] = [job[p] EXCEPT !.row = f]
    BY <1>3, <1>9, Found
  <2> QED
    BY <1>1, <2>1 DEF Steps, Job
<1>10. ASSUME pc[p] = "record"
       PROVE  pc'[p] = "save" /\ UNCHANGED disk /\ \E t : undo' = Append(undo, NewEntry(p, t))
  <2>1. Goto(p, "save") /\ UNCHANGED disk
    BY <1>4, <1>10 DEF recordUndo
  <2>2. \E t : undo' = Append(undo, NewEntry(p, t))
    BY <1>4, <1>10, AttemptFaultless DEF recordUndo, Inserted
  <2> QED
    BY <1>1, <2>1, <2>2 DEF Steps
<1>11. pc[p] = "unrow" => pc'[p] = "unmark" /\ UNCHANGED <<disk, undo, job>>
  BY <1>1, <1>5 DEF UndoRow, Steps
<1>12. ASSUME pc[p] = "unmark"
       PROVE  /\ pc'[p] \in {"idle", "undo"} /\ UNCHANGED disk
              /\ undo' = [undo EXCEPT ![job[p].entry].undone = TRUE]
  BY <1>1, <1>6, <1>12, AttemptFaultless DEF UndoMark
<1> QED
  BY <1>7, <1>8, <1>9, <1>10, <1>11, <1>12

(* A copy whose place no other file has by the queue had none before, and  *)
(* a new entry, or a mark, is not about its place.                         *)
LEMMA RecordDisturbs ==
  ASSUME TypeInv, TypeInv', NEW p \in Proc, NEW t, undo' = Append(undo, NewEntry(p, t)),
         NEW i \in DOMAIN undo', Undisturbed(i)'
  PROVE  \/ undo'[i].new = job[p].new /\ undo'[i].holds = disk[job[p].new]
         \/ /\ i \in DOMAIN undo /\ Undisturbed(i) /\ undo'[i] = undo[i]
            /\ job[p].new # undo[i].new
<1>1. undo \in Seq(Entry) /\ undo' \in Seq(Entry)
  BY DEF TypeInv, TypeOK
<1> DEFINE n == Len(undo)
           e == NewEntry(p, t)
<1>2. e.new = job[p].new /\ e.holds = disk[job[p].new] /\ e.undone = FALSE
  BY DEF NewEntry
<1> HIDE DEF e
<1>3. n \in Nat /\ DOMAIN undo = 1 .. n /\ DOMAIN undo' = 1 .. n + 1
  BY <1>1, LenProperties
<1>4. undo'[n + 1] = e /\ \A j \in 1 .. n : undo'[j] = undo[j]
  BY <1>1 DEF e
<1>5. CASE i = n + 1
  BY <1>2, <1>4, <1>5
<1>6. CASE i # n + 1
  <2>1. i \in DOMAIN undo /\ undo'[i] = undo[i] /\ n + 1 > i /\ n + 1 \in DOMAIN undo'
    BY <1>3, <1>4, <1>6
  <2>2. ~TakenOver(i)' /\ undo'[i].op = "copy"
    BY DEF Undisturbed
  <2>3. undo'[n + 1].new # undo[i].new
    BY <1>2, <1>4, <2>1, <2>2 DEF TakenOver
  <2>4. \A j \in DOMAIN undo : j \in DOMAIN undo' /\ undo'[j] = undo[j]
    BY <1>3, <1>4
  <2>5. ~TakenOver(i)
    BY <2>1, <2>2, <2>4 DEF TakenOver
  <2> QED
    BY <1>2, <1>4, <2>1, <2>2, <2>3, <2>5 DEF Undisturbed
<1> QED
  BY <1>5, <1>6

LEMMA MarkDisturbs ==
  ASSUME TypeInv, NEW k \in DOMAIN undo, undo' = [undo EXCEPT ![k].undone = TRUE],
         NEW i \in DOMAIN undo', Undisturbed(i)'
  PROVE  /\ i \in DOMAIN undo /\ undo'[i].new = undo[i].new /\ undo'[i].holds = undo[i].holds
         /\ \/ undo[k].new = undo[i].new
            \/ Undisturbed(i) /\ ~(undo[k].op = "move" /\ undo[k].old = undo[i].new)
<1>1. undo \in Seq(Entry) /\ DOMAIN undo' = DOMAIN undo /\ DOMAIN undo \subseteq Nat
  BY LenProperties DEF TypeInv, TypeOK
<1>2. \A j \in DOMAIN undo : undo[j] \in Entry
  BY <1>1, ElementOfSeq, LenProperties
<1>3. undo' = [undo EXCEPT ![k] = [undo[k] EXCEPT !.undone = TRUE]]
  OBVIOUS
<1> DEFINE e == [undo[k] EXCEPT !.undone = TRUE]
<1>4. /\ e.op = undo[k].op /\ e.old = undo[k].old /\ e.new = undo[k].new
      /\ e.holds = undo[k].holds /\ e.undone
  BY <1>2 DEF Entry
<1> HIDE DEF e
<1>5. undo'[k] = e /\ \A j \in DOMAIN undo : j # k => undo'[j] = undo[j]
  BY <1>3 DEF e
<1>6. \A j \in DOMAIN undo : /\ undo'[j].op = undo[j].op /\ undo'[j].old = undo[j].old
                             /\ undo'[j].new = undo[j].new /\ undo'[j].holds = undo[j].holds
                             /\ undo[j].undone => undo'[j].undone
  BY <1>4, <1>5
<1>7. ~TakenOver(i)' /\ undo[i].op = "copy" /\ i \in DOMAIN undo
  BY <1>1, <1>6 DEF Undisturbed
<1>8. ~(undo[k].op = "move" /\ undo[k].old = undo[i].new)
  BY <1>1, <1>4, <1>5, <1>6, <1>7 DEF TakenOver
<1>9. ASSUME undo[k].new # undo[i].new, TakenOver(i) PROVE FALSE
  <2>1. PICK j \in DOMAIN undo :
          \/ j > i /\ undo[j].new = undo[i].new /\ ~undo[j].undone
          \/ undo[j].op = "move" /\ undo[j].old = undo[i].new /\ undo[j].undone
    BY <1>9 DEF TakenOver
  <2>2. CASE j > i /\ undo[j].new = undo[i].new /\ ~undo[j].undone
    <3>1. j # k
      BY <1>9, <2>2
    <3>2. undo'[j] = undo[j]
      BY <1>5, <3>1
    <3> QED
      BY <1>1, <1>6, <1>7, <2>2, <3>2 DEF TakenOver
  <2>3. CASE undo[j].op = "move" /\ undo[j].old = undo[i].new /\ undo[j].undone
    BY <1>1, <1>6, <1>7, <2>3 DEF TakenOver
  <2> QED
    BY <2>1, <2>2, <2>3
<1> QED
  BY <1>6, <1>7, <1>8, <1>9 DEF Undisturbed

(* The step proper, for one copy and as long as nothing has failed.        *)
CopyRight(p, i) == CopyAt(p, i) /\ CopyAside(p, i)

LEMMA CopyKept ==
  ASSUME HiddenNames, DistinctNames, Foreign = {}, MaxCrashes = 0,
         OverInv, TypeInv', NEW p, Proc = {p}, Acts(p), OnItsEntry(p), TakenBack(p),
         \A i \in DOMAIN undo : Undisturbed(i) => CopyRight(p, i),
         faults = 0, faults' = 0, NEW i \in DOMAIN undo', Undisturbed(i)'
  PROVE  CopyRight(p, i)'
<1>1. /\ TypeInv /\ Overwriting(p) /\ p \in Proc /\ JobOK(p) /\ job[p] \in Job
      /\ disk \in [Path -> Content \cup {NoFile}] /\ ~Crash(p)
      /\ pc[p] \in Organizing \cup Undoing =>
           /\ job[p].old \in Path /\ job[p].new \in Path
           /\ job[p].old \notin Temporary /\ job[p].new \notin Temporary
  BY DEF OverInv, TypeInv, TypeOK, ShownPaths, Shown, Crash
<1>2. CASE pc[p] = "record"
  <2>1. PICK t : undo' = Append(undo, NewEntry(p, t))
    BY <1>1, <1>2, TailSteps
  <2>2. UNCHANGED disk /\ pc'[p] = "save"
    BY <1>1, <1>2, TailSteps
  <2>3. \/ undo'[i].new = job[p].new /\ undo'[i].holds = disk[job[p].new]
        \/ /\ i \in DOMAIN undo /\ Undisturbed(i) /\ undo'[i] = undo[i]
           /\ job[p].new # undo[i].new
    BY <1>1, <2>1, RecordDisturbs
  <2>4. disk[undo'[i].new] \in {undo'[i].holds, NoFile}
    BY <1>2, <2>3 DEF CopyRight, CopyAt
  <2> QED
    BY <2>2, <2>4 DEF CopyRight, CopyAt, CopyAside, Aiming
<1>3. CASE pc[p] = "unmark"
  <2>1. /\ pc'[p] \in {"idle", "undo"} /\ UNCHANGED disk
        /\ undo' = [undo EXCEPT ![job[p].entry].undone = TRUE]
    BY <1>1, <1>3, TailSteps
  <2>2. /\ job[p].entry \in DOMAIN undo /\ disk[job[p].new] = NoFile
        /\ job[p].op = undo[job[p].entry].op /\ job[p].old = undo[job[p].entry].old
        /\ job[p].new = undo[job[p].entry].new
    BY <1>1, <1>3 DEF JobOK, OnItsEntry, TakenBack, Undoing
  <2>3. \A k \in DOMAIN undo : undo' = [undo EXCEPT ![k].undone = TRUE] =>
          /\ i \in DOMAIN undo /\ undo'[i].new = undo[i].new /\ undo'[i].holds = undo[i].holds
          /\ \/ undo[k].new = undo[i].new
             \/ Undisturbed(i) /\ ~(undo[k].op = "move" /\ undo[k].old = undo[i].new)
    BY <1>1, MarkDisturbs
  <2>4. /\ i \in DOMAIN undo /\ undo'[i].new = undo[i].new /\ undo'[i].holds = undo[i].holds
        /\ \/ job[p].new = undo[i].new
           \/ Undisturbed(i) /\ ~(job[p].op = "move" /\ job[p].old = undo[i].new)
    BY <2>1, <2>2, <2>3
  <2>5. disk[undo'[i].new] \in {undo'[i].holds, NoFile}
    BY <1>3, <2>2, <2>4 DEF CopyRight, CopyAt
  <2> QED
    BY <2>1, <2>5 DEF CopyRight, CopyAt, CopyAside, Aiming
<1>4. CASE pc[p] \notin {"record", "unmark"}
  <2> DEFINE q == undo[i].new
             known == {undo[i].holds, NoFile}
  <2>1. UNCHANGED undo
    BY <1>1, <1>4, TailSteps
  <2>2. i \in DOMAIN undo /\ Undisturbed(i)
    BY <2>1 DEF Undisturbed, TakenOver
  <2>3. q \in Path /\ q \notin Temporary
    BY <2>2 DEF OverInv, ShownPaths, Shown
  <2>4. CopyAt(p, i) /\ CopyAside(p, i)
    BY <2>2 DEF CopyRight
  <2>5. /\ NoFile \in known
        /\ disk[q] \in known \/ (pc[p] \in {"drop", "find"} /\ job[p].new = q)
           \/ (pc[p] = "unrow" /\ job[p].op = "move" /\ job[p].old = q)
        /\ Aiming(p) /\ job[p].new = q => disk[job[p].backup] \in known
    BY <1>4, <2>4 DEF CopyAt, CopyAside
  <2>6. ASSUME \/ disk'[q] \in known
               \/ pc'[p] \in {"drop", "find", "record"} /\ job'[p].new = q
               \/ pc'[p] \in {"unrow", "unmark"} /\ job'[p].op = "move" /\ job'[p].old = q,
               Aiming(p)' /\ job'[p].new = q => disk'[job'[p].backup] \in known
        PROVE  CopyRight(p, i)'
    BY <2>1, <2>6 DEF CopyRight, CopyAt, CopyAside
  <2> HIDE DEF q, known
  <2>7. Outcome(p)
    BY <1>1, Outcomes
  <2>8. CASE pc[p] = "find"
    <3>1. UNCHANGED disk /\ pc'[p] = "record" /\ job'[p].new = job[p].new
      BY <1>1, <2>8, TailSteps
    <3> QED
      BY <2>5, <2>6, <2>8, <3>1 DEF Aiming
  <2>9. CASE pc[p] = "unrow"
    <3>1. UNCHANGED <<disk, job>> /\ pc'[p] = "unmark"
      BY <1>1, <2>9, TailSteps
    <3> QED
      BY <2>5, <2>6, <2>9, <3>1 DEF Aiming
  <2>10. CASE SetsAside(p)
    <3>1. PICK b \in Stash[job[p].new] :
            disk' = Renamed(job[p].new, b) /\ job'[p] = [job[p] EXCEPT !.backup = b]
      BY <2>10 DEF SetsAside
    <3>2. pc[p] = "stage" /\ job[p].new \in Path /\ b \in Path /\ b \in Temporary
      BY <1>1, <2>10, <3>1, NamesAssumption DEF SetsAside, Organizing, Temporary
    <3>3. job'[p].new = job[p].new /\ job'[p].backup = b
      BY <1>1, <3>1 DEF Job
    <3>4. disk'[job[p].new] = NoFile /\ (b # job[p].new => disk'[b] = disk[job[p].new])
          /\ \A x \in Path \ {job[p].new, b} : disk'[x] = disk[x]
      BY <1>1, <3>1, <3>2 DEF Renamed
    <3>5. b # job[p].new /\ b # q /\ disk[q] \in known
      BY <1>1, <2>3, <2>5, <3>2 DEF Organizing
    <3> QED
      BY <2>3, <2>5, <2>6, <3>2, <3>3, <3>4, <3>5
  <2>11. CASE Performs(p)
    <3>1. /\ pc[p] = "exec" /\ job[p].old \in Path /\ job[p].new \in Path /\ job'[p] = job[p]
          /\ pc'[p] \in {"drop", "find"} /\ disk[q] \in known
      BY <1>1, <2>5, <2>11 DEF Performs, AfterSuccess, Organizing
    <3>2. \A x \in Path \ {job[p].new} : disk'[x] \in {disk[x], NoFile}
      BY <1>1, <2>11, <3>1 DEF Performs, Performed, Renamed, Copied
    <3> QED
      BY <2>3, <2>5, <2>6, <3>1, <3>2 DEF Aiming
  <2>12. CASE Stages(p)
    <3>1. PICK t \in Stage[job[p].new] :
            /\ job'[p] = [job[p] EXCEPT !.staged = t]
            /\ \/ disk' = Copied(job[p].old, t)
               \/ disk' = Removed(t)
      BY <2>12 DEF Stages
    <3>2. /\ pc[p] = "copyover" /\ job[p].over /\ job[p].new \in Path /\ t \in Path /\ t \in Temporary
          /\ job[p].backup \in Stash[job[p].new] /\ disk[q] \in known
      BY <1>1, <2>5, <2>12, <3>1, NamesAssumption
         DEF Stages, Organizing, Temporary, JobOK, Overwriting, Aiming
    <3>3. job'[p].new = job[p].new /\ job'[p].backup = job[p].backup
      BY <1>1, <3>1 DEF Job
    <3>4. t # q /\ t # job[p].backup /\ job[p].backup \in Path
      BY <2>3, <3>1, <3>2, NamesAssumption DEF DistinctNames
    <3>5. \A x \in Path \ {t} : disk'[x] = disk[x]
      BY <1>1, <3>1, <3>2 DEF Copied, Removed
    <3> QED
      BY <2>3, <2>5, <2>6, <3>2, <3>3, <3>4, <3>5 DEF Aiming
  <2>13. CASE SwapsIn(p)
    <3>1. /\ pc[p] = "swapin" /\ job[p].over /\ job[p].new \in Path /\ job[p].staged \in Path
          /\ job[p].staged \in Temporary /\ job'[p] = job[p]
          /\ job[p].backup \in Stash[job[p].new] /\ job[p].staged \in Stage[job[p].new]
          /\ disk[q] \in known
      BY <1>1, <2>5, <2>13 DEF SwapsIn, Organizing, Temporary, JobOK, Overwriting, Aiming
    <3>2. q # job[p].staged /\ job[p].staged # job[p].backup /\ job[p].backup \in Path
      BY <2>3, <3>1, NamesAssumption DEF DistinctNames
    <3>3. CASE disk' = Renamed(job[p].staged, job[p].new) /\ pc'[p] = "drop"
      <4>1. q # job[p].new => disk'[q] = disk[q]
        BY <1>1, <2>3, <3>1, <3>2, <3>3 DEF Renamed
      <4> QED
        BY <2>6, <3>1, <3>3, <4>1 DEF Aiming
    <3>4. CASE disk' = Removed(job[p].staged) /\ pc'[p] = "restore"
      <4>1. disk'[q] = disk[q] /\ disk'[job[p].backup] = disk[job[p].backup]
        BY <1>1, <2>3, <3>1, <3>2, <3>4 DEF Removed
      <4> QED
        BY <2>5, <2>6, <3>1, <3>4, <4>1 DEF Aiming
    <3> QED
      BY <2>13, <3>3, <3>4 DEF SwapsIn
  <2>14. CASE Drops(p)
    <3>1. /\ pc[p] = "drop" /\ pc'[p] = "find" /\ job[p].backup \in Path
          /\ disk' \in {disk, Removed(job[p].backup)}
      BY <1>1, <2>14 DEF Drops, JobOK
    <3>2. job' = job
      BY <1>1, <3>1, TailSteps
    <3>3. disk'[q] \in {disk[q], NoFile}
      BY <1>1, <2>3, <3>1 DEF Removed
    <3> QED
      BY <2>5, <2>6, <3>1, <3>2, <3>3 DEF Aiming
  <2>15. CASE Restores(p)
    <3>1. /\ pc[p] = "restore" /\ job[p].over /\ pc'[p] = "idle" /\ disk[q] \in known
          /\ job[p].new \in Path /\ job[p].backup \in Path
      BY <1>1, <2>5, <2>15 DEF Restores, JobOK, Organizing
    <3>2. \/ disk' = [Removed(job[p].backup) EXCEPT ![job[p].new] = disk[job[p].backup]]
          \/ UNCHANGED disk
      BY <2>15 DEF Restores
    <3>3. disk'[q] \in {disk[q], NoFile} \/ (q = job[p].new /\ disk'[q] = disk[job[p].backup])
      BY <1>1, <2>3, <3>1, <3>2 DEF Removed
    <3> QED
      BY <2>5, <2>6, <3>1, <3>3 DEF Aiming
  <2>16. CASE TakesBack(p)
    <3>1. /\ pc[p] = "unfs" /\ pc'[p] \in {"unrow", "unmark"} /\ disk[q] \in known
          /\ job[p].old \in Path /\ job[p].new \in Path
      BY <1>1, <2>5, <2>16 DEF TakesBack, Undoing
    <3>2. job' = job
      BY <1>1, <3>1, GoesOnUndoing
    <3>3. disk'[q] \in {disk[q], NoFile} \/ (q = job[p].old /\ job[p].op = "move")
      BY <1>1, <2>3, <2>16, <3>1 DEF TakesBack, Renamed, Removed
    <3> QED
      BY <2>5, <2>6, <3>1, <3>2, <3>3 DEF Aiming
  <2>17. CASE GivesUp(p)
    BY <2>5, <2>6, <2>17 DEF GivesUp, Aiming
  <2>18. CASE Elsewhere(p) /\ pc[p] \notin {"find", "unrow", "drop"}
    BY <2>5, <2>6, <2>18 DEF Elsewhere, Aiming
  <2>19. pc[p] = "drop" /\ Elsewhere(p) => Drops(p)
    BY <1>1, TailSteps DEF Elsewhere, Drops
  <2>20. ~Dies(p)
    BY <1>1 DEF Dies, TypeInv, TypeOK
  <2> QED
    BY <2>7, <2>8, <2>9, <2>10, <2>11, <2>12, <2>13, <2>14, <2>15, <2>16, <2>17, <2>18, <2>19, <2>20
    DEF Outcome
<1> QED
  BY <1>2, <1>3, <1>4

LEMMA TakenBackKept ==
  ASSUME OverInv, TypeInv', NEW p, Proc = {p}, Acts(p), TakenBack(p)
  PROVE  TakenBack(p)'
<1> SUFFICES ASSUME pc'[p] \in {"unrow", "unmark"} PROVE disk'[job'[p].new] = NoFile
  BY DEF TakenBack
<1>1. /\ TypeInv /\ p \in Proc /\ disk \in [Path -> Content \cup {NoFile}]
  BY DEF OverInv, TypeInv, TypeOK
<1>2. CASE pc[p] = "unrow"
  BY <1>1, <1>2, GoesOnUndoing DEF TakenBack
<1>3. CASE pc[p] = "unfs"
  <2>1. UndoFile(p) /\ job' = job /\ job[p].old \in Path /\ job[p].new \in Path
    BY <1>1, <1>3, GoesOnUndoing DEF TypeInv, JobOK, Undoing
  <2>2. ~Drop(p, job[p].entry)
    BY <1>1, DropTyped
  <2>3. /\ CanUndo(p)
        /\ disk' = IF job[p].op = "move" THEN Renamed(job[p].new, job[p].old)
                                         ELSE Removed(job[p].new)
    BY <2>1, <2>2 DEF UndoFile, Attempt
  <2> QED
    BY <1>1, <2>1, <2>3 DEF CanUndo, CanRename, Exists, Renamed, Removed
<1> QED
  BY <1>1, <1>2, <1>3, GoesOnUndoing

LEMMA CopyStep ==
  ASSUME HiddenNames, DistinctNames, Foreign = {}, MaxCrashes = 0,
         OverInv, CopyInv, TypeInv', NEW p, Proc = {p}, [Next]_vars
  PROVE  CopyInv'
<1>1. TypeInv /\ p \in Proc
  BY DEF OverInv
<1>2. OnItsEntry(p)'
  BY <1>1, OnItsEntryKept DEF CopyInv
<1>3. CASE UNCHANGED vars
  BY <1>3 DEF vars, CopyInv, OnItsEntry, TakenBack, Undisturbed, TakenOver, CopyAt, CopyAside, Aiming
<1>4. CASE Next
  <2>1. Acts(p)
    BY <1>1, <1>4, AloneStep
  <2>2. TakenBack(p)'
    BY <2>1, TakenBackKept DEF CopyInv
  <2>3. ASSUME faults' + crashes' = 0, NEW i \in DOMAIN undo', Undisturbed(i)'
        PROVE  CopyAt(p, i)' /\ CopyAside(p, i)'
    <3>1. /\ faults \in Nat /\ crashes \in Nat /\ faults' \in Nat /\ crashes' \in Nat
          /\ faults <= faults' /\ crashes <= crashes'
      BY <1>1, CountersGrow
    <3>2. faults' = 0 /\ crashes' = 0
      BY <2>3, <3>1, SumIsZero
    <3>3. faults = 0 /\ crashes = 0
      BY <3>1, <3>2
    <3>4. /\ OnItsEntry(p) /\ TakenBack(p)
          /\ \A k \in DOMAIN undo : Undisturbed(k) => CopyRight(p, k)
      BY <3>3 DEF CopyInv, CopyRight
    <3>5. CopyRight(p, i)'
      BY <2>1, <2>3, <3>2, <3>3, <3>4, CopyKept
    <3> QED
      BY <3>5 DEF CopyRight
  <2> QED
    BY <1>2, <2>2, <2>3 DEF CopyInv
<1> QED
  BY <1>3, <1>4

KeptInv == KeepInv /\ CopyInv

Replaced(c) ==
    \E p \in Proc :
        \/ pc[p] = "drop" /\ disk[job[p].backup] = c /\ Exists(job[p].new)
        \/ pc[p] = "unfs" /\ job[p].op = "copy" /\ disk[job[p].new] = c /\ TakesBackItsCopy(p)

LEMMA LossStep ==
  ASSUME HiddenNames, DistinctNames, Foreign = {}, KeptInv, NEW p, Proc = {p}, Next,
         NEW c \in Content, OnDisk(c), ~OnDisk(c)'
  PROVE  Replaced(c)
<1>1. /\ TypeInv /\ Overwriting(p) /\ p \in Proc /\ JobOK(p) /\ job[p] \in Job
      /\ disk \in [Path -> Content \cup {NoFile}] /\ c # NoFile
      /\ pc[p] \in Organizing \cup Undoing =>
           /\ job[p].old \in Path /\ job[p].new \in Path
           /\ job[p].old \notin Temporary /\ job[p].new \notin Temporary
  BY DiskAssumption DEF KeptInv, KeepInv, OverInv, TypeInv, TypeOK, ShownPaths, Shown
<1>2. PICK x \in Path : disk[x] = c
  BY DEF OnDisk
<1>3. \A y \in Path : disk'[y] # c
  BY DEF OnDisk
<1>4. Outcome(p)
  BY <1>1, AloneStep, Outcomes
<1>5. \A q, r \in Path : disk[r] = NoFile => disk' # Renamed(q, r) /\ disk' # Copied(q, r)
  BY <1>1, <1>2, <1>3 DEF Renamed, Copied
<1>6. \A q \in Path : disk' = Removed(q) => x = q
  BY <1>1, <1>2, <1>3 DEF Removed
<1>7. disk' # disk
  BY <1>2, <1>3
<1>8. ~SetsAside(p)
  BY <1>1, <1>5, NamesAssumption DEF SetsAside, Organizing, CanRename, Exists
<1>9. ~Performs(p)
  BY <1>1, <1>5 DEF Performs, Performed, Organizing, CanRename, Exists
<1>10. ~Stages(p)
  <2> SUFFICES ASSUME Stages(p) PROVE FALSE
    OBVIOUS
  <2>1. PICK t \in Stage[job[p].new] :
          \/ CanRename(job[p].old, t) /\ disk' = Copied(job[p].old, t)
          \/ disk' = Removed(t)
    BY DEF Stages
  <2>2. pc[p] = "copyover" /\ job[p].new \in Path /\ job[p].old \in Path /\ t \in Path
    BY <1>1, NamesAssumption DEF Stages, Organizing
  <2>3. disk[t] = NoFile
    BY <2>2 DEF KeptInv, KeepInv, Unstaged, Exists
  <2> QED
    BY <1>1, <1>2, <1>5, <1>6, <2>1, <2>2, <2>3
<1>11. ~SwapsIn(p)
  <2> SUFFICES ASSUME SwapsIn(p) PROVE FALSE
    OBVIOUS
  <2>1. /\ job[p].staged \in Path /\ job[p].new \in Path /\ job[p].old \in Path
        /\ job[p].old # job[p].staged /\ disk[job[p].staged] = disk[job[p].old]
    BY <1>1 DEF SwapsIn, JobOK, Organizing, Overwriting, Temporary
  <2>2. disk' # Removed(job[p].staged)
    BY <1>1, <1>2, <1>3, <1>6, <2>1 DEF Removed
  <2> QED
    BY <1>5, <2>1, <2>2 DEF SwapsIn, CanRename, Exists
<1>12. CASE Drops(p)
  <2>1. /\ pc[p] = "drop" /\ job[p].backup \in Path /\ Exists(job[p].new)
        /\ disk' = Removed(job[p].backup)
    BY <1>1, <1>7, <1>12 DEF Drops, JobOK, Overwriting
  <2> QED
    BY <1>1, <1>2, <1>6, <2>1 DEF Replaced
<1>13. ~Restores(p)
  <2> SUFFICES ASSUME Restores(p) PROVE FALSE
    OBVIOUS
  <2>1. /\ pc[p] = "restore" /\ job[p].backup \in Path /\ job[p].new \in Path
        /\ disk[job[p].new] = NoFile
    BY <1>1 DEF Restores, JobOK, Organizing, Overwriting, Aiming, Exists
  <2>2. disk' # Removed(job[p].new)
    BY <1>1, <1>2, <1>6, <2>1
  <2>3. disk' # [Removed(job[p].backup) EXCEPT ![job[p].new] = disk[job[p].backup]]
    BY <1>1, <1>2, <1>3, <2>1 DEF Removed
  <2> QED
    BY <1>7, <2>2, <2>3 DEF Restores
<1>14. CASE TakesBack(p)
  <2>1. pc[p] = "unfs" /\ job[p].old \in Path /\ job[p].new \in Path
    BY <1>1, <1>14 DEF TakesBack, Undoing
  <2>2. job[p].op = "copy" /\ disk' = Removed(job[p].new)
    BY <1>5, <1>14, <2>1 DEF TakesBack, CanRename, Exists
  <2>3. disk[job[p].new] = c
    BY <1>1, <1>2, <1>6, <2>1, <2>2
  <2>4. TakesBackItsCopy(p)
    <3> SUFFICES ASSUME ~TakenOver(job[p].entry), ~(faults + crashes > 0)
                 PROVE  disk[job[p].new] = undo[job[p].entry].holds
      BY DEF TakesBackItsCopy
    <3>1. faults + crashes = 0
      BY <1>1, OptionsAssumption DEF TypeInv, TypeOK
    <3>2. /\ job[p].entry \in DOMAIN undo /\ undo[job[p].entry].op = "copy"
          /\ undo[job[p].entry].new = job[p].new
      BY <1>1, <2>1, <2>2 DEF KeptInv, CopyInv, OnItsEntry, Undoing, JobOK
    <3>3. CopyAt(p, job[p].entry)
      BY <1>1, <3>1, <3>2 DEF KeptInv, CopyInv, Undisturbed
    <3> QED
      BY <1>1, <2>1, <2>3, <3>2, <3>3 DEF CopyAt
  <2> QED
    BY <1>1, <2>1, <2>2, <2>3, <2>4 DEF Replaced
<1>15. ~GivesUp(p) /\ ~Elsewhere(p) /\ ~Dies(p)
  BY <1>7 DEF GivesUp, Elsewhere, Dies
<1> QED
  BY <1>4, <1>8, <1>9, <1>10, <1>11, <1>12, <1>13, <1>14, <1>15 DEF Outcome

Justified ==
    \A c \in Content : OnDisk(c) /\ ~OnDisk(c)' =>
         \E p \in Proc :
            \/ pc[p] = "drop" /\ disk[job[p].backup] = c /\ Exists(job[p].new)
            \/ pc[p] = "unfs" /\ job[p].op = "copy" /\ disk[job[p].new] = c
               /\ TakesBackItsCopy(p)

(* Without a crash, overwriting and undoing take a content off the disk in *)
(* two cases only: it was replaced and the new file is in its place; or a  *)
(* copy is undone, and what is removed is what this copy put there, unless *)
(* by the log another file has its place.  Only where an operation failed  *)
(* before, the log says nothing about what lies at the place of a copy.    *)
THEOREM OverwritingLosesOnlyTheReplaced ==
  ASSUME HiddenNames, DistinctNames, Foreign = {}, Alone, MaxCrashes = 0
  PROVE  Spec => OnlyTheReplacedIsLost
<1>1. PICK p : Proc = {p}
  BY DEF Alone
<1>2. KeptInv /\ [Next]_vars => [Justified]_vars
  BY <1>1, LossStep DEF Justified, Replaced
<1>3. KeptInv /\ [Next]_vars => KeptInv'
  <2> SUFFICES ASSUME KeptInv, [Next]_vars PROVE KeptInv'
    OBVIOUS
  <2>1. OverInv'
    BY OverStep DEF KeptInv, KeepInv
  <2>2. TypeInv'
    BY <2>1 DEF OverInv
  <2>3. CopyInv'
    BY <1>1, <2>2, CopyStep DEF KeptInv, KeepInv
  <2> QED
    BY <1>1, <2>1, <2>2, <2>3, UnstagedKept DEF KeptInv, KeepInv
<1>4. Init => KeptInv
  <2> SUFFICES ASSUME Init PROVE KeptInv
    OBVIOUS
  <2>1. OverInv
    BY OverInit
  <2>2. Unstaged
    BY DEF Init, Unstaged, HiddenNames, Temporary, Exists
  <2>3. CopyInv
    BY EmptySeq DEF Init, CopyInv, OnItsEntry, TakenBack, Undoing
  <2> QED
    BY <2>1, <2>2, <2>3 DEF KeptInv, KeepInv
<1> QED
  BY <1>2, <1>3, <1>4, PTL DEF Spec, OnlyTheReplacedIsLost, Justified
=============================================================================
