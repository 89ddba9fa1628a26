---------------------- MODULE OrganizeEngineRefinement ----------------------
(***************************************************************************)
(* OrganizeEngine implements UndoLog.  The moment a move happens is the    *)
(* rename, not the INSERT that follows it; the moment one is undone is the *)
(* rename back, not the UPDATE of its entry.                               *)
(***************************************************************************)
EXTENDS OrganizeEngine

PlaceOf(f) == CHOOSE q \in Path : disk[q] = Disk0[Home[f]]

(* Renamed, not yet in undo_queue.                                         *)
Unrecorded == {p \in Proc : pc[p] \in {"find", "record"}}

(* Renamed back, not yet marked as undone.                                 *)
Unmarked(i) == \E p \in Proc : pc[p] \in {"unrow", "unmark"} /\ job[p].entry = i

LogEntry(file, old, new, live) == [file |-> file, from |-> old, to |-> new, live |-> live]

Recorded == [i \in DOMAIN undo |->
    LogEntry(undo[i].file, undo[i].old, undo[i].new,
             ~undo[i].undone /\ ~Unmarked(i))]

Log == IF Unrecorded = {} THEN Recorded
       ELSE LET p == CHOOSE p \in Unrecorded : TRUE
            IN Append(Recorded, LogEntry(job[p].file, job[p].old, job[p].new, TRUE))

Abstract == INSTANCE UndoLog WITH
    File <- FileId, Place <- Path, Start <- Home,
    place <- [f \in FileId |-> PlaceOf(f)], log <- Log

(* Each step of the engine is a move, the undo of the last move, or none.  *)
ImplementsUndoLog == Abstract!Spec
=============================================================================
