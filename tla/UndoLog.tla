------------------------------ MODULE UndoLog ------------------------------
(***************************************************************************)
(* What organizing with an undo queue promises (core/organize_engine.h):   *)
(* every file has one place, a move is one step that is logged with it,    *)
(* and undoing takes back the moves in reverse order, one step each.       *)
(* OrganizeEngine implements this for one process whose entries are        *)
(* recorded at distinct times and whose operations do not fail.            *)
(***************************************************************************)
EXTENDS Naturals, Sequences

CONSTANTS File, Place, Start

Distinct == \A f, g \in File : Start[f] = Start[g] => f = g

VARIABLES place, log

vars == <<place, log>>

Record == [file : File, from : Place, to : Place, live : BOOLEAN]

Init == place = Start /\ log = <<>>

Entry(f, q, r, live) == [file |-> f, from |-> q, to |-> r, live |-> live]

Undone(e) == Entry(e.file, e.from, e.to, FALSE)

Free(q) == \A f \in File : place[f] # q

Move(f, q) ==
    /\ Free(q)
    /\ place' = [place EXCEPT ![f] = q]
    /\ log' = Append(log, Entry(f, place[f], q, TRUE))

LiveEntries == {i \in DOMAIN log : log[i].live}

UndoLast(i) ==
    /\ i \in LiveEntries
    /\ \A j \in LiveEntries : j <= i
    /\ Free(log[i].from)
    /\ place' = [place EXCEPT ![log[i].file] = log[i].from]
    /\ log' = [log EXCEPT ![i] = Undone(log[i])]

Next ==
    \/ \E f \in File, q \in Place : Move(f, q)
    \/ \E i \in DOMAIN log : UndoLast(i)

Spec == Init /\ [][Next]_vars

-----------------------------------------------------------------------------
TypeOK == place \in [File -> Place] /\ log \in Seq(Record)

(* No two files share a place.                                             *)
OnePlaceEach == \A f, g \in File : place[f] = place[g] => f = g

(* The place a file has once the first n entries are done and none of the  *)
(* later ones: where the last live one of them put it.                     *)
LiveOf(f, n) == {i \in LiveEntries : i <= n /\ log[i].file = f}

(* Each live entry starts where the live entry before it put the file, and *)
(* the last one put it where it is now.                                    *)
Chained(f, n, q) ==
    IF LiveOf(f, n) = {} THEN q = Start[f]
    ELSE \E i \in LiveOf(f, n) : (\A j \in LiveOf(f, n) : j <= i) /\ log[i].to = q

History ==
    /\ \A f \in File : Chained(f, Len(log), place[f])
    /\ \A i \in LiveEntries : Chained(log[i].file, i - 1, log[i].from)

(* The last live entry can be undone: no file has taken the place its file *)
(* came from.                                                              *)
LastCanBeUndone ==
    \A i \in LiveEntries : (\A j \in LiveEntries : j <= i) => Free(log[i].from)

(* Undoing everything brings every file back to where it started.          *)
AllUndoneIsStart == LiveEntries = {} => place = Start
=============================================================================
