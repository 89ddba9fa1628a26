--------------------------- MODULE UndoLogProofs ---------------------------
(***************************************************************************)
(* What the abstract undo log guarantees, for any files and places and any *)
(* number of moves and undos.                                              *)
(***************************************************************************)
EXTENDS UndoLog, SequenceTheorems, TLAPS

Inv == TypeOK /\ OnePlaceEach /\ History

LEMMA TypedLog ==
  ASSUME TypeOK
  PROVE  /\ DOMAIN log = 1 .. Len(log) /\ Len(log) \in Nat
         /\ \A i \in DOMAIN log : log[i] \in Record
  BY LenProperties, ElementOfSeq DEF TypeOK

LEMMA InitInv ==
  ASSUME Start \in [File -> Place], Distinct, Init
  PROVE  Inv
<1>1. log \in Seq(Record) /\ LiveEntries = {}
  BY EmptySeq DEF Init, LiveEntries
<1>2. TypeOK /\ OnePlaceEach
  BY <1>1 DEF Init, TypeOK, OnePlaceEach, Distinct
<1>3. History
  BY <1>1 DEF Init, History, Chained, LiveOf
<1> QED
  BY <1>2, <1>3 DEF Inv

LEMMA MoveInv ==
  ASSUME Inv, NEW f \in File, NEW q \in Place, Move(f, q)
  PROVE  Inv'
<1> USE DEF Entry
<1>1. TypeOK
  BY DEF Inv
<1> PICK n \in Nat : n = Len(log)
  BY <1>1, TypedLog
<1> PICK new : new = Entry(f, place[f], q, TRUE)
  OBVIOUS
<1>2. DOMAIN log = 1 .. n /\ log \in Seq(Record)
  BY <1>1, TypedLog DEF TypeOK
<1>3. new \in Record /\ place' = [place EXCEPT ![f] = q]
  BY <1>1 DEF TypeOK, Record, Entry, Move
<1>4. log' = Append(log, new) /\ log' \in Seq(Record) /\ Len(log') = n + 1
  BY <1>2, <1>3, AppendProperties DEF Move
<1>5. DOMAIN log' = 1 .. n + 1
  BY <1>4, LenProperties
<1>6. log'[n + 1] = new /\ \A i \in 1 .. n : log'[i] = log[i]
  BY <1>2, <1>4
<1>7. new.file = f /\ new.from = place[f] /\ new.to = q /\ new.live
  BY DEF Entry
<1>8. TypeOK'
  BY <1>1, <1>3, <1>4 DEF TypeOK
<1>9. OnePlaceEach'
  BY <1>1, <1>3 DEF Inv, OnePlaceEach, TypeOK, Move, Free
<1>10. LiveEntries' = LiveEntries \cup {n + 1} /\ LiveEntries \subseteq 1 .. n
  BY <1>2, <1>5, <1>6, <1>7 DEF LiveEntries
<1>11. ASSUME NEW g \in File, NEW m \in 0 .. n, NEW r \in Place, Chained(g, m, r)
       PROVE  Chained(g, m, r)'
  <2>1. LiveOf(g, m)' = LiveOf(g, m)
    <3>1. ASSUME NEW i \in LiveOf(g, m) PROVE i \in LiveOf(g, m)'
      BY <1>6, <1>10 DEF LiveOf
    <3>2. ASSUME NEW i \in LiveOf(g, m)' PROVE i \in LiveOf(g, m)
      <4>1. i \in LiveEntries' /\ i <= m /\ log'[i].file = g
        BY DEF LiveOf
      <4>2. i \in LiveEntries /\ i \in 1 .. n
        BY <1>10, <4>1
      <4> QED
        BY <1>6, <4>1, <4>2 DEF LiveOf
    <3> QED
      BY <3>1, <3>2
  <2>2. \A i \in LiveOf(g, m) : log'[i] = log[i]
    BY <1>6, <1>10 DEF LiveOf
  <2> QED
    BY <1>11, <2>1, <2>2 DEF Chained
<1>12. ASSUME NEW g \in File, NEW r \in Place, r = place'[g] PROVE Chained(g, n + 1, r)'
  <2>1. CASE g = f
    <3>1. n + 1 \in LiveOf(g, n + 1)' /\ \A j \in LiveOf(g, n + 1)' : j <= n + 1
      BY <1>2, <1>6, <1>7, <1>10, <2>1 DEF LiveOf
    <3>2. r = q /\ log'[n + 1].to = q
      BY <1>1, <1>3, <1>6, <1>7, <1>12, <2>1 DEF TypeOK
    <3> QED
      BY <3>1, <3>2 DEF Chained
  <2>2. CASE g # f
    <3>1. LiveOf(g, n + 1)' = LiveOf(g, n)'
      <4>1. ASSUME NEW i \in LiveOf(g, n + 1)' PROVE i \in LiveOf(g, n)'
        <5>1. i \in LiveEntries' /\ log'[i].file = g
          BY DEF LiveOf
        <5>2. i \in 1 .. n
          BY <1>6, <1>7, <1>10, <2>2, <5>1
        <5> QED
          BY <5>1, <5>2 DEF LiveOf
      <4>2. ASSUME NEW i \in LiveOf(g, n)' PROVE i \in LiveOf(g, n + 1)'
        <5>1. i \in 1 .. n + 1 /\ i \in LiveEntries' /\ i <= n /\ log'[i].file = g
          BY <1>10 DEF LiveOf
        <5> QED
          BY <5>1 DEF LiveOf
      <4> QED
        BY <4>1, <4>2
    <3>2. r = place[g]
      BY <1>1, <1>3, <1>12, <2>2 DEF TypeOK
    <3>3. Chained(g, n, r)'
      BY <1>11, <3>2 DEF Inv, History
    <3> QED
      BY <3>1, <3>3 DEF Chained
  <2> QED
    BY <2>1, <2>2
<1>13. ASSUME NEW i \in LiveEntries', NEW g \in File, NEW r \in Place,
              g = log'[i].file, r = log'[i].from
       PROVE  Chained(g, i - 1, r)'
  <2>1. CASE i = n + 1
    <3>1. g = f /\ r = place[f] /\ i - 1 = n
      BY <1>6, <1>7, <1>13, <2>1
    <3> QED
      BY <1>11, <3>1 DEF Inv, History
  <2>2. CASE i # n + 1
    <3>1. i \in LiveEntries /\ i \in 1 .. n /\ g = log[i].file /\ r = log[i].from
      BY <1>6, <1>10, <1>13, <2>2
    <3>2. i - 1 \in 0 .. n
      BY <3>1
    <3> QED
      BY <1>11, <3>1, <3>2 DEF Inv, History
  <2> QED
    BY <2>1, <2>2
<1>14. \A i \in LiveEntries' : log'[i].file \in File /\ log'[i].from \in Place
  <2>1. \A i \in 1 .. n + 1 : log'[i] \in Record
    BY <1>4, <1>5, ElementOfSeq
  <2>2. \A i \in 1 .. n + 1 : log'[i].file \in File /\ log'[i].from \in Place
    BY <2>1 DEF Record
  <2>3. LiveEntries' \subseteq 1 .. n + 1
    BY <1>5 DEF LiveEntries
  <2> QED
    BY <2>2, <2>3
<1>15. \A g \in File : place'[g] \in Place
  BY <1>8 DEF TypeOK
<1>16. History'
  BY <1>4, <1>12, <1>13, <1>14, <1>15 DEF History
<1> QED
  BY <1>8, <1>9, <1>16 DEF Inv

LEMMA UndoInv ==
  ASSUME Inv, NEW i \in DOMAIN log, UndoLast(i)
  PROVE  Inv'
<1>1. TypeOK
  BY DEF Inv
<1> PICK n \in Nat : n = Len(log)
  BY <1>1, TypedLog
<1> PICK e : e = log[i]
  OBVIOUS
<1>2. DOMAIN log = 1 .. n /\ log \in Seq(Record) /\ \A j \in 1 .. n : log[j] \in Record
  BY <1>1, TypedLog DEF TypeOK
<1>3. e.file \in File /\ e.from \in Place /\ e.to \in Place /\ e \in Record
  BY <1>2 DEF Record
<1>4. log' = [log EXCEPT ![i] = Undone(e)]
  BY DEF UndoLast
<1> PICK d : d = Undone(e)
  OBVIOUS
<1>5. d \in Record /\ d.file = e.file /\ d.from = e.from /\ d.to = e.to /\ ~d.live
  BY <1>3 DEF Record, Entry, Undone
<1>6. log' \in Seq(Record) /\ Len(log') = n /\ DOMAIN log' = 1 .. n
  BY <1>2, <1>4, <1>5, ExceptSeq
<1>7. log'[i] = d /\ \A j \in 1 .. n \ {i} : log'[j] = log[j]
  BY <1>2, <1>4
<1>8. \A j \in 1 .. n : log'[j].file = log[j].file /\ log'[j].from = log[j].from
                        /\ log'[j].to = log[j].to
  BY <1>5, <1>7
<1>9. place' = [place EXCEPT ![e.file] = e.from] /\ Free(e.from) /\ i \in LiveEntries
  BY DEF UndoLast
<1>10. LiveEntries' = LiveEntries \ {i} /\ LiveEntries \subseteq 1 .. i
  <2>1. ASSUME NEW j \in LiveEntries' PROVE j \in LiveEntries \ {i}
    BY <1>2, <1>5, <1>6, <1>7 DEF LiveEntries
  <2>2. ASSUME NEW j \in LiveEntries \ {i} PROVE j \in LiveEntries'
    BY <1>2, <1>6, <1>7 DEF LiveEntries
  <2>3. LiveEntries \subseteq 1 .. i
    BY <1>2 DEF UndoLast, LiveEntries
  <2> QED
    BY <2>1, <2>2, <2>3
<1>11. TypeOK'
  BY <1>1, <1>3, <1>6, <1>9 DEF TypeOK
<1>12. OnePlaceEach'
  BY <1>1, <1>3, <1>9 DEF Inv, OnePlaceEach, TypeOK, Free
<1>13. ASSUME NEW g \in File, NEW m \in Nat, NEW k \in Nat, NEW r \in Place,
              LiveOf(g, m)' = LiveOf(g, k), Chained(g, k, r)
       PROVE  Chained(g, m, r)'
  <2>1. LiveOf(g, k) \subseteq 1 .. n
    BY <1>2 DEF LiveOf, LiveEntries
  <2> QED
    BY <1>8, <1>13, <2>1 DEF Chained
<1>14. ASSUME NEW g \in File, NEW m \in Nat, m < i \/ g # e.file
       PROVE  LiveOf(g, m)' = LiveOf(g, m)
  <2>1. ASSUME NEW j \in LiveOf(g, m)' PROVE j \in LiveOf(g, m)
    <3>1. j \in LiveEntries' /\ j <= m /\ log'[j].file = g
      BY DEF LiveOf
    <3> QED
      BY <1>2, <1>8, <1>10, <3>1 DEF LiveOf, LiveEntries
  <2>2. ASSUME NEW j \in LiveOf(g, m) PROVE j \in LiveOf(g, m)'
    <3>1. j \in LiveEntries /\ j <= m /\ log[j].file = g /\ j \in 1 .. n
      BY <1>2 DEF LiveOf, LiveEntries
    <3>2. j # i
      BY <1>14, <3>1
    <3> QED
      BY <1>8, <1>10, <3>1, <3>2 DEF LiveOf
  <2> QED
    BY <2>1, <2>2
<1>15. i - 1 \in Nat /\ i <= n
  BY <1>2
<1>16. ASSUME NEW g \in File, NEW r \in Place, r = place'[g] PROVE Chained(g, n, r)'
  <2>1. CASE g = e.file
    <3>1. r = e.from /\ Chained(g, i - 1, r)
      BY <1>1, <1>3, <1>9, <1>16, <2>1 DEF Inv, History, TypeOK
    <3>2. LiveOf(g, n)' = LiveOf(g, i - 1)'
      <4>1. ASSUME NEW j \in LiveOf(g, n)' PROVE j \in LiveOf(g, i - 1)'
        <5>1. j \in LiveEntries' /\ log'[j].file = g
          BY DEF LiveOf
        <5>2. j <= i - 1
          BY <1>2, <1>10, <5>1
        <5> QED
          BY <5>1, <5>2 DEF LiveOf
      <4>2. ASSUME NEW j \in LiveOf(g, i - 1)' PROVE j \in LiveOf(g, n)'
        <5>1. j \in LiveEntries' /\ log'[j].file = g /\ j <= i - 1
          BY DEF LiveOf
        <5>2. j <= n
          BY <1>10, <1>15, <5>1
        <5> QED
          BY <5>1, <5>2 DEF LiveOf
      <4> QED
        BY <4>1, <4>2
    <3>3. LiveOf(g, i - 1)' = LiveOf(g, i - 1)
      BY <1>14, <1>15
    <3> QED
      BY <1>13, <1>15, <3>1, <3>2, <3>3
  <2>2. CASE g # e.file
    <3>1. r = place[g] /\ Chained(g, n, r)
      BY <1>1, <1>9, <1>16, <2>2 DEF Inv, History, TypeOK
    <3> QED
      BY <1>13, <1>14, <2>2, <3>1
  <2> QED
    BY <2>1, <2>2
<1>17. ASSUME NEW j \in LiveEntries', NEW g \in File, NEW r \in Place,
              g = log'[j].file, r = log'[j].from
       PROVE  Chained(g, j - 1, r)'
  <2>1. j \in LiveEntries /\ j \in 1 .. n /\ j < i
    BY <1>2, <1>10, <1>15
  <2>2. g = log[j].file /\ r = log[j].from
    BY <1>8, <1>17, <2>1
  <2>3. j - 1 \in Nat /\ j - 1 < i /\ Chained(g, j - 1, r)
    BY <2>1, <2>2 DEF Inv, History
  <2> QED
    BY <1>13, <1>14, <2>3
<1>18. \A j \in LiveEntries' : log'[j].file \in File /\ log'[j].from \in Place
  <2>1. \A j \in 1 .. n : log'[j] \in Record
    BY <1>6, ElementOfSeq
  <2>2. \A j \in 1 .. n : log'[j].file \in File /\ log'[j].from \in Place
    BY <2>1 DEF Record
  <2>3. LiveEntries' \subseteq 1 .. n
    BY <1>6 DEF LiveEntries
  <2> QED
    BY <2>2, <2>3
<1>19. \A g \in File : place'[g] \in Place
  BY <1>11 DEF TypeOK
<1>20. History'
  BY <1>6, <1>16, <1>17, <1>18, <1>19 DEF History
<1> QED
  BY <1>11, <1>12, <1>20 DEF Inv

(* The history of the log is kept by every move and every undo.            *)
THEOREM HistoryKept ==
  ASSUME Start \in [File -> Place], Distinct
  PROVE  Spec => []Inv
<1>1. Init => Inv
  BY InitInv
<1>2. Inv /\ [Next]_vars => Inv'
  <2> SUFFICES ASSUME Inv, [Next]_vars PROVE Inv'
    OBVIOUS
  <2>1. CASE UNCHANGED vars
    BY <2>1 DEF Inv, TypeOK, OnePlaceEach, History, Chained, LiveOf, LiveEntries, vars
  <2>2. CASE Next
    BY <2>2, MoveInv, UndoInv DEF Next
  <2> QED
    BY <2>1, <2>2
<1> QED
  BY <1>1, <1>2, PTL DEF Spec

(* However moves and undos alternate, two files never share a place.       *)
THEOREM OnePlaceAlways ==
  ASSUME Start \in [File -> Place], Distinct
  PROVE  Spec => []OnePlaceEach
<1>1. Inv => OnePlaceEach
  BY DEF Inv
<1> QED
  BY <1>1, HistoryKept, PTL

LEMMA InvRestores ==
  ASSUME Start \in [File -> Place], Inv
  PROVE  AllUndoneIsStart
<1> SUFFICES ASSUME LiveEntries = {} PROVE place = Start
  BY DEF AllUndoneIsStart
<1>1. \A f \in File : place[f] = Start[f]
  BY DEF Inv, History, Chained, LiveOf
<1>2. place \in [File -> Place]
  BY DEF Inv, TypeOK
<1> QED
  BY <1>1, <1>2

(* Whenever every logged move has been undone, in whatever moves and undos *)
(* that took, every file lies where it lay at the start.                   *)
THEOREM AllUndoneRestores ==
  ASSUME Start \in [File -> Place], Distinct
  PROVE  Spec => []AllUndoneIsStart
  BY InvRestores, HistoryKept, PTL
-----------------------------------------------------------------------------
(* Not only now: after the first n entries, too, each file had a place of  *)
(* its own, and each entry left the place it came from.                    *)
AlwaysApart ==
    \A n \in 0 .. Len(log), f, g \in File, q \in Place :
        Chained(f, n, q) /\ Chained(g, n, q) => f = g

Leaves == \A i \in LiveEntries : log[i].from # log[i].to

IInv == Inv /\ AlwaysApart /\ Leaves

LEMMA InitIInv ==
  ASSUME Start \in [File -> Place], Distinct, Init
  PROVE  IInv
<1>1. LiveEntries = {}
  BY DEF Init, LiveEntries
<1>2. \A f \in File : \A n, q : Chained(f, n, q) => q = Start[f]
  BY <1>1 DEF Chained, LiveOf
<1> QED
  BY <1>1, <1>2, InitInv DEF IInv, AlwaysApart, Leaves, Distinct

(* What a move leaves of the log.                                          *)
LEMMA MoveKeeps ==
  ASSUME Inv, NEW f \in File, NEW q \in Place, Move(f, q),
         NEW n \in Nat, n = Len(log)
  PROVE  /\ DOMAIN log = 1 .. n /\ Len(log') = n + 1
         /\ \A i \in 1 .. n : log'[i] = log[i]
         /\ log'[n + 1] = Entry(f, place[f], q, TRUE)
         /\ LiveEntries' = LiveEntries \cup {n + 1} /\ LiveEntries \subseteq 1 .. n
         /\ \A g \in File, m \in 0 .. n, r \in Place : Chained(g, m, r)' <=> Chained(g, m, r)
<1> DEFINE new == Entry(f, place[f], q, TRUE)
<1>1. TypeOK /\ new.live
  BY DEF Inv, Entry
<1>2. DOMAIN log = 1 .. n /\ log \in Seq(Record)
  BY <1>1, TypedLog DEF TypeOK
<1>3. new \in Record
  BY <1>1 DEF TypeOK, Record, Entry
<1> HIDE DEF new
<1>4. log' = Append(log, new)
  BY DEF Move, new
<1>5. log' \in Seq(Record) /\ Len(log') = n + 1
  BY <1>2, <1>3, <1>4, AppendProperties
<1>6. log'[n + 1] = new /\ \A i \in 1 .. n : log'[i] = log[i]
  BY <1>2, <1>4
<1>7. DOMAIN log' = 1 .. n + 1
  BY <1>5, LenProperties
<1>8. LiveEntries' = LiveEntries \cup {n + 1} /\ LiveEntries \subseteq 1 .. n
  BY <1>1, <1>2, <1>6, <1>7 DEF LiveEntries
<1>9. ASSUME NEW g \in File, NEW m \in 0 .. n, NEW r \in Place
      PROVE  Chained(g, m, r)' <=> Chained(g, m, r)
  <2>1. LiveOf(g, m)' = LiveOf(g, m)
    <3>1. \A i \in LiveEntries' : i <= m => i \in LiveEntries /\ i \in 1 .. n
      BY <1>8
    <3>2. \A i \in LiveEntries : i \in LiveEntries' /\ log'[i] = log[i]
      BY <1>6, <1>8
    <3> QED
      BY <1>6, <3>1, <3>2 DEF LiveOf
  <2>2. \A i \in LiveOf(g, m) : log'[i] = log[i]
    BY <1>6, <1>8 DEF LiveOf
  <2> QED
    BY <2>1, <2>2 DEF Chained
<1> QED
  BY <1>2, <1>5, <1>6, <1>8, <1>9 DEF new

LEMMA MoveIInv ==
  ASSUME IInv, NEW f \in File, NEW q \in Place, Move(f, q)
  PROVE  IInv'
<1>1. Inv /\ Inv' /\ TypeOK /\ TypeOK'
  BY MoveInv DEF IInv, Inv
<1> PICK n \in Nat : n = Len(log)
  BY <1>1, TypedLog
<1>2. /\ DOMAIN log = 1 .. n /\ Len(log') = n + 1
      /\ \A i \in 1 .. n : log'[i] = log[i]
      /\ log'[n + 1] = Entry(f, place[f], q, TRUE)
      /\ LiveEntries' = LiveEntries \cup {n + 1} /\ LiveEntries \subseteq 1 .. n
      /\ \A g \in File, m \in 0 .. n, r \in Place : Chained(g, m, r)' <=> Chained(g, m, r)
  BY <1>1, MoveKeeps
<1>3. Leaves'
  <2>1. log'[n + 1].from # log'[n + 1].to
    BY <1>2 DEF Entry, Move, Free
  <2> QED
    BY <1>2, <2>1 DEF IInv, Leaves
<1>4. ASSUME NEW g \in File, NEW r \in Place, Chained(g, n + 1, r)' PROVE r = place'[g]
  <2> PICK s \in Place : s = place'[g]
    BY <1>1 DEF TypeOK
  <2>1. Chained(g, n + 1, s)'
    BY <1>1, <1>2 DEF Inv, History
  <2>2. \A i \in LiveOf(g, n + 1)' : i \in Nat
    BY <1>2 DEF LiveOf
  <2>3. CASE LiveOf(g, n + 1)' = {}
    BY <1>4, <2>1, <2>3 DEF Chained
  <2>4. CASE LiveOf(g, n + 1)' # {}
    <3>1. PICK i \in LiveOf(g, n + 1)' : (\A j \in LiveOf(g, n + 1)' : j <= i) /\ log'[i].to = s
      BY <2>1, <2>4 DEF Chained
    <3>2. PICK j \in LiveOf(g, n + 1)' : (\A k \in LiveOf(g, n + 1)' : k <= j) /\ log'[j].to = r
      BY <1>4, <2>4 DEF Chained
    <3>3. i = j
      BY <2>2, <3>1, <3>2
    <3> QED
      BY <3>1, <3>2, <3>3
  <2> QED
    BY <2>3, <2>4
<1>5. AlwaysApart'
  <2> SUFFICES ASSUME NEW m \in 0 .. n + 1, NEW g \in File, NEW h \in File, NEW r \in Place,
                      Chained(g, m, r)', Chained(h, m, r)'
               PROVE  g = h
    BY <1>2 DEF AlwaysApart
  <2>1. CASE m = n + 1
    BY <1>1, <1>4, <2>1 DEF Inv, OnePlaceEach
  <2>2. CASE m # n + 1
    <3>1. m \in 0 .. n
      BY <2>2
    <3>2. Chained(g, m, r) /\ Chained(h, m, r)
      BY <1>2, <3>1
    <3> QED
      BY <3>1, <3>2 DEF IInv, AlwaysApart
  <2> QED
    BY <2>1, <2>2
<1> QED
  BY <1>1, <1>3, <1>5 DEF IInv

LEMMA UndoIInv ==
  ASSUME IInv, NEW i \in DOMAIN log, UndoLast(i)
  PROVE  IInv'
<1>1. Inv /\ Inv' /\ TypeOK /\ TypeOK'
  BY UndoInv DEF IInv, Inv
<1> PICK n \in Nat : n = Len(log)
  BY <1>1, TypedLog
<1> PICK e : e = log[i]
  OBVIOUS
<1> PICK d : d = Undone(e)
  OBVIOUS
<1>2. DOMAIN log = 1 .. n /\ log \in Seq(Record) /\ e \in Record
  BY <1>1, TypedLog DEF TypeOK
<1>3. d \in Record /\ d.file = e.file /\ d.from = e.from /\ d.to = e.to /\ ~d.live
  BY <1>2 DEF Record, Entry, Undone
<1>4. log' = [log EXCEPT ![i] = d]
  BY DEF UndoLast
<1>5. Len(log') = n /\ DOMAIN log' = 1 .. n
  BY <1>2, <1>3, <1>4, ExceptSeq
<1>6. log'[i] = d /\ \A j \in 1 .. n \ {i} : log'[j] = log[j]
  BY <1>2, <1>4
<1>7. \A j \in 1 .. n : log'[j].file = log[j].file /\ log'[j].from = log[j].from
                        /\ log'[j].to = log[j].to
  BY <1>3, <1>6
<1>8. LiveEntries' = LiveEntries \ {i} /\ LiveEntries \subseteq 1 .. i /\ i \in 1 .. n
  <2>1. LiveEntries' = LiveEntries \ {i}
    BY <1>2, <1>3, <1>5, <1>6 DEF LiveEntries
  <2> QED
    BY <1>2, <2>1 DEF UndoLast, LiveEntries
<1>9. Leaves'
  BY <1>7, <1>8 DEF IInv, Leaves
<1>10. ASSUME NEW g \in File, NEW m \in Nat, NEW k \in 0 .. n, NEW r \in Place,
              IF m < i THEN k = m ELSE k = i - 1, Chained(g, m, r)'
       PROVE  Chained(g, k, r)
  <2>1. LiveOf(g, m)' = LiveOf(g, k)
    <3>1. \A j \in LiveEntries' : j \in LiveEntries /\ j < i /\ log'[j].file = log[j].file
      BY <1>7, <1>8
    <3>2. \A j \in LiveEntries : j < i => j \in LiveEntries' /\ log'[j].file = log[j].file
      BY <1>7, <1>8
    <3>3. \A j \in 1 .. i : j <= k <=> j < i /\ j <= m
      BY <1>8, <1>10
    <3> QED
      BY <1>8, <3>1, <3>2, <3>3 DEF LiveOf
  <2>2. \A j \in LiveOf(g, k) : log'[j].to = log[j].to
    BY <1>7, <1>8 DEF LiveOf
  <2> QED
    BY <1>10, <2>1, <2>2 DEF Chained
<1>11. AlwaysApart'
  <2> SUFFICES ASSUME NEW m \in 0 .. n, NEW g \in File, NEW h \in File, NEW r \in Place,
                      Chained(g, m, r)', Chained(h, m, r)'
               PROVE  g = h
    BY <1>5 DEF AlwaysApart
  <2>1. PICK k \in 0 .. n : IF m < i THEN k = m ELSE k = i - 1
    BY <1>8
  <2>2. Chained(g, k, r) /\ Chained(h, k, r)
    BY <1>10, <2>1
  <2> QED
    BY <2>2 DEF IInv, AlwaysApart
<1> QED
  BY <1>1, <1>9, <1>11 DEF IInv

(* The last live entry put its file where it is now.                       *)
LEMMA LastIsHere ==
  ASSUME IInv, NEW i \in LiveEntries, \A j \in LiveEntries : j <= i
  PROVE  place[log[i].file] = log[i].to
<1>1. TypeOK /\ Inv
  BY DEF IInv, Inv
<1> PICK n \in Nat : n = Len(log)
  BY <1>1, TypedLog
<1>2. DOMAIN log = 1 .. n /\ i \in 1 .. n /\ LiveEntries \subseteq 1 .. n
  BY <1>1, TypedLog DEF LiveEntries
<1> PICK f \in File : f = log[i].file
  BY <1>1, <1>2, TypedLog DEF Record
<1>3. i \in LiveOf(f, n) /\ \A j \in LiveOf(f, n) : j <= i /\ j \in Nat
  BY <1>2 DEF LiveOf
<1> QED
  BY <1>1, <1>3 DEF Inv, History, Chained

LEMMA IInvUndoable == IInv => LastCanBeUndone
<1> SUFFICES ASSUME IInv, NEW i \in LiveEntries, \A j \in LiveEntries : j <= i,
                    NEW g \in File, place[g] = log[i].from
             PROVE  FALSE
  BY DEF LastCanBeUndone, Free
<1>1. TypeOK /\ Inv
  BY DEF IInv, Inv
<1> PICK n \in Nat : n = Len(log)
  BY <1>1, TypedLog
<1>2. DOMAIN log = 1 .. n /\ i \in 1 .. n /\ LiveEntries \subseteq 1 .. n
  BY <1>1, TypedLog DEF LiveEntries
<1> PICK f \in File, q \in Place : f = log[i].file /\ q = log[i].from
  BY <1>1, <1>2, TypedLog DEF Record
<1>3. Chained(f, n, place[f]) /\ Chained(g, n, q) /\ Chained(f, i - 1, q)
  BY <1>1 DEF Inv, History
<1>4. CASE g = f
  BY <1>2, <1>4, LastIsHere DEF IInv, Leaves
<1>5. CASE g # f
  <2>1. LiveOf(g, i - 1) = LiveOf(g, n)
    <3>1. \A j \in LiveEntries : log[j].file = g => j <= i - 1 /\ j <= n
      BY <1>2, <1>5
    <3> QED
      BY <1>2, <3>1 DEF LiveOf
  <2>2. Chained(g, i - 1, q) /\ i - 1 \in 0 .. n
    BY <1>2, <1>3, <2>1 DEF Chained
  <2> QED
    BY <1>3, <1>5, <2>2 DEF IInv, AlwaysApart
<1> QED
  BY <1>4, <1>5

LEMMA IInvKept == IInv /\ [Next]_vars => IInv'
<1> SUFFICES ASSUME IInv, [Next]_vars PROVE IInv'
  OBVIOUS
<1>1. CASE UNCHANGED vars
  <2>1. UNCHANGED <<place, log, LiveEntries>>
    BY <1>1 DEF LiveEntries, vars
  <2>2. Inv'
    BY <2>1 DEF IInv, Inv, TypeOK, OnePlaceEach, History, Chained, LiveOf
  <2>3. AlwaysApart' /\ Leaves'
    BY <2>1 DEF IInv, AlwaysApart, Leaves, Chained, LiveOf
  <2> QED
    BY <2>2, <2>3 DEF IInv
<1>2. CASE Next
  BY <1>2, MoveIInv, UndoIInv DEF Next
<1> QED
  BY <1>1, <1>2

(* Undoing in reverse order never gets stuck: the place the last live      *)
(* entry took its file from is always free.                                *)
THEOREM AlwaysUndoable ==
  ASSUME Start \in [File -> Place], Distinct
  PROVE  Spec => []LastCanBeUndone
<1>1. Init => IInv
  BY InitIInv
<1> QED
  BY <1>1, IInvKept, IInvUndoable, PTL DEF Spec
=============================================================================
