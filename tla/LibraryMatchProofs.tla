------------------------- MODULE LibraryMatchProofs -------------------------
(***************************************************************************)
(* Theorems about LibraryMatch: its types; that what counts as matched has *)
(* a title and an entry of the catalog, for any number of processes, files *)
(* and games, and any number of edits, failures and crashes; and that the  *)
(* title is that of the entry, and the entry that of the hashes, where     *)
(* nothing fails; and that a match of the whole library leaves no file     *)
(* unmatched that the catalog knows.                                       *)
(***************************************************************************)
EXTENDS LibraryMatch, SequenceTheorems, TLAPS

(* A match is only ever made for a row that is named, of a game that is    *)
(* there.                                                                  *)
MatchesNamed ==
    \A i \in DOMAIN matches : matches[i].game \in DOMAIN games /\ Named(matches[i].file)

HasMatch(f) == \E i \in DOMAIN matches : matches[i].file = f

AfterNaming == {"game", "match", "confirm", "title", "again"}
Writing == {"identify"} \cup AfterNaming

(* What a process that has got to a step may rely on there.                *)
JobOK(p) ==
    LET j == job[p]
    IN /\ j.stored \subseteq DOMAIN rows
       /\ j.online => j.task = "match"
       /\ pc[p] \in {"item", "hash", "link"} => j.task = "scan"
       /\ pc[p] = "next" => j.task = "match"
       /\ pc[p] \in {"lookup", "ask", "insert"} \cup Writing => j.task # "scan"
       /\ pc[p] = "ask" => j.online
       /\ pc[p] = "link" => todo[p] \subseteq DOMAIN rows
       /\ j.task = "match" =>
            todo[p] \subseteq DOMAIN j.snapshot /\ DOMAIN j.snapshot \subseteq DOMAIN rows
       /\ pc[p] \in {"lookup", "ask", "insert"} =>
            j.file \in File /\ (j.task = "match" => j.file \in DOMAIN rows)
       /\ pc[p] \in {"hash", "store"} \cup Writing => j.file \in DOMAIN rows
       /\ pc[p] \in {"lookup", "ask", "insert", "store"} \cup Writing => j.digest \in Digest
       /\ pc[p] \in {"insert", "store"} \cup Writing /\ j.task # "scan" => j.hit \in Identity
       /\ pc[p] \in AfterNaming => Named(j.file)
       /\ pc[p] \in AfterNaming \ {"game"} => j.game \in DOMAIN games
       /\ pc[p] = "confirm" => HasMatch(j.file)
       /\ pc[p] = "title" => Confirmed(j.file)

IInv == TypeOK /\ MatchesNamed /\ \A p \in Proc : JobOK(p)

-----------------------------------------------------------------------------
(* Records and tables                                                      *)

LEMMA EmptyTable == <<>> \in Table
<1>1. <<>> \in [{} -> Row]
  OBVIOUS
<1> QED
  BY <1>1 DEF Table

LEMMA TableRow ==
    ASSUME NEW t \in Table, NEW f \in DOMAIN t
    PROVE  /\ t[f] \in Row /\ f \in File
           /\ t[f].digest \in Maybe(Digest) /\ t[f].title \in Maybe(Identity)
           /\ t[f].game \in Maybe(Identity) /\ t[f].parent \in Maybe(File)
<1>1. t[f] \in Row /\ f \in File
  BY DEF Table
<1> QED
  BY <1>1 DEF Row

LEMMA RowOfType ==
    ASSUME NEW d \in Maybe(Digest), NEW t \in Maybe(Identity),
           NEW g \in Maybe(Identity), NEW q \in Maybe(File)
    PROVE  /\ RowOf(d, t, g, q) \in Row
           /\ RowOf(d, t, g, q).title = t /\ RowOf(d, t, g, q).game = g
BY DEF RowOf, Row

LEMMA TableUpdate ==
    ASSUME NEW t \in Table, NEW f \in DOMAIN t, NEW r \in Row
    PROVE  /\ [t EXCEPT ![f] = r] \in Table
           /\ DOMAIN [t EXCEPT ![f] = r] = DOMAIN t
           /\ \A g \in DOMAIN t : [t EXCEPT ![f] = r][g] = IF g = f THEN r ELSE t[g]
BY DEF Table

LEMMA JobAtType ==
    ASSUME NEW j \in Job, NEW s \in SUBSET File, NEW f \in Maybe(File),
           NEW d \in Maybe(Digest), NEW h \in Maybe(Identity), NEW g \in Nat
    PROVE  /\ JobAt(j, s, f, d, h, g) \in Job
           /\ JobAt(j, s, f, d, h, g).task = j.task
           /\ JobAt(j, s, f, d, h, g).online = j.online
           /\ JobAt(j, s, f, d, h, g).snapshot = j.snapshot
           /\ JobAt(j, s, f, d, h, g).stored = s
           /\ JobAt(j, s, f, d, h, g).file = f
           /\ JobAt(j, s, f, d, h, g).digest = d
           /\ JobAt(j, s, f, d, h, g).hit = h
           /\ JobAt(j, s, f, d, h, g).game = g
BY DEF JobAt, Job

LEMMA JobFields ==
    ASSUME NEW j \in Job
    PROVE  /\ j.task \in {"scan", "match", "file"} /\ j.online \in BOOLEAN
           /\ j.snapshot \in Table /\ j.stored \in SUBSET File
           /\ j.file \in Maybe(File) /\ j.digest \in Maybe(Digest)
           /\ j.hit \in Maybe(Identity) /\ j.game \in Nat
BY DEF Job

LEMMA MatchOfType ==
    ASSUME NEW f \in File, NEW g \in Nat \ {0}, NEW c \in BOOLEAN
    PROVE  /\ MatchOf(f, g, c) \in Match
           /\ MatchOf(f, g, c).file = f /\ MatchOf(f, g, c).game = g
           /\ MatchOf(f, g, c).confirmed = c
BY DEF MatchOf, Match

-----------------------------------------------------------------------------
(* What every step leaves in place: rows stay, and stay named; games and   *)
(* matches stay, and stay confirmed.                                       *)

RowsGrow ==
    /\ rows' \in Table
    /\ DOMAIN rows \subseteq DOMAIN rows'
    /\ \A f \in DOMAIN rows : Named(f) => Named(f)'

GamesGrow == games' \in Seq(Game) /\ DOMAIN games \subseteq DOMAIN games'

MatchesGrow ==
    /\ matches' \in Seq(Match)
    /\ DOMAIN matches \subseteq DOMAIN matches'
    /\ \A i \in DOMAIN matches :
          /\ matches'[i].file = matches[i].file
          /\ matches'[i].game = matches[i].game
          /\ matches[i].confirmed => matches'[i].confirmed

(* A step of p moves p only.                                               *)
Control(p) ==
    /\ pc' \in [Proc -> Steps \cup {"idle"}]
    /\ job' \in [Proc -> Job]
    /\ todo' \in [Proc -> SUBSET File]
    /\ \A q \in Proc : q # p => pc'[q] = pc[q] /\ job'[q] = job[q] /\ todo'[q] = todo[q]

LEMMA InsertGrows ==
    ASSUME rows \in Table, NEW f \in File, f \notin DOMAIN rows,
           NEW t \in Maybe(Identity), rows' = InsertedRow(f, t)
    PROVE  RowsGrow /\ DOMAIN rows' = DOMAIN rows \cup {f}
<1>1. RowOf(None, t, None, None) \in Row
  BY RowOfType DEF Maybe
<1>2. \A g \in DOMAIN rows : rows[g] \in Row /\ g \in File
  BY TableRow
<1>3. DOMAIN rows' = DOMAIN rows \cup {f}
  BY DEF InsertedRow
<1>4. \A g \in DOMAIN rows' :
          rows'[g] = IF g = f THEN RowOf(None, t, None, None) ELSE rows[g]
  BY DEF InsertedRow
<1>5. rows' \in [DOMAIN rows \cup {f} -> Row]
  BY <1>1, <1>2 DEF InsertedRow
<1>6. rows' \in Table
  BY <1>2, <1>5 DEF Table
<1> QED
  BY <1>3, <1>4, <1>6 DEF RowsGrow, Named

LEMMA UpdateGrows ==
    ASSUME rows \in Table, NEW f \in DOMAIN rows, NEW r \in Row,
           rows[f].game # None => r.game # None,
           rows[f].title # None => r.title # None,
           rows' = [rows EXCEPT ![f] = r]
    PROVE  RowsGrow /\ DOMAIN rows' = DOMAIN rows /\ rows'[f] = r
<1>1. /\ rows' \in Table
      /\ DOMAIN rows' = DOMAIN rows
      /\ \A g \in DOMAIN rows : rows'[g] = IF g = f THEN r ELSE rows[g]
  BY TableUpdate
<1> QED
  BY <1>1 DEF RowsGrow, Named

LEMMA SameGrow ==
    /\ rows \in Table /\ UNCHANGED rows => RowsGrow
    /\ games \in Seq(Game) /\ UNCHANGED games => GamesGrow
    /\ matches \in Seq(Match) /\ UNCHANGED matches => MatchesGrow
BY DEF RowsGrow, GamesGrow, MatchesGrow, Named

LEMMA NoJobType ==
    /\ NoJob \in Job /\ NoJob.task = "scan" /\ NoJob.online = FALSE /\ NoJob.stored = {}
BY EmptyTable DEF NoJob, JobFor, Job, Maybe

LEMMA IdleOK ==
    ASSUME NEW p \in Proc, pc'[p] = "idle", job'[p] = NoJob
    PROVE  JobOK(p)'
BY NoJobType DEF JobOK, Writing, AfterNaming

(* After a step of p the other processes still have what they rely on.     *)
LEMMA Stable ==
    ASSUME NEW q \in Proc, TypeOK, JobOK(q), RowsGrow, GamesGrow, MatchesGrow,
           pc'[q] = pc[q], job'[q] = job[q], todo'[q] = todo[q]
    PROVE  JobOK(q)'
<1>1. \A f \in DOMAIN rows : f \in DOMAIN rows' /\ (Named(f) => Named(f)')
  BY DEF RowsGrow
<1>2. Named(job[q].file) => Named(job[q].file)'
  BY <1>1 DEF Named
<1>3. HasMatch(job[q].file) => HasMatch(job[q].file)'
  BY DEF MatchesGrow, HasMatch
<1>4. Confirmed(job[q].file) => Confirmed(job[q].file)'
  BY DEF MatchesGrow, Confirmed
<1>5. DOMAIN games \subseteq DOMAIN games'
  BY DEF GamesGrow
<1> QED
  BY <1>1, <1>2, <1>3, <1>4, <1>5 DEF JobOK

LEMMA MatchesKept ==
    ASSUME MatchesNamed, RowsGrow, GamesGrow, UNCHANGED matches
    PROVE  MatchesNamed'
BY DEF MatchesNamed, RowsGrow, GamesGrow, Named

World ==
    /\ content \in [File -> Maybe(Digest)]
    /\ misses \subseteq Digest
    /\ catalog \in [Digest -> Maybe(Identity)]
    /\ edits \in 0 .. MaxEdits
    /\ ingests \in 0 .. MaxIngests
    /\ faults \in 0 .. MaxFaults
    /\ crashes \in 0 .. MaxCrashes

LEMMA CountsTyped ==
    ASSUME TypeOK, UNCHANGED counts \/ Attempt(TRUE) \/ Attempt(FALSE)
    PROVE  /\ edits' \in 0 .. MaxEdits /\ ingests' \in 0 .. MaxIngests
           /\ faults' \in 0 .. MaxFaults /\ crashes' \in 0 .. MaxCrashes
BY BoundsAssumption DEF TypeOK, counts, Attempt

LEMMA WorldSame ==
    ASSUME TypeOK, UNCHANGED <<content, misses, catalog>>,
           UNCHANGED counts \/ Attempt(TRUE) \/ Attempt(FALSE)
    PROVE  World'
BY CountsTyped DEF TypeOK, World

LEMMA StepOK ==
    ASSUME NEW p \in Proc, IInv, World', RowsGrow, GamesGrow, MatchesGrow,
           MatchesNamed', Control(p), JobOK(p)'
    PROVE  IInv'
<1>1. ASSUME NEW q \in Proc
      PROVE  JobOK(q)'
  <2>1. CASE q = p
    BY <2>1
  <2>2. CASE q # p
    BY <2>2, Stable DEF IInv, Control
  <2> QED
    BY <2>1, <2>2
<1>2. TypeOK'
  BY DEF TypeOK, World, RowsGrow, GamesGrow, MatchesGrow, Control
<1> QED
  BY <1>1, <1>2 DEF IInv

(* A step that changes no table.                                           *)
LEMMA ControlStepOK ==
    ASSUME NEW p \in Proc, IInv, World', UNCHANGED <<rows, games, matches>>,
           Control(p), JobOK(p)'
    PROVE  IInv'
<1>1. RowsGrow /\ GamesGrow /\ MatchesGrow
  BY SameGrow DEF IInv, TypeOK
<1>2. MatchesNamed'
  BY <1>1, MatchesKept DEF IInv
<1> QED
  BY <1>1, <1>2, StepOK

(* A step that changes the rows only.                                      *)
LEMMA RowsStepOK ==
    ASSUME NEW p \in Proc, IInv, World', RowsGrow, UNCHANGED <<games, matches>>,
           Control(p), JobOK(p)'
    PROVE  IInv'
<1>1. GamesGrow /\ MatchesGrow
  BY SameGrow DEF IInv, TypeOK
<1>2. MatchesNamed'
  BY <1>1, MatchesKept DEF IInv
<1> QED
  BY <1>1, <1>2, StepOK

-----------------------------------------------------------------------------
(* Scanning                                                                *)

LEMMA ScanOK ==
    ASSUME NEW p \in Proc, IInv, scan(p)
    PROVE  IInv'
<1>0. PICK j : j = JobFor("scan", FALSE, <<>>, None, None)
  OBVIOUS
<1>1. World' /\ UNCHANGED <<rows, games, matches>>
  BY WorldSame DEF scan, db, IInv
<1>2. j \in Job /\ j.task = "scan" /\ j.online = FALSE /\ j.stored = {}
  BY <1>0, NoJobType DEF NoJob
<1>3. /\ pc' = [pc EXCEPT ![p] = "item"] /\ job' = [job EXCEPT ![p] = j]
      /\ todo' = [todo EXCEPT ![p] = Present]
  BY <1>0 DEF scan, Goto, Set
<1>4. Control(p) /\ pc'[p] = "item" /\ job'[p] = j
  <2>1. Present \in SUBSET File /\ "item" \in Steps \cup {"idle"}
    BY DEF Present, Steps
  <2> QED
    BY <1>2, <1>3, <2>1 DEF Control, IInv, TypeOK
<1>5. JobOK(p)'
  BY <1>2, <1>4 DEF JobOK, Writing, AfterNaming
<1> QED
  BY <1>1, <1>4, <1>5, ControlStepOK

LEMMA ScanItemOK ==
    ASSUME NEW p \in Proc, IInv, ScanItem(p)
    PROVE  IInv'
<1>0. TypeOK /\ JobOK(p) /\ pc[p] = "item" /\ job[p] \in Job /\ todo[p] \in SUBSET File
  BY DEF IInv, TypeOK, ScanItem
<1>1. CASE todo[p] = {}
  <2>1. /\ UNCHANGED <<content, rows, games, matches, misses, catalog, counts, job>>
        /\ todo' = [todo EXCEPT ![p] = Linkable(p)] /\ pc' = [pc EXCEPT ![p] = "link"]
    BY <1>1 DEF ScanItem, Goto
  <2>2. Linkable(p) \in SUBSET File /\ Linkable(p) \subseteq job[p].stored
    BY <1>0, JobFields DEF Linkable
  <2>3. Control(p) /\ pc'[p] = "link" /\ job'[p] = job[p] /\ todo'[p] = Linkable(p)
    <3>1. "link" \in Steps \cup {"idle"}
      BY DEF Steps
    <3> QED
      BY <1>0, <2>1, <2>2, <3>1 DEF Control, TypeOK
  <2>4. JobOK(p)'
    BY <1>0, <2>1, <2>2, <2>3 DEF JobOK, Writing, AfterNaming
  <2>5. World'
    BY <1>0, <2>1, WorldSame
  <2> QED
    BY <2>1, <2>3, <2>4, <2>5, ControlStepOK
<1>2. CASE todo[p] # {}
  <2>1. PICK f \in todo[p], done \in BOOLEAN :
            /\ Attempt(done)
            /\ todo' = [todo EXCEPT ![p] = todo[p] \ {f}]
            /\ IF done /\ f \notin DOMAIN rows
               THEN /\ rows' = InsertedRow(f, None)
                    /\ Set(p, JobAt(job[p], job[p].stored \cup {f}, f, None, None, 0))
                    /\ Goto(p, "hash")
               ELSE UNCHANGED <<rows, job, pc>>
    BY <1>2 DEF ScanItem
  <2>2. UNCHANGED <<content, games, matches, misses, catalog>>
    BY DEF ScanItem
  <2>3. World'
    BY <1>0, <2>1, <2>2, WorldSame
  <2>4. CASE done /\ f \notin DOMAIN rows
    <3>0. PICK k : k = JobAt(job[p], job[p].stored \cup {f}, f, None, None, 0)
      OBVIOUS
    <3>1. RowsGrow /\ DOMAIN rows' = DOMAIN rows \cup {f}
      BY <1>0, <2>1, <2>4, InsertGrows DEF TypeOK, Maybe
    <3>2. k \in Job /\ k.task = job[p].task /\ k.online = job[p].online
          /\ k.stored = job[p].stored \cup {f} /\ k.file = f
      <4>1. f \in Maybe(File) /\ None \in Maybe(Digest) /\ None \in Maybe(Identity)
            /\ job[p].stored \cup {f} \in SUBSET File /\ 0 \in Nat
        BY <1>0, <2>1, JobFields DEF Maybe
      <4> QED
        BY <1>0, <3>0, <4>1, JobAtType
    <3>3. Control(p) /\ pc'[p] = "hash" /\ job'[p] = k
      <4>1. /\ pc' = [pc EXCEPT ![p] = "hash"] /\ job' = [job EXCEPT ![p] = k]
            /\ todo' = [todo EXCEPT ![p] = todo[p] \ {f}]
        BY <2>1, <2>4, <3>0 DEF Goto, Set
      <4>2. "hash" \in Steps \cup {"idle"} /\ todo[p] \ {f} \in SUBSET File
        BY <1>0 DEF Steps
      <4> QED
        BY <1>0, <3>2, <4>1, <4>2 DEF Control, TypeOK
    <3>4. JobOK(p)'
      BY <1>0, <3>1, <3>2, <3>3 DEF JobOK, Writing, AfterNaming
    <3> QED
      BY <2>2, <2>3, <3>1, <3>3, <3>4, RowsStepOK
  <2>5. CASE ~(done /\ f \notin DOMAIN rows)
    <3>1. UNCHANGED <<rows, job, pc>>
      BY <2>1, <2>5
    <3>2. Control(p) /\ pc'[p] = "item" /\ job'[p] = job[p]
      <4>1. "item" \in Steps \cup {"idle"} /\ todo[p] \ {f} \in SUBSET File
        BY <1>0 DEF Steps
      <4> QED
        BY <1>0, <2>1, <3>1, <4>1 DEF Control, TypeOK
    <3>3. JobOK(p)'
      BY <1>0, <3>1, <3>2 DEF JobOK, Writing, AfterNaming
    <3> QED
      BY <2>2, <2>3, <3>1, <3>2, <3>3, ControlStepOK
  <2> QED
    BY <2>4, <2>5
<1> QED
  BY <1>1, <1>2

LEMMA HashItemOK ==
    ASSUME NEW p \in Proc, IInv, HashItem(p)
    PROVE  IInv'
<1>0. TypeOK /\ JobOK(p) /\ pc[p] = "hash" /\ job[p] \in Job
  BY DEF IInv, TypeOK, HashItem
<1>1. /\ UNCHANGED <<content, rows, games, matches, misses, catalog, counts, todo>>
      /\ job[p].file \in DOMAIN rows
  BY <1>0 DEF HashItem, db, JobOK
<1>2. World'
  BY <1>0, <1>1, WorldSame
<1>3. CASE job[p].file \in Present
  <2>0. PICK j : j = JobAt(job[p], job[p].stored, job[p].file, content[job[p].file], None, 0)
    OBVIOUS
  <2>1. job' = [job EXCEPT ![p] = j] /\ pc' = [pc EXCEPT ![p] = "store"]
    BY <1>3, <2>0 DEF HashItem, Set, Goto
  <2>2. /\ j \in Job /\ j.task = job[p].task /\ j.online = job[p].online
        /\ j.stored = job[p].stored /\ j.file = job[p].file /\ j.digest = content[job[p].file]
        /\ j.digest \in Digest
    <3>1. /\ content[job[p].file] \in Digest /\ job[p].file \in Maybe(File)
          /\ content[job[p].file] \in Maybe(Digest)
          /\ None \in Maybe(Identity) /\ job[p].stored \in SUBSET File /\ 0 \in Nat
      BY <1>0, <1>3, JobFields DEF Present, TypeOK, Maybe
    <3> QED
      BY <1>0, <2>0, <3>1, JobAtType
  <2>3. Control(p) /\ pc'[p] = "store" /\ job'[p] = j
    <3>1. "store" \in Steps \cup {"idle"}
      BY DEF Steps
    <3> QED
      BY <1>0, <1>1, <2>1, <2>2, <3>1 DEF Control, TypeOK
  <2>4. JobOK(p)'
    BY <1>0, <1>1, <2>2, <2>3 DEF JobOK, Writing, AfterNaming
  <2> QED
    BY <1>1, <1>2, <2>3, <2>4, ControlStepOK
<1>4. CASE job[p].file \notin Present
  <2>1. UNCHANGED job /\ pc' = [pc EXCEPT ![p] = "item"]
    BY <1>4 DEF HashItem, Goto
  <2>2. Control(p) /\ pc'[p] = "item" /\ job'[p] = job[p]
    <3>1. "item" \in Steps \cup {"idle"}
      BY DEF Steps
    <3> QED
      BY <1>0, <1>1, <2>1, <3>1 DEF Control, TypeOK
  <2>3. JobOK(p)'
    BY <1>0, <1>1, <2>2 DEF JobOK, Writing, AfterNaming
  <2> QED
    BY <1>1, <1>2, <2>2, <2>3, ControlStepOK
<1> QED
  BY <1>3, <1>4

LEMMA LinkItemOK ==
    ASSUME NEW p \in Proc, IInv, LinkItem(p)
    PROVE  IInv'
<1>0. TypeOK /\ JobOK(p) /\ pc[p] = "link" /\ job[p] \in Job /\ todo[p] \in SUBSET File
  BY DEF IInv, TypeOK, LinkItem
<1>1. UNCHANGED <<content, games, matches, misses, catalog>> /\ todo[p] \subseteq DOMAIN rows
  BY <1>0 DEF LinkItem, JobOK
<1>2. CASE todo[p] = {}
  <2>1. /\ UNCHANGED <<rows, todo, counts>>
        /\ pc' = [pc EXCEPT ![p] = "idle"] /\ job' = [job EXCEPT ![p] = NoJob]
    BY <1>2 DEF LinkItem, Goto, Set
  <2>2. Control(p) /\ pc'[p] = "idle" /\ job'[p] = NoJob
    BY <1>0, <2>1, NoJobType DEF Control, TypeOK
  <2>3. World'
    BY <1>0, <1>1, <2>1, WorldSame
  <2> QED
    BY <1>1, <2>1, <2>2, <2>3, IdleOK, ControlStepOK
<1>3. CASE todo[p] # {}
  <2>1. PICK f \in todo[p], done \in BOOLEAN :
            /\ Attempt(done)
            /\ todo' = [todo EXCEPT ![p] = todo[p] \ {f}]
            /\ rows' = IF done THEN Linked(f) ELSE rows
            /\ UNCHANGED <<pc, job>>
    BY <1>3 DEF LinkItem
  <2>2. World'
    BY <1>0, <1>1, <2>1, WorldSame
  <2>3. RowsGrow /\ DOMAIN rows' = DOMAIN rows
    <3>1. CASE done
      <4>0. f \in DOMAIN rows /\ rows \in Table
        BY <1>0, <1>1, <2>1 DEF TypeOK
      <4>1. PICK r : r = RowOf(rows[f].digest, rows[f].title, rows[f].game, Parent[f])
        OBVIOUS
      <4>2. f \in File /\ Parent[f] \in Maybe(File)
        BY <1>0, <2>1, PathsAssumption DEF Maybe
      <4>3. r \in Row /\ r.title = rows[f].title /\ r.game = rows[f].game
        BY <4>0, <4>1, <4>2, TableRow, RowOfType
      <4>4. rows' = [rows EXCEPT ![f] = r]
        BY <2>1, <3>1, <4>1 DEF Linked
      <4> QED
        BY <4>0, <4>3, <4>4, UpdateGrows
    <3>2. CASE ~done
      BY <1>0, <2>1, <3>2, SameGrow DEF TypeOK
    <3> QED
      BY <3>1, <3>2
  <2>4. Control(p) /\ pc'[p] = "link" /\ job'[p] = job[p] /\ todo'[p] = todo[p] \ {f}
    <3>1. todo[p] \ {f} \in SUBSET File
      BY <1>0
    <3> QED
      BY <1>0, <2>1, <3>1 DEF Control, TypeOK
  <2>5. JobOK(p)'
    BY <1>0, <1>1, <2>3, <2>4 DEF JobOK, Writing, AfterNaming
  <2> QED
    BY <1>1, <2>2, <2>3, <2>4, <2>5, RowsStepOK
<1> QED
  BY <1>2, <1>3

-----------------------------------------------------------------------------
(* Matching, up to the first write                                         *)

(* Leaving a file keeps what the rest of the command relies on.            *)
LEMMA LeaveOK ==
    ASSUME NEW p \in Proc, TypeOK, JobOK(p), RowsGrow, job[p].task # "scan", Leave(p)
    PROVE  Control(p) /\ JobOK(p)'
<1>0. job[p] \in Job /\ todo[p] \in SUBSET File /\ pc[p] \in Steps \cup {"idle"}
  BY DEF TypeOK
<1>1. todo' = [todo EXCEPT ![p] = todo[p] \ {job[p].file}]
  BY DEF Leave
<1>2. todo[p] \ {job[p].file} \in SUBSET File
  BY <1>0
<1>3. CASE pc' = [pc EXCEPT ![p] = "idle"] /\ job' = [job EXCEPT ![p] = NoJob]
  <2>1. Control(p) /\ pc'[p] = "idle" /\ job'[p] = NoJob
    BY <1>1, <1>2, <1>3, NoJobType DEF Control, TypeOK
  <2> QED
    BY <2>1, IdleOK
<1>4. CASE pc' = [pc EXCEPT ![p] = "next"] /\ UNCHANGED job /\ job[p].task # "file"
  <2>1. Control(p) /\ pc'[p] = "next" /\ job'[p] = job[p] /\ todo'[p] \subseteq todo[p]
    <3>1. "next" \in Steps \cup {"idle"}
      BY DEF Steps
    <3> QED
      BY <1>0, <1>1, <1>2, <1>4, <3>1 DEF Control, TypeOK
  <2>2. job[p].task = "match"
    BY <1>0, <1>4, JobFields
  <2>3. DOMAIN rows \subseteq DOMAIN rows'
    BY DEF RowsGrow
  <2>4. JobOK(p)'
    BY <2>1, <2>2, <2>3 DEF JobOK, Writing, AfterNaming
  <2> QED
    BY <2>1, <2>4
<1> QED
  BY <1>3, <1>4 DEF Leave, Goto, Set

LEMMA MatchLibraryOK ==
    ASSUME NEW p \in Proc, IInv, matchLibrary(p)
    PROVE  IInv'
<1>0. TypeOK /\ JobOK(p)
  BY DEF IInv
<1>1. UNCHANGED <<content, rows, games, matches, misses, catalog, counts>>
  BY DEF matchLibrary, db
<1>2. PICK online \in BOOLEAN : Set(p, JobFor("match", online, rows, None, None))
  BY DEF matchLibrary
<1>3. PICK j : j = JobFor("match", online, rows, None, None)
  OBVIOUS
<1>4. j \in Job /\ j.task = "match" /\ j.snapshot = rows /\ j.stored = {}
  BY <1>0, <1>3 DEF JobFor, Job, Maybe, TypeOK
<1>5. /\ pc' = [pc EXCEPT ![p] = "next"] /\ job' = [job EXCEPT ![p] = j]
      /\ todo' = [todo EXCEPT ![p] = DOMAIN rows]
  BY <1>2, <1>3 DEF matchLibrary, Goto, Set
<1>6. Control(p) /\ pc'[p] = "next" /\ job'[p] = j /\ todo'[p] = DOMAIN rows
  <2>1. DOMAIN rows \in SUBSET File
    BY <1>0 DEF TypeOK, Table
  <2>2. "next" \in Steps \cup {"idle"}
    BY DEF Steps
  <2> QED
    BY <1>0, <1>4, <1>5, <2>1, <2>2 DEF Control, TypeOK
<1>7. JobOK(p)'
  BY <1>1, <1>4, <1>6 DEF JobOK, Writing, AfterNaming
<1>8. World'
  BY <1>0, <1>1, WorldSame
<1> QED
  BY <1>1, <1>6, <1>7, <1>8, ControlStepOK

LEMMA MatchFileOK ==
    ASSUME NEW p \in Proc, IInv, matchFile(p)
    PROVE  IInv'
<1>0. TypeOK /\ JobOK(p)
  BY DEF IInv
<1>1. UNCHANGED <<content, rows, games, matches, misses, catalog, counts, todo>>
  BY DEF matchFile, db
<1>2. PICK f \in Present : Set(p, JobFor("file", FALSE, <<>>, f, content[f]))
  BY DEF matchFile
<1>3. f \in File /\ content[f] \in Digest
  BY <1>0, <1>2 DEF Present, TypeOK, Maybe
<1>4. PICK j : j = JobFor("file", FALSE, <<>>, f, content[f])
  OBVIOUS
<1>5. /\ j \in Job /\ j.task = "file" /\ j.online = FALSE /\ j.stored = {}
      /\ j.file = f /\ j.digest = content[f]
  BY <1>3, <1>4, EmptyTable DEF JobFor, Job, Maybe
<1>6. pc' = [pc EXCEPT ![p] = "lookup"] /\ job' = [job EXCEPT ![p] = j]
  BY <1>2, <1>4 DEF matchFile, Goto, Set
<1>7. Control(p) /\ pc'[p] = "lookup" /\ job'[p] = j
  <2>1. "lookup" \in Steps \cup {"idle"}
    BY DEF Steps
  <2> QED
    BY <1>0, <1>1, <1>5, <1>6, <2>1 DEF Control, TypeOK
<1>8. JobOK(p)'
  BY <1>1, <1>3, <1>5, <1>7 DEF JobOK, Writing, AfterNaming
<1>9. World'
  BY <1>0, <1>1, WorldSame
<1> QED
  BY <1>1, <1>7, <1>8, <1>9, ControlStepOK

LEMMA MatchNextOK ==
    ASSUME NEW p \in Proc, IInv, MatchNext(p)
    PROVE  IInv'
<1>0. TypeOK /\ JobOK(p) /\ pc[p] = "next" /\ job[p] \in Job /\ todo[p] \in SUBSET File
  BY DEF IInv, TypeOK, MatchNext
<1>1. UNCHANGED <<content, rows, games, matches, misses, catalog, counts>>
  BY DEF MatchNext, db
<1>2. World'
  BY <1>0, <1>1, WorldSame
<1>3. /\ job[p].task = "match" /\ todo[p] \subseteq DOMAIN job[p].snapshot
      /\ DOMAIN job[p].snapshot \subseteq DOMAIN rows
  BY <1>0 DEF JobOK
<1>4. PICK f \in todo[p] :
         IF AlreadyMatched(p, f) \/ HashesOf(p, f) = None
         THEN /\ todo' = [todo EXCEPT ![p] = todo[p] \ {f}]
              /\ IF todo[p] = {f} THEN Goto(p, "idle") /\ Set(p, NoJob)
                                  ELSE UNCHANGED <<pc, job>>
         ELSE /\ Set(p, JobAt(job[p], {}, f, HashesOf(p, f), None, 0))
              /\ Goto(p, "lookup")
              /\ UNCHANGED todo
  BY DEF MatchNext
<1>5. CASE AlreadyMatched(p, f) \/ HashesOf(p, f) = None
  <2>1. todo' = [todo EXCEPT ![p] = todo[p] \ {f}] /\ todo[p] \ {f} \in SUBSET File
    BY <1>0, <1>4, <1>5
  <2>2. CASE todo[p] = {f}
    <3>1. pc' = [pc EXCEPT ![p] = "idle"] /\ job' = [job EXCEPT ![p] = NoJob]
      BY <1>4, <1>5, <2>2 DEF Goto, Set
    <3>2. Control(p) /\ pc'[p] = "idle" /\ job'[p] = NoJob
      BY <1>0, <2>1, <3>1, NoJobType DEF Control, TypeOK
    <3> QED
      BY <1>1, <1>2, <3>2, IdleOK, ControlStepOK
  <2>3. CASE todo[p] # {f}
    <3>1. UNCHANGED <<pc, job>>
      BY <1>4, <1>5, <2>3
    <3>2. /\ Control(p) /\ pc'[p] = "next" /\ job'[p] = job[p]
          /\ todo'[p] = todo[p] \ {f}
      BY <1>0, <2>1, <3>1 DEF Control, TypeOK
    <3>3. JobOK(p)'
      BY <1>0, <1>1, <1>3, <3>2 DEF JobOK, Writing, AfterNaming
    <3> QED
      BY <1>1, <1>2, <3>2, <3>3, ControlStepOK
  <2> QED
    BY <2>2, <2>3
<1>6. CASE ~(AlreadyMatched(p, f) \/ HashesOf(p, f) = None)
  <2>1. PICK j : j = JobAt(job[p], {}, f, HashesOf(p, f), None, 0)
    OBVIOUS
  <2>2. /\ UNCHANGED todo /\ pc' = [pc EXCEPT ![p] = "lookup"]
        /\ job' = [job EXCEPT ![p] = j]
    BY <1>4, <1>6, <2>1 DEF Goto, Set
  <2>3. f \in File /\ f \in DOMAIN rows /\ HashesOf(p, f) \in Digest
    <3>1. f \in File /\ f \in DOMAIN job[p].snapshot /\ job[p].snapshot \in Table
      BY <1>0, <1>3, JobFields
    <3>2. job[p].snapshot[f].digest \in Maybe(Digest) /\ content[f] \in Maybe(Digest)
      BY <1>0, <3>1, TableRow DEF TypeOK
    <3> QED
      BY <1>3, <1>6, <3>1, <3>2 DEF HashesOf, Maybe
  <2>4. /\ j \in Job /\ j.task = "match" /\ j.online = job[p].online /\ j.stored = {}
        /\ j.snapshot = job[p].snapshot /\ j.file = f /\ j.digest \in Digest
    <3>1. /\ f \in Maybe(File) /\ HashesOf(p, f) \in Maybe(Digest) /\ None \in Maybe(Identity)
          /\ {} \in SUBSET File /\ 0 \in Nat
      BY <2>3 DEF Maybe
    <3> QED
      BY <1>0, <1>3, <2>1, <2>3, <3>1, JobAtType
  <2>5. Control(p) /\ pc'[p] = "lookup" /\ job'[p] = j /\ todo'[p] = todo[p]
    <3>1. "lookup" \in Steps \cup {"idle"}
      BY DEF Steps
    <3> QED
      BY <1>0, <2>2, <2>4, <3>1 DEF Control, TypeOK
  <2>6. JobOK(p)'
    BY <1>1, <1>3, <2>3, <2>4, <2>5 DEF JobOK, Writing, AfterNaming
  <2> QED
    BY <1>1, <1>2, <2>5, <2>6, ControlStepOK
<1> QED
  BY <1>5, <1>6

LEMMA LookupOK ==
    ASSUME NEW p \in Proc, IInv, lookupHashes(p)
    PROVE  IInv'
<1>0. /\ TypeOK /\ JobOK(p) /\ pc[p] = "lookup" /\ job[p] \in Job
      /\ job[p].task \in {"match", "file"} /\ job[p].digest \in Digest /\ job[p].file \in File
      /\ job[p].task = "match" => job[p].file \in DOMAIN rows
  <2>1. TypeOK /\ JobOK(p) /\ pc[p] = "lookup" /\ job[p] \in Job
    BY DEF IInv, TypeOK, lookupHashes
  <2> QED
    BY <2>1, JobFields DEF JobOK
<1>1. UNCHANGED <<content, rows, games, matches, misses, catalog, counts>>
  BY DEF lookupHashes, db
<1>2. World' /\ RowsGrow
  BY <1>0, <1>1, WorldSame, SameGrow DEF TypeOK
<1>3. CASE catalog[job[p].digest] # None
  <2>0. PICK j : j = JobAt(job[p], {}, job[p].file, job[p].digest, catalog[job[p].digest], 0)
    OBVIOUS
  <2>1. PICK step \in {"insert", "store"} :
            /\ step = IF job[p].task = "file" THEN "insert" ELSE "store"
            /\ pc' = [pc EXCEPT ![p] = step]
    BY <1>3 DEF lookupHashes, Goto
  <2>2. UNCHANGED todo /\ job' = [job EXCEPT ![p] = j]
    BY <1>3, <2>0 DEF lookupHashes, Set
  <2>3. catalog[job[p].digest] \in Identity
    BY <1>0, <1>3 DEF TypeOK, Maybe
  <2>4. /\ j \in Job /\ j.task = job[p].task /\ j.online = job[p].online /\ j.stored = {}
        /\ j.snapshot = job[p].snapshot /\ j.file = job[p].file /\ j.digest = job[p].digest
        /\ j.hit \in Identity
    <3>1. /\ job[p].file \in Maybe(File) /\ job[p].digest \in Maybe(Digest)
          /\ catalog[job[p].digest] \in Maybe(Identity) /\ {} \in SUBSET File /\ 0 \in Nat
      BY <1>0, <2>3 DEF Maybe
    <3> QED
      BY <1>0, <2>0, <2>3, <3>1, JobAtType
  <2>5. Control(p) /\ pc'[p] = step /\ job'[p] = j /\ todo'[p] = todo[p]
    <3>1. step \in Steps \cup {"idle"}
      BY <2>1 DEF Steps
    <3> QED
      BY <1>0, <2>1, <2>2, <2>4, <3>1 DEF Control, TypeOK
  <2>6. JobOK(p)'
    BY <1>0, <1>1, <2>1, <2>4, <2>5 DEF JobOK, Writing, AfterNaming
  <2> QED
    BY <1>1, <1>2, <2>5, <2>6, ControlStepOK
<1>4. CASE catalog[job[p].digest] = None /\ job[p].online /\ job[p].digest \notin misses
  <2>1. pc' = [pc EXCEPT ![p] = "ask"] /\ UNCHANGED <<job, todo>>
    BY <1>4 DEF lookupHashes, Goto
  <2>2. Control(p) /\ pc'[p] = "ask" /\ job'[p] = job[p] /\ todo'[p] = todo[p]
    <3>1. "ask" \in Steps \cup {"idle"}
      BY DEF Steps
    <3> QED
      BY <1>0, <2>1, <3>1 DEF Control, TypeOK
  <2>3. JobOK(p)'
    BY <1>0, <1>1, <1>4, <2>2 DEF JobOK, Writing, AfterNaming
  <2> QED
    BY <1>1, <1>2, <2>2, <2>3, ControlStepOK
<1>5. CASE catalog[job[p].digest] = None /\ ~(job[p].online /\ job[p].digest \notin misses)
  <2>1. Leave(p)
    BY <1>5 DEF lookupHashes
  <2>2. Control(p) /\ JobOK(p)'
    BY <1>0, <1>2, <2>1, LeaveOK
  <2> QED
    BY <1>1, <1>2, <2>2, ControlStepOK
<1> QED
  BY <1>3, <1>4, <1>5

LEMMA AskOK ==
    ASSUME NEW p \in Proc, IInv, Ask(p)
    PROVE  IInv'
<1>0. /\ TypeOK /\ JobOK(p) /\ pc[p] = "ask" /\ job[p] \in Job
      /\ job[p].task = "match" /\ job[p].digest \in Digest /\ job[p].file \in File
      /\ job[p].file \in DOMAIN rows
  BY DEF IInv, TypeOK, Ask, JobOK
<1>1. UNCHANGED <<content, rows, games, matches>>
  BY DEF Ask
<1>2. RowsGrow
  BY <1>0, <1>1, SameGrow DEF TypeOK
<1>3. PICK hit \in {Online[job[p].digest], None}, done \in BOOLEAN :
         /\ Attempt(done)
         /\ IF hit # None /\ done
            THEN /\ catalog' = [catalog EXCEPT ![job[p].digest] = IF @ = None THEN hit ELSE @]
                 /\ Set(p, JobAt(job[p], {}, job[p].file, job[p].digest, hit, 0))
                 /\ Goto(p, "store")
                 /\ UNCHANGED <<misses, todo>>
            ELSE /\ Leave(p)
                 /\ misses' = IF hit = None /\ done THEN misses \cup {job[p].digest} ELSE misses
                 /\ UNCHANGED catalog
  BY DEF Ask
<1>4. hit \in Maybe(Identity)
  BY <1>0, CatalogAssumption DEF Maybe
<1>5. /\ edits' \in 0 .. MaxEdits /\ ingests' \in 0 .. MaxIngests
      /\ faults' \in 0 .. MaxFaults /\ crashes' \in 0 .. MaxCrashes
  BY <1>0, <1>3, CountsTyped
<1>6. CASE hit # None /\ done
  <2>0. PICK j : j = JobAt(job[p], {}, job[p].file, job[p].digest, hit, 0)
    OBVIOUS
  <2>1. /\ UNCHANGED <<misses, todo>> /\ pc' = [pc EXCEPT ![p] = "store"]
        /\ job' = [job EXCEPT ![p] = j]
    BY <1>3, <1>6, <2>0 DEF Set, Goto
  <2>2. catalog' \in [Digest -> Maybe(Identity)]
    BY <1>0, <1>3, <1>4, <1>6 DEF TypeOK
  <2>3. World'
    BY <1>0, <1>1, <1>5, <2>1, <2>2 DEF World, TypeOK
  <2>4. /\ j \in Job /\ j.task = "match" /\ j.online = job[p].online /\ j.stored = {}
        /\ j.snapshot = job[p].snapshot /\ j.file = job[p].file /\ j.digest = job[p].digest
        /\ j.hit \in Identity
    <3>1. /\ job[p].file \in Maybe(File) /\ job[p].digest \in Maybe(Digest)
          /\ hit \in Identity /\ {} \in SUBSET File /\ 0 \in Nat
      BY <1>0, <1>4, <1>6 DEF Maybe
    <3> QED
      BY <1>0, <1>4, <2>0, <3>1, JobAtType
  <2>5. Control(p) /\ pc'[p] = "store" /\ job'[p] = j /\ todo'[p] = todo[p]
    <3>1. "store" \in Steps \cup {"idle"}
      BY DEF Steps
    <3> QED
      BY <1>0, <2>1, <2>4, <3>1 DEF Control, TypeOK
  <2>6. JobOK(p)'
    BY <1>0, <1>1, <2>4, <2>5 DEF JobOK, Writing, AfterNaming
  <2> QED
    BY <1>1, <2>3, <2>5, <2>6, ControlStepOK
<1>7. CASE ~(hit # None /\ done)
  <2>1. Leave(p) /\ UNCHANGED catalog /\ misses' \subseteq misses \cup {job[p].digest}
    BY <1>3, <1>7
  <2>2. World'
    BY <1>0, <1>1, <1>5, <2>1 DEF World, TypeOK
  <2>3. Control(p) /\ JobOK(p)'
    BY <1>0, <1>2, <2>1, LeaveOK
  <2> QED
    BY <1>1, <2>2, <2>3, ControlStepOK
<1> QED
  BY <1>6, <1>7

LEMMA InsertForMatchOK ==
    ASSUME NEW p \in Proc, IInv, InsertForMatch(p)
    PROVE  IInv'
<1>0. /\ TypeOK /\ JobOK(p) /\ pc[p] = "insert" /\ job[p] \in Job
      /\ job[p].task # "scan" /\ job[p].digest \in Digest /\ job[p].file \in File
      /\ job[p].hit \in Identity
  BY DEF IInv, TypeOK, InsertForMatch, JobOK
<1>1. UNCHANGED <<content, games, matches, misses, catalog>>
  BY DEF InsertForMatch
<1>2. PICK done \in BOOLEAN :
         /\ Attempt(done)
         /\ rows' = IF done /\ job[p].file \notin DOMAIN rows
                    THEN InsertedRow(job[p].file, job[p].hit) ELSE rows
         /\ IF done \/ job[p].file \in DOMAIN rows
            THEN Goto(p, "store") /\ UNCHANGED <<job, todo>>
            ELSE Leave(p)
  BY DEF InsertForMatch
<1>3. World'
  BY <1>0, <1>1, <1>2, WorldSame
<1>4. RowsGrow /\ (done \/ job[p].file \in DOMAIN rows => job[p].file \in DOMAIN rows')
  <2>1. CASE done /\ job[p].file \notin DOMAIN rows
    <3>1. PICK f \in File, t \in Maybe(Identity) : f = job[p].file /\ t = job[p].hit
      BY <1>0 DEF Maybe
    <3>2. rows' = InsertedRow(f, t) /\ f \notin DOMAIN rows
      BY <1>2, <2>1, <3>1
    <3>3. RowsGrow /\ DOMAIN rows' = DOMAIN rows \cup {f}
      BY <1>0, <3>2, InsertGrows DEF TypeOK
    <3> QED
      BY <3>1, <3>3
  <2>2. CASE ~(done /\ job[p].file \notin DOMAIN rows)
    BY <1>0, <1>2, <2>2, SameGrow DEF TypeOK
  <2> QED
    BY <2>1, <2>2
<1>5. CASE done \/ job[p].file \in DOMAIN rows
  <2>1. UNCHANGED <<job, todo>> /\ pc' = [pc EXCEPT ![p] = "store"]
    BY <1>2, <1>5 DEF Goto
  <2>2. Control(p) /\ pc'[p] = "store" /\ job'[p] = job[p] /\ todo'[p] = todo[p]
    <3>1. "store" \in Steps \cup {"idle"}
      BY DEF Steps
    <3> QED
      BY <1>0, <2>1, <3>1 DEF Control, TypeOK
  <2>3. DOMAIN rows \subseteq DOMAIN rows'
    BY <1>4 DEF RowsGrow
  <2>4. JobOK(p)'
    BY <1>0, <1>4, <1>5, <2>2, <2>3 DEF JobOK, Writing, AfterNaming
  <2> QED
    BY <1>1, <1>3, <1>4, <2>2, <2>4, RowsStepOK
<1>6. CASE ~(done \/ job[p].file \in DOMAIN rows)
  <2>1. Control(p) /\ JobOK(p)'
    BY <1>0, <1>2, <1>4, <1>6, LeaveOK
  <2> QED
    BY <1>1, <1>3, <1>4, <2>1, RowsStepOK
<1> QED
  BY <1>5, <1>6

-----------------------------------------------------------------------------
(* writeLibraryRecord                                                      *)

LEMMA HashedGrows ==
    ASSUME rows \in Table, NEW f \in DOMAIN rows, NEW d \in Maybe(Digest),
           rows' = [rows EXCEPT ![f] = RowOf(d, @.title, @.game, @.parent)]
    PROVE  RowsGrow /\ DOMAIN rows' = DOMAIN rows
<1>1. PICK r : r = RowOf(d, rows[f].title, rows[f].game, rows[f].parent)
  OBVIOUS
<1>2. r \in Row /\ r.title = rows[f].title /\ r.game = rows[f].game
  BY <1>1, TableRow, RowOfType
<1>3. rows' = [rows EXCEPT ![f] = r]
  BY <1>1
<1> QED
  BY <1>2, <1>3, UpdateGrows

LEMMA NamedGrows ==
    ASSUME rows \in Table, NEW f \in DOMAIN rows, NEW t \in Identity,
           \/ rows' = [rows EXCEPT ![f] = RowOf(@.digest, t, t, @.parent)]
           \/ /\ rows' = [rows EXCEPT ![f] = RowOf(@.digest, t, @.game, @.parent)]
              /\ rows[f].game # None
    PROVE  RowsGrow /\ DOMAIN rows' = DOMAIN rows /\ Named(f)'
<1>1. t # None /\ t \in Maybe(Identity)
  BY PathsAssumption DEF Maybe
<1>2. PICK g \in Maybe(Identity) :
        /\ g # None
        /\ rows' = [rows EXCEPT ![f] = RowOf(@.digest, t, g, @.parent)]
  BY <1>1, TableRow
<1>3. PICK r : r = RowOf(rows[f].digest, t, g, rows[f].parent)
  OBVIOUS
<1>4. r \in Row /\ r.title = t /\ r.game = g
  BY <1>1, <1>3, TableRow, RowOfType
<1>5. rows' = [rows EXCEPT ![f] = r]
  BY <1>2, <1>3
<1>6. RowsGrow /\ DOMAIN rows' = DOMAIN rows /\ rows'[f] = r
  BY <1>1, <1>2, <1>4, <1>5, UpdateGrows
<1> QED
  BY <1>1, <1>2, <1>4, <1>6 DEF Named

LEMMA StoreHashesOK ==
    ASSUME NEW p \in Proc, IInv, StoreHashes(p)
    PROVE  IInv'
<1>0. /\ TypeOK /\ JobOK(p) /\ pc[p] = "store" /\ job[p] \in Job
      /\ job[p].digest \in Digest /\ job[p].file \in DOMAIN rows
      /\ job[p].task # "scan" => job[p].hit \in Identity
  BY DEF IInv, TypeOK, StoreHashes, JobOK
<1>1. UNCHANGED <<content, games, matches, misses, catalog>>
  BY DEF StoreHashes
<1>2. PICK done \in BOOLEAN :
         /\ Attempt(done)
         /\ rows' = IF done THEN Hashed(p) ELSE rows
         /\ IF job[p].task = "scan"
            THEN Goto(p, "item") /\ UNCHANGED <<job, todo>>
            ELSE IF done THEN Goto(p, AfterHashes(p)) /\ UNCHANGED <<job, todo>>
                         ELSE Leave(p)
  BY DEF StoreHashes
<1>3. World'
  BY <1>0, <1>1, <1>2, WorldSame
<1>4. RowsGrow /\ DOMAIN rows' = DOMAIN rows
  <2>1. CASE done
    BY <1>0, <1>2, <2>1, HashedGrows DEF Hashed, TypeOK, Maybe
  <2>2. CASE ~done
    BY <1>0, <1>2, <2>2, SameGrow DEF TypeOK
  <2> QED
    BY <2>1, <2>2
<1>5. CASE job[p].task = "scan" \/ done
  <2>1. PICK step \in {"item", "identify"} :
           /\ step = IF job[p].task = "scan" THEN "item" ELSE "identify"
           /\ pc' = [pc EXCEPT ![p] = step] /\ UNCHANGED <<job, todo>>
    BY <1>2, <1>5 DEF Goto, AfterHashes
  <2>2. Control(p) /\ pc'[p] = step /\ job'[p] = job[p] /\ todo'[p] = todo[p]
    <3>1. step \in Steps \cup {"idle"}
      BY <2>1 DEF Steps
    <3> QED
      BY <1>0, <2>1, <3>1 DEF Control, TypeOK
  <2>3. JobOK(p)'
    BY <1>0, <1>4, <2>1, <2>2 DEF JobOK, Writing, AfterNaming
  <2> QED
    BY <1>1, <1>3, <1>4, <2>2, <2>3, RowsStepOK
<1>6. CASE ~(job[p].task = "scan" \/ done)
  <2>1. Control(p) /\ JobOK(p)'
    BY <1>0, <1>2, <1>4, <1>6, LeaveOK
  <2> QED
    BY <1>1, <1>3, <1>4, <2>1, RowsStepOK
<1> QED
  BY <1>5, <1>6

LEMMA IdentifyOK ==
    ASSUME NEW p \in Proc, IInv, updateFileCatalogMatch(p)
    PROVE  IInv'
<1>0. /\ TypeOK /\ JobOK(p) /\ pc[p] = "identify" /\ job[p] \in Job
      /\ job[p].digest \in Digest /\ job[p].file \in DOMAIN rows
      /\ job[p].task # "scan" /\ job[p].hit \in Identity
  BY DEF IInv, TypeOK, updateFileCatalogMatch, JobOK, Writing
<1>1. UNCHANGED <<content, games, matches, misses, catalog>>
  BY DEF updateFileCatalogMatch
<1>2. PICK done \in BOOLEAN :
         /\ Attempt(done)
         /\ rows' = IF done THEN Identified(p) ELSE rows
         /\ IF done THEN Goto(p, AfterIdentity(p)) /\ UNCHANGED <<job, todo>> ELSE Leave(p)
  BY DEF updateFileCatalogMatch
<1>3. World'
  BY <1>0, <1>1, <1>2, WorldSame
<1>4. CASE done
  <2>1. RowsGrow /\ DOMAIN rows' = DOMAIN rows /\ Named(job[p].file)'
    <3>1. PICK f \in DOMAIN rows, t \in Identity : f = job[p].file /\ t = job[p].hit
      BY <1>0
    <3>2. rows' = [rows EXCEPT ![f] = RowOf(@.digest, t, t, @.parent)]
      BY <1>2, <1>4, <3>1 DEF Identified
    <3>3. RowsGrow /\ DOMAIN rows' = DOMAIN rows /\ Named(f)'
      BY <1>0, <3>2, NamedGrows DEF TypeOK
    <3>4. f' = f /\ job[p].file = f
      BY <3>1
    <3> QED
      BY <1>2, <1>4, <3>3, <3>4 DEF Named
  <2>2. pc' = [pc EXCEPT ![p] = "game"] /\ UNCHANGED <<job, todo>>
    BY <1>2, <1>4 DEF Goto, AfterIdentity
  <2>3. Control(p) /\ pc'[p] = "game" /\ job'[p] = job[p] /\ todo'[p] = todo[p]
    <3>1. "game" \in Steps \cup {"idle"}
      BY DEF Steps
    <3> QED
      BY <1>0, <2>2, <3>1 DEF Control, TypeOK
  <2>4. JobOK(p)'
    BY <1>0, <2>1, <2>2, <2>3 DEF JobOK, Writing, AfterNaming
  <2> QED
    BY <1>1, <1>3, <2>1, <2>3, <2>4, RowsStepOK
<1>5. CASE ~done
  <2>1. RowsGrow
    BY <1>0, <1>2, <1>5, SameGrow DEF TypeOK
  <2>2. Control(p) /\ JobOK(p)'
    BY <1>0, <1>2, <1>5, <2>1, LeaveOK
  <2> QED
    BY <1>1, <1>3, <2>1, <2>2, RowsStepOK
<1> QED
  BY <1>4, <1>5

LEMMA Appended ==
    ASSUME NEW S, NEW s \in Seq(S), NEW e \in S
    PROVE  /\ Append(s, e) \in Seq(S)
           /\ DOMAIN Append(s, e) = DOMAIN s \cup {Len(s) + 1}
           /\ \A i \in DOMAIN s : i # Len(s) + 1 /\ Append(s, e)[i] = s[i]
           /\ Append(s, e)[Len(s) + 1] = e
OBVIOUS

LEMMA InsertGameOK ==
    ASSUME NEW p \in Proc, IInv, insertGame(p)
    PROVE  IInv'
<1>0. /\ TypeOK /\ MatchesNamed /\ JobOK(p) /\ pc[p] = "game" /\ job[p] \in Job
      /\ job[p].digest \in Digest /\ job[p].file \in DOMAIN rows
      /\ job[p].task # "scan" /\ job[p].hit \in Identity /\ Named(job[p].file)
  BY DEF IInv, TypeOK, insertGame, JobOK, Writing, AfterNaming
<1>1. UNCHANGED <<content, rows, matches, misses, catalog>>
  BY DEF insertGame
<1>2. PICK done \in BOOLEAN :
         /\ Attempt(done)
         /\ games' = IF done /\ SameGame(job[p].hit, None) = {}
                     THEN Append(games, [title |-> job[p].hit, region |-> None])
                     ELSE games
         /\ IF done
            THEN /\ \E i \in (IF SameGame(job[p].hit, None) = {} THEN {Len(games) + 1}
                              ELSE SameGame(job[p].hit, None)) :
                      Set(p, JobAt(job[p], {}, job[p].file, job[p].digest, job[p].hit, i))
                 /\ Goto(p, "match")
                 /\ UNCHANGED todo
            ELSE Leave(p)
  BY DEF insertGame
<1>3. World' /\ RowsGrow /\ MatchesGrow
  BY <1>0, <1>1, <1>2, WorldSame, SameGrow DEF TypeOK
<1>4. PICK g : g = [title |-> job[p].hit, region |-> None]
  OBVIOUS
<1>5. g \in Game /\ games \in Seq(Game)
  BY <1>0, <1>4 DEF Game, TypeOK
<1>6. GamesGrow
  <2>1. CASE done /\ SameGame(job[p].hit, None) = {}
    BY <1>2, <1>4, <1>5, <2>1, Appended DEF GamesGrow
  <2>2. CASE ~(done /\ SameGame(job[p].hit, None) = {})
    BY <1>2, <1>5, <2>2, SameGrow
  <2> QED
    BY <2>1, <2>2
<1>7. MatchesNamed'
  BY <1>0, <1>1, <1>3, <1>6, MatchesKept
<1>8. CASE done
  <2>1. PICK i \in (IF SameGame(job[p].hit, None) = {} THEN {Len(games) + 1}
                    ELSE SameGame(job[p].hit, None)) :
              Set(p, JobAt(job[p], {}, job[p].file, job[p].digest, job[p].hit, i))
    BY <1>2, <1>8
  <2>2. i \in DOMAIN games' /\ i \in Nat
    <3>1. CASE SameGame(job[p].hit, None) = {}
      <4>1. games' = Append(games, g) /\ i = Len(games) + 1
        BY <1>2, <1>4, <1>8, <2>1, <3>1
      <4>2. Len(games) + 1 \in Nat
        BY <1>5
      <4> QED
        BY <1>5, <4>1, <4>2, Appended
    <3>2. CASE SameGame(job[p].hit, None) # {}
      <4>1. games' = games /\ i \in DOMAIN games
        BY <1>2, <2>1, <3>2 DEF SameGame
      <4> QED
        BY <1>5, <4>1
    <3> QED
      BY <3>1, <3>2
  <2>3. PICK j : j = JobAt(job[p], {}, job[p].file, job[p].digest, job[p].hit, i)
    OBVIOUS
  <2>4. /\ UNCHANGED todo /\ pc' = [pc EXCEPT ![p] = "match"]
        /\ job' = [job EXCEPT ![p] = j]
    BY <1>2, <1>8, <2>1, <2>3 DEF Set, Goto
  <2>5. /\ j \in Job /\ j.task = job[p].task /\ j.online = job[p].online /\ j.stored = {}
        /\ j.snapshot = job[p].snapshot /\ j.file = job[p].file /\ j.digest = job[p].digest
        /\ j.hit = job[p].hit /\ j.game = i
    <3>1. /\ job[p].file \in Maybe(File) /\ job[p].digest \in Maybe(Digest)
          /\ job[p].hit \in Maybe(Identity) /\ {} \in SUBSET File
      BY <1>0, JobFields DEF Maybe
    <3> QED
      BY <1>0, <2>2, <2>3, <3>1, JobAtType
  <2>6. Control(p) /\ pc'[p] = "match" /\ job'[p] = j /\ todo'[p] = todo[p]
    <3>1. "match" \in Steps \cup {"idle"}
      BY DEF Steps
    <3> QED
      BY <1>0, <2>4, <2>5, <3>1 DEF Control, TypeOK
  <2>7. JobOK(p)'
    BY <1>0, <1>1, <2>2, <2>5, <2>6 DEF JobOK, Writing, AfterNaming, Named
  <2> QED
    BY <1>3, <1>6, <1>7, <2>6, <2>7, StepOK
<1>9. CASE ~done
  <2>1. Control(p) /\ JobOK(p)'
    BY <1>0, <1>2, <1>3, <1>9, LeaveOK
  <2> QED
    BY <1>3, <1>6, <1>7, <2>1, StepOK
<1> QED
  BY <1>8, <1>9

LEMMA InsertMatchOK ==
    ASSUME NEW p \in Proc, IInv, insertMatch(p)
    PROVE  IInv'
<1>0. /\ TypeOK /\ MatchesNamed /\ JobOK(p) /\ pc[p] = "match" /\ job[p] \in Job
      /\ job[p].file \in DOMAIN rows /\ job[p].game \in DOMAIN games
      /\ job[p].task # "scan" /\ Named(job[p].file)
  BY DEF IInv, TypeOK, insertMatch, JobOK, Writing, AfterNaming
<1>1. UNCHANGED <<content, rows, games, misses, catalog>>
  BY DEF insertMatch
<1>2. PICK m : m = MatchOf(job[p].file, job[p].game, FALSE)
  OBVIOUS
<1>3. PICK done \in BOOLEAN :
         /\ Attempt(done)
         /\ matches' =
              IF done /\ ~\E i \in DOMAIN matches :
                          matches[i].file = job[p].file /\ matches[i].game = job[p].game
              THEN Append(matches, m) ELSE matches
         /\ IF done THEN Goto(p, "confirm") /\ UNCHANGED <<job, todo>> ELSE Leave(p)
  BY <1>2 DEF insertMatch
<1>4. World' /\ RowsGrow /\ GamesGrow
  BY <1>0, <1>1, <1>3, WorldSame, SameGrow DEF TypeOK
<1>5. m \in Match /\ m.file = job[p].file /\ m.game = job[p].game /\ matches \in Seq(Match)
  <2>1. job[p].file \in File /\ job[p].game \in Nat \ {0} /\ FALSE \in BOOLEAN
    BY <1>0 DEF TypeOK, Table
  <2> QED
    BY <1>0, <1>2, <2>1 DEF TypeOK, MatchOf, Match
<1>6. MatchesGrow /\ MatchesNamed' /\ (done => HasMatch(job[p].file)')
  <2>1. CASE matches' = Append(matches, m)
    <3>1. /\ matches' \in Seq(Match)
          /\ DOMAIN matches' = DOMAIN matches \cup {Len(matches) + 1}
          /\ \A i \in DOMAIN matches : i # Len(matches) + 1 /\ matches'[i] = matches[i]
          /\ matches'[Len(matches) + 1] = m
      BY <1>5, <2>1, Appended
    <3>2. MatchesGrow
      BY <3>1 DEF MatchesGrow
    <3>3. MatchesNamed'
      BY <1>0, <1>1, <1>5, <3>1 DEF MatchesNamed, Named
    <3>4. \E i \in DOMAIN matches' : matches'[i].file = job[p].file
      BY <1>5, <3>1
    <3>5. UNCHANGED job \/ ~done
      BY <1>3
    <3> QED
      BY <3>2, <3>3, <3>4, <3>5 DEF HasMatch
  <2>2. CASE /\ matches' = matches
             /\ done => \E i \in DOMAIN matches :
                          matches[i].file = job[p].file /\ matches[i].game = job[p].game
    <3>1. MatchesGrow
      BY <1>5, <2>2, SameGrow
    <3>2. MatchesNamed'
      BY <1>0, <1>4, <2>2, MatchesKept
    <3>3. UNCHANGED job \/ ~done
      BY <1>3
    <3> QED
      BY <2>2, <3>1, <3>2, <3>3 DEF HasMatch
  <2> QED
    BY <1>3, <2>1, <2>2
<1>7. CASE done
  <2>1. pc' = [pc EXCEPT ![p] = "confirm"] /\ UNCHANGED <<job, todo>>
    BY <1>3, <1>7 DEF Goto
  <2>2. Control(p) /\ pc'[p] = "confirm" /\ job'[p] = job[p] /\ todo'[p] = todo[p]
    <3>1. "confirm" \in Steps \cup {"idle"}
      BY DEF Steps
    <3> QED
      BY <1>0, <2>1, <3>1 DEF Control, TypeOK
  <2>3. Named(job[p].file)' /\ HasMatch(job[p].file)'
    BY <1>0, <1>1, <1>6, <1>7, <2>1 DEF Named
  <2>4. JobOK(p)'
    BY <1>0, <1>1, <2>1, <2>2, <2>3 DEF JobOK, Writing, AfterNaming
  <2> QED
    BY <1>4, <1>6, <2>2, <2>4, StepOK
<1>8. CASE ~done
  <2>1. Control(p) /\ JobOK(p)'
    BY <1>0, <1>3, <1>4, <1>8, LeaveOK
  <2> QED
    BY <1>4, <1>6, <2>1, StepOK
<1> QED
  BY <1>7, <1>8

LEMMA ConfirmOK ==
    ASSUME NEW p \in Proc, IInv, confirmMatch(p)
    PROVE  IInv'
<1>0. /\ TypeOK /\ MatchesNamed /\ JobOK(p) /\ pc[p] = "confirm" /\ job[p] \in Job
      /\ job[p].file \in DOMAIN rows /\ HasMatch(job[p].file)
  BY DEF IInv, TypeOK, confirmMatch, JobOK, Writing, AfterNaming
<1>1. UNCHANGED <<content, rows, games, misses, catalog, job, todo>>
  BY DEF confirmMatch
<1>2. PICK done \in BOOLEAN :
         /\ Attempt(done)
         /\ matches' = IF done THEN ConfirmedAll(job[p].file) ELSE matches
         /\ Goto(p, IF done THEN "title" ELSE "again")
  BY DEF confirmMatch
<1>3. World' /\ RowsGrow /\ GamesGrow
  BY <1>0, <1>1, <1>2, WorldSame, SameGrow DEF TypeOK
<1>4. PICK f \in File : f = job[p].file
  BY <1>0 DEF TypeOK, Table
<1>5. /\ MatchesGrow /\ MatchesNamed'
      /\ done => Confirmed(f)'
  <2>1. CASE done
    <3>1. matches \in Seq(Match) /\ matches' = ConfirmedAll(f)
      BY <1>0, <1>2, <1>4, <2>1 DEF TypeOK
    <3>2. DOMAIN matches' = DOMAIN matches
      BY <3>1 DEF ConfirmedAll
    <3>3. \A i \in DOMAIN matches :
              /\ matches[i] \in Match /\ matches[i].game \in Nat \ {0}
              /\ matches[i].file \in File /\ matches[i].confirmed \in BOOLEAN
      <4>1. \A i \in DOMAIN matches : matches[i] \in Match
        BY <3>1
      <4> QED
        BY <4>1 DEF Match
    <3>4. \A i \in DOMAIN matches :
              /\ matches'[i] \in Match /\ matches'[i].file = matches[i].file
              /\ matches'[i].game = matches[i].game
              /\ matches[i].confirmed => matches'[i].confirmed
              /\ matches[i].file = f => matches'[i].confirmed
      <4> SUFFICES ASSUME NEW i \in DOMAIN matches
                   PROVE  /\ matches'[i] \in Match /\ matches'[i].file = matches[i].file
                          /\ matches'[i].game = matches[i].game
                          /\ matches[i].confirmed => matches'[i].confirmed
                          /\ matches[i].file = f => matches'[i].confirmed
        OBVIOUS
      <4>1. CASE matches[i].file = f
        <5>1. matches'[i] = MatchOf(f, matches[i].game, TRUE)
          BY <3>1, <4>1 DEF ConfirmedAll
        <5>2. TRUE \in BOOLEAN /\ matches[i].game \in Nat \ {0}
          BY <3>3
        <5> QED
          BY <4>1, <5>1, <5>2 DEF MatchOf, Match
      <4>2. CASE matches[i].file # f
        BY <3>1, <3>3, <4>2 DEF ConfirmedAll
      <4> QED
        BY <4>1, <4>2
    <3>5. matches' \in Seq(Match)
      <4>1. Len(matches) \in Nat /\ DOMAIN matches = 1 .. Len(matches)
        BY <3>1
      <4>2. matches' = [i \in 1 .. Len(matches) |->
                          IF matches[i].file = f THEN MatchOf(f, matches[i].game, TRUE)
                          ELSE matches[i]]
        BY <3>1, <4>1 DEF ConfirmedAll
      <4>3. \A i \in 1 .. Len(matches) :
               (IF matches[i].file = f THEN MatchOf(f, matches[i].game, TRUE)
                ELSE matches[i]) \in Match
        BY <3>4, <4>1, <4>2
      <4>4. matches' \in [1 .. Len(matches) -> Match]
        BY <4>2, <4>3
      <4> QED
        BY <4>1, <4>4, SeqDef
    <3>6. Confirmed(f)'
      BY <1>0, <1>4, <3>2, <3>4 DEF HasMatch, Confirmed
    <3>7. MatchesGrow
      BY <3>2, <3>4, <3>5 DEF MatchesGrow
    <3>8. MatchesNamed'
      BY <1>0, <1>1, <3>2, <3>4 DEF MatchesNamed, Named
    <3> QED
      BY <3>6, <3>7, <3>8
  <2>2. CASE ~done
    BY <1>0, <1>2, <1>3, <2>2, SameGrow, MatchesKept DEF TypeOK
  <2> QED
    BY <2>1, <2>2
<1>6. PICK step \in {"title", "again"} :
         pc' = [pc EXCEPT ![p] = step] /\ (step = "title" => done)
  BY <1>2 DEF Goto
<1>7. Control(p) /\ pc'[p] = step /\ job'[p] = job[p] /\ todo'[p] = todo[p]
  <2>1. step \in Steps \cup {"idle"}
    BY <1>6 DEF Steps
  <2> QED
    BY <1>0, <1>1, <1>6, <2>1 DEF Control, TypeOK
<1>8. Confirmed(f)' => Confirmed(job[p].file)'
  BY <1>1, <1>4 DEF Confirmed
<1>9. JobOK(p)'
  BY <1>0, <1>1, <1>5, <1>6, <1>7, <1>8 DEF JobOK, Writing, AfterNaming, Named
<1> QED
  BY <1>3, <1>5, <1>7, <1>9, StepOK

LEMMA TitleOK ==
    ASSUME NEW p \in Proc, IInv, TitleFromMatch(p)
    PROVE  IInv'
<1>0. /\ TypeOK /\ MatchesNamed /\ JobOK(p) /\ pc[p] = "title" /\ job[p] \in Job
      /\ job[p].file \in DOMAIN rows /\ Named(job[p].file)
  BY DEF IInv, TypeOK, TitleFromMatch, JobOK, Writing, AfterNaming
<1>1. /\ UNCHANGED <<content, games, matches, misses, catalog, job, todo>>
      /\ pc' = [pc EXCEPT ![p] = "again"]
  BY DEF TitleFromMatch, Goto
<1>2. PICK i \in ConfirmedMatches(job[p].file), done \in BOOLEAN :
         /\ Attempt(done)
         /\ rows' = IF done THEN Titled(job[p].file, i) ELSE rows
  BY DEF TitleFromMatch
<1>3. World'
  BY <1>0, <1>1, <1>2, WorldSame
<1>4. PICK f \in DOMAIN rows : f = job[p].file
  BY <1>0
<1>5. RowsGrow /\ DOMAIN rows' = DOMAIN rows /\ Named(f)'
  <2>1. CASE done
    <3>1. PICK t \in Identity : t = games[matches[i].game].title
      <4>1. matches[i].game \in DOMAIN games
        BY <1>0, <1>2 DEF MatchesNamed, ConfirmedMatches
      <4>2. games[matches[i].game] \in Game
        BY <1>0, <4>1 DEF TypeOK
      <4> QED
        BY <4>2 DEF Game
    <3>2. rows' = [rows EXCEPT ![f] = RowOf(@.digest, t, @.game, @.parent)]
      BY <1>2, <1>4, <2>1, <3>1 DEF Titled
    <3>3. rows[f].game # None
      BY <1>0, <1>4 DEF Named
    <3> QED
      BY <1>0, <3>2, <3>3, NamedGrows DEF TypeOK
  <2>2. CASE ~done
    BY <1>0, <1>2, <1>4, <2>2, SameGrow DEF TypeOK, Named
  <2> QED
    BY <2>1, <2>2
<1>6. Control(p) /\ pc'[p] = "again" /\ job'[p] = job[p] /\ todo'[p] = todo[p]
  <2>1. "again" \in Steps \cup {"idle"}
    BY DEF Steps
  <2> QED
    BY <1>0, <1>1, <2>1 DEF Control, TypeOK
<1>7. Named(f)' => Named(job[p].file)'
  BY <1>1, <1>4 DEF Named
<1>8. JobOK(p)'
  BY <1>0, <1>1, <1>5, <1>6, <1>7 DEF JobOK, Writing, AfterNaming
<1> QED
  BY <1>1, <1>3, <1>5, <1>6, <1>8, RowsStepOK

LEMMA RestoreOK ==
    ASSUME NEW p \in Proc, IInv, RestoreIdentity(p)
    PROVE  IInv'
<1>0. /\ TypeOK /\ JobOK(p) /\ pc[p] = "again" /\ job[p] \in Job
      /\ job[p].file \in DOMAIN rows /\ job[p].task # "scan" /\ job[p].hit \in Identity
  BY DEF IInv, TypeOK, RestoreIdentity, JobOK, Writing, AfterNaming
<1>1. UNCHANGED <<content, games, matches, misses, catalog>> /\ Leave(p)
  BY DEF RestoreIdentity
<1>2. PICK done \in BOOLEAN :
         Attempt(done) /\ rows' = IF done THEN Restored(p) ELSE rows
  BY DEF RestoreIdentity
<1>3. World'
  BY <1>0, <1>1, <1>2, WorldSame
<1>4. RowsGrow
  <2>1. CASE done
    <3>1. PICK f \in DOMAIN rows, t \in Identity : f = job[p].file /\ t = job[p].hit
      BY <1>0
    <3>2. rows' = [rows EXCEPT ![f] = RowOf(@.digest, t, t, @.parent)]
      BY <1>2, <2>1, <3>1 DEF Restored, Identified
    <3> QED
      BY <1>0, <3>2, NamedGrows DEF TypeOK
  <2>2. CASE ~done
    BY <1>0, <1>2, <2>2, SameGrow DEF TypeOK
  <2> QED
    BY <2>1, <2>2
<1>5. Control(p) /\ JobOK(p)'
  BY <1>0, <1>1, <1>4, LeaveOK
<1> QED
  BY <1>1, <1>3, <1>4, <1>5, RowsStepOK

-----------------------------------------------------------------------------
(* The environment, and the theorems                                       *)

LEMMA CrashOK ==
    ASSUME NEW p \in Proc, IInv, Crash(p)
    PROVE  IInv'
<1>0. TypeOK
  BY DEF IInv
<1>1. /\ UNCHANGED <<content, rows, games, matches, misses, catalog, edits, ingests, faults>>
      /\ pc' = [pc EXCEPT ![p] = "idle"] /\ job' = [job EXCEPT ![p] = NoJob]
      /\ todo' = [todo EXCEPT ![p] = {}]
      /\ crashes < MaxCrashes /\ crashes' = crashes + 1
  BY DEF Crash, db, Goto, Set
<1>2. World'
  BY <1>0, <1>1, BoundsAssumption DEF World, TypeOK
<1>3. Control(p) /\ pc'[p] = "idle" /\ job'[p] = NoJob
  BY <1>0, <1>1, NoJobType DEF Control, TypeOK
<1> QED
  BY <1>1, <1>2, <1>3, IdleOK, ControlStepOK

(* Steps that are of no process.                                           *)
LEMMA OutsideOK ==
    ASSUME IInv, World', UNCHANGED <<rows, games, matches, pc, job, todo>>
    PROVE  IInv'
<1>1. RowsGrow /\ GamesGrow /\ MatchesGrow
  BY SameGrow DEF IInv, TypeOK
<1>2. MatchesNamed'
  BY <1>1, MatchesKept DEF IInv
<1>3. \A q \in Proc : JobOK(q)'
  BY <1>1, Stable DEF IInv
<1>4. TypeOK'
  BY DEF IInv, TypeOK, World
<1> QED
  BY <1>2, <1>3, <1>4 DEF IInv

LEMMA EditOK ==
    ASSUME NEW f \in File, NEW d \in Maybe(Digest), IInv, Edit(f, d)
    PROVE  IInv'
<1>1. World'
  BY BoundsAssumption DEF IInv, TypeOK, World, Edit, db
<1> QED
  BY <1>1, OutsideOK DEF Edit, db

LEMMA IngestOK ==
    ASSUME NEW d \in Digest, NEW i \in Identity, IInv, Ingest(d, i)
    PROVE  IInv'
<1>1. World'
  BY BoundsAssumption DEF IInv, TypeOK, World, Ingest, db, Maybe
<1> QED
  BY <1>1, OutsideOK DEF Ingest, db

LEMMA InitOK == Init => IInv
<1> SUFFICES ASSUME Init
             PROVE  IInv
  OBVIOUS
<1>1. TypeOK
  BY EmptyTable, NoJobType, CatalogAssumption, BoundsAssumption
  DEF Init, TypeOK, Maybe
<1>2. MatchesNamed
  BY DEF Init, MatchesNamed
<1>3. \A p \in Proc : JobOK(p)
  BY NoJobType DEF Init, JobOK, Writing, AfterNaming
<1> QED
  BY <1>1, <1>2, <1>3 DEF IInv

LEMMA NextOK == IInv /\ [Next]_vars => IInv'
<1> SUFFICES ASSUME IInv, [Next]_vars
             PROVE  IInv'
  OBVIOUS
<1>1. ASSUME NEW p \in Proc, Scanning(p)
      PROVE  IInv'
  BY <1>1, ScanOK, ScanItemOK, HashItemOK, LinkItemOK DEF Scanning
<1>2. ASSUME NEW p \in Proc, Matching(p)
      PROVE  IInv'
  BY <1>2, MatchLibraryOK, MatchFileOK, MatchNextOK, LookupOK, AskOK, InsertForMatchOK
  DEF Matching
<1>3. ASSUME NEW p \in Proc, writeLibraryRecord(p)
      PROVE  IInv'
  BY <1>3, StoreHashesOK, IdentifyOK, InsertGameOK, InsertMatchOK, ConfirmOK, TitleOK,
     RestoreOK
  DEF writeLibraryRecord
<1>4. ASSUME NEW p \in Proc, Crash(p)
      PROVE  IInv'
  BY <1>4, CrashOK
<1>5. ASSUME NEW f \in File, NEW d \in Maybe(Digest), Edit(f, d)
      PROVE  IInv'
  BY <1>5, EditOK
<1>6. ASSUME NEW d \in Digest, NEW i \in Identity, Ingest(d, i)
      PROVE  IInv'
  BY <1>6, IngestOK
<1>7. CASE UNCHANGED vars
  <2>1. UNCHANGED <<content, rows, games, matches, misses, catalog, pc, job, todo,
                    edits, ingests, faults, crashes>>
    BY <1>7 DEF vars, db, counts
  <2>2. World'
    BY <2>1 DEF IInv, TypeOK, World
  <2> QED
    BY <2>1, <2>2, OutsideOK
<1> QED
  BY <1>1, <1>2, <1>3, <1>4, <1>5, <1>6, <1>7 DEF Next

(* The type invariant of scanning and matching.                            *)
THEOREM TypeCorrect == Spec => []TypeOK
<1>1. IInv => TypeOK
  BY DEF IInv
<1> QED
  BY InitOK, NextOK, <1>1, PTL DEF Spec

(* A file that counts as matched has a title and an entry of the catalog,  *)
(* wherever writeLibraryRecord is interrupted and whoever writes between   *)
(* its statements.                                                         *)
THEOREM MatchedIsNamed == Spec => []ConfirmedIsNamed
<1>1. IInv => ConfirmedIsNamed
  BY DEF IInv, MatchesNamed, ConfirmedIsNamed, Confirmed
<1> QED
  BY InitOK, NextOK, <1>1, PTL DEF Spec

-----------------------------------------------------------------------------
(* The title a file is organized under                                     *)

(* The one step between which a title may differ from the entry's is the   *)
(* one confirmMatch makes it differ by and writeLibraryRecord repairs.     *)
TitlesFollow ==
    \A f \in DOMAIN rows :
        rows[f].game # None /\ rows[f].title # rows[f].game
        => \E p \in Proc : pc[p] = "again" /\ job[p].file = f

Clean == faults = 0 /\ crashes = 0

TitleInv == Clean => TitlesFollow

Acts(p) == Scanning(p) \/ Matching(p) \/ writeLibraryRecord(p) \/ Crash(p)

LEMMA LeaveMoves ==
    ASSUME NEW p, Leave(p)
    PROVE  (\E step : Goto(p, step)) /\ (UNCHANGED job \/ \E r : Set(p, r))
BY DEF Leave

(* A step of a process leaves the locals of the others alone.              *)
LEMMA OthersStay ==
    ASSUME TypeOK, NEW p \in Proc, Acts(p)
    PROVE  \A q \in Proc \ {p} : pc'[q] = pc[q] /\ job'[q] = job[q]
<1>1. UNCHANGED pc \/ \E step : Goto(p, step)
  BY LeaveMoves
  DEF Acts, Scanning, Matching, writeLibraryRecord, scan, ScanItem, HashItem, LinkItem, matchLibrary,
      matchFile, MatchNext, lookupHashes, Ask, InsertForMatch, StoreHashes, updateFileCatalogMatch,
      insertGame, insertMatch, confirmMatch, TitleFromMatch, RestoreIdentity, Crash
<1>2. UNCHANGED job \/ \E r : Set(p, r)
  BY LeaveMoves
  DEF Acts, Scanning, Matching, writeLibraryRecord, scan, ScanItem, HashItem, LinkItem, matchLibrary,
      matchFile, MatchNext, lookupHashes, Ask, InsertForMatch, StoreHashes, updateFileCatalogMatch,
      insertGame, insertMatch, confirmMatch, TitleFromMatch, RestoreIdentity, Crash
<1> QED
  BY <1>1, <1>2 DEF Goto, Set, TypeOK

LEMMA CountsMove ==
    ASSUME NEW p \in Proc, Acts(p), ~Crash(p)
    PROVE  UNCHANGED counts \/ \E done : Attempt(done)
BY DEF Acts, Scanning, Matching, writeLibraryRecord, scan, ScanItem, HashItem, LinkItem, matchLibrary,
       matchFile, MatchNext, lookupHashes, Ask, InsertForMatch, StoreHashes, updateFileCatalogMatch,
       insertGame, insertMatch, confirmMatch, TitleFromMatch, RestoreIdentity

LEMMA CleanBefore ==
    ASSUME TypeOK, TypeOK', [Next]_vars
    PROVE  Clean' => Clean
<1>1. faults \in Nat /\ crashes \in Nat /\ faults' \in Nat /\ crashes' \in Nat
  BY BoundsAssumption DEF TypeOK
<1>2. ASSUME NEW done, Attempt(done)
      PROVE  crashes' = crashes /\ (faults' = faults \/ faults' = faults + 1)
  BY <1>2 DEF Attempt
<1>3. CASE UNCHANGED counts
  BY <1>3 DEF counts, Clean
<1>4. CASE \E done : Attempt(done)
  BY <1>1, <1>2, <1>4 DEF Clean
<1>5. ASSUME NEW p \in Proc, Acts(p), ~Crash(p)
      PROVE  UNCHANGED counts \/ \E done : Attempt(done)
  BY <1>5, CountsMove
<1>6. ASSUME NEW p \in Proc, Crash(p) PROVE Clean' => Clean
  BY <1>1, <1>6 DEF Crash, Clean
<1>7. ASSUME NEW f \in File, NEW d \in Maybe(Digest), Edit(f, d) PROVE Clean' => Clean
  BY <1>7 DEF Edit, Clean
<1>8. ASSUME NEW d \in Digest, NEW i \in Identity, Ingest(d, i) PROVE Clean' => Clean
  BY <1>8 DEF Ingest, Clean
<1>9. CASE UNCHANGED vars
  BY <1>3, <1>9 DEF vars
<1> QED
  BY <1>3, <1>4, <1>5, <1>6, <1>7, <1>8, <1>9 DEF Next, Acts

(* A row that changes in its digest and its parent only.                   *)
SameNames == DOMAIN rows' = DOMAIN rows
             /\ \A f \in DOMAIN rows : rows'[f].title = rows[f].title /\ rows'[f].game = rows[f].game

(* What one step of a process does to the titles and games of the rows.    *)
LEMMA NamesMove ==
    ASSUME IInv, NEW p \in Proc, Acts(p), Clean'
    PROVE  \/ SameNames /\ pc[p] # "again"
           \/ /\ pc[p] # "again"
              /\ \E f : f \notin DOMAIN rows /\ DOMAIN rows' = DOMAIN rows \cup {f}
                        /\ rows'[f].game = None /\ \A g \in DOMAIN rows : rows'[g] = rows[g]
           \/ /\ DOMAIN rows' = DOMAIN rows /\ \A g \in DOMAIN rows \ {job[p].file} : rows'[g] = rows[g]
              /\ job[p].file \in DOMAIN rows
              /\ rows'[job[p].file].title = rows'[job[p].file].game
           \/ /\ DOMAIN rows' = DOMAIN rows /\ \A g \in DOMAIN rows \ {job[p].file} : rows'[g] = rows[g]
              /\ pc[p] = "title" /\ pc'[p] = "again" /\ job' = job
<1>1. /\ TypeOK /\ JobOK(p) /\ rows \in Table /\ faults \in Nat /\ crashes \in Nat
  BY BoundsAssumption DEF IInv, TypeOK
<1>2. ~Crash(p)
  BY <1>1 DEF Crash, Clean
<1>3. ASSUME NEW done \in BOOLEAN, Attempt(done) PROVE done
  BY <1>1, <1>3 DEF Attempt, Clean
<1>4. CASE UNCHANGED rows /\ pc[p] # "again"
  BY <1>4 DEF SameNames
<1>14. ASSUME NEW f, NEW t, f \notin DOMAIN rows, rows' = InsertedRow(f, t)
      PROVE  /\ DOMAIN rows' = DOMAIN rows \cup {f}
             /\ rows'[f].game = None /\ \A g \in DOMAIN rows : rows'[g] = rows[g]
  BY <1>14 DEF InsertedRow, RowOf
<1>5. CASE ScanItem(p)
  <2>1. pc[p] = "item"
    BY <1>5 DEF ScanItem
  <2>2. UNCHANGED rows \/ \E f : f \notin DOMAIN rows /\ rows' = InsertedRow(f, None)
    BY <1>5 DEF ScanItem
  <2> QED
    BY <1>4, <1>14, <2>1, <2>2
<1>6. CASE InsertForMatch(p)
  <2>1. pc[p] = "insert"
    BY <1>6 DEF InsertForMatch
  <2>2. UNCHANGED rows \/ \E f, t : f \notin DOMAIN rows /\ rows' = InsertedRow(f, t)
    BY <1>6 DEF InsertForMatch
  <2> QED
    BY <1>4, <1>14, <2>1, <2>2
<1>7. CASE LinkItem(p)
  <2>1. pc[p] = "link"
    BY <1>7 DEF LinkItem
  <2>2. UNCHANGED rows \/ \E f : rows' = Linked(f)
    BY <1>7 DEF LinkItem
  <2>3. ASSUME NEW f, rows' = Linked(f) PROVE SameNames
    BY <2>3 DEF Linked, RowOf, SameNames
  <2> QED
    BY <1>4, <2>1, <2>2, <2>3
<1>8. CASE StoreHashes(p)
  <2>1. pc[p] = "store"
    BY <1>8 DEF StoreHashes
  <2>2. UNCHANGED rows \/ rows' = Hashed(p)
    BY <1>8 DEF StoreHashes
  <2>3. ASSUME rows' = Hashed(p) PROVE SameNames
    BY <2>3 DEF Hashed, RowOf, SameNames
  <2> QED
    BY <1>4, <2>1, <2>2, <2>3
<1>9. ASSUME rows' = Identified(p), job[p].file \in DOMAIN rows
      PROVE  /\ DOMAIN rows' = DOMAIN rows /\ \A g \in DOMAIN rows \ {job[p].file} : rows'[g] = rows[g]
             /\ rows'[job[p].file].title = rows'[job[p].file].game
  BY <1>9 DEF Identified, RowOf
<1>10. CASE updateFileCatalogMatch(p)
  <2>1. pc[p] = "identify" /\ job[p].file \in DOMAIN rows
    BY <1>1, <1>10 DEF updateFileCatalogMatch, JobOK, Writing
  <2>2. UNCHANGED rows \/ rows' = Identified(p)
    BY <1>10 DEF updateFileCatalogMatch
  <2> QED
    BY <1>4, <1>9, <2>1, <2>2
<1>11. CASE TitleFromMatch(p)
  <2>1. /\ pc[p] = "title" /\ job' = job /\ pc' = [pc EXCEPT ![p] = "again"]
    BY <1>11 DEF TitleFromMatch, Goto
  <2>2. UNCHANGED rows \/ \E i : rows' = Titled(job[p].file, i)
    BY <1>11 DEF TitleFromMatch
  <2>3. pc'[p] = "again"
    BY <1>1, <2>1 DEF TypeOK
  <2> QED
    BY <1>4, <2>1, <2>2, <2>3 DEF Titled
<1>12. CASE RestoreIdentity(p)
  <2>1. job[p].file \in DOMAIN rows
    BY <1>1, <1>12 DEF RestoreIdentity, JobOK, Writing, AfterNaming
  <2>2. rows' = Identified(p)
    BY <1>3, <1>12 DEF RestoreIdentity, Restored
  <2> QED
    BY <1>9, <2>1, <2>2
<1>13. CASE \/ scan(p) \/ HashItem(p) \/ matchLibrary(p) \/ matchFile(p) \/ MatchNext(p)
            \/ lookupHashes(p) \/ Ask(p) \/ insertGame(p) \/ insertMatch(p) \/ confirmMatch(p)
  BY <1>4, <1>13
  DEF scan, HashItem, matchLibrary, matchFile, MatchNext, lookupHashes, Ask, insertGame, insertMatch,
      confirmMatch, db
<1> QED
  BY <1>2, <1>5, <1>6, <1>7, <1>8, <1>10, <1>11, <1>12, <1>13
  DEF Acts, Scanning, Matching, writeLibraryRecord

LEMMA TitlesKept ==
    ASSUME IInv, TitlesFollow, NEW p \in Proc, Acts(p), Clean'
    PROVE  TitlesFollow'
<1>1. \A q \in Proc \ {p} : pc'[q] = pc[q] /\ job'[q] = job[q]
  BY OthersStay DEF IInv
<1>2. ASSUME NEW f \in DOMAIN rows, pc[p] # "again" \/ job[p].file # f,
             rows[f].game # None, rows[f].title # rows[f].game
      PROVE  \E q \in Proc : pc'[q] = "again" /\ job'[q].file = f
  BY <1>1, <1>2 DEF TitlesFollow
<1>3. CASE SameNames /\ pc[p] # "again"
  BY <1>2, <1>3 DEF SameNames, TitlesFollow
<1>4. CASE /\ pc[p] # "again"
           /\ \E f : f \notin DOMAIN rows /\ DOMAIN rows' = DOMAIN rows \cup {f}
                     /\ rows'[f].game = None /\ \A g \in DOMAIN rows : rows'[g] = rows[g]
  BY <1>2, <1>4 DEF TitlesFollow
<1>5. CASE /\ DOMAIN rows' = DOMAIN rows /\ \A g \in DOMAIN rows \ {job[p].file} : rows'[g] = rows[g]
           /\ job[p].file \in DOMAIN rows
           /\ rows'[job[p].file].title = rows'[job[p].file].game
  BY <1>2, <1>5 DEF TitlesFollow
<1>6. CASE /\ DOMAIN rows' = DOMAIN rows /\ \A g \in DOMAIN rows \ {job[p].file} : rows'[g] = rows[g]
           /\ pc[p] = "title" /\ pc'[p] = "again" /\ job' = job
  BY <1>2, <1>6 DEF TitlesFollow
<1> QED
  BY <1>3, <1>4, <1>5, <1>6, NamesMove

(* Whatever processes scan and match at once, and whatever is edited and   *)
(* ingested meanwhile: as long as no statement fails and nobody dies, the  *)
(* title a file is organized under is that of its entry between commands.  *)
THEOREM TitleFollowsEntry == Spec => []TitleIsOfEntry
<1>1. Init => TitleInv
  BY DEF Init, TitleInv, TitlesFollow
<1>2. IInv /\ TitleInv /\ [Next]_vars => TitleInv'
  <2> SUFFICES ASSUME IInv, TitleInv, [Next]_vars, Clean' PROVE TitlesFollow'
    BY DEF TitleInv
  <2>1. TitlesFollow
    BY NextOK, CleanBefore DEF IInv, TitleInv
  <2>2. CASE UNCHANGED <<rows, pc, job>>
    BY <2>1, <2>2 DEF TitlesFollow
  <2> QED
    BY <2>1, <2>2, TitlesKept DEF Next, Acts, Edit, Ingest, vars, db
<1>3. IInv /\ TitleInv => TitleIsOfEntry
  <2> SUFFICES ASSUME IInv, TitleInv, Quiet, faults + crashes = 0, NEW f \in DOMAIN rows,
                      rows[f].game # None
               PROVE  rows[f].title = rows[f].game
    BY DEF TitleIsOfEntry
  <2>1. Clean
    BY BoundsAssumption DEF IInv, TypeOK, Clean
  <2> QED
    BY <2>1 DEF TitleInv, TitlesFollow, Quiet
<1> QED
  BY InitOK, NextOK, <1>1, <1>2, <1>3, PTL DEF Spec

-----------------------------------------------------------------------------
(* The entry of a row and its hashes, for one process and a catalog that   *)
(* nothing is ingested into.                                               *)

(* The entry in hand is the one the catalog has for the hashes in hand,    *)
(* and these are in the row from the first statement of writeLibraryRecord *)
(* on; the online service is asked about hashes the catalog lacks; a scan  *)
(* writes hashes into a row it has just inserted.                          *)
Found(p) ==
    /\ pc[p] \in {"insert", "store"} \cup Writing /\ job[p].task # "scan" =>
         job[p].hit = catalog[job[p].digest]
    /\ pc[p] = "ask" => catalog[job[p].digest] = None
    /\ pc[p] \in {"hash", "store"} /\ job[p].task = "scan" => rows[job[p].file].game = None
    /\ pc[p] \in Writing => rows[job[p].file].digest = job[p].digest

(* Between the first two statements the row has new hashes and the entry   *)
(* of the old ones.                                                        *)
EntriesFollow ==
    /\ \A f \in DOMAIN rows : rows[f].game # None =>
         \/ rows[f].digest # None /\ rows[f].game = catalog[rows[f].digest]
         \/ \E p \in Proc : pc[p] = "identify" /\ job[p].file = f
    /\ \A p \in Proc : Found(p)

Settled == Clean /\ ingests = 0

EntryInv == Settled => EntriesFollow

LEMMA GotoAt ==
    ASSUME TypeOK, NEW p \in Proc
    PROVE  /\ \A step : Goto(p, step) => pc'[p] = step
           /\ \A r : Set(p, r) => job'[p] = r
           /\ Leave(p) => pc'[p] \in {"idle", "next"}
BY DEF TypeOK, Goto, Set, Leave

LEMMA FoundElse ==
    ASSUME NEW p, pc'[p] \in {"idle", "item", "link", "next", "lookup"}
    PROVE  Found(p)'
BY DEF Found, Writing, AfterNaming

LEMMA SameEntry ==
    ASSUME NEW p, Proc = {p}, EntriesFollow, UNCHANGED <<rows, catalog>>, pc[p] # "identify", Found(p)'
    PROVE  EntriesFollow'
BY DEF EntriesFollow

(* Steps that leave the rows and the catalog alone.                        *)
LEMMA QuietEntries ==
    ASSUME NEW p, Proc = {p}, IInv, EntriesFollow,
           \/ scan(p) \/ HashItem(p) \/ matchLibrary(p) \/ matchFile(p) \/ MatchNext(p)
           \/ lookupHashes(p) \/ insertGame(p) \/ insertMatch(p) \/ confirmMatch(p)
    PROVE  EntriesFollow'
<1>1. TypeOK /\ JobOK(p) /\ Found(p)
  BY DEF IInv, EntriesFollow
<1>2. UNCHANGED <<rows, catalog>> /\ pc[p] # "identify"
  BY DEF scan, HashItem, matchLibrary, matchFile, MatchNext, lookupHashes, insertGame, insertMatch,
         confirmMatch, db
<1>3. CASE \/ scan(p) \/ matchLibrary(p) \/ matchFile(p) \/ MatchNext(p)
  <2>1. pc'[p] \in {"idle", "item", "next", "lookup"}
    BY <1>1, <1>3, GotoAt DEF scan, matchLibrary, matchFile, MatchNext
  <2> QED
    BY <1>2, <2>1, FoundElse, SameEntry
<1>4. CASE HashItem(p)
  <2>1. pc[p] = "hash" /\ job[p].task = "scan" /\ rows[job[p].file].game = None
    BY <1>1, <1>4 DEF HashItem, JobOK, Found
  <2>2. CASE pc'[p] = "item"
    BY <1>2, <2>2, FoundElse, SameEntry
  <2>3. CASE pc'[p] = "store" /\ job'[p].task = "scan" /\ job'[p].file = job[p].file
    BY <1>2, <2>1, <2>3, SameEntry DEF Found, Writing, AfterNaming
  <2> QED
    BY <1>1, <1>4, <2>1, <2>2, <2>3, GotoAt DEF HashItem, JobAt
<1>5. CASE lookupHashes(p)
  <2>1. pc[p] = "lookup" /\ job[p].task # "scan"
    BY <1>1, <1>5 DEF lookupHashes, JobOK
  <2>2. CASE pc'[p] \in {"idle", "next"}
    BY <1>2, <2>2, FoundElse, SameEntry
  <2>3. CASE /\ pc'[p] \in {"insert", "store"} /\ job'[p].task = job[p].task
             /\ job'[p].hit = catalog[job'[p].digest]
    BY <1>2, <2>1, <2>3, SameEntry DEF Found, Writing, AfterNaming
  <2>4. CASE pc'[p] = "ask" /\ job' = job /\ catalog[job[p].digest] = None
    BY <1>2, <2>1, <2>4, SameEntry DEF Found, Writing, AfterNaming
  <2> QED
    BY <1>1, <1>5, <2>2, <2>3, <2>4, GotoAt DEF lookupHashes, JobAt
<1>6. ASSUME pc[p] \in AfterNaming, pc'[p] \in AfterNaming,
             job'[p].task = job[p].task, job'[p].file = job[p].file,
             job'[p].digest = job[p].digest, job'[p].hit = job[p].hit
      PROVE  EntriesFollow'
  <2>1. Found(p)'
    BY <1>1, <1>2, <1>6 DEF Found, Writing, AfterNaming
  <2> QED
    BY <1>2, <2>1, SameEntry
<1>7. CASE insertGame(p)
  <2>1. CASE pc'[p] \in {"idle", "next"}
    BY <1>2, <2>1, FoundElse, SameEntry
  <2>2. CASE \E i : Set(p, JobAt(job[p], {}, job[p].file, job[p].digest, job[p].hit, i))
                    /\ Goto(p, "match")
    <3>1. /\ pc'[p] = "match" /\ job'[p].task = job[p].task /\ job'[p].file = job[p].file
          /\ job'[p].digest = job[p].digest /\ job'[p].hit = job[p].hit
      BY <1>1, <2>2, GotoAt DEF JobAt
    <3> QED
      BY <1>6, <1>7, <3>1 DEF insertGame, AfterNaming
  <2> QED
    BY <1>1, <1>7, <2>1, <2>2, GotoAt DEF insertGame
<1>8. CASE insertMatch(p)
  <2>1. CASE pc'[p] \in {"idle", "next"}
    BY <1>2, <2>1, FoundElse, SameEntry
  <2>2. CASE Goto(p, "confirm") /\ UNCHANGED job
    BY <1>1, <1>6, <1>8, <2>2, GotoAt DEF insertMatch, AfterNaming
  <2> QED
    BY <1>1, <1>8, <2>1, <2>2, GotoAt DEF insertMatch
<1>9. CASE confirmMatch(p)
  <2>1. pc[p] = "confirm" /\ job' = job /\ (Goto(p, "title") \/ Goto(p, "again"))
    BY <1>9 DEF confirmMatch
  <2> QED
    BY <1>1, <1>6, <2>1, GotoAt DEF AfterNaming
<1> QED
  BY <1>3, <1>4, <1>5, <1>7, <1>8, <1>9

(* Steps that write rows, and the online hit.                              *)
LEMMA WrittenEntries ==
    ASSUME NEW p, Proc = {p}, IInv, EntriesFollow, Settled, Settled',
           \/ ScanItem(p) \/ LinkItem(p) \/ Ask(p) \/ InsertForMatch(p) \/ StoreHashes(p)
           \/ updateFileCatalogMatch(p) \/ TitleFromMatch(p) \/ RestoreIdentity(p)
    PROVE  EntriesFollow'
<1>1. TypeOK /\ JobOK(p) /\ Found(p)
  BY DEF IInv, EntriesFollow
<1>2. ASSUME NEW done \in BOOLEAN, Attempt(done) PROVE done
  BY <1>1, <1>2, BoundsAssumption DEF Attempt, Settled, Clean, TypeOK
<1>3. \A f \in DOMAIN rows : rows[f].game # None =>
         \/ rows[f].digest # None /\ rows[f].game = catalog[rows[f].digest]
         \/ pc[p] = "identify" /\ job[p].file = f
  BY DEF EntriesFollow
<1>4. ASSUME \A f \in DOMAIN rows' : rows'[f].game # None =>
                \/ rows'[f].digest # None /\ rows'[f].game = catalog'[rows'[f].digest]
                \/ pc'[p] = "identify" /\ job'[p].file = f,
             Found(p)'
      PROVE  EntriesFollow'
  BY <1>4 DEF EntriesFollow
<1>5. ASSUME NEW f, NEW t, f \notin DOMAIN rows, rows' = InsertedRow(f, t)
      PROVE  /\ DOMAIN rows' = DOMAIN rows \cup {f}
             /\ rows'[f].game = None /\ \A g \in DOMAIN rows : rows'[g] = rows[g]
  BY <1>5 DEF InsertedRow, RowOf
<1>6. CASE ScanItem(p)
  <2>1. pc[p] = "item" /\ catalog' = catalog
    BY <1>6 DEF ScanItem
  <2>2. CASE UNCHANGED <<rows, job>> /\ pc'[p] \in {"item", "link"}
    BY <2>1, <2>2, FoundElse, SameEntry
  <2>3. ASSUME NEW f, f \notin DOMAIN rows, rows' = InsertedRow(f, None),
               pc'[p] = "hash", job'[p].file = f
        PROVE  EntriesFollow'
    <3>1. /\ DOMAIN rows' = DOMAIN rows \cup {f}
          /\ rows'[f].game = None /\ \A g \in DOMAIN rows : rows'[g] = rows[g]
      BY <1>5, <2>3
    <3>2. Found(p)'
      BY <2>3, <3>1 DEF Found, Writing, AfterNaming
    <3> QED
      BY <1>3, <1>4, <2>1, <3>1, <3>2
  <2>4. \/ UNCHANGED <<rows, job>> /\ (UNCHANGED pc \/ Goto(p, "link"))
        \/ \E f : /\ f \notin DOMAIN rows /\ rows' = InsertedRow(f, None) /\ Goto(p, "hash")
                  /\ Set(p, JobAt(job[p], job[p].stored \cup {f}, f, None, None, 0))
    BY <1>6 DEF ScanItem
  <2>5. \A f : JobAt(job[p], job[p].stored \cup {f}, f, None, None, 0).file = f
    BY DEF JobAt
  <2> QED
    BY <1>1, <2>1, <2>2, <2>3, <2>4, <2>5, GotoAt
<1>7. CASE LinkItem(p)
  <2>1. pc[p] = "link" /\ catalog' = catalog /\ pc'[p] \in {"link", "idle"}
    BY <1>1, <1>7, GotoAt DEF LinkItem
  <2>2. UNCHANGED rows \/ \E f : rows' = Linked(f)
    BY <1>7 DEF LinkItem
  <2>3. Found(p)'
    BY <2>1, FoundElse
  <2>4. ASSUME NEW f, rows' = Linked(f)
        PROVE  /\ DOMAIN rows' = DOMAIN rows
               /\ \A g \in DOMAIN rows : rows'[g].game = rows[g].game /\ rows'[g].digest = rows[g].digest
    BY <2>4 DEF Linked, RowOf
  <2>5. CASE UNCHANGED rows
    BY <2>1, <2>3, <2>5, SameEntry
  <2> QED
    BY <1>3, <1>4, <2>1, <2>2, <2>3, <2>4, <2>5
<1>8. CASE Ask(p)
  <2>1. /\ pc[p] = "ask" /\ UNCHANGED rows /\ catalog[job[p].digest] = None
        /\ job[p].task # "scan" /\ job[p].digest \in Digest
    BY <1>1, <1>8 DEF Ask, Found, JobOK
  <2>2. CASE UNCHANGED catalog /\ pc'[p] \in {"idle", "next"}
    BY <2>1, <2>2, FoundElse, SameEntry
  <2>3. ASSUME NEW hit, hit # None,
               catalog' = [catalog EXCEPT ![job[p].digest] = IF @ = None THEN hit ELSE @],
               pc'[p] = "store", job'[p].hit = hit, job'[p].digest = job[p].digest,
               job'[p].task = job[p].task
        PROVE  EntriesFollow'
    <3>1. /\ catalog'[job[p].digest] = hit
          /\ \A d : catalog[d] # None => catalog'[d] = catalog[d]
      BY <1>1, <2>1, <2>3 DEF TypeOK
    <3>2. Found(p)'
      BY <2>1, <2>3, <3>1 DEF Found, Writing, AfterNaming
    <3> QED
      BY <1>3, <1>4, <2>1, <3>1, <3>2
  <2> QED
    BY <1>1, <1>8, <2>1, <2>2, <2>3, GotoAt DEF Ask, JobAt
<1>9. CASE InsertForMatch(p)
  <2>1. pc[p] = "insert" /\ catalog' = catalog /\ job[p].task # "scan"
    BY <1>1, <1>9 DEF InsertForMatch, JobOK
  <2>2. UNCHANGED rows \/ \E t : job[p].file \notin DOMAIN rows /\ rows' = InsertedRow(job[p].file, t)
    BY <1>9 DEF InsertForMatch
  <2>3. Found(p)'
    <3>1. CASE Goto(p, "store") /\ UNCHANGED job
      BY <1>1, <2>1, <3>1, GotoAt DEF Found, Writing, AfterNaming
    <3>2. CASE Leave(p)
      BY <1>1, <3>2, GotoAt, FoundElse
    <3> QED
      BY <1>9, <3>1, <3>2 DEF InsertForMatch
  <2>4. CASE UNCHANGED rows
    BY <2>1, <2>3, <2>4, SameEntry
  <2>5. ASSUME NEW t, job[p].file \notin DOMAIN rows, rows' = InsertedRow(job[p].file, t)
        PROVE  EntriesFollow'
    <3>1. /\ DOMAIN rows' = DOMAIN rows \cup {job[p].file}
          /\ rows'[job[p].file].game = None /\ \A g \in DOMAIN rows : rows'[g] = rows[g]
      BY <1>5, <2>5
    <3> QED
      BY <1>3, <1>4, <2>1, <2>3, <3>1
  <2> QED
    BY <2>2, <2>4, <2>5
<1>10. ASSUME NEW r, rows' = [rows EXCEPT ![job[p].file] = r], job[p].file \in DOMAIN rows
       PROVE  /\ DOMAIN rows' = DOMAIN rows /\ rows'[job[p].file] = r
              /\ \A g \in DOMAIN rows \ {job[p].file} : rows'[g] = rows[g]
  BY <1>10
<1>11. CASE StoreHashes(p)
  <2>1. /\ pc[p] = "store" /\ catalog' = catalog /\ job' = job
        /\ job[p].file \in DOMAIN rows
    BY <1>1, <1>2, <1>11 DEF StoreHashes, JobOK
  <2>2. rows' = Hashed(p) /\ pc'[p] = IF job[p].task = "scan" THEN "item" ELSE "identify"
    BY <1>1, <1>2, <1>11, GotoAt DEF StoreHashes, AfterHashes
  <2>3. /\ DOMAIN rows' = DOMAIN rows /\ rows'[job[p].file].digest = job[p].digest
        /\ rows'[job[p].file].game = rows[job[p].file].game
        /\ \A g \in DOMAIN rows \ {job[p].file} : rows'[g] = rows[g]
    BY <2>1, <2>2 DEF Hashed, RowOf
  <2>4. CASE job[p].task = "scan"
    <3>1. rows'[job[p].file].game = None
      BY <1>1, <2>1, <2>3, <2>4 DEF Found
    <3>2. Found(p)'
      BY <2>2, <2>4, FoundElse
    <3> QED
      BY <1>3, <1>4, <2>1, <2>3, <3>1, <3>2
  <2>5. CASE job[p].task # "scan"
    <3>1. Found(p)'
      BY <1>1, <2>1, <2>2, <2>3, <2>5 DEF Found, Writing, AfterNaming
    <3> QED
      BY <1>3, <1>4, <2>1, <2>2, <2>3, <2>5, <3>1
  <2> QED
    BY <2>4, <2>5
<1>12. ASSUME rows' = Identified(p), pc[p] \in {"identify", "again"}, catalog' = catalog
       PROVE  /\ DOMAIN rows' = DOMAIN rows
              /\ rows'[job[p].file].digest = rows[job[p].file].digest
              /\ rows'[job[p].file].digest = job[p].digest
              /\ \A f \in DOMAIN rows' : rows'[f].game # None =>
                   rows'[f].digest # None /\ rows'[f].game = catalog'[rows'[f].digest]
  <2>1. /\ job[p].file \in DOMAIN rows /\ job[p].digest \in Digest /\ job[p].task # "scan"
        /\ rows[job[p].file].digest = job[p].digest /\ job[p].hit = catalog[job[p].digest]
    BY <1>1, <1>12 DEF JobOK, Writing, AfterNaming, Found
  <2>2. /\ DOMAIN rows' = DOMAIN rows
        /\ rows'[job[p].file].digest = rows[job[p].file].digest
        /\ rows'[job[p].file].game = job[p].hit
        /\ \A g \in DOMAIN rows \ {job[p].file} : rows'[g] = rows[g]
    BY <1>12, <2>1 DEF Identified, RowOf
  <2>3. job[p].digest # None
    BY <2>1, PathsAssumption
  <2> QED
    BY <1>3, <1>12, <2>1, <2>2, <2>3
<1>13. CASE updateFileCatalogMatch(p)
  <2>1. /\ pc[p] = "identify" /\ catalog' = catalog /\ job' = job /\ rows' = Identified(p)
        /\ pc'[p] = "game"
    BY <1>1, <1>2, <1>13, GotoAt DEF updateFileCatalogMatch, AfterIdentity
  <2>2. Found(p)'
    BY <1>1, <1>12, <2>1 DEF Found, Writing, AfterNaming
  <2> QED
    BY <1>4, <1>12, <2>1, <2>2
<1>14. CASE TitleFromMatch(p)
  <2>1. /\ pc[p] = "title" /\ catalog' = catalog /\ job' = job /\ pc'[p] = "again"
        /\ job[p].file \in DOMAIN rows
    BY <1>1, <1>14, GotoAt DEF TitleFromMatch, JobOK, Writing, AfterNaming
  <2>2. UNCHANGED rows \/ \E i : rows' = Titled(job[p].file, i)
    BY <1>14 DEF TitleFromMatch
  <2>3. ASSUME NEW i, rows' = Titled(job[p].file, i)
        PROVE  /\ DOMAIN rows' = DOMAIN rows
               /\ \A g \in DOMAIN rows : rows'[g].game = rows[g].game /\ rows'[g].digest = rows[g].digest
    BY <2>3 DEF Titled, RowOf
  <2>4. /\ DOMAIN rows' = DOMAIN rows
        /\ \A g \in DOMAIN rows : rows'[g].game = rows[g].game /\ rows'[g].digest = rows[g].digest
    BY <2>2, <2>3
  <2>5. Found(p)'
    BY <1>1, <2>1, <2>4 DEF Found, Writing, AfterNaming
  <2> QED
    BY <1>3, <1>4, <2>1, <2>4, <2>5
<1>15. CASE RestoreIdentity(p)
  <2>1. /\ pc[p] = "again" /\ catalog' = catalog /\ rows' = Identified(p)
        /\ pc'[p] \in {"idle", "next"}
    BY <1>1, <1>2, <1>15, GotoAt DEF RestoreIdentity, Restored
  <2> QED
    BY <1>4, <1>12, <2>1, FoundElse
<1> QED
  BY <1>6, <1>7, <1>8, <1>9, <1>11, <1>13, <1>14, <1>15

LEMMA SettledBefore ==
    ASSUME TypeOK, TypeOK', [Next]_vars, Settled'
    PROVE  Settled /\ \A d \in Digest, i \in Identity : ~Ingest(d, i)
<1>1. Clean /\ ingests' = 0 /\ ingests \in Nat
  BY CleanBefore, BoundsAssumption DEF Settled, TypeOK
<1>2. \A d \in Digest, i \in Identity : ~Ingest(d, i)
  BY <1>1 DEF Ingest
<1>3. ingests' = ingests
  <2>1. ASSUME NEW p \in Proc, Acts(p), ~Crash(p) PROVE ingests' = ingests
    BY <2>1, CountsMove DEF counts, Attempt
  <2> QED
    BY <1>2, <2>1 DEF Next, Acts, Crash, Edit, vars, counts
<1> QED
  BY <1>1, <1>2, <1>3 DEF Settled

(* With one process, no failing statement and no ingest: the entry a row   *)
(* is matched to is the one the catalog has for the hashes the row holds,  *)
(* however its file is edited and however often it is matched again.       *)
THEOREM EntryFollowsHashes ==
    ASSUME \E p : Proc = {p}
    PROVE  Spec => []EntryIsOfHashes
<1>1. Init => EntryInv
  BY DEF Init, EntryInv, EntriesFollow, Found, Writing, AfterNaming
<1>2. IInv /\ EntryInv /\ [Next]_vars => EntryInv'
  <2> SUFFICES ASSUME IInv, EntryInv, [Next]_vars, Settled' PROVE EntriesFollow'
    BY DEF EntryInv
  <2>1. IInv' /\ TypeOK /\ TypeOK'
    BY NextOK DEF IInv
  <2>2. Settled /\ EntriesFollow /\ \A d \in Digest, i \in Identity : ~Ingest(d, i)
    BY <2>1, SettledBefore DEF EntryInv
  <2>3. PICK p : Proc = {p}
    OBVIOUS
  <2>4. CASE UNCHANGED <<rows, catalog, pc, job>>
    BY <2>2, <2>4 DEF EntriesFollow, Found
  <2>5. ~Crash(p)
    BY <2>1, BoundsAssumption DEF Crash, Settled, Clean, TypeOK
  <2>6. CASE Scanning(p) \/ Matching(p) \/ writeLibraryRecord(p)
    BY <2>2, <2>3, <2>6, QuietEntries, WrittenEntries DEF Scanning, Matching, writeLibraryRecord
  <2>7. CASE \E f \in File, d \in Maybe(Digest) : Edit(f, d)
    BY <2>4, <2>7 DEF Edit, db
  <2> QED
    BY <2>2, <2>3, <2>4, <2>5, <2>6, <2>7 DEF Next, vars, db
<1>3. IInv /\ EntryInv => EntryIsOfHashes
  <2> SUFFICES ASSUME IInv, EntryInv, Quiet, faults + crashes + ingests = 0, NEW f \in DOMAIN rows,
                      rows[f].game # None
               PROVE  rows[f].game = catalog[rows[f].digest]
    BY DEF EntryIsOfHashes
  <2>1. Settled
    BY BoundsAssumption DEF IInv, TypeOK, Settled, Clean
  <2> QED
    BY <2>1 DEF EntryInv, EntriesFollow, Quiet
<1> QED
  BY InitOK, NextOK, <1>1, <1>2, <1>3, PTL DEF Spec

-----------------------------------------------------------------------------
(* What a match of the whole library leaves behind                         *)

KnownAtFirst(f) == Content0[f] # None /\ Catalog0[Content0[f]] # None

(* While no file is edited all the hashes of a path are those of what has  *)
(* lain there from the first, and the catalog only learns.                 *)
HashesStand ==
    /\ content = Content0
    /\ \A f \in DOMAIN rows : rows[f].digest \in {None, Content0[f]}
    /\ \A d \in Digest : Catalog0[d] # None => catalog[d] # None

(* The hashes read and the hashes at hand are the file's; the catalog knew *)
(* nothing of those the online service is asked about; and every file a    *)
(* match has dealt with is confirmed, if it could be.                      *)
MatchedSoFar(p) ==
    LET j == job[p]
    IN /\ \A f \in DOMAIN j.snapshot : j.snapshot[f].digest \in {None, Content0[f]}
       /\ pc[p] \in {"lookup", "ask", "insert", "store"} => j.digest = Content0[j.file]
       /\ pc[p] = "ask" => Catalog0[j.digest] = None
       /\ pc[p] = "again" => Confirmed(j.file)
       /\ j.task = "match" =>
            \A f \in DOMAIN j.snapshot \ todo[p] : KnownAtFirst(f) => Confirmed(f)

Untouched == edits = 0 /\ faults = 0

SoFar == HashesStand /\ \A p \in Proc : MatchedSoFar(p)

MatchedInv == Untouched => SoFar

LEMMA UntouchedBefore ==
    ASSUME TypeOK, TypeOK', [Next]_vars
    PROVE  /\ faults' = 0 => faults = 0
           /\ edits' = 0 => edits = 0 /\ \A f \in File, d \in Maybe(Digest) : ~Edit(f, d)
<1>1. /\ faults \in Nat /\ edits \in Nat /\ faults' \in Nat /\ edits' \in Nat
  BY BoundsAssumption DEF TypeOK
<1>2. \A f \in File, d \in Maybe(Digest) : Edit(f, d) => edits' = edits + 1 /\ faults' = faults
  BY DEF Edit
<1>3. ASSUME NEW p \in Proc, Acts(p), ~Crash(p)
      PROVE  edits' = edits /\ (faults' = faults \/ faults' = faults + 1)
  BY <1>3, CountsMove DEF counts, Attempt
<1>4. \A p \in Proc : Crash(p) => UNCHANGED <<edits, faults>>
  BY DEF Crash
<1>5. \A d \in Digest, i \in Identity : Ingest(d, i) => UNCHANGED <<edits, faults>>
  BY DEF Ingest
<1>6. UNCHANGED vars => UNCHANGED <<edits, faults>>
  BY DEF vars, counts
<1> QED
  BY <1>1, <1>2, <1>3, <1>4, <1>5, <1>6 DEF Next, Acts

LEMMA TodoStays ==
    ASSUME TypeOK, NEW p \in Proc, Acts(p)
    PROVE  \A q \in Proc \ {p} : todo'[q] = todo[q]
<1>1. Leave(p) => \E s : todo' = [todo EXCEPT ![p] = s]
  BY DEF Leave
<1>2. UNCHANGED todo \/ \E s : todo' = [todo EXCEPT ![p] = s]
  BY <1>1
  DEF Acts, Scanning, Matching, writeLibraryRecord, scan, ScanItem, HashItem, LinkItem, matchLibrary,
      matchFile, MatchNext, lookupHashes, Ask, InsertForMatch, StoreHashes, updateFileCatalogMatch,
      insertGame, insertMatch, confirmMatch, TitleFromMatch, RestoreIdentity, Crash, db
<1> QED
  BY <1>2 DEF TypeOK

(* Nothing takes a confirmation back.                                      *)
LEMMA ConfirmedStays ==
    ASSUME TypeOK, NEW p \in Proc, Acts(p), NEW f, Confirmed(f)
    PROVE  Confirmed(f)'
<1>1. PICK i \in DOMAIN matches : matches[i].file = f /\ matches[i].confirmed
  BY DEF Confirmed
<1>2. matches \in Seq(Match)
  BY DEF TypeOK
<1>3. \/ UNCHANGED matches
      \/ insertMatch(p)
      \/ confirmMatch(p)
  BY DEF Acts, Scanning, Matching, writeLibraryRecord, scan, ScanItem, HashItem, LinkItem, matchLibrary,
         matchFile, MatchNext, lookupHashes, Ask, InsertForMatch, StoreHashes, updateFileCatalogMatch,
         insertGame, TitleFromMatch, RestoreIdentity, Crash, db
<1>4. CASE UNCHANGED matches
  BY <1>1, <1>4 DEF Confirmed
<1>5. CASE insertMatch(p)
  <2>1. UNCHANGED matches \/ \E m : matches' = Append(matches, m)
    BY <1>5 DEF insertMatch
  <2>2. ASSUME NEW m, matches' = Append(matches, m)
        PROVE  i \in DOMAIN matches' /\ matches'[i] = matches[i]
    BY <1>1, <1>2, <2>2
  <2> QED
    BY <1>1, <1>4, <2>1, <2>2 DEF Confirmed
<1>6. CASE confirmMatch(p)
  <2>1. UNCHANGED matches \/ matches' = ConfirmedAll(job[p].file)
    BY <1>6 DEF confirmMatch
  <2>2. ASSUME matches' = ConfirmedAll(job[p].file)
        PROVE  i \in DOMAIN matches' /\ matches'[i].file = f /\ matches'[i].confirmed
    BY <1>1, <2>2 DEF ConfirmedAll, MatchOf
  <2> QED
    BY <1>1, <1>4, <2>1, <2>2 DEF Confirmed
<1> QED
  BY <1>3, <1>4, <1>5, <1>6

(* The hashes of the rows, and the catalog.                                *)
LEMMA HashesStay ==
    ASSUME IInv, SoFar, NEW p \in Proc, Acts(p)
    PROVE  HashesStand'
<1>1. TypeOK /\ JobOK(p) /\ HashesStand /\ MatchedSoFar(p) /\ rows \in Table
  BY DEF IInv, SoFar, TypeOK
<1>2. content' = content
  BY DEF Acts, Scanning, Matching, writeLibraryRecord, scan, ScanItem, HashItem, LinkItem, matchLibrary,
         matchFile, MatchNext, lookupHashes, Ask, InsertForMatch, StoreHashes, updateFileCatalogMatch,
         insertGame, insertMatch, confirmMatch, TitleFromMatch, RestoreIdentity, Crash
<1>3. \A d \in Digest : Catalog0[d] # None => catalog'[d] # None
  <2>1. UNCHANGED catalog \/ Ask(p)
    BY DEF Acts, Scanning, Matching, writeLibraryRecord, scan, ScanItem, HashItem, LinkItem, matchLibrary,
           matchFile, MatchNext, lookupHashes, InsertForMatch, StoreHashes, updateFileCatalogMatch,
           insertGame, insertMatch, confirmMatch, TitleFromMatch, RestoreIdentity, Crash
  <2>2. Ask(p) => \/ UNCHANGED catalog
                  \/ \E hit : catalog' = [catalog EXCEPT ![job[p].digest] = IF @ = None THEN hit ELSE @]
                              /\ hit # None
    BY DEF Ask
  <2> QED
    BY <1>1, <2>1, <2>2 DEF HashesStand, TypeOK
<1>4. ASSUME NEW f, NEW t, f \notin DOMAIN rows, rows' = InsertedRow(f, t)
      PROVE  \A g \in DOMAIN rows' : rows'[g].digest \in {None, Content0[g]}
  BY <1>1, <1>4 DEF InsertedRow, RowOf, HashesStand
<1>6. CASE UNCHANGED rows
  BY <1>1, <1>2, <1>3, <1>6 DEF HashesStand
<1>7. CASE ScanItem(p) \/ InsertForMatch(p)
  <2>1. UNCHANGED rows \/ \E f, t : f \notin DOMAIN rows /\ rows' = InsertedRow(f, t)
    BY <1>7 DEF ScanItem, InsertForMatch
  <2> QED
    BY <1>1, <1>2, <1>3, <1>4, <1>6, <2>1 DEF HashesStand
<1>8. CASE LinkItem(p) \/ updateFileCatalogMatch(p) \/ TitleFromMatch(p) \/ RestoreIdentity(p)
  <2>1. CASE LinkItem(p)
    <3>1. UNCHANGED rows \/ \E f : rows' = Linked(f)
      BY <2>1 DEF LinkItem
    <3>2. ASSUME NEW f, rows' = Linked(f)
          PROVE  \A h \in DOMAIN rows' : rows'[h].digest \in {None, Content0[h]}
      BY <1>1, <3>2 DEF Linked, RowOf, HashesStand
    <3> QED
      BY <1>1, <1>2, <1>3, <1>6, <3>1, <3>2 DEF HashesStand
  <2>2. CASE updateFileCatalogMatch(p) \/ RestoreIdentity(p)
    <3>1. UNCHANGED rows \/ rows' = Identified(p)
      BY <2>2 DEF updateFileCatalogMatch, RestoreIdentity, Restored
    <3>2. ASSUME rows' = Identified(p)
          PROVE  \A h \in DOMAIN rows' : rows'[h].digest \in {None, Content0[h]}
      BY <1>1, <3>2 DEF Identified, RowOf, HashesStand
    <3> QED
      BY <1>1, <1>2, <1>3, <1>6, <3>1, <3>2 DEF HashesStand
  <2>3. CASE TitleFromMatch(p)
    <3>1. UNCHANGED rows \/ \E i : rows' = Titled(job[p].file, i)
      BY <2>3 DEF TitleFromMatch
    <3>2. ASSUME NEW i, rows' = Titled(job[p].file, i)
          PROVE  \A h \in DOMAIN rows' : rows'[h].digest \in {None, Content0[h]}
      BY <1>1, <3>2 DEF Titled, RowOf, HashesStand
    <3> QED
      BY <1>1, <1>2, <1>3, <1>6, <3>1, <3>2 DEF HashesStand
  <2> QED
    BY <1>8, <2>1, <2>2, <2>3
<1>9. CASE StoreHashes(p)
  <2>1. job[p].digest = Content0[job[p].file]
    BY <1>1, <1>9 DEF StoreHashes, MatchedSoFar
  <2>2. UNCHANGED rows \/ rows' = Hashed(p)
    BY <1>9 DEF StoreHashes
  <2>3. ASSUME rows' = Hashed(p)
        PROVE  \A h \in DOMAIN rows' : rows'[h].digest \in {None, Content0[h]}
    BY <1>1, <2>1, <2>3 DEF Hashed, RowOf, HashesStand
  <2> QED
    BY <1>1, <1>2, <1>3, <1>6, <2>2, <2>3 DEF HashesStand
<1>10. \/ UNCHANGED rows \/ ScanItem(p) \/ InsertForMatch(p) \/ LinkItem(p)
       \/ updateFileCatalogMatch(p) \/ TitleFromMatch(p) \/ RestoreIdentity(p) \/ StoreHashes(p)
  BY DEF Acts, Scanning, Matching, writeLibraryRecord, scan, HashItem, matchLibrary,
         matchFile, MatchNext, lookupHashes, Ask, insertGame, insertMatch, confirmMatch, Crash, db
<1> QED
  BY <1>6, <1>7, <1>8, <1>9, <1>10

LEMMA EmptyDomain == DOMAIN <<>> = {}
OBVIOUS

LEMMA LeaveTodo ==
    ASSUME TypeOK, NEW p \in Proc, Leave(p)
    PROVE  /\ todo'[p] = todo[p] \ {job[p].file}
           /\ pc'[p] \in {"idle", "next"}
           /\ pc'[p] = "idle" => job'[p] = NoJob
           /\ pc'[p] = "idle" /\ job[p].task = "match" => todo'[p] = {}
           /\ pc'[p] = "next" => job'[p] = job[p]
BY DEF TypeOK, Leave, Goto, Set

Runs(p) == Scanning(p) \/ Matching(p) \/ writeLibraryRecord(p)

(* What a command has read, and which it is, stays until its end.          *)
LEMMA CommandStays ==
    ASSUME TypeOK, NEW p \in Proc, Runs(p), pc[p] # "idle"
    PROVE  \/ job'[p] = NoJob
           \/ job'[p].task = job[p].task /\ job'[p].snapshot = job[p].snapshot
<1>1. ASSUME UNCHANGED job PROVE job'[p] = job[p]
  BY <1>1
<1>2. \A s, f, d, h, g : LET j == JobAt(job[p], s, f, d, h, g)
                         IN j.task = job[p].task /\ j.snapshot = job[p].snapshot
  BY DEF JobAt
<1>3. ASSUME NEW s, NEW f, NEW d, NEW h, NEW g, Set(p, JobAt(job[p], s, f, d, h, g))
      PROVE  job'[p].task = job[p].task /\ job'[p].snapshot = job[p].snapshot
  BY <1>2, <1>3, GotoAt
<1>4. ASSUME Set(p, NoJob) PROVE job'[p] = NoJob
  BY <1>4, GotoAt
<1>5. \/ UNCHANGED job \/ Set(p, NoJob)
      \/ \E s, f, d, h, g : Set(p, JobAt(job[p], s, f, d, h, g))
  <2>1. Leave(p) => UNCHANGED job \/ Set(p, NoJob)
    BY DEF Leave
  <2>2. CASE Scanning(p)
    BY <2>2 DEF Scanning, scan, ScanItem, HashItem, LinkItem
  <2>3. CASE Matching(p)
    BY <2>1, <2>3 DEF Matching, matchLibrary, matchFile, MatchNext, lookupHashes, Ask, InsertForMatch
  <2>4. CASE writeLibraryRecord(p)
    BY <2>1, <2>4 DEF writeLibraryRecord, StoreHashes, updateFileCatalogMatch, insertGame, insertMatch,
       confirmMatch, TitleFromMatch, RestoreIdentity
  <2> QED
    BY <2>2, <2>3, <2>4 DEF Runs
<1> QED
  BY <1>1, <1>3, <1>4, <1>5

(* A match lets go of a file that could be confirmed only when it is, and  *)
(* ends when it has let go of all.                                         *)
LEMMA LetsGoOfConfirmed ==
    ASSUME IInv, SoFar, NEW p \in Proc, Runs(p), job[p].task = "match", pc[p] # "idle",
           faults = 0, faults' = 0
    PROVE  /\ \A f \in todo[p] \ todo'[p] : KnownAtFirst(f) => Confirmed(f)
           /\ pc'[p] = "idle" => todo'[p] = {}
<1>1. TypeOK /\ JobOK(p) /\ HashesStand /\ MatchedSoFar(p) /\ job[p] \in Job
  BY DEF IInv, SoFar, TypeOK
<1>2. ASSUME NEW done \in BOOLEAN, Attempt(done) PROVE done
  BY <1>2 DEF Attempt
<1>3. ~Scanning(p) /\ ~matchLibrary(p) /\ ~matchFile(p)
  BY <1>1 DEF Scanning, scan, ScanItem, HashItem, LinkItem, matchLibrary, matchFile, JobOK
<1>4. ASSUME UNCHANGED todo, pc'[p] # "idle"
      PROVE  /\ \A f \in todo[p] \ todo'[p] : KnownAtFirst(f) => Confirmed(f)
             /\ pc'[p] = "idle" => todo'[p] = {}
  BY <1>4
<1>5. ASSUME Leave(p), KnownAtFirst(job[p].file) => Confirmed(job[p].file)
      PROVE  /\ \A f \in todo[p] \ todo'[p] : KnownAtFirst(f) => Confirmed(f)
             /\ pc'[p] = "idle" => todo'[p] = {}
  BY <1>1, <1>5, LeaveTodo
<1>6. ASSUME UNCHANGED todo, NEW step \in Steps, Goto(p, step)
      PROVE  /\ \A f \in todo[p] \ todo'[p] : KnownAtFirst(f) => Confirmed(f)
             /\ pc'[p] = "idle" => todo'[p] = {}
  BY <1>1, <1>4, <1>6, GotoAt DEF Steps
<1>7. CASE MatchNext(p)
  <2>1. PICK f \in todo[p] :
         IF AlreadyMatched(p, f) \/ HashesOf(p, f) = None
         THEN /\ todo' = [todo EXCEPT ![p] = @ \ {f}]
              /\ IF todo[p] = {f} THEN Goto(p, "idle") /\ Set(p, NoJob)
                                  ELSE UNCHANGED <<pc, job>>
         ELSE /\ Set(p, JobAt(job[p], {}, f, HashesOf(p, f), None, 0))
              /\ Goto(p, "lookup")
              /\ UNCHANGED todo
    BY <1>7 DEF MatchNext
  <2>2. CASE AlreadyMatched(p, f) \/ HashesOf(p, f) = None
    <3>1. KnownAtFirst(f) => Confirmed(f)
      BY <1>1, <2>2 DEF AlreadyMatched, HashesOf, HashesStand, KnownAtFirst
    <3>2. todo'[p] = todo[p] \ {f}
      BY <1>1, <2>1, <2>2 DEF TypeOK
    <3> QED
      BY <2>1, <2>2, <3>1, <3>2
  <2>3. CASE ~(AlreadyMatched(p, f) \/ HashesOf(p, f) = None)
    BY <1>6, <2>1, <2>3 DEF Steps
  <2> QED
    BY <2>2, <2>3
<1>8. CASE lookupHashes(p)
  <2>1. pc[p] = "lookup" /\ job[p].digest = Content0[job[p].file] /\ job[p].digest \in Digest
    BY <1>1, <1>8 DEF lookupHashes, MatchedSoFar, JobOK
  <2>2. CASE Leave(p) /\ catalog[job[p].digest] = None
    <3>1. ~KnownAtFirst(job[p].file)
      BY <1>1, <2>1, <2>2 DEF HashesStand, KnownAtFirst
    <3> QED
      BY <1>5, <2>2, <3>1
  <2> QED
    BY <1>6, <1>8, <2>2 DEF lookupHashes, Steps
<1>9. CASE Ask(p)
  <2>1. ~KnownAtFirst(job[p].file)
    BY <1>1, <1>9 DEF Ask, MatchedSoFar, KnownAtFirst
  <2>2. Leave(p) \/ (UNCHANGED todo /\ Goto(p, "store"))
    BY <1>9 DEF Ask
  <2> QED
    BY <1>5, <1>6, <2>1, <2>2 DEF Steps
<1>10. CASE InsertForMatch(p)
  <2>1. UNCHANGED todo /\ Goto(p, "store")
    BY <1>2, <1>10 DEF InsertForMatch
  <2> QED
    BY <1>6, <2>1 DEF Steps
<1>11. CASE StoreHashes(p) \/ updateFileCatalogMatch(p) \/ insertGame(p) \/ insertMatch(p)
  <2>1. UNCHANGED todo /\ \E step \in Steps : Goto(p, step)
    BY <1>2, <1>11 DEF StoreHashes, updateFileCatalogMatch, insertGame, insertMatch, AfterHashes,
       AfterIdentity, Steps
  <2> QED
    BY <1>6, <2>1
<1>12. CASE confirmMatch(p) \/ TitleFromMatch(p)
  <2>1. UNCHANGED todo /\ \E step \in Steps : Goto(p, step)
    BY <1>12 DEF confirmMatch, TitleFromMatch, Steps
  <2> QED
    BY <1>6, <2>1
<1>13. CASE RestoreIdentity(p)
  BY <1>1, <1>5, <1>13 DEF RestoreIdentity, MatchedSoFar
<1> QED
  BY <1>3, <1>7, <1>8, <1>9, <1>10, <1>11, <1>12, <1>13 DEF Runs, Matching, writeLibraryRecord

HashesAtHand(p) ==
    LET j == job[p]
    IN /\ pc[p] \in {"lookup", "ask", "insert", "store"} => j.digest = Content0[j.file]
       /\ pc[p] = "ask" => Catalog0[j.digest] = None

(* The hashes at hand, after a step of the process that has them.          *)
LEMMA HashesAtHandStay ==
    ASSUME IInv, SoFar, NEW p \in Proc, Runs(p)
    PROVE  HashesAtHand(p)'
<1>1. TypeOK /\ JobOK(p) /\ HashesStand /\ MatchedSoFar(p) /\ job[p] \in Job
  BY DEF IInv, SoFar, TypeOK
<1>2. \A step : Goto(p, step) => pc'[p] = step
  BY <1>1, GotoAt
<1>3. ASSUME pc'[p] \notin {"lookup", "ask", "insert", "store"} PROVE HashesAtHand(p)'
  BY <1>3 DEF HashesAtHand
<1>4. ASSUME Leave(p) PROVE HashesAtHand(p)'
  BY <1>1, <1>3, <1>4, LeaveTodo
<1>5. ASSUME NEW f, NEW d, NEW s, NEW h, NEW g, Set(p, JobAt(job[p], s, f, d, h, g))
      PROVE  job'[p].digest = d /\ job'[p].file = f
  BY <1>1, <1>5, GotoAt DEF JobAt
<1>6. ASSUME NEW step \in {"item", "hash", "link", "next", "idle"} \cup Writing, Goto(p, step)
      PROVE  HashesAtHand(p)'
  BY <1>2, <1>3, <1>6 DEF Writing, AfterNaming
<1>7. CASE scan(p) \/ matchLibrary(p) \/ LinkItem(p) \/ updateFileCatalogMatch(p) \/ insertGame(p)
           \/ insertMatch(p) \/ confirmMatch(p) \/ TitleFromMatch(p) \/ RestoreIdentity(p)
  <2>1. pc[p] = "link" \/ Leave(p)
        \/ \E step \in {"item", "hash", "link", "next", "idle"} \cup Writing : Goto(p, step)
    BY <1>7 DEF scan, matchLibrary, LinkItem, updateFileCatalogMatch, insertGame, insertMatch,
       confirmMatch, TitleFromMatch, RestoreIdentity, AfterIdentity, Writing, AfterNaming
  <2>2. ASSUME LinkItem(p) PROVE pc'[p] \in {"link", "idle"}
    BY <1>1, <2>2, GotoAt DEF LinkItem
  <2>3. pc[p] = "link" => LinkItem(p)
    BY <1>7 DEF scan, matchLibrary, updateFileCatalogMatch, insertGame, insertMatch,
       confirmMatch, TitleFromMatch, RestoreIdentity
  <2> QED
    BY <1>3, <1>4, <1>6, <2>1, <2>2, <2>3
<1>8. CASE ScanItem(p)
  <2>1. pc'[p] \in {"item", "hash", "link"}
    BY <1>1, <1>8, GotoAt DEF ScanItem
  <2> QED
    BY <1>3, <2>1
<1>9. CASE HashItem(p)
  <2>1. CASE Goto(p, "item")
    BY <1>6, <2>1
  <2>2. CASE /\ Set(p, JobAt(job[p], job[p].stored, job[p].file, content[job[p].file], None, 0))
             /\ Goto(p, "store")
    BY <1>1, <1>2, <1>5, <2>2 DEF HashesAtHand, HashesStand
  <2> QED
    BY <1>9, <2>1, <2>2 DEF HashItem
<1>10. CASE matchFile(p)
  <2>1. PICK f \in Present : Set(p, JobFor("file", FALSE, <<>>, f, content[f]))
    BY <1>10 DEF matchFile
  <2>2. job'[p].file = f /\ job'[p].digest = content[f] /\ pc'[p] = "lookup"
    BY <1>1, <1>2, <1>10, <2>1, GotoAt DEF matchFile, JobFor
  <2> QED
    BY <1>1, <2>2 DEF HashesAtHand, HashesStand
<1>11. CASE MatchNext(p)
  <2>1. PICK f \in todo[p] :
         IF AlreadyMatched(p, f) \/ HashesOf(p, f) = None
         THEN /\ todo' = [todo EXCEPT ![p] = @ \ {f}]
              /\ IF todo[p] = {f} THEN Goto(p, "idle") /\ Set(p, NoJob)
                                  ELSE UNCHANGED <<pc, job>>
         ELSE /\ Set(p, JobAt(job[p], {}, f, HashesOf(p, f), None, 0))
              /\ Goto(p, "lookup")
              /\ UNCHANGED todo
    BY <1>11 DEF MatchNext
  <2>2. pc[p] = "next" /\ f \in DOMAIN job[p].snapshot
    BY <1>1, <1>11 DEF MatchNext, JobOK
  <2>3. HashesOf(p, f) = Content0[f]
    BY <1>1, <2>2 DEF HashesOf, HashesStand, MatchedSoFar
  <2>4. CASE AlreadyMatched(p, f) \/ HashesOf(p, f) = None
    <3>1. pc'[p] \in {"idle", "next"}
      BY <1>2, <2>1, <2>2, <2>4
    <3> QED
      BY <1>3, <3>1
  <2>5. CASE ~(AlreadyMatched(p, f) \/ HashesOf(p, f) = None)
    BY <1>2, <1>5, <2>1, <2>3, <2>5 DEF HashesAtHand
  <2> QED
    BY <2>4, <2>5
<1>12. CASE lookupHashes(p)
  <2>1. pc[p] = "lookup" /\ job[p].digest = Content0[job[p].file] /\ job[p].digest \in Digest
    BY <1>1, <1>12 DEF lookupHashes, MatchedSoFar, JobOK
  <2>2. CASE /\ Set(p, JobAt(job[p], {}, job[p].file, job[p].digest, catalog[job[p].digest], 0))
             /\ Goto(p, IF job[p].task = "file" THEN "insert" ELSE "store")
    BY <1>2, <1>5, <2>1, <2>2 DEF HashesAtHand
  <2>3. CASE Goto(p, "ask") /\ UNCHANGED job /\ catalog[job[p].digest] = None
    BY <1>1, <1>2, <2>1, <2>3 DEF HashesAtHand, HashesStand
  <2> QED
    BY <1>4, <1>12, <2>2, <2>3 DEF lookupHashes
<1>13. CASE Ask(p)
  <2>1. pc[p] = "ask" /\ job[p].digest = Content0[job[p].file]
    BY <1>1, <1>13 DEF Ask, MatchedSoFar
  <2>2. ASSUME NEW hit, Set(p, JobAt(job[p], {}, job[p].file, job[p].digest, hit, 0)), Goto(p, "store")
        PROVE  HashesAtHand(p)'
    BY <1>2, <1>5, <2>1, <2>2 DEF HashesAtHand
  <2> QED
    BY <1>4, <1>13, <2>2 DEF Ask
<1>14. CASE InsertForMatch(p)
  <2>1. pc[p] = "insert" /\ job[p].digest = Content0[job[p].file]
    BY <1>1, <1>14 DEF InsertForMatch, MatchedSoFar
  <2>2. CASE Goto(p, "store") /\ UNCHANGED job
    BY <1>2, <2>1, <2>2 DEF HashesAtHand
  <2> QED
    BY <1>4, <1>14, <2>2 DEF InsertForMatch
<1>15. CASE StoreHashes(p)
  <2>1. Leave(p) \/ Goto(p, "item") \/ Goto(p, "identify")
    BY <1>15 DEF StoreHashes, AfterHashes
  <2> QED
    BY <1>4, <1>6, <2>1 DEF Writing
<1> QED
  BY <1>7, <1>8, <1>9, <1>10, <1>11, <1>12, <1>13, <1>14, <1>15
  DEF Runs, Scanning, Matching, writeLibraryRecord

LEMMA SoFarStays ==
    ASSUME IInv, SoFar, NEW p \in Proc, Runs(p), faults = 0, faults' = 0
    PROVE  MatchedSoFar(p)'
<1>1. TypeOK /\ JobOK(p) /\ HashesStand /\ MatchedSoFar(p) /\ job[p] \in Job
  BY DEF IInv, SoFar, TypeOK
<1>2. Acts(p)
  BY DEF Runs, Acts
<1>3. \A f : Confirmed(f) => Confirmed(f)'
  BY <1>1, <1>2, ConfirmedStays
<1>4. HashesAtHand(p)'
  BY HashesAtHandStay
<1>5. pc'[p] = "again" => Confirmed(job[p].file)'
  <2>1. ASSUME pc'[p] = "again" PROVE job'[p] = job[p] /\ Confirmed(job[p].file)
    <3>1. ASSUME NEW step, step # "again", Goto(p, step) PROVE FALSE
      BY <1>1, <2>1, <3>1, GotoAt
    <3>2. ~Leave(p)
      BY <1>1, <2>1, LeaveTodo
    <3>3. ~Scanning(p)
      BY <2>1, <3>1 DEF Scanning, scan, ScanItem, HashItem, LinkItem
    <3>4. ~Matching(p)
      BY <2>1, <3>1, <3>2 DEF Matching, matchLibrary, matchFile, MatchNext, lookupHashes, Ask,
         InsertForMatch
    <3>5. ~confirmMatch(p)
      BY <3>1 DEF confirmMatch, Attempt
    <3>6. TitleFromMatch(p)
      BY <3>1, <3>2, <3>3, <3>4, <3>5 DEF Runs, writeLibraryRecord, StoreHashes,
         updateFileCatalogMatch, insertGame, insertMatch, RestoreIdentity, AfterHashes, AfterIdentity
    <3> QED
      BY <1>1, <3>6 DEF TitleFromMatch, JobOK
  <2> QED
    BY <1>3, <2>1
<1>6. NoJob.snapshot = <<>> /\ NoJob.task = "scan"
  BY DEF NoJob, JobFor
<1>7. CASE pc[p] # "idle"
  <2>1. CASE job'[p] = NoJob
    BY <1>4, <1>5, <1>6, <2>1, EmptyDomain DEF MatchedSoFar, HashesAtHand
  <2>2. CASE job'[p].task = job[p].task /\ job'[p].snapshot = job[p].snapshot
    <3>1. ASSUME job[p].task = "match", NEW f \in DOMAIN job[p].snapshot \ todo'[p], KnownAtFirst(f)
          PROVE  Confirmed(f)
      BY <1>1, <1>7, <3>1, LetsGoOfConfirmed DEF MatchedSoFar
    <3>2. \A f \in DOMAIN job[p].snapshot : job[p].snapshot[f].digest \in {None, Content0[f]}
      BY <1>1 DEF MatchedSoFar
    <3> QED
      BY <1>3, <1>4, <1>5, <2>2, <3>1, <3>2 DEF MatchedSoFar, HashesAtHand, KnownAtFirst
  <2> QED
    BY <1>1, <1>7, <2>1, <2>2, CommandStays
<1>8. CASE pc[p] = "idle"
  <2>1. scan(p) \/ matchLibrary(p) \/ matchFile(p)
    BY <1>8 DEF Runs, Scanning, Matching, writeLibraryRecord, ScanItem, HashItem, LinkItem, MatchNext,
       lookupHashes, Ask, InsertForMatch, StoreHashes, updateFileCatalogMatch, insertGame, insertMatch,
       confirmMatch, TitleFromMatch, RestoreIdentity
  <2>2. CASE scan(p) \/ matchFile(p)
    <3>1. PICK task, f, d : task # "match" /\ Set(p, JobFor(task, FALSE, <<>>, f, d))
      BY <2>2 DEF scan, matchFile
    <3>2. job'[p].task # "match" /\ job'[p].snapshot = <<>>
      BY <1>1, <3>1, GotoAt DEF JobFor
    <3> QED
      BY <1>4, <1>5, <3>2, EmptyDomain DEF MatchedSoFar, HashesAtHand
  <2>3. CASE matchLibrary(p)
    <3>1. job'[p].snapshot = rows
      BY <1>1, <2>3, GotoAt DEF matchLibrary, JobFor
    <3>2. todo'[p] = DOMAIN rows
      BY <1>1, <2>3 DEF matchLibrary, TypeOK
    <3> QED
      BY <1>1, <1>4, <1>5, <3>1, <3>2 DEF MatchedSoFar, HashesAtHand, HashesStand
  <2> QED
    BY <2>1, <2>2, <2>3
<1> QED
  BY <1>7, <1>8

LEMMA MatchedNext == IInv /\ MatchedInv /\ [Next]_vars => MatchedInv'
<1> SUFFICES ASSUME IInv, MatchedInv, [Next]_vars, Untouched'
             PROVE  SoFar'
  BY DEF MatchedInv
<1>1. TypeOK /\ TypeOK'
  BY NextOK DEF IInv
<1>2. /\ Untouched /\ SoFar /\ faults = 0 /\ faults' = 0
      /\ \A f \in File, d \in Maybe(Digest) : ~Edit(f, d)
  BY <1>1, UntouchedBefore DEF Untouched, MatchedInv
<1>3. ASSUME NEW p \in Proc, Acts(p)
      PROVE  SoFar'
  <2>1. HashesStand'
    BY <1>2, <1>3, HashesStay
  <2>2. \A f : Confirmed(f) => Confirmed(f)'
    BY <1>1, <1>3, ConfirmedStays
  <2>3. ASSUME NEW q \in Proc \ {p} PROVE MatchedSoFar(q)'
    <3>1. pc'[q] = pc[q] /\ job'[q] = job[q] /\ todo'[q] = todo[q]
      BY <1>1, <1>3, OthersStay, TodoStays
    <3>2. MatchedSoFar(q)
      BY <1>2 DEF SoFar
    <3> QED
      BY <2>2, <3>1, <3>2 DEF MatchedSoFar, KnownAtFirst
  <2>4. CASE Runs(p)
    BY <1>2, <2>1, <2>3, <2>4, SoFarStays DEF SoFar
  <2>5. CASE Crash(p)
    <3>1. pc'[p] = "idle" /\ job'[p] = NoJob
      BY <1>1, <2>5, GotoAt DEF Crash
    <3>2. NoJob.snapshot = <<>> /\ NoJob.task = "scan"
      BY DEF NoJob, JobFor
    <3>3. MatchedSoFar(p)'
      BY <3>1, <3>2, EmptyDomain DEF MatchedSoFar
    <3> QED
      BY <2>1, <2>3, <3>3 DEF SoFar
  <2> QED
    BY <1>3, <2>4, <2>5 DEF Acts, Runs
<1>4. ASSUME NEW d \in Digest, NEW i \in Identity, Ingest(d, i)
      PROVE  SoFar'
  <2>1. UNCHANGED <<content, rows, matches, pc, job, todo>> /\ catalog' = [catalog EXCEPT ![d] = i]
    BY <1>4 DEF Ingest, db
  <2>2. i # None
    BY PathsAssumption
  <2>3. HashesStand'
    BY <1>1, <1>2, <2>1, <2>2 DEF SoFar, HashesStand, TypeOK
  <2>4. \A q \in Proc : MatchedSoFar(q)'
    BY <1>2, <2>1 DEF SoFar, MatchedSoFar, KnownAtFirst, Confirmed
  <2> QED
    BY <2>3, <2>4 DEF SoFar
<1>5. CASE UNCHANGED vars
  <2>1. UNCHANGED <<content, rows, matches, catalog, pc, job, todo>>
    BY <1>5 DEF vars, db
  <2> QED
    BY <1>2, <2>1 DEF SoFar, HashesStand, MatchedSoFar, KnownAtFirst, Confirmed
<1> QED
  BY <1>2, <1>3, <1>4, <1>5 DEF Next, Acts

(* One step of MatchLeavesNone.                                            *)
EndsMatched ==
    \A p \in Proc :
         /\ job[p].task = "match" /\ pc[p] # "idle" /\ pc'[p] = "idle"
         /\ crashes' = crashes /\ faults' = 0 /\ edits = 0
         => \A f \in DOMAIN job[p].snapshot : Known(f) => Confirmed(f)

LEMMA EndsOK == IInv /\ MatchedInv /\ [Next]_vars => EndsMatched
<1> SUFFICES ASSUME IInv, MatchedInv, [Next]_vars, NEW p \in Proc,
                    job[p].task = "match", pc[p] # "idle", pc'[p] = "idle",
                    crashes' = crashes, faults' = 0, edits = 0,
                    NEW f \in DOMAIN job[p].snapshot, Known(f)
             PROVE  Confirmed(f)
  BY DEF EndsMatched
<1>1. TypeOK /\ TypeOK' /\ JobOK(p)
  BY NextOK DEF IInv
<1>2. faults = 0 /\ SoFar /\ HashesStand /\ MatchedSoFar(p)
  BY <1>1, UntouchedBefore DEF Untouched, MatchedInv, SoFar
<1>3. KnownAtFirst(f)
  <2>1. f \in DOMAIN rows
    BY <1>1 DEF JobOK
  <2> QED
    BY <1>2, <2>1 DEF Known, KnownAtFirst, HashesStand
<1>4. Runs(p)
  <2>1. pc' # pc
    OBVIOUS
  <2>2. PICK q \in Proc : Acts(q)
    BY <2>1 DEF Next, Acts, Edit, Ingest, vars
  <2>3. q = p
    BY <1>1, <2>2, OthersStay
  <2>4. ~Crash(p)
    BY <1>1, BoundsAssumption DEF Crash, TypeOK
  <2> QED
    BY <2>2, <2>3, <2>4 DEF Acts, Runs
<1>5. todo'[p] = {} /\ (f \in todo[p] => Confirmed(f))
  BY <1>2, <1>3, <1>4, LetsGoOfConfirmed DEF IInv
<1> QED
  BY <1>2, <1>3, <1>5 DEF MatchedSoFar

(* For any number of processes and files, with ingests and crashes of      *)
(* others at any point: a match of the whole library that runs to its end, *)
(* no statement failing and no file edited, leaves no file unconfirmed     *)
(* whose hashes the catalog knew at first, whatever state an earlier       *)
(* command that died has left its row in.                                  *)
THEOREM MatchingLeavesNone == Spec => MatchLeavesNone
<1>1. Init => MatchedInv
  <2> SUFFICES ASSUME Init PROVE SoFar
    BY DEF MatchedInv
  <2>1. HashesStand
    BY EmptyDomain DEF Init, HashesStand
  <2>2. NoJob.snapshot = <<>> /\ NoJob.task = "scan"
    BY DEF NoJob, JobFor
  <2>3. \A p \in Proc : MatchedSoFar(p)
    BY <2>2, EmptyDomain DEF Init, MatchedSoFar
  <2> QED
    BY <2>1, <2>3 DEF SoFar
<1>2. IInv /\ MatchedInv /\ [Next]_vars => [EndsMatched]_vars
  BY EndsOK
<1> QED
  BY InitOK, NextOK, MatchedNext, <1>1, <1>2, PTL DEF Spec, MatchLeavesNone, EndsMatched
=============================================================================
