---------------------------- MODULE LibraryMatch ----------------------------
(***************************************************************************)
(* Scanning a folder into the library and matching its rows against the    *)
(* catalog: core/library_scan.cpp, catalog/catalog_match.cpp and the       *)
(* statements of core/database_files.cpp and core/database_games.cpp they  *)
(* run.                                                                    *)
(*                                                                         *)
(* State: what lies at each path, the tables files, games, matches and     *)
(* cache of the library, the signatures of the catalog, and for every      *)
(* process (a CLI command, the GUI's worker, the GUI's own thread) where   *)
(* it is in scanLibrary(), matchLibrary() or matchFile().  No command runs *)
(* in a transaction: another process, or a crash, can come between any two *)
(* statements.                                                             *)
(*                                                                         *)
(* A row of files is known by the path it was scanned at.  A digest stands *)
(* for all the hashes of one content, an identity for the game id and the  *)
(* title of one catalog entry.                                             *)
(***************************************************************************)
EXTENDS Naturals, Sequences, FiniteSets

CONSTANTS
    Proc,        \* processes that have the library open
    File,        \* paths that may hold a ROM
    Parent,      \* the image a sheet (.cue, .ccd, .mds) belongs to
    Unfinished,  \* files whose extended hashes stay empty
    Digest,      \* hashes of what a file may contain
    Identity,    \* catalog entries
    None,        \* no file, SQL NULL, no match
    Content0,    \* what lies at each path at first
    Catalog0,    \* the entry the signatures of a digest lead to at first
    Online,      \* what the online service knows of a digest
    MaxGames,    \* games rows after which no match is started
    MaxEdits,    \* bound on changes of files by other programs
    MaxIngests,  \* bound on changes of the catalog
    MaxFaults,   \* bound on statements that fail
    MaxCrashes   \* bound on crashes

ASSUME PathsAssumption ==
    /\ Parent \in [File -> File \cup {None}]
    /\ Unfinished \subseteq File
    /\ None \notin File \cup Digest \cup Identity

ASSUME CatalogAssumption ==
    /\ Content0 \in [File -> Digest \cup {None}]
    /\ Catalog0 \in [Digest -> Identity \cup {None}]
    /\ Online \in [Digest -> Identity \cup {None}]

ASSUME BoundsAssumption ==
    {MaxGames, MaxEdits, MaxIngests, MaxFaults, MaxCrashes} \subseteq Nat

VARIABLES
    content,  \* what lies at each path
    rows,     \* the files table
    games,    \* the games table, by id
    matches,  \* the matches table, by id
    misses,   \* the digests remembered in the cache table
    catalog,  \* the entry the signatures of a digest lead to
    pc,       \* the next step of each process
    job,      \* the locals of each process
    todo,     \* the files it has still to handle
    edits, ingests, faults, crashes  \* how often so far

db == <<rows, games, matches, misses>>
counts == <<edits, ingests, faults, crashes>>
vars == <<content, rows, games, matches, misses, catalog, pc, job, todo, counts>>

-----------------------------------------------------------------------------
Maybe(S) == S \cup {None}

Row == [digest : Maybe(Digest), title : Maybe(Identity),
        game : Maybe(Identity), parent : Maybe(File)]

RowOf(digest, title, game, parent) ==
    [digest |-> digest, title |-> title, game |-> game, parent |-> parent]

Game == [title : Identity, region : {None}]

Match == [file : File, game : Nat \ {0}, confirmed : BOOLEAN]

MatchOf(f, game, confirmed) == [file |-> f, game |-> game, confirmed |-> confirmed]

Table == UNION {[S -> Row] : S \in SUBSET File}

(* The locals: the command, whether it may go online, the rows it has read *)
(* at its start, the files it has stored, and the file it is at with its   *)
(* digest, the entry found for it and the row of games made for that.      *)
Job == [task : {"scan", "match", "file"}, online : BOOLEAN, snapshot : Table,
        stored : SUBSET File, file : Maybe(File), digest : Maybe(Digest),
        hit : Maybe(Identity), game : Nat]

JobFor(task, online, snapshot, f, d) ==
    [task |-> task, online |-> online, snapshot |-> snapshot, stored |-> {},
     file |-> f, digest |-> d, hit |-> None, game |-> 0]

(* The same command, at a file.                                            *)
JobAt(j, stored, f, d, hit, game) ==
    [task |-> j.task, online |-> j.online, snapshot |-> j.snapshot, stored |-> stored,
     file |-> f, digest |-> d, hit |-> hit, game |-> game]

NoJob == JobFor("scan", FALSE, <<>>, None, None)

Steps == {"item", "hash", "store", "link", "next", "lookup", "ask", "insert",
          "identify", "game", "match", "confirm", "title", "again"}

Init ==
    /\ content = Content0
    /\ rows = <<>>
    /\ games = <<>>
    /\ matches = <<>>
    /\ misses = {}
    /\ catalog = Catalog0
    /\ pc = [p \in Proc |-> "idle"]
    /\ job = [p \in Proc |-> NoJob]
    /\ todo = [p \in Proc |-> {}]
    /\ edits = 0 /\ ingests = 0 /\ faults = 0 /\ crashes = 0

-----------------------------------------------------------------------------
Goto(p, step) == pc' = [pc EXCEPT ![p] = step]

Set(p, r) == job' = [job EXCEPT ![p] = r]

Present == {f \in File : content[f] # None}

(* A statement fails (a locked or full database) or goes through.          *)
Attempt(done) ==
    /\ UNCHANGED <<edits, ingests, crashes>>
    /\ \/ done /\ UNCHANGED faults
       \/ ~done /\ faults < MaxFaults /\ faults' = faults + 1

InsertedRow(f, title) ==
    [g \in DOMAIN rows \cup {f} |->
        IF g = f THEN RowOf(None, title, None, None) ELSE rows[g]]

Confirmed(f) == \E i \in DOMAIN matches : matches[i].file = f /\ matches[i].confirmed

(* The command is done with a file: the next one, or its end.              *)
Leave(p) ==
    /\ todo' = [todo EXCEPT ![p] = @ \ {job[p].file}]
    /\ IF todo[p] \ {job[p].file} = {} \/ job[p].task = "file"
       THEN Goto(p, "idle") /\ Set(p, NoJob)
       ELSE Goto(p, "next") /\ UNCHANGED job

-----------------------------------------------------------------------------
(* scanLibrary                                                             *)

scan(p) ==
    /\ pc[p] = "idle"
    /\ Present # {}
    /\ Set(p, JobFor("scan", FALSE, <<>>, None, None))
    /\ todo' = [todo EXCEPT ![p] = Present]
    /\ Goto(p, "item")
    /\ UNCHANGED <<content, db, catalog, counts>>

(* The sheets whose image the same scan has stored.                        *)
Linkable(p) == {f \in job[p].stored : Parent[f] \in job[p].stored}

(* insertFile; nothing more is done for a row that was there already.      *)
ScanItem(p) ==
    /\ pc[p] = "item"
    /\ IF todo[p] = {}
       THEN /\ todo' = [todo EXCEPT ![p] = Linkable(p)]
            /\ Goto(p, "link")
            /\ UNCHANGED <<rows, job, counts>>
       ELSE \E f \in todo[p], done \in BOOLEAN :
            /\ Attempt(done)
            /\ todo' = [todo EXCEPT ![p] = @ \ {f}]
            /\ IF done /\ f \notin DOMAIN rows
               THEN /\ rows' = InsertedRow(f, None)
                    /\ Set(p, JobAt(job[p], job[p].stored \cup {f}, f, None, None, 0))
                    /\ Goto(p, "hash")
               ELSE UNCHANGED <<rows, job, pc>>
    /\ UNCHANGED <<content, games, matches, misses, catalog>>

(* calculateContentHashes; the file may be gone by now.                    *)
HashItem(p) ==
    /\ pc[p] = "hash"
    /\ IF job[p].file \in Present
       THEN /\ Set(p, JobAt(job[p], job[p].stored, job[p].file, content[job[p].file], None, 0))
            /\ Goto(p, "store")
       ELSE UNCHANGED job /\ Goto(p, "item")
    /\ UNCHANGED <<content, db, catalog, todo, counts>>

Linked(f) ==
    [rows EXCEPT ![f] = RowOf(@.digest, @.title, @.game, Parent[f])]

(* updateFileParent, for each sheet.                                       *)
LinkItem(p) ==
    /\ pc[p] = "link"
    /\ IF todo[p] = {}
       THEN Goto(p, "idle") /\ Set(p, NoJob) /\ UNCHANGED <<rows, todo, counts>>
       ELSE \E f \in todo[p], done \in BOOLEAN :
            /\ Attempt(done)
            /\ todo' = [todo EXCEPT ![p] = @ \ {f}]
            /\ rows' = IF done THEN Linked(f) ELSE rows
            /\ UNCHANGED <<pc, job>>
    /\ UNCHANGED <<content, games, matches, misses, catalog>>

-----------------------------------------------------------------------------
(* matchLibrary and matchFile                                              *)

matchLibrary(p) ==
    /\ pc[p] = "idle"
    /\ DOMAIN rows # {}
    /\ Len(games) < MaxGames
    /\ \E online \in BOOLEAN : Set(p, JobFor("match", online, rows, None, None))
    /\ todo' = [todo EXCEPT ![p] = DOMAIN rows]
    /\ Goto(p, "next")
    /\ UNCHANGED <<content, db, catalog, counts>>

matchFile(p) ==
    /\ pc[p] = "idle"
    /\ Len(games) < MaxGames
    /\ \E f \in Present : Set(p, JobFor("file", FALSE, <<>>, f, content[f]))
    /\ Goto(p, "lookup")
    /\ UNCHANGED <<content, db, catalog, todo, counts>>

(* Mutant: a row with a game id counts as matched.                         *)
AlreadyMatchedByGame(p, f) == job[p].snapshot[f].game # None

(* The match is read now, the row was read at the start.                   *)
AlreadyMatched(p, f) == Confirmed(f) /\ job[p].snapshot[f].game # None

(* The stored hashes, or those of the file when some are missing.          *)
HashesOf(p, f) ==
    IF job[p].snapshot[f].digest # None /\ f \notin Unfinished
    THEN job[p].snapshot[f].digest ELSE content[f]

MatchNext(p) ==
    /\ pc[p] = "next"
    /\ \E f \in todo[p] :
         IF AlreadyMatched(p, f) \/ HashesOf(p, f) = None
         THEN /\ todo' = [todo EXCEPT ![p] = @ \ {f}]
              /\ IF todo[p] = {f} THEN Goto(p, "idle") /\ Set(p, NoJob)
                                  ELSE UNCHANGED <<pc, job>>
         ELSE /\ Set(p, JobAt(job[p], {}, f, HashesOf(p, f), None, 0))
              /\ Goto(p, "lookup")
              /\ UNCHANGED todo
    /\ UNCHANGED <<content, db, catalog, counts>>

(* lookupHashes, and what follows a miss.                                  *)
lookupHashes(p) ==
    /\ pc[p] = "lookup"
    /\ LET d == job[p].digest
       IN IF catalog[d] # None
          THEN /\ Set(p, JobAt(job[p], {}, job[p].file, d, catalog[d], 0))
               /\ Goto(p, IF job[p].task = "file" THEN "insert" ELSE "store")
               /\ UNCHANGED todo
          ELSE IF job[p].online /\ d \notin misses
               THEN Goto(p, "ask") /\ UNCHANGED <<job, todo>>
               ELSE Leave(p)
    /\ UNCHANGED <<content, db, catalog, counts>>

(* The online lookup: an error of the network looks like an unknown ROM.   *)
(* upsertOnlineHit, or rememberMiss, whose result is not looked at.        *)
Ask(p) ==
    /\ pc[p] = "ask"
    /\ \E hit \in {Online[job[p].digest], None}, done \in BOOLEAN :
         /\ Attempt(done)
         /\ IF hit # None /\ done
            THEN /\ catalog' = [catalog EXCEPT ![job[p].digest] = IF @ = None THEN hit ELSE @]
                 /\ Set(p, JobAt(job[p], {}, job[p].file, job[p].digest, hit, 0))
                 /\ Goto(p, "store")
                 /\ UNCHANGED <<misses, todo>>
            ELSE /\ Leave(p)
                 /\ misses' = IF hit = None /\ done THEN misses \cup {job[p].digest} ELSE misses
                 /\ UNCHANGED catalog
    /\ UNCHANGED <<content, rows, games, matches>>

(* writeLibraryRecord for a file that may have no row yet.                 *)
InsertForMatch(p) ==
    /\ pc[p] = "insert"
    /\ \E done \in BOOLEAN :
         /\ Attempt(done)
         /\ rows' = IF done /\ job[p].file \notin DOMAIN rows
                    THEN InsertedRow(job[p].file, job[p].hit) ELSE rows
         /\ IF done \/ job[p].file \in DOMAIN rows
            THEN Goto(p, "store") /\ UNCHANGED <<job, todo>>
            ELSE Leave(p)
    /\ UNCHANGED <<content, games, matches, misses, catalog>>

(* Mutant: the identity is written after the match is confirmed only.      *)
AfterHashesUnidentified(p) == "game"

AfterHashes(p) == "identify"

(* Mutant: the hashes of a row that has some are kept.                     *)
HashedKeepingOld(p) ==
    IF rows[job[p].file].digest # None THEN rows
    ELSE [rows EXCEPT ![job[p].file] = RowOf(job[p].digest, @.title, @.game, @.parent)]

Hashed(p) ==
    [rows EXCEPT ![job[p].file] = RowOf(job[p].digest, @.title, @.game, @.parent)]

(* updateFileHashes                                                        *)
StoreHashes(p) ==
    /\ pc[p] = "store"
    /\ \E done \in BOOLEAN :
         /\ Attempt(done)
         /\ rows' = IF done THEN Hashed(p) ELSE rows
         /\ IF job[p].task = "scan"
            THEN Goto(p, "item") /\ UNCHANGED <<job, todo>>
            ELSE IF done THEN Goto(p, AfterHashes(p)) /\ UNCHANGED <<job, todo>>
                         ELSE Leave(p)
    /\ UNCHANGED <<content, games, matches, misses, catalog>>

(* updateFileCatalogMatch writes title and game id in one statement.       *)
Identified(p) ==
    [rows EXCEPT ![job[p].file] = RowOf(@.digest, job[p].hit, job[p].hit, @.parent)]

(* Mutant: the match is inserted before its game.                          *)
AfterIdentityUngamed(p) == "match"

AfterIdentity(p) == "game"

updateFileCatalogMatch(p) ==
    /\ pc[p] = "identify"
    /\ \E done \in BOOLEAN :
         /\ Attempt(done)
         /\ rows' = IF done THEN Identified(p) ELSE rows
         /\ IF done THEN Goto(p, AfterIdentity(p)) /\ UNCHANGED <<job, todo>> ELSE Leave(p)
    /\ UNCHANGED <<content, games, matches, misses, catalog>>

(* No value equals NULL in SQL.                                            *)
SqlEqual(a, b) == a # None /\ b # None /\ a = b

SameGame(title, region) ==
    {i \in DOMAIN games : SqlEqual(games[i].title, title) /\ SqlEqual(games[i].region, region)}

(* writeLibraryRecord passes no region: NULL.                              *)
insertGame(p) ==
    /\ pc[p] = "game"
    /\ \E done \in BOOLEAN :
         /\ Attempt(done)
         /\ LET same == SameGame(job[p].hit, None)
            IN /\ games' = IF done /\ same = {}
                           THEN Append(games, [title |-> job[p].hit, region |-> None])
                           ELSE games
               /\ IF done
                  THEN /\ \E i \in (IF same = {} THEN {Len(games) + 1} ELSE same) :
                            Set(p, JobAt(job[p], {}, job[p].file, job[p].digest, job[p].hit, i))
                       /\ Goto(p, "match")
                       /\ UNCHANGED todo
                  ELSE Leave(p)
    /\ UNCHANGED <<content, rows, matches, misses, catalog>>

(* insertMatch: a match of the same file and game is only dated anew.      *)
insertMatch(p) ==
    /\ pc[p] = "match"
    /\ \E done \in BOOLEAN :
         /\ Attempt(done)
         /\ matches' =
              IF done /\ ~\E i \in DOMAIN matches :
                          matches[i].file = job[p].file /\ matches[i].game = job[p].game
              THEN Append(matches, MatchOf(job[p].file, job[p].game, FALSE))
              ELSE matches
         /\ IF done THEN Goto(p, "confirm") /\ UNCHANGED <<job, todo>> ELSE Leave(p)
    /\ UNCHANGED <<content, rows, games, misses, catalog>>

ConfirmedAll(f) ==
    [i \in DOMAIN matches |->
        IF matches[i].file = f THEN MatchOf(f, matches[i].game, TRUE) ELSE matches[i]]

(* confirmMatch, first statement: every match of the file is confirmed.    *)
(* Its failure is not looked at.                                           *)
confirmMatch(p) ==
    /\ pc[p] = "confirm"
    /\ \E done \in BOOLEAN :
         /\ Attempt(done)
         /\ matches' = IF done THEN ConfirmedAll(job[p].file) ELSE matches
         /\ Goto(p, IF done THEN "title" ELSE "again")
    /\ UNCHANGED <<content, rows, games, misses, catalog, job, todo>>

ConfirmedMatches(f) == {i \in DOMAIN matches : matches[i].file = f /\ matches[i].confirmed}

Titled(f, i) ==
    [rows EXCEPT ![f] = RowOf(@.digest, games[matches[i].game].title, @.game, @.parent)]

(* confirmMatch, second statement: base_title from LIMIT 1 of the matches, *)
(* in no order.                                                            *)
TitleFromMatch(p) ==
    /\ pc[p] = "title"
    /\ \E i \in ConfirmedMatches(job[p].file), done \in BOOLEAN :
         /\ Attempt(done)
         /\ rows' = IF done THEN Titled(job[p].file, i) ELSE rows
    /\ Goto(p, "again")
    /\ UNCHANGED <<content, games, matches, misses, catalog, job, todo>>

(* Mutant: what confirming wrote is kept.                                  *)
RestoredNot(p) == rows

Restored(p) == Identified(p)

(* The title the match has just overwritten is written again.              *)
RestoreIdentity(p) ==
    /\ pc[p] = "again"
    /\ \E done \in BOOLEAN :
         /\ Attempt(done)
         /\ rows' = IF done THEN Restored(p) ELSE rows
    /\ Leave(p)
    /\ UNCHANGED <<content, games, matches, misses, catalog>>

-----------------------------------------------------------------------------
(* The environment                                                         *)

Crash(p) ==
    /\ pc[p] # "idle"
    /\ crashes < MaxCrashes
    /\ crashes' = crashes + 1
    /\ Goto(p, "idle")
    /\ Set(p, NoJob)
    /\ todo' = [todo EXCEPT ![p] = {}]
    /\ UNCHANGED <<content, db, catalog, edits, ingests, faults>>

(* Another program replaces, adds or removes a file.                       *)
Edit(f, d) ==
    /\ edits < MaxEdits
    /\ d # content[f]
    /\ edits' = edits + 1
    /\ content' = [content EXCEPT ![f] = d]
    /\ UNCHANGED <<db, catalog, pc, job, todo, ingests, faults, crashes>>

(* The catalog is ingested into: a digest leads to an entry, or another.   *)
Ingest(d, i) ==
    /\ ingests < MaxIngests
    /\ catalog[d] # i
    /\ ingests' = ingests + 1
    /\ catalog' = [catalog EXCEPT ![d] = i]
    /\ UNCHANGED <<content, db, pc, job, todo, edits, faults, crashes>>

Scanning(p) == scan(p) \/ ScanItem(p) \/ HashItem(p) \/ LinkItem(p)

Matching(p) ==
    \/ matchLibrary(p) \/ matchFile(p)
    \/ MatchNext(p) \/ lookupHashes(p) \/ Ask(p) \/ InsertForMatch(p)

writeLibraryRecord(p) ==
    \/ StoreHashes(p) \/ updateFileCatalogMatch(p) \/ insertGame(p)
    \/ insertMatch(p) \/ confirmMatch(p) \/ TitleFromMatch(p) \/ RestoreIdentity(p)

Next ==
    \/ \E p \in Proc : Scanning(p) \/ Matching(p) \/ writeLibraryRecord(p) \/ Crash(p)
    \/ \E f \in File, d \in Maybe(Digest) : Edit(f, d)
    \/ \E d \in Digest, i \in Identity : Ingest(d, i)

Spec == Init /\ [][Next]_vars
-----------------------------------------------------------------------------
TypeOK ==
    /\ content \in [File -> Maybe(Digest)]
    /\ rows \in Table
    /\ games \in Seq(Game)
    /\ matches \in Seq(Match)
    /\ misses \subseteq Digest
    /\ catalog \in [Digest -> Maybe(Identity)]
    /\ pc \in [Proc -> Steps \cup {"idle"}]
    /\ job \in [Proc -> Job]
    /\ todo \in [Proc -> SUBSET File]
    /\ edits \in 0 .. MaxEdits
    /\ ingests \in 0 .. MaxIngests
    /\ faults \in 0 .. MaxFaults
    /\ crashes \in 0 .. MaxCrashes

Quiet == \A p \in Proc : pc[p] = "idle"

Named(f) == f \in DOMAIN rows /\ rows[f].game # None /\ rows[f].title # None

(* "Organize matched titles only" (implementation-plan.md): whatever the   *)
(* commands interleave to and wherever one dies, a file that counts as     *)
(* matched, and so will be moved, has a title and a catalog entry.         *)
ConfirmedIsNamed ==
    \A f \in File : Confirmed(f) => Named(f)

(* Between commands the title a file will be organized under is that of    *)
(* the catalog entry it was matched to, although confirming writes the     *)
(* title of any of its matches first.                                      *)
TitleIsOfEntry ==
    Quiet /\ faults + crashes = 0 =>
        \A f \in DOMAIN rows : rows[f].game # None => rows[f].title = rows[f].game

(* With one process, the entry of a row is the one of the hashes it holds. *)
EntryIsOfHashes ==
    Quiet /\ faults + crashes + ingests = 0 =>
        \A f \in DOMAIN rows :
            rows[f].game # None => rows[f].game = catalog[rows[f].digest]

(* A match of the whole library that runs to its end leaves no file        *)
(* unmatched whose hashes the catalog knows, whatever an earlier command   *)
(* left half done when it died or what others do meanwhile.                *)
Known(f) ==
    LET d == IF rows[f].digest # None THEN rows[f].digest ELSE content[f]
    IN d # None /\ Catalog0[d] # None

MatchLeavesNone ==
    [][\A p \in Proc :
         /\ job[p].task = "match" /\ pc[p] # "idle" /\ pc'[p] = "idle"
         /\ crashes' = crashes /\ faults' = 0 /\ edits = 0
         => \A f \in DOMAIN job[p].snapshot : Known(f) => Confirmed(f)]_vars
=============================================================================
