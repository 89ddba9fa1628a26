---------------------------- MODULE LibrarySchema ----------------------------
(***************************************************************************)
(* Database::initialize: core/database.cpp, core/database_schema.cpp,      *)
(* core/database_migrations.cpp, core/database_migrations_systems.cpp.     *)
(*                                                                         *)
(* createSchema and populateDefaultSystems run statement by statement, the *)
(* migrations in one transaction; the process can die between any two      *)
(* statements, and any statement can fail.  `disk` is what is committed,   *)
(* `work` what the connection sees.  Foreign keys are on: a row of systems *)
(* that is referenced cannot be deleted or renumbered.                     *)
(***************************************************************************)
EXTENDS Naturals, Sequences, FiniteSets

CONSTANTS
    SystemName,   \* the canonical systems
    CanonicalId,  \* their ids in the registry
    Ref,          \* rows of files and games that reference a system
    FileRef,      \* those of files
    Detected,     \* what detectSystem says of a file: a system or "none"
    LegacyDisks,  \* libraries that earlier versions left
    MaxOpens      \* calls of initialize

Offset == 10 \* LEGACY_SYSTEM_SLOT_OFFSET, above every canonical id

(* A name in systems: a canonical name, or one with "__legacy_slot_<id>"   *)
(* or "__legacy_<id>" behind it.                                           *)
Plain(n) == <<n, <<>>>>
Legacy(name, kind, id) == <<name[1], Append(name[2], <<kind, id>>)>>

(* The tables in the order in which createSchema creates them.             *)
MatchesFirst == \* mutant: matches does not come last
    <<"systems", "libraries", "files", "matches", "applied_patches", "cache", "undo_queue", "games">>
TableOrder == <<"systems", "libraries", "files", "applied_patches", "cache", "undo_queue", "games", "matches">>
AllTables == {TableOrder[i] : i \in 1..Len(TableOrder)}

(* Columns that came with time: those of files that a migration adds, its  *)
(* disc set columns, whose absence makes it rebuild the disc sets, those   *)
(* that only createSchema brings (catalog_game_id, has_local_artwork), and *)
(* the score of matches.                                                   *)
AllColumns == {"files.status", "files.disc", "files.catalog", "matches.score"}
Migrated == AllColumns \ {"files.catalog"}
TableOf(c) == IF c = "matches.score" THEN "matches" ELSE "files"

(* What the keys and types of a database file promise.                     *)
DiskOK(db) ==
    /\ db.tables \subseteq AllTables /\ db.columns \subseteq AllColumns
    /\ \A s \in db.systems : s.id \in Nat \ {0} /\ s.name[1] \in SystemName \cup {"other"}
    /\ \A s, t \in db.systems : (s.id = t.id \/ s.name = t.name) => s = t
    /\ db.refs \in [Ref -> Nat]

(* Earlier versions created systems first and matches last, too; what they *)
(* did not have is applied_patches.                                        *)
ASSUME SchemaAssumption ==
    /\ IsFiniteSet(SystemName) /\ MaxOpens \in Nat
    /\ CanonicalId \in [SystemName -> 1..(Offset - 1)]
    /\ \A m, n \in SystemName : CanonicalId[m] = CanonicalId[n] => m = n
    /\ FileRef \subseteq Ref
    /\ Detected \in [FileRef -> SystemName \cup {"none"}]
    /\ \A d \in LegacyDisks :
        /\ d = [tables |-> d.tables, columns |-> d.columns, systems |-> d.systems, refs |-> d.refs] /\ DiskOK(d)
        /\ \A s \in d.systems : s = [id |-> s.id, name |-> s.name]
        /\ "systems" \notin d.tables => d.systems = {}
        /\ "matches" \in d.tables => AllTables \ {"applied_patches"} \subseteq d.tables

VARIABLES
    initial, \* the library as the first call found it
    disk,  \* tables, columns, rows of systems, system of each row that has one
    work,  \* the same as the open transaction sees it
    step,  \* where initialize is
    todo,  \* tables to create, or systems to migrate
    opens

schemaVars == <<initial, disk, work, step, todo, opens>>

Empty == [tables |-> {}, columns |-> {}, systems |-> {}, refs |-> [r \in Ref |-> 0]]

SchemaInit ==
    /\ disk \in {Empty} \cup LegacyDisks /\ work = disk /\ initial = disk
    /\ step = "closed" /\ todo = <<>> /\ opens = 0

Order == CHOOSE s \in [1..Cardinality(SystemName) -> SystemName] : {s[i] : i \in DOMAIN s} = SystemName
ById(db, i) == {s \in db.systems : s.id = i}
ByName(db, name) == {s \in db.systems : s.name = name}
Referenced(db, i) == \E r \in Ref : db.refs[r] = i

(* initialize asks for the table systems only.                             *)
Open ==
    /\ step = "closed" /\ opens < MaxOpens /\ opens' = opens + 1
    /\ work' = disk /\ UNCHANGED <<disk, initial>>
    /\ IF "systems" \in disk.tables
       THEN step' = "begin" /\ todo' = <<>>
       ELSE step' = "create" /\ todo' = TableOrder

(* One CREATE TABLE IF NOT EXISTS.  After that of files the columns are    *)
(* added one by one, and a failure is only logged; matches has no score.   *)
AddedBySchema(db, altered) ==
    IF "files" \in db.tables THEN altered ELSE altered \cup {"files.disc", "files.catalog"}

CreateTable ==
    /\ step = "create" /\ todo # <<>>
    /\ \E altered \in SUBSET {"files.status", "files.catalog"} :
          work' = [work EXCEPT !.tables = @ \cup {Head(todo)},
                               !.columns = IF Head(todo) = "files" THEN @ \cup AddedBySchema(work, altered) ELSE @]
    /\ disk' = work' /\ todo' = Tail(todo)
    /\ UNCHANGED <<initial, step, opens>>

(* INSERT ... ON CONFLICT(name): an id that another name holds is an error.*)
CanInsert(db, n) == ById(db, CanonicalId[n]) \ ByName(db, Plain(n)) = {}
insertSystem(db, n) ==
    IF ByName(db, Plain(n)) # {} THEN db
    ELSE [db EXCEPT !.systems = @ \cup {[id |-> CanonicalId[n], name |-> Plain(n)]}]

(* Statement by statement; failures are skipped, and only all of them fail.*)
populateDefaultSystems ==
    /\ step = "create" /\ todo = <<>>
    /\ \E S \in SUBSET SystemName :
          /\ work' = [work EXCEPT !.systems = @ \cup {[id |-> CanonicalId[n], name |-> Plain(n)] : n \in S}]
          /\ step' = IF S = {} THEN "closed" ELSE "begin"
    /\ disk' = work'
    /\ UNCHANGED <<initial, todo, opens>>

(* runMigrations: the columns of files, one ALTER TABLE each; ALTER fails  *)
(* when there is no such table, and loadTableColumns sees no difference    *)
(* between that and a table without columns.                               *)
AddColumns(db, table) ==
    [db EXCEPT !.columns = @ \cup {c \in Migrated : TableOf(c) = table}]
CanAdd(db, table) == table \in db.tables

migrateFiles ==
    /\ step = "begin" /\ CanAdd(work, "files")
    /\ work' = [AddColumns(work, "files") EXCEPT !.tables = @ \cup {"applied_patches"}]
    /\ step' = "systems" /\ todo' = Order
    /\ UNCHANGED <<initial, disk, opens>>

(* A row in the canonical slot under another name moves up by Offset; ids  *)
(* and names are unique.                                                   *)
MustMove(db, n) == ById(db, CanonicalId[n]) \ ByName(db, Plain(n))
CanMove(db, n) ==
    MustMove(db, n) # {} => /\ ~Referenced(db, CanonicalId[n])
                            /\ ById(db, CanonicalId[n] + Offset) = {}
                            /\ \A s \in MustMove(db, n) : ByName(db, Legacy(s.name, "slot", s.id)) = {}
MoveByOne(db, n) == \* mutant: the next slot, which can be another system's
    [db EXCEPT !.systems = (@ \ MustMove(db, n)) \cup
        {[id |-> s.id + 1, name |-> Legacy(s.name, "slot", s.id)] : s \in MustMove(db, n)}]
MoveOccupant(db, n) ==
    [db EXCEPT !.systems = (@ \ MustMove(db, n)) \cup
        {[id |-> s.id + Offset, name |-> Legacy(s.name, "slot", s.id)] : s \in MustMove(db, n)}]

(* A row under its name elsewhere: renamed, a canonical one inserted, the  *)
(* references moved to that, then deleted.                                 *)
Misplaced(db, n) == {s \in ByName(db, Plain(n)) : s.id # CanonicalId[n]}
CanRename(db, n) == \A s \in Misplaced(db, n) : ByName(db, Legacy(s.name, "row", s.id)) = {}
MoveRefs(db, n, from) ==
    [db EXCEPT !.refs = [r \in Ref |-> IF @[r] \in from THEN CanonicalId[n] ELSE @[r]],
               !.systems = {s \in @ : s.id \notin from}]
Renamed(db, n) ==
    [db EXCEPT !.systems = (@ \ Misplaced(db, n)) \cup
        {[id |-> s.id, name |-> Legacy(s.name, "row", s.id)] : s \in Misplaced(db, n)}]
Replace(db, n) ==
    MoveRefs(insertSystem(Renamed(db, n), n), n, {s.id : s \in Misplaced(db, n)})

migrateCanonicalSystems ==
    /\ step = "systems" /\ todo # <<>> /\ CanMove(work, Head(todo))
    /\ LET n == Head(todo)
           moved == MoveOccupant(work, n)
       IN  /\ CanInsert(moved, n) /\ CanRename(moved, n)
           /\ "games" \in work.tables \/ Misplaced(moved, n) = {}
           /\ work' = IF Misplaced(moved, n) # {} THEN Replace(moved, n) ELSE insertSystem(moved, n)
    /\ todo' = Tail(todo)
    /\ UNCHANGED <<initial, disk, step, opens>>

(* Files without a row in systems get the one detected by name, if any.    *)
Lost(db, r) == db.refs[r] = 0 \/ ById(db, db.refs[r]) = {}
RepairAll(db) == \* mutant: files that have a system are detected anew too
    [db EXCEPT !.refs = [r \in Ref |->
        IF r \in FileRef /\ Detected[r] # "none" THEN CanonicalId[Detected[r]] ELSE @[r]]]
Repair(db) ==
    [db EXCEPT !.refs = [r \in Ref |->
        IF r \in FileRef /\ Lost(db, r) /\ Detected[r] # "none" THEN CanonicalId[Detected[r]] ELSE @[r]]]

(* The rest of the transaction: score, the tables of mods, which nothing   *)
(* reads, the disc sets if their columns are new; then COMMIT.             *)
CommitMigrations ==
    /\ step = "systems" /\ todo = <<>> /\ CanAdd(work, "matches")
    /\ work' = AddColumns(Repair(work), "matches")
    /\ disk' = work' /\ step' = "open"
    /\ UNCHANGED <<initial, todo, opens>>

(* A statement fails, the process dies, or the database is closed: a       *)
(* transaction is rolled back.                                             *)
AbandonOpen ==
    /\ step # "closed" /\ step' = "closed"
    /\ work' = disk /\ todo' = <<>>
    /\ UNCHANGED <<initial, disk, opens>>

SchemaNext ==
    \/ Open \/ CreateTable \/ populateDefaultSystems
    \/ migrateFiles \/ migrateCanonicalSystems \/ CommitMigrations
    \/ AbandonOpen

SchemaSpec == SchemaInit /\ [][SchemaNext]_schemaVars

-----------------------------------------------------------------------------
SchemaTypeOK ==
    /\ DiskOK(initial) /\ DiskOK(disk) /\ DiskOK(work)
    /\ step \in {"closed", "create", "begin", "systems", "open"}
    /\ opens \in 0..MaxOpens

(* A library that initialize opened is whole whatever earlier calls left   *)
(* behind: every table exists, though only the first is asked for, and     *)
(* every column but, in a table of files that an earlier version made,     *)
(* those no migration adds; every system sits in its slot of the registry; *)
(* and no file whose system can be detected is without one.                *)
OpenedIsWhole ==
    step = "open" =>
        /\ disk.tables = AllTables
        /\ Migrated \cup (IF "files" \in initial.tables THEN initial.columns ELSE AllColumns) \subseteq disk.columns
        /\ \A n \in SystemName : [id |-> CanonicalId[n], name |-> Plain(n)] \in disk.systems
        /\ \A r \in FileRef : Lost(disk, r) => Detected[r] = "none"

(* initialize runs "migrations for new columns" (core/database.cpp), so    *)
(* that an opened library has every column that files is read and written  *)
(* by.                                                                     *)
OpenedHasEveryColumn == step = "open" => disk.columns = AllColumns

(* Renumbering loses nobody's system: a row of files or games that names a *)
(* system before a step on disk names the same one after it, through the   *)
(* moves of occupied slots, the renames and the repair.                    *)
NameOf(db, r) == {s.name[1] : s \in ById(db, db.refs[r])} \cap SystemName
SystemsKept ==
    [][\A r \in Ref : NameOf(disk, r) # {} => NameOf(disk', r) = NameOf(disk, r)]_schemaVars
=============================================================================
