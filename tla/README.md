# Verification of Remus Two

TLA+ models of the parts of Remus Two that move, match and bundle a user's ROM files, the
TLC runs that check them on small instances, and TLAPS proofs of what matters most about
them. File and line numbers below are those of the repository.

1. The system: its components and what is hard about them
2. The modules and how they correspond to the code
3. The runs, their bounds and what they show
4. What is proved, and how
5. Where the code and its documents disagree
6. What is only model-checked, what is not modelled
7. Plan

## 1. The system

Remus keeps one SQLite database per library (`core/database*.cpp`) and one catalog of
known games (`catalog/*.cpp`). A command line (`cli/cli_commands.cpp`) and a GUI
(`gui/library_controller.cpp`) run the same *drivers* on them: scan, match, enrich,
organize, bundle, undo, verify, patch, catalog fetch and ingest. The GUI runs its drivers
on one worker thread, except `matchFile`, which it runs on its own thread. Nothing
stops two commands, or a command and the GUI, from running on one library at once: the
database is opened in WAL mode, single statements are atomic, and almost nothing is
in a transaction. So there is one kind of concurrency everywhere: *between any two
statements or file operations of one process, another may run, or the first may die.*
That is the grain of the models.

| Component | State it keeps | Operations | Hard behaviour | What makes it correct |
|---|---|---|---|---|
| Organize engine (`core/organize_engine*.cpp`) | files on disk, `files.current_path`, `undo_queue` | organizeFile (skip, overwrite, rename, ask; move, copy), undoFile, undoLast, undoAll | checks and renames are apart, ignored results of database writes, backup and staged copy, one-second timestamps | no file lost or doubled, rows follow files, undoing restores, overwriting is all or nothing |
| Scan (`core/library_scan.cpp`, `core/scanner*.cpp`) | `files` rows, hashes, `parent_file_id` | scanLibrary | insert, hash and link are apart, known rows are passed over | a sheet leads to its image, a row has its file's hashes |
| Catalog matching (`catalog/catalog_match.cpp`, `core/database_games.cpp`, `core/database_file_state.cpp`) | `games`, `matches`, `files.catalog_*`, negative cache | matchLibrary, matchFile, online lookup | six statements without a transaction, a row read long before it is used, two writers | a file counts as matched only when it is named, its title is that of its entry and its entry that of its hashes, matching leaves nobody out |
| ROM bundler (`core/rom_bundler.cpp`, `metadata/library_organize.cpp`) | files on disk, `files.current_path`, `is_bundled` | bundle, with conversion or not, zip or folder | staged copies, a temporary zip, a tool that fails half way, two statements at the end | sources are never harmed, what is marked as bundled is there and whole |
| Catalog ingest (`catalog/catalog_ingest.cpp`, `compendium_*.cpp`) | sources, entries, facts, signatures, serials, games | ingest a DAT: purge, link, insert, deduplicate, resolve | the order of DATs, facts of the earlier ingest, merging of duplicates | only what a DAT dropped is lost, what a hash leads to has a name some DAT still lists, no row leads to a game that is gone |
| Downloads (`metadata/catalog_fetch.cpp`, `metadata/http_client.cpp`) | the cache: one zip and one directory per system | fetchCatalog: download, extract, ingest | timer against reply, what interrupted fetches leave in the cache, two processes on one cache | what is ingested is what was downloaded |
| Enrichment (`metadata/library_enrich.cpp`, `metadata/hasheous_*.cpp`) | `games` and `game_assets` of the catalog, misses in the library's `cache` | enrichLibrary, importHasheousJson | a pass waits for the network between reading and writing; two statements for a cover | a game with a cover has its boxart, as such a game is not asked about again |
| Disc sets (`core/database_disc_sets.cpp`, `core/disc_set_*.cpp`, `catalog/compendium_disc_set_inserter.cpp`, `core/compendium_disc_bridge.cpp`) | `disc_set_key` and `disc_number` of rows, the catalog's `game_disc_sets` and tracks | scan, confirm, ingest, rebuild, completeness report | row by row without a transaction, starting from the keys of the last rebuild | rows have one key exactly when they belong together; a set reported complete is |
| Playlists (`core/m3u_generator.cpp`) | `.m3u` files | generateAll | groups by one SELECT, reads each row again later | discs are in order |
| Verification (`core/verification_*.cpp`) | tables of official and patch DATs, two caches per engine | import, remove, verify, list missing | an import is four statements; the cache is never looked at again; two queries answer one question | what is verified is listed, and not missing |
| Converters and tools (`core/external_tool_runner.cpp`, `core/*_converter.cpp`) | the child process, `m_cancelled`, outputs, the flatpak wrapper | convert, verify, batch, cancel | a child that hangs, ignores signals or outlives SIGKILL; a flag that two threads write | what is reported good is whole, a cancel ends the batch, every wait ends |
| Patching (`core/patch_engine*.cpp`) | output files, the child | apply, create | a tool that dies half way, or never started, after the base was copied | the output is the whole result or absent |
| Archives (`core/archive_extractor*.cpp`) | files of the destination | extract, one member, batch | an unsafe name after members were written; failures in the middle | a rejected archive leaves nothing |
| Library schema (`core/database.cpp`, `database_schema.cpp`, `database_migrations*.cpp`) | every table of the library | initialize | a crash between two CREATE TABLEs; systems that sit in each other's slots | what opens is whole, no row changes its system |
| Catalog schema (`catalog/catalog.cpp`, `sql_utilities.h`) | tables and `user_version` of the catalog | init | a script and its version are two statements, several processes at once | the version never runs ahead of the schema |
| GUI (`gui/library_controller.cpp`) | busy flag, rows shown, queued signals, worker | start a job, match a file, close | `matchFile` beside the worker, reloads in the middle of a job, the destructor's five seconds | one job at a time, an idle window shows the library, nobody waits for ever |
| Parsing, hashing, names, CLI | none | - | character and byte level | - |

How they interact: *scan* makes the rows that *match* names; *organize* and *bundle* read
those names (through the path of the target) and write the rows' paths; *ingest* replaces
the catalog under a running match; *scan* finds again what *organize* moved. `PROJECT.json`
lists under `hazards` each place where this can go wrong, with the property that would
notice, or why there is none yet.

## 2. The modules

| Module | What it is | Code |
|---|---|---|
| `OrganizeEngine` | organizing and undoing, one action per file or database operation | `core/organize_engine.cpp`, `organize_engine_undo.cpp`, rows of `database_files.cpp` |
| `UndoLog` | abstract: moving and undoing as single steps on "where is each file" | what `organize_engine.h` promises |
| `OrganizeEngineRefinement` | the mapping under which the first implements the second | - |
| `OrganizeEngineProofs`, `UndoLogProofs` | theorems of the two | - |
| `OrganizeEngineRefinementProofs` | that the first implements the second, and what follows for rows and disk | - |
| `LibraryMatch` | scan and match, one action per statement | `core/library_scan.cpp`, `catalog/catalog_match.cpp`, `core/database_games.cpp`, `database_files.cpp`, `database_file_state.cpp` |
| `LibraryMatchProofs` | its theorems | - |
| `RomBundler` | bundling with conversion, one action per file operation or statement | `core/rom_bundler.cpp`, `metadata/library_organize.cpp`, `core/disc_converter.cpp` |
| `RomBundlerProofs` | its theorems | - |
| `CatalogIngest` | one DAT put into the catalog, one action per phase of the transaction | `catalog/catalog_ingest.cpp`, `compendium_*.cpp` |
| `CatalogIngestProofs` | its theorems | - |
| `Verification` | importing and verifying by engines that share a library | `core/verification_*.cpp` |
| `ToolRunner` | one converter object, its child and the thread that cancels | `core/external_tool_runner.cpp`, `disc_converter.cpp`, `chd_converter.cpp` |
| `PatchEngine` | applying and creating patches | `core/patch_engine.cpp`, `patch_engine_apply.cpp` |
| `LibraryGui` | the controller, the worker and the signals between them | `gui/library_controller.cpp` |
| `LibrarySchema` | opening, creating and migrating a library, statement by statement | `core/database.cpp`, `database_schema.cpp`, `database_migrations*.cpp` |
| `CatalogSchema` | opening a catalog: scripts, version, seeds | `catalog/catalog.cpp`, `sql_utilities.h` |
| `DiscSets` | keys, rebuilds, topology, completeness, playlists | `core/database_disc_sets.cpp`, `disc_set_*.cpp`, `m3u_generator.cpp`, `compendium_disc_bridge.cpp`, `catalog/compendium_disc_set_inserter.cpp` |
| `ArchiveExtractor` | extracting member by member | `core/archive_extractor*.cpp` |
| `CatalogFetch` | fetching DATs through a shared cache | `metadata/catalog_fetch.cpp`, `http_client.cpp` |
| `Enrichment` | filling the catalog from thumbnails, Hasheous and IGDB | `metadata/library_enrich.cpp`, `hasheous_provider.cpp`, `hasheous_igdb.cpp` |
| `MCServices` | the ten services, from `Verification` on, side by side | - |
| `LibraryServicesProofs` | theorems of `CatalogSchema`, `LibraryGui`, `Verification`, `LibrarySchema` | - |
| `FileServicesProofs` | theorems of `ArchiveExtractor`, `ToolRunner`, `PatchEngine`, `CatalogFetch`, `Enrichment`, `DiscSets`, and of all ten together | - |
| `MCOrganizeSolo`, `MCOrganizeShared`, `MCOrganizeOverwrite`, `MCLibrary`, `MCBundle`, `MCIngest` | the other instances TLC checks | - |

The first three concrete modules have the same shape. `pc[p]` is the next step of process `p`
and `job[p]` its locals (what the code has read and still uses). An action is what the
code does from one point where another process can come in between to the next. A
step that may fail has a second action or disjunct, counted by `MaxFaults`, and `Crash`
makes a process lose `pc` and `job` but leaves disk and tables as they are, counted by
`MaxCrashes`. `map` in `PROJECT.json` gives the lines of every definition.

**OrganizeEngine.** `disk` maps each path to the content that lies there (or `NoFile`),
`files` the id of a file to its row, `undo` is the `undo_queue` in order of
insertion with the second (`at`) of each entry and whether it is undone, `clock` the seconds. An entry also remembers
in `holds` the content that the operation put in place: no column has it and no action reads it, only properties do.
`Begin` is organizeFile up to the collision check, followed by the steps of the strategy; a file that
lives in an archive (`Packed`) is refused as in the code. `QFile::rename` is one atomic step
that fails when the destination exists; a copy is not (it may die half way only under
its staging name `Stage`). `FindRow` and `recordUndo` are the SELECT and the INSERT that record
an operation. `Stash` is the hidden name a replaced file is set aside
under. Undoing selects entries by `executed_at DESC`: when two have the same second any of
the two comes first, which is what SQLite promises. `Foreign` files are put anywhere
at any time by a program that is not Remus. Dry runs change nothing and are not actions.

**LibraryMatch.** `content` is what each file on disk holds now, as the digest it
would hash to; `rows` the rows of the table (digest, title, entry, parent, negative
cache), `games` and `matches` the two tables, `catalog` the titles that the digests lead to.
`Edit` changes a file, `Ingest` the catalog. `Parent` says which sheet belongs to which image.
The order in which the code tries hash types is one map from digests to entries.

**RomBundler.** A path is a folder, a stem and an extension; `disk` says what lies there:
a file made from a row's file, with its extension and whether it is whole. `Convert` is the
run of a converter as the bundler sees it: it writes beside the source under the
planned extension, and it may refuse, fail, or stop half way. `Modes` are the values
of `--convert`. The extension of a zip is "cut" when its writing broke off: with an error, or unnoticed, because the
result of the last read of an input and that of closing the zip are not looked at (`Compress`). `GiveUp` and `CleanTemp` are what follows a bundle
that came to nothing; `stuck` is a history variable, the temporary zips whose removal was refused.

**CatalogIngest.** `db` is the catalog as committed, which is all that matching ever sees,
`tx` the catalog inside the transaction, `pc` the phase of `run()` and `job` its locals. A
catalog is a record of tables by their unique keys (`games`, `sigs`, `serials`, `facts`)
and the next `fact_id`, since ids decide ties. Linking and storing are one action per record, each
merge (by title, then by serial and title) and the choice of titles one action. `BEGIN IMMEDIATE`
keeps other writers out, so there is one process; a failure or death at
any point is `Rollback`. What makes it hard is not interleaving but history: what an ingest finds
was left by others. A merge moves rows with `UPDATE OR IGNORE` and drops the losers by cascade;
which of several winners a loser goes to is left open, as SQL leaves it. `listed` is a history
variable: the version of each DAT ingested last.

**Verification.** `tables` holds the rows of the four DAT tables, with the engine that wrote
each; `engines[e]` what an engine has attached, cached and is doing. An import is
`ImportClear`, `ImportHeader`, `ImportEntries`, `ImportCommit`; entries can fail one by one,
which the code does not report. `Forget` is what the end of an import does to its own engine's
cache; `behind` is a history variable naming the engines whose cache others made old, which
nothing in the code could tell them; an import of its own brings an engine up to date again,
which the history variable missed until the proof of `VerifiedIsListed` asked for it. With a catalog attached only the catalog answers
(`verification_storage.cpp:22`): a system that has only an imported DAT is then not in any
DAT, whatever `verification_engine.h:85` says of a fallback.

**ToolRunner.** `child` is the process: `running`, `stuck` (deaf to SIGTERM) or how it ended;
it writes `half` an output before a `whole` one. `canceller` is the thread in `cancel()`,
which sets the flag, terminates, waits and kills. `heard` remembers that a cancel came at a moment when the
batch has to obey; it is cleared with the batch. The exit code of a child that still lives is 0, as in the code
(`ExitsZero`), and `reported.dead` says whether that was so.

**PatchEngine.** Two ways to a result: a tool that writes a new file (IPS, BPS, UPS, XDelta) and one that changes a
copy of the base (PPF). `patchResult` carries what the property needs to know: whether the tool ran, was dead by the
time of the clean-up, and whether something failed that nobody looks at (a write of the built-in patcher, the removal
of an output).

**LibraryGui.** `requests` and `results` are Qt's queues between the two threads. A job is any number of
statements (`Work`), each of which makes another `edition` of the rows. `matchFile` works on the GUI
thread and may fall between them. Closing asks the thread to quit and waits five seconds.

**LibrarySchema.** `disk` is what is committed, `work` what the connection sees: the same while the schema is
created, different inside the one transaction of the migrations. `AbandonOpen` stands for a failed statement and a
death of the process. A row of `systems` that a foreign key refers to cannot be renumbered, so `CanMove` refuses.
The name of a row is a registry name followed by the marks the migration hung on it (`__legacy_slot_<id>`,
`__legacy_<id>`); names are UNIQUE, so a rename to a name that is taken fails (`CanMove`, `CanRename`).
The tables are in the code's order, because `initialize` looks only for the first. Columns that came with time are of two kinds:
those `runMigrations` knows (`Migrated`), and those only `createSchema` adds (`files.catalog` stands for `catalog_game_id` and
`has_local_artwork`). `initial` is the library as it was found, a constant of each behaviour.

**CatalogSchema.** `catalog.done[i]` is how many parts of script `i` have run; a script in a
transaction has one part. Its `kind` says when it can run: a `repeatable` one always, one that adds a column `once`,
and 0013, which is `replacing` a table in several statements, from the start or when it is complete, but not from the
middle. `overlap` is a history variable: two `init`s have been under way at once.

**DiscSets.** `sets` is key and number of each stored row. A rebuild reads all rows (`Rebuild`), decides
(`Grouped`, `Counted`), then writes them one by one (`WriteRow`) and may die in between. `settled` is a history variable: the last
write was the end of a rebuild that nothing disturbed. The completeness report is a pure operator over `sets` and `topology`.
Playlists take the groups by one SELECT (`generateAll`) and then read the rows of a group one by one (`ReadDisc`), each of
which may fail; the title is the catalog's, else what the name of the first disc gives, else a stored one.
The order of a playlist (`sortByDiscNumber`) is the one sequence of the group in which every row `ComesBefore` the later ones. Opening
the file empties it, and writing starts at its beginning whatever another has put there since: `written` are the lines of the last
writer, `left` what a longer list left behind them. A report is asked with any set of discs `unread`, whose SELECT of tracks fails.

**ArchiveExtractor.** `folder` says which extraction wrote each file last, so that files of earlier
extractions are told from those of a rejected one. `refused` are the files it failed to remove.

**CatalogFetch.** A zip and a DAT are the number of the release in them; `release` is what the site serves and
may rise during a fetch. Emptying the directory of a system may be refused, which nobody looks at: the fetch goes on
with what lies there, and `refused` remembers it. `alone` is a history variable: no other process was in a fetch since this one began.

**Enrichment.** A pass takes owned games in any order; `seen` and `have` are what it read of
one before it waited for the network; a game whose SELECT fails is passed over. `torn` is a history variable: a statement failed or a process died between a
cover and its asset and no whole pass has been since.

`MCServices` puts these ten side by side. They share no variable: what one does to another's database
is, for the other, an action of its environment that its module already has. `component` is chosen in the initial
state and says which one a behaviour is about, so the state space is the sum and not the product.

## 3. The runs

Every run is `tlc -config <run>.cfg <module>`; deadlock is not checked because each model stops when its bounded
commands are used up.

| Run | Instance | Properties |
|---|---|---|
| `organize_solo` | 1 process, 2 files (one in an archive), 4 paths, 4 operations in distinct seconds, moves, no failure | `TypeOK`; `RowsFollowFiles`: between operations each row leads to its file, and a member of an archive to the archive; `UndoAllRestores`: when every entry is undone the disk and the rows are as they were before the first operation; `ImplementsUndoLog`: refinement; `UndoAllSucceeds`: an undoAll over the whole queue gets every entry undone (liveness) |
| `organize_shared` | 2 processes, 2 files and a foreign one, entries of one second, 2 operations; a failure, a crash or the foreign file (`OneDisturbance`) | `OneCopyEach`; `EveryMoveIsLogged`: of the library files that are not where they were scanned, all but one for each failure and each death are where some entry has them, or about to be recorded; `MovesKeepEveryFile` |
| `organize_overwrite` | 1 process, 2 files, 3 operations that may overwrite, 1 failure, 1 crash | `NothingLeftBehind`: no hidden file is left unless an operation failed or a process died; `OverwriteIsAtomic`: each step leaves what is visible alone or performs the whole move, copy or undo, unless the process dies or the restoring itself fails; `OnlyTheReplacedIsLost`: a content leaves the disk only when it was replaced and the new file is in place, or when its copy is undone; that an undone copy takes another file with it needs a log that shows the place as taken, or an earlier failure |
| `organize_undo_copy` | as `organize_overwrite`, nothing fails | `UndoneCopyIsTheCopied` is violated (section 5) |
| `organize_undo_order` | as `organize_solo`, entries of one second | `ReverseOrder` is violated (section 5) |
| `library_solo` | 1 process, image and sheet, 2 digests, 2 entries, 1 edit, 1 ingest, 1 failure, 1 crash, 3 games | `TypeOK`; `EntryIsOfHashes`: with no failure, crash or ingest, a row's entry is that of the hashes it holds |
| `library_shared` | 2 processes, 1 file, 1 edit, 1 ingest that renames an entry, 1 crash, 2 games | `ConfirmedIsNamed`, `TitleIsOfEntry`, `MatchLeavesNone` |
| `bundle_solo` | 2 commands, 3 rows (a disc, a disc that becomes a zip, a cartridge), both modes, 2 failures, 1 crash | `SourceSurvives`; `BundledIsWhole`: what is marked is whole, but for a zip cut short unnoticed; `NoTempLeft`: between commands there are no temporary zips but those whose removal was refused, unless a process died; `MarkedInPlace`: a row is marked only when the bundle is in place |
| `bundle_again` | one disc, bundled without and then with conversion | `DiscIsThere` is violated |
| `ingest` | 3 DATs in 2 versions of 1 to 3 records, 5 ingests, 1 failure | `TypeOK`, with the foreign keys; `NamesAreListed`: what a hash leads to has a title some DAT still lists; `OnlyDroppedAreLost`: an ingest loses only hashes of its own DAT that it no longer lists, unless a merge was chained |
| `library_columns` | the library's schema of `services` alone | `OpenedHasEveryColumn` is violated |
| `services` | ten services, each with the instance below; liveness of two of them | `ServicesTypeOK`: with the keys of the tables and the number of jobs behind the busy flag; and the rows of the next table |

| `services`, module | Instance | Property |
|---|---|---|
| `Verification` | 2 engines, one of which verifies; 1 system, 3 files, 4 entries (by sha1 alone, by crc, a hack, a translation), 2 imports or removals, 1 change of the catalog, 1 failure | `VerifiedIsListed`: an engine verifies only by entries listed at that moment, unless others made its cache old; `VerifiedIsNotMissing`: no game is both verified and missing |
| `ToolRunner` | 2 batches of 2 files (one large, one unsupported), 2 cancels, a child that may do anything | `GoodIsWhole`, unless the child still lives; `CancelEndsBatch`; `WaitsEnd` |
| `PatchEngine` | every format, all tools or none, the base itself as output, 2 patches, 1 failure | `PatchIsAllOrNothing`: a success is the whole output and a failure whose tool is dead none, unless something failed that nobody looks at |
| `LibraryGui` | 3 jobs or matches, 4 editions | `IdleShowsLibrary`, unless the last job failed; `WaitsEnd` |
| `LibrarySchema` | 2 systems, 3 rows; an empty library and 2160 old ones; 2 opens, a crash or failure anywhere | `OpenedIsWhole`: every table, every system in its slot, and every column the migrations know or the library was made with; `SystemsKept`: no committed step changes the system of a row |
| `CatalogSchema` | 2 processes, 4 scripts of every kind, 3 seeds, 3 inits, a crash anywhere | `VersionIsApplied`: every script up to the stored version has run, except for a table that one of two overlapping inits replaces once more |
| `DiscSets` | 2 processes, 3 rows (two named as discs of one title, one nameless and confirmed), 1 ingest of 2 DATs, 2 rebuilds or playlists, 1 failure | `SetsAreTogether`; `PlaylistInDiscOrder`: of the lines last written; `CompleteMeansEveryTrack`, but for discs whose tracks could not be read |
| `ArchiveExtractor` | 3 archives of up to 4 members (unsafe after good, one twice), 2 extractions, 3 failures | `RejectedLeavesNothing` |
| `CatalogFetch` | 2 processes, 2 systems, 2 releases, 2 fetches, 1 failure, both ways of unpacking | `FreshDat`: what is ingested is not older than what was downloaded, unless another process fetched meanwhile, or unzip wrote to a directory that could not be emptied |
| `Enrichment` | 2 processes, 1 game, 3 answers, 2 passes or imports, 1 failure | `CoverHasBoxart` |

Why the bounds are enough. Two files are enough for one to take the other's name, and three
places for a swap; four operations suffice for move, move, undo, move. Two processes suffice for each
pair of steps in any order, one crash or failure for each place it can happen; a second crash finds
the state of the first, which a new process takes as it is. For matching, one
edit or ingest can fall between any two statements; `MaxGames` only stops the table
from growing. For bundling two commands are what a second run on the results of the first
needs, and two failures let a clean-up fail as well. The records
of the three DATs were chosen so that each pass of the linker, both merges, a chained merge and a change of titles
occur; five ingests let each DAT come once and two of them again, in the other version.
For the services, two calls are what the second needs to meet what the first left, and two processes for each pair of steps in
any order. The old libraries are all assignments of three rows to six ids over five arrangements of `systems`:
swapped, shifted, under foreign names, in place, and with the spare slot taken. The four scripts are the kinds that
exist: `repeatable`, `once` and `replacing`. Three extraction failures are what
"too many failures" needs for four members.

**Fairness.** In `organize_solo`, weak fairness of the steps of a process that is in a command: a command is a loop without
waits, so it goes on as long as its process runs; nothing says that a user starts one. In `services`, `RunnerFairness`: each
wait of the converter has a time limit (`waitForStarted`, `waitForFinished` and the two waits after `terminate` and
`kill`), so the converter goes on, while the child need never do anything; and `GuiFairness`: the
worker's thread runs and the event loop delivers what is queued. Nothing is assumed of the user, the child or the file system.

## 4. What is proved

The theorems hold for any number of processes, files, paths, operations, failures and
crashes; the constants are only bound by the named assumptions of the modules, which TLC
evaluates on each run. A theorem that needs more states it as a hypothesis; the run that checks
its property is an instance of it, except where the run shows more.

| Hypothesis | Says | Why it is there |
|---|---|---|
| `MoveOnly` | only moves, none overwriting | a copy leaves a second file and overwriting replaces one, as asked for |
| `Plain` | no operation overwrites | what is set aside while overwriting is at no place an entry could name |
| `HiddenNames`, `Foreign = {}` | names of backups and staged copies are those of no file, target or suffixed target, and no other program makes files | the code builds them with a time stamp and a leading dot; a file that had such a name from the start would be there at the end |
| `Alone`, `DistinctNames` | one process has the library; no backup has the name of a staged copy | what another process does while a file is set aside is a step of its own and visible; the two kinds of name differ in their middle (`_backup_`, `_copy_`) |
| `MaxCrashes = 0` | no process dies | a model has few hidden names, and a later copy may use the one a dead process left its copy under; in the code the name has the time of the copy in milliseconds. The run has one crash |
| `Solo` | one process, moves and `undoAll`/`undoLast` only, no failure or crash, distinct seconds, no foreign file, each row at a place of its own | otherwise the engine does *not* implement the log: two entries of one second are undone in any order (section 5), an ignored failure leaves no entry, and `undoFile` takes an entry from the middle |
| `\E p : Proc = {p}` | one command at a time | `writeLibraryRecord` and the bundler read a row long before they write it; a second process comes in between |
| `OwnStem` | no row to convert shares its stem with another row | a converter writes beside the source under its stem; `game.iso` and `game.bin` have one `game.chd` (section 6) |
| `DigestNamesTitle` | a DAT gives no digest to tracks of two titles | the lookup takes any of them, so two rows with one digest may get two keys |
| `NumbersAgree` | a DAT gives no disc another number than its file name does | the playlist is sorted by the catalog's number and only then by that of the name |

| Theorem | Says | Argument |
|---|---|---|
| **`OrganizeEngineProofs`** | | |
| `TypeCorrect` | `[]TypeOK` | `TypeInv`: in each step of a process its locals are those that step needs (`JobOK`) |
| `MovesKeepFiles` (`MoveOnly`) | no step of anyone makes a file vanish | `MoveInv`: nobody is in a replacing step and every entry is a move; then each step that writes `disk` is a rename to an empty path, or a foreign file |
| `MovesLeaveOneCopy` (`MoveOnly`) | ... and no file is at two paths | a rename takes away what it puts; the same invariant |
| `MovesAreLogged` (`Plain`) | `[]EveryMoveIsLogged` | `LoggedInv`: the property with `OnItsEntry`: a process that takes a move back works on the paths of its entry, so a file leaves the place an entry gives it only for the place that entry took it from. A path becomes unlogged only where its process lets go of it, by a failed SELECT or INSERT or by dying (`NewlyUnlogged`), which is one path and one accident a step; entries and accidents are never taken back |
| `OverwritingCleansUp` (`HiddenNames`, `Foreign = {}`) | `[]NothingLeftBehind` | `Held`: while nothing failed, whatever lies under a hidden name is held by a process in one of the steps between making and dropping it; `ShownPaths`: no row, entry or operation leads to a hidden name |
| `OverwritingIsAtomic` (`HiddenNames`, `DistinctNames`, `Foreign = {}`, `Alone`) | `OverwriteIsAtomic` | `Outcomes` reduces the steps to ten effects on the disk; `Overwriting`: while the old file is set aside its place stays empty, it lies under one of the backup names of that place, and what is staged equals the file it was copied from, which is still there |
| `OverwritingLosesOnlyTheReplaced` (also `MaxCrashes = 0`) | `OnlyTheReplacedIsLost` | with `Unstaged`: a staging name is taken only until the copy is swapped in, so removing a failed copy removes nothing else, and removing a staged one leaves the file it was copied from; and `CopyInv`: without accidents, what lies at the place of a live copy is what was copied or nothing, as is what was set aside there, unless the log shows that another file came there (`Undisturbed`, `TakenBack`) |
| **`UndoLogProofs`** | | |
| `HistoryKept`, `OnePlaceAlways`, `AllUndoneRestores` | in the abstract log each live entry starts where the one before left the file, no two files share a place, and undoing everything restores the start | `Inv == TypeOK /\ OnePlaceEach /\ History` |
| `AlwaysUndoable` | the place the last live entry took its file from is free | `AlwaysApart`: also after each earlier entry every file had a place of its own, so the last entry's old place, which its file had before, is nobody else's now |
| **`OrganizeEngineRefinementProofs`** (`Solo`) | | |
| `EngineImplementsUndoLog` | `ImplementsUndoLog`: initial states map to initial states, each step to a step of the log or a stutter | `SoloInv`: `DiskInv` (what lies where), `RowsInv` (rows are up to date but for the one being written), `EntriesInv` and `TodoInv` (the entry at work is the last live one), and the invariant of `UndoLogProofs` on the abstract state: that a rename back finds its place free and its file there is known of the log only. The rename is the step; the statements after it stutter, as `Recorded` and `Unmarked` already count an entry whose statement is still to come |
| `RowsKeepUp`, `UndoRestores` | `[]RowsFollowFiles`, `[]UndoAllRestores` | the same invariant; the second with `AllUndoneRestores` of the log |
| **`LibraryMatchProofs`** | | |
| `TypeCorrect` | `[]TypeOK` | with the locals of each step |
| `MatchedIsNamed` | `[]ConfirmedIsNamed` | `IInv == TypeOK /\ MatchesNamed /\ \A p \in Proc : JobOK(p)`: the property alone is not inductive, because a match is confirmed long after its row was named; `MatchesNamed` says that whoever has a match, confirmed or not, is named, and `JobOK` that a process about to insert one has named its row |
| `TitleFollowsEntry` | `[]TitleIsOfEntry`, for any number of processes | `TitlesFollow`: the only rows whose title is not their entry's are those some process is about to write again, after `confirmMatch` titled them from a match |
| `EntryFollowsHashes` (one process) | `[]EntryIsOfHashes` | `EntriesFollow`: the only row whose entry is not that of its hashes is the one between its two statements; and in each of the steps after the lookup the row still has the hashes that were looked up |
| `MatchingLeavesNone`, for any number of processes | `MatchLeavesNone` | `SoFar`: while no file is edited, all hashes in rows, in snapshots and at hand are those of what lies at the path (`HashesStand`); the online service is only asked about hashes the catalog never knew; and every file of the snapshot that is no longer to do is confirmed if it could be. A match lets go of a file only at the end of its record, after `confirmMatch`, or where the lookup missed (`LetsGoOfConfirmed`), and nothing takes a confirmation back (`ConfirmedStays`) |
| **`RomBundlerProofs`** | | |
| `TypeCorrect` | `[]TypeOK` | - |
| `BundlingSparesSources` | `[]SourceSurvives` | `IInv == TypeOK /\ RowsKnown /\ \A p \in Proc : JobOK(p) /\ SourceSurvives`: a row's path is its source, its converted twin, or in a folder of its title; a process writes, copies over and removes only the latter two, and its payload, once converted, is never a source |
| `NoTempStays` | `[]NoTempLeft`, for any number of commands | `TempInv`: a temporary zip is one that some process is about to rename or remove, or failed to remove; two rows of one title share it, so whoever removes or renames it leaves none |
| `BundlesAreWhole` (one process, `OwnStem`) | `[]BundledIsWhole` | `WholeInv`: rows lead to no half file (`RowsWhole`), what carries a bundle's name in a folder is whole or a zip cut short (`OutWhole`), and a process has staged a whole file or its source (`Sound`) |
| `MarkedIsInPlace` (one process, `OwnStem`) | `MarkedInPlace` | `PlacedInv`: no source is ever written over (`SourcesStay`, stronger than `SourceSurvives` as stems are own), and at each step what there is of the bundle so far (payload, copy, staged file, temporary zip) holds the row and has the extension it will be called by, through the detour of a conversion that fails |
| **`CatalogIngestProofs`** | | |
| `TypeCorrect` | `[]TypeOK` | every table keeps its keys and its rows lead to games through each of the operators that rewrite it (`PurgedOK`, `StoredParts`, `MergedParts`) |
| `NoNameOutlives` | `[]NamesAreListed` | `Supported`: beside each signature stands a title fact of its game and source, and beside each fact a record its source lists; `Titled`: a game with facts has the title of one. Purging by source, storing and merging keep the first, `Resolve` makes the second (`WinnerIsCandidate`), `Commit` hands both over |
| `NoOtherHashIsLost` | `OnlyDroppedAreLost` | `HashesKept`: the hashes of other sources and of the records stored so far are in the transaction, unless a merge was chained |
| **`LibraryServicesProofs`** | | |
| `CatalogTypeCorrect` | `[]CatalogSchemaTypeOK` | with the range of each position |
| `VersionTellsTheTruth` | `[]VersionIsApplied` | also what a process believes, has passed or is about to store is applied, since another may put an older version back; two processes in `init` are noticed by `overlap`; and without it a half-done script belongs to exactly one process |
| `GuiTypeCorrect` | `[]GuiTypeOK` | the requests, the running job and the results count one when the flag is set, none when it is not |
| `IdleIsUpToDate` | `[]IdleShowsLibrary` | by that count no job runs behind an idle window, so only a match changes the library there, and it reloads |
| `VerifyTypeCorrect`, `CachesVouchForNobody` | `[]VerifyTypeOK`, `VerifiedIsListed` | `Honest`: what an engine has cached is listed; only between the clearing and the end of an import of its own, or after one that failed there, is there a cache of a DAT that has no row, and `hasDat` keeps a call from using that |
| `MatchedIsOwned` | `[]VerifiedIsNotMissing` | the digests one query takes of a file are among those the other counts as owned |
| `SchemaTypeCorrect` | `[]SchemaTypeOK`: names and ids of systems stay keys through every move | `CanMove` and `CanInsert` are exactly what the keys need |
| `OpeningCompletes` | `[]OpenedIsWhole` | `SchemaIInv`: tables come in one order, so a library that has the last one has all, and a migration that needs the last fails on the others; no step takes a column away, and a table of files that the call made has those of `createSchema`; in the migrations each system is in its slot or still to come |
| `RenumberingKeepsSystems` | `SystemsKept` | `KeepsNames`: through each move a row of the transaction names the system it names on disk; a move renames row and references alike and its target is free |
| **`FileServicesProofs`** | | |
| `ArchiveTypeCorrect` | `[]ArchiveTypeOK` | a batch begins only what `MaxExtractions` leaves room for |
| `RejectionUndoes` | `[]RejectedLeavesNothing` | `Accounted`: while a call runs, every file it wrote is in its list, is being written, or could not be removed; the undoing takes files off the list one by one, and the call returns when it is empty |
| `RunnerTypeCorrect`, `ExitCodeTells`, `CancelIsObeyed` | `[]RunnerTypeOK`, `[]GoodIsWhole`, `[]CancelEndsBatch` | `RunnerIInv`: a child is there only while it is waited for, one that ended well left a whole file, and a cancel that was heard keeps the flag set until the batch looks at it |
| `PatchTypeCorrect`, `PatchingIsAllOrNothing` | `[]PatchTypeOK`, `[]PatchIsAllOrNothing` | `PatchCallOK`: after the wait the child is dead, and a dead child writes nothing into what was cleaned, if the removal was not refused |
| `FetchTypeCorrect`, `IngestsWhatItFetched` | `[]FetchTypeOK`, `[]FreshDat` | `FetchOK`: as long as a fetch is alone, the zip is the one it downloaded, the directory was emptied before its DAT came, or is among the refused, and every system is wanted once |
| `EnrichTypeCorrect`, `CoversAreKept` | `[]EnrichTypeOK`, `[]CoverHasBoxart` | `PassOK`: what a pass saw and has of a game's assets still holds when it writes, as no asset is ever taken away; `CleanOK`: a pass that nothing interrupted leaves behind it only games with their boxart, so its end can clear `torn` |
| `DiscTypeCorrect` | `[]DiscTypeOK` | keys and numbers of rows and of calls |
| `RebuildsGather` (`DigestNamesTitle`) | `[]SetsAreTogether` | `Gathered`: a rebuild decides from the keys of the last one, and keys of rows that belong together agree after its two passes whatever they were before; `WriterOK`: what is not yet written is as decided |
| `CompleteIsComplete` | `[]CompleteMeansEveryTrack` | the report asks the disc count, each number up to it and the gaps of each owned disc; together these are all tracks of the discs that could be read |
| `PlaylistsAreSorted` (`NumbersAgree`) | `[]PlaylistInDiscOrder` | a number that is stored, counted or looked up is the name's or none, so the order of the catalog's numbers is that of the names'; that an order of a finite set has its sequence (`SetToSeqs`) is proved by counting predecessors |
| `ServicesAreTyped` | `[]ServicesTypeOK` of `MCServices` | a step of the composition is a step of one service and leaves the variables of the others alone, so each has its own specification's behaviours (`EachService`) |

Each invariant was first checked with TLC on the runs' instances. `TypeOK` of the bundler
is no invariant of a run: the conjuncts of `IInv` say more about the same variables. The hypotheses
hold of the instances of the runs whose property they serve; TLC evaluated them there.

What the proofs changed in the models: the history variable `behind` (above); the UNIQUE names of systems, without
which a renumbering could make two rows of one name; the assumption that old libraries are well formed
(`SchemaAssumption`) and that the catalog's disc numbers are numbers (`TopologyAssumption`: they come out of a
fold over the records of a DAT, and induction over data is beyond the prover).

## 5. Where code and documents disagree

- **Undo order** (`organize_undo_order`). `undoAll` orders by `executed_at` alone, a
  column of one-second resolution; `organize_engine.h:112` promises reverse order. The
  run moves one file twice in one second: the older entry is taken first, finds
  nothing at its new path and fails, and the file ends in the middle.
- **Bundling again with conversion** (`bundle_again`). In a title's folder, the converted image
  is its own destination; it is taken for a left-over payload and removed, and the row
  leads to nothing. `tests/test_rom_bundler.cpp:253` expects the file to be there.
- **Undoing a copy** (`organize_undo_copy`). `executeUndoEntry` removes whatever lies at the new path
  (`organize_engine_undo.cpp:86`). In the run A moves from a to c, B is copied to a, and A moves back over it. One undoAll takes A to c, finds
  no copy to remove, goes on (`:154`) and takes A to a; the entry of the copy is still live, and the next undoAll
  deletes A, of which there is no other. `database_schema.cpp:195` promises a rollback.
- **Columns of old libraries** (`library_columns`). `createSchema` adds `catalog_game_id` and `has_local_artwork`
  (`database_schema.cpp:119`, `:122`); a library that has `systems` never runs it (`database.cpp:73`), and `runMigrations`, "migrations for
  new columns" (`database.cpp:79`), adds neither. The library opens, and every statement that names such a column fails.

## 6. Limits

Only model-checked: liveness (`UndoAllSucceeds`, `WaitsEnd`), which needs fairness and ENABLED. Every other
property of a passing run is a theorem, under the hypotheses of section 4. What a recursive definition computes for
every input is beyond the prover; the sorting of a playlist is therefore defined by what it yields.

What properties leave out, because the code does not give it. A row whose path was updated and whose mark failed is bundled
again by the next run (`MarkedInPlace` is about marked rows). A removal or an emptying that is refused leaves what lay there: temporary zips
(`NoTempLeft`), patched outputs, DATs of an earlier fetch. A zip cut short unnoticed (below) is exempt from `BundledIsWhole`. A cancel
between the look at the flag and its reset is lost (`CancelEndsBatch` counts those that are heard). A crash while a file is set aside leaves the destination empty and
the file under its hidden name (`OverwriteIsAtomic` exempts that step). Two writers of one playlist may leave the tail of the longer list.

Left out of modelled components: the scan for sibling discs that shapes a target path, dry
runs, `rejectMatch` and `removeFile` (no command calls them), members of archives, systems, the lineage of
applied patches, the thirty days after which a miss expires, the reconciliation of disc
sets at the end of `confirmMatch`; in the bundler, sources that are archives,
the contents of markers and artwork, sets of several discs, playlists.

Seen while modelling scan and match, outside their properties. `insertGame` compares `region = NULL`,
which is never true, so its "Check if game already exists" (`database_games.cpp:160`) finds nothing and each match of a
title without a region makes another game. `scanLibrary` links a sheet only to an image of the same scan: one that is put
beside an image scanned before stays alone.

Seen while modelling the bundler, outside its properties: `archive_write_close` writes the end of a zip, its result is ignored
(`archive_creator_compress.cpp:100`), and a read that fails ends the loop before it (`:91`) like the end of the file; so on a full disk the
old bundle is removed, half a zip takes its name and the row is marked. Two rows of one title share
a zip and the second replaces the first; two commands share the name of the temporary
zip; a converted payload stays beside its source when staging fails, or when its removal does; and an image
`game.chd` that lies beside `game.iso` is overwritten and removed.

Seen while modelling the ingest, outside its properties. When the winner of one pair of duplicates loses another pair, the
rows it was given are lost with it (`compendium_compiler_service.cpp:57` moves each row once); `OnlyDroppedAreLost`
leaves that case out and `job.chained` marks it. Games of one title are merged before titles are
chosen: when edition A and edition B share a track, the shared track names A's game B, the first ingest leaves two games B and the
second of the same DAT merges them, so an ingest is not idempotent (`docs/implementation-plan.md:94` says it is). A hash that two DATs list belongs to the first; when that one drops it, it is gone until the other is
ingested again. Left out of the ingest: regions and the pruning of serials by region, disc sets, `game_names` (it
repeats the title facts), `source_items`, fields other than the title.

Seen while modelling the services, outside their properties:

- *Verification*: `importDat` has no caller but the tests; the patch tables that `loadPatchDatCache` looks for in a
  catalog are created by none of its scripts.
- *Tools*: `cancel()` has no caller in the program. A run whose child outlives SIGKILL by three seconds is reported with exit code 0.
- *Patching*: right after `QProcess::start` the state is Starting, and a helper that asks for Running returns at
  once; with the base as output, IPS and PPF remove the base before they copy it; the writes of the built-in patcher are not checked;
  `applyBPS` and `applyXDelta` leave a partial output.
- *GUI*: a job that fails does not reload; the message of a finished job is overwritten by the count that the reload writes. If
  a job outlasts the five seconds of the destructor, its QThread is destroyed while running, which ends the program.
- *Library schema*: a crash after `systems` and before `matches` was created leaves a library that no later call can open. So does a
  row in a canonical slot under another name that something refers to: its `UPDATE` violates the foreign key.
- *Catalog schema*: a crash between a script that runs once (0003, 0010) and its version, or in the middle of 0013, makes every later `init` fail.
  Overlapping `init`s can put an older version back, and one may run 0013 again under the version the other stored: if it dies between
  DROP and RENAME, `game_disc_tracks` is gone and no later `init` brings it back. Script 0003 sets `libretro_name` before the seeds insert any system, so on a fresh catalog it stays empty;
  a crash after the second seed leaves the third table empty for good.
- *Disc sets*: of the commands only organizing attaches the catalog, and no rebuild runs then; the completeness report has no caller among
  them; two sets of one title write one playlist, the second over the first; a playlist whose writing fails stays truncated.
- *Archives*: an extraction that lost members is a success if it has any; a read error after the first
  member too; a file that a rejected archive overwrote is not restored; after "too many failures" everything stays.
- *Downloads*: two processes that fetch one system share zip and directory, and an older release can come back. All zips are
  downloaded before the first is ingested; a failure in the middle of the ingests leaves the earlier ones.
- *Enrichment*: a network error is an empty answer and remembered as a miss for thirty days. An import replaces a cover but not
  its asset, so the two URLs can differ.

Left out of the services: how tools and archives are read and listed, records of IPS files, reports, `--from-dir` and dry runs
of the fetch, the other columns and the indexes of the tables, variants and regions of disc sets, the paths in a playlist,
three of the four thumbnail types (they are stored like `hero`), and libraries whose oldest tables have no foreign keys.

Not modelled: the command line (argument parsing; its commands are the processes of the models); hashing and the stripping
of headers (bytes of one file); the tables of systems and names and the text parsers of the catalog
(characters, nothing shared or ordered); the artwork cache (one function that writes one file; a short write is served from then
on); the walk of the scanner. They are the components with status `not_modelled` in `PROJECT.json`, with the reason there.

## 7. Plan

Done: organizing and undoing, scanning and matching, bundling, catalog ingest, and the ten services. Left:

1. `OrganizeRescan`, the composition of `OrganizeEngine` and `LibraryMatch`: the stale row that organizing writes
   back, and the second row a scan of the organized folder stores.
2. `RomBundler`'s `Convert` shown to be what `ToolRunner` allows.
3. Pure algorithms against reference definitions: the ranking of facts, the IPS patcher, collision names.
