------------------------------- MODULE DiscSets -------------------------------
(***************************************************************************)
(* The sets of discs: core/database_disc_sets.cpp, core/disc_set_utils.cpp *)
(* and core/disc_set_key.cpp, which group the rows of the library;         *)
(* catalog/compendium_disc_set_inserter.cpp, which stores what a DAT says; *)
(* core/compendium_disc_bridge.cpp, which compares the two; and            *)
(* core/m3u_generator.cpp, which writes a playlist for every set.          *)
(*                                                                         *)
(* A rebuild reads all rows in one SELECT and then updates them one by one *)
(* without a transaction; another process stores, confirms, rebuilds or    *)
(* writes playlists in between.  Titles are values: what the title parser  *)
(* makes of a file's name is the constant Label.  A file is the sequence   *)
(* of its lines.                                                           *)
(***************************************************************************)
EXTENDS Naturals, Sequences, FiniteSets, SequencesExt

CONSTANTS
    Worker,     \* processes that rebuild and write playlists
    Disc,       \* primary rows of one library, in the order of their filenames
    Scanned,    \* the rows an earlier scan has stored
    Known,      \* those whose game has been confirmed before
    Label,      \* what each name gives: the title of its set (with system) and its disc
                \* number, "" and 0 if it has no such number; its own title; and what the row's
                \* base_title holds, "" if nothing
    Signature,  \* the digest of each row, "none" if not calculated
    ConfirmedAs,\* the game each row can be confirmed as, "none" if none
    Dats,       \* what can be ingested: sequences of records
    MaxIngestions, MaxRebuilds, MaxDiscFaults

ASSUME DiscAssumption ==
    /\ Disc \subseteq Nat /\ IsFiniteSet(Disc) /\ Scanned \subseteq Disc /\ Known \subseteq Scanned
    /\ \A f \in Disc : Label[f].disc \in Nat /\ (Label[f].title = "" => Label[f].disc = 0)

VARIABLES
    sets,      \* disc_set_key and disc_number of each stored row
    confirmed, \* the confirmed game of each row
    topology,  \* game_disc_sets and game_disc_tracks of the catalog
    rebuilds,  \* for each process: its call, the rows still to be written
    playlists, \* what each playlist file holds: lines written last, lines left behind them
    settled,   \* whether the last write was the end of an undisturbed rebuild
    discUses

discVars == <<sets, confirmed, topology, rebuilds, playlists, settled, discUses>>

NoKey == <<"none">>
Uses == [ingestions |-> 0, rebuilds |-> 0, faults |-> 0]
Spend(what, max) == discUses[what] < max /\ discUses' = [discUses EXCEPT ![what] = @ + 1]

IdleWorker == [step |-> "idle", todo |-> {}, rest |-> {}, meta |-> <<>>, title |-> "", discs |-> <<>>,
               attached |-> FALSE, fresh |-> FALSE]
Titles == {Label[f].name : f \in Disc} \cup {Label[f].base : f \in Disc}
          \cup {r.title : r \in UNION {Range(d) : d \in Dats}}
EmptyFile == [written |-> <<>>, left |-> <<>>]

(* A scan keys every row with a disc number in its name.                   *)
LabelKey(f) == IF Label[f].title = "" THEN NoKey ELSE <<"label", Label[f].title>>
applyScanDiscMetadata(f) == [key |-> LabelKey(f), disc |-> Label[f].disc]

DiscInit ==
    /\ sets = [f \in Scanned |-> applyScanDiscMetadata(f)]
    /\ confirmed = [f \in Disc |-> IF f \in Known THEN ConfirmedAs[f] ELSE "none"]
    /\ topology = {}
    /\ rebuilds = [p \in Worker |-> IdleWorker]
    /\ playlists = [t \in Titles |-> EmptyFile]
    /\ settled = "no" /\ discUses = Uses

(* Any write makes what others have read old.                              *)
Disturb(p) == [q \in Worker |-> IF q = p THEN rebuilds[q] ELSE [rebuilds[q] EXCEPT !.fresh = FALSE]]

-----------------------------------------------------------------------------
(***************************************************************************)
(* The catalog.  A record is one ROM of a block: title and number of its   *)
(* disc, the count its name gives or 0, its index, entry and signature.    *)
(***************************************************************************)
LargestOf(S) == CHOOSE m \in S \cup {0} : \A x \in S : x <= m

effectiveDiscCounts(records, t) ==
    LET of == {r \in Range(records) : r.title = t}
        given == LargestOf({r.count : r \in of})
        counted == LargestOf({r.disc : r \in of})
    IN  IF given > 0 THEN given ELSE IF counted > 0 THEN counted ELSE 1

(* INSERT OR IGNORE: the first row of a key stays.                         *)
ensureDiscSet(topo, r, count) ==
    IF \E d \in topo : d.title = r.title /\ d.disc = r.disc THEN topo
    ELSE topo \cup {[title |-> r.title, disc |-> r.disc, count |-> count, tracks |-> {}]}

insertTrack(topo, r) ==
    {IF d.title = r.title /\ d.disc = r.disc /\ \A t \in d.tracks : t.index # r.index /\ t.entry # r.entry
     THEN [d EXCEPT !.tracks = @ \cup {[index |-> r.index, entry |-> r.entry, signature |-> r.signature]}]
     ELSE d : d \in topo}

insertDiscTopologyForRecords(records) ==
    FoldLeft(LAMBDA topo, r : insertTrack(ensureDiscSet(topo, r, effectiveDiscCounts(records, r.title)), r),
             {}, records)

ASSUME TopologyAssumption == \A dat \in Dats : \A d \in insertDiscTopologyForRecords(dat) : d.disc \in Nat

(* ingestDat purges the source, then inserts, in one transaction.          *)
IngestDiscs ==
    /\ Spend("ingestions", MaxIngestions)
    /\ \E dat \in Dats : topology' = insertDiscTopologyForRecords(dat)
    /\ rebuilds' = [q \in Worker |-> [rebuilds[q] EXCEPT !.fresh = FALSE]]
    /\ settled' = "no"
    /\ UNCHANGED <<sets, confirmed, playlists>>

(* One row of any disc with a track of that digest (LIMIT 1).              *)
lookupDiscContextInDb(f) ==
    {d \in topology : Signature[f] # "none" /\ \E t \in d.tracks : t.signature = Signature[f]}

-----------------------------------------------------------------------------
(***************************************************************************)
(* The library.                                                            *)
(***************************************************************************)
StoreDisc(f) ==
    /\ f \notin DOMAIN sets
    /\ sets' = [g \in DOMAIN sets \cup {f} |-> IF g = f THEN applyScanDiscMetadata(f) ELSE sets[g]]
    /\ rebuilds' = [q \in Worker |-> [rebuilds[q] EXCEPT !.fresh = FALSE]]
    /\ settled' = "no"
    /\ UNCHANGED <<confirmed, topology, playlists, discUses>>

(* rebuildDiscSetsForLibrary: the catalog first, if one is attached, then  *)
(* the name; rows confirmed as one game are a set whatever their names     *)
(* say.  A game is one of a system: ConfirmedAs is "none" for rows of no   *)
(* system, which database_disc_sets.cpp does not count as mates, and       *)
(* another value for another system.                                       *)
RowMeta(f, context) ==
    IF context # {}
    THEN LET d == CHOOSE d \in context : TRUE IN [key |-> <<"catalog", d.title>>, disc |-> d.disc, from |-> TRUE]
    ELSE [key |-> LabelKey(f), disc |-> Label[f].disc, from |-> FALSE]

GameMates(meta, f) ==
    {g \in DOMAIN meta : ~meta[g].from /\ confirmed[g] # "none" /\ confirmed[g] = confirmed[f]}
Grouped(meta) ==
    [f \in DOMAIN meta |->
        IF ~meta[f].from /\ f \in GameMates(meta, f) /\ Cardinality(GameMates(meta, f)) >= 2
        THEN [meta[f] EXCEPT !.key = <<"game", confirmed[f]>>] ELSE meta[f]]

(* keyCounts: a key of one row is no set, unless the catalog says so.      *)
CountedEarly(meta, before) == \* mutant: keys are counted before games are grouped
    [f \in DOMAIN meta |->
        IF ~meta[f].from /\ (meta[f].key = NoKey \/ Cardinality({g \in DOMAIN meta : before[g].key = before[f].key}) < 2)
        THEN [key |-> NoKey, disc |-> 0] ELSE [key |-> meta[f].key, disc |-> meta[f].disc]]
Counted(meta, before) ==
    [f \in DOMAIN meta |->
        IF ~meta[f].from /\ (meta[f].key = NoKey \/ Cardinality({g \in DOMAIN meta : meta[g].key = meta[f].key}) < 2)
        THEN [key |-> NoKey, disc |-> 0] ELSE [key |-> meta[f].key, disc |-> meta[f].disc]]

RebuildOf(attached) ==
    LET meta == [f \in DOMAIN sets |-> RowMeta(f, IF attached THEN lookupDiscContextInDb(f) ELSE {})]
    IN  Counted(Grouped(meta), meta)

rebuildDiscSetsForLibrary(p) ==
    \E attached \in BOOLEAN :
        rebuilds' = [rebuilds EXCEPT ![p] = [IdleWorker EXCEPT !.step = "write", !.todo = DOMAIN sets,
                                             !.meta = RebuildOf(attached), !.attached = attached, !.fresh = TRUE]]

(* rebuildDiscSetsAll, of the migration.                                   *)
Rebuild(p) ==
    /\ rebuilds[p].step = "idle" /\ Spend("rebuilds", MaxRebuilds)
    /\ rebuildDiscSetsForLibrary(p)
    /\ UNCHANGED <<sets, confirmed, topology, playlists, settled>>

(* confirmMatch, then reconcileDiscSetForConfirmedFile.                    *)
ConfirmDisc(p, f) ==
    /\ rebuilds[p].step = "idle" /\ f \in DOMAIN sets /\ confirmed[f] # ConfirmedAs[f]
    /\ confirmed' = [confirmed EXCEPT ![f] = ConfirmedAs[f]]
    /\ Spend("rebuilds", MaxRebuilds)
    /\ rebuilds' = [Disturb(p) EXCEPT ![p].step = "reconcile"]
    /\ settled' = "no"
    /\ UNCHANGED <<sets, topology, playlists>>

Reconcile(p) ==
    /\ rebuilds[p].step = "reconcile" /\ rebuildDiscSetsForLibrary(p)
    /\ UNCHANGED <<sets, confirmed, topology, playlists, settled, discUses>>

(* One UPDATE; the order is that of a hash.                                *)
WriteRow(p, f) ==
    /\ rebuilds[p].step = "write" /\ f \in rebuilds[p].todo
    /\ sets' = [sets EXCEPT ![f] = rebuilds[p].meta[f]]
    /\ LET last == rebuilds[p].todo = {f} IN
       /\ rebuilds' = [Disturb(p) EXCEPT ![p] = IF last THEN IdleWorker ELSE [rebuilds[p] EXCEPT !.todo = @ \ {f}]]
       /\ settled' = IF last /\ rebuilds[p].fresh THEN (IF rebuilds[p].attached THEN "attached" ELSE "alone") ELSE "no"
    /\ UNCHANGED <<confirmed, topology, playlists, discUses>>

-----------------------------------------------------------------------------
(***************************************************************************)
(* Playlists: the rows are grouped by one SELECT without ORDER BY, then    *)
(* read again, each by a SELECT of its own; a row whose SELECT fails is    *)
(* left out.  The file is truncated when it is opened and written when it  *)
(* is closed, from its beginning.                                          *)
(***************************************************************************)
groupByDiscSetKey ==
    {g \in {{f \in DOMAIN sets : sets[f].key = k} : k \in {sets[f].key : f \in DOMAIN sets} \ {NoKey}} :
        Cardinality(g) >= 2}

generateAll(p) ==
    /\ rebuilds[p].step = "idle" /\ groupByDiscSetKey # {} /\ Spend("rebuilds", MaxRebuilds)
    /\ rebuilds' = [rebuilds EXCEPT ![p] = [IdleWorker EXCEPT !.step = "playlist", !.todo = groupByDiscSetKey]]
    /\ UNCHANGED <<sets, confirmed, topology, playlists, settled>>

StartPlaylist(p, group) ==
    /\ rebuilds[p].step = "playlist" /\ group \in rebuilds[p].todo
    /\ rebuilds' = [rebuilds EXCEPT ![p] = [rebuilds[p] EXCEPT !.step = "read", !.todo = @ \ {group}, !.rest = group]]
    /\ UNCHANGED <<sets, confirmed, topology, playlists, settled, discUses>>

ReadDisc(p, f) ==
    /\ rebuilds[p].step = "read" /\ f \in rebuilds[p].rest
    /\ LET others == [rebuilds[p] EXCEPT !.rest = @ \ {f}]
           rows == rebuilds[p].meta
       IN  \/ /\ rebuilds' = [rebuilds EXCEPT ![p] =
                   [others EXCEPT !.meta = [g \in DOMAIN rows \cup {f} |-> IF g = f THEN sets[f] ELSE rows[g]]]]
              /\ UNCHANGED discUses
           \/ rebuilds' = [rebuilds EXCEPT ![p] = others] /\ Spend("faults", MaxDiscFaults)
    /\ UNCHANGED <<sets, confirmed, topology, playlists, settled>>

(* The number in the row as read, else the catalog's, else the name's.     *)
StoredNumber(rows, f) == rows[f].disc \* mutant: a number that is not stored is not looked for
catalogDiscNumberForFile(rows, f) ==
    IF rows[f].disc > 0 THEN rows[f].disc
    ELSE IF \E d \in lookupDiscContextInDb(f) : d.disc > 0
         THEN (CHOOSE d \in lookupDiscContextInDb(f) : d.disc > 0).disc
    ELSE Label[f].disc

ComesBefore(rows, f, g) ==
    LET a == catalogDiscNumberForFile(rows, f) b == catalogDiscNumberForFile(rows, g)
    IN  a < b \/ (a = b /\ f < g)
sortByDiscNumber(rows) ==
    CHOOSE s \in SetToSeqs(DOMAIN rows) : \A i, j \in DOMAIN s : i < j => ComesBefore(rows, s[i], s[j])

(* The catalog's title, else the first name's, else the first stored one.  *)
SummaryTitle(key) ==
    IF Len(key) = 2 /\ key[1] = "catalog" /\ \E d \in topology : d.title = key[2] /\ d.disc > 0 THEN key[2] ELSE ""
titleForDiscSet(rows, discs) ==
    LET given == SelectSeq(IF discs = <<>> THEN <<>>
                           ELSE <<SummaryTitle(rows[discs[1]].key), Label[discs[1]].name>>
                                \o [i \in DOMAIN discs |-> Label[discs[i]].base],
                           LAMBDA t : t # "")
    IN  IF given = <<>> THEN "" ELSE given[1]

(* The catalog is the one organizing has attached.  A set that has no      *)
(* title, or a file that cannot be opened, is passed over.                 *)
OpenPlaylist(p) ==
    /\ rebuilds[p].step = "read" /\ rebuilds[p].rest = {}
    /\ LET discs == sortByDiscNumber(rebuilds[p].meta)
           title == titleForDiscSet(rebuilds[p].meta, discs)
       IN  \/ /\ title # ""
              /\ playlists' = [playlists EXCEPT ![title] = EmptyFile]
              /\ rebuilds' = [rebuilds EXCEPT ![p] = [rebuilds[p] EXCEPT !.step = "file", !.meta = <<>>, !.title = title,
                                                                           !.discs = discs]]
              /\ UNCHANGED discUses
           \/ /\ IF title = "" THEN UNCHANGED discUses ELSE Spend("faults", MaxDiscFaults)
              /\ rebuilds' = [rebuilds EXCEPT ![p] = [rebuilds[p] EXCEPT !.step = "playlist", !.meta = <<>>]]
              /\ UNCHANGED playlists
    /\ UNCHANGED <<sets, confirmed, topology, settled>>

(* What another has written since the file was opened is written over, and *)
(* where that was longer its end stays.                                    *)
Overwritten(file, lines) ==
    LET old == file.written \o file.left IN
    [written |-> lines, left |-> SubSeq(old, Len(lines) + 1, Len(old))]
writeM3UFile(p) ==
    /\ rebuilds[p].step = "file"
    /\ playlists' = [playlists EXCEPT ![rebuilds[p].title] = Overwritten(@, rebuilds[p].discs)]
    /\ rebuilds' = [rebuilds EXCEPT ![p] = [@ EXCEPT !.step = "playlist", !.title = "", !.discs = <<>>]]
    /\ UNCHANGED <<sets, confirmed, topology, settled, discUses>>

PlaylistsDone(p) ==
    /\ rebuilds[p].step = "playlist" /\ rebuilds[p].todo = {}
    /\ rebuilds' = [rebuilds EXCEPT ![p] = IdleWorker]
    /\ UNCHANGED <<sets, confirmed, topology, playlists, settled, discUses>>

(* A statement fails or the process dies: the rest of the rows, or of the  *)
(* file, is not written.                                                   *)
DiscWorkerDies(p) ==
    /\ rebuilds[p].step # "idle" /\ Spend("faults", MaxDiscFaults)
    /\ rebuilds' = [rebuilds EXCEPT ![p] = IdleWorker]
    /\ settled' = "no"
    /\ UNCHANGED <<sets, confirmed, topology, playlists>>

DiscNext ==
    \/ IngestDiscs
    \/ \E f \in Disc : StoreDisc(f)
    \/ \E p \in Worker :
        \/ Rebuild(p) \/ Reconcile(p) \/ generateAll(p) \/ OpenPlaylist(p) \/ writeM3UFile(p)
        \/ PlaylistsDone(p) \/ DiscWorkerDies(p)
        \/ \E f \in Disc : ConfirmDisc(p, f) \/ WriteRow(p, f) \/ ReadDisc(p, f)
        \/ \E group \in SUBSET Disc : StartPlaylist(p, group)

DiscSpec == DiscInit /\ [][DiscNext]_discVars

-----------------------------------------------------------------------------
(***************************************************************************)
(* The completeness report of a set: the rows with its key, the discs of   *)
(* the catalog those rows are tracks of, and the tracks of these discs.    *)
(* The discs in unread are those whose SELECT of tracks fails, which reads *)
(* as a disc of no tracks; when that of the rows' hashes fails the set of  *)
(* hashes is empty and every track missing, and when that of the discs     *)
(* fails the report is empty and names no owned disc.                      *)
(***************************************************************************)
OwnedRows(t) == {f \in DOMAIN sets : sets[f].key = <<"catalog", t>>}
discCount(t) == LargestOf({d.count : d \in {d \in topology : d.title = t}})
ownedDiscs(t) == {d \in topology : d.title = t /\ \E f \in OwnedRows(t) : d \in lookupDiscContextInDb(f)}
missingDiscNumbers(t) == (1..discCount(t)) \ {d.disc : d \in ownedDiscs(t)}
libraryHashSet(t) == {Signature[f] : f \in OwnedRows(t)} \ {"none"}

GapIfNothingOwned(t, d) == \* mutant: a disc with one of its tracks is taken for whole
    d.tracks # {} /\ \A x \in d.tracks : x.signature \notin libraryHashSet(t)
trackGapForDiscSet(t, d) == \E x \in d.tracks : x.signature = "none" \/ x.signature \notin libraryHashSet(t)
ReportedComplete(t, unread) ==
    ownedDiscs(t) # {} /\ missingDiscNumbers(t) = {} /\ \A d \in ownedDiscs(t) \ unread : ~trackGapForDiscSet(t, d)

DiscTypeOK ==
    /\ DOMAIN sets \subseteq Disc
    /\ \A f \in DOMAIN sets : sets[f].disc \in Nat /\ sets[f].key[1] \in {"none", "label", "game", "catalog"}
    /\ settled \in {"no", "alone", "attached"}
    /\ \A p \in Worker : rebuilds[p].step \in {"idle", "reconcile", "write", "playlist", "read", "file"}

(* After a rebuild that nothing disturbed, two rows have one key exactly   *)
(* when they belong together, and a row without company has none unless    *)
(* the catalog gave it: whichever of confirmed games, names and the        *)
(* catalog put them there, and whatever keys earlier scans, failures and   *)
(* overlapping rebuilds left.                                              *)
Catalogued(f) == settled = "attached" /\ lookupDiscContextInDb(f) # {}
PlayedTogether(f, g) == confirmed[f] # "none" /\ confirmed[f] = confirmed[g] /\ ~Catalogued(f) /\ ~Catalogued(g)
InGame(f) == \E g \in DOMAIN sets \ {f} : PlayedTogether(f, g)
Together(f, g) ==
    \/ Catalogued(f) /\ Catalogued(g)
       /\ {d.title : d \in lookupDiscContextInDb(f)} = {d.title : d \in lookupDiscContextInDb(g)}
    \/ PlayedTogether(f, g)
    \/ ~Catalogued(f) /\ ~Catalogued(g) /\ ~InGame(f) /\ ~InGame(g)
       /\ Label[f].title = Label[g].title /\ Label[f].title # ""
SetsAreTogether ==
    settled # "no" =>
        \A f \in DOMAIN sets :
            /\ \A g \in DOMAIN sets \ {f} : (sets[f].key # NoKey /\ sets[f].key = sets[g].key) <=> Together(f, g)
            /\ sets[f].key # NoKey => Catalogued(f) \/ \E g \in DOMAIN sets \ {f} : Together(f, g)

(* The discs a playlist was last written with are in the order of their    *)
(* numbers, also when the rebuild of another process erases the stored     *)
(* numbers between the SELECT that groups the rows and those that read     *)
(* them, or between two of these.  Lines that a longer list of another     *)
(* writer left behind them are no part of it.                              *)
PlaylistInDiscOrder ==
    \A t \in Titles : LET discs == playlists[t].written IN
        \A i, j \in DOMAIN discs :
            i < j /\ Label[discs[j]].disc > 0 => Label[discs[i]].disc <= Label[discs[j]].disc

(* A set the report finds nothing wrong with is there track by track: for  *)
(* every disc the catalog counts, each track is some row of the set, but   *)
(* for the discs whose tracks could not be read.                           *)
CompleteMeansEveryTrack ==
    \A t \in Titles, unread \in SUBSET topology : ReportedComplete(t, unread) =>
        \A n \in 1..discCount(t) : \E d \in topology :
            /\ d.title = t /\ d.disc = n
            /\ d \in unread \/ \A x \in d.tracks : \E f \in OwnedRows(t) : Signature[f] = x.signature
=============================================================================
