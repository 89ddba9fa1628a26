---------------------------- MODULE CatalogIngest ----------------------------
(***************************************************************************)
(* catalog ingest: one DAT is put into the catalog database in one         *)
(* transaction, catalog/catalog_ingest.cpp.  CompendiumCompilerService::run *)
(* purges what the source gave before, links each record to a game, stores *)
(* it, merges games that are the same and chooses each game's title.       *)
(*                                                                         *)
(* State: the catalog as it is committed, which is all that matching sees, *)
(* the catalog inside the transaction, and how far run() is.  BEGIN        *)
(* IMMEDIATE keeps other writers out, so there is one process; it can fail *)
(* or die at any statement, and the transaction is then rolled back.       *)
(*                                                                         *)
(* All records are of one system and one region.  sha1 stands for sha256,  *)
(* sha1 and md5, crc for crc32, the weakest hash that links records.       *)
(* The only field of a game is its title; game_names, which repeats the    *)
(* titles of its facts, disc sets and source_items are left out.           *)
(***************************************************************************)
EXTENDS Integers, Sequences, FiniteSets

CONSTANTS
    Source,      \* DATs, numbered in the order of their ids
    Dats,        \* the versions each of them comes in
    Title,       \* game names
    Norm,        \* normalizeForIdentity() of a title
    Base,        \* identityBase of a title
    Length,      \* length of a title
    NormLength,  \* length of its normalized form
    Serial, Sha1, Crc, Key,  \* what records carry
    None,        \* no serial, no hash
    MaxIngests,  \* bound on ingests
    MaxFaults    \* bound on ingests that fail

Hash == Sha1 \cup Crc

(* generateGameId() hashes the sha1 or, without one, the external key; the *)
(* id is taken to be what it is made from, and numbers give ids an order.  *)
GameId == Sha1 \cup Key

Record == [key : Key, title : Title, serial : Serial \cup {None},
           sha1 : Sha1 \cup {None}, crc : Crc \cup {None}]

ASSUME RecordsAssumption ==
    /\ GameId \subseteq Nat /\ Source \subseteq Nat /\ Sha1 \cap Key = {} /\ Sha1 \cap Crc = {}
    /\ None \notin Hash /\ None \notin Serial
    /\ \A s \in Source : \A d \in Dats[s] : d \in Seq(Record) /\ d # <<>>

ASSUME TitlesAssumption ==
    /\ Length \in [Title -> Nat] /\ NormLength \in [Title -> Nat]
    /\ \A t, u \in Title : Norm[t] = Norm[u] => NormLength[t] = NormLength[u]

ASSUME BoundsAssumption == MaxIngests \in Nat /\ MaxFaults \in Nat

VARIABLES
    db,      \* the catalog as committed
    tx,      \* the catalog within the transaction
    pc,      \* the next step of run()
    job,     \* its locals
    listed,  \* the version of each source that was ingested last
    ingests, faults  \* how often so far

vars == <<db, tx, pc, job, listed, ingests, faults>>

-----------------------------------------------------------------------------
(* The tables, by their unique keys: games to canonical_title, hashes to   *)
(* game and source, serials of a game to source and title, title facts of  *)
(* a game to confidence and fact_id; and the fact_id that comes next.      *)
Confidence == {50, 60, 80, 90, 100}
Link == [game : GameId, conf : Confidence]

Catalog(games, sigs, serials, facts, next) ==
    [games |-> games, sigs |-> sigs, serials |-> serials, facts |-> facts, next |-> next]

IsTable(t, K, V) ==
    /\ t = [k \in DOMAIN t |-> t[k]]
    /\ DOMAIN t \subseteq K
    /\ \A k \in DOMAIN t : t[k] \in V

IsCatalog(c) ==
    /\ c = Catalog(c.games, c.sigs, c.serials, c.facts, c.next)
    /\ c.next \in Nat
    /\ IsTable(c.games, GameId, Title)
    /\ IsTable(c.sigs, Hash, [game : DOMAIN c.games, source : Source])
    /\ IsTable(c.serials, [serial : Serial, game : DOMAIN c.games],
               [source : Source, title : Title])
    /\ IsTable(c.facts, [game : DOMAIN c.games, title : Title, source : Source],
               [conf : Confidence, id : Nat])

Empty == Catalog(<<>>, <<>>, <<>>, <<>>, 1)

NoJob == [source |-> None, dat |-> <<>>, linked |-> <<>>, stored |-> 0, chained |-> FALSE]

Init ==
    /\ db = Empty /\ tx = Empty
    /\ pc = "idle" /\ job = NoJob
    /\ listed = [s \in Source |-> <<>>]
    /\ ingests = 0 /\ faults = 0

Keep(t, S) == [k \in S |-> t[k]]

(* INSERT OR IGNORE.                                                       *)
OrIgnore(t, new) ==
    [k \in DOMAIN t \cup DOMAIN new |-> IF k \in DOMAIN t THEN t[k] ELSE new[k]]

-----------------------------------------------------------------------------
(* A purge that leaves the facts.                                          *)
PurgedOfHashes(c, s) ==
    Catalog(c.games,
            Keep(c.sigs, {h \in DOMAIN c.sigs : c.sigs[h].source # s}),
            Keep(c.serials, {k \in DOMAIN c.serials : c.serials[k].source # s}),
            c.facts,
            c.next)

(* purgeSourceIngestData(): games stay, also those without facts.          *)
Purged(c, s) ==
    Catalog(c.games,
            Keep(c.sigs, {h \in DOMAIN c.sigs : c.sigs[h].source # s}),
            Keep(c.serials, {k \in DOMAIN c.serials : c.serials[k].source # s}),
            Keep(c.facts, {k \in DOMAIN c.facts : k.source # s}),
            c.next)

(* BEGIN IMMEDIATE, the source's row, and the purge.                       *)
Begin(s) ==
    /\ pc = "idle" /\ ingests < MaxIngests
    /\ \E d \in Dats[s] : job' = [NoJob EXCEPT !.source = s, !.dat = d]
    /\ tx' = Purged(db, s)
    /\ pc' = "link" /\ ingests' = ingests + 1
    /\ UNCHANGED <<db, listed, faults>>

(* IdentityLinker::link() knows the records of this run only: its maps are *)
(* loaded from the catalog for a preloadIdentityLinker nobody sets.        *)
Earliest(S) == CHOOSE i \in S : \A j \in S : i <= j
Latest(S) == CHOOSE i \in S : \A j \in S : i >= j

Linked(game, conf) == [game |-> game, conf |-> conf]

LinkNext ==
    LET i == Len(job.linked) + 1
        rec == job.dat[i]
        seen == 1 .. Len(job.linked)
        bySha1 == {j \in seen : rec.sha1 # None /\ job.dat[j].sha1 = rec.sha1}
        byCrc == {j \in seen : rec.crc # None /\ job.dat[j].crc = rec.crc}
        bySerial == {j \in seen : /\ rec.serial # None /\ job.dat[j].serial = rec.serial
                                  /\ Base[job.dat[j].title] = Base[rec.title]}
        byTitle == {j \in seen : Norm[job.dat[j].title] = Norm[rec.title]}
        GameOf(j) == job.linked[j].game
        Assign(link) == job' = [job EXCEPT !.linked = Append(@, link)]
    IN  /\ pc = "link" /\ i <= Len(job.dat)
        /\ \/ bySha1 # {} /\ Assign(Linked(GameOf(Latest(bySha1)), 100))
           \/ /\ bySha1 = {} /\ byCrc # {}
              /\ Assign(Linked(GameOf(Latest(byCrc)), 90))
           \/ /\ bySha1 \cup byCrc = {} /\ bySerial # {}
              /\ Assign(Linked(GameOf(Earliest(bySerial)), 80))
           \/ /\ bySha1 \cup byCrc \cup bySerial = {} /\ byTitle # {}
              /\ Assign(Linked(GameOf(Earliest(byTitle)), 60))
           \/ /\ bySha1 \cup byCrc \cup bySerial \cup byTitle = {}
              /\ Assign(Linked(IF rec.sha1 # None THEN rec.sha1 ELSE rec.key, 50))
        /\ UNCHANGED <<db, tx, pc, listed, ingests, faults>>

EndLink ==
    /\ pc = "link" /\ Len(job.linked) = Len(job.dat)
    /\ pc' = "store"
    /\ UNCHANGED <<db, tx, job, listed, ingests, faults>>

(* FactInserter: game, signatures, serial and title fact of one record,    *)
(* each of them only where its unique key is free.                         *)
HashesOf(rec) == {rec.sha1, rec.crc} \ {None}

Stored(c, s, rec, link) ==
    LET fact == [game |-> link.game, title |-> rec.title, source |-> s]
    IN  Catalog(OrIgnore(c.games, [g \in {link.game} |-> rec.title]),
            OrIgnore(c.sigs, [h \in HashesOf(rec) |-> [game |-> link.game, source |-> s]]),
            OrIgnore(c.serials, [k \in [serial : {rec.serial} \ {None}, game : {link.game}] |->
                                    [source |-> s, title |-> rec.title]]),
            OrIgnore(c.facts, [k \in {fact} |-> [conf |-> link.conf, id |-> c.next]]),
            IF fact \in DOMAIN c.facts THEN c.next ELSE c.next + 1)

StoreNext ==
    LET i == job.stored + 1
    IN  /\ pc = "store" /\ i <= Len(job.dat)
        /\ tx' = Stored(tx, job.source, job.dat[i], job.linked[i])
        /\ job' = [job EXCEPT !.stored = i]
        /\ pc' = IF i = Len(job.dat) THEN "titles" ELSE "store"
        /\ UNCHANGED <<db, listed, ingests, faults>>

-----------------------------------------------------------------------------
(* deduplicateGames(): first by canonical_title, then by serial and title  *)
(* of the DAT; in each group the game with most signatures, then the       *)
(* lowest id, wins.  _dedup_map holds the pairs of loser and winner.       *)
Outranks(c, w, l) ==
    LET Count(g) == Cardinality({h \in DOMAIN c.sigs : c.sigs[h].game = g})
    IN  Count(w) > Count(l) \/ (Count(w) = Count(l) /\ w < l)

Pairs(c, group) ==
    {p \in group \X group :
        p[1] # p[2] /\ \A g \in group \ {p[2]} : Outranks(c, p[2], g)}

TitlePairs(c) ==
    UNION {Pairs(c, {g \in DOMAIN c.games : c.games[g] = t}) : t \in Title}

SerialPairs(c) ==
    UNION {Pairs(c, {k.game : k \in {k \in DOMAIN c.serials :
                                        k.serial = s /\ c.serials[k].title = t}})
              : s \in Serial, t \in Title}

(* UPDATE OR IGNORE, then DELETE FROM games with its cascade: rows move to *)
(* the winner where its key is free, rows of losers go.  The losers' rows  *)
(* are updated in the order of their games, the list of the IN.            *)
Target(g, to) == IF g \in DOMAIN to THEN to[g] ELSE g

(* Without the cascade rows stay where the winner has their key.           *)
ReassignedLeaving(t, to) ==
    LET Moved(k) == [k EXCEPT !.game = Target(@, to)]
        stuck == {k \in DOMAIN t : Moved(k) \in DOMAIN t}
        From(k) == {j \in DOMAIN t : Moved(j) = k}
    IN  [k \in {Moved(j) : j \in DOMAIN t} \cup stuck |->
            IF k \in DOMAIN t THEN t[k] ELSE t[CHOOSE j \in From(k) : TRUE]]

Reassigned(t, to) ==
    LET Moved(k) == [k EXCEPT !.game = Target(@, to)]
        From(k) == {j \in DOMAIN t : Moved(j) = k}
        Row(k) == IF k \in DOMAIN t THEN t[k]
                  ELSE t[CHOOSE j \in From(k) : \A i \in From(k) : j.game <= i.game]
    IN  [k \in {k \in {Moved(j) : j \in DOMAIN t} : k.game \notin DOMAIN to} |-> Row(k)]

(* A merge that lets the losers' signatures go with them.                  *)
MergedOfFacts(c, to) ==
    LET games == DOMAIN c.games \ DOMAIN to
    IN  Catalog(Keep(c.games, games),
                Keep(c.sigs, {h \in DOMAIN c.sigs : c.sigs[h].game \in games}),
                Reassigned(c.serials, to), Reassigned(c.facts, to), c.next)

Merged(c, to) ==
    Catalog(Keep(c.games, DOMAIN c.games \ DOMAIN to),
            [h \in {h \in DOMAIN c.sigs : Target(c.sigs[h].game, to) \notin DOMAIN to} |->
                [c.sigs[h] EXCEPT !.game = Target(@, to)]],
            Reassigned(c.serials, to),
            Reassigned(c.facts, to),
            c.next)

(* A loser of several pairs goes to the winner of any one of them, and a   *)
(* winner that loses elsewhere takes what it was given along.              *)
Merge(pairs) ==
    LET losers == {p[1] : p \in pairs}
    IN  \E to \in [losers -> {p[2] : p \in pairs}] :
            /\ \A l \in losers : <<l, to[l]>> \in pairs
            /\ tx' = Merged(tx, to)
            /\ job' = [job EXCEPT !.chained = @ \/ \E l \in losers : to[l] \in losers]

MergeTitles ==
    /\ pc = "titles" /\ Merge(TitlePairs(tx))
    /\ pc' = "serials"
    /\ UNCHANGED <<db, listed, ingests, faults>>

MergeSerials ==
    /\ pc = "serials" /\ Merge(SerialPairs(tx))
    /\ pc' = "resolve"
    /\ UNCHANGED <<db, listed, ingests, faults>>

-----------------------------------------------------------------------------
(* MergeResolver: the title of greatest confidence, then the shortest one, *)
(* then the oldest fact.  When there are several titles and no hash speaks *)
(* for one, the shortest in normalized form, then the first in the index   *)
(* of facts by game, field and source.                                     *)
Least(S, f) == {k \in S : \A j \in S : f[k] <= f[j]}

Candidates(c, g) == {k \in DOMAIN c.facts : k.game = g}

Winner(c, g) ==
    LET rows == Candidates(c, g)
        weak == /\ \E j, k \in rows : j.title # k.title
                /\ \A k \in rows : c.facts[k].conf < 90
        sure == Least(rows, [k \in rows |-> 100 - c.facts[k].conf])
        short == Least(sure, [k \in rows |-> IF weak THEN NormLength[k.title] ELSE Length[k.title]])
        first == Least(short, [k \in rows |-> IF weak THEN k.source ELSE 0])
    IN  CHOOSE k \in first : \A j \in first : c.facts[k].id <= c.facts[j].id

Resolve ==
    /\ pc = "resolve"
    /\ tx' = [tx EXCEPT !.games = [g \in DOMAIN tx.games |->
                  IF Candidates(tx, g) = {} THEN tx.games[g] ELSE Winner(tx, g).title]]
    /\ pc' = "commit"
    /\ UNCHANGED <<db, job, listed, ingests, faults>>

Commit ==
    /\ pc = "commit"
    /\ db' = tx /\ tx' = Empty
    /\ listed' = [listed EXCEPT ![job.source] = job.dat]
    /\ pc' = "idle" /\ job' = NoJob
    /\ UNCHANGED <<ingests, faults>>

(* A statement fails, or the process dies.                                 *)
Rollback ==
    /\ pc # "idle" /\ faults < MaxFaults
    /\ tx' = Empty /\ pc' = "idle" /\ job' = NoJob
    /\ faults' = faults + 1
    /\ UNCHANGED <<db, listed, ingests>>

Next ==
    \/ \E s \in Source : Begin(s)
    \/ LinkNext \/ EndLink \/ StoreNext
    \/ MergeTitles \/ MergeSerials \/ Resolve \/ Commit
    \/ Rollback

Spec == Init /\ [][Next]_vars

-----------------------------------------------------------------------------
(* Types, and the foreign keys: no row leads to a game that is gone, which *)
(* the merges could leave behind.                                          *)
TypeOK ==
    /\ IsCatalog(db) /\ IsCatalog(tx)
    /\ pc \in {"idle", "link", "store", "titles", "serials", "resolve", "commit"}
    /\ job.source \in Source \cup {None}
    /\ job.dat \in Seq(Record) /\ job.linked \in Seq(Link)
    /\ job.stored \in Nat /\ job.chained \in BOOLEAN
    /\ job = [source |-> job.source, dat |-> job.dat, linked |-> job.linked,
              stored |-> job.stored, chained |-> job.chained]
    /\ listed \in [Source -> Seq(Record)]

(* A hash leads to a game whose title some DAT lists, as that DAT was      *)
(* ingested last: purging, merging and resolving leave no name behind that *)
(* only an earlier version gave.                                           *)
NamesAreListed ==
    \A h \in DOMAIN db.sigs :
        \E s \in Source : \E i \in DOMAIN listed[s] :
            listed[s][i].title = db.games[db.sigs[h].game]

(* Ingesting a DAT loses no hash but those the DAT itself gave before and  *)
(* lists no more, unless a winner of the merge was itself a loser.         *)
OnlyDroppedAreLost ==
    [][Commit /\ ~job.chained =>
        \A h \in Hash :
            \/ h \in DOMAIN db'.sigs
            \/ /\ h \notin UNION {HashesOf(job.dat[i]) : i \in DOMAIN job.dat}
               /\ h \in DOMAIN db.sigs => db.sigs[h].source = job.source]_vars

=============================================================================
