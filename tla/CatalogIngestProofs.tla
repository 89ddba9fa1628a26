------------------------ MODULE CatalogIngestProofs ------------------------
(***************************************************************************)
(* Theorems about CatalogIngest: types with the foreign keys, and that no  *)
(* name outlives the DATs that list it, for any DATs and any number of     *)
(* ingests and failures.                                                   *)
(***************************************************************************)
EXTENDS CatalogIngest, WellFoundedInduction, TLAPS

(* Each signature stands beside a title fact of its game and source, and   *)
(* each title fact beside a record of what its source lists.               *)
Supported(c, lists) ==
    /\ \A h \in DOMAIN c.sigs : \E k \in DOMAIN c.facts :
           k.game = c.sigs[h].game /\ k.source = c.sigs[h].source
    /\ \A k \in DOMAIN c.facts : \E i \in DOMAIN lists[k.source] :
           lists[k.source][i].title = k.title

(* A game with facts has the title of one of them.                         *)
Titled(c) ==
    \A k \in DOMAIN c.facts : \E j \in DOMAIN c.facts :
        j.game = k.game /\ j.title = c.games[k.game]

JobOK ==
    /\ pc # "idle" => job.source \in Source
    /\ pc = "store" => Len(job.linked) = Len(job.dat)
    /\ pc \in {"titles", "serials", "resolve", "commit"} => job.stored = Len(job.dat)

(* What the sources list once the transaction is committed.                *)
Listing == [listed EXCEPT ![job.source] = job.dat]

(* The hashes of other sources and of the records that are stored are in   *)
(* the transaction, unless a merge was chained.                            *)
HashesKept ==
    pc # "idle" /\ ~job.chained =>
        /\ \A h \in DOMAIN db.sigs : db.sigs[h].source # job.source => h \in DOMAIN tx.sigs
        /\ \A i \in 1 .. job.stored : HashesOf(job.dat[i]) \subseteq DOMAIN tx.sigs

IInv ==
    /\ TypeOK
    /\ JobOK
    /\ Supported(db, listed) /\ Titled(db)
    /\ pc # "idle" => Supported(tx, Listing)
    /\ pc = "commit" => Titled(tx)
    /\ HashesKept

-----------------------------------------------------------------------------
(* Least elements                                                          *)

LEMMA LeastNonempty ==
    ASSUME NEW S, S # {}, NEW f, \A k \in S : f[k] \in Nat
    PROVE  Least(S, f) # {} /\ Least(S, f) \subseteq S
<1> DEFINE T == {f[k] : k \in S}
<1> DEFINE Below == OpToRel(<, Nat)
<1>0. T \subseteq Nat /\ T # {}
  OBVIOUS
<1>1. PICK n \in T : \A m \in T : <<m, n>> \notin Below
  <2>2. IsWellFoundedOn(OpToRel(<, Nat), Nat)
    BY NatLessThanWellFounded
  <2> HIDE DEF T
  <2> QED
    BY <1>0, <2>2, WFMin, Zenon
<1>4. \A m \in Nat : m < n => <<m, n>> \in Below
  BY <1>0 DEF OpToRel
<1>2. PICK k \in S : f[k] = n
  OBVIOUS
<1>3. \A j \in S : f[k] <= f[j]
  <2>1. SUFFICES ASSUME NEW j \in S PROVE f[k] <= f[j]
    OBVIOUS
  <2>2. f[j] \in T /\ f[j] \in Nat /\ n \in Nat
    BY <1>0
  <2> HIDE DEF T, Below
  <2>3. ~ (f[j] < n)
    BY <1>1, <1>4, <2>2
  <2> QED
    BY <1>2, <2>2, <2>3
<1> QED
  BY <1>2, <1>3 DEF Least

LEMMA EarliestIn ==
    ASSUME NEW S, S \subseteq Nat, S # {}
    PROVE  Earliest(S) \in S
<1>1. PICK i \in Least(S, [j \in S |-> j]) : TRUE
  BY LeastNonempty
<1>2. i \in S /\ \A j \in S : i <= j
  BY <1>1 DEF Least
<1> QED
  BY <1>2 DEF Earliest

LEMMA LatestIn ==
    ASSUME NEW n \in Nat, NEW S, S \subseteq 1 .. n, S # {}
    PROVE  Latest(S) \in S
<1> DEFINE f == [j \in S |-> n - j]
<1>0. \A j \in S : j \in Nat /\ f[j] \in Nat /\ f[j] = n - j
  OBVIOUS
<1> HIDE DEF f
<1>1. PICK i \in Least(S, f) : TRUE
  BY <1>0, LeastNonempty
<1>2. i \in S /\ \A j \in S : i >= j
  BY <1>0, <1>1 DEF Least
<1> QED
  BY <1>2 DEF Latest

(* MergeResolver picks one of the facts of the game.                       *)
LEMMA WinnerIsCandidate ==
    ASSUME NEW c, IsCatalog(c), NEW g, Candidates(c, g) # {}
    PROVE  Winner(c, g) \in Candidates(c, g)
<1> DEFINE rows == Candidates(c, g)
           weak == /\ \E j, k \in rows : j.title # k.title
                   /\ \A k \in rows : c.facts[k].conf < 90
           f1 == [k \in rows |-> 100 - c.facts[k].conf]
           f2 == [k \in rows |-> IF weak THEN NormLength[k.title] ELSE Length[k.title]]
           f3 == [k \in rows |-> IF weak THEN k.source ELSE 0]
           f4 == [k \in rows |-> c.facts[k].id]
           sure == Least(rows, f1)
           short == Least(sure, f2)
           first == Least(short, f3)
<1>1. \A k \in rows : /\ c.facts[k] \in [conf : Confidence, id : Nat]
                      /\ k.title \in Title /\ k.source \in Source
  BY DEF Candidates, IsCatalog, IsTable
<1>2. \A k \in rows : f1[k] \in Nat /\ f2[k] \in Nat /\ f3[k] \in Nat /\ f4[k] \in Nat
  <2>1. SUFFICES ASSUME NEW k \in rows
                 PROVE  f1[k] \in Nat /\ f2[k] \in Nat /\ f3[k] \in Nat /\ f4[k] \in Nat
    OBVIOUS
  <2>2. f1[k] \in Nat /\ f4[k] \in Nat
    BY <1>1 DEF Confidence
  <2>3. f2[k] = NormLength[k.title] \/ f2[k] = Length[k.title]
    OBVIOUS
  <2>4. f3[k] = k.source \/ f3[k] = 0
    OBVIOUS
  <2>5. NormLength[k.title] \in Nat /\ Length[k.title] \in Nat /\ k.source \in Nat
    BY <1>1, TitlesAssumption, RecordsAssumption
  <2> QED
    BY <2>2, <2>3, <2>4, <2>5
<1>3. Winner(c, g) = CHOOSE k \in first : \A j \in first : c.facts[k].id <= c.facts[j].id
  BY DEF Winner
<1> HIDE DEF rows, f1, f2, f3, f4
<1>4. sure # {} /\ sure \subseteq rows
  BY <1>2, LeastNonempty DEF rows
<1>5. short # {} /\ short \subseteq rows
  BY <1>2, <1>4, LeastNonempty
<1>6. first # {} /\ first \subseteq rows
  BY <1>2, <1>5, LeastNonempty
<1> HIDE DEF sure, short, first
<1>7. PICK k \in Least(first, f4) : TRUE
  BY <1>2, <1>6, LeastNonempty
<1>8. k \in first /\ \A j \in first : c.facts[k].id <= c.facts[j].id
  BY <1>6, <1>7 DEF Least, f4
<1>9. Winner(c, g) \in first
  BY <1>3, <1>8
<1> QED
  BY <1>6, <1>9 DEF rows

-----------------------------------------------------------------------------
(* The catalog: its parts, and what each step of run() makes of it         *)

LEMMA Parts ==
    ASSUME NEW a, NEW b, NEW s, NEW f, NEW n
    PROVE  /\ Catalog(a, b, s, f, n).games = a
           /\ Catalog(a, b, s, f, n).sigs = b
           /\ Catalog(a, b, s, f, n).serials = s
           /\ Catalog(a, b, s, f, n).facts = f
           /\ Catalog(a, b, s, f, n).next = n
BY DEF Catalog

LEMMA Built ==
    ASSUME NEW a, NEW b, NEW s, NEW f, NEW n \in Nat,
           IsTable(a, GameId, Title),
           IsTable(b, Hash, [game : DOMAIN a, source : Source]),
           IsTable(s, [serial : Serial, game : DOMAIN a], [source : Source, title : Title]),
           IsTable(f, [game : DOMAIN a, title : Title, source : Source],
                      [conf : Confidence, id : Nat])
    PROVE  IsCatalog(Catalog(a, b, s, f, n))
<1> DEFINE c == Catalog(a, b, s, f, n)
<1>1. c.games = a /\ c.sigs = b /\ c.serials = s /\ c.facts = f /\ c.next = n
  BY Parts
<1>2. c = Catalog(c.games, c.sigs, c.serials, c.facts, c.next)
  BY <1>1
<1> HIDE DEF c
<1>3. IsCatalog(c)
  BY <1>1, <1>2 DEF IsCatalog
<1> QED
  BY <1>3 DEF c

LEMMA EmptyOK == IsCatalog(Empty)
<1>1. \A K, V : IsTable(<<>>, K, V)
  BY DEF IsTable
<1> QED
  BY <1>1, Built DEF Empty

LEMMA KeepOK ==
    ASSUME NEW t, NEW K, NEW V, IsTable(t, K, V), NEW S, S \subseteq DOMAIN t
    PROVE  /\ IsTable(Keep(t, S), K, V)
           /\ DOMAIN Keep(t, S) = S
           /\ \A k \in S : Keep(t, S)[k] = t[k]
BY DEF Keep, IsTable

LEMMA OrIgnoreOK ==
    ASSUME NEW t, NEW K, NEW V, IsTable(t, K, V), NEW new, IsTable(new, K, V)
    PROVE  /\ IsTable(OrIgnore(t, new), K, V)
           /\ DOMAIN OrIgnore(t, new) = DOMAIN t \cup DOMAIN new
           /\ \A k \in DOMAIN t : OrIgnore(t, new)[k] = t[k]
           /\ \A k \in DOMAIN new \ DOMAIN t : OrIgnore(t, new)[k] = new[k]
BY DEF OrIgnore, IsTable

LEMMA PurgedOK ==
    ASSUME NEW c, IsCatalog(c), NEW s \in Source
    PROVE  IsCatalog(Purged(c, s))
<1> DEFINE S == {h \in DOMAIN c.sigs : c.sigs[h].source # s}
           R == {k \in DOMAIN c.serials : c.serials[k].source # s}
           F == {k \in DOMAIN c.facts : k.source # s}
<1>1. S \subseteq DOMAIN c.sigs /\ R \subseteq DOMAIN c.serials /\ F \subseteq DOMAIN c.facts
  OBVIOUS
<1>2. Purged(c, s) = Catalog(c.games, Keep(c.sigs, S), Keep(c.serials, R), Keep(c.facts, F), c.next)
  BY DEF Purged
<1>3. /\ IsTable(c.games, GameId, Title) /\ c.next \in Nat
      /\ IsTable(Keep(c.sigs, S), Hash, [game : DOMAIN c.games, source : Source])
      /\ IsTable(Keep(c.serials, R), [serial : Serial, game : DOMAIN c.games],
                 [source : Source, title : Title])
      /\ IsTable(Keep(c.facts, F), [game : DOMAIN c.games, title : Title, source : Source],
                 [conf : Confidence, id : Nat])
  <2> HIDE DEF S, R, F
  <2> QED
    BY <1>1, KeepOK DEF IsCatalog
<1> HIDE DEF S, R, F
<1> QED
  BY <1>2, <1>3, Built

LEMMA PurgedSupported ==
    ASSUME NEW c, IsCatalog(c), NEW s \in Source, NEW d,
           NEW l, l \in [Source -> Seq(Record)], Supported(c, l)
    PROVE  Supported(Purged(c, s), [l EXCEPT ![s] = d])
<1> DEFINE S == {h \in DOMAIN c.sigs : c.sigs[h].source # s}
           F == {k \in DOMAIN c.facts : k.source # s}
           p == Purged(c, s)
<1>1. p.sigs = Keep(c.sigs, S) /\ p.facts = Keep(c.facts, F)
  BY Parts DEF Purged
<1>2. /\ DOMAIN p.sigs = S /\ \A h \in S : p.sigs[h] = c.sigs[h]
      /\ DOMAIN p.facts = F
  BY <1>1 DEF Keep
<1>3. \A k \in F : k.source \in Source
  BY DEF IsCatalog, IsTable
<1> HIDE DEF p
<1>4. Supported(p, [l EXCEPT ![s] = d])
  BY <1>2, <1>3 DEF Supported
<1> QED
  BY <1>4 DEF p

LEMMA Wider ==
    ASSUME NEW t, NEW K, NEW V, IsTable(t, K, V),
           NEW L, NEW W, K \subseteq L, V \subseteq W
    PROVE  IsTable(t, L, W)
BY DEF IsTable

(* The rows one record brings.                                             *)
LEMMA StoredParts ==
    ASSUME NEW c, IsCatalog(c), NEW s \in Source, NEW rec \in Record, NEW link \in Link
    PROVE  /\ IsCatalog(Stored(c, s, rec, link))
           /\ DOMAIN Stored(c, s, rec, link).sigs = DOMAIN c.sigs \cup HashesOf(rec)
           /\ \A h \in DOMAIN c.sigs : Stored(c, s, rec, link).sigs[h] = c.sigs[h]
           /\ \A h \in HashesOf(rec) \ DOMAIN c.sigs :
                  Stored(c, s, rec, link).sigs[h] = [game |-> link.game, source |-> s]
           /\ DOMAIN Stored(c, s, rec, link).facts =
                  DOMAIN c.facts \cup {[game |-> link.game, title |-> rec.title, source |-> s]}
<1> DEFINE fact == [game |-> link.game, title |-> rec.title, source |-> s]
           G == DOMAIN c.games \cup {link.game}
           games == [g \in {link.game} |-> rec.title]
           sigs == [h \in HashesOf(rec) |-> [game |-> link.game, source |-> s]]
           serials == [k \in [serial : {rec.serial} \ {None}, game : {link.game}] |->
                          [source |-> s, title |-> rec.title]]
           facts == [k \in {fact} |-> [conf |-> link.conf, id |-> c.next]]
           next == IF fact \in DOMAIN c.facts THEN c.next ELSE c.next + 1
<1>1. Stored(c, s, rec, link) =
        Catalog(OrIgnore(c.games, games), OrIgnore(c.sigs, sigs), OrIgnore(c.serials, serials),
                OrIgnore(c.facts, facts), next)
  BY DEF Stored
<1>2. /\ rec.title \in Title /\ rec.serial \in Serial \cup {None} /\ HashesOf(rec) \subseteq Hash
      /\ link.game \in GameId /\ link.conf \in Confidence /\ c.next \in Nat
  BY DEF Record, Link, HashesOf, Hash, IsCatalog
<1>3. IsTable(games, GameId, Title) /\ next \in Nat
  BY <1>2 DEF IsTable
<1>4. IsTable(sigs, Hash, [game : G, source : Source])
  BY <1>2 DEF IsTable
<1>5. IsTable(serials, [serial : Serial, game : G], [source : Source, title : Title])
  BY <1>2 DEF IsTable
<1>6. IsTable(facts, [game : G, title : Title, source : Source], [conf : Confidence, id : Nat])
  BY <1>2 DEF IsTable
<1>7. /\ IsTable(c.games, GameId, Title)
      /\ IsTable(c.sigs, Hash, [game : G, source : Source])
      /\ IsTable(c.serials, [serial : Serial, game : G], [source : Source, title : Title])
      /\ IsTable(c.facts, [game : G, title : Title, source : Source], [conf : Confidence, id : Nat])
  <2>1. /\ [game : DOMAIN c.games, source : Source] \subseteq [game : G, source : Source]
        /\ [serial : Serial, game : DOMAIN c.games] \subseteq [serial : Serial, game : G]
        /\ [game : DOMAIN c.games, title : Title, source : Source]
               \subseteq [game : G, title : Title, source : Source]
    OBVIOUS
  <2> HIDE DEF G
  <2> QED
    BY <2>1, Wider DEF IsCatalog
<1>8. DOMAIN games = {link.game} /\ DOMAIN sigs = HashesOf(rec) /\ DOMAIN facts = {fact}
      /\ \A h \in HashesOf(rec) : sigs[h] = [game |-> link.game, source |-> s]
  OBVIOUS
<1> HIDE DEF games, sigs, serials, facts, next
<1>9. /\ IsTable(OrIgnore(c.games, games), GameId, Title)
      /\ DOMAIN OrIgnore(c.games, games) = G
      /\ IsTable(OrIgnore(c.sigs, sigs), Hash, [game : G, source : Source])
      /\ IsTable(OrIgnore(c.serials, serials), [serial : Serial, game : G],
                 [source : Source, title : Title])
      /\ IsTable(OrIgnore(c.facts, facts), [game : G, title : Title, source : Source],
                 [conf : Confidence, id : Nat])
  <2> HIDE DEF G, fact
  <2>1. IsTable(OrIgnore(c.games, games), GameId, Title)
    BY <1>3, <1>7, OrIgnoreOK
  <2>5. DOMAIN OrIgnore(c.games, games) = DOMAIN c.games \cup DOMAIN games
    BY DEF OrIgnore
  <2>2. IsTable(OrIgnore(c.sigs, sigs), Hash, [game : G, source : Source])
    BY <1>4, <1>7, OrIgnoreOK
  <2>3. IsTable(OrIgnore(c.serials, serials), [serial : Serial, game : G],
                [source : Source, title : Title])
    BY <1>5, <1>7, OrIgnoreOK
  <2>4. IsTable(OrIgnore(c.facts, facts), [game : G, title : Title, source : Source],
                [conf : Confidence, id : Nat])
    BY <1>6, <1>7, OrIgnoreOK
  <2> QED
    BY <1>8, <2>1, <2>2, <2>3, <2>4, <2>5 DEF G
<1>10. IsCatalog(Stored(c, s, rec, link))
  BY <1>1, <1>3, <1>9, Built
<1>11. Stored(c, s, rec, link).sigs = OrIgnore(c.sigs, sigs)
       /\ Stored(c, s, rec, link).facts = OrIgnore(c.facts, facts)
  BY <1>1, Parts
<1>12. /\ DOMAIN OrIgnore(c.sigs, sigs) = DOMAIN c.sigs \cup DOMAIN sigs
       /\ \A h \in DOMAIN c.sigs : OrIgnore(c.sigs, sigs)[h] = c.sigs[h]
       /\ \A h \in DOMAIN sigs \ DOMAIN c.sigs : OrIgnore(c.sigs, sigs)[h] = sigs[h]
       /\ DOMAIN OrIgnore(c.facts, facts) = DOMAIN c.facts \cup DOMAIN facts
  BY DEF OrIgnore
<1> QED
  BY <1>8, <1>10, <1>11, <1>12

LEMMA StoredHashes ==
    ASSUME NEW c, IsCatalog(c), NEW s \in Source, NEW rec \in Record, NEW link \in Link
    PROVE  DOMAIN Stored(c, s, rec, link).sigs = DOMAIN c.sigs \cup HashesOf(rec)
<1> DEFINE p == Stored(c, s, rec, link)
<1>1. /\ DOMAIN p.sigs = DOMAIN c.sigs \cup HashesOf(rec)
      /\ \A h \in DOMAIN c.sigs : p.sigs[h] = c.sigs[h]
      /\ \A h \in HashesOf(rec) \ DOMAIN c.sigs : p.sigs[h] = [game |-> link.game, source |-> s]
  BY StoredParts
<1> QED
  BY <1>1

LEMMA StoredSupported ==
    ASSUME NEW c, IsCatalog(c), NEW s \in Source, NEW rec \in Record, NEW link \in Link,
           NEW l, Supported(c, l), NEW i \in DOMAIN l[s], l[s][i] = rec
    PROVE  Supported(Stored(c, s, rec, link), l)
<1> DEFINE p == Stored(c, s, rec, link)
           fact == [game |-> link.game, title |-> rec.title, source |-> s]
<1>1. /\ DOMAIN p.sigs = DOMAIN c.sigs \cup HashesOf(rec)
      /\ \A h \in DOMAIN c.sigs : p.sigs[h] = c.sigs[h]
      /\ \A h \in HashesOf(rec) \ DOMAIN c.sigs : p.sigs[h] = [game |-> link.game, source |-> s]
      /\ DOMAIN p.facts = DOMAIN c.facts \cup {fact}
  BY StoredParts
<1> HIDE DEF p
<1>2. Supported(p, l)
  <2>1. \A h \in DOMAIN p.sigs : \E k \in DOMAIN p.facts :
            k.game = p.sigs[h].game /\ k.source = p.sigs[h].source
    <3>1. \A h \in DOMAIN c.sigs : \E k \in DOMAIN c.facts :
              k.game = c.sigs[h].game /\ k.source = c.sigs[h].source
      BY DEF Supported
    <3>2. \A h \in HashesOf(rec) \ DOMAIN c.sigs :
              fact.game = p.sigs[h].game /\ fact.source = p.sigs[h].source
      BY <1>1
    <3> HIDE DEF fact
    <3> QED
      BY <1>1, <3>1, <3>2
  <2>2. \A k \in DOMAIN p.facts : \E j \in DOMAIN l[k.source] : l[k.source][j].title = k.title
    BY <1>1 DEF Supported
  <2> QED
    BY <2>1, <2>2 DEF Supported
<1> QED
  BY <1>2 DEF p

(* Who is in a pair of duplicates is a game.                               *)
LEMMA PairsAreGames ==
    ASSUME NEW c, IsCatalog(c)
    PROVE  /\ TitlePairs(c) \subseteq (DOMAIN c.games) \X (DOMAIN c.games)
           /\ SerialPairs(c) \subseteq (DOMAIN c.games) \X (DOMAIN c.games)
<1>1. \A group : Pairs(c, group) \subseteq group \X group
  BY DEF Pairs
<1>2. \A k \in DOMAIN c.serials : k.game \in DOMAIN c.games
  BY DEF IsCatalog, IsTable
<1>3. TitlePairs(c) \subseteq (DOMAIN c.games) \X (DOMAIN c.games)
  <2>2. SUFFICES ASSUME NEW p \in TitlePairs(c) PROVE p \in (DOMAIN c.games) \X (DOMAIN c.games)
    OBVIOUS
  <2>3. PICK t \in Title : p \in Pairs(c, {g \in DOMAIN c.games : c.games[g] = t})
    BY <2>2 DEF TitlePairs
  <2> DEFINE group == {g \in DOMAIN c.games : c.games[g] = t}
  <2>4. p \in group \X group /\ group \subseteq DOMAIN c.games
    BY <1>1, <2>3
  <2> HIDE DEF group
  <2>5. PICK a \in group, b \in group : p = <<a, b>>
    BY <2>4
  <2>6. a \in DOMAIN c.games /\ b \in DOMAIN c.games
    BY <2>4, <2>5
  <2> QED
    BY <2>5, <2>6
<1>4. SerialPairs(c) \subseteq (DOMAIN c.games) \X (DOMAIN c.games)
  <2> DEFINE Group(s, t) == {k.game : k \in {k \in DOMAIN c.serials :
                                                k.serial = s /\ c.serials[k].title = t}}
  <2>1. \A s, t : Group(s, t) \subseteq DOMAIN c.games
    BY <1>2
  <2>2. SerialPairs(c) = UNION {Pairs(c, Group(s, t)) : s \in Serial, t \in Title}
    BY DEF SerialPairs
  <2> HIDE DEF Group
  <2>3. SUFFICES ASSUME NEW p \in SerialPairs(c) PROVE p \in (DOMAIN c.games) \X (DOMAIN c.games)
    OBVIOUS
  <2>4. PICK s \in Serial, t \in Title : p \in Pairs(c, Group(s, t))
    BY <2>2
  <2>5. p \in Group(s, t) \X Group(s, t)
    BY <1>1, <2>4
  <2>6. PICK a \in Group(s, t), b \in Group(s, t) : p = <<a, b>>
    BY <2>5
  <2>7. a \in DOMAIN c.games /\ b \in DOMAIN c.games
    BY <2>1, <2>6
  <2> QED
    BY <2>6, <2>7
<1> QED
  BY <1>3, <1>4

(* A row stays or comes from a row of the same table.                      *)
LEMMA ReassignedRows ==
    ASSUME NEW t, NEW to, \A j \in DOMAIN t : j.game \in Nat
    PROVE  /\ DOMAIN Reassigned(t, to) =
                 {k \in {[j EXCEPT !.game = Target(@, to)] : j \in DOMAIN t} : k.game \notin DOMAIN to}
           /\ \A k \in DOMAIN Reassigned(t, to) : \E j \in DOMAIN t : Reassigned(t, to)[k] = t[j]
           /\ Reassigned(t, to) = [k \in DOMAIN Reassigned(t, to) |-> Reassigned(t, to)[k]]
<1> DEFINE Moved(k) == [k EXCEPT !.game = Target(@, to)]
           From(k) == {j \in DOMAIN t : Moved(j) = k}
           Row(k) == IF k \in DOMAIN t THEN t[k]
                     ELSE t[CHOOSE j \in From(k) : \A i \in From(k) : j.game <= i.game]
           D == {k \in {Moved(j) : j \in DOMAIN t} : k.game \notin DOMAIN to}
<1>1. Reassigned(t, to) = [k \in D |-> Row(k)]
  BY DEF Reassigned
<1>2. ASSUME NEW k \in D PROVE \E j \in DOMAIN t : Row(k) = t[j]
  <2>1. From(k) # {} /\ From(k) \subseteq DOMAIN t
    OBVIOUS
  <2> HIDE DEF From
  <2>2. PICK j \in Least(From(k), [j \in From(k) |-> j.game]) : TRUE
    BY <2>1, LeastNonempty
  <2>3. j \in From(k) /\ \A i \in From(k) : j.game <= i.game
    BY <2>2 DEF Least
  <2>4. (CHOOSE m \in From(k) : \A i \in From(k) : m.game <= i.game) \in From(k)
    BY <2>3
  <2> QED
    BY <2>1, <2>4
<1> HIDE DEF Row
<1> QED
  BY <1>1, <1>2

(* Losers' rows move to games that are there, and none is left behind.     *)
LEMMA MergedParts ==
    ASSUME NEW c, IsCatalog(c),
           NEW L, NEW W, W \subseteq DOMAIN c.games, NEW to \in [L -> W]
    PROVE  /\ IsCatalog(Merged(c, to))
           /\ \A h \in DOMAIN Merged(c, to).sigs :
                 /\ h \in DOMAIN c.sigs
                 /\ Merged(c, to).sigs[h].game = Target(c.sigs[h].game, to)
                 /\ Merged(c, to).sigs[h].source = c.sigs[h].source
                 /\ Target(c.sigs[h].game, to) \notin DOMAIN to
           /\ DOMAIN Merged(c, to).sigs =
                 {h \in DOMAIN c.sigs : Target(c.sigs[h].game, to) \notin DOMAIN to}
           /\ DOMAIN Merged(c, to).facts =
                 {k \in {[j EXCEPT !.game = Target(@, to)] : j \in DOMAIN c.facts} :
                     k.game \notin DOMAIN to}
<1> DEFINE G == DOMAIN c.games \ DOMAIN to
           S == {h \in DOMAIN c.sigs : Target(c.sigs[h].game, to) \notin DOMAIN to}
           sigs == [h \in S |-> [c.sigs[h] EXCEPT !.game = Target(@, to)]]
           games == Keep(c.games, G)
           serials == Reassigned(c.serials, to)
           facts == Reassigned(c.facts, to)
<1>1. Merged(c, to) = Catalog(games, sigs, serials, facts, c.next)
  BY DEF Merged
<1>2. \A g \in DOMAIN c.games : /\ Target(g, to) \in DOMAIN c.games
                                /\ Target(g, to) \notin DOMAIN to => Target(g, to) \in G
  BY DEF Target
<1>3. IsTable(games, GameId, Title) /\ DOMAIN games = G /\ c.next \in Nat
  <2>1. G \subseteq DOMAIN c.games
    OBVIOUS
  <2> HIDE DEF G
  <2> QED
    BY <2>1, KeepOK DEF IsCatalog
<1>4. \A h \in DOMAIN c.sigs : h \in Hash /\ c.sigs[h] \in [game : DOMAIN c.games, source : Source]
  BY DEF IsCatalog, IsTable
<1>5. \A h \in S : /\ sigs[h].game = Target(c.sigs[h].game, to)
                   /\ sigs[h].source = c.sigs[h].source
                   /\ sigs[h] \in [game : G, source : Source]
  BY <1>2, <1>4
<1>6. IsTable(sigs, Hash, [game : G, source : Source])
  <2>1. DOMAIN sigs = S /\ S \subseteq Hash /\ sigs = [h \in DOMAIN sigs |-> sigs[h]]
    BY <1>4
  <2> HIDE DEF sigs, S
  <2> QED
    BY <1>5, <2>1 DEF IsTable
<1>7. DOMAIN c.games \subseteq Nat
  BY RecordsAssumption DEF IsCatalog, IsTable
<1>8. IsTable(serials, [serial : Serial, game : G], [source : Source, title : Title])
  <2>1. \A k \in DOMAIN c.serials : /\ k \in [serial : Serial, game : DOMAIN c.games]
                                    /\ c.serials[k] \in [source : Source, title : Title]
    BY DEF IsCatalog, IsTable
  <2>2. \A k \in DOMAIN c.serials : k.game \in Nat
    BY <1>7, <2>1
  <2>3. /\ DOMAIN serials = {k \in {[j EXCEPT !.game = Target(@, to)] : j \in DOMAIN c.serials} :
                                k.game \notin DOMAIN to}
        /\ \A k \in DOMAIN serials : \E j \in DOMAIN c.serials : serials[k] = c.serials[j]
        /\ serials = [k \in DOMAIN serials |-> serials[k]]
    BY <2>2, ReassignedRows
  <2> HIDE DEF serials
  <2>4. DOMAIN serials \subseteq [serial : Serial, game : G]
    <3>1. SUFFICES ASSUME NEW k \in DOMAIN serials PROVE k \in [serial : Serial, game : G]
      OBVIOUS
    <3>2. PICK j \in DOMAIN c.serials : k = [j EXCEPT !.game = Target(@, to)]
      BY <2>3
    <3>3. k = [serial |-> j.serial, game |-> Target(j.game, to)] /\ k.game \notin DOMAIN to
      BY <2>1, <2>3, <3>2
    <3> QED
      BY <1>2, <2>1, <3>3
  <2> QED
    BY <2>1, <2>3, <2>4 DEF IsTable
<1>9. /\ IsTable(facts, [game : G, title : Title, source : Source], [conf : Confidence, id : Nat])
      /\ DOMAIN facts = {k \in {[j EXCEPT !.game = Target(@, to)] : j \in DOMAIN c.facts} :
                            k.game \notin DOMAIN to}
  <2>1. \A k \in DOMAIN c.facts :
            /\ k \in [game : DOMAIN c.games, title : Title, source : Source]
            /\ c.facts[k] \in [conf : Confidence, id : Nat]
    BY DEF IsCatalog, IsTable
  <2>2. \A k \in DOMAIN c.facts : k.game \in Nat
    BY <1>7, <2>1
  <2>3. /\ DOMAIN facts = {k \in {[j EXCEPT !.game = Target(@, to)] : j \in DOMAIN c.facts} :
                              k.game \notin DOMAIN to}
        /\ \A k \in DOMAIN facts : \E j \in DOMAIN c.facts : facts[k] = c.facts[j]
        /\ facts = [k \in DOMAIN facts |-> facts[k]]
    BY <2>2, ReassignedRows
  <2> HIDE DEF facts
  <2>4. DOMAIN facts \subseteq [game : G, title : Title, source : Source]
    <3>1. SUFFICES ASSUME NEW k \in DOMAIN facts
                   PROVE  k \in [game : G, title : Title, source : Source]
      OBVIOUS
    <3>2. PICK j \in DOMAIN c.facts : k = [j EXCEPT !.game = Target(@, to)]
      BY <2>3
    <3>3. /\ k = [game |-> Target(j.game, to), title |-> j.title, source |-> j.source]
          /\ k.game \notin DOMAIN to
      BY <2>1, <2>3, <3>2
    <3> QED
      BY <1>2, <2>1, <3>3
  <2> QED
    BY <2>1, <2>3, <2>4 DEF IsTable
<1>10. DOMAIN sigs = S
  OBVIOUS
<1> HIDE DEF games, sigs, serials, facts
<1>11. IsCatalog(Catalog(games, sigs, serials, facts, c.next))
  BY <1>3, <1>6, <1>8, <1>9, Built
<1>12. Merged(c, to).sigs = sigs /\ Merged(c, to).facts = facts
  BY <1>1, Parts
<1> QED
  BY <1>1, <1>5, <1>9, <1>10, <1>11, <1>12

(* A signature and its fact go to the same game.                           *)
LEMMA MergedSupported ==
    ASSUME NEW c, IsCatalog(c), NEW l, Supported(c, l),
           NEW L, NEW W, W \subseteq DOMAIN c.games, NEW to \in [L -> W]
    PROVE  Supported(Merged(c, to), l)
<1> DEFINE m == Merged(c, to)
<1>1. /\ \A h \in DOMAIN m.sigs : /\ h \in DOMAIN c.sigs
                                  /\ m.sigs[h].game = Target(c.sigs[h].game, to)
                                  /\ m.sigs[h].source = c.sigs[h].source
                                  /\ Target(c.sigs[h].game, to) \notin DOMAIN to
      /\ DOMAIN m.facts = {k \in {[j EXCEPT !.game = Target(@, to)] : j \in DOMAIN c.facts} :
                              k.game \notin DOMAIN to}
  BY MergedParts
<1>2. \A j \in DOMAIN c.facts :
          /\ j \in [game : DOMAIN c.games, title : Title, source : Source]
          /\ [j EXCEPT !.game = Target(@, to)] =
                 [game |-> Target(j.game, to), title |-> j.title, source |-> j.source]
  BY DEF IsCatalog, IsTable
<1> HIDE DEF m
<1>3. ASSUME NEW h \in DOMAIN m.sigs
      PROVE  \E k \in DOMAIN m.facts : k.game = m.sigs[h].game /\ k.source = m.sigs[h].source
  <2>1. PICK j \in DOMAIN c.facts : j.game = c.sigs[h].game /\ j.source = c.sigs[h].source
    BY <1>1 DEF Supported
  <2> DEFINE k == [j EXCEPT !.game = Target(@, to)]
  <2>2. k.game = Target(j.game, to) /\ k.source = j.source
    BY <1>2
  <2>3. k \in DOMAIN m.facts
    BY <1>1, <2>1, <2>2
  <2> HIDE DEF k
  <2> QED
    BY <1>1, <2>1, <2>2, <2>3
<1>4. ASSUME NEW k \in DOMAIN m.facts
      PROVE  \E i \in DOMAIN l[k.source] : l[k.source][i].title = k.title
  <2>1. PICK j \in DOMAIN c.facts : k = [j EXCEPT !.game = Target(@, to)]
    BY <1>1
  <2>2. k.title = j.title /\ k.source = j.source
    BY <1>2, <2>1
  <2> QED
    BY <2>2 DEF Supported
<1>5. Supported(m, l)
  BY <1>3, <1>4 DEF Supported
<1> QED
  BY <1>5 DEF m

-----------------------------------------------------------------------------
(* The actions                                                             *)

(* No transaction.                                                         *)
LEMMA NoJobOK ==
    /\ NoJob.source \in Source \cup {None}
    /\ NoJob.dat \in Seq(Record) /\ NoJob.linked \in Seq(Link)
    /\ NoJob.stored \in Nat /\ NoJob.chained \in BOOLEAN
    /\ NoJob = [source |-> NoJob.source, dat |-> NoJob.dat, linked |-> NoJob.linked,
                stored |-> NoJob.stored, chained |-> NoJob.chained]
<1>1. <<>> \in Seq(Record) /\ <<>> \in Seq(Link)
  OBVIOUS
<1> QED
  BY <1>1 DEF NoJob

LEMMA InitStep == Init => IInv
<1> SUFFICES ASSUME Init PROVE IInv
  OBVIOUS
<1>1. TypeOK
  <2>1. listed \in [Source -> Seq(Record)]
    <3>1. <<>> \in Seq(Record)
      OBVIOUS
    <3> QED
      BY <3>1 DEF Init
  <2> QED
    BY <2>1, NoJobOK, EmptyOK DEF Init, TypeOK
<1>2. DOMAIN Empty.sigs = {} /\ DOMAIN Empty.facts = {}
  BY Parts DEF Empty
<1>3. Supported(db, listed) /\ Titled(db)
  BY <1>2 DEF Init, Supported, Titled
<1> QED
  BY <1>1, <1>3 DEF IInv, JobOK, HashesKept, Init

LEMMA BeginStep ==
    ASSUME IInv, NEW s \in Source, Begin(s)
    PROVE  IInv'
<1>1. PICK d \in Dats[s] : job' = [NoJob EXCEPT !.source = s, !.dat = d]
  BY DEF Begin
<1>2. d \in Seq(Record)
  BY RecordsAssumption
<1>3. /\ job'.source = s /\ job'.dat = d /\ job'.linked = <<>> /\ job'.stored = 0
      /\ job'.chained = FALSE
      /\ job' = [source |-> job'.source, dat |-> job'.dat, linked |-> job'.linked,
                 stored |-> job'.stored, chained |-> job'.chained]
  BY <1>1 DEF NoJob
<1>4. /\ tx' = Purged(db, s) /\ pc' = "link" /\ UNCHANGED <<db, listed>>
  BY DEF Begin
<1>5. IsCatalog(db) /\ Supported(db, listed) /\ listed \in [Source -> Seq(Record)]
  BY DEF IInv, TypeOK
<1>6. IsCatalog(Purged(db, s)) /\ Supported(Purged(db, s), [listed EXCEPT ![s] = d])
  BY <1>5, PurgedOK, PurgedSupported
<1>7. TypeOK'
  <2>1. <<>> \in Seq(Link)
    OBVIOUS
  <2>2. job'.linked \in Seq(Link) /\ job'.dat \in Seq(Record)
    BY <1>2, <1>3, <2>1
  <2>3. IsCatalog(db') /\ IsCatalog(tx') /\ listed' \in [Source -> Seq(Record)]
    BY <1>4, <1>5, <1>6
  <2>4. job'.source \in Source /\ job'.stored \in Nat /\ job'.chained \in BOOLEAN
    <3>1. job'.chained = FALSE
      BY <1>3
    <3>2. job'.source = s /\ job'.stored = 0
      BY <1>3
    <3>3. job'.chained \in BOOLEAN
      BY <3>1, Zenon
    <3> QED
      BY <3>2, <3>3
  <2>5. /\ pc' = "link"
        /\ job' = [source |-> job'.source, dat |-> job'.dat, linked |-> job'.linked,
                   stored |-> job'.stored, chained |-> job'.chained]
    BY <1>3, <1>4
  <2> QED
    BY <2>2, <2>3, <2>4, <2>5 DEF TypeOK
<1>8. Listing' = [listed EXCEPT ![s] = d]
  BY <1>3, <1>4 DEF Listing
<1>9. HashesKept'
  <2>1. Purged(db, s).sigs = Keep(db.sigs, {h \in DOMAIN db.sigs : db.sigs[h].source # s})
    BY Parts DEF Purged
  <2>2. DOMAIN tx'.sigs = {h \in DOMAIN db.sigs : db.sigs[h].source # s}
    BY <1>4, <2>1 DEF Keep
  <2> QED
    BY <1>3, <1>4, <2>2 DEF HashesKept
<1> QED
  BY <1>3, <1>4, <1>6, <1>7, <1>8, <1>9 DEF IInv, JobOK

(* A step that works on the job alone.                                     *)
LEMMA JobStep ==
    ASSUME IInv, UNCHANGED <<db, tx, listed>>, pc # "idle",
           pc' \in {"link", "store"},
           job' = [job EXCEPT !.linked = job'.linked], job'.linked \in Seq(Link),
           pc' = "store" => Len(job'.linked) = Len(job.dat)
    PROVE  IInv'
<1>1. /\ job'.source = job.source /\ job'.dat = job.dat /\ job'.stored = job.stored
      /\ job'.chained = job.chained
      /\ job' = [source |-> job'.source, dat |-> job'.dat, linked |-> job'.linked,
                 stored |-> job'.stored, chained |-> job'.chained]
  BY DEF IInv, TypeOK
<1>2. TypeOK'
  BY <1>1 DEF IInv, TypeOK
<1>3. Listing' = Listing
  BY <1>1 DEF Listing
<1>4. HashesKept'
  BY <1>1 DEF IInv, HashesKept
<1> QED
  BY <1>1, <1>2, <1>3, <1>4 DEF IInv, JobOK

LEMMA LinkNextStep ==
    ASSUME IInv, LinkNext
    PROVE  IInv'
<1> DEFINE i == Len(job.linked) + 1
           rec == job.dat[i]
           seen == 1 .. Len(job.linked)
           bySha1 == {j \in seen : rec.sha1 # None /\ job.dat[j].sha1 = rec.sha1}
           byCrc == {j \in seen : rec.crc # None /\ job.dat[j].crc = rec.crc}
           bySerial == {j \in seen : /\ rec.serial # None /\ job.dat[j].serial = rec.serial
                                     /\ Base[job.dat[j].title] = Base[rec.title]}
           byTitle == {j \in seen : Norm[job.dat[j].title] = Norm[rec.title]}
           GameOf(j) == job.linked[j].game
           new == IF rec.sha1 # None THEN rec.sha1 ELSE rec.key
           link(l) == job' = [job EXCEPT !.linked = Append(@, l)]
<1>1. /\ pc = "link" /\ i <= Len(job.dat) /\ UNCHANGED <<db, tx, pc, listed>>
      /\ \/ bySha1 # {} /\ link(Linked(GameOf(Latest(bySha1)), 100))
         \/ byCrc # {} /\ link(Linked(GameOf(Latest(byCrc)), 90))
         \/ bySerial # {} /\ link(Linked(GameOf(Earliest(bySerial)), 80))
         \/ byTitle # {} /\ link(Linked(GameOf(Earliest(byTitle)), 60))
         \/ link(Linked(new, 50))
  BY DEF LinkNext
<1>2. job.linked \in Seq(Link) /\ job.dat \in Seq(Record)
  BY DEF IInv, TypeOK
<1>3. Len(job.linked) \in Nat /\ rec \in Record /\ new \in GameId
  <2>1. Len(job.linked) \in Nat /\ Len(job.dat) \in Nat
    BY <1>2
  <2>2. i \in 1 .. Len(job.dat)
    <3>1. Len(job.linked) + 1 <= Len(job.dat)
      BY <1>1
    <3> QED
      BY <2>1, <3>1
  <2> HIDE DEF i
  <2>3. rec \in Record
    BY <1>2, <2>2
  <2> HIDE DEF rec
  <2> QED
    BY <2>1, <2>3 DEF Record, GameId
<1>4. \A j \in seen : GameOf(j) \in GameId
  <2>1. \A j \in seen : job.linked[j] \in Link
    BY <1>2
  <2> QED
    BY <2>1 DEF Link
<1>5. /\ bySha1 # {} => Latest(bySha1) \in seen
      /\ byCrc # {} => Latest(byCrc) \in seen
      /\ bySerial # {} => Earliest(bySerial) \in seen
      /\ byTitle # {} => Earliest(byTitle) \in seen
  <2>1. bySha1 \subseteq seen /\ byCrc \subseteq seen /\ bySerial \subseteq seen /\ byTitle \subseteq seen
    OBVIOUS
  <2>2. seen \subseteq Nat
    BY <1>3
  <2> HIDE DEF bySha1, byCrc, bySerial, byTitle
  <2>3. bySha1 # {} => Latest(bySha1) \in bySha1
    BY <1>3, <2>1, LatestIn
  <2>4. byCrc # {} => Latest(byCrc) \in byCrc
    BY <1>3, <2>1, LatestIn
  <2>5. bySerial # {} => Earliest(bySerial) \in bySerial
    BY <2>1, <2>2, EarliestIn
  <2>6. byTitle # {} => Earliest(byTitle) \in byTitle
    BY <2>1, <2>2, EarliestIn
  <2> QED
    BY <2>1, <2>3, <2>4, <2>5, <2>6
<1> HIDE DEF bySha1, byCrc, bySerial, byTitle, GameOf, new
<1>6. PICK g \in GameId, conf \in Confidence : link(Linked(g, conf))
  BY <1>1, <1>3, <1>4, <1>5 DEF Confidence
<1>7. Linked(g, conf) \in Link
  BY DEF Linked, Link
<1>8. job' = [job EXCEPT !.linked = Append(job.linked, Linked(g, conf))]
  BY <1>6
<1>9. job'.linked = Append(job.linked, Linked(g, conf))
  BY <1>8 DEF IInv, TypeOK
<1>10. job'.linked \in Seq(Link) /\ job' = [job EXCEPT !.linked = job'.linked]
  BY <1>2, <1>7, <1>8, <1>9
<1> QED
  BY <1>1, <1>10, JobStep

LEMMA EndLinkStep ==
    ASSUME IInv, EndLink
    PROVE  IInv'
<1>1. /\ pc = "link" /\ Len(job.linked) = Len(job.dat) /\ pc' = "store"
      /\ UNCHANGED <<db, tx, job, listed>>
  BY DEF EndLink
<1>2. job = [job EXCEPT !.linked = job.linked] /\ job.linked \in Seq(Link)
  BY DEF IInv, TypeOK
<1> QED
  BY <1>1, <1>2, JobStep

(* A step that works on the catalog and keeps what the job is about.       *)
LEMMA TxStep ==
    ASSUME IInv, UNCHANGED <<db, listed>>, pc # "idle",
           pc' \in {"store", "titles", "serials", "resolve", "commit"},
           NEW n \in Nat, NEW b \in BOOLEAN,
           job' = [job EXCEPT !.stored = n, !.chained = b],
           IsCatalog(tx'), Supported(tx', Listing),
           pc' = "store" => pc = "store",
           pc' = "commit" => Titled(tx'),
           pc' # "store" => n = Len(job.dat),
           HashesKept'
    PROVE  IInv'
<1>1. /\ job'.source = job.source /\ job'.dat = job.dat /\ job'.linked = job.linked
      /\ job'.stored = n /\ job'.chained = b
      /\ job' = [source |-> job'.source, dat |-> job'.dat, linked |-> job'.linked,
                 stored |-> job'.stored, chained |-> job'.chained]
  BY DEF IInv, TypeOK
<1>2. TypeOK'
  BY <1>1 DEF IInv, TypeOK
<1>3. Listing' = Listing
  BY <1>1 DEF Listing
<1>4. JobOK'
  BY <1>1 DEF IInv, JobOK
<1> QED
  BY <1>2, <1>3, <1>4 DEF IInv, Titled, Supported

LEMMA StoreNextStep ==
    ASSUME IInv, StoreNext
    PROVE  IInv'
<1> DEFINE i == job.stored + 1
<1>1. /\ pc = "store" /\ i <= Len(job.dat) /\ UNCHANGED <<db, listed>>
      /\ tx' = Stored(tx, job.source, job.dat[i], job.linked[i])
      /\ job' = [job EXCEPT !.stored = i]
      /\ pc' = IF i = Len(job.dat) THEN "titles" ELSE "store"
  BY DEF StoreNext
<1>2. /\ IsCatalog(tx) /\ Supported(tx, Listing) /\ job.source \in Source
      /\ job.dat \in Seq(Record) /\ job.linked \in Seq(Link) /\ job.stored \in Nat
      /\ job.chained \in BOOLEAN /\ Len(job.linked) = Len(job.dat)
      /\ listed \in [Source -> Seq(Record)]
  BY <1>1 DEF IInv, TypeOK, JobOK
<1>3. i \in DOMAIN job.dat /\ job.dat[i] \in Record /\ job.linked[i] \in Link /\ i \in Nat
  BY <1>1, <1>2
<1>4. Listing[job.source] = job.dat
  BY <1>2 DEF Listing
<1>7. HashesKept'
  <2>1. /\ job'.source = job.source /\ job'.dat = job.dat /\ job'.stored = i
        /\ job'.chained = job.chained
    BY <1>1 DEF IInv, TypeOK
  <2>2. DOMAIN tx'.sigs = DOMAIN tx.sigs \cup HashesOf(job.dat[i])
    <3> HIDE DEF i
    <3> QED
      BY <1>1, <1>2, <1>3, StoredHashes
  <2>3. \A j \in 1 .. i : j = i \/ j \in 1 .. job.stored
    BY <1>2
  <2> HIDE DEF i
  <2> QED
    BY <1>1, <2>1, <2>2, <2>3 DEF IInv, HashesKept
<1> HIDE DEF i
<1>5. IsCatalog(tx') /\ Supported(tx', Listing)
  <2>1. IsCatalog(Stored(tx, job.source, job.dat[i], job.linked[i]))
    BY <1>2, <1>3, StoredParts
  <2>2. Supported(Stored(tx, job.source, job.dat[i], job.linked[i]), Listing)
    BY <1>2, <1>3, <1>4, StoredSupported
  <2> QED
    BY <1>1, <2>1, <2>2
<1>6. job' = [job EXCEPT !.stored = i, !.chained = job.chained]
  BY <1>1 DEF IInv, TypeOK
<1> QED
  BY <1>1, <1>2, <1>3, <1>5, <1>6, <1>7, TxStep

LEMMA MergeStep ==
    ASSUME IInv, pc \in {"titles", "serials"},
           NEW pairs, pairs \subseteq (DOMAIN tx.games) \X (DOMAIN tx.games), Merge(pairs),
           pc' \in {"serials", "resolve"}, UNCHANGED <<db, listed>>
    PROVE  IInv'
<1> DEFINE L == {p[1] : p \in pairs}
           W == {p[2] : p \in pairs}
<1>1. PICK to \in [L -> W] :
          /\ tx' = Merged(tx, to)
          /\ job' = [job EXCEPT !.chained = @ \/ \E l \in L : to[l] \in L]
  BY DEF Merge
<1>2. W \subseteq DOMAIN tx.games
  OBVIOUS
<1> HIDE DEF L, W
<1>3. IsCatalog(tx) /\ Supported(tx, Listing) /\ job.chained \in BOOLEAN /\ job.stored \in Nat
  BY DEF IInv, TypeOK
<1>4. IsCatalog(Merged(tx, to)) /\ Supported(Merged(tx, to), Listing)
  BY <1>2, <1>3, MergedParts, MergedSupported
<1> DEFINE b == job.chained \/ \E l \in L : to[l] \in L
<1>5. b \in BOOLEAN /\ job' = [job EXCEPT !.stored = job.stored, !.chained = b]
  BY <1>1, <1>3 DEF IInv, TypeOK
<1>6. HashesKept'
  <2>1. /\ job'.source = job.source /\ job'.dat = job.dat /\ job'.stored = job.stored
        /\ job'.chained = b
    BY <1>5 DEF IInv, TypeOK
  <2>2. DOMAIN tx'.sigs = {h \in DOMAIN tx.sigs : Target(tx.sigs[h].game, to) \notin DOMAIN to}
    BY <1>1, <1>2, <1>3, MergedParts
  <2>3. ~b => ~job.chained /\ \A g : Target(g, to) \notin DOMAIN to
    BY <1>3 DEF Target
  <2> HIDE DEF b
  <2> QED
    BY <2>1, <2>2, <2>3 DEF IInv, HashesKept
<1> HIDE DEF b
<1>7. job.stored = Len(job.dat)
  BY DEF IInv, JobOK
<1> QED
  BY <1>1, <1>3, <1>4, <1>5, <1>6, <1>7, TxStep

LEMMA MergeTitlesStep ==
    ASSUME IInv, MergeTitles
    PROVE  IInv'
<1>1. /\ pc = "titles" /\ Merge(TitlePairs(tx)) /\ pc' = "serials" /\ UNCHANGED <<db, listed>>
  BY DEF MergeTitles
<1>2. TitlePairs(tx) \subseteq (DOMAIN tx.games) \X (DOMAIN tx.games)
  BY PairsAreGames DEF IInv, TypeOK
<1> QED
  BY <1>1, <1>2, MergeStep

LEMMA MergeSerialsStep ==
    ASSUME IInv, MergeSerials
    PROVE  IInv'
<1>1. /\ pc = "serials" /\ Merge(SerialPairs(tx)) /\ pc' = "resolve" /\ UNCHANGED <<db, listed>>
  BY DEF MergeSerials
<1>2. SerialPairs(tx) \subseteq (DOMAIN tx.games) \X (DOMAIN tx.games)
  BY PairsAreGames DEF IInv, TypeOK
<1> QED
  BY <1>1, <1>2, MergeStep

LEMMA ResolveStep ==
    ASSUME IInv, Resolve
    PROVE  IInv'
<1> DEFINE title(g) == IF Candidates(tx, g) = {} THEN tx.games[g] ELSE Winner(tx, g).title
           games == [g \in DOMAIN tx.games |-> title(g)]
<1>1. /\ pc = "resolve" /\ pc' = "commit" /\ UNCHANGED <<db, job, listed>>
      /\ tx' = [tx EXCEPT !.games = games]
  BY DEF Resolve
<1>2. IsCatalog(tx) /\ Supported(tx, Listing) /\ job.chained \in BOOLEAN /\ job.stored \in Nat
  BY <1>1 DEF IInv, TypeOK
<1>3. tx' = Catalog(games, tx.sigs, tx.serials, tx.facts, tx.next)
  <2>1. tx = Catalog(tx.games, tx.sigs, tx.serials, tx.facts, tx.next)
    BY <1>2 DEF IsCatalog
  <2> HIDE DEF games
  <2> QED
    BY <1>1, <2>1 DEF Catalog
<1>4. ASSUME NEW g \in DOMAIN tx.games, Candidates(tx, g) # {}
      PROVE  /\ Winner(tx, g) \in DOMAIN tx.facts /\ Winner(tx, g).game = g
             /\ Winner(tx, g).title \in Title
  <2>1. Winner(tx, g) \in Candidates(tx, g)
    BY <1>2, <1>4, WinnerIsCandidate
  <2> QED
    BY <1>2, <2>1 DEF Candidates, IsCatalog, IsTable
<1>5. \A g \in DOMAIN tx.games : g \in GameId /\ title(g) \in Title
  BY <1>2, <1>4 DEF IsCatalog, IsTable
<1>6. /\ DOMAIN games = DOMAIN tx.games /\ \A g \in DOMAIN games : games[g] = title(g)
      /\ IsTable(games, GameId, Title)
  BY <1>5 DEF IsTable
<1> HIDE DEF games
<1>7. IsCatalog(tx')
  <2>1. IsCatalog(Catalog(games, tx.sigs, tx.serials, tx.facts, tx.next))
    BY <1>2, <1>6, Built DEF IsCatalog
  <2> QED
    BY <1>3, <2>1
<1>8. tx'.games = games /\ tx'.sigs = tx.sigs /\ tx'.facts = tx.facts
  BY <1>3, Parts
<1>9. Supported(tx', Listing)
  BY <1>2, <1>8 DEF Supported
<1>10. Titled(tx')
  <2>1. ASSUME NEW k \in DOMAIN tx.facts
        PROVE  \E j \in DOMAIN tx.facts : j.game = k.game /\ j.title = games[k.game]
    <3>1. k.game \in DOMAIN tx.games /\ k \in Candidates(tx, k.game)
      BY <1>2 DEF Candidates, IsCatalog, IsTable
    <3>2. games[k.game] = Winner(tx, k.game).title
      BY <1>6, <3>1
    <3> QED
      BY <1>4, <3>1, <3>2
  <2> QED
    BY <1>8, <2>1 DEF Titled
<1>11. job' = [job EXCEPT !.stored = job.stored, !.chained = job.chained]
  BY <1>1 DEF IInv, TypeOK
<1>12. HashesKept' /\ job.stored = Len(job.dat)
  BY <1>1, <1>8 DEF IInv, JobOK, HashesKept
<1> QED
  BY <1>1, <1>2, <1>7, <1>9, <1>10, <1>11, <1>12, TxStep

LEMMA CommitStep ==
    ASSUME IInv, Commit
    PROVE  IInv'
<1>1. /\ pc = "commit" /\ db' = tx /\ tx' = Empty /\ listed' = Listing
      /\ pc' = "idle" /\ job' = NoJob
  BY DEF Commit, Listing
<1>2. /\ IsCatalog(tx) /\ Supported(tx, Listing) /\ Titled(tx) /\ job.source \in Source
      /\ job.dat \in Seq(Record) /\ listed \in [Source -> Seq(Record)]
  BY <1>1 DEF IInv, TypeOK, JobOK
<1>3. Listing \in [Source -> Seq(Record)]
  BY <1>2 DEF Listing
<1>4. TypeOK'
  BY <1>1, <1>2, <1>3, NoJobOK, EmptyOK DEF TypeOK
<1>5. Supported(db', listed') /\ Titled(db')
  BY <1>1, <1>2
<1> QED
  BY <1>1, <1>4, <1>5 DEF IInv, JobOK, HashesKept, Supported, Titled

LEMMA RollbackStep ==
    ASSUME IInv, Rollback
    PROVE  IInv'
<1>1. /\ tx' = Empty /\ pc' = "idle" /\ job' = NoJob /\ UNCHANGED <<db, listed>>
  BY DEF Rollback
<1>2. TypeOK'
  BY <1>1, NoJobOK, EmptyOK DEF IInv, TypeOK
<1> QED
  BY <1>1, <1>2 DEF IInv, JobOK, HashesKept, Supported, Titled

-----------------------------------------------------------------------------
LEMMA NextStep ==
    ASSUME IInv, [Next]_vars
    PROVE  IInv'
<1>1. CASE UNCHANGED vars
  BY <1>1 DEF vars, IInv, TypeOK, JobOK, Listing, HashesKept, Supported, Titled
<1>2. CASE Next
  BY <1>2, BeginStep, LinkNextStep, EndLinkStep, StoreNextStep, MergeTitlesStep,
     MergeSerialsStep, ResolveStep, CommitStep, RollbackStep DEF Next
<1> QED
  BY <1>1, <1>2

LEMMA IInvAlways == Spec => []IInv
BY InitStep, NextStep, PTL DEF Spec

(* Types and foreign keys: no merge, purge or failure leaves a row whose   *)
(* game is gone.                                                           *)
THEOREM TypeCorrect == Spec => []TypeOK
<1>1. IInv => TypeOK
  BY DEF IInv
<1> QED
  BY <1>1, IInvAlways, PTL

(* Whatever a hash leads to has a name that some DAT, as it was ingested   *)
(* last, lists.                                                            *)
THEOREM NoNameOutlives == Spec => []NamesAreListed
<1>1. IInv => NamesAreListed
  <2>1. SUFFICES ASSUME IInv, NEW h \in DOMAIN db.sigs
                 PROVE  \E s \in Source : \E i \in DOMAIN listed[s] :
                            listed[s][i].title = db.games[db.sigs[h].game]
    BY DEF NamesAreListed
  <2>2. PICK k \in DOMAIN db.facts : k.game = db.sigs[h].game
    BY <2>1 DEF IInv, Supported
  <2>3. PICK j \in DOMAIN db.facts : j.game = k.game /\ j.title = db.games[k.game]
    BY <2>1 DEF IInv, Titled
  <2>4. j.source \in Source
    BY <2>1 DEF IInv, TypeOK, IsCatalog, IsTable
  <2>5. \E i \in DOMAIN listed[j.source] : listed[j.source][i].title = j.title
    BY <2>1 DEF IInv, Supported
  <2> QED
    BY <2>2, <2>3, <2>4, <2>5
<1> QED
  BY <1>1, IInvAlways, PTL

(* Ingesting a DAT loses no hash but those it gave before and lists no     *)
(* more, whatever is merged, as long as no winner is itself a loser.       *)
THEOREM NoOtherHashIsLost == Spec => OnlyDroppedAreLost
<1> DEFINE Kept(h) ==
        \/ h \in DOMAIN db'.sigs
        \/ /\ h \notin UNION {HashesOf(job.dat[i]) : i \in DOMAIN job.dat}
           /\ h \in DOMAIN db.sigs => db.sigs[h].source = job.source
<1>1. ASSUME IInv, Commit, ~job.chained, NEW h \in Hash
      PROVE  Kept(h)
  <2>1. /\ pc = "commit" /\ db' = tx /\ job.stored = Len(job.dat) /\ HashesKept
        /\ job.dat \in Seq(Record)
    BY <1>1 DEF Commit, IInv, JobOK, TypeOK
  <2>2. DOMAIN job.dat = 1 .. job.stored
    BY <2>1
  <2>3. /\ \A i \in DOMAIN job.dat : HashesOf(job.dat[i]) \subseteq DOMAIN db'.sigs
        /\ h \in DOMAIN db.sigs /\ db.sigs[h].source # job.source => h \in DOMAIN db'.sigs
    BY <1>1, <2>1, <2>2 DEF HashesKept
  <2> QED
    BY <2>3
<1>2. IInv /\ [Next]_vars => [Commit /\ ~job.chained => \A h \in Hash : Kept(h)]_vars
  BY <1>1
<1> QED
  BY <1>2, IInvAlways, PTL DEF Spec, OnlyDroppedAreLost

=============================================================================
