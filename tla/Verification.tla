---------------------------- MODULE Verification ----------------------------
(***************************************************************************)
(* core/verification_engine*.cpp, core/verification_storage*.cpp and       *)
(* core/verification_hash_matcher.cpp: verifying files against the DATs    *)
(* imported into the library and against the catalog.                      *)
(*                                                                         *)
(* State: the two pairs of DAT tables of the library, the catalog's games, *)
(* and for every engine its caches and the call it is in.  Engines share   *)
(* the library database, never a cache; an import takes four statements    *)
(* and another engine, or a crash, can come between any two.               *)
(*                                                                         *)
(* A digest knows its type.  Which of two entries with one digest a cache  *)
(* keeps depends on the order of the rows, and is left open.  The catalog  *)
(* has no patch tables: catalog.cpp creates none.                          *)
(***************************************************************************)
EXTENDS Naturals, FiniteSets, Sequences

CONSTANTS
    Engine,        \* VerificationEngine objects, in one process or several
    Verifier,      \* those that verify; the others only import
    DatSystem,     \* systems
    RomFile,       \* rows of files
    SystemOf,      \* the system of each row
    DigestsOf,     \* the digests stored in each row, none if not calculated
    Digest,
    TypeOf,        \* the hash type of each digest
    PreferredType, \* preferred_hash of each system
    DatEntry,      \* entries: title, digests, meta and what its name parses to
    DatFiles,      \* what can be imported as an official DAT: sets of entries
    PatchFiles,    \* what can be imported as a patch DAT
    CatalogStates, \* what a system's games in the catalog can be
    MaxImports,    \* imports and removals
    MaxIngests,    \* changes of the catalog
    MaxVerifyFaults \* statements that fail, and crashes

Kind == {"official", "patch"}
FileType == {"", "official", "translation", "hack"}
Meta == [base : {"", "b"}, patch : {"", "p"}, type : FileType]

ASSUME VerificationAssumption ==
    /\ Verifier \subseteq Engine
    /\ SystemOf \in [RomFile -> DatSystem]
    /\ DigestsOf \in [RomFile -> SUBSET Digest]
    /\ \A x \in DatEntry : x.digests \subseteq Digest /\ x.meta \in Meta /\ x.parsed \in Meta
    /\ DatFiles \cup PatchFiles \cup CatalogStates \subseteq SUBSET DatEntry
    /\ TypeOf \in [Digest -> {"sha256", "sha1", "md5", "crc32"}]

VARIABLES
    tables,   \* rows of the DAT tables: kind, system, who wrote it, entries
    games,    \* the entries of each system in the catalog
    engines,  \* attached catalog, caches and current call of each engine
    patched,  \* base_title, patch_name, file_type and is_patched of each row
    verdict,  \* the result the last step returned, if any
    behind,   \* engines with a cache that others have made out of date
    imports, ingests, verifyFaults

verifyVars == <<tables, games, engines, patched, verdict, behind, imports, ingests, verifyFaults>>

NoVerdict == [status |-> "none"]
NoCall == [step |-> "idle"]
Fresh == [attached |-> FALSE, cache |-> {}, typed |-> {}, call |-> NoCall]

(* The empty schema, no catalog attached, nothing cached.                  *)
VerifyInit ==
    /\ tables = {}
    /\ games = [s \in DatSystem |-> {}]
    /\ engines = [e \in Engine |-> Fresh]
    /\ patched = [f \in RomFile |-> [base |-> "", patch |-> "", type |-> "official", marked |-> FALSE]]
    /\ verdict = NoVerdict
    /\ behind = {}
    /\ imports = 0 /\ ingests = 0 /\ verifyFaults = 0

(* A statement that writes waits while another engine holds the write      *)
(* lock; it can also fail, by that wait timing out or by itself.           *)
Runs(e) == (\A d \in Engine \ {e} : engines[d].call.step # "commit") /\ UNCHANGED verifyFaults
Fails == verifyFaults < MaxVerifyFaults /\ verifyFaults' = verifyFaults + 1

At(e, step) == engines[e].call.step = step
Go(e, call) == engines' = [engines EXCEPT ![e].call = call]

Rows(k, s) == {r \in tables : r.kind = k /\ r.system = s}
Cached(e, k, s) == {c \in engines[e].cache : c.kind = k /\ c.system = s}
Behind(e, k, s) == behind \cup {d \in Engine \ {e} : Cached(d, k, s) # {}}

(***************************************************************************)
(* Reading: the catalog counts first, then the tables; the caches hold     *)
(* what was there when they were loaded.                                   *)
(***************************************************************************)
hasDat(e, s) ==
    \/ engines[e].attached /\ \E x \in games[s] : x.digests # {}
    \/ Rows("official", s) # {}

hasPatchDat(s) == Rows("patch", s) # {}

Listed(e, k, s) ==
    IF k = "official" /\ engines[e].attached
    THEN {x \in games[s] : x.digests # {}}
    ELSE UNION {r.entries : r \in Rows(k, s)}

loadDatCache(e, s) ==
    IF Cached(e, "official", s) # {} THEN engines[e]
    ELSE [engines[e] EXCEPT
             !.cache = @ \cup {[kind |-> "official", system |-> s, entries |-> Listed(e, "official", s)]},
             !.typed = @ \cup {s}]

loadPatchDatCache(e, s, loaded) ==
    IF Cached(e, "patch", s) # {} THEN loaded
    ELSE [loaded EXCEPT
             !.cache = @ \cup {[kind |-> "patch", system |-> s, entries |-> Listed(e, "patch", s)]}]

Entries(engine, k, s) == UNION {c.entries : c \in {c \in engine.cache : c.kind = k /\ c.system = s}}

orderedOfficialHashTypes(preferred) == <<"sha256", preferred, "sha1", "md5", "crc32">>

(* sha256 is never passed: files has no such column.                       *)
Hits(entries, f, type) ==
    {x \in entries : \E d \in DigestsOf[f] \cap x.digests : TypeOf[d] = type /\ type # "sha256"}

findHashInDatEntries(entries, preferred, f) ==
    LET order == orderedOfficialHashTypes(preferred)
        hit == {i \in DOMAIN order : Hits(entries, f, order[i]) # {}}
    IN  UNION {Hits(entries, f, order[i]) : i \in {i \in hit : \A j \in hit : i <= j}}

Matches(engine, k, f) ==
    findHashInDatEntries(Entries(engine, k, SystemOf[f]),
        IF SystemOf[f] \in engine.typed THEN PreferredType[SystemOf[f]] ELSE "crc32", f)

(* Mutant: a hash column is left out.                                      *)
OwnedButSha1(s) ==
    {d \in UNION {DigestsOf[f] : f \in {f \in RomFile : SystemOf[f] = s}} : TypeOf[d] # "sha1"}

OwnedDigests(s) == UNION {DigestsOf[f] : f \in {f \in RomFile : SystemOf[f] = s}}

(* Entries of the catalog, or without one of the imported DAT, of which    *)
(* the library holds no hash.                                              *)
getMissingGames(e, s) ==
    IF ~hasDat(e, s) THEN {}
    ELSE {x \in IF engines[e].attached THEN Listed(e, "official", s)
                ELSE Entries(loadDatCache(e, s), "official", s) :
             {d \in x.digests : TypeOf[d] # "sha256"} \cap OwnedDigests(s) = {}}

(***************************************************************************)
(* Importing: clear, header, entries, commit.  Only the last empties the   *)
(* cache; the results of the inserts and of the commit are not looked at.  *)
(***************************************************************************)
Files(k) == IF k = "official" THEN DatFiles ELSE PatchFiles

ImportClear(e) ==
    /\ At(e, "idle") /\ imports < MaxImports
    /\ imports' = imports + 1
    /\ \E k \in Kind, s \in DatSystem : \E entries \in Files(k) :
          \/ /\ Runs(e)
             /\ tables' = tables \ Rows(k, s)
             /\ behind' = Behind(e, k, s)
             /\ Go(e, [step |-> "header", kind |-> k, system |-> s, entries |-> entries])
          \/ Fails /\ UNCHANGED <<tables, behind, engines>>
    /\ UNCHANGED <<games, patched, ingests>> /\ verdict' = NoVerdict

ImportHeader(e) ==
    LET call == engines[e].call
        taken == Rows(call.kind, call.system) # {}
        row == [kind |-> call.kind, system |-> call.system, by |-> e, entries |-> {}]
    IN  /\ At(e, "header")
        /\ \/ /\ Runs(e) /\ ~taken /\ tables' = tables \cup {row} /\ Go(e, [call EXCEPT !.step = "entries"])
              /\ behind' = Behind(e, call.kind, call.system)
           \/ (Runs(e) /\ taken) /\ Go(e, NoCall) /\ UNCHANGED <<tables, behind>>
           \/ Fails /\ Go(e, NoCall) /\ UNCHANGED <<tables, behind>>
        /\ UNCHANGED <<games, patched, imports, ingests>> /\ verdict' = NoVerdict

(* Entries of a row another engine has deleted violate the foreign key.    *)
ImportEntries(e) ==
    LET call == engines[e].call
        mine == {r \in Rows(call.kind, call.system) : r.by = e}
    IN  /\ At(e, "entries")
        /\ \E stored \in SUBSET call.entries :
              /\ mine = {} => stored = {}
              /\ \/ Runs(e) /\ (mine # {} => stored = call.entries)
                 \/ Fails
              /\ \A d \in Engine \ {e} : stored # {} => ~At(d, "commit")
              /\ Go(e, [call EXCEPT !.step = IF stored = {} THEN "done" ELSE "commit", !.entries = stored])
        /\ UNCHANGED <<tables, games, patched, behind, imports, ingests>> /\ verdict' = NoVerdict

Committed(entries, call) ==
    {[r EXCEPT !.entries = IF r.kind = call.kind /\ r.system = call.system THEN entries ELSE @] : r \in tables}

(* Mutant: an import that keeps the cache.                                 *)
ForgetNothing(e, k, s) == engines' = [engines EXCEPT ![e].call = NoCall]

Forget(e, k, s) ==
    engines' = [engines EXCEPT ![e].call = NoCall, ![e].cache = @ \ Cached(e, k, s)]

ImportCommit(e) ==
    LET call == engines[e].call
    IN  /\ \/ At(e, "commit") /\ UNCHANGED verifyFaults /\ tables' = Committed(call.entries, call)
              /\ behind' = Behind(e, call.kind, call.system)
           \/ At(e, "commit") /\ Fails /\ UNCHANGED <<tables, behind>>
           \/ At(e, "done") /\ UNCHANGED <<tables, behind, verifyFaults>>
        /\ Forget(e, call.kind, call.system)
        /\ UNCHANGED <<games, patched, imports, ingests>> /\ verdict' = NoVerdict

RemoveDat(e) ==
    /\ At(e, "idle") /\ imports < MaxImports
    /\ imports' = imports + 1
    /\ \E k \in Kind, s \in DatSystem :
          \/ /\ Runs(e)
             /\ tables' = tables \ Rows(k, s)
             /\ behind' = Behind(e, k, s)
             /\ Forget(e, k, s)
          \/ Fails /\ UNCHANGED <<tables, behind, engines>>
    /\ UNCHANGED <<games, patched, ingests>> /\ verdict' = NoVerdict

(***************************************************************************)
(* Attaching or detaching a catalog clears every cache; a catalog that     *)
(* does not open is not attached.                                          *)
(***************************************************************************)
SetCompendiumDb(e) ==
    /\ At(e, "idle")
    /\ \E opened \in BOOLEAN : engines' = [engines EXCEPT ![e] = [Fresh EXCEPT !.attached = opened]]
    /\ behind' = behind \ {e}
    /\ UNCHANGED <<tables, games, patched, imports, ingests, verifyFaults>> /\ verdict' = NoVerdict

(* A process that dies rolls back; its caches go with it.                  *)
EngineDies(e) ==
    /\ ~At(e, "idle") /\ Fails
    /\ engines' = [engines EXCEPT ![e] = Fresh]
    /\ behind' = behind \ {e}
    /\ verdict' = NoVerdict
    /\ UNCHANGED <<tables, games, patched, imports, ingests>>

(* Another process ingests into the catalog: one transaction.              *)
CatalogChanges ==
    /\ ingests < MaxIngests /\ ingests' = ingests + 1
    /\ \E s \in DatSystem : \E listed \in CatalogStates :
          /\ games' = [games EXCEPT ![s] = listed]
          /\ behind' = behind \cup
                {e \in Engine : engines[e].attached /\ Cached(e, "official", s) # {}}
    /\ UNCHANGED <<tables, engines, patched, imports, verifyFaults>> /\ verdict' = NoVerdict

(***************************************************************************)
(* Verifying a file: look which catalogs there are, then load, compare,    *)
(* promote.                                                                *)
(***************************************************************************)
VerifyLook(e) ==
    /\ At(e, "idle")
    /\ \E f \in RomFile :
          LET official == hasDat(e, SystemOf[f])
              patch == hasPatchDat(SystemOf[f])
          IN  IF DigestsOf[f] = {}
              THEN verdict' = [engine |-> e, status |-> "hash_missing", file |-> f] /\ UNCHANGED engines
              ELSE IF ~official /\ ~patch
              THEN verdict' = [engine |-> e, status |-> "not_in_dat", file |-> f] /\ UNCHANGED engines
              ELSE /\ verdict' = NoVerdict
                   /\ Go(e, [step |-> "match", file |-> f, official |-> official, patch |-> patch])
    /\ UNCHANGED <<tables, games, patched, behind, imports, ingests, verifyFaults>>

(* What an entry does not say is taken from its name; what neither says    *)
(* stays as it is in the row.                                              *)
Promoted(row, x) ==
    LET gaps == "" \in {x.meta.base, x.meta.patch, x.meta.type}
        base == IF x.meta.base = "" THEN x.parsed.base ELSE x.meta.base
        patch == IF x.meta.patch = "" THEN x.parsed.patch ELSE x.meta.patch
        type == IF gaps /\ x.meta.type \in {"", "official"} THEN x.parsed.type ELSE x.meta.type
    IN  [base |-> IF base = "" THEN row.base ELSE base,
         patch |-> IF patch = "" THEN row.patch ELSE patch,
         type |-> IF type = "" THEN row.type ELSE type,
         marked |-> row.marked \/ patch # "" \/ type \in {"translation", "hack"}]

promotePatchMetadata(e, f, x) ==
    \/ Runs(e) /\ patched' = [patched EXCEPT ![f] = Promoted(@, x)]
    \/ Fails /\ UNCHANGED patched

VerifyMatch(e) ==
    LET call == engines[e].call
        s == SystemOf[call.file]
        loaded == IF call.official THEN loadDatCache(e, s) ELSE engines[e]
        official == IF call.official THEN Matches(loaded, "official", call.file) ELSE {}
        consult == official = {} /\ call.patch /\ hasPatchDat(s)
        all == IF consult THEN loadPatchDatCache(e, s, loaded) ELSE loaded
        patch == IF consult THEN Matches(all, "patch", call.file) ELSE {}
        Verified(k, x) == [engine |-> e, status |-> "verified", file |-> call.file, kind |-> k, entry |-> x]
    IN  /\ At(e, "match")
        /\ engines' = [engines EXCEPT ![e] = [all EXCEPT !.call = NoCall]]
        /\ \/ \E x \in official :
                 /\ verdict' = Verified("official", x)
                 /\ UNCHANGED <<patched, verifyFaults>>
           \/ \E x \in patch :
                 /\ verdict' = Verified("patch", x)
                 /\ promotePatchMetadata(e, call.file, x)
           \/ /\ official \cup patch = {}
              /\ verdict' = [engine |-> e, status |-> "not_in_dat", file |-> call.file]
              /\ UNCHANGED <<patched, verifyFaults>>
        /\ UNCHANGED <<tables, games, behind, imports, ingests>>

(* Asking for the missing games fills the cache too, without a catalog.    *)
ListMissing(e) ==
    /\ At(e, "idle") /\ ~engines[e].attached
    /\ \E s \in DatSystem : hasDat(e, s) /\ engines' = [engines EXCEPT ![e] = loadDatCache(e, s)]
    /\ UNCHANGED <<tables, games, patched, behind, imports, ingests, verifyFaults>> /\ verdict' = NoVerdict

VerifyNext ==
    \/ \E e \in Engine :
          \/ ImportClear(e) \/ ImportHeader(e) \/ ImportEntries(e) \/ ImportCommit(e)
          \/ RemoveDat(e) \/ EngineDies(e)
    \/ \E e \in Verifier :
          \/ SetCompendiumDb(e) \/ VerifyLook(e) \/ VerifyMatch(e) \/ ListMissing(e)
    \/ CatalogChanges

VerifySpec == VerifyInit /\ [][VerifyNext]_verifyVars

-----------------------------------------------------------------------------
VerifyTypeOK ==
    /\ \A r \in tables : r.kind \in Kind /\ r.system \in DatSystem /\ r.by \in Engine /\ r.entries \subseteq DatEntry
    /\ \A r, q \in tables : r.kind = q.kind /\ r.system = q.system => r = q
    /\ games \in [DatSystem -> SUBSET DatEntry]
    /\ \A e \in Engine : \A c \in engines[e].cache :
          c.kind \in Kind /\ c.system \in DatSystem /\ c.entries \subseteq DatEntry
    /\ patched \in [RomFile -> [base : {"", "b"}, patch : {"", "p"}, type : FileType, marked : BOOLEAN]]
    /\ behind \subseteq Engine

(* As long as nobody else writes what an engine has cached, the engine     *)
(* calls a file verified only by an entry that is listed at that moment:   *)
(* imports that fail or lose entries half way, and removals, never leave   *)
(* a cache that still vouches for files (verification_storage_dat.cpp:90,  *)
(* the early returns before it, and verification_storage.cpp:23).          *)
VerifiedIsListed ==
    [][verdict'.status = "verified" /\ verdict'.engine \notin behind
          => verdict'.entry \in Listed(verdict'.engine, verdict'.kind, SystemOf[verdict'.file])]_verifyVars

(* A game that a file of the library is verified by is never reported as   *)
(* missing, though the two answers come from different queries and only    *)
(* one of them from a cache (verification_engine_verify.cpp:274).          *)
VerifiedIsNotMissing ==
    \A e \in Engine \ behind : \A f \in RomFile :
        At(e, "idle") /\ hasDat(e, SystemOf[f])
          => Matches(loadDatCache(e, SystemOf[f]), "official", f)
                \cap getMissingGames(e, SystemOf[f]) = {}

=============================================================================
