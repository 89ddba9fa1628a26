----------------------------- MODULE CatalogFetch -----------------------------
(***************************************************************************)
(* metadata/catalog_fetch.cpp over metadata/http_client.cpp: the DATs of   *)
(* Redump are downloaded as zips, extracted into a directory of the cache, *)
(* and ingested when all of them are there.  Processes share the cache.    *)
(*                                                                         *)
(* The contents of a zip and of a DAT are the number of the release; a     *)
(* DAT's name tells its release, so that two releases are two files.       *)
(***************************************************************************)
EXTENDS Naturals, Sequences, FiniteSets, SequencesExt

CONSTANTS
    Fetcher,        \* processes
    Slugs,          \* the systems in the order of redumpTable
    FetchCalls,     \* systems that can be asked for, "" for all, and options
    MaxReleases, MaxFetches, MaxFetchFaults

ASSUME FetchAssumption ==
    /\ Slugs \in Seq(Range(Slugs)) /\ Slugs # <<>>
    /\ \A i, j \in DOMAIN Slugs : Slugs[i] = Slugs[j] => i = j
    /\ \A c \in FetchCalls : c.system \in {""} \cup Range(Slugs)
    /\ MaxReleases \in Nat \ {0}

VARIABLES
    release,    \* what the site serves for every system
    zip,        \* datfile.zip of each system: a release, 0 if none, or Partial
    extract,    \* the DATs in each system's extract directory
    fetchers,   \* the call of each process
    cataloged,  \* the release of each system in the catalog
    libarchive, \* how the program was built
    fetches, fetchFaults

fetchVars == <<release, zip, extract, fetchers, cataloged, libarchive, fetches, fetchFaults>>

Slug == Range(Slugs)
Partial == MaxReleases + 1
NotFetching == [step |-> "idle", todo |-> <<>>, options |-> {}, reply |-> "none", body |-> 0,
                dats |-> <<>>, alone |-> FALSE, refused |-> {}, downloaded |-> [s \in Slug |-> 0]]

FetchInit ==
    /\ release = 1 /\ libarchive \in BOOLEAN
    /\ zip = [s \in Slug |-> 0] /\ extract = [s \in Slug |-> {}]
    /\ cataloged = [s \in Slug |-> 0]
    /\ fetchers = [p \in Fetcher |-> NotFetching]
    /\ fetches = 0 /\ fetchFaults = 0

FetchFault == fetchFaults < MaxFetchFaults /\ fetchFaults' = fetchFaults + 1

Release == release < MaxReleases /\ release' = release + 1
           /\ UNCHANGED <<zip, extract, fetchers, cataloged, libarchive, fetches, fetchFaults>>

Fetching(p, step) == fetchers[p].step = step
Wanted(p) == Head(fetchers[p].todo)
(* What p does to the cache or the catalog disturbs the others.            *)
Moves(p, call) == [q \in Fetcher |-> IF q = p THEN call ELSE [fetchers[q] EXCEPT !.alone = FALSE]]
Fail(p) == [fetchers EXCEPT ![p] = NotFetching]

-----------------------------------------------------------------------------
(***************************************************************************)
(* HttpClient::get: the event loop quits at the reply or at the timer,     *)
(* whichever comes first, and the timer is looked at first afterwards.     *)
(***************************************************************************)
Get(call) == [call EXCEPT !.step = "get", !.reply = "pending"]

resolveSlugs(system) == IF system = "" THEN Slugs ELSE <<system>>

fetchCatalog(p) ==
    /\ Fetching(p, "idle") /\ fetches < MaxFetches /\ fetches' = fetches + 1
    /\ \E call \in FetchCalls :
        fetchers' = [fetchers EXCEPT ![p] = Get([NotFetching EXCEPT !.todo = resolveSlugs(call.system), !.options = call.options,
                                              !.alone = \A q \in Fetcher \ {p} : Fetching(q, "idle")])]
    /\ UNCHANGED <<release, zip, extract, cataloged, libarchive, fetchFaults>>

Reply(p) ==
    /\ Fetching(p, "get") /\ fetchers[p].reply = "pending"
    /\ fetchers' = [fetchers EXCEPT ![p] = [@ EXCEPT !.reply = "body", !.body = release]]
    /\ UNCHANGED <<release, zip, extract, cataloged, libarchive, fetches, fetchFaults>>

(* The timer fires, also together with a reply; or the reply is an error,  *)
(* a status, or no zip.                                                    *)
TimedOut(p) ==
    /\ Fetching(p, "get") /\ fetchers' = Fail(p)
    /\ UNCHANGED <<release, zip, extract, cataloged, libarchive, fetches, fetchFaults>>

(* The zip is truncated when it is opened; a short write leaves it so.     *)
OpenZip(p) ==
    /\ Fetching(p, "get") /\ fetchers[p].reply = "body"
    /\ zip' = [zip EXCEPT ![Wanted(p)] = Partial]
    /\ fetchers' = Moves(p, [fetchers[p] EXCEPT !.step = "zip"])
    /\ UNCHANGED <<release, extract, cataloged, libarchive, fetches, fetchFaults>>

downloadRedumpZip(p) ==
    /\ Fetching(p, "zip")
    /\ zip' = [zip EXCEPT ![Wanted(p)] = fetchers[p].body]
    /\ fetchers' = Moves(p, [fetchers[p] EXCEPT !.step = "clear", !.downloaded[Wanted(p)] = fetchers[p].body])
    /\ UNCHANGED <<release, extract, cataloged, libarchive, fetches, fetchFaults>>

-----------------------------------------------------------------------------
(***************************************************************************)
(* The extract directory is emptied, then the zip is read and its DAT      *)
(* written.  That files may refuse to go is not looked at.                 *)
(***************************************************************************)
LeavesOld(dats) == dats \* mutant: the directory is not emptied
removeRecursively(dats) == {}

Clear(p) ==
    /\ Fetching(p, "clear")
    /\ \/ /\ extract' = [extract EXCEPT ![Wanted(p)] = removeRecursively(@)]
          /\ fetchers' = Moves(p, [fetchers[p] EXCEPT !.step = "extract"])
          /\ UNCHANGED fetchFaults
       \/ /\ FetchFault
          /\ \E left \in SUBSET extract[Wanted(p)] : extract' = [extract EXCEPT ![Wanted(p)] = left]
          /\ fetchers' = Moves(p, [fetchers[p] EXCEPT !.step = "extract", !.refused = @ \cup {Wanted(p)}])
    /\ UNCHANGED <<release, zip, cataloged, libarchive, fetches>>

ReadZip(p) ==
    /\ Fetching(p, "extract")
    /\ fetchers' = IF zip[Wanted(p)] = Partial THEN Fail(p)
                   ELSE [fetchers EXCEPT ![p] = [@ EXCEPT !.step = "write", !.body = zip[Wanted(p)]]]
    /\ UNCHANGED <<release, zip, extract, cataloged, libarchive, fetches, fetchFaults>>

(* The archive library names the file it wrote; after unzip, the first DAT *)
(* of the directory is taken.                                              *)
extractDatFromZip(p) ==
    /\ Fetching(p, "write")
    /\ LET s == Wanted(p) dats == extract[s] \cup {fetchers[p].body} IN
       /\ extract' = [extract EXCEPT ![s] = dats]
       /\ \E found \in IF libarchive THEN {fetchers[p].body} ELSE dats :
            LET call == [fetchers[p] EXCEPT !.dats = Append(@, <<s, found>>), !.todo = Tail(@)] IN
            fetchers' = Moves(p, IF call.todo # <<>> THEN Get(call)
                                ELSE IF "ingest" \in call.options THEN [call EXCEPT !.step = "ingest"] ELSE NotFetching)
    /\ UNCHANGED <<release, zip, cataloged, libarchive, fetches, fetchFaults>>

(* ingestDatPaths: one transaction for each; the first failure, of a file  *)
(* that is gone or of the catalog, ends it.                                *)
ingestDatPaths(p) ==
    /\ Fetching(p, "ingest") /\ fetchers[p].dats # <<>>
    /\ LET dat == Head(fetchers[p].dats)
           call == [fetchers[p] EXCEPT !.dats = Tail(@)] IN
       IF dat[2] \in extract[dat[1]]
       THEN /\ cataloged' = [cataloged EXCEPT ![dat[1]] = dat[2]]
            /\ fetchers' = Moves(p, IF call.dats = <<>> THEN NotFetching ELSE call)
       ELSE fetchers' = Fail(p) /\ UNCHANGED cataloged
    /\ UNCHANGED <<release, zip, extract, libarchive, fetches, fetchFaults>>

(* A write, the extraction or the ingest fails, or the process dies.       *)
FetchDies(p) ==
    /\ ~Fetching(p, "idle") /\ FetchFault /\ fetchers' = Fail(p)
    /\ UNCHANGED <<release, zip, extract, cataloged, libarchive, fetches>>

FetchNext ==
    \/ Release
    \/ \E p \in Fetcher :
        \/ fetchCatalog(p) \/ Reply(p) \/ TimedOut(p) \/ OpenZip(p) \/ downloadRedumpZip(p)
        \/ Clear(p) \/ ReadZip(p) \/ extractDatFromZip(p) \/ ingestDatPaths(p) \/ FetchDies(p)

FetchSpec == FetchInit /\ [][FetchNext]_fetchVars

-----------------------------------------------------------------------------
FetchTypeOK ==
    /\ release \in 1..MaxReleases /\ libarchive \in BOOLEAN
    /\ \A s \in Slug : zip[s] \in 0..Partial /\ extract[s] \subseteq 1..MaxReleases
    /\ \A p \in Fetcher : fetchers[p].step \in {"idle", "get", "zip", "clear", "extract", "write", "ingest"}

(* The DAT a process is about to ingest is of the release it downloaded or *)
(* of a later one, never one that an earlier or an interrupted fetch left  *)
(* in the cache.  Two things can bring an older release back: a process    *)
(* that writes to the same cache meanwhile, and, where unzip unpacks, a    *)
(* directory that could not be emptied, since the first DAT in it is taken;*)
(* the archive library names the file it wrote, and no leftover counts.    *)
FreshDat ==
    \A p \in Fetcher : fetchers[p].alone =>
        \A i \in DOMAIN fetchers[p].dats :
            LET dat == fetchers[p].dats[i]
            IN  libarchive \/ dat[1] \notin fetchers[p].refused => dat[2] >= fetchers[p].downloaded[dat[1]]
=============================================================================
