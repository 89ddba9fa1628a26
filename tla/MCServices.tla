----------------------------- MODULE MCServices -----------------------------
(***************************************************************************)
(* The smaller services of the program, each on an instance of its own.    *)
(* They share no state: the catalog and the library a service works on     *)
(* are, for it, what other processes change under it, and its module has   *)
(* actions for them.  The variable component says which of them a          *)
(* behaviour is about; the others stay as they began.                      *)
(***************************************************************************)
EXTENDS Verification, ToolRunner, PatchEngine, LibraryGui, LibrarySchema, CatalogSchema, DiscSets,
        ArchiveExtractor, CatalogFetch, Enrichment, TLC

(* A game listed by its sha1 alone, a revision listed by another sha1 and  *)
(* the crc of file 1, and two patches.  Files: 1 a game, 2 patched, 3 new. *)
MCEntry(title, digests, base, patch, type, named) ==
    [title |-> title, digests |-> digests,
     meta |-> [base |-> base, patch |-> patch, type |-> type],
     parsed |-> [base |-> "b", patch |-> named, type |-> IF named = "" THEN "official" ELSE "hack"]]
MCGame == MCEntry("g", {"s1"}, "", "", "official", "")
MCRevision == MCEntry("h", {"s2", "c1"}, "", "", "official", "")
MCHack == MCEntry("k", {"c2"}, "", "", "", "p")
MCUnnamed == MCEntry("u", {"s1", "c2"}, "", "", "translation", "")
MCDatEntry == {MCGame, MCRevision, MCHack, MCUnnamed}
MCDatFiles == {{MCGame}, {MCRevision}}
MCPatchFiles == {{MCHack, MCUnnamed}}
MCCatalogStates == {{}, {MCGame, MCRevision}}
MCTypeOf == ("s1" :> "sha1" @@ "s2" :> "sha1" @@ "c1" :> "crc32" @@ "c2" :> "crc32")
MCDigestsOf == (1 :> {"s1", "c1"} @@ 2 :> {"c2"} @@ 3 :> {})
MCSystemOf == [f \in 1..3 |-> "nes"]
MCPreferred == [s \in {"nes"} |-> "crc32"]

(* Two sheets, a large image beside one of them with the same output, and  *)
(* a file chdman cannot take.                                              *)
MCOutputOf == ("a.cue" :> "a" @@ "b.iso" :> "b" @@ "b.txt" :> "b")
MCExtOf == ("a.cue" :> "cue" @@ "b.iso" :> "iso" @@ "b.txt" :> "txt")
MCBatches == {<<"a.cue", "b.iso">>, <<"b.txt", "b.iso">>}

MCOutputsBefore == ("a" :> "absent" @@ "b" :> "old")

(* Libraries whose systems sit in each other's slots, in free ones, or     *)
(* under a name of no system; rows that reference any of them or nothing.  *)
MCCanonicalId == ("A" :> 1 @@ "B" :> 2)
MCDetected == ("f1" :> "B" @@ "f2" :> "none")
MCRow(id, name) == [id |-> id, name |-> <<name, <<>>>>]
MCSystems == {{MCRow(1, "B"), MCRow(2, "A")}, {MCRow(1, "other"), MCRow(3, "A"), MCRow(2, "B")},
              {MCRow(2, "A")}, {MCRow(1, "A"), MCRow(5, "B")}, {MCRow(1, "B"), MCRow(11, "other")}}
MCLegacyDisks ==
    {[tables |-> {"systems", "libraries", "files", "cache", "undo_queue", "games", "matches"},
      columns |-> c, systems |-> s, refs |-> r] :
        c \in {{}, {"files.status"}, {"files.status", "files.catalog"}}, s \in MCSystems, r \in [{"f1", "f2", "g1"} -> {0, 1, 2, 3, 5, 11}]}

MCScripts == <<[version |-> 1, kind |-> "repeatable", parts |-> 1], [version |-> 3, kind |-> "once", parts |-> 1],
               [version |-> 7, kind |-> "repeatable", parts |-> 1], [version |-> 13, kind |-> "replacing", parts |-> 3]>>
MCSeeds == <<"regions", "systems", "merge_policy">>

(* A game of two discs, the first of two tracks, and a file whose name     *)
(* says nothing, the second track; it and another can be one game.         *)
MCDiscName(title, disc, name, base) == [title |-> title, disc |-> disc, name |-> name, base |-> base]
MCLabel == (1 :> MCDiscName("T", 2, "T", "") @@ 2 :> MCDiscName("T", 1, "T", "") @@ 3 :> MCDiscName("", 0, "", "S"))
MCSignature == (1 :> "x1" @@ 2 :> "x2" @@ 3 :> "x3")
MCConfirmedAs == (1 :> "none" @@ 2 :> "game" @@ 3 :> "game")
MCRecord(disc, index, entry, signature) ==
    [title |-> "T", disc |-> disc, count |-> 0, index |-> index, entry |-> entry, signature |-> signature]
MCDats == {<<MCRecord(1, 1, "e2", "x2"), MCRecord(1, 2, "e3", "x3"), MCRecord(2, 1, "e1", "x1")>>,
           <<MCRecord(2, 1, "e1", "x1"), MCRecord(1, 1, "e2", "x2"), MCRecord(1, 1, "e4", "none")>>}

(* An archive with an unsafe name after files, one with many members.      *)
MCArchives == {<<"a", "folder", "b", "unsafe">>, <<"a", "a", "b", "c">>, <<"c", "unsafe">>}

(* A game, an answer of texts and one of pictures.                         *)
MCHashKeys == ("g1" :> {"k1"})
MCTexts == [title |-> "h", cover |-> "", about |-> "h", extra |-> "", igdb |-> "7", hero |-> ""]
MCPictures == [title |-> "", cover |-> "hc", about |-> "", extra |-> "", igdb |-> "", hero |-> "x"]

MCAnswers == {MCTexts, MCPictures}

MCFetchCalls == {[system |-> "", options |-> {"ingest"}], [system |-> "gc", options |-> {"ingest"}],
                 [system |-> "gc", options |-> {}]}
MCSlugs == <<"gc", "wii">>

CONSTANT Components
VARIABLE component

Others(c) ==
    /\ component' = component
    /\ IF c = "verify" THEN TRUE ELSE UNCHANGED verifyVars
    /\ IF c = "runner" THEN TRUE ELSE UNCHANGED runnerVars
    /\ IF c = "patch" THEN TRUE ELSE UNCHANGED patchVars
    /\ IF c = "gui" THEN TRUE ELSE UNCHANGED guiVars
    /\ IF c = "library" THEN TRUE ELSE UNCHANGED schemaVars
    /\ IF c = "catalog" THEN TRUE ELSE UNCHANGED catalogSchemaVars
    /\ IF c = "discs" THEN TRUE ELSE UNCHANGED discVars
    /\ IF c = "archive" THEN TRUE ELSE UNCHANGED archiveVars
    /\ IF c = "fetch" THEN TRUE ELSE UNCHANGED fetchVars
    /\ IF c = "enrich" THEN TRUE ELSE UNCHANGED enrichVars

MCInit ==
    /\ component \in Components
    /\ VerifyInit /\ RunnerInit /\ PatchInit /\ GuiInit
    /\ CatalogSchemaInit /\ DiscInit /\ SchemaInit /\ ArchiveInit /\ FetchInit /\ EnrichInit
    /\ component = "library" \/ disk = Empty
    /\ component = "fetch" \/ libarchive
    /\ component = "gui" \/ edition = 1

MCNext ==
    \/ component = "verify" /\ VerifyNext /\ Others("verify")
    \/ component = "runner" /\ RunnerNext /\ Others("runner")
    \/ component = "patch" /\ PatchNext /\ Others("patch")
    \/ component = "gui" /\ GuiNext /\ Others("gui")
    \/ component = "library" /\ SchemaNext /\ Others("library")
    \/ component = "catalog" /\ CatalogSchemaNext /\ Others("catalog")
    \/ component = "discs" /\ DiscNext /\ Others("discs")
    \/ component = "archive" /\ ArchiveNext /\ Others("archive")
    \/ component = "fetch" /\ FetchNext /\ Others("fetch")
    \/ component = "enrich" /\ EnrichNext /\ Others("enrich")

vars == <<component, verifyVars, runnerVars, patchVars, guiVars, schemaVars, catalogSchemaVars, discVars,
          archiveVars, fetchVars, enrichVars>>

Spec == MCInit /\ [][MCNext]_vars /\ RunnerFairness /\ GuiFairness

-----------------------------------------------------------------------------
(* Every variable of every service stays in its type, with what the tables *)
(* and the objects of the program promise by their keys: one row for each  *)
(* id and each name of a system, one DAT for each system, and as many jobs *)
(* of the window as its busy flag says.                                    *)
ServicesTypeOK ==
    /\ VerifyTypeOK /\ RunnerTypeOK /\ PatchTypeOK /\ GuiTypeOK /\ SchemaTypeOK
    /\ CatalogSchemaTypeOK /\ DiscTypeOK /\ ArchiveTypeOK /\ FetchTypeOK /\ EnrichTypeOK

(* Whoever waits is answered: a batch of conversions with children that    *)
(* hang, die, ignore signals or are cancelled comes to its end, and a busy *)
(* window becomes idle or is closed.                                       *)
WaitsEnd == RunsEnd /\ BusyEnds
=============================================================================
