------------------------------ MODULE Enrichment ------------------------------
(***************************************************************************)
(* metadata/library_enrich.cpp and hasheous_provider.cpp: what the catalog *)
(* lacks of the games a library owns (cover, texts, artwork URLs) is made  *)
(* up from names, asked of Hasheous, and imported from its JSON.           *)
(*                                                                         *)
(* Every statement commits by itself and a pass waits for the network      *)
(* between what it has read and what it writes; another process enriches   *)
(* or imports meanwhile.  The description, developer, publisher and date,  *)
(* which are filled alike, are one value, about; genre and rating are      *)
(* another, extra; hero stands for the pictures that have no part in the   *)
(* cover.                                                                  *)
(***************************************************************************)
EXTENDS Naturals, Sequences, FiniteSets, SequencesExt

CONSTANTS
    Enricher,   \* processes
    Owned,      \* games of rows with a confirmed match
    HashKeys,   \* cache keys of each owned game: one for each digest its rows have
    Answers,    \* what Hasheous can answer for a game
    EnrichOptions, \* sets of the options of a pass
    MaxPasses, MaxEnrichFaults

ASSUME EnrichAssumption ==
    /\ EnrichOptions \subseteq SUBSET {"online", "deep", "dry"}
    /\ \A a \in Answers : a = [f \in {"title", "cover", "about", "extra", "igdb", "hero"} |-> a[f]]

VARIABLES
    catalogGames, \* the rows of games
    assets,     \* game_assets: the URL of each type, "" if there is no row
    misses,     \* the cache table of the library
    passes,     \* the call of each process
    torn,       \* whether a cover may have been left without its asset
    passCount, enrichFaults

enrichVars == <<catalogGames, assets, misses, passes, torn, passCount, enrichFaults>>

AssetType == {"boxart", "hero"}
libretroAssetTypes == <<"boxart">>
NoAnswer == [title |-> "", cover |-> "", about |-> "", extra |-> "", igdb |-> "", hero |-> ""]
NoPass == [step |-> "idle", todo |-> {}, options |-> {}, game |-> "", seen |-> <<>>, have |-> {},
           rest |-> <<>>, answer |-> NoAnswer, key |-> "", clean |-> FALSE]

EnrichInit ==
    /\ catalogGames = [g \in Owned |-> [title |-> "t", cover |-> "", about |-> "", extra |-> ""]]
    /\ assets = [g \in Owned |-> [t \in AssetType |-> ""]]
    /\ misses = {} /\ torn = TRUE
    /\ passes = [p \in Enricher |-> NoPass]
    /\ passCount = 0 /\ enrichFaults = 0

In(p, step) == passes[p].step = step
Opt(p, option) == option \in passes[p].options
Goto(p, call) == passes' = [passes EXCEPT ![p] = call]
NextGame(p) == [passes[p] EXCEPT !.step = "next"]
FirstOf(a, b) == IF a # "" THEN a ELSE b

(* An insert that fails or a process that dies: passes that have begun no  *)
(* longer count as whole.                                                  *)
Tear(p, call) ==
    /\ enrichFaults < MaxEnrichFaults /\ enrichFaults' = enrichFaults + 1
    /\ torn' = TRUE
    /\ passes' = [q \in Enricher |-> IF q = p THEN [call EXCEPT !.clean = FALSE] ELSE [passes[q] EXCEPT !.clean = FALSE]]

(* ON CONFLICT(game_id, asset_type) DO NOTHING.                            *)
upsertAsset(p, type, url, call) ==
    \/ /\ assets' = [assets EXCEPT ![passes[p].game][type] = FirstOf(@, url)]
       /\ Goto(p, call) /\ UNCHANGED <<torn, enrichFaults>>
    \/ Tear(p, call) /\ UNCHANGED assets

-----------------------------------------------------------------------------
EnrichStart(p) ==
    /\ In(p, "idle") /\ passCount < MaxPasses /\ passCount' = passCount + 1
    /\ \E options \in EnrichOptions :
        Goto(p, [NoPass EXCEPT !.step = "next", !.todo = Owned, !.options = options, !.clean = "dry" \notin options])
    /\ UNCHANGED <<catalogGames, assets, misses, torn, enrichFaults>>

(* A game whose SELECT fails is passed over; such a pass is not whole.     *)
Look(p, g) ==
    /\ In(p, "next") /\ g \in passes[p].todo
    /\ \/ /\ Goto(p, [passes[p] EXCEPT !.step = "assets", !.todo = @ \ {g}, !.game = g, !.seen = catalogGames[g]])
          /\ UNCHANGED enrichFaults
       \/ /\ enrichFaults < MaxEnrichFaults /\ enrichFaults' = enrichFaults + 1
          /\ Goto(p, [passes[p] EXCEPT !.todo = @ \ {g}, !.clean = FALSE])
    /\ UNCHANGED <<catalogGames, assets, misses, torn, passCount>>

existingAssetTypes(p) ==
    /\ In(p, "assets")
    /\ Goto(p, [passes[p] EXCEPT !.step = "cover", !.have = {t \in AssetType : assets[passes[p].game][t] # ""}])
    /\ UNCHANGED <<catalogGames, assets, misses, torn, passCount, enrichFaults>>

(* The cover the game has becomes its boxart.                              *)
CoverUnkept(seen, have) == FALSE \* mutant: a cover without its asset is taken as it is
CoverLacksBoxart(seen, have) == seen.cover # "" /\ "boxart" \notin have

KeepCover(p) ==
    /\ In(p, "cover")
    /\ LET pass == [passes[p] EXCEPT !.step = "thumbs", !.rest = libretroAssetTypes] IN
       IF ~CoverLacksBoxart(pass.seen, pass.have)
       THEN Goto(p, pass) /\ UNCHANGED <<assets, torn, enrichFaults>>
       ELSE LET kept == [pass EXCEPT !.have = @ \cup {"boxart"}] IN
            IF Opt(p, "dry") THEN Goto(p, kept) /\ UNCHANGED <<assets, torn, enrichFaults>>
            ELSE upsertAsset(p, "boxart", pass.seen.cover, kept)
    /\ UNCHANGED <<catalogGames, misses, passCount>>

(* pickLibretroUrl: the first candidate, or online the first that is there *)
(* when probed; none without the name of a system.                         *)
Thumbnail(p) ==
    /\ In(p, "thumbs") /\ passes[p].rest # <<>>
    /\ LET type == Head(passes[p].rest)
           on == [passes[p] EXCEPT !.rest = Tail(@)]
           stored == [on EXCEPT !.have = @ \cup {type},
                                !.step = IF type = "boxart" /\ on.seen.cover = "" THEN "thumbcover" ELSE "thumbs"]
       IN  \/ Goto(p, on) /\ UNCHANGED <<assets, torn, enrichFaults>>
           \/ type \notin on.have /\ ~Opt(p, "dry")
              /\ \/ assets' = [assets EXCEPT ![on.game][type] = FirstOf(@, "libretro")]
                    /\ Goto(p, stored) /\ UNCHANGED <<torn, enrichFaults>>
                 \/ Tear(p, on) /\ UNCHANGED assets
    /\ UNCHANGED <<catalogGames, misses, passCount>>

ThumbnailCover(p) ==
    /\ In(p, "thumbcover")
    /\ catalogGames' = [catalogGames EXCEPT ![passes[p].game].cover = FirstOf(@, "libretro")]
    /\ Goto(p, [passes[p] EXCEPT !.step = "thumbs", !.seen.cover = "libretro"])
    /\ UNCHANGED <<assets, misses, torn, passCount, enrichFaults>>

needsHasheousFields(seen) == seen.cover = "" \/ seen.about = ""
needsDeepFields(seen, have) == seen.extra = "" \/ "hero" \notin have

(* A game that is complete, offline, or known to be missing is not asked   *)
(* for; its key is the digest of whichever of its rows was read first.     *)
Decide(p) ==
    /\ In(p, "thumbs") /\ passes[p].rest = <<>>
    /\ LET pass == passes[p] IN
       \E key \in HashKeys[pass.game] :
           Goto(p, IF /\ needsHasheousFields(pass.seen) \/ (Opt(p, "deep") /\ needsDeepFields(pass.seen, pass.have))
                      /\ key \notin misses /\ Opt(p, "online") /\ ~Opt(p, "dry")
                   THEN [pass EXCEPT !.step = "ask", !.key = key] ELSE NextGame(p))
    /\ UNCHANGED <<catalogGames, assets, misses, torn, passCount, enrichFaults>>

(* lookupByHashes: a timeout or an error is no answer.                     *)
Ask(p) ==
    /\ In(p, "ask")
    /\ \E answer \in Answers \cup {NoAnswer} :
        Goto(p, [passes[p] EXCEPT !.answer = answer, !.rest = <<"boxart", "hero">>,
                 !.step = IF [answer EXCEPT !.extra = "", !.hero = ""] = NoAnswer THEN "miss"
                          ELSE IF Opt(p, "deep") /\ answer.igdb # "" THEN "igdb" ELSE "apply"])
    /\ UNCHANGED <<catalogGames, assets, misses, torn, passCount, enrichFaults>>

rememberMiss(p) ==
    /\ In(p, "miss") /\ misses' = misses \cup {passes[p].key} /\ Goto(p, NextGame(p))
    /\ UNCHANGED <<catalogGames, assets, torn, passCount, enrichFaults>>

(* Thirty days later.                                                      *)
MissExpires(key) ==
    /\ key \in misses /\ misses' = misses \ {key}
    /\ UNCHANGED <<catalogGames, assets, passes, torn, passCount, enrichFaults>>

mergeMetadata(base, overlay) == [f \in DOMAIN base |-> FirstOf(base[f], overlay[f])]

fetchIgdbGame(p) ==
    /\ In(p, "igdb")
    /\ \E proxy \in Answers \cup {NoAnswer} :
        Goto(p, [passes[p] EXCEPT !.step = "apply",
                 !.answer = IF \E f \in {"title", "extra", "hero"} : proxy[f] # ""
                            THEN mergeMetadata(@, proxy) ELSE @])
    /\ UNCHANGED <<catalogGames, assets, misses, torn, passCount, enrichFaults>>

(* Cover and texts only where there is none; title, genre, rating always.  *)
applyHasheousMetadata(p) ==
    /\ In(p, "apply")
    /\ LET a == passes[p].answer IN
       catalogGames' = [catalogGames EXCEPT ![passes[p].game] =
                    [title |-> FirstOf(a.title, @.title), cover |-> FirstOf(@.cover, a.cover),
                     about |-> FirstOf(@.about, a.about), extra |-> FirstOf(a.extra, @.extra)]]
    /\ Goto(p, [passes[p] EXCEPT !.step = "store"])
    /\ UNCHANGED <<assets, misses, torn, passCount, enrichFaults>>

(* Boxart, then applyIgdbAssets; an import, which has seen none of them,   *)
(* tries them all.                                                         *)
UrlOf(type, answer) == IF type = "boxart" THEN answer.cover ELSE answer.hero

StoreAsset(p) ==
    /\ In(p, "store") /\ passes[p].rest # <<>>
    /\ LET type == Head(passes[p].rest)
           url == UrlOf(type, passes[p].answer)
           on == [passes[p] EXCEPT !.rest = Tail(@)]
       IN  IF url = "" \/ type \in on.have THEN Goto(p, on) /\ UNCHANGED <<assets, torn, enrichFaults>>
           ELSE upsertAsset(p, type, url, on)
    /\ UNCHANGED <<catalogGames, misses, passCount>>

StoreDone(p) ==
    /\ In(p, "store") /\ passes[p].rest = <<>>
    /\ Goto(p, IF Opt(p, "import") THEN NoPass ELSE NextGame(p))
    /\ UNCHANGED <<catalogGames, assets, misses, torn, passCount, enrichFaults>>

(* A whole pass has looked at every game since the last interruption.      *)
EnrichDone(p) ==
    /\ In(p, "next") /\ passes[p].todo = {}
    /\ Goto(p, NoPass)
    /\ torn' = (torn /\ ~passes[p].clean)
    /\ UNCHANGED <<catalogGames, assets, misses, passCount, enrichFaults>>

(* importHasheousJson, one entry: what the file has replaces what is there.*)
updateGameMetadata(p, g) ==
    /\ In(p, "idle") /\ passCount < MaxPasses /\ passCount' = passCount + 1
    /\ \E a \in Answers :
        /\ catalogGames' = [catalogGames EXCEPT ![g] = [f \in DOMAIN @ |-> FirstOf(a[f], @[f])]]
        /\ Goto(p, [NoPass EXCEPT !.step = "store", !.game = g, !.options = {"import"}, !.answer = a,
                                  !.rest = <<"boxart", "hero">>])
    /\ UNCHANGED <<assets, misses, torn, enrichFaults>>

EnrichDies(p) == ~In(p, "idle") /\ Tear(p, NoPass) /\ UNCHANGED <<catalogGames, assets, misses, passCount>>

EnrichNext ==
    \/ \E key \in UNION {HashKeys[g] : g \in Owned} : MissExpires(key)
    \/ \E p \in Enricher :
        \/ EnrichStart(p) \/ existingAssetTypes(p) \/ KeepCover(p) \/ Thumbnail(p) \/ ThumbnailCover(p) \/ Decide(p)
        \/ Ask(p) \/ rememberMiss(p) \/ fetchIgdbGame(p) \/ applyHasheousMetadata(p) \/ StoreAsset(p) \/ StoreDone(p)
        \/ EnrichDone(p) \/ EnrichDies(p)
        \/ \E g \in Owned : Look(p, g) \/ updateGameMetadata(p, g)

EnrichSpec == EnrichInit /\ [][EnrichNext]_enrichVars

-----------------------------------------------------------------------------
EnrichTypeOK ==
    /\ \A g \in Owned : DOMAIN catalogGames[g] = {"title", "cover", "about", "extra"} /\ DOMAIN assets[g] = AssetType
    /\ misses \subseteq UNION {HashKeys[g] : g \in Owned}
    /\ torn \in BOOLEAN /\ \A p \in Enricher : passes[p].clean => ~Opt(p, "dry")

(* Once a pass that writes has gone through the library after the last     *)
(* interruption, every owned game with a cover has its boxart: also the    *)
(* games whose cover another process stored after this pass looked, and    *)
(* those an earlier run left with a cover and no asset.                    *)
CoverHasBoxart ==
    ~torn /\ (\A p \in Enricher : In(p, "idle")) =>
        \A g \in Owned : catalogGames[g].cover # "" => assets[g]["boxart"] # ""
=============================================================================
