---------------------------- MODULE CatalogSchema ----------------------------
(***************************************************************************)
(* catalog::init: catalog/catalog.cpp and catalog/sql_utilities.h, over    *)
(* the scripts of data/catalog/migrations and data/catalog/seeds.          *)
(*                                                                         *)
(* The version is read once, a script and the PRAGMA that stores its       *)
(* version are separate statements, and nothing holds a lock across them:  *)
(* processes that initialize at once, and one that dies, interleave there. *)
(* A script between BEGIN and COMMIT is one part; 0013, which copies a     *)
(* table, drops it and renames the copy, has no transaction and several.   *)
(***************************************************************************)
EXTENDS Naturals, Sequences, FiniteSets

CONSTANTS
    Process,
    Scripts,  \* the manifest: version, kind, parts
    Seeds,    \* the seed files in the order of their names
    MaxInits  \* calls of init

(* A script of CREATE .. IF NOT EXISTS can run at any time; one that adds  *)
(* a column runs once; one that replaces a table runs from start to end,   *)
(* and again when it has, but not from the middle.                         *)
ScriptKind == {"repeatable", "once", "replacing"}

ASSUME CatalogSchemaAssumption ==
    /\ Scripts \in Seq([version : Nat \ {0}, kind : ScriptKind, parts : Nat \ {0}])
    /\ \A i, j \in 1..Len(Scripts) : i < j => Scripts[i].version < Scripts[j].version
    /\ \A i \in 1..Len(Scripts) : Scripts[i].kind # "replacing" => Scripts[i].parts = 1
    /\ Seeds \in Seq(STRING) /\ \E i \in 1..Len(Seeds) : Seeds[i] = "systems"
    /\ MaxInits \in Nat

VARIABLES
    catalog, \* user_version, the parts done of each script, the seeds loaded
    inits,   \* where each process is: the version it believes, the next script, part or seed
    overlap, \* whether two inits were under way at once
    started

catalogSchemaVars == <<catalog, inits, overlap, started>>

Idle == [step |-> "idle", believes |-> 0, at |-> 1]

CatalogSchemaInit ==
    /\ catalog = [version |-> 0, done |-> [i \in 1..Len(Scripts) |-> 0], seeds |-> {}]
    /\ inits = [p \in Process |-> Idle]
    /\ overlap = FALSE /\ started = 0

Step(p, s) == inits' = [inits EXCEPT ![p] = s]

Initializing(p) == inits[p].step \notin {"idle", "ok"}

currentUserVersion(p) ==
    /\ ~Initializing(p) /\ started < MaxInits /\ started' = started + 1
    /\ overlap' = (overlap \/ \E q \in Process : Initializing(q))
    /\ Step(p, [step |-> "script", believes |-> catalog.version, at |-> 1])
    /\ UNCHANGED catalog

Current(p) == Scripts[inits[p].at]

Skip(p) ==
    /\ inits[p].step = "script" /\ inits[p].at <= Len(Scripts)
    /\ Current(p).version <= inits[p].believes
    /\ Step(p, [inits[p] EXCEPT !.at = @ + 1])
    /\ UNCHANGED <<catalog, overlap, started>>

(* executeSqlScript: the parts in order.  A column that is there, and the  *)
(* copy of a table that somebody left in the middle, are errors.           *)
CanBegin(p) ==
    LET script == Current(p) done == catalog.done[inits[p].at] IN
    CASE script.kind = "repeatable" -> TRUE
      [] script.kind = "once" -> done = 0
      [] script.kind = "replacing" -> done \in {0, script.parts}

Execute(p, part) ==
    /\ catalog' = [catalog EXCEPT !.done[inits[p].at] = part]
    /\ Step(p, [inits[p] EXCEPT !.step = IF part = Current(p).parts THEN "version" ELSE "part"])
    /\ UNCHANGED <<overlap, started>>

executeSqlScript(p) ==
    \/ /\ inits[p].step = "script" /\ inits[p].at <= Len(Scripts)
       /\ Current(p).version > inits[p].believes
       /\ CanBegin(p) /\ Execute(p, 1)
    \/ inits[p].step = "part" /\ Execute(p, catalog.done[inits[p].at] + 1)

SetVersionOfNext(p) == \* mutant: the version of the script that comes next
    catalog' = [catalog EXCEPT !.version = Scripts[IF inits[p].at < Len(Scripts) THEN inits[p].at + 1 ELSE inits[p].at].version]
setUserVersion(p) ==
    catalog' = [catalog EXCEPT !.version = Current(p).version]

Versioned(p) ==
    /\ inits[p].step = "version" /\ setUserVersion(p)
    /\ Step(p, [step |-> "script", believes |-> Current(p).version, at |-> inits[p].at + 1])
    /\ UNCHANGED <<overlap, started>>

(* applySeeds: nothing when there are systems, else every file in order.   *)
applySeeds(p) ==
    /\ inits[p].step = "script" /\ inits[p].at > Len(Scripts)
    /\ Step(p, IF "systems" \in catalog.seeds THEN [inits[p] EXCEPT !.step = "ok"]
               ELSE [inits[p] EXCEPT !.step = "seed", !.at = 1])
    /\ UNCHANGED <<catalog, overlap, started>>

Seed(p) ==
    /\ inits[p].step = "seed"
    /\ catalog' = [catalog EXCEPT !.seeds = @ \cup {Seeds[inits[p].at]}]
    /\ Step(p, IF inits[p].at = Len(Seeds) THEN [inits[p] EXCEPT !.step = "ok"]
               ELSE [inits[p] EXCEPT !.at = @ + 1])
    /\ UNCHANGED <<overlap, started>>

(* A statement fails, or the process dies.                                 *)
InitDies(p) ==
    /\ inits[p].step # "idle" /\ Step(p, Idle)
    /\ UNCHANGED <<catalog, overlap, started>>

CatalogSchemaNext ==
    \E p \in Process :
        \/ currentUserVersion(p) \/ Skip(p) \/ executeSqlScript(p) \/ Versioned(p)
        \/ applySeeds(p) \/ Seed(p) \/ InitDies(p)

CatalogSchemaSpec == CatalogSchemaInit /\ [][CatalogSchemaNext]_catalogSchemaVars

-----------------------------------------------------------------------------
CatalogSchemaTypeOK ==
    /\ catalog \in [version : {0} \cup {Scripts[i].version : i \in 1..Len(Scripts)},
                    done : [1..Len(Scripts) -> Nat],
                    seeds : SUBSET {Seeds[i] : i \in 1..Len(Seeds)}]
    /\ \A i \in 1..Len(Scripts) : catalog.done[i] <= Scripts[i].parts
    /\ inits \in [Process -> [step : {"idle", "script", "part", "version", "seed", "ok"}, believes : Nat, at : Nat]]
    /\ overlap \in BOOLEAN
    /\ started \in 0..MaxInits

(* The stored version never runs ahead of the schema: every script up to   *)
(* it has run to its end, also when inits overlap, die between a script    *)
(* and its version, or put an older version back; so an init that trusts   *)
(* the version leaves nothing out.  Of inits that overlap one may replace  *)
(* a table once more under the version the other has stored, and die in    *)
(* the middle of it.                                                       *)
VersionIsApplied ==
    \A i \in 1..Len(Scripts) :
        Scripts[i].version <= catalog.version =>
            catalog.done[i] = Scripts[i].parts \/ (overlap /\ Scripts[i].kind = "replacing")
=============================================================================
