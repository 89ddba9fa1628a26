----------------------- MODULE LibraryServicesProofs -----------------------
(***************************************************************************)
(* Theorems about the services around the library database: CatalogSchema, *)
(* LibraryGui, LibrarySchema and Verification.                             *)
(***************************************************************************)
EXTENDS CatalogSchema, LibraryGui, LibrarySchema, Verification, FiniteSetTheorems, TLAPS

-----------------------------------------------------------------------------
(* CatalogSchema: the stored version and the schema.                       *)

(* A script that has run to its end, unless inits overlapped and it is one *)
(* that may be begun again from there.                                     *)
Applied(i) == catalog.done[i] = Scripts[i].parts \/ (overlap /\ Scripts[i].kind = "replacing")

(* What a process has behind it: the scripts up to the version it believes *)
(* in, those before the one it is at, and the parts of that one.           *)
Migrating(p) == inits[p].step \in {"script", "part", "version"}
BelievesApplied(p) == \A i \in 1..Len(Scripts) : Scripts[i].version <= inits[p].believes => Applied(i)
PassedApplied(p) == \A i \in 1..Len(Scripts) : i < inits[p].at => Applied(i)
InScript(p) ==
    /\ inits[p].at \in 1..Len(Scripts)
    /\ Scripts[inits[p].at].version > inits[p].believes
Halfway(p) ==
    /\ Scripts[inits[p].at].kind = "replacing"
    /\ catalog.done[inits[p].at] \in 1..(Scripts[inits[p].at].parts - 1)

CatalogJobOK(p) ==
    /\ Migrating(p) => inits[p].at >= 1 /\ inits[p].at <= Len(Scripts) + 1 /\ BelievesApplied(p) /\ PassedApplied(p)
    /\ inits[p].step \in {"part", "version"} => InScript(p)
    /\ inits[p].step = "part" => Halfway(p)
    /\ inits[p].step = "version" => Applied(inits[p].at)
    /\ inits[p].step = "seed" => inits[p].at \in 1..Len(Seeds)

(* Two inits under way have been noticed, no two are in the middle of one  *)
(* script, and without overlap the version believed in is the stored one.  *)
Alone ==
    /\ \A p, q \in Process : p # q /\ Initializing(p) /\ Initializing(q) => overlap
    /\ \A p, q \in Process : p # q /\ inits[p].step = "part" /\ inits[q].step = "part" => inits[p].at # inits[q].at
    /\ \A p \in Process : Initializing(p) /\ ~overlap => catalog.version <= inits[p].believes

CatalogIInv == CatalogSchemaTypeOK /\ VersionIsApplied /\ Alone /\ \A p \in Process : CatalogJobOK(p)

-----------------------------------------------------------------------------
(* What the manifest promises.                                             *)
LEMMA ScriptFacts ==
    /\ Len(Scripts) \in Nat /\ Len(Seeds) \in Nat /\ 1 <= Len(Seeds) /\ MaxInits \in Nat
    /\ \A i \in 1..Len(Scripts) :
          /\ Scripts[i].version \in Nat /\ Scripts[i].version > 0
          /\ Scripts[i].parts \in Nat /\ Scripts[i].parts > 0
          /\ Scripts[i].kind \in ScriptKind
          /\ Scripts[i].kind # "replacing" => Scripts[i].parts = 1
    /\ \A i, j \in 1..Len(Scripts) : Scripts[i].version <= Scripts[j].version => i <= j
<1> DEFINE Script == [version : Nat \ {0}, kind : ScriptKind, parts : Nat \ {0}]
<1>0. Scripts \in Seq(Script) /\ Seeds \in Seq(STRING) /\ MaxInits \in Nat
  BY CatalogSchemaAssumption
<1>1. Len(Scripts) \in Nat /\ \A i \in 1..Len(Scripts) : Scripts[i] \in Script
  <2> HIDE DEF Script
  <2> QED
    BY <1>0
<1>2. Len(Seeds) \in Nat /\ 1 <= Len(Seeds)
  <2>1. Len(Seeds) \in Nat
    BY <1>0
  <2>2. PICK i \in 1..Len(Seeds) : Seeds[i] = "systems"
    BY CatalogSchemaAssumption
  <2> QED
    BY <2>1, <2>2
<1>4. \A i \in 1..Len(Scripts) :
          /\ Scripts[i].version \in Nat /\ Scripts[i].version > 0
          /\ Scripts[i].parts \in Nat /\ Scripts[i].parts > 0
          /\ Scripts[i].kind \in ScriptKind
  BY <1>1
<1>3. \A i, j \in 1..Len(Scripts) : Scripts[i].version <= Scripts[j].version => i <= j
  <2>1. SUFFICES ASSUME NEW i \in 1..Len(Scripts), NEW j \in 1..Len(Scripts),
                        Scripts[i].version <= Scripts[j].version, ~(i <= j)
                 PROVE  FALSE
    OBVIOUS
  <2>2. j < i
    BY <1>1, <2>1
  <2>3. Scripts[j].version < Scripts[i].version
    BY <2>2, CatalogSchemaAssumption
  <2> QED
    BY <1>4, <2>1, <2>3
<1>5. \A i \in 1..Len(Scripts) : Scripts[i].kind # "replacing" => Scripts[i].parts = 1
  BY CatalogSchemaAssumption
<1> QED
  BY <1>0, <1>1, <1>2, <1>3, <1>4, <1>5

LEMMA CatalogInitHolds == CatalogSchemaInit => CatalogIInv
<1> SUFFICES ASSUME CatalogSchemaInit PROVE CatalogIInv
  OBVIOUS
<1> USE DEF CatalogSchemaInit, Idle
<1>1. CatalogSchemaTypeOK
  <2>1. /\ catalog.version = 0 /\ catalog.done = [i \in 1..Len(Scripts) |-> 0] /\ catalog.seeds = {}
        /\ catalog = [version |-> catalog.version, done |-> catalog.done, seeds |-> catalog.seeds]
    OBVIOUS
  <2>2. catalog.done \in [1..Len(Scripts) -> Nat] /\ \A i \in 1..Len(Scripts) : catalog.done[i] <= Scripts[i].parts
    BY <2>1, ScriptFacts
  <2>3. catalog \in [version : {0} \cup {Scripts[i].version : i \in 1..Len(Scripts)},
                     done : [1..Len(Scripts) -> Nat], seeds : SUBSET {Seeds[i] : i \in 1..Len(Seeds)}]
    BY <2>1, <2>2
  <2>5. Idle \in [step : {"idle", "script", "part", "version", "seed", "ok"}, believes : Nat, at : Nat]
    OBVIOUS
  <2>4. /\ inits \in [Process -> [step : {"idle", "script", "part", "version", "seed", "ok"}, believes : Nat, at : Nat]]
        /\ overlap \in BOOLEAN /\ started \in 0..MaxInits
    <3>1. started \in 0..MaxInits
      BY ScriptFacts
    <3>2. inits = [p \in Process |-> Idle]
      OBVIOUS
    <3> HIDE DEF Idle, CatalogSchemaInit
    <3>3. inits \in [Process -> [step : {"idle", "script", "part", "version", "seed", "ok"}, believes : Nat, at : Nat]]
      BY <2>5, <3>2
    <3>4. overlap \in BOOLEAN
      BY DEF CatalogSchemaInit
    <3> QED
      BY <3>1, <3>3, <3>4
  <2> QED
    BY <2>2, <2>3, <2>4 DEF CatalogSchemaTypeOK
<1>2. VersionIsApplied
  BY ScriptFacts DEF VersionIsApplied
<1>3. Alone
  BY DEF Alone, Initializing
<1>4. ASSUME NEW p \in Process PROVE CatalogJobOK(p)
  BY DEF CatalogJobOK, Migrating
<1> QED
  BY <1>1, <1>2, <1>3, <1>4 DEF CatalogIInv

(* What a step of p has to keep so that the invariant holds: the types,    *)
(* what is applied (of two processes one alone may begin a script anew),   *)
(* and p's own part.                                                       *)
StepOK(p) ==
    /\ inits' = [inits EXCEPT ![p] = inits'[p]]
    /\ overlap => overlap'
    /\ \A i \in 1..Len(Scripts) : Applied(i) =>
           Applied(i)' \/ (~overlap /\ Initializing(p) /\ Scripts[i].version > catalog.version)
    /\ catalog'.version = catalog.version \/ (Initializing(p) /\ VersionIsApplied')
    /\ \A q \in Process \ {p} : inits[q].step = "part" => catalog'.done[inits[q].at] = catalog.done[inits[q].at]
    /\ Initializing(p)' =>
           /\ \A q \in Process \ {p} : Initializing(q) => overlap'
           /\ ~overlap' => catalog'.version <= inits'[p].believes
    /\ inits'[p].step = "part" => \A q \in Process \ {p} : inits[q].step = "part" => inits[q].at # inits'[p].at

LEMMA StepKeeps ==
    ASSUME CatalogIInv, NEW p \in Process, CatalogSchemaTypeOK', StepOK(p), CatalogJobOK(p)'
    PROVE  CatalogIInv'
<1> USE DEF StepOK
<1>1. VersionIsApplied'
  <2>1. CASE catalog'.version = catalog.version
    <3> SUFFICES ASSUME NEW i \in 1..Len(Scripts), Scripts[i].version <= catalog.version PROVE Applied(i)'
      BY <2>1 DEF VersionIsApplied, Applied
    <3>1. Applied(i)
      BY DEF CatalogIInv, VersionIsApplied, Applied
    <3>2. ~(Scripts[i].version > catalog.version)
      BY ScriptFacts DEF CatalogIInv, CatalogSchemaTypeOK
    <3> QED
      BY <3>1, <3>2
  <2> QED
    BY <2>1
<1>2. \A q \in Process \ {p} : inits'[q] = inits[q]
  BY DEF CatalogIInv, CatalogSchemaTypeOK
<1>3. \A q \in Process \ {p} : Initializing(p) /\ Initializing(q) => overlap
  BY DEF CatalogIInv, Alone
<1>4. Alone'
  <2>1. \A q \in Process \ {p} : Initializing(q) /\ ~overlap' => catalog'.version = catalog.version
    BY <1>3
  <2>2. \A q \in Process : Initializing(q)' /\ ~overlap' => catalog'.version <= inits'[q].believes
    BY <1>2, <2>1 DEF CatalogIInv, Alone, Initializing
  <2>3. \A q, r \in Process : q # r /\ Initializing(q)' /\ Initializing(r)' => overlap'
    BY <1>2 DEF CatalogIInv, Alone, Initializing
  <2>4. \A q, r \in Process : q # r /\ inits'[q].step = "part" /\ inits'[r].step = "part" => inits'[q].at # inits'[r].at
    BY <1>2 DEF CatalogIInv, Alone
  <2> QED
    BY <2>2, <2>3, <2>4 DEF Alone, Initializing
<1>5. ASSUME NEW q \in Process \ {p} PROVE CatalogJobOK(q)'
  <2>1. CatalogJobOK(q)
    BY DEF CatalogIInv
  <2>2. ASSUME Migrating(q), NEW i \in 1..Len(Scripts), Applied(i) PROVE Applied(i)'
    BY <1>3, <2>2 DEF Migrating, Initializing
  <2>3. Migrating(q) => BelievesApplied(q)' /\ PassedApplied(q)'
    BY <1>2, <2>1, <2>2 DEF CatalogJobOK, BelievesApplied, PassedApplied
  <2>4. inits[q].step \in {"part", "version"} => InScript(q)'
    BY <1>2, <2>1 DEF CatalogJobOK, InScript
  <2>5. inits[q].step = "part" => Halfway(q)'
    BY <1>2, <2>1 DEF CatalogJobOK, Halfway
  <2>6. inits[q].step = "version" => Applied(inits[q].at)'
    BY <1>2, <2>1, <2>2 DEF CatalogJobOK, InScript, Migrating
  <2>7. Migrating(q)' <=> Migrating(q)
    BY <1>2 DEF Migrating
  <2> QED
    BY <1>2, <2>1, <2>3, <2>4, <2>5, <2>6, <2>7 DEF CatalogJobOK
<1> QED
  BY <1>1, <1>4, <1>5 DEF CatalogIInv

(* The type of a catalog with another field.                               *)
LEMMA DoneKeeps ==
    ASSUME CatalogSchemaTypeOK, NEW i \in 1..Len(Scripts), NEW n \in 0..Scripts[i].parts,
           catalog' = [catalog EXCEPT !.done[i] = n]
    PROVE  /\ catalog' \in [version : {0} \cup {Scripts[j].version : j \in 1..Len(Scripts)},
                             done : [1..Len(Scripts) -> Nat],
                             seeds : SUBSET {Seeds[j] : j \in 1..Len(Seeds)}]
           /\ \A j \in 1..Len(Scripts) : catalog'.done[j] <= Scripts[j].parts
           /\ catalog'.done[i] = n /\ catalog'.version = catalog.version
           /\ \A j \in 1..Len(Scripts) : j # i => catalog'.done[j] = catalog.done[j]
<1>1. catalog'.done = [catalog.done EXCEPT ![i] = n] /\ catalog'.version = catalog.version /\ catalog'.seeds = catalog.seeds
  BY DEF CatalogSchemaTypeOK
<1>2. n \in Nat /\ n <= Scripts[i].parts
  BY ScriptFacts
<1>3. catalog'.done \in [1..Len(Scripts) -> Nat]
  BY <1>1, <1>2 DEF CatalogSchemaTypeOK
<1> QED
  BY <1>1, <1>2, <1>3 DEF CatalogSchemaTypeOK

-----------------------------------------------------------------------------
(* One lemma for each step of init.                                        *)
LEMMA ReadKeeps == ASSUME CatalogIInv, NEW p \in Process, currentUserVersion(p) PROVE CatalogIInv'
<1> USE DEF currentUserVersion, Step
<1>1. inits'[p] = [step |-> "script", believes |-> catalog.version, at |-> 1]
  BY DEF CatalogIInv, CatalogSchemaTypeOK
<1>2. catalog.version \in Nat
  BY ScriptFacts DEF CatalogIInv, CatalogSchemaTypeOK
<1>3. CatalogSchemaTypeOK'
  BY <1>1, <1>2, ScriptFacts DEF CatalogIInv, CatalogSchemaTypeOK
<1>4. \A i : Applied(i) => Applied(i)'
  BY DEF Applied
<1>5. CatalogJobOK(p)'
  <2>1. BelievesApplied(p)'
    BY <1>1, <1>4 DEF CatalogIInv, VersionIsApplied, BelievesApplied, Applied
  <2>2. PassedApplied(p)' /\ 1 <= Len(Scripts) + 1
    BY <1>1, ScriptFacts DEF PassedApplied
  <2> QED
    BY <1>1, <2>1, <2>2 DEF CatalogJobOK, Migrating
<1>6. \A q \in Process \ {p} : Initializing(q) => overlap'
  OBVIOUS
<1>7. inits' = [inits EXCEPT ![p] = inits'[p]] /\ catalog' = catalog /\ (overlap => overlap')
  BY <1>1
<1>8. StepOK(p)
  BY <1>1, <1>2, <1>4, <1>6, <1>7 DEF StepOK
<1> QED
  BY <1>3, <1>5, <1>8, StepKeeps

LEMMA SkipKeeps == ASSUME CatalogIInv, NEW p \in Process, Skip(p) PROVE CatalogIInv'
<1> USE DEF Skip, Step, Current
<1>1. inits'[p] = [inits[p] EXCEPT !.at = @ + 1]
  BY DEF CatalogIInv, CatalogSchemaTypeOK
<1>2. /\ inits'[p].step = "script" /\ inits'[p].believes = inits[p].believes /\ inits'[p].at = inits[p].at + 1
      /\ inits[p].at \in Nat /\ inits[p].believes \in Nat /\ inits'[p].at \in Nat
  BY <1>1 DEF CatalogIInv, CatalogSchemaTypeOK
<1>3. CatalogSchemaTypeOK'
  BY <1>1, <1>2 DEF CatalogIInv, CatalogSchemaTypeOK
<1>4. \A i : Applied(i) => Applied(i)'
  BY DEF Applied
<1>5. CatalogJobOK(p)'
  <2>1. CatalogJobOK(p) /\ Migrating(p)
    BY DEF CatalogIInv, Migrating
  <2>2. inits[p].at \in 1..Len(Scripts)
    BY <1>2, <2>1, ScriptFacts DEF CatalogJobOK
  <2>3. Applied(inits[p].at)
    BY <2>1, <2>2 DEF CatalogJobOK, BelievesApplied
  <2>4. BelievesApplied(p)'
    BY <1>2, <1>4, <2>1 DEF CatalogJobOK, BelievesApplied
  <2>5. PassedApplied(p)'
    <3>1. \A i \in 1..Len(Scripts) : i < inits[p].at + 1 => i < inits[p].at \/ i = inits[p].at
      BY <2>2, ScriptFacts
    <3> QED
      BY <1>2, <1>4, <2>1, <2>3, <3>1 DEF CatalogJobOK, PassedApplied
  <2> QED
    BY <1>2, <2>2, <2>4, <2>5, ScriptFacts DEF CatalogJobOK, Migrating
<1>6. Initializing(p)
  BY DEF Initializing
<1>7. \A q \in Process \ {p} : Initializing(q) => overlap'
  BY <1>6 DEF CatalogIInv, Alone
<1>8. ~overlap => catalog.version <= inits'[p].believes
  BY <1>2, <1>6 DEF CatalogIInv, Alone
<1>9. inits' = [inits EXCEPT ![p] = inits'[p]] /\ catalog' = catalog /\ overlap' = overlap
  BY <1>1
<1>10. StepOK(p)
  BY <1>2, <1>4, <1>7, <1>8, <1>9 DEF StepOK
<1> QED
  BY <1>3, <1>5, <1>10, StepKeeps

(* A script is begun, or goes on.                                          *)
LEMMA ExecuteKeeps ==
    ASSUME CatalogIInv, NEW p \in Process, NEW part \in Nat, Initializing(p), Migrating(p), InScript(p),
           part \in 1..Current(p).parts, Execute(p, part),
           part < Current(p).parts => Current(p).kind = "replacing",
           \A q \in Process \ {p} : inits[q].step = "part" => inits[q].at # inits[p].at
    PROVE  CatalogIInv'
<1> DEFINE i == inits[p].at
<1> USE DEF Execute, Step, Current
<1>1. i \in 1..Len(Scripts) /\ part \in 0..Scripts[i].parts /\ Scripts[i].version > inits[p].believes
  BY ScriptFacts DEF InScript
<1>2. inits'[p] = [inits[p] EXCEPT !.step = IF part = Scripts[i].parts THEN "version" ELSE "part"]
  BY DEF CatalogIInv, CatalogSchemaTypeOK
<1>3. /\ inits'[p].step = (IF part = Scripts[i].parts THEN "version" ELSE "part")
      /\ inits'[p].believes = inits[p].believes /\ inits'[p].at = i
      /\ inits'[p].believes \in Nat /\ inits'[p].at \in Nat
  BY <1>2 DEF CatalogIInv, CatalogSchemaTypeOK
<1>4. /\ catalog' \in [version : {0} \cup {Scripts[j].version : j \in 1..Len(Scripts)},
                        done : [1..Len(Scripts) -> Nat],
                        seeds : SUBSET {Seeds[j] : j \in 1..Len(Seeds)}]
      /\ \A j \in 1..Len(Scripts) : catalog'.done[j] <= Scripts[j].parts
      /\ catalog'.done[i] = part /\ catalog'.version = catalog.version
      /\ \A j \in 1..Len(Scripts) : j # i => catalog'.done[j] = catalog.done[j]
  <2> HIDE DEF i
  <2>1. catalog' = [catalog EXCEPT !.done[i] = part]
    BY DEF i
  <2> QED
    BY <1>1, <2>1, DoneKeeps DEF CatalogIInv
<1>5. inits' = [inits EXCEPT ![p] = inits'[p]] /\ overlap' = overlap
  BY <1>2
<1>6. CatalogSchemaTypeOK'
  <2>1. PICK s \in {"part", "version"} : inits'[p] = [inits[p] EXCEPT !.step = s]
    BY <1>2
  <2>2. inits'[p] \in [step : {"idle", "script", "part", "version", "seed", "ok"}, believes : Nat, at : Nat]
    <3>1. inits[p] \in [step : {"idle", "script", "part", "version", "seed", "ok"}, believes : Nat, at : Nat]
      BY DEF CatalogIInv, CatalogSchemaTypeOK
    <3> HIDE DEF i
    <3> QED
      BY <2>1, <3>1
  <2> QED
    BY <1>4, <1>5, <2>2 DEF CatalogIInv, CatalogSchemaTypeOK
<1>7. ~overlap => catalog.version <= inits[p].believes
  BY DEF CatalogIInv, Alone
<1>8. \A j \in 1..Len(Scripts) : Applied(j) /\ j # i => Applied(j)'
  BY <1>4, <1>5 DEF Applied
<1>9. Applied(i)' \/ (~overlap /\ part < Scripts[i].parts)
  BY <1>1, <1>4, <1>5, ScriptFacts DEF Applied
<1>10. ~overlap => Scripts[i].version > catalog.version
  BY <1>1, <1>7, ScriptFacts DEF CatalogIInv, CatalogSchemaTypeOK
<1>11. \A q \in Process \ {p} : inits[q].step = "part" => inits[q].at \in 1..Len(Scripts)
  BY DEF CatalogIInv, CatalogJobOK, InScript
<1>12. StepOK(p)
  <2>1. \A j \in 1..Len(Scripts) : Applied(j) =>
            Applied(j)' \/ (~overlap /\ Initializing(p) /\ Scripts[j].version > catalog.version)
    BY <1>8, <1>9, <1>10
  <2>2. \A q \in Process \ {p} : inits[q].step = "part" => catalog'.done[inits[q].at] = catalog.done[inits[q].at]
    BY <1>4, <1>11
  <2>3. \A q \in Process \ {p} : Initializing(q) => overlap'
    BY <1>5 DEF CatalogIInv, Alone
  <2>4. \A q \in Process \ {p} : inits[q].step = "part" => inits[q].at # inits'[p].at
    BY <1>3
  <2>5. ~overlap' => catalog'.version <= inits'[p].believes
    BY <1>3, <1>4, <1>5, <1>7
  <2> QED
    BY <1>4, <1>5, <2>1, <2>2, <2>3, <2>4, <2>5 DEF StepOK
<1>13. CatalogJobOK(p)'
  <2>1. CatalogJobOK(p)
    BY DEF CatalogIInv
  <2>2. \A j \in 1..Len(Scripts) : j < i => Applied(j)'
    BY <1>1, <1>8, <2>1 DEF CatalogJobOK, PassedApplied
  <2>3. \A j \in 1..Len(Scripts) : Scripts[j].version <= inits[p].believes => Applied(j)'
    <3>1. \A j \in 1..Len(Scripts) : Scripts[j].version <= inits[p].believes => j # i
      BY <1>1, <1>3, ScriptFacts
    <3> QED
      BY <1>8, <2>1, <3>1 DEF CatalogJobOK, BelievesApplied
  <2>4. PassedApplied(p)'
    BY <1>3, <2>2 DEF PassedApplied
  <2>5. BelievesApplied(p)'
    BY <1>3, <2>3 DEF BelievesApplied
  <2>6. InScript(p)' /\ inits'[p].at >= 1 /\ inits'[p].at <= Len(Scripts) + 1
    BY <1>1, <1>3, ScriptFacts DEF InScript
  <2>7. inits'[p].step = "part" => Halfway(p)'
    BY <1>1, <1>3, <1>4, ScriptFacts DEF Halfway
  <2>8. inits'[p].step = "version" => Applied(inits[p].at)'
    BY <1>3, <1>4 DEF Applied
  <2> QED
    BY <1>3, <2>4, <2>5, <2>6, <2>7, <2>8 DEF CatalogJobOK
<1> QED
  BY <1>6, <1>12, <1>13, StepKeeps

LEMMA ScriptKeeps == ASSUME CatalogIInv, NEW p \in Process, executeSqlScript(p) PROVE CatalogIInv'
<1> DEFINE i == inits[p].at
<1>1. CatalogJobOK(p) /\ inits[p].at \in Nat
  BY DEF CatalogIInv, CatalogSchemaTypeOK
<1>2. CASE /\ inits[p].step = "script" /\ i <= Len(Scripts)
           /\ Current(p).version > inits[p].believes
           /\ CanBegin(p) /\ Execute(p, 1)
  <2>1. Migrating(p) /\ Initializing(p)
    BY <1>2 DEF Migrating, Initializing
  <2>2. InScript(p)
    BY <1>1, <1>2, <2>1, ScriptFacts DEF CatalogJobOK, InScript, Current
  <2>3. Scripts[i].parts \in Nat /\ Scripts[i].parts > 0
    BY <2>2, ScriptFacts DEF InScript
  <2>4. 1 < Scripts[i].parts => Scripts[i].kind = "replacing"
    BY <2>2, ScriptFacts DEF InScript
  <2>5. ASSUME NEW q \in Process \ {p}, inits[q].step = "part", inits[q].at = i PROVE FALSE
    <3>1. Halfway(q)
      BY <2>5 DEF CatalogIInv, CatalogJobOK
    <3>2. catalog.done[i] \in 1..(Scripts[i].parts - 1) /\ Scripts[i].kind = "replacing"
      BY <2>5, <3>1 DEF Halfway
    <3>3. catalog.done[i] \in {0, Scripts[i].parts}
      BY <1>2, <3>2 DEF CanBegin, Current
    <3> QED
      BY <2>3, <3>2, <3>3
  <2> QED
    BY <1>2, <2>1, <2>2, <2>3, <2>4, <2>5, ExecuteKeeps DEF Current
<1>3. CASE inits[p].step = "part" /\ Execute(p, catalog.done[i] + 1)
  <2>1. Migrating(p) /\ Initializing(p)
    BY <1>3 DEF Migrating, Initializing
  <2>2. InScript(p) /\ Halfway(p)
    BY <1>1, <1>3 DEF CatalogJobOK
  <2>3. Scripts[i].parts \in Nat
    BY <2>2, ScriptFacts DEF InScript
  <2>4. catalog.done[i] + 1 \in Nat /\ catalog.done[i] + 1 \in 1..Scripts[i].parts
    BY <2>2, <2>3 DEF Halfway
  <2>5. \A q \in Process \ {p} : inits[q].step = "part" => inits[q].at # i
    BY <1>3 DEF CatalogIInv, Alone
  <2> QED
    BY <1>3, <2>1, <2>2, <2>4, <2>5, ExecuteKeeps DEF Current, Halfway
<1> QED
  BY <1>2, <1>3 DEF executeSqlScript

LEMMA VersionedKeeps == ASSUME CatalogIInv, NEW p \in Process, Versioned(p) PROVE CatalogIInv'
<1> DEFINE i == inits[p].at
<1> USE DEF Versioned, Step, Current, setUserVersion
<1>1. CatalogJobOK(p) /\ Migrating(p) /\ Initializing(p)
  BY DEF CatalogIInv, Migrating, Initializing
<1>2. i \in 1..Len(Scripts) /\ Applied(i) /\ PassedApplied(p)
  BY <1>1 DEF CatalogJobOK, InScript
<1>3. inits'[p] = [step |-> "script", believes |-> Scripts[i].version, at |-> i + 1]
  BY DEF CatalogIInv, CatalogSchemaTypeOK
<1>4. catalog'.version = Scripts[i].version /\ catalog'.done = catalog.done /\ overlap' = overlap
  BY DEF CatalogIInv, CatalogSchemaTypeOK
<1>5. CatalogSchemaTypeOK'
  <2>1. catalog' \in [version : {0} \cup {Scripts[j].version : j \in 1..Len(Scripts)},
                      done : [1..Len(Scripts) -> Nat],
                      seeds : SUBSET {Seeds[j] : j \in 1..Len(Seeds)}]
    BY <1>2 DEF CatalogIInv, CatalogSchemaTypeOK
  <2>2. inits'[p] \in [step : {"idle", "script", "part", "version", "seed", "ok"}, believes : Nat, at : Nat]
    BY <1>2, <1>3, ScriptFacts
  <2> QED
    BY <1>4, <2>1, <2>2 DEF CatalogIInv, CatalogSchemaTypeOK
<1>6. \A j : Applied(j) => Applied(j)'
  BY <1>4 DEF Applied
<1>7. \A j \in 1..Len(Scripts) : Scripts[j].version <= Scripts[i].version => Applied(j)'
  <2>1. ASSUME NEW j \in 1..Len(Scripts), Scripts[j].version <= Scripts[i].version PROVE Applied(j)
    <3>1. j <= i
      BY <1>2, <2>1, ScriptFacts
    <3>2. j < i \/ j = i
      BY <1>2, <3>1
    <3> QED
      BY <1>2, <3>2 DEF PassedApplied
  <2> QED
    BY <1>6, <2>1
<1>8. StepOK(p)
  <2>1. VersionIsApplied'
    BY <1>4, <1>7 DEF VersionIsApplied, Applied
  <2>2. inits' = [inits EXCEPT ![p] = inits'[p]]
    BY <1>3
  <2>3. \A q \in Process \ {p} : Initializing(q) => overlap'
    BY <1>1, <1>4 DEF CatalogIInv, Alone
  <2>4. catalog'.version <= inits'[p].believes
    BY <1>2, <1>3, <1>4, ScriptFacts
  <2> QED
    BY <1>1, <1>3, <1>4, <1>6, <2>1, <2>2, <2>3, <2>4 DEF StepOK
<1>9. CatalogJobOK(p)'
  <2>1. BelievesApplied(p)'
    BY <1>3, <1>7 DEF BelievesApplied
  <2>2. \A j \in 1..Len(Scripts) : j < i + 1 => j < i \/ j = i
    BY <1>2, ScriptFacts
  <2>3. PassedApplied(p)'
    BY <1>2, <1>3, <1>6, <2>2 DEF PassedApplied
  <2>4. inits'[p].at >= 1 /\ inits'[p].at <= Len(Scripts) + 1
    BY <1>2, <1>3, ScriptFacts
  <2> QED
    BY <1>3, <2>1, <2>3, <2>4 DEF CatalogJobOK
<1> QED
  BY <1>5, <1>8, <1>9, StepKeeps

(* A process that has the scripts behind it, or gives up.                  *)
LEMMA LeaveKeeps ==
    ASSUME CatalogIInv, NEW p \in Process, NEW s, Step(p, s), UNCHANGED <<overlap, started>>,
           s \in [step : {"idle", "seed", "ok"}, believes : Nat, at : Nat],
           s.step = "seed" => s.at \in 1..Len(Seeds) /\ s.believes = inits[p].believes /\ Initializing(p),
           \/ UNCHANGED catalog
           \/ \E i \in 1..Len(Seeds) : catalog' = [catalog EXCEPT !.seeds = @ \cup {Seeds[i]}]
    PROVE  CatalogIInv'
<1> USE DEF Step
<1>1. inits'[p] = s /\ inits' = [inits EXCEPT ![p] = inits'[p]]
  BY DEF CatalogIInv, CatalogSchemaTypeOK
<1>2. catalog'.version = catalog.version /\ catalog'.done = catalog.done
  BY DEF CatalogIInv, CatalogSchemaTypeOK
<1>3. CatalogSchemaTypeOK'
  <2>1. catalog' \in [version : {0} \cup {Scripts[j].version : j \in 1..Len(Scripts)},
                      done : [1..Len(Scripts) -> Nat],
                      seeds : SUBSET {Seeds[j] : j \in 1..Len(Seeds)}]
    <3>1. CASE catalog' = catalog
      BY <3>1 DEF CatalogIInv, CatalogSchemaTypeOK
    <3>2. ASSUME NEW i \in 1..Len(Seeds), catalog' = [catalog EXCEPT !.seeds = @ \cup {Seeds[i]}]
          PROVE  catalog' \in [version : {0} \cup {Scripts[j].version : j \in 1..Len(Scripts)},
                               done : [1..Len(Scripts) -> Nat],
                               seeds : SUBSET {Seeds[j] : j \in 1..Len(Seeds)}]
      <4>1. catalog.seeds \cup {Seeds[i]} \in SUBSET {Seeds[j] : j \in 1..Len(Seeds)}
        BY DEF CatalogIInv, CatalogSchemaTypeOK
      <4>2. catalog' = [catalog EXCEPT !.seeds = catalog.seeds \cup {Seeds[i]}]
        BY <3>2
      <4> QED
        BY <4>1, <4>2 DEF CatalogIInv, CatalogSchemaTypeOK
    <3> QED
      BY <3>1, <3>2
  <2>2. s \in [step : {"idle", "script", "part", "version", "seed", "ok"}, believes : Nat, at : Nat]
    OBVIOUS
  <2> QED
    BY <1>1, <1>2, <2>1, <2>2 DEF CatalogIInv, CatalogSchemaTypeOK
<1>4. \A i : Applied(i) => Applied(i)'
  BY <1>2 DEF Applied
<1>5. StepOK(p)
  <2>1. s.step = "seed" => \A q \in Process \ {p} : Initializing(q) => overlap
    BY DEF CatalogIInv, Alone
  <2>2. s.step = "seed" /\ ~overlap => catalog.version <= s.believes
    BY DEF CatalogIInv, Alone
  <2>3. Initializing(p)' => s.step = "seed"
    BY <1>1 DEF Initializing
  <2> QED
    BY <1>1, <1>2, <1>4, <2>1, <2>2, <2>3 DEF StepOK
<1>6. CatalogJobOK(p)'
  BY <1>1 DEF CatalogJobOK, Migrating
<1> QED
  BY <1>3, <1>5, <1>6, StepKeeps

LEMMA ApplySeedsKeeps == ASSUME CatalogIInv, NEW p \in Process, applySeeds(p) PROVE CatalogIInv'
<1>1. Initializing(p) /\ inits[p] \in [step : {"idle", "script", "part", "version", "seed", "ok"}, believes : Nat, at : Nat]
  BY DEF CatalogIInv, CatalogSchemaTypeOK, applySeeds, Initializing
<1>2. CASE "systems" \in catalog.seeds
  <2> DEFINE s == [inits[p] EXCEPT !.step = "ok"]
  <2>1. s \in [step : {"idle", "seed", "ok"}, believes : Nat, at : Nat] /\ s.step = "ok"
    BY <1>1
  <2>2. Step(p, s) /\ UNCHANGED <<catalog, overlap, started>>
    BY <1>2 DEF applySeeds
  <2> HIDE DEF s
  <2> QED
    BY <2>1, <2>2, LeaveKeeps
<1>3. CASE "systems" \notin catalog.seeds
  <2> DEFINE s == [inits[p] EXCEPT !.step = "seed", !.at = 1]
  <2>1. /\ s \in [step : {"idle", "seed", "ok"}, believes : Nat, at : Nat]
        /\ s.step = "seed" /\ s.at \in 1..Len(Seeds) /\ s.believes = inits[p].believes
    <3> DEFINE r == [inits[p] EXCEPT !.step = "seed"]
    <3>1. r \in [step : {"idle", "seed", "ok"}, believes : Nat, at : Nat] /\ r.step = "seed" /\ r.believes = inits[p].believes
      BY <1>1
    <3>2. s = [r EXCEPT !.at = 1]
      OBVIOUS
    <3> HIDE DEF r, s
    <3> QED
      BY <3>1, <3>2, ScriptFacts
  <2>2. Step(p, s) /\ UNCHANGED <<catalog, overlap, started>>
    BY <1>3 DEF applySeeds
  <2> HIDE DEF s
  <2> QED
    BY <1>1, <2>1, <2>2, LeaveKeeps
<1> QED
  BY <1>2, <1>3

LEMMA SeedKeeps == ASSUME CatalogIInv, NEW p \in Process, Seed(p) PROVE CatalogIInv'
<1>1. /\ Initializing(p) /\ inits[p].step = "seed" /\ inits[p].at \in 1..Len(Seeds)
      /\ inits[p] \in [step : {"idle", "script", "part", "version", "seed", "ok"}, believes : Nat, at : Nat]
  BY DEF CatalogIInv, CatalogSchemaTypeOK, CatalogJobOK, Seed, Initializing
<1>2. UNCHANGED <<overlap, started>> /\ \E i \in 1..Len(Seeds) : catalog' = [catalog EXCEPT !.seeds = @ \cup {Seeds[i]}]
  BY <1>1 DEF Seed
<1>3. CASE inits[p].at = Len(Seeds)
  <2> DEFINE s == [inits[p] EXCEPT !.step = "ok"]
  <2>1. s \in [step : {"idle", "seed", "ok"}, believes : Nat, at : Nat] /\ s.step = "ok"
    BY <1>1
  <2>2. Step(p, s)
    BY <1>3 DEF Seed
  <2> HIDE DEF s
  <2> QED
    BY <1>2, <2>1, <2>2, LeaveKeeps
<1>4. CASE inits[p].at # Len(Seeds)
  <2> DEFINE s == [inits[p] EXCEPT !.at = inits[p].at + 1]
  <2>1. inits[p].at \in Nat /\ inits[p].at + 1 \in 1..Len(Seeds)
    BY <1>1, <1>4, ScriptFacts
  <2>2. /\ s \in [step : {"idle", "seed", "ok"}, believes : Nat, at : Nat]
        /\ s.step = "seed" /\ s.at \in 1..Len(Seeds) /\ s.believes = inits[p].believes
    <3>1. inits[p] \in [step : {"idle", "seed", "ok"}, believes : Nat, at : Nat]
      BY <1>1
    <3>2. inits[p].at + 1 \in Nat
      BY <2>1
    <3>3. s \in [step : {"idle", "seed", "ok"}, believes : Nat, at : Nat]
      BY <3>1, <3>2
    <3>4. s.step = inits[p].step /\ s.at = inits[p].at + 1 /\ s.believes = inits[p].believes
      BY <3>1
    <3> QED
      BY <1>1, <2>1, <3>3, <3>4
  <2>3. Step(p, s)
    BY <1>4 DEF Seed
  <2> HIDE DEF s
  <2> QED
    BY <1>1, <1>2, <2>2, <2>3, LeaveKeeps
<1> QED
  BY <1>3, <1>4

LEMMA DeathKeeps == ASSUME CatalogIInv, NEW p \in Process, InitDies(p) PROVE CatalogIInv'
<1>1. Idle \in [step : {"idle", "seed", "ok"}, believes : Nat, at : Nat] /\ Idle.step = "idle"
  BY DEF Idle
<1> QED
  BY <1>1, LeaveKeeps DEF InitDies

LEMMA CatalogStutterKeeps == ASSUME CatalogIInv, UNCHANGED catalogSchemaVars PROVE CatalogIInv'
<1> USE DEF catalogSchemaVars
<1>1. CatalogSchemaTypeOK' /\ VersionIsApplied' /\ Alone'
  BY DEF CatalogIInv, CatalogSchemaTypeOK, VersionIsApplied, Alone, Initializing
<1>2. \A p \in Process : CatalogJobOK(p)'
  BY DEF CatalogIInv, CatalogJobOK, Migrating, BelievesApplied, PassedApplied, InScript, Halfway, Applied
<1> QED
  BY <1>1, <1>2 DEF CatalogIInv

-----------------------------------------------------------------------------
LEMMA CatalogInvariance == CatalogSchemaSpec => []CatalogIInv
<1>1. CatalogIInv /\ [CatalogSchemaNext]_catalogSchemaVars => CatalogIInv'
  BY ReadKeeps, SkipKeeps, ScriptKeeps, VersionedKeeps, ApplySeedsKeeps, SeedKeeps, DeathKeeps, CatalogStutterKeeps
  DEF CatalogSchemaNext
<1> QED
  BY CatalogInitHolds, <1>1, PTL DEF CatalogSchemaSpec

(* The catalog and the inits keep their types (catalog.cpp, applyMigrations*)
(* and applySeeds): no script is ever counted beyond its last part.        *)
THEOREM CatalogTypeCorrect == CatalogSchemaSpec => []CatalogSchemaTypeOK
BY CatalogInvariance, PTL DEF CatalogIInv

(* user_version never says more than the scripts have done                 *)
(* (catalog.cpp:82-91), whoever dies or overlaps, except under a table     *)
(* that two overlapping inits replace one after the other.                 *)
THEOREM VersionTellsTheTruth == CatalogSchemaSpec => []VersionIsApplied
BY CatalogInvariance, PTL DEF CatalogIInv

-----------------------------------------------------------------------------
(* LibraryGui: the busy flag and what the window shows.                    *)

Status == {"count", "empty", "running", "matched", "finished", "failed"}
Window == [open : BOOLEAN, busy : BOOLEAN, shown : 0..MaxEditions, status : Status]

GuiIInv == GuiTypeOK /\ IdleShowsLibrary

(* A reload shows the edition of that moment and touches no flag.          *)
LEMMA ReloadFacts ==
    ASSUME NEW w \in Window, NEW e \in 0..MaxEditions
    PROVE  /\ reload(w, e) \in Window /\ reload(w, e).shown = e
           /\ reload(w, e).open = w.open /\ reload(w, e).busy = w.busy
<1> DEFINE status == IF e = 0 THEN "empty" ELSE IF w.busy THEN w.status ELSE "count"
           v == [w EXCEPT !.shown = e]
<1>1. reload(w, e) = [v EXCEPT !.status = status]
  BY DEF reload
<1>2. status \in Status
  BY DEF Status, Window
<1>3. v \in Window /\ v.shown = e /\ v.open = w.open /\ v.busy = w.busy
  BY DEF Window
<1> HIDE DEF v, status
<1> QED
  BY <1>1, <1>2, <1>3 DEF Window

(* The flags of a window whose status, or whose busy flag and status, are  *)
(* replaced.                                                               *)
LEMMA StatusSet ==
    ASSUME NEW w \in Window, NEW s \in Status
    PROVE  [w EXCEPT !.status = s] \in Window /\ [w EXCEPT !.status = s].open = w.open
           /\ [w EXCEPT !.status = s].busy = w.busy /\ [w EXCEPT !.status = s].status = s
BY DEF Window

LEMMA BusySet ==
    ASSUME NEW w \in Window, NEW b \in BOOLEAN, NEW s \in Status
    PROVE  LET v == [w EXCEPT !.busy = b, !.status = s] IN
           v \in Window /\ v.open = w.open /\ v.busy = b /\ v.status = s
<1> DEFINE u == [w EXCEPT !.busy = b]
           v == [w EXCEPT !.busy = b, !.status = s]
<1>1. u \in Window /\ u.open = w.open /\ u.busy = b
  BY DEF Window
<1>2. v = [u EXCEPT !.status = s]
  OBVIOUS
<1> HIDE DEF u
<1> QED
  BY <1>1, <1>2, StatusSet

LEMMA WindowOK == ASSUME GuiTypeOK PROVE window \in Window /\ edition \in 0..MaxEditions
BY DEF GuiTypeOK, Window, Status

-----------------------------------------------------------------------------
LEMMA GuiInitHolds == GuiInit => GuiIInv
<1> SUFFICES ASSUME GuiInit PROVE GuiIInv
  OBVIOUS
<1>1. window \in Window /\ window.open /\ ~window.busy /\ window.shown = edition /\ edition \in 0..MaxEditions
  BY GuiAssumption DEF GuiInit, Window, Status
<1> QED
  BY <1>1, GuiAssumption DEF GuiIInv, GuiInit, GuiTypeOK, IdleShowsLibrary, Window, Status, Job

LEMMA RequestHolds == ASSUME GuiIInv, NEW j \in Job, RequestJob(j) PROVE GuiIInv'
<1>1. window \in Window /\ edition \in 0..MaxEditions /\ "running" \in Status /\ TRUE \in BOOLEAN
  BY WindowOK DEF GuiIInv, Status
<1>2. window' = [window EXCEPT !.busy = TRUE, !.status = "running"] /\ window.open /\ ~window.busy
  BY DEF RequestJob, beginJob
<1>3. window' \in Window /\ window'.open = window.open /\ window'.busy
  BY <1>1, <1>2, BusySet
<1>4. requests \in Seq(Job) /\ results \in Seq({"finished", "failed"}) /\ Len(requests) = 0 /\ Len(results) = 0 /\ job \notin Job
  BY <1>2 DEF GuiIInv, GuiTypeOK
<1>5. requests' \in Seq(Job) /\ Len(requests') = 1 /\ asked' \in 0..MaxJobs
  BY <1>4, GuiAssumption DEF RequestJob, GuiIInv, GuiTypeOK
<1>6. GuiTypeOK'
  BY <1>1, <1>3, <1>4, <1>5 DEF RequestJob, GuiIInv, GuiTypeOK, Window, Status
<1> QED
  BY <1>3, <1>6 DEF GuiIInv, IdleShowsLibrary

LEMMA FileCountHolds == ASSUME GuiIInv, fileCount PROVE GuiIInv'
<1>1. window' \in Window /\ window'.shown = edition /\ window'.open = window.open /\ window'.busy = window.busy
  BY WindowOK, ReloadFacts DEF GuiIInv, fileCount
<1> QED
  BY <1>1 DEF GuiIInv, fileCount, GuiTypeOK, IdleShowsLibrary, Window, Status

LEMMA MatchHolds == ASSUME GuiIInv, matchFile PROVE GuiIInv'
<1>1. window \in Window /\ edition \in 0..MaxEditions /\ asked' \in 0..MaxJobs
  BY WindowOK, GuiAssumption DEF GuiIInv, GuiTypeOK, matchFile
<1>2. CASE edition < MaxEditions /\ edition' = edition + 1
           /\ window' = reload([window EXCEPT !.status = "matched"], edition')
  <2> DEFINE w == [window EXCEPT !.status = "matched"]
  <2>1. "matched" \in Status /\ edition' \in 0..MaxEditions
    BY <1>1, <1>2, GuiAssumption DEF Status
  <2>2. w \in Window /\ w.open = window.open /\ w.busy = window.busy
    BY <1>1, <2>1, StatusSet
  <2>3. window' = reload(w, edition')
    BY <1>2
  <2> HIDE DEF w
  <2>4. window' \in Window /\ window'.shown = edition' /\ window'.open = window.open /\ window'.busy = window.busy
    BY <2>1, <2>2, <2>3, ReloadFacts
  <2> QED
    BY <1>1, <2>1, <2>4 DEF GuiIInv, matchFile, GuiTypeOK, IdleShowsLibrary, Window, Status
<1>3. CASE window' = [window EXCEPT !.status = "failed"] /\ UNCHANGED edition
  <2>1. "failed" \in Status
    BY DEF Status
  <2>2. window' \in Window /\ window'.open = window.open /\ window'.busy = window.busy /\ window'.status = "failed"
    BY <1>1, <1>3, <2>1, StatusSet
  <2> QED
    BY <1>1, <1>3, <2>2 DEF GuiIInv, matchFile, GuiTypeOK, IdleShowsLibrary, Window, Status
<1> QED
  BY <1>2, <1>3 DEF matchFile

-----------------------------------------------------------------------------
LEMMA TakeHolds == ASSUME GuiIInv, Take PROVE GuiIInv'
<1>1. requests \in Seq(Job) /\ requests # <<>> /\ job' = Head(requests) /\ requests' = Tail(requests) /\ job = "idle"
  BY DEF Take, GuiIInv, GuiTypeOK
<1>2. job' \in Job /\ job \notin Job /\ requests' \in Seq(Job) /\ Len(requests') = Len(requests) - 1 /\ Len(requests) \in Nat
  BY <1>1 DEF Job
<1>3. results \in Seq({"finished", "failed"}) /\ Len(results) \in Nat
  BY DEF GuiIInv, GuiTypeOK
<1> QED
  BY <1>2, <1>3 DEF Take, GuiIInv, GuiTypeOK, IdleShowsLibrary

LEMMA WorkHolds == ASSUME GuiIInv, Work PROVE GuiIInv'
<1>1. edition' \in 0..MaxEditions /\ job \in Job
  BY GuiAssumption DEF Work, GuiIInv, GuiTypeOK
<1>2. window.open => window.busy
  <2>1. Len(requests) \in Nat /\ Len(results) \in Nat
    BY DEF GuiIInv, GuiTypeOK
  <2> QED
    BY <1>1, <2>1 DEF GuiIInv, GuiTypeOK
<1> QED
  BY <1>1, <1>2 DEF Work, GuiIInv, GuiTypeOK, IdleShowsLibrary

LEMMA EmitHolds == ASSUME GuiIInv, Emit PROVE GuiIInv'
<1>1. PICK r \in {"finished", "failed"} : results' = Append(results, r)
  BY DEF Emit
<1>2. results \in Seq({"finished", "failed"}) /\ Len(requests) \in Nat
  BY DEF GuiIInv, GuiTypeOK
<1>3. results' \in Seq({"finished", "failed"}) /\ Len(results') = Len(results) + 1 /\ Len(results) \in Nat
  BY <1>1, <1>2
<1>4. job' = "idle" /\ job' \notin Job /\ job \in Job
  BY DEF Emit, Job
<1> QED
  BY <1>2, <1>3, <1>4 DEF Emit, GuiIInv, GuiTypeOK, IdleShowsLibrary

LEMMA DeliverHolds == ASSUME GuiIInv, Deliver PROVE GuiIInv'
<1>1. window \in Window /\ edition \in 0..MaxEditions /\ FALSE \in BOOLEAN /\ "finished" \in Status /\ "failed" \in Status
  BY WindowOK DEF GuiIInv, Status
<1>2. /\ results \in Seq({"finished", "failed"}) /\ results # <<>> /\ window.open
      /\ results' = Tail(results) /\ Len(requests) \in Nat
  BY DEF Deliver, GuiIInv, GuiTypeOK
<1>3. results' \in Seq({"finished", "failed"}) /\ Len(results') = Len(results) - 1 /\ Len(results) \in Nat /\ Len(results') \in Nat
  BY <1>2
<1>4. window.busy /\ Len(results) = 1 /\ Len(requests) = 0 /\ job \notin Job
  BY <1>2, <1>3 DEF GuiIInv, GuiTypeOK
<1>5. /\ window' \in Window /\ window'.open /\ ~window'.busy
      /\ window'.status = "failed" \/ window'.shown = edition
  <2>1. CASE window' = onJobFinished(window)
    <3> DEFINE w == [window EXCEPT !.busy = FALSE, !.status = "finished"]
    <3>1. w \in Window /\ w.open = window.open /\ ~w.busy
      BY <1>1, BusySet
    <3>2. window' = reload(w, edition)
      BY <2>1 DEF onJobFinished
    <3> HIDE DEF w
    <3> QED
      BY <1>1, <1>2, <3>1, <3>2, ReloadFacts
  <2>2. CASE window' = onJobFailed(window)
    <3> DEFINE w == [window EXCEPT !.busy = FALSE, !.status = "failed"]
    <3>1. w \in Window /\ w.open = window.open /\ ~w.busy /\ w.status = "failed"
      BY <1>1, BusySet
    <3>2. window' = w
      BY <2>2 DEF onJobFailed
    <3> HIDE DEF w
    <3> QED
      BY <1>2, <3>1, <3>2
  <2> QED
    BY <2>1, <2>2 DEF Deliver
<1> QED
  BY <1>1, <1>3, <1>4, <1>5 DEF Deliver, GuiIInv, GuiTypeOK, IdleShowsLibrary, Window, Status

LEMMA CloseHolds == ASSUME GuiIInv, Close \/ Closed PROVE GuiIInv'
<1>1. window' \in Window /\ ~window'.open
  BY WindowOK DEF GuiIInv, Close, Closed, Window
<1>2. job' \in Job \cup {"idle", "gone", "deleted"}
  BY DEF GuiIInv, GuiTypeOK, Close, Closed
<1> QED
  BY <1>1, <1>2 DEF GuiIInv, Close, Closed, GuiTypeOK, IdleShowsLibrary, Window, Status

LEMMA GuiStepHolds == GuiIInv /\ [GuiNext]_guiVars => GuiIInv'
<1>1. ASSUME GuiIInv, GuiNext PROVE GuiIInv'
  BY <1>1, RequestHolds, FileCountHolds, MatchHolds, TakeHolds, WorkHolds, EmitHolds, DeliverHolds, CloseHolds
     DEF GuiNext, WorkerThread, EventLoop
<1>2. ASSUME GuiIInv, UNCHANGED guiVars PROVE GuiIInv'
  BY <1>2 DEF guiVars, GuiIInv, GuiTypeOK, IdleShowsLibrary
<1> QED
  BY <1>1, <1>2

LEMMA GuiInvariance == GuiSpec => []GuiIInv
BY GuiInitHolds, GuiStepHolds, PTL DEF GuiSpec

(* Types, and that the busy flag of an open window counts its jobs: one    *)
(* queued, running or reported when it is set, none when it is not.        *)
THEOREM GuiTypeCorrect == GuiSpec => []GuiTypeOK
<1>1. GuiIInv => GuiTypeOK
  BY DEF GuiIInv
<1> QED
  BY <1>1, GuiInvariance, PTL

(* An idle window shows the library as it is, unless the last job failed,  *)
(* for any number of jobs, matches and statements.                         *)
THEOREM IdleIsUpToDate == GuiSpec => []IdleShowsLibrary
<1>1. GuiIInv => IdleShowsLibrary
  BY DEF GuiIInv
<1> QED
  BY <1>1, GuiInvariance, PTL

-----------------------------------------------------------------------------
(* Verification: what the caches of an engine vouch for.                   *)

CacheRow == [kind : Kind, system : DatSystem, entries : SUBSET DatEntry]
TableRow == [kind : Kind, system : DatSystem, by : Engine, entries : SUBSET DatEntry]
IdleCall == [step : {"idle"}]
ImportCall == [step : {"header", "entries", "commit", "done"}, kind : Kind, system : DatSystem, entries : SUBSET DatEntry]
MatchCall == [step : {"match"}, file : RomFile, official : BOOLEAN, patch : BOOLEAN]
EngineState == [attached : BOOLEAN, cache : SUBSET CacheRow, typed : SUBSET DatSystem,
                call : IdleCall \cup ImportCall \cup MatchCall]
PatchRow == [base : {"", "b"}, patch : {"", "p"}, type : FileType, marked : BOOLEAN]

RowsIn(T, k, s) == {r \in T : r.kind = k /\ r.system = s}
ListedIn(n, T, G, k, s) ==
    IF k = "official" /\ n.attached THEN {x \in G[s] : x.digests # {}} ELSE UNION {r.entries : r \in RowsIn(T, k, s)}
Importing(n, k, s) == n.call.step \in {"entries", "commit", "done"} /\ n.call.kind = k /\ n.call.system = s

(* What an engine n may rely on, with the tables T and the games G.  Its   *)
(* caches hold what is listed; only while it imports a DAT itself, or when *)
(* it has cleared one and failed then, is there a cache of no DAT, and     *)
(* hasDat keeps a call from using that.                                    *)
Honest(n, T, G) ==
    /\ \A c \in n.cache :
         \/ c.entries \subseteq ListedIn(n, T, G, c.kind, c.system)
         \/ /\ ~(c.kind = "official" /\ n.attached)
            /\ RowsIn(T, c.kind, c.system) = {} \/ Importing(n, c.kind, c.system)
    /\ n.call.step = "match" => (n.call.official =>
         \A c \in n.cache : c.kind = "official" /\ c.system = SystemOf[n.call.file]
                            => c.entries \subseteq ListedIn(n, T, G, c.kind, c.system))

TablesOK ==
    /\ tables \subseteq TableRow /\ \A r, q \in tables : r.kind = q.kind /\ r.system = q.system => r = q
    /\ games \in [DatSystem -> SUBSET DatEntry]

VerifyIInv ==
    /\ TablesOK
    /\ engines \in [Engine -> EngineState]
    /\ patched \in [RomFile -> PatchRow]
    /\ behind \subseteq Engine
    /\ \A e \in Engine \ behind : Honest(engines[e], tables, games)

LEMMA FreshIsHonest ==
    /\ Fresh \in EngineState /\ NoCall \in IdleCall
    /\ \A b \in BOOLEAN : [Fresh EXCEPT !.attached = b] \in EngineState
    /\ \A T, G : Honest(Fresh, T, G) /\ \A b \in BOOLEAN : Honest([Fresh EXCEPT !.attached = b], T, G)
<1>1. Fresh \in EngineState /\ NoCall \in IdleCall /\ Fresh.cache = {} /\ Fresh.call.step = "idle"
  BY DEF Fresh, NoCall, EngineState, IdleCall
<1>2. ASSUME NEW b \in BOOLEAN
      PROVE  /\ [Fresh EXCEPT !.attached = b] \in EngineState
             /\ [Fresh EXCEPT !.attached = b].cache = {} /\ [Fresh EXCEPT !.attached = b].call.step = "idle"
  BY <1>1 DEF EngineState
<1> QED
  BY <1>1, <1>2 DEF Honest

LEMMA VerifyInitHolds == VerifyInit => VerifyIInv
<1> SUFFICES ASSUME VerifyInit PROVE VerifyIInv
  OBVIOUS
<1>1. TablesOK
  BY DEF VerifyInit, TablesOK
<1>2. patched \in [RomFile -> PatchRow]
  BY DEF VerifyInit, PatchRow, FileType
<1>3. engines \in [Engine -> EngineState] /\ \A e \in Engine : engines[e] = Fresh
  BY FreshIsHonest DEF VerifyInit
<1> QED
  BY <1>1, <1>2, <1>3, FreshIsHonest DEF VerifyInit, VerifyIInv

(* The engine e goes from n to m; the DAT of k and s is rewritten, and all *)
(* others with a cache of it are behind from now on.                       *)
LEMMA OtherRows ==
    ASSUME NEW n \in EngineState, NEW T, NEW U, NEW G, NEW k, NEW s, Honest(n, T, G),
           \A l \in Kind, t \in DatSystem : ~(l = k /\ t = s) => RowsIn(U, l, t) = RowsIn(T, l, t),
           \A c \in n.cache : ~(c.kind = k /\ c.system = s)
    PROVE  Honest(n, U, G)
<1>1. \A c \in n.cache : /\ RowsIn(U, c.kind, c.system) = RowsIn(T, c.kind, c.system)
                         /\ ListedIn(n, U, G, c.kind, c.system) = ListedIn(n, T, G, c.kind, c.system)
  BY DEF EngineState, CacheRow, ListedIn
<1> QED
  BY <1>1 DEF Honest

LEMMA RewriteStep ==
    ASSUME VerifyIInv, TablesOK', UNCHANGED games, patched' \in [RomFile -> PatchRow],
           NEW e \in Engine, NEW m \in EngineState, engines' = [engines EXCEPT ![e] = m],
           NEW k \in Kind, NEW s \in DatSystem, behind' = Behind(e, k, s),
           \A l \in Kind, t \in DatSystem : ~(l = k /\ t = s) => RowsIn(tables', l, t) = RowsIn(tables, l, t),
           e \notin behind => Honest(m, tables', games)
    PROVE  VerifyIInv'
<1>1. engines' \in [Engine -> EngineState] /\ behind' \subseteq Engine /\ behind \subseteq behind'
  BY DEF VerifyIInv, Behind
<1>2. ASSUME NEW d \in Engine \ behind', d # e PROVE Honest(engines'[d], tables', games')
  <2>1. engines'[d] = engines[d] /\ engines[d] \in EngineState /\ Honest(engines[d], tables, games)
    BY <1>1, <1>2 DEF VerifyIInv
  <2>2. \A c \in engines[d].cache : ~(c.kind = k /\ c.system = s)
    BY <1>2 DEF Behind, Cached
  <2>3. Honest(engines[d], tables', games)
    BY <2>1, <2>2, OtherRows
  <2> QED
    BY <2>1, <2>3
<1>3. e \notin behind' => Honest(engines'[e], tables', games')
  BY <1>1 DEF VerifyIInv
<1> QED
  BY <1>1, <1>2, <1>3 DEF VerifyIInv

(* The engine e goes from n to m, and nobody else sees a difference.       *)
LEMMA EngineStep ==
    ASSUME VerifyIInv, UNCHANGED <<tables, games>>, patched' \in [RomFile -> PatchRow],
           NEW e \in Engine, NEW m \in EngineState, engines' = [engines EXCEPT ![e] = m],
           behind' = behind \/ (behind' = behind \ {e} /\ Honest(m, tables, games)),
           e \notin behind => Honest(m, tables, games)
    PROVE  VerifyIInv'
<1>1. engines' \in [Engine -> EngineState] /\ behind' \subseteq Engine /\ TablesOK'
  BY DEF VerifyIInv, TablesOK
<1>2. ASSUME NEW d \in Engine \ behind' PROVE Honest(engines'[d], tables', games')
  BY <1>1, <1>2 DEF VerifyIInv
<1> QED
  BY <1>1, <1>2 DEF VerifyIInv

LEMMA AtEngine ==
    ASSUME VerifyIInv, NEW e \in Engine
    PROVE  /\ engines[e] \in EngineState
           /\ e \notin behind => Honest(engines[e], tables, games)
           /\ engines[e].call.step \in {"header", "entries", "commit", "done"} => engines[e].call \in ImportCall
           /\ engines[e].call.step = "match" => engines[e].call \in MatchCall
BY DEF VerifyIInv, EngineState, IdleCall, ImportCall, MatchCall

(* A call put into an engine, and a cache dropped from it.                 *)
LEMMA WithCall ==
    ASSUME NEW n \in EngineState, NEW c \in IdleCall \cup ImportCall \cup MatchCall, NEW m, m = [n EXCEPT !.call = c]
    PROVE  m \in EngineState /\ m.attached = n.attached /\ m.cache = n.cache /\ m.typed = n.typed /\ m.call = c
BY DEF EngineState

(* The statement that clears a DAT leaves every other where it is.         *)
LEMMA ClearRows ==
    ASSUME VerifyIInv, NEW k \in Kind, NEW s \in DatSystem, tables' = tables \ Rows(k, s), UNCHANGED games
    PROVE  /\ TablesOK' /\ RowsIn(tables', k, s) = {}
           /\ \A l \in Kind, t \in DatSystem : ~(l = k /\ t = s) => RowsIn(tables', l, t) = RowsIn(tables, l, t)
<1>1. TablesOK'
  BY DEF VerifyIInv, TablesOK
<1>2. RowsIn(tables', k, s) = {}
  BY DEF RowsIn, Rows
<1>3. ASSUME NEW l \in Kind, NEW t \in DatSystem, ~(l = k /\ t = s) PROVE RowsIn(tables', l, t) = RowsIn(tables, l, t)
  BY <1>3 DEF RowsIn, Rows
<1> QED
  BY <1>1, <1>2, <1>3

(* Caches that do not show the rewritten DAT, or show it to nobody.        *)
LEMMA RewrittenHonest ==
    ASSUME NEW n \in EngineState, NEW m \in EngineState, NEW T, NEW U, NEW G, NEW k \in Kind, NEW s \in DatSystem,
           Honest(n, T, G), m.attached = n.attached, m.call.step # "match", m.cache \subseteq n.cache,
           \A l \in Kind, t \in DatSystem : ~(l = k /\ t = s) => RowsIn(U, l, t) = RowsIn(T, l, t) /\ ~Importing(n, l, t),
           \/ RowsIn(U, k, s) = {} /\ ~Importing(n, k, s)
           \/ Importing(m, k, s)
           \/ \A c \in m.cache : ~(c.kind = k /\ c.system = s)
    PROVE  Honest(m, U, G)
<1> SUFFICES ASSUME NEW c \in m.cache
             PROVE  \/ c.entries \subseteq ListedIn(m, U, G, c.kind, c.system)
                    \/ /\ ~(c.kind = "official" /\ m.attached)
                       /\ RowsIn(U, c.kind, c.system) = {} \/ Importing(m, c.kind, c.system)
  BY DEF Honest
<1>1. c \in n.cache /\ c.kind \in Kind /\ c.system \in DatSystem
  BY DEF EngineState, CacheRow
<1>2. \/ c.entries \subseteq ListedIn(n, T, G, c.kind, c.system)
      \/ /\ ~(c.kind = "official" /\ n.attached)
         /\ RowsIn(T, c.kind, c.system) = {} \/ Importing(n, c.kind, c.system)
  BY <1>1 DEF Honest
<1>3. CASE c.kind = "official" /\ m.attached
  BY <1>2, <1>3 DEF ListedIn
<1>4. CASE ~(c.kind = "official" /\ m.attached) /\ ~(c.kind = k /\ c.system = s)
  <2>1. RowsIn(U, c.kind, c.system) = RowsIn(T, c.kind, c.system) /\ ~Importing(n, c.kind, c.system)
    BY <1>1, <1>4
  <2>2. ListedIn(m, U, G, c.kind, c.system) = ListedIn(n, T, G, c.kind, c.system)
    BY <1>4, <2>1 DEF ListedIn
  <2> QED
    BY <1>2, <1>4, <2>1, <2>2
<1>5. CASE ~(c.kind = "official" /\ m.attached) /\ c.kind = k /\ c.system = s
  BY <1>5
<1> QED
  BY <1>3, <1>4, <1>5

LEMMA ImportClearHolds == ASSUME VerifyIInv, NEW e \in Engine, ImportClear(e) PROVE VerifyIInv'
<1>1. patched' \in [RomFile -> PatchRow] /\ UNCHANGED games /\ engines[e].call.step = "idle"
  BY DEF ImportClear, VerifyIInv, At
<1>2. PICK k \in Kind, s \in DatSystem : \E entries \in Files(k) :
        \/ /\ tables' = tables \ Rows(k, s) /\ behind' = Behind(e, k, s)
           /\ Go(e, [step |-> "header", kind |-> k, system |-> s, entries |-> entries])
        \/ UNCHANGED <<tables, behind, engines>>
  BY DEF ImportClear
<1>3. CASE UNCHANGED <<tables, behind, engines>>
  BY <1>1, <1>3 DEF VerifyIInv, TablesOK
<1>4. ASSUME NEW entries \in Files(k), tables' = tables \ Rows(k, s), behind' = Behind(e, k, s),
             Go(e, [step |-> "header", kind |-> k, system |-> s, entries |-> entries])
      PROVE  VerifyIInv'
  <2>1. PICK c : c = [step |-> "header", kind |-> k, system |-> s, entries |-> entries]
    OBVIOUS
  <2>2. c \in ImportCall /\ c.step = "header"
    <3>1. entries \subseteq DatEntry
      BY VerificationAssumption DEF Files
    <3> QED
      BY <2>1, <3>1 DEF ImportCall
  <2>3. PICK m : m = [engines[e] EXCEPT !.call = c]
    OBVIOUS
  <2>4. m \in EngineState /\ m.attached = engines[e].attached /\ m.cache = engines[e].cache /\ m.call = c
    BY <2>2, <2>3, AtEngine, WithCall
  <2>5. e \notin behind => Honest(m, tables', games)
    <3>1. SUFFICES ASSUME e \notin behind PROVE Honest(m, tables', games)
      OBVIOUS
    <3>2. engines[e] \in EngineState /\ Honest(engines[e], tables, games)
      BY <3>1, AtEngine
    <3>3. RowsIn(tables', k, s) = {} /\ \A l, t : ~Importing(engines[e], l, t)
      BY <1>1, <1>4, ClearRows DEF Importing
    <3>4. \A l \in Kind, t \in DatSystem : ~(l = k /\ t = s) => RowsIn(tables', l, t) = RowsIn(tables, l, t)
      BY <1>1, <1>4, ClearRows
    <3>5. m.call.step # "match" /\ m.cache \subseteq engines[e].cache
      BY <2>2, <2>4
    <3> QED
      BY <2>4, <3>2, <3>3, <3>4, <3>5, RewrittenHonest
  <2>6. engines' = [engines EXCEPT ![e] = m]
    BY <1>4, <2>1, <2>3 DEF Go
  <2> QED
    BY <1>1, <1>4, <2>4, <2>5, <2>6, ClearRows, RewriteStep
<1> QED
  BY <1>2, <1>3, <1>4

LEMMA ImportHeaderHolds == ASSUME VerifyIInv, NEW e \in Engine, ImportHeader(e) PROVE VerifyIInv'
<1>1. /\ patched' \in [RomFile -> PatchRow] /\ UNCHANGED games /\ engines[e].call.step = "header"
      /\ engines[e].call \in ImportCall /\ engines[e] \in EngineState
  BY AtEngine DEF ImportHeader, VerifyIInv, At
<1>2. PICK k \in Kind, s \in DatSystem : k = engines[e].call.kind /\ s = engines[e].call.system
  BY <1>1 DEF ImportCall
<1>3. CASE Go(e, NoCall) /\ UNCHANGED <<tables, behind>>
  <2>1. PICK m : m = [engines[e] EXCEPT !.call = NoCall]
    OBVIOUS
  <2>2. /\ m \in EngineState /\ m.attached = engines[e].attached /\ m.cache = engines[e].cache /\ m.call.step = "idle"
    BY <1>1, <2>1, FreshIsHonest, WithCall DEF NoCall
  <2>3. e \notin behind => Honest(m, tables, games)
    BY <1>1, <2>2, AtEngine DEF Honest, Importing, ListedIn
  <2>4. engines' = [engines EXCEPT ![e] = m]
    BY <1>3, <2>1 DEF Go
  <2> QED
    BY <1>1, <1>3, <2>2, <2>3, <2>4, EngineStep
<1>4. CASE /\ Rows(k, s) = {} /\ Go(e, [engines[e].call EXCEPT !.step = "entries"]) /\ behind' = Behind(e, k, s)
           /\ tables' = tables \cup {[kind |-> k, system |-> s, by |-> e, entries |-> {}]}
  <2>1. PICK c : c = [engines[e].call EXCEPT !.step = "entries"]
    OBVIOUS
  <2>2. c \in ImportCall /\ c.step = "entries" /\ c.kind = k /\ c.system = s
    BY <1>1, <1>2, <2>1 DEF ImportCall
  <2>3. PICK m : m = [engines[e] EXCEPT !.call = c]
    OBVIOUS
  <2>4. m \in EngineState /\ m.attached = engines[e].attached /\ m.cache = engines[e].cache /\ m.call = c
    BY <1>1, <2>2, <2>3, WithCall
  <2>5. PICK r : r = [kind |-> k, system |-> s, by |-> e, entries |-> {}]
    OBVIOUS
  <2>6. r \in TableRow /\ r.kind = k /\ r.system = s /\ tables' = tables \cup {r}
    BY <1>4, <2>5 DEF TableRow
  <2>7. TablesOK'
    BY <1>1, <1>4, <2>6 DEF VerifyIInv, TablesOK, Rows
  <2>8. \A l \in Kind, t \in DatSystem : ~(l = k /\ t = s) => RowsIn(tables', l, t) = RowsIn(tables, l, t)
    BY <2>6 DEF RowsIn
  <2>9. e \notin behind => Honest(m, tables', games)
    BY <1>1, <2>2, <2>4, <2>8, AtEngine, RewrittenHonest DEF Importing
  <2>10. engines' = [engines EXCEPT ![e] = m]
    BY <1>4, <2>1, <2>3 DEF Go
  <2> QED
    BY <1>1, <1>4, <2>4, <2>7, <2>8, <2>9, <2>10, RewriteStep
<1> QED
  BY <1>2, <1>3, <1>4 DEF ImportHeader

LEMMA ImportEntriesHolds == ASSUME VerifyIInv, NEW e \in Engine, ImportEntries(e) PROVE VerifyIInv'
<1>1. /\ patched' \in [RomFile -> PatchRow] /\ UNCHANGED <<tables, games, behind>> /\ engines[e].call.step = "entries"
      /\ engines[e].call \in ImportCall /\ engines[e] \in EngineState
  BY AtEngine DEF ImportEntries, VerifyIInv, At
<1>2. PICK stored \in SUBSET engines[e].call.entries :
        Go(e, [engines[e].call EXCEPT !.step = IF stored = {} THEN "done" ELSE "commit", !.entries = stored])
  BY DEF ImportEntries
<1>3. PICK v : v = IF stored = {} THEN "done" ELSE "commit"
  OBVIOUS
<1>4. PICK c : c = [engines[e].call EXCEPT !.step = v, !.entries = stored]
  OBVIOUS
<1>5. /\ c \in ImportCall /\ c.step \in {"commit", "done"} /\ c.kind = engines[e].call.kind
      /\ c.system = engines[e].call.system
  <2>1. v \in {"commit", "done"} /\ stored \subseteq DatEntry
    BY <1>1, <1>3 DEF ImportCall
  <2> QED
    BY <1>1, <1>4, <2>1 DEF ImportCall
<1>6. PICK m : m = [engines[e] EXCEPT !.call = c]
  OBVIOUS
<1>7. m \in EngineState /\ m.attached = engines[e].attached /\ m.cache = engines[e].cache /\ m.call = c
  BY <1>1, <1>5, <1>6, WithCall
<1>8. e \notin behind => Honest(m, tables, games)
  BY <1>1, <1>5, <1>7, AtEngine DEF Honest, Importing, ListedIn
<1>9. engines' = [engines EXCEPT ![e] = m]
  BY <1>2, <1>3, <1>4, <1>6 DEF Go
<1> QED
  BY <1>1, <1>7, <1>8, <1>9, EngineStep

(* Forgetting the caches of a DAT makes its engine honest whatever has     *)
(* become of it.                                                           *)
LEMMA ForgetHonest ==
    ASSUME VerifyIInv, NEW e \in Engine, NEW k \in Kind, NEW s \in DatSystem, NEW U,
           \A l \in Kind, t \in DatSystem : ~(l = k /\ t = s) => RowsIn(U, l, t) = RowsIn(tables, l, t),
           engines[e].call.step # "idle" => engines[e].call.kind = k /\ engines[e].call.system = s,
           NEW m, m = [engines[e] EXCEPT !.call = NoCall, !.cache = engines[e].cache \ Cached(e, k, s)]
    PROVE  m \in EngineState /\ (e \notin behind => Honest(m, U, games))
<1>1. PICK S \in SUBSET CacheRow : S = engines[e].cache \ Cached(e, k, s)
  BY AtEngine DEF EngineState
<1>2. /\ m \in EngineState /\ m.attached = engines[e].attached /\ m.call = NoCall
      /\ m.cache = engines[e].cache \ Cached(e, k, s)
  <2>1. m = [engines[e] EXCEPT !.call = NoCall, !.cache = S] /\ engines[e] \in EngineState
    BY <1>1, AtEngine
  <2> QED
    BY <1>1, <2>1, FreshIsHonest DEF EngineState
<1>3. \A c \in m.cache : ~(c.kind = k /\ c.system = s)
  BY <1>2 DEF Cached
<1>4. m.call.step = "idle" /\ m.cache \subseteq engines[e].cache
  BY <1>2 DEF NoCall
<1>5. \A l \in Kind, t \in DatSystem : ~(l = k /\ t = s) => ~Importing(engines[e], l, t)
  BY DEF Importing
<1>6. ASSUME e \notin behind PROVE Honest(m, U, games)
  <2>1. engines[e] \in EngineState /\ Honest(engines[e], tables, games) /\ m.call.step # "match"
    BY <1>4, <1>6, AtEngine
  <2>2. \A l \in Kind, t \in DatSystem : ~(l = k /\ t = s) => RowsIn(U, l, t) = RowsIn(tables, l, t) /\ ~Importing(engines[e], l, t)
    BY <1>5
  <2> QED
    <3>1. ASSUME NEW c \in m.cache
          PROVE  \/ c.entries \subseteq ListedIn(m, U, games, c.kind, c.system)
                 \/ ~(c.kind = "official" /\ m.attached) /\ RowsIn(U, c.kind, c.system) = {}
      <4>1. c \in engines[e].cache /\ c.kind \in Kind /\ c.system \in DatSystem /\ ~(c.kind = k /\ c.system = s)
        BY <1>2, <1>3, <1>4, <2>1 DEF EngineState, CacheRow
      <4>2. RowsIn(U, c.kind, c.system) = RowsIn(tables, c.kind, c.system) /\ ~Importing(engines[e], c.kind, c.system)
        BY <2>2, <4>1
      <4>3. ListedIn(m, U, games, c.kind, c.system) = ListedIn(engines[e], tables, games, c.kind, c.system)
        BY <1>2, <4>2 DEF ListedIn
      <4> QED
        BY <1>2, <2>1, <4>1, <4>2, <4>3 DEF Honest
    <3> QED
      BY <1>4, <3>1 DEF Honest
<1> QED
  BY <1>2, <1>6

LEMMA ForgetIs ==
    ASSUME VerifyIInv, NEW e \in Engine, NEW k, NEW s, Forget(e, k, s)
    PROVE  engines' = [engines EXCEPT ![e] = [engines[e] EXCEPT !.call = NoCall,
                                                              !.cache = engines[e].cache \ Cached(e, k, s)]]
BY DEF Forget, VerifyIInv

LEMMA CommitRows ==
    ASSUME VerifyIInv, NEW call \in ImportCall, tables' = Committed(call.entries, call), UNCHANGED games
    PROVE  /\ TablesOK'
           /\ \A l \in Kind, t \in DatSystem :
                ~(l = call.kind /\ t = call.system) => RowsIn(tables', l, t) = RowsIn(tables, l, t)
<1> DEFINE New(r) == [r EXCEPT !.entries = IF r.kind = call.kind /\ r.system = call.system THEN call.entries ELSE @]
<1>1. tables' = {New(r) : r \in tables}
  BY DEF Committed
<1>2. ASSUME NEW r \in tables
      PROVE  /\ New(r) \in TableRow /\ New(r).kind = r.kind /\ New(r).system = r.system
             /\ ~(r.kind = call.kind /\ r.system = call.system) => New(r) = r
  BY DEF VerifyIInv, TablesOK, TableRow, ImportCall
<1> HIDE DEF New
<1>3. TablesOK'
  BY <1>1, <1>2 DEF VerifyIInv, TablesOK
<1>4. ASSUME NEW l \in Kind, NEW t \in DatSystem, ~(l = call.kind /\ t = call.system)
      PROVE  RowsIn(tables', l, t) = RowsIn(tables, l, t)
  BY <1>1, <1>2, <1>4 DEF RowsIn
<1> QED
  BY <1>3, <1>4

LEMMA ImportCommitHolds == ASSUME VerifyIInv, NEW e \in Engine, ImportCommit(e) PROVE VerifyIInv'
<1>1. /\ patched' \in [RomFile -> PatchRow] /\ UNCHANGED games /\ engines[e].call.step \in {"commit", "done"}
      /\ engines[e].call \in ImportCall /\ engines[e] \in EngineState
  BY AtEngine DEF ImportCommit, VerifyIInv, At
<1>2. PICK k \in Kind, s \in DatSystem : k = engines[e].call.kind /\ s = engines[e].call.system
  BY <1>1 DEF ImportCall
<1>3. PICK m : m = [engines[e] EXCEPT !.call = NoCall, !.cache = engines[e].cache \ Cached(e, k, s)]
  OBVIOUS
<1>4. engines' = [engines EXCEPT ![e] = m]
  <2>1. Forget(e, k, s)
    BY <1>2 DEF ImportCommit
  <2> QED
    BY <1>3, <2>1, ForgetIs
<1>5. CASE tables' = Committed(engines[e].call.entries, engines[e].call) /\ behind' = Behind(e, k, s)
  <2>1. /\ TablesOK'
        /\ \A l \in Kind, t \in DatSystem : ~(l = k /\ t = s) => RowsIn(tables', l, t) = RowsIn(tables, l, t)
    BY <1>1, <1>2, <1>5, CommitRows
  <2>2. m \in EngineState /\ (e \notin behind => Honest(m, tables', games))
    BY <1>2, <1>3, <2>1, ForgetHonest
  <2> QED
    BY <1>1, <1>4, <1>5, <2>1, <2>2, RewriteStep
<1>6. CASE UNCHANGED <<tables, behind>>
  <2>1. m \in EngineState /\ (e \notin behind => Honest(m, tables, games))
    BY <1>2, <1>3, ForgetHonest
  <2> QED
    BY <1>1, <1>4, <1>6, <2>1, EngineStep
<1> QED
  BY <1>2, <1>5, <1>6 DEF ImportCommit

LEMMA RemoveHolds == ASSUME VerifyIInv, NEW e \in Engine, RemoveDat(e) PROVE VerifyIInv'
<1>1. patched' \in [RomFile -> PatchRow] /\ UNCHANGED games /\ engines[e].call.step = "idle"
  BY DEF RemoveDat, VerifyIInv, At
<1>2. PICK k \in Kind, s \in DatSystem :
        \/ tables' = tables \ Rows(k, s) /\ behind' = Behind(e, k, s) /\ Forget(e, k, s)
        \/ UNCHANGED <<tables, behind, engines>>
  BY DEF RemoveDat
<1>3. CASE UNCHANGED <<tables, behind, engines>>
  BY <1>1, <1>3 DEF VerifyIInv, TablesOK
<1>4. CASE tables' = tables \ Rows(k, s) /\ behind' = Behind(e, k, s) /\ Forget(e, k, s)
  <2>1. PICK m : m = [engines[e] EXCEPT !.call = NoCall, !.cache = engines[e].cache \ Cached(e, k, s)]
    OBVIOUS
  <2>2. engines' = [engines EXCEPT ![e] = m]
    BY <1>4, <2>1, ForgetIs
  <2>3. m \in EngineState /\ (e \notin behind => Honest(m, tables', games))
    <3>1. \A l \in Kind, t \in DatSystem : ~(l = k /\ t = s) => RowsIn(tables', l, t) = RowsIn(tables, l, t)
      BY <1>1, <1>4, ClearRows
    <3> QED
      BY <1>1, <2>1, <3>1, ForgetHonest
  <2> QED
    BY <1>1, <1>4, <2>2, <2>3, ClearRows, RewriteStep
<1> QED
  BY <1>2, <1>3, <1>4

LEMMA AttachHolds == ASSUME VerifyIInv, NEW e \in Engine, SetCompendiumDb(e) \/ EngineDies(e) PROVE VerifyIInv'
<1>1. patched' \in [RomFile -> PatchRow] /\ UNCHANGED <<tables, games>> /\ behind' = behind \ {e}
  BY DEF SetCompendiumDb, EngineDies, VerifyIInv
<1>2. PICK m \in EngineState : engines' = [engines EXCEPT ![e] = m] /\ Honest(m, tables, games)
  BY FreshIsHonest DEF SetCompendiumDb, EngineDies
<1> QED
  BY <1>1, <1>2, EngineStep

(* The engines that have the official DAT of a system cached from the      *)
(* catalog are behind when its games change.                               *)
LEMMA CatalogHolds == ASSUME VerifyIInv, CatalogChanges PROVE VerifyIInv'
<1>1. patched' \in [RomFile -> PatchRow] /\ UNCHANGED <<tables, engines>>
  BY DEF CatalogChanges, VerifyIInv
<1>2. PICK s \in DatSystem, new \in CatalogStates :
        /\ games' = [games EXCEPT ![s] = new]
        /\ behind' = behind \cup {e \in Engine : engines[e].attached /\ Cached(e, "official", s) # {}}
  BY DEF CatalogChanges
<1>3. TablesOK' /\ behind' \subseteq Engine /\ \A t \in DatSystem \ {s} : games'[t] = games[t]
  BY <1>1, <1>2, VerificationAssumption DEF VerifyIInv, TablesOK
<1>4. ASSUME NEW e \in Engine \ behind' PROVE Honest(engines'[e], tables', games')
  <2>1. /\ engines[e] \in EngineState /\ Honest(engines[e], tables, games)
        /\ ~(engines[e].attached /\ Cached(e, "official", s) # {})
    BY <1>2, <1>4, AtEngine
  <2>2. \A c \in engines[e].cache : ListedIn(engines[e], tables, games', c.kind, c.system)
                                      = ListedIn(engines[e], tables, games, c.kind, c.system)
    BY <1>3, <2>1 DEF ListedIn, Cached, EngineState, CacheRow
  <2>3. Honest(engines[e], tables, games')
    BY <2>1, <2>2 DEF Honest
  <2> QED
    BY <1>1, <2>3
<1> QED
  BY <1>1, <1>3, <1>4 DEF VerifyIInv

(* The call of verification looks first: what hasDat finds is what the     *)
(* caches may be asked for.                                                *)
LEMMA LookHolds == ASSUME VerifyIInv, NEW e \in Engine, VerifyLook(e) PROVE VerifyIInv'
<1>1. /\ patched' \in [RomFile -> PatchRow] /\ UNCHANGED <<tables, games, behind>> /\ engines[e].call.step = "idle"
      /\ engines[e] \in EngineState
  BY AtEngine DEF VerifyLook, VerifyIInv, At
<1>2. CASE UNCHANGED engines
  BY <1>1, <1>2 DEF VerifyIInv, TablesOK
<1>3. ASSUME NEW f \in RomFile,
             Go(e, [step |-> "match", file |-> f, official |-> hasDat(e, SystemOf[f]), patch |-> hasPatchDat(SystemOf[f])])
      PROVE  VerifyIInv'
  <2>1. \E o \in BOOLEAN, a \in BOOLEAN : o = hasDat(e, SystemOf[f]) /\ a = hasPatchDat(SystemOf[f])
    BY DEF hasDat, hasPatchDat
  <2>2. PICK o \in BOOLEAN, a \in BOOLEAN : o = hasDat(e, SystemOf[f]) /\ a = hasPatchDat(SystemOf[f])
    BY <2>1
  <2>3. PICK c : c = [step |-> "match", file |-> f, official |-> o, patch |-> a]
    OBVIOUS
  <2>4. c \in MatchCall /\ c.step = "match" /\ c.file = f /\ c.official = o
    BY <2>3 DEF MatchCall
  <2>5. PICK m : m = [engines[e] EXCEPT !.call = c]
    OBVIOUS
  <2>6. m \in EngineState /\ m.attached = engines[e].attached /\ m.cache = engines[e].cache /\ m.call = c
    BY <1>1, <2>4, <2>5, WithCall
  <2>7. ASSUME e \notin behind PROVE Honest(m, tables, games)
    <3>1. Honest(engines[e], tables, games) /\ \A k, s : ~Importing(engines[e], k, s)
      BY <1>1, <2>7, AtEngine DEF Importing
    <3>2. ASSUME NEW k, NEW s PROVE ListedIn(m, tables, games, k, s) = ListedIn(engines[e], tables, games, k, s)
      BY <2>6 DEF ListedIn
    <3>3. \A c2 \in m.cache : \/ c2.entries \subseteq ListedIn(m, tables, games, c2.kind, c2.system)
                              \/ ~(c2.kind = "official" /\ m.attached) /\ RowsIn(tables, c2.kind, c2.system) = {}
      BY <2>6, <3>1, <3>2 DEF Honest
    <3>4. o => m.attached \/ RowsIn(tables, "official", SystemOf[f]) # {}
      BY <2>2, <2>6 DEF hasDat, RowsIn, Rows
    <3>5. ASSUME NEW c2 \in m.cache, o, c2.kind = "official", c2.system = SystemOf[f]
          PROVE  c2.entries \subseteq ListedIn(m, tables, games, c2.kind, c2.system)
      BY <3>3, <3>4, <3>5
    <3> QED
      BY <2>4, <2>6, <3>3, <3>5 DEF Honest
  <2>8. engines' = [engines EXCEPT ![e] = m]
    BY <1>3, <2>2, <2>3, <2>5 DEF Go
  <2> QED
    BY <1>1, <2>6, <2>7, <2>8, EngineStep
<1> QED
  BY <1>2, <1>3 DEF VerifyLook

(* What loading adds to the caches is what is listed.                      *)
LEMMA Loading ==
    ASSUME NEW n, NEW m, NEW T, NEW G, Honest(n, T, G), m.attached = n.attached, m.call.step = "idle",
           n.call.step \in {"idle", "match"},
           \A c \in m.cache : c \in n.cache \/ c.entries = ListedIn(n, T, G, c.kind, c.system)
    PROVE  Honest(m, T, G)
<1>1. ASSUME NEW k, NEW s PROVE ListedIn(m, T, G, k, s) = ListedIn(n, T, G, k, s) /\ ~Importing(n, k, s)
  BY DEF ListedIn, Importing
<1> QED
  BY <1>1 DEF Honest

LEMMA ListedIsTyped ==
    ASSUME VerifyIInv, NEW e \in Engine, NEW k \in Kind, NEW s \in DatSystem
    PROVE  /\ Listed(e, k, s) = ListedIn(engines[e], tables, games, k, s)
           /\ Listed(e, k, s) \subseteq DatEntry
<1>1. Listed(e, k, s) = ListedIn(engines[e], tables, games, k, s)
  BY DEF Listed, ListedIn, Rows, RowsIn
<1>2. games[s] \subseteq DatEntry /\ \A r \in tables : r.entries \subseteq DatEntry
  BY DEF VerifyIInv, TablesOK, TableRow
<1>3. Listed(e, k, s) \subseteq DatEntry
  BY <1>2 DEF Listed, Rows
<1> QED
  BY <1>1, <1>3

LEMMA LoadIs ==
    ASSUME VerifyIInv, NEW e \in Engine, NEW s \in DatSystem, NEW n, n = loadDatCache(e, s)
    PROVE  /\ n \in EngineState /\ n.attached = engines[e].attached /\ n.call = engines[e].call
           /\ \A c \in n.cache : \/ c \in engines[e].cache
                                 \/ /\ c.kind = "official" /\ c.system = s /\ c.entries = Listed(e, "official", s)
                                    /\ Cached(e, "official", s) = {}
<1>1. engines[e] \in EngineState
  BY AtEngine
<1>2. CASE Cached(e, "official", s) # {}
  BY <1>1, <1>2 DEF loadDatCache
<1>3. CASE Cached(e, "official", s) = {}
  <2>1. PICK r : r = [kind |-> "official", system |-> s, entries |-> Listed(e, "official", s)]
    OBVIOUS
  <2>2. r \in CacheRow /\ r.kind = "official" /\ r.system = s /\ r.entries = Listed(e, "official", s)
    BY <2>1, ListedIsTyped DEF CacheRow, Kind
  <2>3. n = [engines[e] EXCEPT !.cache = @ \cup {r}, !.typed = @ \cup {s}]
    BY <1>3, <2>1 DEF loadDatCache
  <2>4. n \in EngineState /\ n.attached = engines[e].attached /\ n.call = engines[e].call
        /\ n.cache = engines[e].cache \cup {r}
    <3>1. PICK A \in SUBSET CacheRow : A = engines[e].cache \cup {r}
      BY <1>1, <2>2 DEF EngineState
    <3>2. PICK B \in SUBSET DatSystem : B = engines[e].typed \cup {s}
      BY <1>1 DEF EngineState
    <3>3. n = [engines[e] EXCEPT !.cache = A, !.typed = B]
      BY <2>3, <3>1, <3>2
    <3> QED
      BY <1>1, <3>1, <3>3 DEF EngineState
  <2> QED
    BY <1>3, <2>2, <2>4
<1> QED
  BY <1>2, <1>3

LEMMA LoadPatchIs ==
    ASSUME VerifyIInv, NEW e \in Engine, NEW s \in DatSystem, NEW n \in EngineState,
           NEW m, m = loadPatchDatCache(e, s, n)
    PROVE  /\ m \in EngineState /\ m.attached = n.attached /\ m.call = n.call
           /\ \A c \in m.cache : \/ c \in n.cache
                                 \/ /\ c.kind = "patch" /\ c.system = s /\ c.entries = Listed(e, "patch", s)
                                    /\ Cached(e, "patch", s) = {}
<1>1. CASE Cached(e, "patch", s) # {}
  BY <1>1 DEF loadPatchDatCache
<1>2. CASE Cached(e, "patch", s) = {}
  <2>1. PICK r : r = [kind |-> "patch", system |-> s, entries |-> Listed(e, "patch", s)]
    OBVIOUS
  <2>2. r \in CacheRow /\ r.kind = "patch" /\ r.system = s /\ r.entries = Listed(e, "patch", s)
    BY <2>1, ListedIsTyped DEF CacheRow, Kind
  <2>3. m = [n EXCEPT !.cache = @ \cup {r}]
    BY <1>2, <2>1 DEF loadPatchDatCache
  <2>4. m \in EngineState /\ m.attached = n.attached /\ m.call = n.call /\ m.cache = n.cache \cup {r}
    BY <2>2, <2>3 DEF EngineState
  <2> QED
    BY <1>2, <2>2, <2>4
<1> QED
  BY <1>1, <1>2

LEMMA ListMissingHolds == ASSUME VerifyIInv, NEW e \in Engine, ListMissing(e) PROVE VerifyIInv'
<1>1. /\ patched' \in [RomFile -> PatchRow] /\ UNCHANGED <<tables, games, behind>> /\ engines[e].call.step = "idle"
      /\ engines[e] \in EngineState
  BY AtEngine DEF ListMissing, VerifyIInv, At
<1>2. PICK s \in DatSystem : engines' = [engines EXCEPT ![e] = loadDatCache(e, s)]
  BY DEF ListMissing
<1>3. PICK m : m = loadDatCache(e, s)
  OBVIOUS
<1>4. /\ m \in EngineState /\ m.attached = engines[e].attached /\ m.call = engines[e].call
      /\ \A c \in m.cache : \/ c \in engines[e].cache
                            \/ c.entries = ListedIn(engines[e], tables, games, c.kind, c.system)
  BY <1>3, LoadIs, ListedIsTyped DEF Kind
<1>5. e \notin behind => Honest(m, tables, games)
  BY <1>1, <1>4, AtEngine, Loading
<1> QED
  BY <1>1, <1>2, <1>3, <1>4, <1>5, EngineStep

(* The metadata a row is promoted to is of its type.                       *)
LEMMA PromotedIsTyped ==
    ASSUME NEW row \in PatchRow, NEW x \in DatEntry
    PROVE  Promoted(row, x) \in PatchRow
<1>1. x.meta \in Meta /\ x.parsed \in Meta
  BY VerificationAssumption
<1>2. PICK a \in Meta, b \in Meta : a = x.meta /\ b = x.parsed
  BY <1>1
<1>3. /\ a.base \in {"", "b"} /\ b.base \in {"", "b"} /\ a.patch \in {"", "p"} /\ b.patch \in {"", "p"}
      /\ a.type \in FileType /\ b.type \in FileType
  BY DEF Meta
<1>4. row.base \in {"", "b"} /\ row.patch \in {"", "p"} /\ row.type \in FileType /\ row.marked \in BOOLEAN
  BY DEF PatchRow
<1> QED
  BY <1>2, <1>3, <1>4 DEF Promoted, PatchRow

(* What a match returns is in a cache of its kind and system.              *)
LEMMA MatchesAreCached ==
    ASSUME NEW n, NEW k, NEW f, NEW x \in Matches(n, k, f)
    PROVE  /\ \E c \in n.cache : c.kind = k /\ c.system = SystemOf[f] /\ x \in c.entries
           /\ \E d \in DigestsOf[f] \cap x.digests : TypeOf[d] # "sha256"
<1>1. \A S, p, i : \A y \in Hits(S, f, orderedOfficialHashTypes(p)[i]) :
         y \in S /\ \E d \in DigestsOf[f] \cap y.digests : TypeOf[d] # "sha256"
  BY DEF Hits
<1>2. \A S, p : \A y \in findHashInDatEntries(S, p, f) :
         y \in S /\ \E d \in DigestsOf[f] \cap y.digests : TypeOf[d] # "sha256"
  BY <1>1 DEF findHashInDatEntries
<1>3. x \in Entries(n, k, SystemOf[f]) /\ \E d \in DigestsOf[f] \cap x.digests : TypeOf[d] # "sha256"
  BY <1>2 DEF Matches
<1> QED
  BY <1>3 DEF Entries

(* The parts of the step that verifies a file, named.                      *)
Loaded(e) == IF engines[e].call.official THEN loadDatCache(e, SystemOf[engines[e].call.file]) ELSE engines[e]
ByOfficial(e) == IF engines[e].call.official THEN Matches(Loaded(e), "official", engines[e].call.file) ELSE {}
Consult(e) == ByOfficial(e) = {} /\ engines[e].call.patch /\ hasPatchDat(SystemOf[engines[e].call.file])
LoadedAll(e) == IF Consult(e) THEN loadPatchDatCache(e, SystemOf[engines[e].call.file], Loaded(e)) ELSE Loaded(e)
ByPatch(e) == IF Consult(e) THEN Matches(LoadedAll(e), "patch", engines[e].call.file) ELSE {}

LEMMA MatchIs ==
    ASSUME NEW e, VerifyMatch(e)
    PROVE  /\ engines[e].call.step = "match" /\ UNCHANGED <<tables, games, behind>>
           /\ engines' = [engines EXCEPT ![e] = [LoadedAll(e) EXCEPT !.call = NoCall]]
           /\ \/ \E x \in ByOfficial(e) :
                    /\ verdict' = [engine |-> e, status |-> "verified", file |-> engines[e].call.file,
                                   kind |-> "official", entry |-> x]
                    /\ UNCHANGED patched
              \/ \E x \in ByPatch(e) :
                    /\ verdict' = [engine |-> e, status |-> "verified", file |-> engines[e].call.file,
                                   kind |-> "patch", entry |-> x]
                    /\ promotePatchMetadata(e, engines[e].call.file, x)
              \/ verdict'.status = "not_in_dat" /\ UNCHANGED patched
<1>1. engines[e].call.step = "match" /\ UNCHANGED <<tables, games, behind>>
  BY DEF VerifyMatch, At
<1>2. engines' = [engines EXCEPT ![e] = [LoadedAll(e) EXCEPT !.call = NoCall]]
  BY Zenon DEF VerifyMatch, Loaded, ByOfficial, Consult, LoadedAll
<1>3. \/ \E x \in ByOfficial(e) :
            /\ verdict' = [engine |-> e, status |-> "verified", file |-> engines[e].call.file,
                           kind |-> "official", entry |-> x]
            /\ UNCHANGED patched
      \/ \E x \in ByPatch(e) :
            /\ verdict' = [engine |-> e, status |-> "verified", file |-> engines[e].call.file,
                           kind |-> "patch", entry |-> x]
            /\ promotePatchMetadata(e, engines[e].call.file, x)
      \/ verdict' = [engine |-> e, status |-> "not_in_dat", file |-> engines[e].call.file] /\ UNCHANGED patched
  BY Zenon DEF VerifyMatch, Loaded, ByOfficial, Consult, LoadedAll, ByPatch
<1> QED
  BY <1>1, <1>2, <1>3

(* What is loaded, whatever the call asks for.                             *)
LEMMA LoadedIs ==
    ASSUME VerifyIInv, NEW e \in Engine, engines[e].call.step = "match"
    PROVE  /\ engines[e].call \in MatchCall /\ SystemOf[engines[e].call.file] \in DatSystem
           /\ Loaded(e) \in EngineState /\ LoadedAll(e) \in EngineState
           /\ LoadedAll(e).attached = engines[e].attached
           /\ \A c \in Loaded(e).cache : c \in engines[e].cache \/ (c.entries = Listed(e, c.kind, c.system) /\ c.kind = "official")
           /\ \A c \in LoadedAll(e).cache : c \in Loaded(e).cache \/ c.entries = Listed(e, c.kind, c.system)
<1>1. engines[e] \in EngineState /\ engines[e].call \in MatchCall /\ SystemOf[engines[e].call.file] \in DatSystem
  BY AtEngine, VerificationAssumption DEF MatchCall
<1>2. PICK n : n = Loaded(e)
  OBVIOUS
<1>3. /\ n \in EngineState /\ n.attached = engines[e].attached
      /\ \A c \in n.cache : c \in engines[e].cache \/ (c.entries = Listed(e, c.kind, c.system) /\ c.kind = "official")
  <2>1. CASE engines[e].call.official
    <3>1. n = loadDatCache(e, SystemOf[engines[e].call.file])
      BY <1>2, <2>1 DEF Loaded
    <3> QED
      BY <1>1, <3>1, LoadIs
  <2>2. CASE ~engines[e].call.official
    BY <1>1, <1>2, <2>2 DEF Loaded
  <2> QED
    BY <2>1, <2>2
<1>4. PICK m : m = LoadedAll(e)
  OBVIOUS
<1>5. /\ m \in EngineState /\ m.attached = engines[e].attached
      /\ \A c \in m.cache : c \in n.cache \/ c.entries = Listed(e, c.kind, c.system)
  <2>1. CASE Consult(e)
    <3>1. m = loadPatchDatCache(e, SystemOf[engines[e].call.file], n)
      BY <1>2, <1>4, <2>1 DEF LoadedAll
    <3> QED
      BY <1>1, <1>3, <3>1, LoadPatchIs
  <2>2. CASE ~Consult(e)
    BY <1>2, <1>3, <1>4, <2>2 DEF LoadedAll
  <2> QED
    BY <2>1, <2>2
<1> QED
  BY <1>1, <1>2, <1>3, <1>4, <1>5

LEMMA VerifyMatchHolds == ASSUME VerifyIInv, NEW e \in Engine, VerifyMatch(e) PROVE VerifyIInv'
<1>1. /\ engines[e].call.step = "match" /\ UNCHANGED <<tables, games, behind>>
      /\ engines' = [engines EXCEPT ![e] = [LoadedAll(e) EXCEPT !.call = NoCall]]
  BY MatchIs
<1>2. PICK n : n = LoadedAll(e)
  OBVIOUS
<1>3. /\ n \in EngineState /\ n.attached = engines[e].attached
      /\ \A c \in n.cache : c \in engines[e].cache \/ c.entries = ListedIn(engines[e], tables, games, c.kind, c.system)
  <2>1. \A c \in n.cache : c.kind \in Kind /\ c.system \in DatSystem
    BY <1>1, <1>2, LoadedIs DEF EngineState, CacheRow
  <2> QED
    BY <1>1, <1>2, <2>1, LoadedIs, ListedIsTyped
<1>4. PICK m : m = [n EXCEPT !.call = NoCall]
  OBVIOUS
<1>5. m \in EngineState /\ m.attached = n.attached /\ m.cache = n.cache /\ m.call.step = "idle"
  BY <1>3, <1>4, FreshIsHonest DEF EngineState, NoCall
<1>6. e \notin behind => Honest(m, tables, games)
  BY <1>1, <1>3, <1>5, AtEngine, Loading
<1>7. patched' \in [RomFile -> PatchRow]
  <2>1. patched \in [RomFile -> PatchRow] /\ engines[e].call.file \in RomFile
    BY <1>1, LoadedIs DEF VerifyIInv, MatchCall
  <2>2. ASSUME NEW x \in ByPatch(e), promotePatchMetadata(e, engines[e].call.file, x) PROVE patched' \in [RomFile -> PatchRow]
    <3>1. \E c \in n.cache : x \in c.entries
      BY <1>2, MatchesAreCached DEF ByPatch
    <3>2. x \in DatEntry
      BY <1>3, <3>1 DEF EngineState, CacheRow
    <3>3. Promoted(patched[engines[e].call.file], x) \in PatchRow
      BY <2>1, <3>2, PromotedIsTyped
    <3> QED
      BY <2>1, <2>2, <3>3 DEF promotePatchMetadata
  <2> QED
    BY <2>1, <2>2, MatchIs
<1>8. engines' = [engines EXCEPT ![e] = m]
  BY <1>1, <1>2, <1>4
<1> QED
  BY <1>1, <1>5, <1>6, <1>7, <1>8, EngineStep

LEMMA VerifyStepHolds == VerifyIInv /\ [VerifyNext]_verifyVars => VerifyIInv'
<1>1. ASSUME VerifyIInv, UNCHANGED verifyVars PROVE VerifyIInv'
  BY <1>1 DEF verifyVars, VerifyIInv, TablesOK
<1>2. ASSUME VerifyIInv, NEW e \in Verifier,
             SetCompendiumDb(e) \/ VerifyLook(e) \/ VerifyMatch(e) \/ ListMissing(e)
      PROVE  VerifyIInv'
  <2>1. e \in Engine
    BY VerificationAssumption
  <2> QED
    BY <1>2, <2>1, AttachHolds, LookHolds, VerifyMatchHolds, ListMissingHolds
<1>3. ASSUME VerifyIInv, VerifyNext PROVE VerifyIInv'
  BY <1>2, <1>3, ImportClearHolds, ImportHeaderHolds, ImportEntriesHolds, ImportCommitHolds, RemoveHolds,
     AttachHolds, CatalogHolds DEF VerifyNext
<1> QED
  BY <1>1, <1>3

LEMMA VerifyInvariance == VerifySpec => []VerifyIInv
BY VerifyInitHolds, VerifyStepHolds, PTL DEF VerifySpec

(* Types of the DATs, the caches and the rows, one DAT for each kind and   *)
(* system (the primary key of dat_imports).                                *)
THEOREM VerifyTypeCorrect == VerifySpec => []VerifyTypeOK
<1>1. VerifyIInv => VerifyTypeOK
  <2> SUFFICES ASSUME VerifyIInv PROVE VerifyTypeOK
    OBVIOUS
  <2>1. \A r \in tables : r.kind \in Kind /\ r.system \in DatSystem /\ r.by \in Engine /\ r.entries \subseteq DatEntry
    BY DEF VerifyIInv, TablesOK, TableRow
  <2>2. \A r, q \in tables : r.kind = q.kind /\ r.system = q.system => r = q
    BY DEF VerifyIInv, TablesOK
  <2>3. \A e \in Engine : \A c \in engines[e].cache :
          c.kind \in Kind /\ c.system \in DatSystem /\ c.entries \subseteq DatEntry
    BY DEF VerifyIInv, EngineState, CacheRow
  <2>4. games \in [DatSystem -> SUBSET DatEntry] /\ behind \subseteq Engine
        /\ patched \in [RomFile -> [base : {"", "b"}, patch : {"", "p"}, type : FileType, marked : BOOLEAN]]
    BY DEF VerifyIInv, TablesOK, PatchRow
  <2> QED
    BY <2>1, <2>2, <2>3, <2>4 DEF VerifyTypeOK
<1> QED
  BY <1>1, VerifyInvariance, PTL

(* The entry a step verifies a file by is listed at that moment.           *)
LEMMA VerifiedNow ==
    ASSUME VerifyIInv, NEW e \in Engine \ behind, VerifyMatch(e), verdict'.status = "verified"
    PROVE  verdict'.engine = e /\ verdict'.entry \in Listed(e, verdict'.kind, SystemOf[verdict'.file])
<1>1. PICK n : n = engines[e]
  OBVIOUS
<1>2. PICK s \in DatSystem : s = SystemOf[n.call.file]
  BY <1>1, MatchIs, LoadedIs
<1>3. Honest(n, tables, games) /\ n.call.step = "match" /\ \A k, t : ~Importing(n, k, t)
  BY <1>1, AtEngine, MatchIs DEF Importing
<1>4. \A k \in Kind : ListedIn(n, tables, games, k, s) = Listed(e, k, s)
  BY <1>1, ListedIsTyped
<1>5. ASSUME NEW x \in ByOfficial(e) PROVE x \in Listed(e, "official", s)
  <2>1. n.call.official
    BY <1>1 DEF ByOfficial
  <2>2. PICK c \in Loaded(e).cache : c.kind = "official" /\ c.system = s /\ x \in c.entries
    BY <1>1, <1>2, MatchesAreCached DEF ByOfficial
  <2>3. CASE c \in n.cache
    BY <1>2, <1>3, <1>4, <2>1, <2>2, <2>3 DEF Honest, Kind
  <2>4. CASE c.entries = Listed(e, c.kind, c.system)
    BY <2>2, <2>4
  <2> QED
    BY <1>1, <1>3, <2>2, <2>3, <2>4, LoadedIs
<1>6. ASSUME NEW x \in ByPatch(e) PROVE x \in Listed(e, "patch", s)
  <2>1. RowsIn(tables, "patch", s) # {}
    BY <1>1, <1>2, <1>6 DEF ByPatch, Consult, hasPatchDat, Rows, RowsIn
  <2>2. PICK c \in LoadedAll(e).cache : c.kind = "patch" /\ c.system = s /\ x \in c.entries
    BY <1>1, <1>2, <1>6, MatchesAreCached DEF ByPatch
  <2>3. CASE c \in n.cache
    BY <1>3, <1>4, <2>1, <2>2, <2>3 DEF Honest, Kind
  <2>4. CASE c.entries = Listed(e, c.kind, c.system)
    BY <2>2, <2>4
  <2> QED
    BY <1>1, <1>3, <2>2, <2>3, <2>4, LoadedIs
<1> QED
  BY <1>1, <1>2, <1>5, <1>6, MatchIs

(* Imports that fail half way, removals and reloads never leave a cache    *)
(* that vouches for a file on its own (verification_storage.cpp:23), for   *)
(* any number of engines, systems, files and DATs.                         *)
THEOREM CachesVouchForNobody == VerifySpec => VerifiedIsListed
<1>1. VerifyIInv /\ [VerifyNext]_verifyVars =>
        [verdict'.status = "verified" /\ verdict'.engine \notin behind
           => verdict'.entry \in Listed(verdict'.engine, verdict'.kind, SystemOf[verdict'.file])]_verifyVars
  <2> SUFFICES ASSUME VerifyIInv, VerifyNext, verdict'.status = "verified", verdict'.engine \notin behind
               PROVE  verdict'.entry \in Listed(verdict'.engine, verdict'.kind, SystemOf[verdict'.file])
    OBVIOUS
  <2>1. PICK e \in Verifier : VerifyMatch(e)
    <3>1. verdict' # NoVerdict
      BY DEF NoVerdict
    <3>2. ASSUME NEW e \in Engine, \/ ImportClear(e) \/ ImportHeader(e) \/ ImportEntries(e) \/ ImportCommit(e)
                                   \/ RemoveDat(e) \/ EngineDies(e)
          PROVE  FALSE
      BY <3>1, <3>2 DEF ImportClear, ImportHeader, ImportEntries, ImportCommit, RemoveDat, EngineDies
    <3>3. ASSUME NEW e \in Engine, SetCompendiumDb(e) \/ ListMissing(e) \/ CatalogChanges PROVE FALSE
      BY <3>1, <3>3 DEF SetCompendiumDb, ListMissing, CatalogChanges
    <3>4. ASSUME NEW e \in Engine, VerifyLook(e) PROVE FALSE
      BY <3>1, <3>4 DEF VerifyLook
    <3>5. ~CatalogChanges
      BY <3>1 DEF CatalogChanges
    <3>6. Verifier \subseteq Engine
      BY VerificationAssumption
    <3> QED
      BY <3>2, <3>3, <3>4, <3>5, <3>6 DEF VerifyNext
  <2>2. e \in Engine
    BY VerificationAssumption
  <2>3. verdict'.engine = e
    BY <2>1, MatchIs
  <2> QED
    BY <2>1, <2>2, <2>3, VerifiedNow
<1> QED
  BY <1>1, VerifyInvariance, PTL DEF VerifySpec, VerifiedIsListed

(* What an entry is matched by is what keeps it from being missing: in     *)
(* every state, for the preferred hash of every system.                    *)
THEOREM MatchedIsOwned == VerifySpec => []VerifiedIsNotMissing
<1>1. VerifiedIsNotMissing
  <2> SUFFICES ASSUME NEW e \in Engine \ behind, NEW f \in RomFile,
                      NEW x \in Matches(loadDatCache(e, SystemOf[f]), "official", f)
               PROVE  x \notin getMissingGames(e, SystemOf[f])
    BY DEF VerifiedIsNotMissing
  <2>1. PICK d \in DigestsOf[f] \cap x.digests : TypeOf[d] # "sha256"
    BY MatchesAreCached
  <2>2. d \in OwnedDigests(SystemOf[f])
    BY <2>1 DEF OwnedDigests
  <2> QED
    BY <2>1, <2>2 DEF getMissingGames
<1> QED
  BY <1>1, PTL

-----------------------------------------------------------------------------
(* LibrarySchema: what initialize opens.                                   *)

SystemRowOK(s) == s = [id |-> s.id, name |-> s.name] /\ s.id \in Nat \ {0} /\ s.name[1] \in SystemName \cup {"other"}
RowsOK(S) == (\A s \in S : SystemRowOK(s)) /\ \A s, t \in S : s.id = t.id \/ s.name = t.name => s = t
CanonicalRow(n) == [id |-> CanonicalId[n], name |-> Plain(n)]

(* The system that the id i is of, among the rows S; what each reference   *)
(* R names with the rows S is named by R2 and S2 too.                      *)
NameAt(S, i) == {s.name[1] : s \in {s \in S : s.id = i}} \cap SystemName
KeepsNames(R, S, R2, S2) == \A r \in Ref : NameAt(S, R[r]) # {} => NameAt(S2, R2[r]) = NameAt(S, R[r])

LibraryOK(d) ==
    /\ d = [tables |-> d.tables, columns |-> d.columns, systems |-> d.systems, refs |-> d.refs]
    /\ d.tables \subseteq AllTables /\ d.columns \subseteq AllColumns
    /\ RowsOK(d.systems) /\ d.refs \in [Ref -> Nat]
    /\ "systems" \notin d.tables => d.systems = {}
    /\ "matches" \in d.tables => AllTables \ {"applied_patches"} \subseteq d.tables

(* The columns that d has of the library f as it was found; a table of     *)
(* files made since then was made with all that createSchema names.        *)
Grown(f, d) ==
    /\ f.columns \subseteq d.columns
    /\ "files" \in d.tables => "files" \in f.tables \/ "files.catalog" \in d.columns

Whole(f, d) ==
    /\ d.tables = AllTables
    /\ Migrated \cup (IF "files" \in f.tables THEN f.columns ELSE AllColumns) \subseteq d.columns
    /\ \A n \in SystemName : CanonicalRow(n) \in d.systems
    /\ \A r \in FileRef : Lost(d, r) => Detected[r] = "none"

(* createSchema has got to the table k.                                    *)
CreatedTo(k) ==
    /\ todo \in Seq(AllTables) /\ Len(todo) = 9 - k
    /\ \A i \in 1..(9 - k) : todo[i] = TableOrder[i + k - 1]
    /\ \A i \in 1..(k - 1) : TableOrder[i] \in work.tables

SchemaIInv ==
    /\ LibraryOK(initial) /\ LibraryOK(disk) /\ LibraryOK(work) /\ Grown(initial, disk) /\ Grown(initial, work)
    /\ step \in {"closed", "create", "begin", "systems", "open"} /\ opens \in 0..MaxOpens
    /\ step = "create" => work = disk /\ work.systems = {} /\ \E k \in 1..9 : CreatedTo(k)
    /\ step = "begin" => work = disk /\ "systems" \in work.tables
    /\ step = "systems" =>
        /\ todo \in Seq(SystemName)
        /\ {"systems", "applied_patches"} \subseteq work.tables /\ {"files.status", "files.disc"} \subseteq work.columns
        /\ \A n \in SystemName : CanonicalRow(n) \in work.systems \/ \E i \in DOMAIN todo : todo[i] = n
        /\ KeepsNames(disk.refs, disk.systems, work.refs, work.systems)
    /\ step = "open" => Whole(initial, disk)

LEMMA TableOrderIs ==
    /\ Len(TableOrder) = 8 /\ AllTables = {TableOrder[i] : i \in 1..8}
    /\ TableOrder[1] = "systems" /\ TableOrder[8] = "matches"
    /\ \A i \in 1..7 : TableOrder[i] # "matches"
    /\ {"systems", "applied_patches", "files", "matches"} \subseteq AllTables
<1>1. TableOrder = <<"systems", "libraries", "files", "applied_patches", "cache", "undo_queue", "games", "matches">>
  BY DEF TableOrder
<1>2. Len(TableOrder) = 8
  BY <1>1
<1>3. AllTables = {TableOrder[i] : i \in 1..8}
  BY <1>2 DEF AllTables
<1>4. TableOrder[1] = "systems" /\ TableOrder[3] = "files" /\ TableOrder[4] = "applied_patches" /\ TableOrder[8] = "matches"
  BY <1>1
<1>5. \A i \in 1..7 : TableOrder[i] # "matches"
  BY <1>1
<1> QED
  BY <1>2, <1>3, <1>4, <1>5

LEMMA OffsetIs == \A n \in SystemName : CanonicalId[n] \in 1..9 /\ Offset = 10
  BY SchemaAssumption DEF Offset

(* Every system comes up in the order of the migration.                    *)
LEMMA OrderIs == Order \in Seq(SystemName) /\ \A n \in SystemName : \E i \in DOMAIN Order : Order[i] = n
<1> DEFINE k == Cardinality(SystemName)
<1>1. k \in Nat /\ ExistsBijection(1..k, SystemName)
  BY FS_CardinalityType, SchemaAssumption
<1>2. \E s \in [1..k -> SystemName] : {s[i] : i \in DOMAIN s} = SystemName
  <2>1. PICK s \in Bijection(1..k, SystemName) : TRUE
    BY <1>1 DEF ExistsBijection
  <2>2. s \in [1..k -> SystemName] /\ \A n \in SystemName : \E i \in 1..k : s[i] = n
    BY <2>1 DEF Bijection, Injection, Surjection
  <2>3. {s[i] : i \in DOMAIN s} = SystemName
    BY <2>2
  <2> QED
    BY <2>2, <2>3
<1>3. Order \in [1..k -> SystemName] /\ {Order[i] : i \in DOMAIN Order} = SystemName
  BY <1>2 DEF Order
<1>4. Order \in Seq(SystemName)
  <2> HIDE DEF k
  <2> QED
    BY <1>1, <1>3
<1> QED
  BY <1>3, <1>4

LEMMA LegacyIs == \A name, kind, id : Legacy(name, kind, id)[1] = name[1]
  BY DEF Legacy

LEMMA PlainIs == \A n : Plain(n)[1] = n
  BY DEF Plain

LEMMA PlainIsOne == \A m, n : Plain(m) = Plain(n) => m = n
  BY PlainIs

LEMMA SchemaInitHolds == SchemaInit => SchemaIInv
<1> SUFFICES ASSUME SchemaInit PROVE SchemaIInv
  OBVIOUS
<1>1. LibraryOK(Empty)
  BY DEF Empty, LibraryOK, RowsOK
<1>2. ASSUME NEW d \in LegacyDisks PROVE LibraryOK(d)
  <2>1. /\ d = [tables |-> d.tables, columns |-> d.columns, systems |-> d.systems, refs |-> d.refs] /\ DiskOK(d)
        /\ \A s \in d.systems : s = [id |-> s.id, name |-> s.name]
        /\ "systems" \notin d.tables => d.systems = {}
        /\ "matches" \in d.tables => AllTables \ {"applied_patches"} \subseteq d.tables
    BY SchemaAssumption, Zenon
  <2> QED
    BY <2>1 DEF DiskOK, LibraryOK, RowsOK, SystemRowOK
<1> QED
  BY <1>1, <1>2, SchemaAssumption DEF SchemaInit, SchemaIInv, Grown

-----------------------------------------------------------------------------
(* The rows after an occupied slot has been freed: the moved row takes a   *)
(* free id and a free name, and nothing referenced it.                     *)
LEMMA MoveIs ==
    ASSUME NEW db, LibraryOK(db), NEW n \in SystemName, CanMove(db, n), NEW S, S = MoveOccupant(db, n).systems
    PROVE  /\ RowsOK(S) /\ \A s \in S : s.id = CanonicalId[n] => s.name = Plain(n)
           /\ \A m \in SystemName \ {n} : CanonicalRow(m) \in db.systems => CanonicalRow(m) \in S
           /\ KeepsNames(db.refs, db.systems, db.refs, S)
<1> DEFINE c == CanonicalId[n]
<1>1. MustMove(db, n) = {s \in db.systems : s.id = c /\ s.name # Plain(n)}
  BY DEF MustMove, ById, ByName
<1>2. S = (db.systems \ MustMove(db, n)) \cup
            {[id |-> s.id + Offset, name |-> Legacy(s.name, "slot", s.id)] : s \in MustMove(db, n)}
  BY DEF MoveOccupant, LibraryOK
<1>3. c \in 1..9 /\ Offset = 10 /\ RowsOK(db.systems) /\ db.refs \in [Ref -> Nat]
  BY OffsetIs DEF LibraryOK
<1>4. CASE MustMove(db, n) = {}
  <2>1. S = db.systems
    BY <1>2, <1>4
  <2> QED
    BY <1>1, <1>3, <1>4, <2>1 DEF KeepsNames
<1>5. CASE MustMove(db, n) # {}
  <2>1. PICK o \in db.systems : o.id = c /\ o.name # Plain(n)
    BY <1>1, <1>5
  <2>2. MustMove(db, n) = {o}
    BY <1>1, <1>3, <2>1 DEF RowsOK
  <2>3. /\ \A r \in Ref : db.refs[r] # c
        /\ \A s \in db.systems : s.id # c + Offset /\ s.name # Legacy(o.name, "slot", o.id)
    <3>1. ~Referenced(db, c) /\ ById(db, c + Offset) = {} /\ ByName(db, Legacy(o.name, "slot", o.id)) = {}
      BY <1>5, <2>2 DEF CanMove
    <3> QED
      BY <3>1 DEF Referenced, ById, ByName
  <2>4. PICK q : q = [id |-> c + Offset, name |-> Legacy(o.name, "slot", o.id)]
    OBVIOUS
  <2>5. S = (db.systems \ {o}) \cup {q}
    BY <1>2, <2>1, <2>2, <2>4
  <2>6. SystemRowOK(q) /\ q.id = c + Offset /\ q.name = Legacy(o.name, "slot", o.id)
    <3>1. o.name[1] \in SystemName \cup {"other"}
      BY <1>3, <2>1 DEF RowsOK, SystemRowOK
    <3>2. q.name[1] = o.name[1]
      BY <2>4, LegacyIs
    <3>3. q.id = c + Offset /\ q.name = Legacy(o.name, "slot", o.id) /\ q = [id |-> q.id, name |-> q.name]
      BY <2>4
    <3> QED
      BY <1>3, <3>1, <3>2, <3>3 DEF SystemRowOK
  <2>7. RowsOK(S)
    BY <1>3, <2>3, <2>5, <2>6 DEF RowsOK
  <2>8. \A s \in S : s.id = c => s.name = Plain(n)
    BY <1>1, <1>3, <2>2, <2>5, <2>6
  <2>9. \A m \in SystemName \ {n} : CanonicalRow(m) \in db.systems => CanonicalRow(m) \in S
    BY <2>1, <2>5, SchemaAssumption DEF CanonicalRow
  <2>10. ASSUME NEW r \in Ref, NameAt(db.systems, db.refs[r]) # {}
         PROVE  NameAt(S, db.refs[r]) = NameAt(db.systems, db.refs[r])
    <3>1. db.refs[r] # c /\ \E s \in db.systems : s.id = db.refs[r]
      BY <2>3, <2>10 DEF NameAt
    <3>2. db.refs[r] # c + Offset
      BY <2>3, <3>1
    <3>3. {s \in S : s.id = db.refs[r]} = {s \in db.systems : s.id = db.refs[r]}
      BY <2>1, <2>5, <2>6, <3>1, <3>2
    <3> QED
      BY <3>3 DEF NameAt
  <2> QED
    BY <2>7, <2>8, <2>9, <2>10 DEF KeepsNames
<1> QED
  BY <1>4, <1>5

(* A system that has its slot, or gets it.                                 *)
LEMMA InsertIs ==
    ASSUME NEW db, LibraryOK(db), NEW n \in SystemName, Misplaced(db, n) = {},
           \A s \in db.systems : s.id = CanonicalId[n] => s.name = Plain(n), NEW S, S = insertSystem(db, n).systems
    PROVE  /\ RowsOK(S) /\ CanonicalRow(n) \in S /\ insertSystem(db, n).refs = db.refs
           /\ \A m \in SystemName : CanonicalRow(m) \in db.systems => CanonicalRow(m) \in S
           /\ KeepsNames(db.refs, db.systems, db.refs, S)
<1> DEFINE c == CanonicalId[n]
<1>1. c \in 1..9 /\ RowsOK(db.systems) /\ db.refs \in [Ref -> Nat]
  BY OffsetIs DEF LibraryOK
<1>2. CASE ByName(db, Plain(n)) # {}
  <2>1. S = db.systems /\ insertSystem(db, n).refs = db.refs
    BY <1>2 DEF insertSystem
  <2>2. PICK s \in db.systems : s.name = Plain(n) /\ s.id = c
    BY <1>2 DEF Misplaced, ByName
  <2>3. CanonicalRow(n) = s
    BY <1>1, <2>2 DEF RowsOK, SystemRowOK, CanonicalRow
  <2> QED
    BY <1>1, <2>1, <2>2, <2>3 DEF KeepsNames
<1>3. CASE ByName(db, Plain(n)) = {}
  <2>1. S = db.systems \cup {CanonicalRow(n)} /\ insertSystem(db, n).refs = db.refs
    BY <1>3 DEF insertSystem, LibraryOK, CanonicalRow
  <2>2. \A s \in db.systems : s.name # Plain(n) /\ s.id # c
    BY <1>3 DEF ByName
  <2>3. PICK q : q = CanonicalRow(n)
    OBVIOUS
  <2>4. SystemRowOK(q) /\ q.id = c /\ q.name = Plain(n)
    <3>1. q.id = c /\ q.name = Plain(n) /\ q = [id |-> q.id, name |-> q.name]
      BY <2>3 DEF CanonicalRow
    <3> QED
      BY <1>1, <3>1, PlainIs DEF SystemRowOK
  <2>5. RowsOK(S)
    BY <1>1, <2>1, <2>2, <2>3, <2>4 DEF RowsOK
  <2>6. ASSUME NEW r \in Ref, NameAt(db.systems, db.refs[r]) # {}
        PROVE  NameAt(S, db.refs[r]) = NameAt(db.systems, db.refs[r])
    <3>1. db.refs[r] # c
      BY <2>2, <2>6 DEF NameAt
    <3>2. {s \in S : s.id = db.refs[r]} = {s \in db.systems : s.id = db.refs[r]}
      BY <2>1, <2>3, <2>4, <3>1
    <3> QED
      BY <3>2 DEF NameAt
  <2> QED
    BY <2>1, <2>5, <2>6 DEF KeepsNames
<1> QED
  BY <1>2, <1>3

(* A system that gets its slot in exchange for another: the references to  *)
(* the old row go with it.                                                 *)
LEMMA ReplaceIs ==
    ASSUME NEW db, LibraryOK(db), NEW n \in SystemName, Misplaced(db, n) # {}, CanRename(db, n),
           \A s \in db.systems : s.id = CanonicalId[n] => s.name = Plain(n),
           NEW S, S = Replace(db, n).systems, NEW R, R = Replace(db, n).refs
    PROVE  /\ RowsOK(S) /\ R \in [Ref -> Nat] /\ CanonicalRow(n) \in S
           /\ \A m \in SystemName : CanonicalRow(m) \in db.systems => CanonicalRow(m) \in S
           /\ KeepsNames(db.refs, db.systems, R, S)
<1> DEFINE c == CanonicalId[n]
<1>1. c \in 1..9 /\ RowsOK(db.systems) /\ db.refs \in [Ref -> Nat]
  BY OffsetIs DEF LibraryOK
<1>2. PICK o \in db.systems : o.name = Plain(n) /\ o.id # c
  BY DEF Misplaced, ByName
<1>3. Misplaced(db, n) = {o}
  BY <1>1, <1>2 DEF Misplaced, ByName, RowsOK
<1>4. \A s \in db.systems : s.id # c
  BY <1>1, <1>2 DEF RowsOK
<1>5. PICK l : l = [id |-> o.id, name |-> Legacy(o.name, "row", o.id)]
  OBVIOUS
<1>6. l.id = o.id /\ l.name = Legacy(o.name, "row", o.id)
  BY <1>5
<1>7. \A s \in db.systems : s.name # l.name
  BY <1>3, <1>6 DEF CanRename, ByName
<1>8. PICK q : q = CanonicalRow(n)
  OBVIOUS
<1>9. SystemRowOK(q) /\ q.id = c /\ q.name = Plain(n)
  <2>1. q.id = c /\ q.name = Plain(n) /\ q = [id |-> q.id, name |-> q.name]
    BY <1>8 DEF CanonicalRow
  <2> QED
    BY <1>1, <2>1, PlainIs DEF SystemRowOK
<1>10. PICK d1 : d1 = Renamed(db, n)
  OBVIOUS
<1>11. /\ d1.systems = (db.systems \ {o}) \cup {l} /\ d1.refs = db.refs
       /\ d1 = [tables |-> d1.tables, columns |-> d1.columns, systems |-> d1.systems, refs |-> d1.refs]
  BY <1>3, <1>5, <1>10 DEF Renamed, LibraryOK
<1>12. PICK d2 : d2 = insertSystem(d1, n)
  OBVIOUS
<1>13. /\ d2.systems = ((db.systems \ {o}) \cup {l}) \cup {q} /\ d2.refs = db.refs
       /\ d2 = [tables |-> d2.tables, columns |-> d2.columns, systems |-> d2.systems, refs |-> d2.refs]
  <2>1. ByName(d1, Plain(n)) = {}
    BY <1>1, <1>2, <1>7, <1>11 DEF ByName, RowsOK
  <2>2. d2 = [d1 EXCEPT !.systems = @ \cup {q}]
    BY <1>8, <1>12, <2>1 DEF insertSystem, CanonicalRow
  <2> QED
    BY <1>11, <2>2
<1>14. {s.id : s \in Misplaced(db, n)} = {o.id}
  BY <1>3
<1>15. Replace(db, n) = MoveRefs(d2, n, {o.id})
  BY <1>10, <1>12, <1>14 DEF Replace
<1>16. R = [r \in Ref |-> IF db.refs[r] = o.id THEN c ELSE db.refs[r]] /\ S = {s \in d2.systems : s.id \notin {o.id}}
  BY <1>13, <1>15 DEF MoveRefs
<1>17. S = (db.systems \ {o}) \cup {q}
  <2>1. \A s \in db.systems : s.id = o.id <=> s = o
    BY <1>1 DEF RowsOK
  <2> QED
    BY <1>2, <1>6, <1>9, <1>13, <1>16, <2>1
<1>18. RowsOK(S)
  BY <1>1, <1>2, <1>4, <1>9, <1>17 DEF RowsOK
<1>19. R \in [Ref -> Nat]
  BY <1>1, <1>16
<1>20. \A m \in SystemName : CanonicalRow(m) \in db.systems => CanonicalRow(m) \in S
  BY <1>2, <1>17, PlainIsOne DEF CanonicalRow
<1>21. ASSUME NEW r \in Ref, NameAt(db.systems, db.refs[r]) # {}
       PROVE  NameAt(S, R[r]) = NameAt(db.systems, db.refs[r])
  <2>1. db.refs[r] # c
    BY <1>4, <1>21 DEF NameAt
  <2>2. CASE db.refs[r] = o.id
    <3>1. R[r] = c
      BY <1>16, <2>2
    <3>2. {s \in S : s.id = c} = {q} /\ {s \in db.systems : s.id = o.id} = {o}
      BY <1>1, <1>2, <1>4, <1>9, <1>17 DEF RowsOK
    <3>3. o.name[1] = q.name[1]
      BY <1>2, <1>9
    <3> QED
      BY <2>2, <3>1, <3>2, <3>3 DEF NameAt
  <2>3. CASE db.refs[r] # o.id
    <3>1. R[r] = db.refs[r]
      BY <1>16, <2>3
    <3>2. {s \in S : s.id = db.refs[r]} = {s \in db.systems : s.id = db.refs[r]}
      BY <1>9, <1>17, <2>1, <2>3
    <3> QED
      BY <3>1, <3>2 DEF NameAt
  <2> QED
    BY <2>2, <2>3
<1> QED
  BY <1>8, <1>17, <1>18, <1>19, <1>20, <1>21 DEF KeepsNames

-----------------------------------------------------------------------------
LEMMA SameNames == \A R, S : KeepsNames(R, S, R, S)
  BY DEF KeepsNames

LEMMA NamesOnAndOn ==
    ASSUME NEW R1, NEW S1, NEW R2, NEW S2, NEW R3, NEW S3, KeepsNames(R1, S1, R2, S2), KeepsNames(R2, S2, R3, S3)
    PROVE  KeepsNames(R1, S1, R3, S3)
  BY DEF KeepsNames

LEMMA OpenLibraryHolds == SchemaIInv /\ Open => SchemaIInv'
<1> SUFFICES ASSUME SchemaIInv, Open PROVE SchemaIInv'
  OBVIOUS
<1>1. work' = disk /\ disk' = disk /\ initial' = initial /\ opens' \in 0..MaxOpens /\ LibraryOK(disk)
  BY SchemaAssumption DEF Open, SchemaIInv
<1>2. CASE "systems" \in disk.tables
  BY <1>1, <1>2 DEF Open, SchemaIInv
<1>3. CASE "systems" \notin disk.tables
  <2>1. step' = "create" /\ todo' = TableOrder /\ disk.systems = {}
    BY <1>1, <1>3 DEF Open, LibraryOK
  <2>2. TableOrder \in Seq(AllTables)
    BY TableOrderIs DEF TableOrder
  <2>3. CreatedTo(1)'
    BY <2>1, <2>2, TableOrderIs DEF CreatedTo
  <2> QED
    BY <1>1, <2>1, <2>3 DEF SchemaIInv
<1> QED
  BY <1>2, <1>3

LEMMA CreateTableHolds == SchemaIInv /\ CreateTable => SchemaIInv'
<1> SUFFICES ASSUME SchemaIInv, CreateTable PROVE SchemaIInv'
  OBVIOUS
<1>1. PICK k \in 1..9 : CreatedTo(k)
  BY DEF SchemaIInv, CreateTable
<1>14. todo # <<>>
  BY DEF CreateTable
<1>2. /\ k \in 1..8 /\ Head(todo) = TableOrder[k] /\ Len(Tail(todo)) = 9 - (k + 1) /\ Tail(todo) \in Seq(AllTables)
      /\ \A i \in 1..(9 - (k + 1)) : Tail(todo)[i] = TableOrder[i + (k + 1) - 1]
  BY <1>1, <1>14 DEF CreatedTo
<1>3. PICK altered \in SUBSET {"files.status", "files.catalog"} :
        work' = [work EXCEPT !.tables = @ \cup {Head(todo)},
                             !.columns = IF Head(todo) = "files" THEN @ \cup AddedBySchema(work, altered) ELSE @]
  BY DEF CreateTable
<1>12. PICK C : C = (IF Head(todo) = "files" THEN work.columns \cup AddedBySchema(work, altered) ELSE work.columns)
  OBVIOUS
<1>4. /\ LibraryOK(work) /\ work.systems = {} /\ step' = "create" /\ todo' = Tail(todo) /\ opens' = opens /\ disk' = work'
      /\ initial' = initial /\ LibraryOK(initial) /\ Grown(initial, work)
  BY DEF SchemaIInv, CreateTable
<1>5. work' = [work EXCEPT !.tables = @ \cup {Head(todo)}, !.columns = C]
  BY <1>3, <1>12
<1>6. /\ work'.tables = work.tables \cup {TableOrder[k]} /\ work'.columns = C /\ work'.systems = {} /\ work'.refs = work.refs
      /\ work' = [tables |-> work'.tables, columns |-> work'.columns, systems |-> work'.systems, refs |-> work'.refs]
  BY <1>2, <1>4, <1>5 DEF LibraryOK
<1>7. \A i \in 1..((k + 1) - 1) : TableOrder[i] \in work'.tables
  BY <1>1, <1>2, <1>6 DEF CreatedTo
<1>8. work'.tables \subseteq AllTables /\ work'.columns \subseteq AllColumns
  BY <1>2, <1>12, <1>4, <1>6, TableOrderIs DEF LibraryOK, AllColumns, AddedBySchema
<1>13. Grown(initial, work')
  <2>1. work.columns \subseteq C
    BY <1>12
  <2>2. CASE "files" \in work.tables
    BY <1>4, <1>6, <2>1, <2>2 DEF Grown
  <2>3. CASE "files" \notin work.tables /\ Head(todo) = "files"
    <3>1. "files.catalog" \in C
      BY <1>12, <2>3 DEF AddedBySchema
    <3> QED
      BY <1>4, <1>6, <2>1, <3>1 DEF Grown
  <2>4. CASE "files" \notin work.tables /\ Head(todo) # "files"
    BY <1>2, <1>4, <1>6, <2>1, <2>4 DEF Grown
  <2> QED
    BY <2>2, <2>3, <2>4
<1>9. "matches" \in work'.tables => AllTables \ {"applied_patches"} \subseteq work'.tables
  <2>1. CASE "matches" \in work.tables
    BY <1>4, <1>6, <2>1 DEF LibraryOK
  <2>2. CASE TableOrder[k] = "matches"
    <3>1. k = 8
      BY <1>2, <2>2, TableOrderIs
    <3> QED
      BY <1>7, <3>1, TableOrderIs
  <2> QED
    BY <1>6, <2>1, <2>2
<1>10. LibraryOK(work')
  BY <1>4, <1>6, <1>8, <1>9 DEF LibraryOK
<1>11. CreatedTo(k + 1)' /\ k + 1 \in 1..9
  <2>1. todo' = Tail(todo)
    BY <1>4
  <2> QED
    BY <1>2, <1>7, <2>1 DEF CreatedTo
<1> QED
  BY <1>4, <1>6, <1>10, <1>11, <1>13 DEF SchemaIInv

LEMMA PopulateHolds == SchemaIInv /\ populateDefaultSystems => SchemaIInv'
<1> SUFFICES ASSUME SchemaIInv, populateDefaultSystems PROVE SchemaIInv'
  OBVIOUS
<1>1. PICK S \in SUBSET SystemName :
        /\ work' = [work EXCEPT !.systems = @ \cup {[id |-> CanonicalId[n], name |-> Plain(n)] : n \in S}]
        /\ step' = IF S = {} THEN "closed" ELSE "begin"
  BY DEF populateDefaultSystems
<1>2. PICK k \in 1..9 : CreatedTo(k)
  BY DEF SchemaIInv, populateDefaultSystems
<1>3. /\ LibraryOK(work) /\ work.systems = {} /\ todo = <<>> /\ opens' = opens /\ disk' = work'
      /\ initial' = initial /\ LibraryOK(initial) /\ Grown(initial, work)
  BY DEF SchemaIInv, populateDefaultSystems
<1>4. k = 9
  BY <1>2, <1>3 DEF CreatedTo
<1>5. "systems" \in work.tables
  BY <1>2, <1>4, TableOrderIs DEF CreatedTo
<1>6. PICK N : N = {CanonicalRow(n) : n \in S}
  OBVIOUS
<1>7. /\ work'.tables = work.tables /\ work'.columns = work.columns /\ work'.systems = N /\ work'.refs = work.refs
      /\ work' = [tables |-> work'.tables, columns |-> work'.columns, systems |-> work'.systems, refs |-> work'.refs]
  BY <1>1, <1>3, <1>6 DEF LibraryOK, CanonicalRow
<1>8. RowsOK(N)
  <2>1. \A n \in SystemName : CanonicalRow(n).id = CanonicalId[n] /\ CanonicalRow(n).name = Plain(n)
    BY DEF CanonicalRow
  <2>2. \A n \in SystemName : SystemRowOK(CanonicalRow(n))
    BY OffsetIs, PlainIs DEF CanonicalRow, SystemRowOK
  <2>3. \A m, n \in SystemName : CanonicalId[m] = CanonicalId[n] \/ Plain(m) = Plain(n) => m = n
    BY SchemaAssumption, PlainIsOne
  <2> QED
    BY <1>6, <2>1, <2>2, <2>3 DEF RowsOK
<1>9. LibraryOK(work')
  BY <1>3, <1>5, <1>7, <1>8 DEF LibraryOK
<1> QED
  BY <1>1, <1>3, <1>5, <1>7, <1>9 DEF SchemaIInv, Grown

LEMMA MigrateFilesHolds == SchemaIInv /\ migrateFiles => SchemaIInv'
<1> SUFFICES ASSUME SchemaIInv, migrateFiles PROVE SchemaIInv'
  OBVIOUS
<1>1. /\ LibraryOK(work) /\ LibraryOK(disk) /\ work = disk /\ "systems" \in work.tables
      /\ step' = "systems" /\ todo' = Order /\ disk' = disk /\ opens' = opens
      /\ initial' = initial /\ LibraryOK(initial) /\ Grown(initial, work) /\ "files" \in work.tables
  BY DEF SchemaIInv, migrateFiles, CanAdd
<1>2. PICK C : C = work.columns \cup {c \in Migrated : TableOf(c) = "files"}
  OBVIOUS
<1>3. work' = [[work EXCEPT !.columns = C] EXCEPT !.tables = @ \cup {"applied_patches"}]
  BY <1>2 DEF migrateFiles, AddColumns
<1>4. /\ work'.tables = work.tables \cup {"applied_patches"} /\ work'.columns = C /\ work'.systems = work.systems /\ work'.refs = work.refs
      /\ work' = [tables |-> work'.tables, columns |-> work'.columns, systems |-> work'.systems, refs |-> work'.refs]
  BY <1>1, <1>3 DEF LibraryOK
<1>5. C \subseteq AllColumns /\ {"files.status", "files.disc"} \subseteq C
  BY <1>1, <1>2 DEF LibraryOK, Migrated, AllColumns, TableOf
<1>8. Grown(initial, work')
  BY <1>1, <1>2, <1>4 DEF Grown
<1>6. LibraryOK(work')
  BY <1>1, <1>4, <1>5, TableOrderIs DEF LibraryOK
<1>7. KeepsNames(disk.refs, disk.systems, work'.refs, work'.systems)
  BY <1>1, <1>4, SameNames
<1> QED
  BY <1>1, <1>4, <1>5, <1>6, <1>7, <1>8, OrderIs DEF SchemaIInv

LEMMA MigrateSystemHolds == SchemaIInv /\ migrateCanonicalSystems => SchemaIInv'
<1> SUFFICES ASSUME SchemaIInv, migrateCanonicalSystems PROVE SchemaIInv'
  OBVIOUS
<1> DEFINE n == Head(todo)
<1>1. /\ LibraryOK(work) /\ LibraryOK(disk) /\ step = "systems" /\ step' = "systems" /\ todo # <<>> /\ todo' = Tail(todo)
      /\ todo \in Seq(SystemName) /\ opens' = opens /\ opens \in 0..MaxOpens /\ disk' = disk
      /\ initial' = initial /\ LibraryOK(initial) /\ Grown(initial, disk) /\ Grown(initial, work)
      /\ {"systems", "applied_patches"} \subseteq work.tables /\ {"files.status", "files.disc"} \subseteq work.columns
      /\ \A m \in SystemName : CanonicalRow(m) \in work.systems \/ \E i \in DOMAIN todo : todo[i] = m
      /\ KeepsNames(disk.refs, disk.systems, work.refs, work.systems) /\ CanMove(work, n)
  BY DEF SchemaIInv, migrateCanonicalSystems
<1>2. n \in SystemName /\ Tail(todo) \in Seq(SystemName)
      /\ \A m \in SystemName \ {n} : (\E i \in DOMAIN todo : todo[i] = m) => \E i \in DOMAIN Tail(todo) : Tail(todo)[i] = m
  <2>1. n \in SystemName /\ Tail(todo) \in Seq(SystemName) /\ n = todo[1]
    BY <1>1
  <2>2. ASSUME NEW m \in SystemName \ {n}, NEW i \in DOMAIN todo, todo[i] = m
        PROVE  \E j \in DOMAIN Tail(todo) : Tail(todo)[j] = m
    <3>1. i \in 2..Len(todo)
      BY <1>1, <2>1, <2>2
    <3>2. i - 1 \in DOMAIN Tail(todo) /\ Tail(todo)[i - 1] = todo[i]
      BY <1>1, <3>1
    <3> QED
      BY <2>2, <3>2
  <2> QED
    BY <2>1, <2>2
<1>3. PICK moved : moved = MoveOccupant(work, n)
  OBVIOUS
<1> HIDE DEF n
<1>4. /\ RowsOK(moved.systems) /\ \A s \in moved.systems : s.id = CanonicalId[n] => s.name = Plain(n)
      /\ \A m \in SystemName \ {n} : CanonicalRow(m) \in work.systems => CanonicalRow(m) \in moved.systems
      /\ KeepsNames(work.refs, work.systems, work.refs, moved.systems)
  BY <1>1, <1>2, <1>3, MoveIs
<1>5. /\ moved.tables = work.tables /\ moved.columns = work.columns /\ moved.refs = work.refs
      /\ moved = [tables |-> moved.tables, columns |-> moved.columns, systems |-> moved.systems, refs |-> moved.refs]
  BY <1>1, <1>3 DEF MoveOccupant, LibraryOK
<1>6. LibraryOK(moved)
  BY <1>1, <1>4, <1>5 DEF LibraryOK
<1>7. ASSUME NEW S, NEW R, S = work'.systems, R = work'.refs, work'.tables = work.tables, work'.columns = work.columns,
             work' = [tables |-> work'.tables, columns |-> work'.columns, systems |-> work'.systems, refs |-> work'.refs],
             RowsOK(S), R \in [Ref -> Nat], CanonicalRow(n) \in S,
             \A m \in SystemName : CanonicalRow(m) \in moved.systems => CanonicalRow(m) \in S,
             KeepsNames(moved.refs, moved.systems, R, S)
      PROVE  SchemaIInv'
  <2>1. LibraryOK(work')
    BY <1>1, <1>7 DEF LibraryOK
  <2>2. \A m \in SystemName : CanonicalRow(m) \in work'.systems \/ \E i \in DOMAIN Tail(todo) : Tail(todo)[i] = m
    BY <1>1, <1>2, <1>4, <1>7
  <2>3. KeepsNames(disk.refs, disk.systems, work'.refs, work'.systems)
    <3>1. KeepsNames(disk.refs, disk.systems, moved.refs, moved.systems)
      BY <1>1, <1>4, <1>5, NamesOnAndOn
    <3> QED
      BY <1>7, <3>1, NamesOnAndOn
  <2>4. {"systems", "applied_patches"} \subseteq work'.tables /\ {"files.status", "files.disc"} \subseteq work'.columns
    BY <1>1, <1>7
  <2>5. Grown(initial, work')
    BY <1>1, <1>7 DEF Grown
  <2> QED
    BY <1>1, <1>2, <2>1, <2>2, <2>3, <2>4, <2>5 DEF SchemaIInv
<1>8. CanRename(moved, n) /\ work' = IF Misplaced(moved, n) # {} THEN Replace(moved, n) ELSE insertSystem(moved, n)
  BY <1>3 DEF migrateCanonicalSystems, n
<1>9. CASE Misplaced(moved, n) # {}
  <2>1. PICK S, R : S = Replace(moved, n).systems /\ R = Replace(moved, n).refs
    OBVIOUS
  <2>2. RowsOK(S) /\ R \in [Ref -> Nat] /\ CanonicalRow(n) \in S
        /\ (\A m \in SystemName : CanonicalRow(m) \in moved.systems => CanonicalRow(m) \in S)
        /\ KeepsNames(moved.refs, moved.systems, R, S)
    BY <1>2, <1>4, <1>6, <1>8, <1>9, <2>1, ReplaceIs
  <2>3. work' = Replace(moved, n)
    BY <1>8, <1>9
  <2>4. /\ work'.tables = moved.tables /\ work'.columns = moved.columns
        /\ work' = [tables |-> work'.tables, columns |-> work'.columns, systems |-> work'.systems, refs |-> work'.refs]
    <3>1. PICK d : d = insertSystem(Renamed(moved, n), n)
      OBVIOUS
    <3>2. /\ d.tables = moved.tables /\ d.columns = moved.columns
          /\ d = [tables |-> d.tables, columns |-> d.columns, systems |-> d.systems, refs |-> d.refs]
      BY <1>5, <3>1 DEF insertSystem, Renamed
    <3>3. work' = MoveRefs(d, n, {s.id : s \in Misplaced(moved, n)})
      BY <2>3, <3>1 DEF Replace
    <3> QED
      BY <3>2, <3>3 DEF MoveRefs
  <2>5. S = work'.systems /\ R = work'.refs
    BY <2>1, <2>3
  <2> QED
    BY <1>5, <1>7, <2>2, <2>4, <2>5
<1>10. CASE Misplaced(moved, n) = {}
  <2>1. PICK S : S = insertSystem(moved, n).systems
    OBVIOUS
  <2>2. RowsOK(S) /\ CanonicalRow(n) \in S /\ insertSystem(moved, n).refs = moved.refs
        /\ (\A m \in SystemName : CanonicalRow(m) \in moved.systems => CanonicalRow(m) \in S)
        /\ KeepsNames(moved.refs, moved.systems, moved.refs, S)
    BY <1>2, <1>4, <1>6, <1>10, <2>1, InsertIs
  <2>3. work' = insertSystem(moved, n)
    BY <1>8, <1>10
  <2>4. /\ work'.tables = moved.tables /\ work'.columns = moved.columns
        /\ work' = [tables |-> work'.tables, columns |-> work'.columns, systems |-> work'.systems, refs |-> work'.refs]
    BY <1>5, <2>3 DEF insertSystem
  <2>5. S = work'.systems /\ work'.refs = moved.refs /\ moved.refs \in [Ref -> Nat]
    BY <1>6, <2>1, <2>2, <2>3 DEF LibraryOK
  <2> QED
    BY <1>5, <1>7, <2>2, <2>4, <2>5
<1> QED
  BY <1>9, <1>10

LEMMA CommitHolds == SchemaIInv /\ CommitMigrations => SchemaIInv' /\ KeepsNames(disk.refs, disk.systems, disk'.refs, disk'.systems)
<1> SUFFICES ASSUME SchemaIInv, CommitMigrations
             PROVE  SchemaIInv' /\ KeepsNames(disk.refs, disk.systems, disk'.refs, disk'.systems)
  OBVIOUS
<1>1. /\ LibraryOK(work) /\ step' = "open" /\ todo = <<>> /\ opens' = opens /\ disk' = work' /\ "matches" \in work.tables
      /\ opens \in 0..MaxOpens /\ {"systems", "applied_patches"} \subseteq work.tables /\ {"files.status", "files.disc"} \subseteq work.columns
      /\ initial' = initial /\ LibraryOK(initial) /\ Grown(initial, work)
      /\ \A m \in SystemName : CanonicalRow(m) \in work.systems
      /\ KeepsNames(disk.refs, disk.systems, work.refs, work.systems)
  BY DEF SchemaIInv, CommitMigrations, CanAdd
<1>2. PICK C : C = work.columns \cup {c \in Migrated : TableOf(c) = "matches"}
  OBVIOUS
<1>3. PICK R : R = [r \in Ref |-> IF r \in FileRef /\ Lost(work, r) /\ Detected[r] # "none"
                                  THEN CanonicalId[Detected[r]] ELSE work.refs[r]]
  OBVIOUS
<1>4. work' = [[work EXCEPT !.refs = R] EXCEPT !.columns = C]
  BY <1>2, <1>3 DEF CommitMigrations, AddColumns, Repair
<1>5. /\ work'.tables = work.tables /\ work'.columns = C /\ work'.systems = work.systems /\ work'.refs = R
      /\ work' = [tables |-> work'.tables, columns |-> work'.columns, systems |-> work'.systems, refs |-> work'.refs]
  BY <1>1, <1>4 DEF LibraryOK
<1>6. \A r \in FileRef : r \in Ref /\ (Detected[r] # "none" => Detected[r] \in SystemName /\ CanonicalId[Detected[r]] \in 1..9)
  BY SchemaAssumption, OffsetIs
<1>7. R \in [Ref -> Nat]
  <2>1. work.refs \in [Ref -> Nat]
    BY <1>1 DEF LibraryOK
  <2> QED
    BY <1>3, <1>6, <2>1
<1>8. Migrated \cup work.columns \subseteq C /\ C \subseteq AllColumns
  BY <1>1, <1>2 DEF LibraryOK, Migrated, AllColumns, TableOf
<1>9. LibraryOK(work')
  BY <1>1, <1>5, <1>7, <1>8 DEF LibraryOK
<1>10. ASSUME NEW r \in FileRef, Detected[r] # "none" PROVE ~Lost(work', r)
  <2>1. CASE Lost(work, r)
    <3>1. R[r] = CanonicalId[Detected[r]] /\ R[r] # 0
      BY <1>3, <1>6, <1>10, <2>1
    <3>2. CanonicalRow(Detected[r]) \in work.systems /\ CanonicalRow(Detected[r]).id = R[r]
      BY <1>1, <1>6, <1>10, <3>1 DEF CanonicalRow
    <3> QED
      BY <1>5, <3>1, <3>2 DEF Lost, ById
  <2>2. CASE ~Lost(work, r)
    <3>1. R[r] = work.refs[r]
      BY <1>3, <1>6, <2>2
    <3> QED
      BY <1>5, <2>2, <3>1 DEF Lost, ById
  <2> QED
    BY <2>1, <2>2
<1>11. work'.tables = AllTables
  BY <1>1, <1>5 DEF LibraryOK
<1>15. Grown(initial, work')
  BY <1>1, <1>5, <1>8 DEF Grown
<1>12. Whole(initial, work')
  <2>1. "files" \notin initial.tables => AllColumns \subseteq C
    BY <1>5, <1>8, <1>11, <1>15, TableOrderIs DEF Grown, Migrated
  <2>2. initial.columns \subseteq C
    BY <1>5, <1>15 DEF Grown
  <2> QED
    BY <1>1, <1>5, <1>8, <1>10, <1>11, <2>1, <2>2 DEF Whole
<1>13. KeepsNames(work.refs, work.systems, R, work.systems)
  <2>1. ASSUME NEW r \in Ref, NameAt(work.systems, work.refs[r]) # {} PROVE R[r] = work.refs[r]
    <3>1. \E s \in work.systems : s.id = work.refs[r]
      BY <2>1 DEF NameAt
    <3>2. work.refs[r] # 0
      BY <1>1, <3>1 DEF LibraryOK, RowsOK, SystemRowOK
    <3>3. ~Lost(work, r)
      BY <3>1, <3>2 DEF Lost, ById
    <3> QED
      BY <1>3, <3>3
  <2> QED
    BY <2>1 DEF KeepsNames
<1>14. KeepsNames(disk.refs, disk.systems, disk'.refs, disk'.systems)
  BY <1>1, <1>5, <1>13, NamesOnAndOn
<1> QED
  BY <1>1, <1>9, <1>12, <1>14, <1>15 DEF SchemaIInv

LEMMA AbandonOpenHolds == SchemaIInv /\ AbandonOpen => SchemaIInv'
  BY DEF SchemaIInv, AbandonOpen

LEMMA SchemaStepHolds == SchemaIInv /\ [SchemaNext]_schemaVars => SchemaIInv'
<1> SUFFICES ASSUME SchemaIInv, [SchemaNext]_schemaVars PROVE SchemaIInv'
  OBVIOUS
<1>1. CASE SchemaNext
  BY <1>1, OpenLibraryHolds, CreateTableHolds, PopulateHolds, MigrateFilesHolds, MigrateSystemHolds, CommitHolds, AbandonOpenHolds DEF SchemaNext
<1>2. CASE UNCHANGED schemaVars
  BY <1>2 DEF schemaVars, SchemaIInv, CreatedTo
<1> QED
  BY <1>1, <1>2

LEMMA SchemaInvariance == SchemaSpec => []SchemaIInv
  BY SchemaInitHolds, SchemaStepHolds, PTL DEF SchemaSpec

(* Types and keys of a library through any migrations: one row for each id *)
(* and each name, for any systems, rows, earlier libraries and deaths.     *)
THEOREM SchemaTypeCorrect == SchemaSpec => []SchemaTypeOK
<1>1. SchemaIInv => SchemaTypeOK
  BY DEF SchemaIInv, SchemaTypeOK, LibraryOK, DiskOK, RowsOK, SystemRowOK
<1> QED
  BY <1>1, SchemaInvariance, PTL

(* Whatever tables, columns, slots and references earlier versions and     *)
(* interrupted calls left, a library that initialize opened has every      *)
(* table and system, and every column but, in a table of files that an     *)
(* earlier version made, those that no migration adds.                     *)
THEOREM OpeningCompletes == SchemaSpec => []OpenedIsWhole
<1>1. SchemaIInv => OpenedIsWhole
  BY DEF SchemaIInv, OpenedIsWhole, Whole, CanonicalRow
<1> QED
  BY <1>1, SchemaInvariance, PTL

(* No step on disk changes the system that a row of files or games names:  *)
(* neither the moves and renames of a migration nor the repair at its end. *)
THEOREM RenumberingKeepsSystems == SchemaSpec => SystemsKept
<1> DEFINE Keeps == \A r \in Ref : NameOf(disk, r) # {} => NameOf(disk', r) = NameOf(disk, r)
<1>1. ASSUME SchemaIInv, [SchemaNext]_schemaVars PROVE Keeps
  <2>1. ASSUME KeepsNames(disk.refs, disk.systems, disk'.refs, disk'.systems) PROVE Keeps
    BY <2>1 DEF KeepsNames, NameAt, NameOf, ById
  <2>2. CASE disk' = disk
    BY <2>2
  <2>3. CASE CreateTable
    <3>1. disk'.systems = disk.systems /\ disk'.refs = disk.refs
      BY <1>1, <2>3 DEF CreateTable, SchemaIInv, LibraryOK
    <3> QED
      BY <2>1, <3>1, SameNames
  <2>4. CASE populateDefaultSystems
    <3>1. disk.systems = {}
      BY <1>1, <2>4 DEF populateDefaultSystems, SchemaIInv
    <3> QED
      BY <3>1 DEF NameOf, ById
  <2>5. CASE CommitMigrations
    BY <1>1, <2>1, <2>5, CommitHolds
  <2>6. CreateTable \/ populateDefaultSystems \/ CommitMigrations \/ disk' = disk
    BY <1>1 DEF SchemaNext, schemaVars, Open, migrateFiles, migrateCanonicalSystems, AbandonOpen
  <2> QED
    BY <2>2, <2>3, <2>4, <2>5, <2>6
<1>2. SchemaIInv /\ [SchemaNext]_schemaVars => [Keeps]_schemaVars
  BY <1>1
<1> QED
  BY <1>2, SchemaInvariance, PTL DEF SchemaSpec, SystemsKept
=============================================================================
