-------------------------- MODULE RomBundlerProofs --------------------------
(***************************************************************************)
(* Theorems about RomBundler: its types; that bundling leaves every file   *)
(* of the library as it was, and no temporary zip but after a crash, for   *)
(* any number of processes, rows, commands, failures and crashes; and, for *)
(* one process, that the path of a bundled row leads to a whole file, and  *)
(* that a row is marked when its bundle is in place.                       *)
(***************************************************************************)
EXTENDS RomBundler, TLAPS

(* Writing here spoils no file of the library but one a converter is to    *)
(* write over.                                                             *)
Harmless(x) == x[1] # "lib" \/ x \in ToolOutputs

(* Where a row can be: where it was scanned, or in a folder of a title.    *)
Known(r, x) == x = Source[r] \/ x[1] \in Title

(* What a process that works on a row may rely on.                         *)
JobOK(p) ==
    /\ \A r \in Rom : Known(r, job[p].source[r])
    /\ pc[p] \notin {"idle", "next"} =>
         /\ job[p].rom \in Rom
         /\ job[p].ext \in Ext
         /\ \/ job[p].ext = SourceAt(p)[3]
            \/ SourceAt(p)[3] = "raw" /\ job[p].ext = Planned[job[p].rom]
         /\ job[p].payload \in Path
         /\ job[p].payload = SourceAt(p) \/ Harmless(job[p].payload)
    /\ pc[p] = "tool" => job[p].ext # SourceAt(p)[3]
    /\ pc[p] = "compress" => job[p].staged # NoFile

RowsKnown == \A r \in Rom : Known(r, rows[r].path)

IInv ==
    /\ TypeOK
    /\ RowsKnown
    /\ \A p \in Proc : JobOK(p)
    /\ SourceSurvives
-----------------------------------------------------------------------------
(* Paths                                                                   *)

LEMMA SourceParts ==
    ASSUME NEW r \in Rom
    PROVE  /\ Source[r] \in Path
           /\ Source[r][1] = "lib"
           /\ Source[r][3] \in {"raw", "chd"}
<1>1. PICK ext \in {"raw", "chd"} : Source[r] = <<"lib", Source[r][2], ext>>
  BY SourceAssumption
<1>2. Source[r][2] \in {Source[q][2] : q \in Rom} \cup Title
  OBVIOUS
<1> QED
  BY <1>1, <1>2 DEF Path, Dir, Ext

LEMMA PathParts ==
    ASSUME NEW x \in Path
    PROVE  /\ x[1] \in Dir /\ x[3] \in Ext
           /\ \A ext \in Ext : \A d \in Dir : <<d, x[2], ext>> \in Path
           /\ x = <<x[1], x[2], x[3]>>
BY DEF Path

LEMMA TitlePaths ==
    ASSUME NEW r \in Rom
    PROVE  /\ TitleOf[r] \in Title /\ TitleOf[r] \in Dir /\ TitleOf[r] # "lib"
           /\ ZipPath(r) \in Path /\ TempZip(r) \in Path
           /\ Harmless(ZipPath(r)) /\ Harmless(TempZip(r))
<1>1. TitleOf[r] \in Title /\ TitleOf[r] # "lib"
  BY KindAssumption
<1> QED
  BY <1>1 DEF ZipPath, TempZip, Harmless, Path, Dir, Ext

(* What is in a folder of a title is no file of the library.               *)
LEMMA InTitleHarmless ==
    ASSUME NEW x, x[1] \in Title
    PROVE  Harmless(x)
BY KindAssumption DEF Harmless

-----------------------------------------------------------------------------
(* What one step changes                                                   *)

LEMMA OnlyHarmless ==
    ASSUME SourceSurvives,
           \A x \in Path : disk'[x] = disk[x] \/ Harmless(x)
    PROVE  SourceSurvives'
<1>1. SUFFICES ASSUME NEW r \in Rom, Source[r] \notin ToolOutputs
               PROVE  disk'[Source[r]] = Holding(r, Source[r][3], TRUE)
  BY DEF SourceSurvives, ToolOutputs, Holding
<1>2. Source[r] \in Path /\ ~Harmless(Source[r])
  BY <1>1, SourceParts DEF Harmless
<1> QED
  BY <1>1, <1>2 DEF SourceSurvives

LEMMA WriteOne ==
    ASSUME IInv, NEW x \in Path, Harmless(x), NEW c \in Content \cup {NoFile},
           disk' = [disk EXCEPT ![x] = c]
    PROVE  SourceSurvives' /\ disk' \in [Path -> Content \cup {NoFile}]
<1>1. disk \in [Path -> Content \cup {NoFile}] /\ SourceSurvives
  BY DEF IInv, TypeOK
<1>2. \A y \in Path : disk'[y] = disk[y] \/ Harmless(y)
  BY <1>1
<1> QED
  BY <1>1, <1>2, OnlyHarmless

LEMMA OneJob ==
    ASSUME IInv, NEW p \in Proc, JobOK(p)',
           \A q \in Proc \ {p} : job'[q] = job[q] /\ pc'[q] = pc[q]
    PROVE  \A q \in Proc : JobOK(q)'
<1>1. SUFFICES ASSUME NEW q \in Proc \ {p} PROVE JobOK(q)'
  OBVIOUS
<1>2. JobOK(q) /\ job'[q] = job[q] /\ pc'[q] = pc[q]
  BY DEF IInv
<1> QED
  BY <1>2 DEF JobOK, Known, Harmless, ToolOutputs, SourceAt

(* What a process at work on a row has in hand.                            *)
LEMMA AtWork ==
    ASSUME IInv, NEW p \in Proc, pc[p] \in Steps \ {"next"}
    PROVE  /\ job[p] \in Job
           /\ job[p].rom \in Rom /\ job[p].ext \in Ext /\ job[p].payload \in Path
           /\ SourceAt(p) \in Path /\ Known(job[p].rom, SourceAt(p))
           /\ FolderRom(p) \in Path /\ Harmless(FolderRom(p)) /\ Known(job[p].rom, FolderRom(p))
           /\ ToolOutput(p) \in Path
<1>1. job[p] \in Job /\ JobOK(p) /\ pc[p] \notin {"idle", "next"}
  BY DEF IInv, TypeOK, Steps
<1>2. job[p].rom \in Rom /\ job[p].ext \in Ext /\ job[p].payload \in Path
  BY <1>1 DEF JobOK
<1>3. SourceAt(p) \in Path /\ Known(job[p].rom, SourceAt(p))
  BY <1>1, <1>2 DEF JobOK, Job, SourceAt
<1>4. TitleOf[job[p].rom] \in Title /\ TitleOf[job[p].rom] \in Dir
  BY <1>2, TitlePaths
<1>5. FolderRom(p) \in Path /\ FolderRom(p)[1] \in Title
  BY <1>2, <1>3, <1>4, PathParts DEF FolderRom
<1>6. ToolOutput(p) \in Path
  BY <1>2, <1>3, PathParts DEF ToolOutput
<1> QED
  BY <1>1, <1>2, <1>3, <1>5, <1>6, InTitleHarmless DEF Known

LEMMA ToolHarmless ==
    ASSUME IInv, NEW p \in Proc, pc[p] \in Steps \ {"next"}, job[p].ext # SourceAt(p)[3]
    PROVE  Harmless(ToolOutput(p))
<1>1. /\ job[p].rom \in Rom /\ Known(job[p].rom, SourceAt(p))
      /\ SourceAt(p)[3] = "raw" /\ job[p].ext = Planned[job[p].rom]
  BY AtWork DEF IInv, JobOK, Steps
<1>2. ToolOutput(p)[1] = SourceAt(p)[1]
  BY DEF ToolOutput
<1>3. CASE SourceAt(p)[1] \in Title
  BY <1>2, <1>3, InTitleHarmless
<1>4. CASE SourceAt(p) = Source[job[p].rom]
  <2>1. ToolOutput(p) = <<"lib", Source[job[p].rom][2], Planned[job[p].rom]>>
    BY <1>1, <1>4, SourceParts DEF ToolOutput
  <2>2. Planned[job[p].rom] # "raw"
    BY <1>1
  <2> QED
    BY <1>1, <2>1, <2>2 DEF Harmless, ToolOutputs
<1> QED
  BY <1>1, <1>3, <1>4 DEF Known

LEMMA Assemble ==
    ASSUME IInv, NEW p \in Proc, TypeOK', RowsKnown', SourceSurvives', JobOK(p)',
           \A q \in Proc \ {p} : job'[q] = job[q] /\ pc'[q] = pc[q]
    PROVE  IInv'
BY OneJob DEF IInv

LEMMA Kept ==
    ASSUME IInv
    PROVE  /\ UNCHANGED rows => RowsKnown'
           /\ UNCHANGED disk => SourceSurvives'
BY DEF IInv, RowsKnown, Known, SourceSurvives, ToolOutputs, Holding

LEMMA Counted ==
    ASSUME IInv,
           \/ UNCHANGED counts
           \/ \E done \in BOOLEAN : Attempt(done)
           \/ stuck' \subseteq Path /\ \E done \in BOOLEAN : Outcome(done)
    PROVE  /\ runs' \in 0 .. MaxRuns /\ faults' \in 0 .. MaxFaults /\ crashes' \in 0 .. MaxCrashes
           /\ stuck' \subseteq Path
BY BoundsAssumption DEF IInv, TypeOK, counts, Attempt, Outcome

(* A process that goes on with the row it has, or is done with it.         *)
LEMMA OldJob ==
    ASSUME IInv, NEW p \in Proc, UNCHANGED job, NEW step \in Steps, Goto(p, step),
           step = "next" \/ pc[p] \in Steps \ {"next"},
           step = "tool" => job[p].ext # SourceAt(p)[3],
           step = "compress" => job[p].staged # NoFile
    PROVE  /\ JobOK(p)'
           /\ pc' \in [Proc -> Steps \cup {"idle"}]
           /\ \A q \in Proc \ {p} : job'[q] = job[q] /\ pc'[q] = pc[q]
<1>1. /\ pc' \in [Proc -> Steps \cup {"idle"}]
      /\ pc'[p] = step
      /\ \A q \in Proc \ {p} : job'[q] = job[q] /\ pc'[q] = pc[q]
  BY DEF IInv, TypeOK, Goto
<1>2. JobOK(p)
  BY DEF IInv
<1> QED
  BY <1>1, <1>2 DEF JobOK, Known, Harmless, ToolOutputs, SourceAt, Steps

(* A process that changes its own step alone.                              *)
LEMMA OnlyStep ==
    ASSUME IInv, NEW p \in Proc, UNCHANGED <<disk, rows, job, todo>>,
           \/ UNCHANGED counts \/ \E done \in BOOLEAN : Attempt(done),
           NEW step \in Steps, Goto(p, step),
           step = "next" \/ pc[p] \in Steps \ {"next"},
           step = "tool" => job[p].ext # SourceAt(p)[3],
           step = "compress" => job[p].staged # NoFile
    PROVE  IInv'
<1>1. /\ JobOK(p)'
      /\ pc' \in [Proc -> Steps \cup {"idle"}]
      /\ \A q \in Proc \ {p} : job'[q] = job[q] /\ pc'[q] = pc[q]
  BY OldJob
<1>2. TypeOK'
  BY <1>1, Counted DEF IInv, TypeOK
<1> QED
  BY <1>1, <1>2, Kept, Assemble

(* A process that writes one harmless path and goes on.                    *)
LEMMA OneWrite ==
    ASSUME IInv, NEW p \in Proc, UNCHANGED <<rows, job, todo>>,
           \/ UNCHANGED counts \/ \E done \in BOOLEAN : Attempt(done),
           NEW x \in Path, Harmless(x), NEW c \in Content \cup {NoFile},
           disk' = [disk EXCEPT ![x] = c],
           NEW step \in Steps, Goto(p, step),
           step = "next" \/ pc[p] \in Steps \ {"next"},
           step = "tool" => job[p].ext # SourceAt(p)[3],
           step = "compress" => job[p].staged # NoFile
    PROVE  IInv'
<1>1. /\ JobOK(p)'
      /\ pc' \in [Proc -> Steps \cup {"idle"}]
      /\ \A q \in Proc \ {p} : job'[q] = job[q] /\ pc'[q] = pc[q]
  BY OldJob
<1>2. SourceSurvives' /\ disk' \in [Path -> Content \cup {NoFile}]
  BY WriteOne
<1>3. TypeOK'
  BY <1>1, <1>2, Counted DEF IInv, TypeOK
<1> QED
  BY <1>1, <1>2, <1>3, Kept, Assemble

-----------------------------------------------------------------------------
(* The actions                                                             *)

LEMMA InitStep == Init => IInv
<1> SUFFICES ASSUME Init PROVE IInv
  OBVIOUS
<1>1. \A r \in Rom : Source[r] \in Path /\ Source[r][3] \in Ext
  BY SourceParts DEF Ext
<1>2. disk \in [Path -> Content \cup {NoFile}]
  <2>1. \A x \in Path : (\E r \in Rom : Source[r] = x) =>
             Holding(CHOOSE r \in Rom : Source[r] = x, x[3], TRUE) \in Content
    BY PathParts DEF Holding, Content
  <2> QED
    BY <2>1 DEF Init
<1>3. NoJob \in Job
  BY SourceAssumption DEF NoJob, Job
<1>4. TypeOK
  <2>1. rows \in [Rom -> Row] /\ pc \in [Proc -> Steps \cup {"idle"}]
    BY <1>1 DEF Init, Row
  <2>2. job \in [Proc -> Job] /\ todo \in [Proc -> SUBSET Rom]
    BY <1>3 DEF Init
  <2>3. /\ runs \in 0 .. MaxRuns /\ faults \in 0 .. MaxFaults /\ crashes \in 0 .. MaxCrashes
        /\ stuck \subseteq Path
    BY BoundsAssumption DEF Init
  <2> QED
    BY <1>2, <2>1, <2>2, <2>3 DEF TypeOK
<1>5. RowsKnown
  BY DEF Init, RowsKnown, Known
<1>6. \A p \in Proc : JobOK(p)
  BY DEF Init, JobOK, NoJob, Known
<1>7. SourceSurvives
  <2>1. SUFFICES ASSUME NEW r \in Rom
                 PROVE  disk[Source[r]] = Holding(r, Source[r][3], TRUE)
    BY DEF SourceSurvives
  <2>2. (CHOOSE q \in Rom : Source[q] = Source[r]) = r
    BY SourceAssumption
  <2> QED
    BY <1>1, <2>2 DEF Init
<1> QED
  BY <1>4, <1>5, <1>6, <1>7 DEF IInv

LEMMA organizeLibraryStep ==
    ASSUME IInv, NEW p \in Proc, organizeLibrary(p)
    PROVE  IInv'
<1>1. PICK convert \in Modes :
         job' = [job EXCEPT ![p] = [NoJob EXCEPT !.convert = convert,
                                      !.source = [r \in Rom |-> rows[r].path]]]
  BY DEF organizeLibrary
<1> DEFINE j == [NoJob EXCEPT !.convert = convert, !.source = [r \in Rom |-> rows[r].path]]
<1>2. j \in Job /\ j.source = [r \in Rom |-> rows[r].path]
  BY KindAssumption DEF IInv, TypeOK, NoJob, Job, Row
<1>3. /\ job' = [job EXCEPT ![p] = j] /\ pc' = [pc EXCEPT ![p] = "next"]
      /\ runs < MaxRuns /\ runs' = runs + 1 /\ todo' = [todo EXCEPT ![p] = Rom]
      /\ UNCHANGED <<disk, rows, faults, crashes, stuck>>
  BY <1>1 DEF organizeLibrary, Goto
<1> HIDE DEF j
<1>4. TypeOK'
  BY <1>2, <1>3, BoundsAssumption DEF IInv, TypeOK, Steps
<1>5. job'[p] = j /\ pc'[p] = "next"
  BY <1>3 DEF IInv, TypeOK
<1>6. JobOK(p)'
  BY <1>2, <1>5 DEF JobOK, Known, IInv, RowsKnown
<1>7. \A q \in Proc \ {p} : job'[q] = job[q] /\ pc'[q] = pc[q]
  BY <1>3 DEF IInv, TypeOK
<1> QED
  BY <1>3, <1>4, <1>6, <1>7, Kept, Assemble

LEMMA BundleNextStep ==
    ASSUME IInv, NEW p \in Proc, BundleNext(p)
    PROVE  IInv'
<1>1. CASE todo[p] = {}
  <2>1. /\ job' = [job EXCEPT ![p] = NoJob] /\ pc' = [pc EXCEPT ![p] = "idle"]
        /\ UNCHANGED <<disk, rows, todo, counts>>
    BY <1>1 DEF BundleNext, Goto
  <2>2. NoJob \in Job /\ \A r \in Rom : Known(r, NoJob.source[r])
    BY SourceAssumption DEF NoJob, Job, Known
  <2>3. TypeOK'
    BY <2>1, <2>2 DEF IInv, TypeOK, counts
  <2>4. job'[p] = NoJob /\ pc'[p] = "idle"
    BY <2>1 DEF IInv, TypeOK
  <2>5. JobOK(p)'
    BY <2>2, <2>4 DEF JobOK, Known
  <2> QED
    BY <2>1, <2>3, <2>5, Kept, Assemble DEF IInv, TypeOK
<1>2. CASE todo[p] # {}
  <2>1. PICK r \in todo[p] :
          /\ todo' = [todo EXCEPT ![p] = @ \ {r}]
          /\ IF Exists(job[p].source[r])
             THEN /\ job' = [job EXCEPT ![p].rom = r, ![p].payload = job[p].source[r],
                                        ![p].ext = plannedConvertedExtension(p, r),
                                        ![p].staged = NoFile]
                  /\ Goto(p, IF usesFolderBundle(p, r) THEN "mkdir" ELSE "convert")
             ELSE UNCHANGED <<job, pc>>
    BY <1>2 DEF BundleNext
  <2>2. r \in Rom /\ todo' \in [Proc -> SUBSET Rom] /\ pc[p] = "next"
        /\ UNCHANGED <<disk, rows, counts>>
    BY <2>1 DEF IInv, TypeOK, BundleNext
  <2>3. CASE UNCHANGED <<job, pc>>
    <3>1. TypeOK'
      BY <2>2, <2>3 DEF IInv, TypeOK, counts
    <3>2. JobOK(p)'
      BY <2>2, <2>3 DEF IInv, JobOK, Known
    <3> QED
      BY <2>2, <2>3, <3>1, <3>2, Kept, Assemble
  <2>5. CASE Exists(job[p].source[r])
    <3> DEFINE x == job[p].source[r]
               ext == plannedConvertedExtension(p, r)
               j == [job[p] EXCEPT !.rom = r, !.payload = x, !.ext = ext, !.staged = NoFile]
               step == IF usesFolderBundle(p, r) THEN "mkdir" ELSE "convert"
    <3>1. job[p] \in Job /\ JobOK(p) /\ x \in Path
      BY <2>2 DEF IInv, TypeOK, Job
    <3>2. ext \in Ext /\ (ext = x[3] \/ (x[3] = "raw" /\ ext = Planned[r]))
      BY <2>2, <3>1, PathParts, KindAssumption DEF plannedConvertedExtension, Ext
    <3>3. /\ j \in Job
          /\ j.rom = r /\ j.payload = x /\ j.ext = ext /\ j.source = job[p].source
      BY <2>2, <3>1, <3>2 DEF Job
    <3>4. job' = [job EXCEPT ![p] = j]
      BY <2>1, <2>5
    <3>5. pc' = [pc EXCEPT ![p] = step] /\ step \in {"mkdir", "convert"}
      BY <2>1, <2>5 DEF Goto
    <3> HIDE DEF x, ext, j, step
    <3>6. /\ job'[p] = j /\ pc'[p] = step
          /\ job' \in [Proc -> Job] /\ pc' \in [Proc -> Steps \cup {"idle"}]
          /\ \A q \in Proc \ {p} : job'[q] = job[q] /\ pc'[q] = pc[q]
      BY <3>3, <3>4, <3>5 DEF IInv, TypeOK, Steps
    <3>7. TypeOK'
      BY <2>2, <3>6 DEF IInv, TypeOK, counts
    <3>8. SourceAt(p)' = x
      BY <3>3, <3>6 DEF SourceAt, x
    <3>9. JobOK(p)'
      BY <2>2, <3>1, <3>2, <3>3, <3>5, <3>6, <3>8 DEF JobOK, Known
    <3> QED
      BY <2>2, <3>6, <3>7, <3>9, Kept, Assemble
  <2> QED
    BY <2>1, <2>3, <2>5
<1> QED
  BY <1>1, <1>2

(* What Unconverted makes of a process: it goes on with its source.        *)
LEMMA UnconvertedJob ==
    ASSUME IInv, NEW p \in Proc, pc[p] \in Steps \ {"next"}, job' = Unconverted(p),
           NEW step \in Steps \ {"tool", "compress"}, Goto(p, step)
    PROVE  /\ JobOK(p)' /\ job' \in [Proc -> Job]
           /\ pc' \in [Proc -> Steps \cup {"idle"}]
           /\ \A q \in Proc \ {p} : job'[q] = job[q] /\ pc'[q] = pc[q]
<1> DEFINE j == [job[p] EXCEPT !.ext = SourceAt(p)[3]]
<1>1. job[p] \in Job /\ JobOK(p) /\ pc[p] \notin {"idle", "next"}
  BY DEF IInv, TypeOK, Steps
<1>2. SourceAt(p)[3] \in Ext /\ SourceAt(p) = job[p].source[job[p].rom]
  BY AtWork, PathParts DEF SourceAt
<1>3. /\ j \in Job /\ j.source = job[p].source /\ j.rom = job[p].rom
      /\ j.payload = job[p].payload /\ j.ext = SourceAt(p)[3]
  BY <1>1, <1>2 DEF Job
<1>4. job' = [job EXCEPT ![p] = j]
  BY DEF Unconverted
<1> HIDE DEF j
<1>5. /\ job'[p] = j /\ pc'[p] = step
      /\ job' \in [Proc -> Job] /\ pc' \in [Proc -> Steps \cup {"idle"}]
      /\ \A q \in Proc \ {p} : job'[q] = job[q] /\ pc'[q] = pc[q]
  BY <1>3, <1>4 DEF IInv, TypeOK, Goto
<1>6. SourceAt(p)' = SourceAt(p)
  BY <1>2, <1>3, <1>5 DEF SourceAt
<1>7. JobOK(p)'
  BY <1>1, <1>2, <1>3, <1>5, <1>6 DEF JobOK, Known, Harmless, ToolOutputs
<1> QED
  BY <1>5, <1>7

LEMMA ConvertStep ==
    ASSUME IInv, NEW p \in Proc, Convert(p)
    PROVE  IInv'
<1>1. pc[p] \in Steps \ {"next"} /\ UNCHANGED <<rows, todo, counts>>
  BY DEF Convert, Steps
<1>2. AfterConvert(p) \in Steps \ {"tool", "compress"}
  BY DEF AfterConvert, Steps
<1>3. CASE Goto(p, AfterConvert(p)) /\ UNCHANGED <<disk, job>>
  BY <1>1, <1>2, <1>3, OnlyStep
<1>4. CASE /\ job[p].ext # SourceAt(p)[3]
           /\ Goto(p, "tool")
           /\ disk' = [disk EXCEPT ![ToolOutput(p)] = Holding(job[p].rom, job[p].ext, FALSE)]
           /\ UNCHANGED job
  <2>1. PICK x \in Path : x = ToolOutput(p) /\ Harmless(x)
    BY <1>1, <1>4, AtWork, ToolHarmless
  <2>2. PICK c \in Content : c = Holding(job[p].rom, job[p].ext, FALSE)
    BY <1>1, AtWork DEF Holding, Content
  <2>3. PICK step \in Steps : step = "tool"
    BY DEF Steps
  <2> QED
    BY <1>1, <1>4, <2>1, <2>2, <2>3, OneWrite
<1>5. CASE job' = Unconverted(p) /\ Goto(p, AfterConvert(p)) /\ UNCHANGED disk
  <2>1. /\ JobOK(p)' /\ job' \in [Proc -> Job] /\ pc' \in [Proc -> Steps \cup {"idle"}]
        /\ \A q \in Proc \ {p} : job'[q] = job[q] /\ pc'[q] = pc[q]
    BY <1>1, <1>2, <1>5, UnconvertedJob
  <2>2. TypeOK'
    BY <1>1, <1>5, <2>1 DEF IInv, TypeOK, counts
  <2> QED
    BY <1>1, <1>5, <2>1, <2>2, Kept, Assemble
<1> QED
  BY <1>3, <1>4, <1>5 DEF Convert

LEMMA RunToolStep ==
    ASSUME IInv, NEW p \in Proc, RunTool(p)
    PROVE  IInv'
<1>1. /\ pc[p] = "tool" /\ pc[p] \in Steps \ {"next"} /\ UNCHANGED <<rows, todo>>
      /\ Goto(p, AfterConvert(p))
      /\ AfterConvert(p) \in Steps \ {"tool", "compress"}
  BY DEF RunTool, Steps, AfterConvert
<1>2. PICK done \in BOOLEAN :
        /\ Attempt(done)
        /\ disk' = IF done /\ Exists(SourceAt(p))
                   THEN [disk EXCEPT ![ToolOutput(p)] = Holding(job[p].rom, job[p].ext, TRUE)]
                   ELSE disk
        /\ job' = IF ToolSucceeded(p, done)
                  THEN [job EXCEPT ![p].payload = ToolOutput(p)] ELSE Unconverted(p)
  BY DEF RunTool
<1>3. job[p].ext # SourceAt(p)[3] /\ JobOK(p) /\ job[p] \in Job
  BY <1>1 DEF IInv, JobOK, TypeOK
<1>4. PICK x \in Path : x = ToolOutput(p) /\ Harmless(x)
  BY <1>1, <1>3, AtWork, ToolHarmless
<1>5. SourceSurvives' /\ disk' \in [Path -> Content \cup {NoFile}]
  <2>1. PICK c \in Content : c = Holding(job[p].rom, job[p].ext, TRUE)
    BY <1>1, AtWork DEF Holding, Content
  <2>2. CASE disk' = [disk EXCEPT ![x] = c]
    BY <1>4, <2>2, WriteOne
  <2>3. CASE disk' = disk
    BY <2>3, Kept DEF IInv, TypeOK
  <2> QED
    BY <1>2, <1>4, <2>1, <2>2, <2>3
<1>6. /\ JobOK(p)' /\ job' \in [Proc -> Job] /\ pc' \in [Proc -> Steps \cup {"idle"}]
      /\ \A q \in Proc \ {p} : job'[q] = job[q] /\ pc'[q] = pc[q]
  <2>1. CASE job' = Unconverted(p)
    BY <1>1, <2>1, UnconvertedJob
  <2>2. CASE job' = [job EXCEPT ![p].payload = ToolOutput(p)]
    <3> DEFINE j == [job[p] EXCEPT !.payload = x]
    <3>1. /\ j \in Job /\ j.source = job[p].source /\ j.rom = job[p].rom
          /\ j.payload = x /\ j.ext = job[p].ext
      BY <1>3 DEF Job
    <3>2. job' = [job EXCEPT ![p] = j]
      BY <1>4, <2>2
    <3> HIDE DEF j
    <3>3. /\ job'[p] = j /\ pc'[p] = AfterConvert(p)
          /\ job' \in [Proc -> Job] /\ pc' \in [Proc -> Steps \cup {"idle"}]
          /\ \A q \in Proc \ {p} : job'[q] = job[q] /\ pc'[q] = pc[q]
      BY <1>1, <3>1, <3>2 DEF IInv, TypeOK, Goto
    <3>4. SourceAt(p)' = SourceAt(p)
      BY <3>1, <3>3 DEF SourceAt
    <3>5. JobOK(p)'
      BY <1>1, <1>3, <1>4, <3>1, <3>3, <3>4 DEF JobOK, Known, Harmless, ToolOutputs
    <3> QED
      BY <3>3, <3>5
  <2> QED
    BY <1>2, <2>1, <2>2
<1>7. TypeOK'
  BY <1>1, <1>2, <1>5, <1>6, Counted DEF IInv, TypeOK
<1> QED
  BY <1>1, <1>5, <1>6, <1>7, Kept, Assemble

LEMMA TryStep ==
    ASSUME IInv, NEW p \in Proc, NEW from \in Steps \ {"next"},
           NEW to \in Steps \ {"tool"}, to = "compress" => job[p].staged # NoFile,
           Try(p, from, to), UNCHANGED <<disk, rows, job, todo>>
    PROVE  IInv'
<1>1. PICK done \in BOOLEAN : Attempt(done) /\ Goto(p, IF done THEN to ELSE "next")
  BY DEF Try
<1>2. pc[p] \in Steps \ {"next"}
  BY DEF Try
<1>3. CASE done
  <2>1. Goto(p, to)
    BY <1>1, <1>3, Zenon
  <2> QED
    BY <1>1, <1>2, <2>1, OnlyStep
<1>4. CASE ~done
  <2>1. PICK step \in Steps : step = "next"
    BY DEF Steps
  <2>2. Goto(p, step)
    BY <1>1, <1>4, <2>1 DEF Goto
  <2> QED
    BY <1>1, <1>2, <2>1, <2>2, OnlyStep
<1> QED
  BY <1>3, <1>4

LEMMA MakeFolderStep ==
    ASSUME IInv, NEW p \in Proc, MakeFolder(p)
    PROVE  IInv'
BY TryStep DEF MakeFolder, Steps

LEMMA WriteMarkerStep ==
    ASSUME IInv, NEW p \in Proc, WriteMarker(p)
    PROVE  IInv'
<1>1. PICK to \in Steps \ {"tool"} : to = IF job[p].staged = NoFile THEN "path" ELSE "compress"
  BY DEF Steps
<1>2. to = "compress" => job[p].staged # NoFile
  BY <1>1
<1> QED
  BY <1>1, <1>2, TryStep DEF WriteMarker, Steps

LEMMA ClearFolderRomStep ==
    ASSUME IInv, NEW p \in Proc, ClearFolderRom(p)
    PROVE  IInv'
<1>1. pc[p] \in Steps \ {"next"} /\ UNCHANGED <<rows, job, todo>>
  BY DEF ClearFolderRom, Steps
<1>2. CASE UNCHANGED <<disk, counts>> /\ \E step \in {"copy", "drop", "next"} : Goto(p, step)
  <2>1. PICK step \in Steps \ {"tool", "compress"} : Goto(p, step)
    BY <1>2 DEF Steps
  <2> QED
    BY <1>1, <1>2, <2>1, OnlyStep
<1>3. CASE \E done \in BOOLEAN :
             /\ Attempt(done)
             /\ disk' = IF done THEN [disk EXCEPT ![FolderRom(p)] = NoFile] ELSE disk
             /\ Goto(p, IF done THEN "copy" ELSE "next")
  <2>1. PICK done \in BOOLEAN :
             /\ Attempt(done)
             /\ disk' = IF done THEN [disk EXCEPT ![FolderRom(p)] = NoFile] ELSE disk
             /\ Goto(p, IF done THEN "copy" ELSE "next")
    BY <1>3
  <2>2. PICK step \in Steps \ {"tool", "compress"} : step = IF done THEN "copy" ELSE "next"
    BY DEF Steps
  <2>3. PICK x \in Path : x = FolderRom(p) /\ Harmless(x)
    BY <1>1, AtWork
  <2>4. CASE done
    <3>1. disk' = [disk EXCEPT ![x] = NoFile]
      BY <2>1, <2>3, <2>4
    <3>2. NoFile \in Content \cup {NoFile}
      OBVIOUS
    <3> QED
      BY <1>1, <2>1, <2>2, <2>3, <3>1, <3>2, OneWrite
  <2>5. CASE ~done
    BY <1>1, <2>1, <2>2, <2>5, OnlyStep
  <2> QED
    BY <2>4, <2>5
<1> QED
  BY <1>2, <1>3 DEF ClearFolderRom

LEMMA CopyToFolderStep ==
    ASSUME IInv, NEW p \in Proc, CopyToFolder(p)
    PROVE  IInv'
<1>1. pc[p] \in Steps \ {"next"} /\ UNCHANGED <<rows, job, todo>>
  BY DEF CopyToFolder, Steps
<1>2. \E done \in BOOLEAN : Attempt(done)
  BY DEF CopyToFolder
<1>3. CASE Exists(job[p].payload) /\ Goto(p, "drop")
           /\ disk' = [disk EXCEPT ![FolderRom(p)] = disk[job[p].payload]]
  <2>1. PICK x \in Path : x = FolderRom(p) /\ Harmless(x)
    BY <1>1, AtWork
  <2>2. PICK c \in Content \cup {NoFile} : c = disk[job[p].payload]
    BY <1>1, AtWork DEF IInv, TypeOK
  <2>3. PICK step \in Steps \ {"tool", "compress"} : step = "drop"
    BY DEF Steps
  <2> QED
    BY <1>1, <1>2, <1>3, <2>1, <2>2, <2>3, OneWrite
<1>4. CASE UNCHANGED disk /\ Goto(p, "next")
  <2>1. PICK step \in Steps : step = "next"
    BY DEF Steps
  <2> QED
    BY <1>1, <1>2, <1>4, <2>1, OnlyStep
<1> QED
  BY <1>3, <1>4 DEF CopyToFolder

LEMMA StagePayloadStep ==
    ASSUME IInv, NEW p \in Proc, StagePayload(p)
    PROVE  IInv'
<1>1. /\ pc[p] \in Steps \ {"idle", "next"} /\ pc[p] \in Steps \ {"next"}
      /\ pc[p] \notin {"idle", "next"} /\ UNCHANGED <<disk, rows, todo>>
  BY DEF StagePayload, Steps
<1>2. \E done \in BOOLEAN : Attempt(done)
  BY DEF StagePayload
<1>3. CASE /\ job' = [job EXCEPT ![p].staged = disk[job[p].payload]]
           /\ Goto(p, "drop")
  <2> DEFINE j == [job[p] EXCEPT !.staged = disk[job[p].payload]]
  <2>1. job[p] \in Job /\ JobOK(p) /\ disk[job[p].payload] \in Content \cup {NoFile}
    BY <1>1, AtWork DEF IInv, TypeOK
  <2>2. /\ j \in Job /\ j.source = job[p].source /\ j.rom = job[p].rom
        /\ j.payload = job[p].payload /\ j.ext = job[p].ext
    BY <2>1 DEF Job
  <2>3. job' = [job EXCEPT ![p] = j]
    BY <1>3
  <2> HIDE DEF j
  <2>4. /\ job'[p] = j /\ pc'[p] = "drop"
        /\ job' \in [Proc -> Job] /\ pc' \in [Proc -> Steps \cup {"idle"}]
        /\ \A q \in Proc \ {p} : job'[q] = job[q] /\ pc'[q] = pc[q]
    BY <1>3, <2>2, <2>3 DEF IInv, TypeOK, Goto, Steps
  <2>5. SourceAt(p)' = SourceAt(p)
    BY <2>2, <2>4 DEF SourceAt
  <2>6. JobOK(p)'
    BY <1>1, <2>1, <2>2, <2>4, <2>5 DEF JobOK, Known, Harmless, ToolOutputs
  <2>7. TypeOK'
    BY <1>1, <1>2, <2>4, Counted DEF IInv, TypeOK
  <2> QED
    BY <1>1, <2>4, <2>6, <2>7, Kept, Assemble
<1>4. CASE UNCHANGED job /\ Goto(p, "next")
  <2>1. PICK step \in Steps : step = "next"
    BY DEF Steps
  <2> QED
    BY <1>1, <1>2, <1>4, <2>1, OnlyStep
<1> QED
  BY <1>3, <1>4 DEF StagePayload

LEMMA DropPayloadStep ==
    ASSUME IInv, NEW p \in Proc, DropPayload(p)
    PROVE  IInv'
<1>1. /\ pc[p] \in Steps \ {"next"} /\ pc[p] \notin {"idle", "next"}
      /\ UNCHANGED <<rows, job, todo>> /\ \E done \in BOOLEAN : Attempt(done)
      /\ \/ disk' = [x \in Path |-> IF x \in Dropped(p) THEN NoFile ELSE disk[x]]
         \/ disk' = disk
  BY DEF DropPayload, Steps
<1>2. \A x \in Dropped(p) : Harmless(x)
  BY <1>1 DEF IInv, JobOK, Dropped
<1>3. SourceSurvives' /\ disk' \in [Path -> Content \cup {NoFile}]
  BY <1>1, <1>2, OnlyHarmless DEF IInv, TypeOK
<1>4. PICK step \in Steps \ {"tool", "compress"} : step = "marker"
  BY DEF Steps
<1>5. /\ JobOK(p)' /\ pc' \in [Proc -> Steps \cup {"idle"}]
      /\ \A q \in Proc \ {p} : job'[q] = job[q] /\ pc'[q] = pc[q]
  BY <1>1, <1>4, OldJob DEF DropPayload
<1>6. TypeOK'
  BY <1>1, <1>3, <1>5, Counted DEF IInv, TypeOK
<1> QED
  BY <1>1, <1>3, <1>5, <1>6, Kept, Assemble

LEMMA CompressStep ==
    ASSUME IInv, NEW p \in Proc, Compress(p)
    PROVE  IInv'
<1>1. pc[p] = "compress" /\ pc[p] \in Steps \ {"next"} /\ UNCHANGED <<rows, job, todo>>
  BY DEF Compress, Steps
<1>2. job[p].staged \in Content /\ job[p].rom \in Rom
  BY <1>1 DEF IInv, TypeOK, Job, JobOK
<1>3. PICK x \in Path : x = TempZip(job[p].rom) /\ Harmless(x)
  BY <1>2, TitlePaths
<1>4. Zipped(p) \in Content /\ CutShort(p) \in Content /\ disk[x] \in Content \cup {NoFile}
  BY <1>2 DEF Zipped, CutShort, Holding, Content, Ext, IInv, TypeOK
<1>5. /\ \E done \in BOOLEAN : Attempt(done)
      /\ \E c \in {Zipped(p), CutShort(p), disk[x], NoFile} : disk' = [disk EXCEPT ![x] = c]
      /\ Goto(p, "remove") \/ Goto(p, "cleanup")
  BY <1>3 DEF Compress, GiveUp
<1>6. PICK c \in Content \cup {NoFile} : disk' = [disk EXCEPT ![x] = c]
  BY <1>4, <1>5
<1>7. PICK step \in Steps \ {"tool", "compress"} : Goto(p, step)
  BY <1>5 DEF Steps
<1> QED
  BY <1>1, <1>3, <1>5, <1>6, <1>7, OneWrite

LEMMA RemoveOldStep ==
    ASSUME IInv, NEW p \in Proc, RemoveOld(p)
    PROVE  IInv'
<1>1. pc[p] \in Steps \ {"next"} /\ UNCHANGED <<rows, job, todo>> /\ Goto(p, "rename")
  BY DEF RemoveOld, Steps
<1>2. PICK done \in BOOLEAN :
        /\ Attempt(done)
        /\ disk' = IF done THEN [disk EXCEPT ![ZipPath(job[p].rom)] = NoFile] ELSE disk
  BY DEF RemoveOld
<1>3. PICK x \in Path : x = ZipPath(job[p].rom) /\ Harmless(x)
  BY <1>1, AtWork, TitlePaths
<1>4. PICK step \in Steps \ {"tool", "compress"} : step = "rename"
  BY DEF Steps
<1>5. CASE disk' = [disk EXCEPT ![x] = NoFile]
  <2>1. PICK c \in Content \cup {NoFile} : c = NoFile
    OBVIOUS
  <2> QED
    BY <1>1, <1>2, <1>3, <1>4, <1>5, <2>1, OneWrite
<1>6. CASE disk' = disk
  BY <1>1, <1>2, <1>4, <1>6, OnlyStep
<1> QED
  BY <1>2, <1>3, <1>5, <1>6

(* A process that writes harmless paths and goes on.                       *)
LEMMA SomeWrites ==
    ASSUME IInv, NEW p \in Proc, UNCHANGED <<rows, job, todo>>, pc[p] \in Steps \ {"next"},
           \E done \in BOOLEAN : Outcome(done), stuck' \subseteq Path,
           disk' \in [Path -> Content \cup {NoFile}],
           \A x \in Path : disk'[x] = disk[x] \/ Harmless(x),
           NEW step \in Steps \ {"tool", "compress"}, Goto(p, step)
    PROVE  IInv'
<1>1. SourceSurvives'
  BY OnlyHarmless DEF IInv
<1>2. /\ JobOK(p)' /\ pc' \in [Proc -> Steps \cup {"idle"}]
      /\ \A q \in Proc \ {p} : job'[q] = job[q] /\ pc'[q] = pc[q]
  BY OldJob
<1>3. TypeOK'
  BY <1>2, Counted DEF IInv, TypeOK
<1> QED
  BY <1>1, <1>2, <1>3, Kept, Assemble

LEMMA RenameTempStep ==
    ASSUME IInv, NEW p \in Proc, RenameTemp(p)
    PROVE  IInv'
<1>1. pc[p] \in Steps \ {"next"} /\ UNCHANGED <<rows, job, todo>>
  BY DEF RenameTemp, Steps
<1>2. PICK zip \in Path, tmp \in Path :
        /\ zip = ZipPath(job[p].rom) /\ tmp = TempZip(job[p].rom)
        /\ Harmless(zip) /\ Harmless(tmp)
  BY <1>1, AtWork, TitlePaths
<1>3. /\ \E done \in BOOLEAN : Outcome(done)
      /\ stuck' = stuck \ {tmp} \/ stuck' = stuck
      /\ disk' = [disk EXCEPT ![zip] = disk[tmp], ![tmp] = NoFile] \/ disk' = disk
      /\ Goto(p, "mark") \/ Goto(p, "cleanup")
  BY <1>2 DEF RenameTemp, GiveUp
<1>4. /\ disk' \in [Path -> Content \cup {NoFile}]
      /\ \A x \in Path : disk'[x] = disk[x] \/ Harmless(x)
  BY <1>2, <1>3 DEF IInv, TypeOK
<1>5. stuck' \subseteq Path
  BY <1>3 DEF IInv, TypeOK
<1>6. PICK step \in Steps \ {"tool", "compress"} : Goto(p, step)
  BY <1>3 DEF Steps
<1> QED
  BY <1>1, <1>3, <1>4, <1>5, <1>6, SomeWrites

LEMMA CleanTempStep ==
    ASSUME IInv, NEW p \in Proc, CleanTemp(p)
    PROVE  IInv'
<1>1. pc[p] \in Steps \ {"next"} /\ UNCHANGED <<rows, job, todo>> /\ Goto(p, "next")
  BY DEF CleanTemp, Steps
<1>2. PICK tmp \in Path : tmp = TempZip(job[p].rom) /\ Harmless(tmp)
  BY <1>1, AtWork, TitlePaths
<1>3. /\ \E done \in BOOLEAN : Outcome(done)
      /\ stuck' = stuck \ {tmp} \/ stuck' = stuck \cup {tmp}
      /\ disk' = [disk EXCEPT ![tmp] = NoFile] \/ disk' = disk
  BY <1>2 DEF CleanTemp
<1>4. /\ disk' \in [Path -> Content \cup {NoFile}]
      /\ \A x \in Path : disk'[x] = disk[x] \/ Harmless(x)
  BY <1>2, <1>3 DEF IInv, TypeOK
<1>5. stuck' \subseteq Path
  BY <1>2, <1>3 DEF IInv, TypeOK
<1>6. PICK step \in Steps \ {"tool", "compress"} : step = "next"
  BY DEF Steps
<1> QED
  BY <1>1, <1>3, <1>4, <1>5, <1>6, SomeWrites

(* The two statements on a row.                                            *)
LEMMA OneRow ==
    ASSUME IInv, NEW p \in Proc, UNCHANGED <<disk, job, todo>>,
           pc[p] \in Steps \ {"next"}, NEW step \in Steps \ {"tool", "compress"}, Goto(p, step),
           \E done \in BOOLEAN : Attempt(done),
           rows' \in [Rom -> Row], RowsKnown'
    PROVE  IInv'
<1>1. /\ JobOK(p)' /\ pc' \in [Proc -> Steps \cup {"idle"}]
      /\ \A q \in Proc \ {p} : job'[q] = job[q] /\ pc'[q] = pc[q]
  BY OldJob
<1>2. TypeOK'
  BY <1>1, Counted DEF IInv, TypeOK
<1> QED
  BY <1>1, <1>2, Kept, Assemble

LEMMA updateFilePathStep ==
    ASSUME IInv, NEW p \in Proc, updateFilePath(p)
    PROVE  IInv'
<1>1. pc[p] \in Steps \ {"next"} /\ UNCHANGED <<disk, job, todo>>
  BY DEF updateFilePath, Steps
<1>2. PICK done \in BOOLEAN :
        /\ Attempt(done)
        /\ rows' = IF done THEN [rows EXCEPT ![job[p].rom].path = FolderRom(p)] ELSE rows
        /\ Goto(p, IF done THEN "mark" ELSE "next")
  BY DEF updateFilePath
<1>3. PICK x \in Path : x = FolderRom(p) /\ Known(job[p].rom, x)
  BY <1>1, AtWork
<1>4. rows' \in [Rom -> Row] /\ RowsKnown'
  BY <1>2, <1>3 DEF IInv, TypeOK, Row, RowsKnown, Known
<1>5. PICK step \in Steps \ {"tool", "compress"} : step = IF done THEN "mark" ELSE "next"
  BY DEF Steps
<1> QED
  BY <1>1, <1>2, <1>4, <1>5, OneRow

LEMMA markFileBundledStep ==
    ASSUME IInv, NEW p \in Proc, markFileBundled(p)
    PROVE  IInv'
<1>1. pc[p] \in Steps \ {"next"} /\ UNCHANGED <<disk, job, todo>> /\ Goto(p, "next")
  BY DEF markFileBundled, Steps
<1>2. \E done \in BOOLEAN : Attempt(done)
  BY DEF markFileBundled
<1>3. PICK b \in {"folder", "zip"} :
        \/ rows' = [rows EXCEPT ![job[p].rom].bundled = b]
        \/ rows' = rows
  BY DEF markFileBundled
<1>4. rows' \in [Rom -> Row] /\ RowsKnown'
  BY <1>3 DEF IInv, TypeOK, Row, RowsKnown, Known
<1>5. PICK step \in Steps \ {"tool", "compress"} : step = "next"
  BY DEF Steps
<1> QED
  BY <1>1, <1>2, <1>4, <1>5, OneRow

LEMMA CrashStep ==
    ASSUME IInv, NEW p \in Proc, Crash(p)
    PROVE  IInv'
<1>1. /\ job' = [job EXCEPT ![p] = NoJob] /\ pc' = [pc EXCEPT ![p] = "idle"]
      /\ todo' = [todo EXCEPT ![p] = {}] /\ crashes < MaxCrashes /\ crashes' = crashes + 1
      /\ UNCHANGED <<disk, rows, runs, faults, stuck>>
  BY DEF Crash, Goto
<1>2. NoJob \in Job /\ \A r \in Rom : Known(r, NoJob.source[r])
  BY SourceAssumption DEF NoJob, Job, Known
<1>3. TypeOK'
  BY <1>1, <1>2, BoundsAssumption DEF IInv, TypeOK
<1>4. job'[p] = NoJob /\ pc'[p] = "idle"
  BY <1>1 DEF IInv, TypeOK
<1>5. JobOK(p)'
  BY <1>2, <1>4 DEF JobOK, Known
<1> QED
  BY <1>1, <1>3, <1>5, Kept, Assemble DEF IInv, TypeOK

LEMMA NextStep == IInv /\ [Next]_vars => IInv'
<1> SUFFICES ASSUME IInv, [Next]_vars PROVE IInv'
  OBVIOUS
<1>1. CASE UNCHANGED vars
  BY <1>1 DEF IInv, TypeOK, RowsKnown, JobOK, Known, Harmless, ToolOutputs, SourceAt,
              SourceSurvives, Holding, vars, counts
<1>2. CASE Next
  BY <1>2, organizeLibraryStep, BundleNextStep, ConvertStep, RunToolStep, MakeFolderStep,
     ClearFolderRomStep, CopyToFolderStep, updateFilePathStep, StagePayloadStep, CompressStep,
     RemoveOldStep, RenameTempStep, CleanTempStep, DropPayloadStep, WriteMarkerStep, markFileBundledStep,
     CrashStep DEF Next
<1> QED
  BY <1>1, <1>2

-----------------------------------------------------------------------------
(* Every reachable state has the types of its columns and locals.          *)
THEOREM TypeCorrect == Spec => []TypeOK
<1>1. IInv => TypeOK
  BY DEF IInv
<1> QED
  BY <1>1, InitStep, NextStep, PTL DEF Spec

(* However many commands bundle at once, fail or die, every file of the    *)
(* library is as it was scanned, unless a converter writes over it: the    *)
(* bundler copies, and removes nothing but what it made.                   *)
THEOREM BundlingSparesSources == Spec => []SourceSurvives
<1>1. IInv => SourceSurvives
  BY DEF IInv
<1> QED
  BY <1>1, InitStep, NextStep, PTL DEF Spec

-----------------------------------------------------------------------------
(* Temporary zips                                                          *)

Zipping == {"remove", "rename", "cleanup"}

(* A temporary zip is one that some process is about to rename or remove,  *)
(* or could not remove; processes that bundle rows of one title share it.  *)
TempInv ==
    crashes = 0 => \A r \in Rom : Exists(TempZip(r)) /\ TempZip(r) \notin stuck =>
        \E p \in Proc : pc[p] \in Zipping /\ TempZip(job[p].rom) = TempZip(r)

Acts(p) ==
    \/ organizeLibrary(p) \/ BundleNext(p) \/ Convert(p) \/ RunTool(p)
    \/ MakeFolder(p) \/ ClearFolderRom(p) \/ CopyToFolder(p) \/ updateFilePath(p)
    \/ StagePayload(p) \/ Compress(p) \/ RemoveOld(p) \/ RenameTemp(p) \/ CleanTemp(p)
    \/ DropPayload(p) \/ WriteMarker(p) \/ markFileBundled(p) \/ Crash(p)

LEMMA OthersStay ==
    ASSUME TypeOK, NEW p \in Proc, Acts(p)
    PROVE  \A q \in Proc \ {p} : pc'[q] = pc[q] /\ job'[q] = job[q] /\ todo'[q] = todo[q]
<1>1. UNCHANGED pc \/ \E step : Goto(p, step)
  BY DEF Acts, organizeLibrary, BundleNext, Convert, RunTool, MakeFolder, ClearFolderRom, CopyToFolder,
         updateFilePath, StagePayload, Compress, RemoveOld, RenameTemp, CleanTemp, DropPayload, WriteMarker,
         markFileBundled, Crash, Try
<1>2. UNCHANGED job \/ \E j : job' = [job EXCEPT ![p] = j]
  BY DEF Acts, organizeLibrary, BundleNext, Convert, RunTool, MakeFolder, ClearFolderRom, CopyToFolder,
         updateFilePath, StagePayload, Compress, RemoveOld, RenameTemp, CleanTemp, DropPayload, WriteMarker,
         markFileBundled, Crash, Unconverted
<1>3. UNCHANGED todo \/ \E s : todo' = [todo EXCEPT ![p] = s]
  BY DEF Acts, organizeLibrary, BundleNext, Convert, RunTool, MakeFolder, ClearFolderRom, CopyToFolder,
         updateFilePath, StagePayload, Compress, RemoveOld, RenameTemp, CleanTemp, DropPayload, WriteMarker,
         markFileBundled, Crash
<1> QED
  BY <1>1, <1>2, <1>3 DEF Goto, TypeOK

LEMMA CrashesGrow ==
    ASSUME TypeOK, NEW p \in Proc, Acts(p), crashes' = 0
    PROVE  crashes = 0 /\ ~Crash(p)
<1>1. crashes \in Nat
  BY BoundsAssumption DEF TypeOK
<1>2. ~Crash(p)
  BY <1>1 DEF Crash
<1>3. UNCHANGED crashes
  BY <1>2
  DEF Acts, organizeLibrary, BundleNext, Convert, RunTool, MakeFolder, ClearFolderRom, CopyToFolder,
      updateFilePath, StagePayload, Compress, RemoveOld, RenameTemp, CleanTemp, DropPayload, WriteMarker,
      markFileBundled, Try, Attempt, Outcome, counts
<1> QED
  BY <1>2, <1>3

LEMMA TempApart ==
    ASSUME NEW r \in Rom
    PROVE  /\ \A x : x[1] # "out" => x # TempZip(r)
           /\ \A q \in Rom : ZipPath(q) # TempZip(r)
BY DEF TempZip, ZipPath

(* Where a process at work on a row writes beside the zips.                *)
LEMMA WorkApart ==
    ASSUME IInv, NEW p \in Proc, pc[p] \in Steps \ {"next"}
    PROVE  FolderRom(p)[1] # "out" /\ ToolOutput(p)[1] # "out"
<1>1. job[p].rom \in Rom /\ Known(job[p].rom, SourceAt(p))
  BY AtWork
<1>2. TitleOf[job[p].rom] \in Title /\ "out" \notin Title
  BY <1>1, KindAssumption
<1>3. SourceAt(p)[1] # "out"
  BY <1>1, <1>2, SourceParts DEF Known
<1> QED
  BY <1>2, <1>3 DEF FolderRom, ToolOutput

(* A step that makes no temporary zip, of a process that has none.         *)
LEMMA NoTempMade ==
    ASSUME TypeOK, NEW p \in Proc, Acts(p), TempInv, crashes = 0, pc[p] \notin Zipping,
           UNCHANGED stuck, \A r \in Rom : disk'[TempZip(r)] \in {disk[TempZip(r)], NoFile}
    PROVE  TempInv'
<1> SUFFICES ASSUME NEW r \in Rom, disk'[TempZip(r)] # NoFile, TempZip(r) \notin stuck
             PROVE  \E q \in Proc : pc'[q] \in Zipping /\ TempZip(job'[q].rom) = TempZip(r)
  BY DEF TempInv, Exists, TempZip
<1>1. PICK q \in Proc : pc[q] \in Zipping /\ TempZip(job[q].rom) = TempZip(r)
  BY DEF TempInv, Exists
<1> QED
  BY <1>1, OthersStay

LEMMA TempStep ==
    ASSUME IInv, TempInv, NEW p \in Proc, Acts(p)
    PROVE  TempInv'
<1> SUFFICES ASSUME crashes' = 0 PROVE TempInv'
  BY DEF TempInv
<1>1. TypeOK /\ crashes = 0 /\ ~Crash(p)
  BY CrashesGrow DEF IInv
<1>2. ASSUME NEW x \in Path, x[1] # "out", NEW c, disk' = [disk EXCEPT ![x] = c]
      PROVE  \A r \in Rom : disk'[TempZip(r)] = disk[TempZip(r)]
  BY <1>1, <1>2, TempApart, TitlePaths DEF TypeOK
<1>3. CASE organizeLibrary(p) \/ BundleNext(p) \/ MakeFolder(p) \/ updateFilePath(p)
           \/ StagePayload(p) \/ WriteMarker(p) \/ markFileBundled(p)
  <2>1. UNCHANGED <<disk, stuck>> /\ pc[p] \notin Zipping
    BY <1>3 DEF organizeLibrary, BundleNext, MakeFolder, updateFilePath, StagePayload, WriteMarker,
                markFileBundled, Try, Attempt, counts, Zipping
  <2> QED
    BY <1>1, <2>1, NoTempMade
<1>4. CASE Convert(p) \/ RunTool(p)
  <2>1. pc[p] \in Steps \ {"next"} /\ pc[p] \notin Zipping /\ UNCHANGED stuck
    BY <1>4 DEF Convert, RunTool, Steps, Attempt, counts, Zipping
  <2>2. UNCHANGED disk \/ \E c : disk' = [disk EXCEPT ![ToolOutput(p)] = c]
    BY <1>4 DEF Convert, RunTool
  <2>3. ToolOutput(p) \in Path /\ ToolOutput(p)[1] # "out"
    BY <2>1, AtWork, WorkApart
  <2>4. \A r \in Rom : disk'[TempZip(r)] = disk[TempZip(r)]
    BY <1>2, <2>2, <2>3
  <2> QED
    BY <1>1, <2>1, <2>4, NoTempMade
<1>5. CASE ClearFolderRom(p) \/ CopyToFolder(p)
  <2>1. pc[p] \in Steps \ {"next"} /\ pc[p] \notin Zipping /\ UNCHANGED stuck
    BY <1>5 DEF ClearFolderRom, CopyToFolder, Steps, Attempt, counts, Zipping
  <2>2. UNCHANGED disk \/ \E c : disk' = [disk EXCEPT ![FolderRom(p)] = c]
    BY <1>5 DEF ClearFolderRom, CopyToFolder
  <2>3. FolderRom(p) \in Path /\ FolderRom(p)[1] # "out"
    BY <2>1, AtWork, WorkApart
  <2>4. \A r \in Rom : disk'[TempZip(r)] = disk[TempZip(r)]
    BY <1>2, <2>2, <2>3
  <2> QED
    BY <1>1, <2>1, <2>4, NoTempMade
<1>6. CASE DropPayload(p)
  <2>1. /\ pc[p] \notin Zipping /\ UNCHANGED stuck
        /\ disk' = [x \in Path |-> IF x \in Dropped(p) THEN NoFile ELSE disk[x]] \/ disk' = disk
    BY <1>6 DEF DropPayload, Attempt, Zipping
  <2>2. \A r \in Rom : disk'[TempZip(r)] \in {disk[TempZip(r)], NoFile}
    BY <2>1, TitlePaths
  <2> QED
    BY <1>1, <2>1, <2>2, NoTempMade
<1>7. CASE Compress(p) \/ RemoveOld(p) \/ RenameTemp(p) \/ CleanTemp(p)
  <2>1. /\ pc[p] \in Zipping \cup {"compress"} /\ job' = job
        /\ pc[p] \in Steps \ {"next"} /\ job[p].rom \in Rom
    <3>1. pc[p] \in Zipping \cup {"compress"} /\ job' = job
      BY <1>7 DEF Compress, RemoveOld, RenameTemp, CleanTemp, Zipping
    <3> QED
      BY <3>1, AtWork DEF Steps, Zipping
  <2> PICK zip \in Path, tmp \in Path : zip = ZipPath(job[p].rom) /\ tmp = TempZip(job[p].rom)
    BY <2>1, TitlePaths
  <2>2. /\ \A x \in Path \ {zip, tmp} : disk'[x] = disk[x]
        /\ stuck \ {tmp} \subseteq stuck'
        /\ disk'[tmp] = NoFile \/ tmp \in stuck' \/ pc'[p] \in Zipping
    <3>1. ASSUME Compress(p)
          PROVE  /\ \E c : disk' = [disk EXCEPT ![tmp] = c]
                 /\ UNCHANGED stuck
                 /\ \E step \in Zipping : pc' = [pc EXCEPT ![p] = step]
      BY <3>1 DEF Compress, Goto, GiveUp, Attempt, Zipping
    <3>2. ASSUME RemoveOld(p)
          PROVE  /\ disk' = disk \/ disk' = [disk EXCEPT ![zip] = NoFile]
                 /\ UNCHANGED stuck
                 /\ pc' = [pc EXCEPT ![p] = "rename"]
      BY <3>2 DEF RemoveOld, Goto, Attempt
    <3>3. ASSUME RenameTemp(p)
          PROVE  \/ /\ disk' = [disk EXCEPT ![zip] = disk[tmp], ![tmp] = NoFile]
                    /\ stuck' = stuck \ {tmp}
                 \/ UNCHANGED <<disk, stuck>> /\ pc' = [pc EXCEPT ![p] = "cleanup"]
      BY <3>3 DEF RenameTemp, Goto, GiveUp
    <3>4. ASSUME CleanTemp(p)
          PROVE  \/ disk' = [disk EXCEPT ![tmp] = NoFile] /\ stuck' = stuck \ {tmp}
                 \/ UNCHANGED disk /\ stuck' = stuck \cup {tmp}
      BY <3>4 DEF CleanTemp
    <3>5. disk \in [Path -> Content \cup {NoFile}] /\ pc \in [Proc -> Steps \cup {"idle"}]
      BY <1>1 DEF TypeOK
    <3>6. CASE Compress(p)
      BY <3>1, <3>5, <3>6
    <3>7. CASE RemoveOld(p)
      BY <3>2, <3>5, <3>7 DEF Zipping
    <3>8. CASE RenameTemp(p)
      BY <3>3, <3>5, <3>8 DEF Zipping
    <3>9. CASE CleanTemp(p)
      BY <3>4, <3>5, <3>9
    <3> QED
      BY <1>7, <3>6, <3>7, <3>8, <3>9
  <2> SUFFICES ASSUME NEW r \in Rom, disk'[TempZip(r)] # NoFile, TempZip(r) \notin stuck'
               PROVE  \E q \in Proc : pc'[q] \in Zipping /\ TempZip(job'[q].rom) = TempZip(r)
    BY DEF TempInv, Exists, TempZip
  <2>3. CASE TempZip(r) = tmp
    BY <2>1, <2>2, <2>3
  <2>4. CASE TempZip(r) # tmp
    <3>1. disk[TempZip(r)] # NoFile /\ TempZip(r) \notin stuck
      BY <2>1, <2>2, <2>4, TempApart, TitlePaths
    <3>2. PICK q \in Proc : pc[q] \in Zipping /\ TempZip(job[q].rom) = TempZip(r)
      BY <1>1, <3>1 DEF TempInv, Exists
    <3> QED
      BY <1>1, <2>4, <3>2, OthersStay
  <2> QED
    BY <2>3, <2>4
<1> QED
  BY <1>1, <1>3, <1>4, <1>5, <1>6, <1>7 DEF Acts

(* Between commands no temporary zip lies about but one the clean-up of a  *)
(* failed bundle could not remove, whatever else failed and however many   *)
(* commands bundled beside each other, unless one died.                    *)
THEOREM NoTempStays == Spec => []NoTempLeft
<1>1. Init => TempInv
  <2> SUFFICES ASSUME Init, NEW r \in Rom PROVE ~Exists(TempZip(r))
    BY DEF TempInv
  <2>1. TempZip(r) \in Path /\ \A q \in Rom : Source[q] # TempZip(r)
    BY TitlePaths, SourceParts DEF TempZip
  <2> QED
    BY <2>1 DEF Init, Exists
<1>2. IInv /\ TempInv /\ [Next]_vars => TempInv'
  <2> SUFFICES ASSUME IInv, TempInv, [Next]_vars PROVE TempInv'
    OBVIOUS
  <2>1. CASE UNCHANGED vars
    BY <2>1 DEF vars, counts, TempInv, Exists, TempZip
  <2> QED
    BY <2>1, TempStep DEF Next, Acts
<1>3. TempInv => NoTempLeft
  BY DEF TempInv, NoTempLeft, Quiet, Zipping
<1> QED
  BY InitStep, NextStep, <1>1, <1>2, <1>3, PTL DEF Spec

-----------------------------------------------------------------------------
(* Half files, for one process                                             *)

(* A row whose file is to be converted shares its stem with no other row:  *)
(* the tool names what it writes after the source.                         *)
OwnStem == \A r, q \in Rom : Source[r][2] = Source[q][2] /\ Planned[r] # "raw" => r = q

(* The half files but the zips whose writing broke off.                    *)
Half == {x \in Path : /\ disk[x] # NoFile /\ ~disk[x].whole
                      /\ ~(x[1] = "out" /\ disk[x].ext = "cut")}

RowsWhole == \A r \in Rom : rows[r].path[2] = Source[r][2] /\ rows[r].path \notin Half

OutWhole == \A x \in Half : x[1] # "out"

Before == {"mkdir", "convert", "tool"}

(* What the process has in hand is no half file, until the tool has run    *)
(* the source is there, and the rows it has still to bundle are where they *)
(* were when it read them.                                                 *)
Sound(p) ==
    /\ \A r \in Rom : job[p].source[r][2] = Source[r][2]
    /\ pc[p] # "idle" => \A r \in todo[p] : job[p].source[r] = rows[r].path
    /\ pc[p] \notin {"idle", "next"} =>
         job[p].rom \notin todo[p] /\ job[p].payload \notin Half /\ job[p].payload[1] # "out"
    /\ pc[p] \in Before =>
         /\ SourceAt(p) = rows[job[p].rom].path
         /\ Exists(SourceAt(p)) /\ job[p].payload = SourceAt(p)
    /\ pc[p] \in Before \cup {"clear", "copy", "stage", "path"} => job[p].staged = NoFile
    /\ job[p].staged # NoFile => job[p].staged.whole
    /\ pc[p] \in {"drop", "marker", "path"} /\ job[p].staged = NoFile => FolderRom(p) \notin Half

WholeInv == RowsWhole /\ OutWhole /\ \A p \in Proc : Sound(p)

(* A whole file written, a zip cut short, or a file removed, makes no half *)
(* file.                                                                   *)
LEMMA WholeWritten ==
    ASSUME TypeOK, NEW x \in Path, NEW c, c = NoFile \/ c.whole \/ (x[1] = "out" /\ c.ext = "cut"),
           disk' = [disk EXCEPT ![x] = c]
    PROVE  Half' \subseteq Half /\ x \notin Half'
BY DEF TypeOK, Half

LEMMA SameHalf ==
    ASSUME UNCHANGED disk
    PROVE  Half' = Half
BY DEF Half

LEMMA WrittenRows ==
    ASSUME WholeInv, UNCHANGED rows, Half' \subseteq Half
    PROVE  RowsWhole' /\ OutWhole'
BY DEF WholeInv, RowsWhole, OutWhole

(* A step with a row, past its conversion.                                 *)
LEMMA OnStep ==
    ASSUME NEW p, Proc = {p}, WholeInv, UNCHANGED <<rows, todo>>, pc[p] \notin {"idle", "next"},
           NEW step, pc'[p] = step, step \notin Before \cup {"idle"}, Half' \subseteq Half,
           job'[p].source = job[p].source, job'[p].rom = job[p].rom,
           job'[p].payload \notin Half', job'[p].payload[1] # "out",
           job'[p].staged # NoFile => job'[p].staged.whole,
           step \in {"clear", "copy", "stage", "path"} => job'[p].staged = NoFile,
           step \in {"drop", "marker", "path"} /\ job'[p].staged = NoFile => FolderRom(p)' \notin Half'
    PROVE  WholeInv'
<1>1. Sound(p)
  BY DEF WholeInv
<1>2. Sound(p)'
  BY <1>1 DEF Sound, Before
<1> QED
  BY <1>2, WrittenRows DEF WholeInv

(* The same with the locals as they were.                                  *)
LEMMA OnStepSame ==
    ASSUME NEW p, Proc = {p}, WholeInv, UNCHANGED <<rows, job, todo>>, pc[p] \notin {"idle", "next"},
           NEW step, pc'[p] = step, step \notin Before \cup {"idle"}, Half' \subseteq Half,
           step \in {"clear", "copy", "stage", "path"} => job[p].staged = NoFile,
           step \in {"drop", "marker", "path"} /\ job[p].staged = NoFile => FolderRom(p) \notin Half'
    PROVE  WholeInv'
<1>1. Sound(p)
  BY DEF WholeInv
<1>2. FolderRom(p)' = FolderRom(p)
  BY DEF FolderRom, SourceAt
<1>3. job'[p].payload \notin Half' /\ job'[p].payload[1] # "out" /\ (job'[p].staged # NoFile => job'[p].staged.whole)
  BY <1>1 DEF Sound
<1> QED
  BY <1>2, <1>3, OnStep

LEMMA GotoAt ==
    ASSUME TypeOK, NEW p \in Proc, NEW step, Goto(p, step)
    PROVE  pc'[p] = step
BY DEF TypeOK, Goto

LEMMA BetweenRows ==
    ASSUME NEW p, Proc = {p}, IInv, WholeInv, organizeLibrary(p) \/ BundleNext(p)
    PROVE  WholeInv'
<1>1. TypeOK /\ Sound(p) /\ RowsWhole /\ job[p] \in Job /\ todo[p] \subseteq Rom
  BY DEF IInv, WholeInv, TypeOK
<1>2. UNCHANGED <<disk, rows>>
  BY DEF organizeLibrary, BundleNext
<1>3. RowsWhole' /\ OutWhole' /\ Half' = Half
  BY <1>2, SameHalf, WrittenRows
<1>4. CASE organizeLibrary(p)
  <2>1. PICK convert \in Modes :
          job' = [job EXCEPT ![p] = [NoJob EXCEPT !.convert = convert,
                                       !.source = [r \in Rom |-> rows[r].path]]]
    BY <1>4 DEF organizeLibrary
  <2> PICK j : j = [NoJob EXCEPT !.convert = convert, !.source = [r \in Rom |-> rows[r].path]]
    OBVIOUS
  <2>2. j.source = [r \in Rom |-> rows[r].path] /\ j.staged = NoFile
    BY DEF NoJob
  <2>3. job'[p] = j /\ pc'[p] = "next"
    BY <1>1, <1>4, <2>1, GotoAt DEF organizeLibrary, TypeOK
  <2>4. \A r \in Rom : j.source[r] = rows[r].path /\ rows[r].path[2] = Source[r][2]
    BY <1>1, <2>2 DEF RowsWhole
  <2>5. todo'[p] \subseteq Rom
    BY <1>1, <1>4 DEF organizeLibrary, TypeOK
  <2>6. Sound(p)'
    BY <1>2, <2>2, <2>3, <2>4, <2>5 DEF Sound, Before
  <2> QED
    BY <1>3, <2>6 DEF WholeInv
<1>5. CASE BundleNext(p) /\ todo[p] = {}
  <2>1. job'[p] = NoJob /\ pc'[p] = "idle"
    BY <1>1, <1>5, GotoAt DEF BundleNext, TypeOK
  <2>2. Sound(p)'
    BY <2>1 DEF Sound, NoJob, Before
  <2> QED
    BY <1>3, <2>2 DEF WholeInv
<1>6. CASE BundleNext(p) /\ todo[p] # {}
  <2>1. PICK r \in todo[p] :
          /\ todo' = [todo EXCEPT ![p] = @ \ {r}]
          /\ IF Exists(job[p].source[r])
             THEN /\ job' = [job EXCEPT ![p].rom = r, ![p].payload = job[p].source[r],
                                        ![p].ext = plannedConvertedExtension(p, r),
                                        ![p].staged = NoFile]
                  /\ Goto(p, IF usesFolderBundle(p, r) THEN "mkdir" ELSE "convert")
             ELSE UNCHANGED <<job, pc>>
    BY <1>6 DEF BundleNext
  <2>2. pc[p] = "next" /\ todo'[p] = todo[p] \ {r} /\ r \in Rom
    BY <1>1, <1>6, <2>1 DEF BundleNext, TypeOK
  <2>3. CASE UNCHANGED <<job, pc>>
    <3>1. Sound(p)'
      BY <1>1, <1>2, <2>2, <2>3 DEF Sound, Before
    <3> QED
      BY <1>3, <3>1 DEF WholeInv
  <2>4. CASE Exists(job[p].source[r])
    <3>1. PICK ext : ext = plannedConvertedExtension(p, r)
      OBVIOUS
    <3>2. PICK j : j = [job[p] EXCEPT !.rom = r, !.payload = job[p].source[r],
                                     !.ext = ext, !.staged = NoFile]
      OBVIOUS
    <3>3. /\ j.rom = r /\ j.payload = job[p].source[r] /\ j.source = job[p].source
          /\ j.staged = NoFile
      BY <1>1, <3>2 DEF Job
    <3>4. job' = [job EXCEPT ![p] = j]
      BY <2>1, <2>4, <3>1, <3>2
    <3>5. job'[p] = j /\ pc'[p] \in {"mkdir", "convert"}
      BY <1>1, <2>1, <2>4, <3>4, GotoAt DEF TypeOK
    <3>6. job[p].source[r] = rows[r].path /\ rows[r].path \notin Half /\ rows[r].path[1] # "out"
      <4>1. job[p].source[r] = rows[r].path /\ rows[r].path \notin Half /\ Known(r, rows[r].path)
        BY <1>1, <2>2 DEF Sound, RowsWhole, IInv, RowsKnown
      <4> QED
        BY <2>2, <4>1, SourceParts, KindAssumption DEF Known
    <3>7. Sound(p)'
      BY <1>1, <1>2, <1>3, <2>2, <2>4, <3>3, <3>5, <3>6 DEF Sound, SourceAt, Before, Exists
    <3> QED
      BY <1>3, <3>7 DEF WholeInv
  <2> QED
    BY <2>1, <2>3, <2>4
<1> QED
  BY <1>4, <1>5, <1>6

(* The only step that leaves a half file: the tool starts to write.  It    *)
(* writes over no row's file.                                              *)
LEMMA ToolStarts ==
    ASSUME NEW p, Proc = {p}, OwnStem, IInv, WholeInv, pc[p] = "convert",
           job[p].ext # SourceAt(p)[3], Goto(p, "tool"), UNCHANGED <<rows, job, todo>>,
           disk' = [disk EXCEPT ![ToolOutput(p)] = Holding(job[p].rom, job[p].ext, FALSE)]
    PROVE  WholeInv'
<1>1. /\ TypeOK /\ Sound(p) /\ JobOK(p) /\ RowsWhole /\ OutWhole /\ pc[p] \in Steps \ {"next"}
      /\ pc'[p] = "tool"
  BY GotoAt DEF IInv, WholeInv, Steps
<1>2. PICK x \in Path : x = ToolOutput(p) /\ x[1] # "out"
  BY <1>1, AtWork, WorkApart
<1>3. PICK r \in Rom : r = job[p].rom
  BY <1>1, AtWork
<1>4. /\ x[2] = Source[r][2] /\ x[3] # SourceAt(p)[3] /\ Planned[r] # "raw"
      /\ SourceAt(p) = rows[r].path
  <2>1. SourceAt(p)[3] = "raw" /\ job[p].ext = Planned[r] /\ SourceAt(p) = rows[r].path
    BY <1>1, <1>3 DEF JobOK, Sound, Before
  <2> QED
    BY <1>1, <1>2, <1>3, <2>1 DEF ToolOutput, RowsWhole
<1>5. ASSUME NEW q \in Rom PROVE rows[q].path # x
  <2>1. CASE q = r
    BY <1>4, <2>1
  <2>2. CASE q # r
    BY <1>1, <1>4, <2>2 DEF OwnStem, RowsWhole
  <2> QED
    BY <2>1, <2>2
<1>6. Half' \subseteq Half \cup {x}
  BY <1>1, <1>2 DEF Half, TypeOK
<1>7. RowsWhole' /\ OutWhole'
  BY <1>1, <1>2, <1>5, <1>6 DEF RowsWhole, OutWhole
<1>8. SourceAt(p)' = SourceAt(p) /\ Exists(SourceAt(p))' /\ job[p].payload = SourceAt(p)
  <2>1. SourceAt(p)' = SourceAt(p) /\ SourceAt(p) # x
    BY <1>4 DEF SourceAt
  <2>2. PICK s \in Path : s = SourceAt(p)
    BY <1>1, AtWork
  <2>3. disk'[s] # NoFile
    BY <1>1, <1>2, <2>1, <2>2 DEF Sound, Before, Exists, TypeOK
  <2> QED
    BY <1>1, <2>1, <2>2, <2>3 DEF Sound, Before, Exists
<1>9. Sound(p)'
  <2>1. job[p].payload \notin Half'
    BY <1>1, <1>4, <1>6, <1>8 DEF RowsWhole
  <2> QED
    BY <1>1, <1>3, <1>4, <1>8, <2>1 DEF Sound, Before
<1> QED
  BY <1>7, <1>9 DEF WholeInv

LEMMA UnconvertedSame ==
    ASSUME TypeOK, NEW p \in Proc, job' = Unconverted(p)
    PROVE  /\ job'[p].source = job[p].source /\ job'[p].rom = job[p].rom
           /\ job'[p].payload = job[p].payload /\ job'[p].staged = job[p].staged
<1>1. job[p] \in Job
  BY DEF TypeOK
<1>2. PICK j : j = [job[p] EXCEPT !.ext = SourceAt(p)[3]]
  OBVIOUS
<1>3. /\ j.source = job[p].source /\ j.rom = job[p].rom
      /\ j.payload = job[p].payload /\ j.staged = job[p].staged
  BY <1>1, <1>2 DEF Job
<1>4. job' = [job EXCEPT ![p] = j]
  BY <1>2 DEF Unconverted
<1> QED
  BY <1>3, <1>4 DEF TypeOK

LEMMA Converting ==
    ASSUME NEW p, Proc = {p}, OwnStem, IInv, WholeInv, MakeFolder(p) \/ Convert(p) \/ RunTool(p)
    PROVE  WholeInv'
<1>1. TypeOK /\ Sound(p) /\ JobOK(p) /\ RowsWhole /\ OutWhole /\ job[p] \in Job
  BY DEF IInv, WholeInv, TypeOK
<1>2. /\ pc[p] \in Before /\ UNCHANGED <<rows, todo>> /\ job[p].staged = NoFile
      /\ job[p].payload \notin Half /\ job[p].payload[1] # "out"
  BY <1>1 DEF MakeFolder, Convert, RunTool, Try, Before, Sound
<1>3. AfterConvert(p) \in {"clear", "stage"}
  BY DEF AfterConvert
<1>4. CASE MakeFolder(p)
  <2>1. UNCHANGED <<disk, rows, job, todo>> /\ (Goto(p, "convert") \/ Goto(p, "next"))
    BY <1>4 DEF MakeFolder, Try
  <2>2. CASE Goto(p, "convert")
    <3>1. pc'[p] = "convert"
      BY <1>1, <2>2, GotoAt
    <3>2. Half' = Half
      BY <2>1, SameHalf
    <3>3. Sound(p)'
      BY <1>1, <1>2, <2>1, <3>1, <3>2 DEF Sound, Before, SourceAt, Exists
    <3> QED
      BY <2>1, <3>2, <3>3, WrittenRows DEF WholeInv
  <2>3. CASE Goto(p, "next")
    <3>1. pc'[p] = "next"
      BY <1>1, <2>3, GotoAt
    <3> QED
      BY <1>2, <2>1, <3>1, SameHalf, OnStepSame DEF Before
  <2> QED
    BY <2>1, <2>2, <2>3
<1>5. CASE Convert(p)
  <2>1. CASE UNCHANGED <<disk, job>> /\ Goto(p, AfterConvert(p))
    <3>1. pc'[p] \in {"clear", "stage"}
      BY <1>1, <1>3, <2>1, GotoAt
    <3> QED
      BY <1>2, <2>1, <3>1, SameHalf, OnStepSame DEF Before
  <2>2. CASE UNCHANGED disk /\ job' = Unconverted(p) /\ Goto(p, AfterConvert(p))
    <3>1. pc'[p] \in {"clear", "stage"}
      BY <1>1, <1>3, <2>2, GotoAt
    <3>2. Half' = Half
      BY <2>2, SameHalf
    <3> QED
      BY <1>1, <1>2, <2>2, <3>1, <3>2, UnconvertedSame, OnStep DEF Before
  <2> QED
    BY <1>2, <1>5, <2>1, <2>2, ToolStarts DEF Convert
<1>6. CASE RunTool(p)
  <2>1. PICK done \in BOOLEAN :
        /\ disk' = IF done /\ Exists(SourceAt(p))
                   THEN [disk EXCEPT ![ToolOutput(p)] = Holding(job[p].rom, job[p].ext, TRUE)]
                   ELSE disk
        /\ job' = IF ToolSucceeded(p, done)
                  THEN [job EXCEPT ![p].payload = ToolOutput(p)] ELSE Unconverted(p)
    BY <1>6 DEF RunTool
  <2>2. Exists(SourceAt(p)) /\ pc[p] = "tool" /\ pc'[p] \in {"clear", "stage"}
    BY <1>1, <1>2, <1>3, <1>6, GotoAt DEF RunTool, Sound
  <2>3. PICK x \in Path : x = ToolOutput(p) /\ x[1] # "out"
    BY <2>2, AtWork, WorkApart DEF Steps
  <2>4. Half' \subseteq Half /\ (done => x \notin Half')
    <3>1. CASE done
      <4>1. PICK c : c = Holding(job[p].rom, job[p].ext, TRUE)
        OBVIOUS
      <4>2. c.whole /\ disk' = [disk EXCEPT ![x] = c]
        BY <2>1, <2>2, <2>3, <3>1, <4>1 DEF Holding
      <4> QED
        BY <1>1, <4>2, WholeWritten
    <3>2. CASE ~done
      BY <2>1, <3>2, SameHalf
    <3> QED
      BY <3>1, <3>2
  <2>5. CASE job' = Unconverted(p)
    BY <1>1, <1>2, <2>2, <2>4, <2>5, UnconvertedSame, OnStep DEF Before
  <2>6. CASE job' = [job EXCEPT ![p].payload = ToolOutput(p)] /\ done
    <3>1. PICK j : j = [job[p] EXCEPT !.payload = x]
      OBVIOUS
    <3>2. /\ j.source = job[p].source /\ j.rom = job[p].rom
          /\ j.payload = x /\ j.staged = job[p].staged
      BY <1>1, <3>1 DEF Job
    <3>3. job' = [job EXCEPT ![p] = j]
      BY <2>3, <2>6, <3>1
    <3>4. job'[p] = j
      BY <1>1, <3>3 DEF TypeOK
    <3> QED
      BY <1>2, <2>2, <2>3, <2>4, <2>6, <3>2, <3>4, OnStep DEF Before
  <2> QED
    BY <2>1, <2>5, <2>6 DEF ToolSucceeded
<1> QED
  BY <1>4, <1>5, <1>6

LEMMA Copying ==
    ASSUME NEW p, Proc = {p}, IInv, WholeInv,
           ClearFolderRom(p) \/ CopyToFolder(p) \/ StagePayload(p) \/ DropPayload(p) \/ WriteMarker(p)
    PROVE  WholeInv'
<1>1. /\ TypeOK /\ Sound(p) /\ job[p] \in Job /\ pc[p] \in Steps \ {"next"}
      /\ pc[p] \notin {"idle", "next"} /\ UNCHANGED <<rows, todo>>
  BY DEF IInv, WholeInv, TypeOK, ClearFolderRom, CopyToFolder, StagePayload, DropPayload, WriteMarker,
         Try, Steps
<1>2. PICK x \in Path : x = FolderRom(p)
  BY <1>1, AtWork
<1>3. job[p].payload \in Path /\ job[p].payload \notin Half /\ job[p].payload[1] # "out"
  BY <1>1, AtWork DEF Sound
<1>4. CASE ClearFolderRom(p)
  <2>1. /\ job[p].staged = NoFile /\ UNCHANGED job
    BY <1>1, <1>4 DEF ClearFolderRom, Sound
  <2>2. CASE /\ disk' = disk
             /\ \/ Goto(p, "copy")
                \/ Goto(p, "next")
                \/ Goto(p, "drop") /\ job[p].payload = x
    <3>1. CASE pc'[p] \in {"copy", "next"}
      BY <1>1, <2>1, <2>2, <3>1, SameHalf, OnStepSame DEF Before
    <3>2. CASE pc'[p] = "drop" /\ FolderRom(p) \notin Half
      BY <1>1, <2>1, <2>2, <3>2, SameHalf, OnStepSame DEF Before
    <3>3. CASE Goto(p, "drop") /\ job[p].payload = x
      BY <1>1, <1>2, <1>3, <3>2, <3>3, GotoAt
    <3> QED
      BY <1>1, <2>2, <3>1, <3>3, GotoAt
  <2>3. CASE disk' = [disk EXCEPT ![x] = NoFile] /\ (Goto(p, "copy") \/ Goto(p, "next"))
    <3>1. pc'[p] \in {"copy", "next"}
      BY <1>1, <2>3, GotoAt
    <3>2. Half' \subseteq Half
      BY <1>1, <2>3, WholeWritten
    <3> QED
      BY <1>1, <2>1, <3>1, <3>2, OnStepSame DEF Before
  <2> QED
    BY <1>2, <1>4, <2>2, <2>3 DEF ClearFolderRom
<1>5. CASE CopyToFolder(p)
  <2>1. UNCHANGED job
    BY <1>5 DEF CopyToFolder
  <2>2. CASE /\ Exists(job[p].payload) /\ Goto(p, "drop")
             /\ disk' = [disk EXCEPT ![x] = disk[job[p].payload]]
    <3>1. pc'[p] = "drop"
      BY <1>1, <2>2, GotoAt
    <3>2. PICK c : c = disk[job[p].payload]
      OBVIOUS
    <3>3. c.whole
      BY <1>3, <2>2, <3>2 DEF Half, Exists
    <3>4. Half' \subseteq Half /\ x \notin Half'
      BY <1>1, <2>2, <3>2, <3>3, WholeWritten
    <3> QED
      BY <1>1, <1>2, <2>1, <3>1, <3>4, OnStepSame DEF Before
  <2>3. CASE UNCHANGED disk /\ Goto(p, "next")
    <3>1. pc'[p] = "next"
      BY <1>1, <2>3, GotoAt
    <3> QED
      BY <1>1, <2>1, <2>3, <3>1, SameHalf, OnStepSame DEF Before
  <2> QED
    BY <1>2, <1>5, <2>2, <2>3 DEF CopyToFolder
<1>6. CASE StagePayload(p)
  <2>1. UNCHANGED disk
    BY <1>6 DEF StagePayload
  <2>2. CASE /\ Exists(job[p].payload) /\ Goto(p, "drop")
             /\ job' = [job EXCEPT ![p].staged = disk[job[p].payload]]
    <3>1. pc'[p] = "drop" /\ Half' = Half
      BY <1>1, <2>1, <2>2, GotoAt, SameHalf
    <3>2. PICK c : c = disk[job[p].payload]
      OBVIOUS
    <3>3. c # NoFile /\ c.whole
      BY <1>3, <2>2, <3>2 DEF Half, Exists
    <3>4. PICK j : j = [job[p] EXCEPT !.staged = c]
      OBVIOUS
    <3>5. /\ j.source = job[p].source /\ j.rom = job[p].rom
          /\ j.payload = job[p].payload /\ j.staged = c
      BY <1>1, <3>4 DEF Job
    <3>6. job' = [job EXCEPT ![p] = j]
      BY <2>2, <3>2, <3>4
    <3>7. job'[p] = j
      BY <1>1, <3>6 DEF TypeOK
    <3> QED
      BY <1>1, <1>3, <3>1, <3>3, <3>5, <3>7, OnStep DEF Before
  <2>3. CASE UNCHANGED job /\ Goto(p, "next")
    <3>1. pc'[p] = "next"
      BY <1>1, <2>3, GotoAt
    <3> QED
      BY <1>1, <2>1, <2>3, <3>1, SameHalf, OnStepSame DEF Before
  <2> QED
    BY <1>6, <2>2, <2>3 DEF StagePayload
<1>7. CASE DropPayload(p)
  <2>1. /\ pc[p] = "drop" /\ UNCHANGED job /\ pc'[p] = "marker"
        /\ disk' = [y \in Path |-> IF y \in Dropped(p) THEN NoFile ELSE disk[y]] \/ disk' = disk
    BY <1>1, <1>7, GotoAt DEF DropPayload
  <2>2. Half' \subseteq Half
    BY <2>1 DEF Half
  <2> QED
    BY <1>1, <2>1, <2>2, OnStepSame DEF Before, Sound
<1>8. CASE WriteMarker(p)
  <2>1. /\ pc[p] = "marker" /\ UNCHANGED <<disk, job>>
        /\ \/ Goto(p, "next")
           \/ Goto(p, "path") /\ job[p].staged = NoFile
           \/ Goto(p, "compress") /\ job[p].staged # NoFile
    BY <1>8 DEF WriteMarker, Try
  <2>2. \/ pc'[p] \in {"next", "compress"}
        \/ pc'[p] = "path" /\ job[p].staged = NoFile
    BY <1>1, <2>1, GotoAt
  <2>3. Half' = Half
    BY <2>1, SameHalf
  <2> QED
    BY <1>1, <2>1, <2>2, <2>3, OnStepSame DEF Before, Sound
<1> QED
  BY <1>4, <1>5, <1>6, <1>7, <1>8

LEMMA MakingZip ==
    ASSUME NEW p, Proc = {p}, IInv, WholeInv,
           Compress(p) \/ RemoveOld(p) \/ RenameTemp(p) \/ CleanTemp(p)
    PROVE  WholeInv'
<1>1. /\ TypeOK /\ Sound(p) /\ JobOK(p) /\ OutWhole /\ job[p] \in Job /\ pc[p] \in Steps \ {"next"}
      /\ pc[p] \notin {"idle", "next"} /\ UNCHANGED <<rows, job, todo>>
  BY DEF IInv, WholeInv, TypeOK, Compress, RemoveOld, RenameTemp, CleanTemp, Steps
<1>2. job[p].rom \in Rom
  BY <1>1, AtWork
<1>3. PICK zip \in Path, tmp \in Path : zip = ZipPath(job[p].rom) /\ tmp = TempZip(job[p].rom)
  BY <1>2, TitlePaths
<1>4. tmp[1] = "out" /\ zip[1] = "out" /\ zip # tmp
  BY <1>2, <1>3, TempApart DEF TempZip, ZipPath
<1>5. pc'[p] \in {"remove", "rename", "cleanup", "mark", "next"}
  BY <1>1, GotoAt DEF Compress, RemoveOld, RenameTemp, CleanTemp, GiveUp
<1>6. Half' \subseteq Half
  <2>1. CASE Compress(p)
    <3>1. PICK c \in {Zipped(p), CutShort(p), disk[tmp], NoFile} : disk' = [disk EXCEPT ![tmp] = c]
      BY <1>3, <2>1 DEF Compress
    <3>2. job[p].staged.whole
      BY <1>1, <2>1 DEF Compress, JobOK, Sound
    <3>3. Zipped(p).whole /\ CutShort(p).ext = "cut"
      BY <3>2 DEF Zipped, CutShort, Holding
    <3>4. CASE c = disk[tmp]
      BY <1>1, <3>1, <3>4, SameHalf DEF TypeOK
    <3>5. CASE c # disk[tmp]
      BY <1>1, <1>4, <3>1, <3>3, <3>5, WholeWritten
    <3> QED
      BY <3>4, <3>5
  <2>2. CASE RemoveOld(p) \/ CleanTemp(p)
    <3>1. disk' = disk \/ disk' = [disk EXCEPT ![zip] = NoFile] \/ disk' = [disk EXCEPT ![tmp] = NoFile]
      BY <1>3, <2>2 DEF RemoveOld, CleanTemp
    <3> QED
      BY <1>1, <3>1, WholeWritten, SameHalf
  <2>3. CASE RenameTemp(p)
    <3>1. disk' = disk \/ disk' = [disk EXCEPT ![zip] = disk[tmp], ![tmp] = NoFile]
      BY <1>3, <2>3 DEF RenameTemp
    <3>2. tmp \notin Half
      BY <1>1, <1>4 DEF OutWhole
    <3> QED
      BY <1>1, <1>4, <3>1, <3>2 DEF Half, TypeOK
  <2> QED
    BY <2>1, <2>2, <2>3
<1> QED
  BY <1>1, <1>5, <1>6, OnStepSame DEF Before

LEMMA Saving ==
    ASSUME NEW p, Proc = {p}, IInv, WholeInv, updateFilePath(p) \/ markFileBundled(p) \/ Crash(p)
    PROVE  WholeInv'
<1>1. /\ TypeOK /\ Sound(p) /\ RowsWhole /\ OutWhole /\ job[p] \in Job /\ UNCHANGED disk
      /\ rows \in [Rom -> Row]
  BY DEF IInv, WholeInv, TypeOK, updateFilePath, markFileBundled, Crash
<1>2. Half' = Half /\ OutWhole'
  BY <1>1, SameHalf DEF OutWhole
<1>3. CASE Crash(p)
  <2>1. job'[p] = NoJob /\ pc'[p] = "idle" /\ UNCHANGED rows
    BY <1>1, <1>3, GotoAt DEF Crash, TypeOK
  <2>2. Sound(p)'
    BY <2>1 DEF Sound, NoJob, Before
  <2> QED
    BY <1>2, <2>1, <2>2, WrittenRows DEF WholeInv
<1>4. CASE updateFilePath(p)
  <2>1. /\ pc[p] = "path" /\ pc[p] \in Steps \ {"next"} /\ UNCHANGED <<job, todo>>
        /\ rows' = rows \/ rows' = [rows EXCEPT ![job[p].rom].path = FolderRom(p)]
    BY <1>4 DEF updateFilePath, Steps
  <2>2. pc'[p] \in {"mark", "next"} /\ job[p].rom \in Rom
    BY <1>1, <1>4, <2>1, GotoAt, AtWork DEF updateFilePath
  <2>3. FolderRom(p) \notin Half /\ FolderRom(p)[2] = Source[job[p].rom][2]
    BY <1>1, <2>1, <2>2 DEF Sound, FolderRom, SourceAt
  <2>4. \A r \in Rom \ {job[p].rom} : rows'[r] = rows[r]
    BY <1>1, <2>1
  <2>5. rows'[job[p].rom].path \in {rows[job[p].rom].path, FolderRom(p)}
    BY <1>1, <2>1, <2>2 DEF Row
  <2>6. RowsWhole'
    BY <1>1, <1>2, <2>3, <2>4, <2>5 DEF RowsWhole
  <2>7. Sound(p)'
    <3>1. job[p].rom \notin todo[p] /\ todo[p] \subseteq Rom
      BY <1>1, <2>1 DEF Sound, TypeOK
    <3> QED
      BY <1>1, <1>2, <2>1, <2>2, <2>4, <3>1 DEF Sound, Before
  <2> QED
    BY <1>2, <2>6, <2>7 DEF WholeInv
<1>5. CASE markFileBundled(p)
  <2>1. /\ pc[p] = "mark" /\ UNCHANGED <<job, todo>> /\ pc'[p] = "next"
        /\ \E b : rows' = rows \/ rows' = [rows EXCEPT ![job[p].rom].bundled = b]
    BY <1>1, <1>5, GotoAt DEF markFileBundled
  <2>2. \A r \in Rom : rows'[r].path = rows[r].path
    BY <1>1, <2>1 DEF Row
  <2>3. RowsWhole'
    BY <1>1, <1>2, <2>2 DEF RowsWhole
  <2>4. Sound(p)'
    <3>1. todo[p] \subseteq Rom
      BY <1>1 DEF TypeOK
    <3> QED
      BY <1>1, <1>2, <2>1, <2>2, <3>1 DEF Sound, Before
  <2> QED
    BY <1>2, <2>3, <2>4 DEF WholeInv
<1> QED
  BY <1>3, <1>4, <1>5

(* With one command at a time: what a row calls its bundle is never half a *)
(* file, wherever a tool fails or the process dies, but a zip whose        *)
(* writing broke off; if no row to convert shares its stem with another.   *)
THEOREM BundlesAreWhole ==
    ASSUME \E p : Proc = {p}, OwnStem
    PROVE  Spec => []BundledIsWhole
<1>1. Init => WholeInv
  <2> SUFFICES ASSUME Init PROVE WholeInv
    OBVIOUS
  <2>1. Half = {}
    BY DEF Init, Half, Holding
  <2>2. RowsWhole /\ OutWhole
    BY <2>1 DEF Init, RowsWhole, OutWhole
  <2>3. \A p \in Proc : Sound(p)
    BY DEF Init, Sound, NoJob, Before
  <2> QED
    BY <2>2, <2>3 DEF WholeInv
<1>2. IInv /\ WholeInv /\ [Next]_vars => WholeInv'
  <2> SUFFICES ASSUME IInv, WholeInv, [Next]_vars PROVE WholeInv'
    OBVIOUS
  <2>1. PICK p : Proc = {p}
    OBVIOUS
  <2>2. CASE UNCHANGED vars
    <3>1. UNCHANGED <<disk, rows, pc, job, todo>> /\ Half' = Half
      BY <2>2, SameHalf DEF vars
    <3> QED
      BY <3>1 DEF WholeInv, RowsWhole, OutWhole, Sound, SourceAt, Exists, FolderRom
  <2>3. CASE Next
    BY <2>1, <2>3, BetweenRows, Converting, Copying, MakingZip, Saving DEF Next
  <2> QED
    BY <2>2, <2>3
<1>3. IInv /\ WholeInv => BundledIsWhole
  <2> SUFFICES ASSUME IInv, WholeInv, NEW r \in Rom, Bundle(r) # NoFile 
               PROVE  Bundle(r).whole \/ Bundle(r).ext = "cut"
    BY DEF BundledIsWhole
  <2>1. ZipPath(r) \in Path /\ ZipPath(r)[1] = "out" /\ rows[r].path \in Path
    BY TitlePaths DEF ZipPath, IInv, TypeOK, Row
  <2>2. ZipPath(r) \notin Half /\ rows[r].path \notin Half
    BY <2>1 DEF WholeInv, OutWhole, RowsWhole
  <2> QED
    BY <2>1, <2>2 DEF Bundle, Half
<1> QED
  BY InitStep, NextStep, <1>1, <1>2, <1>3, PTL DEF Spec
-----------------------------------------------------------------------------
(* Where the bundle is, for one process                                    *)

(* A disk d has at x a file made from r's, with this extension.            *)
Has(d, x, r, ext) == d[x] # NoFile /\ d[x].rom = r /\ d[x].ext = ext

HasZip(d, x, r) == Has(d, x, r, "zip") \/ Has(d, x, r, "cut")

(* The names of the module for any locals j.                               *)
At(j) == j.source[j.rom]
Tool(j) == <<At(j)[1], At(j)[2], j.ext>>
Folder(j) == <<TitleOf[j.rom], At(j)[2], j.ext>>

(* At each step of a row bundled from where it was scanned, what there is  *)
(* so far of its bundle holds it and is what its extension says.           *)
InPlace(step, j, d, rw) ==
    /\ step \in {"clear", "copy", "stage"} => Has(d, j.payload, j.rom, j.ext)
    /\ step \in {"drop", "marker", "path"} /\ j.staged = NoFile => Has(d, Folder(j), j.rom, j.ext)
    /\ step \in {"drop", "marker", "compress"} /\ j.staged # NoFile => j.staged.rom = j.rom
    /\ step \in {"remove", "rename"} => HasZip(d, TempZip(j.rom), j.rom)
    /\ step = "mark" /\ j.staged = NoFile => rw[j.rom].path = Folder(j) /\ Has(d, Folder(j), j.rom, j.ext)
    /\ step = "mark" /\ j.staged # NoFile => HasZip(d, ZipPath(j.rom), j.rom)

Placed(step, j, d, rw) ==
    /\ step \in Before \cup {"clear", "copy", "stage", "path"} => j.staged = NoFile
    /\ step \in {"compress", "remove", "rename"} => j.staged # NoFile
    /\ step \in Before => j.payload = At(j)
    /\ step \notin {"idle", "next"} => j.payload \in {At(j), Tool(j)}
    /\ step \notin {"idle", "next"} /\ At(j) = Source[j.rom] => InPlace(step, j, d, rw)

SourcesStay == \A r \in Rom : disk[Source[r]] = Holding(r, Source[r][3], TRUE)

PlacedInv == SourcesStay /\ \A p \in Proc : Placed(pc[p], job[p], disk, rows)

LEMMA Names ==
    ASSUME NEW p
    PROVE  At(job[p]) = SourceAt(p) /\ Tool(job[p]) = ToolOutput(p) /\ Folder(job[p]) = FolderRom(p)
BY DEF At, Tool, Folder, SourceAt, ToolOutput, FolderRom

(* What a converter writes is no row's source.                             *)
LEMMA ToolSpares ==
    ASSUME OwnStem, IInv, NEW p \in Proc, pc[p] \in Steps \ {"next"}, job[p].ext # SourceAt(p)[3],
           NEW q \in Rom
    PROVE  ToolOutput(p) # Source[q]
<1>1. PICK r \in Rom : /\ r = job[p].rom /\ Known(r, SourceAt(p)) /\ SourceAt(p)[3] = "raw"
                       /\ job[p].ext = Planned[r]
  BY AtWork DEF IInv, JobOK, Steps
<1>2. ToolOutput(p)[1] = SourceAt(p)[1] /\ ToolOutput(p)[2] = SourceAt(p)[2] /\ ToolOutput(p)[3] # "raw"
  BY <1>1 DEF ToolOutput
<1>3. CASE SourceAt(p)[1] \in Title
  BY <1>2, <1>3, SourceParts, KindAssumption
<1>4. CASE SourceAt(p) = Source[r]
  BY <1>1, <1>2, <1>4 DEF OwnStem
<1> QED
  BY <1>1, <1>3, <1>4 DEF Known

(* The names a process at work uses are apart.                             *)
LEMMA NamesApart ==
    ASSUME IInv, NEW p \in Proc, pc[p] \in Steps \ {"next"}
    PROVE  /\ FolderRom(p)[1] \in Title
           /\ \A q \in Rom : FolderRom(p) # Source[q]
           /\ \A q, r \in Rom : ZipPath(r) # Source[q] /\ TempZip(r) # Source[q]
           /\ job[p].payload \in {SourceAt(p), ToolOutput(p)} /\ SourceAt(p) = Source[job[p].rom]
              => job[p].payload # FolderRom(p)
<1>1. job[p].rom \in Rom
  BY AtWork
<1>2. FolderRom(p)[1] \in Title
  BY <1>1, TitlePaths DEF FolderRom
<1>3. \A q \in Rom : Source[q][1] = "lib"
  BY SourceParts
<1>4. ToolOutput(p)[1] = SourceAt(p)[1]
  BY DEF ToolOutput
<1>5. \A r \in Rom : ZipPath(r)[1] = "out" /\ TempZip(r)[1] = "out"
  BY DEF ZipPath, TempZip
<1> QED
  BY <1>1, <1>2, <1>3, <1>4, <1>5, KindAssumption

LEMMA SourcesKept ==
    ASSUME NEW p, Proc = {p}, OwnStem, IInv, PlacedInv, Next
    PROVE  SourcesStay'
<1>1. /\ TypeOK /\ SourcesStay /\ Placed(pc[p], job[p], disk, rows) /\ p \in Proc
      /\ \A q \in Rom : Source[q] \in Path
  BY SourceParts DEF PlacedInv, IInv
<1>2. SUFFICES ASSUME NEW q \in Rom PROVE disk'[Source[q]] = disk[Source[q]]
  BY <1>1 DEF SourcesStay
<1>3. CASE UNCHANGED disk
  BY <1>3
<1>4. ASSUME NEW x \in Path, x # Source[q], NEW c, disk' = [disk EXCEPT ![x] = c]
      PROVE  disk'[Source[q]] = disk[Source[q]]
  BY <1>1, <1>4 DEF TypeOK
<1>5. CASE Convert(p)
  <2>1. pc[p] \in Steps \ {"next"}
    BY <1>5 DEF Convert, Steps
  <2> QED
    BY <1>3, <1>4, <1>5, <2>1, AtWork, ToolSpares DEF Convert
<1>6. CASE RunTool(p)
  <2>1. pc[p] \in Steps \ {"next"} /\ job[p].ext # SourceAt(p)[3]
    BY <1>6 DEF RunTool, Steps, IInv, JobOK
  <2> QED
    BY <1>3, <1>4, <1>6, <2>1, AtWork, ToolSpares DEF RunTool
<1>7. CASE ClearFolderRom(p) \/ CopyToFolder(p)
  <2>1. pc[p] \in Steps \ {"next"}
    BY <1>7 DEF ClearFolderRom, CopyToFolder, Steps
  <2>2. FolderRom(p) \in Path /\ FolderRom(p) # Source[q]
    BY <2>1, AtWork, NamesApart
  <2>3. \/ UNCHANGED disk
        \/ \E c : disk' = [disk EXCEPT ![FolderRom(p)] = c]
    BY <1>7 DEF ClearFolderRom, CopyToFolder
  <2> QED
    BY <1>3, <1>4, <2>2, <2>3
<1>8. CASE DropPayload(p)
  <2>1. pc[p] = "drop" /\ pc[p] \in Steps \ {"next"}
    BY <1>8 DEF DropPayload, Steps
  <2>2. Source[q] \notin Dropped(p)
    <3>1. job[p].payload \in {SourceAt(p), ToolOutput(p)}
      BY <1>1, <2>1, Names DEF Placed
    <3>2. CASE job[p].ext = SourceAt(p)[3]
      <4>1. PICK x \in Path : x = SourceAt(p)
        BY <2>1, AtWork
      <4>2. ToolOutput(p) = SourceAt(p)
        BY <3>2, <4>1, PathParts DEF ToolOutput
      <4> QED
        BY <3>1, <4>2 DEF Dropped
    <3>3. CASE job[p].ext # SourceAt(p)[3]
      BY <2>1, <3>1, <3>3, ToolSpares DEF Dropped
    <3> QED
      BY <3>2, <3>3
  <2> QED
    BY <1>1, <1>8, <2>2 DEF DropPayload
<1>9. CASE Compress(p) \/ RemoveOld(p) \/ RenameTemp(p) \/ CleanTemp(p)
  <2>1. pc[p] \in Steps \ {"next"}
    BY <1>9 DEF Compress, RemoveOld, RenameTemp, CleanTemp, Steps
  <2>2. job[p].rom \in Rom
    BY <2>1, AtWork
  <2>3. PICK zip \in Path, tmp \in Path : zip = ZipPath(job[p].rom) /\ tmp = TempZip(job[p].rom)
    BY <2>2, TitlePaths
  <2>4. zip # Source[q] /\ tmp # Source[q]
    BY <2>1, <2>2, <2>3, NamesApart
  <2>5. \/ UNCHANGED disk
        \/ \E c : disk' = [disk EXCEPT ![tmp] = c]
        \/ \E c : disk' = [disk EXCEPT ![zip] = c]
        \/ \E c, e : disk' = [disk EXCEPT ![zip] = c, ![tmp] = e]
    BY <1>9, <2>3 DEF Compress, RemoveOld, RenameTemp, CleanTemp
  <2> QED
    BY <1>1, <2>4, <2>5 DEF TypeOK
<1> QED
  BY <1>3, <1>5, <1>6, <1>7, <1>8, <1>9 DEF Next, organizeLibrary, BundleNext, MakeFolder, updateFilePath,
     StagePayload, WriteMarker, markFileBundled, Crash

LEMMA PlacedBegin ==
    ASSUME NEW p, Proc = {p}, IInv, PlacedInv, organizeLibrary(p) \/ BundleNext(p)
    PROVE  Placed(pc'[p], job'[p], disk', rows')
<1>1. TypeOK /\ p \in Proc /\ job[p] \in Job
  BY DEF IInv, TypeOK
<1>2. CASE organizeLibrary(p) \/ todo[p] = {}
  <2>1. pc'[p] \in {"next", "idle"}
    BY <1>1, <1>2, GotoAt DEF organizeLibrary, BundleNext
  <2> QED
    BY <2>1 DEF Placed, Before
<1>3. CASE BundleNext(p) /\ todo[p] # {}
  <2>1. PICK r \in todo[p] :
          IF Exists(job[p].source[r])
          THEN /\ job' = [job EXCEPT ![p].rom = r, ![p].payload = job[p].source[r],
                                     ![p].ext = plannedConvertedExtension(p, r),
                                     ![p].staged = NoFile]
               /\ Goto(p, IF usesFolderBundle(p, r) THEN "mkdir" ELSE "convert")
          ELSE UNCHANGED <<job, pc>>
    BY <1>3 DEF BundleNext
  <2>2. CASE UNCHANGED pc
    BY <1>3, <2>2 DEF BundleNext, Placed, Before
  <2>3. CASE Exists(job[p].source[r])
    <3>1. PICK ext : ext = plannedConvertedExtension(p, r)
      OBVIOUS
    <3>2. PICK j : j = [job[p] EXCEPT !.rom = r, !.payload = job[p].source[r],
                                     !.ext = ext, !.staged = NoFile]
      OBVIOUS
    <3>3. j.rom = r /\ j.payload = job[p].source[r] /\ j.source = job[p].source /\ j.staged = NoFile
      BY <1>1, <3>2 DEF Job
    <3>4. job' = [job EXCEPT ![p] = j]
      BY <2>1, <2>3, <3>1, <3>2
    <3>5. job'[p] = j /\ pc'[p] \in {"mkdir", "convert"}
      BY <1>1, <2>1, <2>3, <3>4, GotoAt DEF TypeOK
    <3> QED
      BY <3>3, <3>5 DEF Placed, InPlace, At, Before
  <2> QED
    BY <2>1, <2>2, <2>3
<1> QED
  BY <1>2, <1>3

LEMMA UnconvertedParts ==
    ASSUME TypeOK, NEW p \in Proc, job' = Unconverted(p)
    PROVE  /\ job'[p].ext = SourceAt(p)[3] /\ At(job'[p]) = SourceAt(p)
           /\ job'[p].rom = job[p].rom /\ job'[p].payload = job[p].payload
           /\ job'[p].staged = job[p].staged
<1>1. PICK j : j = [job[p] EXCEPT !.ext = SourceAt(p)[3]]
  OBVIOUS
<1>2. j.ext = SourceAt(p)[3]
  BY <1>1 DEF TypeOK, Job
<1>3. job' = [job EXCEPT ![p] = j]
  BY <1>1 DEF Unconverted
<1> QED
  BY <1>2, <1>3, UnconvertedSame DEF TypeOK, At, SourceAt

LEMMA HoldingParts ==
    ASSUME NEW r \in Rom, NEW ext \in Ext \cup {"cut"}, NEW whole \in BOOLEAN
    PROVE  /\ Holding(r, ext, whole) # NoFile
           /\ Holding(r, ext, whole).rom = r /\ Holding(r, ext, whole).ext = ext
BY NoFileAssumption DEF Holding

LEMMA WholeParts ==
    ASSUME NEW r \in Rom, NEW ext \in Ext
    PROVE  /\ Holding(r, ext, TRUE) # NoFile
           /\ Holding(r, ext, TRUE).rom = r /\ Holding(r, ext, TRUE).ext = ext
<1>1. ext \in Ext \cup {"cut"}
  OBVIOUS
<1> QED
  BY <1>1, HoldingParts, Zenon

LEMMA HasMade ==
    ASSUME NEW r \in Rom, NEW ext \in Ext, NEW d, NEW x, d[x] = Holding(r, ext, TRUE)
    PROVE  Has(d, x, r, ext)
<1>1. PICK c : c = Holding(r, ext, TRUE)
  OBVIOUS
<1>2. c # NoFile /\ c.rom = r /\ c.ext = ext
  BY <1>1, WholeParts, Zenon
<1> QED
  BY <1>1, <1>2 DEF Has

(* A source that is not converted is its own payload.                      *)
LEMMA SourceHas ==
    ASSUME SourcesStay', NEW r \in Rom
    PROVE  Has(disk', Source[r], r, Source[r][3])
<1>1. Source[r][3] \in Ext
  BY SourceParts DEF Ext
<1>2. disk'[Source[r]] = Holding(r, Source[r][3], TRUE)
  BY DEF SourcesStay
<1> QED
  BY <1>1, <1>2, HasMade

LEMMA PlacedConvert ==
    ASSUME NEW p, Proc = {p}, OwnStem, IInv, PlacedInv, SourcesStay',
           MakeFolder(p) \/ Convert(p) \/ RunTool(p)
    PROVE  Placed(pc'[p], job'[p], disk', rows')
<1>1. /\ TypeOK /\ p \in Proc /\ job[p] \in Job /\ JobOK(p) /\ Placed(pc[p], job[p], disk, rows)
      /\ pc[p] \in Before /\ pc[p] \in Steps \ {"next"}
  BY DEF IInv, TypeOK, PlacedInv, MakeFolder, Convert, RunTool, Try, Before, Steps
<1>2. /\ job[p].staged = NoFile /\ job[p].rom \in Rom
      /\ job[p].payload \in {SourceAt(p), ToolOutput(p)}
      /\ job[p].payload = SourceAt(p)
  BY <1>1, AtWork, Names DEF Placed, Before
<1>3. AfterConvert(p) \in {"clear", "stage"}
  BY DEF AfterConvert
(* The tool has nothing to do, or failed.                                  *)
<1>4. ASSUME pc'[p] \in {"clear", "stage"}, At(job'[p]) = SourceAt(p), job'[p].ext = SourceAt(p)[3],
             job'[p].rom = job[p].rom, job'[p].payload = job[p].payload, job'[p].staged = NoFile,
             job[p].payload = SourceAt(p)
      PROVE  Placed(pc'[p], job'[p], disk', rows')
  <2>1. SourceAt(p) = Source[job[p].rom] => Has(disk', SourceAt(p), job[p].rom, SourceAt(p)[3])
    BY <1>2, SourceHas
  <2> QED
    BY <1>4, <2>1 DEF Placed, InPlace, Before
<1>5. CASE MakeFolder(p)
  <2>1. pc'[p] \in {"convert", "next"} /\ UNCHANGED <<disk, rows, job>>
    BY <1>1, <1>5, GotoAt DEF MakeFolder, Try
  <2> QED
    BY <1>1, <1>2, <2>1, Names DEF Placed, InPlace, Before
<1>6. CASE Convert(p)
  <2>1. CASE job[p].ext = SourceAt(p)[3] /\ Goto(p, AfterConvert(p)) /\ UNCHANGED <<disk, job>>
    <3>1. pc'[p] \in {"clear", "stage"}
      BY <1>1, <1>3, <2>1, GotoAt
    <3>2. /\ At(job'[p]) = SourceAt(p) /\ job'[p].ext = SourceAt(p)[3] /\ job'[p].rom = job[p].rom
          /\ job'[p].payload = job[p].payload /\ job'[p].staged = NoFile
      BY <1>2, <2>1, Names
    <3> QED
      BY <1>2, <1>4, <3>1, <3>2
  <2>2. CASE Goto(p, "tool") /\ UNCHANGED job
    <3>1. pc'[p] = "tool"
      BY <1>1, <2>2, GotoAt
    <3> QED
      BY <1>1, <1>2, <2>2, <3>1, Names DEF Placed, InPlace, Before
  <2>3. CASE job' = Unconverted(p) /\ Goto(p, AfterConvert(p))
    <3>1. pc'[p] \in {"clear", "stage"}
      BY <1>1, <1>3, <2>3, GotoAt
    <3>2. /\ At(job'[p]) = SourceAt(p) /\ job'[p].ext = SourceAt(p)[3] /\ job'[p].rom = job[p].rom
          /\ job'[p].payload = job[p].payload /\ job'[p].staged = NoFile
      BY <1>1, <1>2, <2>3, UnconvertedParts
    <3> QED
      BY <1>2, <1>4, <3>1, <3>2
  <2> QED
    BY <1>6, <2>1, <2>2, <2>3 DEF Convert
<1>7. CASE RunTool(p)
  <2>1. PICK done \in BOOLEAN :
        /\ disk' = IF done /\ Exists(SourceAt(p))
                   THEN [disk EXCEPT ![ToolOutput(p)] = Holding(job[p].rom, job[p].ext, TRUE)]
                   ELSE disk
        /\ job' = IF ToolSucceeded(p, done)
                  THEN [job EXCEPT ![p].payload = ToolOutput(p)] ELSE Unconverted(p)
    BY <1>7 DEF RunTool
  <2>2. pc'[p] \in {"clear", "stage"}
    BY <1>1, <1>3, <1>7, GotoAt DEF RunTool
  <2>3. CASE job' = Unconverted(p)
    <3>2. /\ At(job'[p]) = SourceAt(p) /\ job'[p].ext = SourceAt(p)[3] /\ job'[p].rom = job[p].rom
          /\ job'[p].payload = job[p].payload /\ job'[p].staged = NoFile
      BY <1>1, <1>2, <2>3, UnconvertedParts
    <3> QED
      BY <1>2, <1>4, <2>2, <3>2
  <2>4. CASE job' = [job EXCEPT ![p].payload = ToolOutput(p)] /\ done
    <3>1. PICK x \in Path : x = ToolOutput(p)
      BY <1>1, AtWork
    <3>2. PICK j : j = [job[p] EXCEPT !.payload = x]
      OBVIOUS
    <3>3. /\ j.source = job[p].source /\ j.rom = job[p].rom /\ j.ext = job[p].ext
          /\ j.payload = x /\ j.staged = job[p].staged
      BY <1>1, <3>2 DEF Job
    <3>4. job' = [job EXCEPT ![p] = j]
      BY <2>4, <3>1, <3>2
    <3>5. job'[p] = j
      BY <1>1, <3>4 DEF TypeOK
    <3>6. At(j) = SourceAt(p) /\ Tool(j) = x
      BY <3>1, <3>3 DEF At, Tool, SourceAt, ToolOutput
    <3>7. ASSUME SourceAt(p) = Source[job[p].rom] PROVE Has(disk', x, job[p].rom, job[p].ext)
      <4>1. Exists(SourceAt(p))
        <5>1. disk[SourceAt(p)] = Holding(job[p].rom, SourceAt(p)[3], TRUE) /\ SourceAt(p)[3] \in Ext
          BY <1>2, <3>7, SourceParts DEF PlacedInv, SourcesStay, Ext
        <5> QED
          BY <1>2, <5>1, WholeParts DEF Exists
      <4>2. disk'[x] = Holding(job[p].rom, job[p].ext, TRUE)
        BY <1>1, <2>1, <2>4, <3>1, <4>1 DEF TypeOK
      <4>3. job[p].ext \in Ext
        BY <1>1, AtWork
      <4> QED
        BY <1>2, <4>2, <4>3, HasMade
    <3> QED
      BY <1>2, <2>2, <3>3, <3>5, <3>6, <3>7 DEF Placed, InPlace, Before
  <2> QED
    BY <2>1, <2>3, <2>4 DEF ToolSucceeded
<1> QED
  BY <1>5, <1>6, <1>7

LEMMA PlacedCopy ==
    ASSUME NEW p, Proc = {p}, IInv, PlacedInv,
           ClearFolderRom(p) \/ CopyToFolder(p) \/ StagePayload(p) \/ DropPayload(p) \/ WriteMarker(p)
    PROVE  Placed(pc'[p], job'[p], disk', rows')
<1>1. /\ TypeOK /\ p \in Proc /\ job[p] \in Job /\ Placed(pc[p], job[p], disk, rows)
      /\ disk \in [Path -> Content \cup {NoFile}]
      /\ pc[p] \in {"clear", "copy", "stage", "drop", "marker"} /\ pc[p] \in Steps \ {"next"}
  BY DEF IInv, TypeOK, PlacedInv, ClearFolderRom, CopyToFolder, StagePayload, DropPayload, WriteMarker, Try,
         Steps
<1>2. PICK f \in Path, x \in Path :
        /\ f = FolderRom(p) /\ f = Folder(job[p]) /\ x = job[p].payload
        /\ SourceAt(p) = Source[job[p].rom] => x # f
        /\ x \in {At(job[p]), Tool(job[p])} /\ At(job[p]) = SourceAt(p)
  BY <1>1, AtWork, NamesApart, Names DEF Placed
<1>3. CASE ClearFolderRom(p)
  <2>1. /\ pc[p] = "clear" /\ UNCHANGED <<rows, job>> /\ job[p].staged = NoFile
        /\ SourceAt(p) = Source[job[p].rom] => Has(disk, x, job[p].rom, job[p].ext)
    BY <1>1, <1>2, <1>3 DEF ClearFolderRom, Placed, InPlace
  <2>2. /\ pc'[p] \in {"copy", "next", "drop"} /\ (pc'[p] = "drop" => x = f)
        /\ disk' = disk \/ disk' = [disk EXCEPT ![f] = NoFile]
    <3>1. \/ UNCHANGED disk /\ Goto(p, IF x # f THEN "copy" ELSE IF Exists(f) THEN "drop" ELSE "next")
          \/ \E done \in BOOLEAN :
               /\ disk' = IF done THEN [disk EXCEPT ![f] = NoFile] ELSE disk
               /\ Goto(p, IF done THEN "copy" ELSE "next")
      BY <1>2, <1>3 DEF ClearFolderRom
    <3> QED
      BY <1>1, <3>1, GotoAt
  <2>3. SourceAt(p) = Source[job[p].rom] => Has(disk', x, job[p].rom, job[p].ext) /\ pc'[p] # "drop"
    BY <1>1, <1>2, <2>1, <2>2 DEF Has
  <2> QED
    BY <1>2, <2>1, <2>2, <2>3 DEF Placed, InPlace, Before
<1>4. CASE CopyToFolder(p)
  <2>1. /\ pc[p] = "copy" /\ UNCHANGED <<rows, job>> /\ job[p].staged = NoFile
        /\ SourceAt(p) = Source[job[p].rom] => Has(disk, x, job[p].rom, job[p].ext)
    BY <1>1, <1>2, <1>4 DEF CopyToFolder, Placed, InPlace
  <2>2. \/ pc'[p] = "next"
        \/ pc'[p] = "drop" /\ disk' = [disk EXCEPT ![f] = disk[x]]
    BY <1>1, <1>2, <1>4, GotoAt DEF CopyToFolder
  <2>3. pc'[p] = "drop" /\ SourceAt(p) = Source[job[p].rom] => Has(disk', f, job[p].rom, job[p].ext)
    BY <1>1, <2>1, <2>2 DEF Has
  <2> QED
    BY <1>2, <2>1, <2>2, <2>3 DEF Placed, InPlace, Before
<1>5. CASE StagePayload(p)
  <2>1. pc[p] = "stage" /\ (SourceAt(p) = Source[job[p].rom] => Has(disk, x, job[p].rom, job[p].ext))
    BY <1>1, <1>2, <1>5 DEF StagePayload, Placed, InPlace
  <2>2. CASE pc'[p] = "next"
    BY <2>2 DEF Placed, Before
  <2>3. CASE pc'[p] = "drop" /\ Exists(x) /\ job' = [job EXCEPT ![p].staged = disk[x]]
    <3>1. PICK c : c = disk[x] /\ c # NoFile
      BY <2>3 DEF Exists
    <3>2. PICK j : j = [job[p] EXCEPT !.staged = c]
      OBVIOUS
    <3>3. /\ j.source = job[p].source /\ j.rom = job[p].rom /\ j.ext = job[p].ext
          /\ j.payload = job[p].payload /\ j.staged = c
      BY <1>1, <3>2 DEF Job
    <3>4. job' = [job EXCEPT ![p] = j]
      BY <2>3, <3>1, <3>2
    <3>5. job'[p] = j
      BY <1>1, <3>4 DEF TypeOK
    <3>6. At(j) = At(job[p]) /\ Tool(j) = Tool(job[p])
      BY <3>3 DEF At, Tool
    <3>7. SourceAt(p) = Source[job[p].rom] => c.rom = job[p].rom
      BY <2>1, <3>1 DEF Has
    <3> QED
      BY <1>2, <2>3, <3>1, <3>3, <3>5, <3>6, <3>7 DEF Placed, InPlace, Before
  <2> QED
    BY <1>1, <1>2, <1>5, <2>2, <2>3, GotoAt DEF StagePayload
<1>6. CASE DropPayload(p)
  <2>1. /\ pc[p] = "drop" /\ UNCHANGED <<rows, job>> /\ pc'[p] = "marker"
        /\ disk' = [y \in Path |-> IF y \in Dropped(p) THEN NoFile ELSE disk[y]] \/ disk' = disk
    BY <1>1, <1>6, GotoAt DEF DropPayload
  <2>2. f # x => disk'[f] = disk[f]
    BY <1>2, <2>1 DEF Dropped
  <2>3. SourceAt(p) = Source[job[p].rom] /\ job[p].staged = NoFile => Has(disk', f, job[p].rom, job[p].ext)
    BY <1>1, <1>2, <2>1, <2>2 DEF Has, Placed, InPlace
  <2> QED
    BY <1>1, <1>2, <2>1, <2>3 DEF Placed, InPlace, Before
<1>7. CASE WriteMarker(p)
  <2>1. /\ pc[p] = "marker" /\ UNCHANGED <<disk, rows, job>>
        /\ pc'[p] \in {"next", IF job[p].staged = NoFile THEN "path" ELSE "compress"}
    BY <1>1, <1>7, GotoAt DEF WriteMarker, Try
  <2> QED
    BY <1>1, <1>2, <2>1 DEF Placed, InPlace, Before
<1> QED
  BY <1>3, <1>4, <1>5, <1>6, <1>7

LEMMA PlacedZip ==
    ASSUME NEW p, Proc = {p}, IInv, PlacedInv,
           Compress(p) \/ RemoveOld(p) \/ RenameTemp(p) \/ CleanTemp(p)
    PROVE  Placed(pc'[p], job'[p], disk', rows')
<1>1. /\ TypeOK /\ p \in Proc /\ job[p] \in Job /\ Placed(pc[p], job[p], disk, rows)
      /\ disk \in [Path -> Content \cup {NoFile}] /\ UNCHANGED <<rows, job>>
      /\ pc[p] \in {"compress", "remove", "rename", "cleanup"} /\ pc[p] \in Steps \ {"next"}
  BY DEF IInv, TypeOK, PlacedInv, Compress, RemoveOld, RenameTemp, CleanTemp, Steps
<1>2. /\ pc[p] # "cleanup" => job[p].staged # NoFile
      /\ job[p].rom \in Rom
      /\ job[p].payload \in {At(job[p]), Tool(job[p])}
  BY <1>1, AtWork DEF Placed
<1>3. PICK zip \in Path, tmp \in Path : zip = ZipPath(job[p].rom) /\ tmp = TempZip(job[p].rom)
  BY <1>2, TitlePaths
<1>4. zip # tmp
  BY <1>2, <1>3, TempApart
<1>5. CASE pc'[p] \in {"next", "cleanup"}
  BY <1>1, <1>2, <1>5 DEF Placed, InPlace, Before
<1>6. CASE Compress(p)
  <2>1. /\ pc[p] = "compress"
        /\ \/ pc'[p] = "cleanup"
           \/ /\ pc'[p] = "remove"
              /\ \E c \in {Zipped(p), CutShort(p)} : disk' = [disk EXCEPT ![tmp] = c]
    BY <1>1, <1>3, <1>6, GotoAt DEF Compress, GiveUp
  <2>2. ASSUME pc'[p] = "remove", At(job[p]) = Source[job[p].rom] PROVE HasZip(disk', tmp, job[p].rom)
    <3>1. PICK c : c \in {Zipped(p), CutShort(p)} /\ disk' = [disk EXCEPT ![tmp] = c]
      BY <2>1, <2>2
    <3>2. job[p].staged.rom = job[p].rom /\ job[p].staged.whole \in BOOLEAN
      BY <1>1, <1>2, <2>1, <2>2 DEF Placed, InPlace, Job, Content
    <3> PICK w \in BOOLEAN, r \in Rom : w = job[p].staged.whole /\ r = job[p].rom
      BY <1>2, <3>2
    <3>3. PICK e \in {"zip", "cut"}, v \in BOOLEAN : c = Holding(r, e, v)
      BY <3>1, <3>2 DEF Zipped, CutShort
    <3>6. e \in Ext \cup {"cut"} /\ v \in BOOLEAN /\ r \in Rom
      BY DEF Ext
    <3>7. Holding(r, e, v) # NoFile /\ Holding(r, e, v).rom = r /\ Holding(r, e, v).ext = e
      BY ONLY <3>6, HoldingParts
    <3>4. c # NoFile /\ c.rom = r /\ c.ext \in {"zip", "cut"}
      BY <3>3, <3>7
    <3>5. disk'[tmp] = c
      BY <1>1, <3>1
    <3> QED
      BY <3>4, <3>5 DEF HasZip, Has
  <2> QED
    BY <1>1, <1>2, <1>3, <1>5, <2>1, <2>2 DEF Placed, InPlace, Before
<1>7. CASE RemoveOld(p)
  <2>1. /\ pc[p] = "remove" /\ pc'[p] = "rename"
        /\ disk' = disk \/ disk' = [disk EXCEPT ![zip] = NoFile]
    BY <1>1, <1>3, <1>7, GotoAt DEF RemoveOld
  <2>2. disk'[tmp] = disk[tmp]
    BY <1>1, <1>4, <2>1
  <2> QED
    BY <1>1, <1>2, <1>3, <2>1, <2>2 DEF Placed, InPlace, HasZip, Has, Before
<1>8. CASE RenameTemp(p)
  <2>1. /\ pc[p] = "rename"
        /\ \/ pc'[p] = "mark" /\ disk' = [disk EXCEPT ![zip] = disk[tmp], ![tmp] = NoFile]
           \/ pc'[p] = "cleanup"
    BY <1>1, <1>3, <1>8, GotoAt DEF RenameTemp, GiveUp
  <2>2. pc'[p] = "mark" => disk'[zip] = disk[tmp]
    BY <1>1, <1>4, <2>1
  <2> QED
    BY <1>1, <1>2, <1>3, <1>5, <2>1, <2>2 DEF Placed, InPlace, HasZip, Has, Before
<1>9. CASE CleanTemp(p)
  BY <1>1, <1>5, <1>9, GotoAt DEF CleanTemp
<1> QED
  BY <1>6, <1>7, <1>8, <1>9

LEMMA PlacedSave ==
    ASSUME NEW p, Proc = {p}, IInv, PlacedInv, updateFilePath(p) \/ markFileBundled(p) \/ Crash(p)
    PROVE  Placed(pc'[p], job'[p], disk', rows')
<1>1. TypeOK /\ p \in Proc /\ Placed(pc[p], job[p], disk, rows) /\ rows \in [Rom -> Row]
  BY DEF IInv, TypeOK, PlacedInv
<1>2. CASE markFileBundled(p) \/ Crash(p)
  <2>1. pc'[p] \in {"next", "idle"}
    BY <1>1, <1>2, GotoAt DEF markFileBundled, Crash
  <2> QED
    BY <2>1 DEF Placed, Before
<1>3. CASE updateFilePath(p)
  <2>1. /\ pc[p] = "path" /\ pc[p] \in Steps \ {"next"} /\ UNCHANGED <<disk, job>>
        /\ \/ pc'[p] = "next"
           \/ pc'[p] = "mark" /\ rows' = [rows EXCEPT ![job[p].rom].path = FolderRom(p)]
    BY <1>1, <1>3, GotoAt DEF updateFilePath, Steps
  <2>2. job[p].rom \in Rom
    BY <1>1, <2>1, AtWork
  <2>3. pc'[p] = "mark" => rows'[job[p].rom].path = Folder(job[p])
    BY <1>1, <2>1, <2>2, Names DEF Row
  <2> QED
    BY <1>1, <2>1, <2>3 DEF Placed, InPlace, Before
<1> QED
  BY <1>2, <1>3

LEMMA PlacedStep ==
    ASSUME NEW p, Proc = {p}, OwnStem, IInv, PlacedInv, [Next]_vars
    PROVE  PlacedInv'
<1>1. CASE UNCHANGED vars
  <2>1. UNCHANGED <<disk, rows, pc, job>>
    BY <1>1 DEF vars
  <2> QED
    BY <2>1 DEF PlacedInv, SourcesStay
<1>2. CASE Next
  <2>1. SourcesStay'
    BY <1>2, SourcesKept
  <2>2. Placed(pc'[p], job'[p], disk', rows')
    BY <1>2, <2>1, PlacedBegin, PlacedConvert, PlacedCopy, PlacedZip, PlacedSave DEF Next
  <2> QED
    BY <2>1, <2>2 DEF PlacedInv
<1> QED
  BY <1>1, <1>2

Marking ==
    \A p \in Proc :
         LET r == job[p].rom
         IN pc[p] = "mark" /\ SourceAt(p) = Source[r] /\ rows' # rows =>
                /\ Bundle(r)' # NoFile
                /\ Bundle(r)'.rom = r
                /\ Bundle(r)'.ext \in IF rows'[r].bundled = "zip" THEN {"zip", "cut"}
                                      ELSE {rows'[r].path[3]}

(* With one command at a time, whatever fails or dies: when a row bundled  *)
(* from where it was scanned is marked, its bundle is there, holds it, is  *)
(* what its extension says, and the row leads to it; if no row to convert  *)
(* shares its stem with another.                                           *)
THEOREM MarkedIsInPlace ==
    ASSUME \E p : Proc = {p}, OwnStem
    PROVE  Spec => MarkedInPlace
<1>1. PICK p : Proc = {p}
  OBVIOUS
<1>2. Init => PlacedInv
  <2> SUFFICES ASSUME Init PROVE PlacedInv
    OBVIOUS
  <2>1. ASSUME NEW r \in Rom PROVE disk[Source[r]] = Holding(r, Source[r][3], TRUE)
    <3>1. (CHOOSE q \in Rom : Source[q] = Source[r]) = r /\ Source[r] \in Path
      BY SourceAssumption, SourceParts
    <3> QED
      BY <3>1 DEF Init
  <2>2. Placed(pc[p], job[p], disk, rows)
    BY <1>1 DEF Init, Placed, Before
  <2> QED
    BY <1>1, <2>1, <2>2 DEF PlacedInv, SourcesStay
<1>3. IInv /\ PlacedInv /\ [Next]_vars => PlacedInv'
  BY <1>1, PlacedStep
<1>4. ASSUME IInv, PlacedInv, Next, NEW q \in Proc, pc[q] = "mark",
             SourceAt(q) = Source[job[q].rom], rows' # rows
      PROVE  /\ Bundle(job[q].rom)' # NoFile
             /\ Bundle(job[q].rom)'.rom = job[q].rom
             /\ Bundle(job[q].rom)'.ext \in IF rows'[job[q].rom].bundled = "zip" THEN {"zip", "cut"}
                                            ELSE {rows'[job[q].rom].path[3]}
  <2>1. markFileBundled(q)
    BY <1>1, <1>4 DEF Next, organizeLibrary, BundleNext, Convert, RunTool, MakeFolder, ClearFolderRom,
       CopyToFolder, updateFilePath, StagePayload, Compress, RemoveOld, RenameTemp, CleanTemp, DropPayload,
       WriteMarker, Try, Crash
  <2>2. PICK r \in Rom : r = job[q].rom
    BY <1>4, AtWork DEF Steps
  <2>3. /\ UNCHANGED <<disk, job>>
        /\ rows' = [rows EXCEPT ![r].bundled = IF job[q].staged = NoFile THEN "folder" ELSE "zip"]
    BY <1>4, <2>1, <2>2 DEF markFileBundled
  <2>4. /\ rows'[r].path = rows[r].path
        /\ rows'[r].bundled = IF job[q].staged = NoFile THEN "folder" ELSE "zip"
    BY <1>4, <2>3 DEF IInv, TypeOK, Row
  <2>5. InPlace("mark", job[q], disk, rows)
    BY <1>4, Names DEF PlacedInv, Placed
  <2>8. Bundle(job[q].rom)' = Bundle(r)' /\ rows'[job[q].rom] = rows'[r]
    BY <2>2, <2>3 DEF Bundle, ZipPath
  <2>6. CASE job[q].staged = NoFile
    <3>1. Bundle(r)' = disk[Folder(job[q])] /\ rows'[r].path = Folder(job[q])
      BY <2>2, <2>3, <2>4, <2>5, <2>6 DEF Bundle, InPlace
    <3>2. Has(disk, Folder(job[q]), r, job[q].ext) /\ Folder(job[q])[3] = job[q].ext
      BY <2>2, <2>5, <2>6 DEF InPlace, Folder
    <3> QED
      BY <2>2, <2>4, <2>6, <2>8, <3>1, <3>2 DEF Has
  <2>7. CASE job[q].staged # NoFile
    <3>1. Bundle(r)' = disk[ZipPath(r)]
      BY <2>3, <2>4, <2>7 DEF Bundle, ZipPath
    <3>2. HasZip(disk, ZipPath(r), r)
      BY <2>2, <2>5, <2>7 DEF InPlace
    <3> QED
      BY <2>2, <2>4, <2>7, <2>8, <3>1, <3>2 DEF HasZip, Has
  <2> QED
    BY <2>6, <2>7
<1>5. IInv /\ PlacedInv /\ [Next]_vars => [Marking]_vars
  BY <1>4 DEF Marking
<1> QED
  BY InitStep, NextStep, <1>2, <1>3, <1>5, PTL DEF Spec, MarkedInPlace, Marking
=============================================================================
