----------------------------- MODULE RomBundler -----------------------------
(***************************************************************************)
(* organize --bundle: core/rom_bundler.cpp, the loop over the eligible     *)
(* files in metadata/library_organize.cpp, and the run of a converter in   *)
(* core/disc_converter.cpp.                                                *)
(*                                                                         *)
(* State: what lies at each path, the columns of files the bundler reads   *)
(* and writes, and for every command where it is.  A path is a folder, a   *)
(* stem and an extension; the source is copied, never moved, into a zip    *)
(* named by its title or a folder named by it.  A process can die, another *)
(* process can come, between any two operations on files or database.      *)
(*                                                                         *)
(* Marker and artwork are one step that may fail; what they say is left    *)
(* out, and so are archives, which the bundler passes over, and the        *)
(* staging folder, which no command reads again.                           *)
(***************************************************************************)
EXTENDS Naturals, FiniteSets

CONSTANTS
    Proc,       \* commands bundling at once
    Rom,        \* eligible rows of files
    Title,      \* folder and zip names
    Source,     \* the path each row was scanned at
    TitleOf,    \* the name each row is bundled under
    Disc,       \* rows of a disc system
    Planned,    \* the extension a row's source is converted to
    Modes,      \* --convert auto (TRUE), --convert never (FALSE)
    NoFile,     \* nothing lies there
    MaxRuns,    \* commands started
    MaxFaults,  \* bound on operations that fail
    MaxCrashes  \* bound on crashes

Ext == {"raw", "chd", "wbfs", "zip", "tmp"}
Dir == Title \cup {"lib", "out"}
Path == Dir \X ({Source[r][2] : r \in Rom} \cup Title) \X Ext

ASSUME SourceAssumption ==
    /\ Source \in [Rom -> Path]
    /\ \A r \in Rom : \E ext \in {"raw", "chd"} : Source[r] = <<"lib", Source[r][2], ext>>
    /\ \A r, q \in Rom : Source[r] = Source[q] => r = q

ASSUME KindAssumption ==
    /\ TitleOf \in [Rom -> Title]
    /\ Disc \subseteq Rom
    /\ Title \cap {"lib", "out"} = {}
    /\ Planned \in [Rom -> {"raw", "chd", "wbfs"}]
    /\ Modes \subseteq BOOLEAN

ASSUME NoFileAssumption == NoFile \notin Path \cup Rom \cup [rom : Rom, ext : Ext \cup {"cut"}, whole : BOOLEAN]

ASSUME BoundsAssumption == MaxRuns \in Nat /\ MaxFaults \in Nat /\ MaxCrashes \in Nat

VARIABLES
    disk,   \* what lies at each path
    rows,   \* the files table
    pc,     \* the next step of each process
    job,    \* its locals
    todo,   \* the rows it has still to bundle
    runs, faults, crashes, \* how often so far
    stuck                  \* temporary zips that refused to be removed

counts == <<runs, faults, crashes, stuck>>
vars == <<disk, rows, pc, job, todo, counts>>

-----------------------------------------------------------------------------
(* A file made from a row's file; a half file is not whole.  A zip whose   *)
(* writing broke off is "cut".                                             *)
Content == [rom : Rom, ext : Ext \cup {"cut"}, whole : BOOLEAN]

Holding(r, ext, whole) == [rom |-> r, ext |-> ext, whole |-> whole]

(* current_path, and is_bundled with the output path: a folder or a zip.   *)
Row == [path : Path, bundled : {"no", "folder", "zip"}]

(* The locals: the mode, the paths read at the start, the row at hand, its *)
(* payload (the source or what it was converted to), the payload's         *)
(* extension, and what the staging folder holds.                           *)
Job == [convert : BOOLEAN, source : [Rom -> Path], rom : Rom \cup {NoFile},
        payload : Path \cup {NoFile}, ext : Ext \cup {NoFile}, staged : Content \cup {NoFile}]

NoJob == [convert |-> FALSE, source |-> Source, rom |-> NoFile,
          payload |-> NoFile, ext |-> NoFile, staged |-> NoFile]

Steps == {"next", "mkdir", "convert", "tool", "clear", "copy", "stage", "drop", "marker",
          "compress", "remove", "rename", "cleanup", "path", "mark"}

Init ==
    /\ disk = [x \in Path |-> IF \E r \in Rom : Source[r] = x
                              THEN Holding(CHOOSE r \in Rom : Source[r] = x, x[3], TRUE)
                              ELSE NoFile]
    /\ rows = [r \in Rom |-> [path |-> Source[r], bundled |-> "no"]]
    /\ pc = [p \in Proc |-> "idle"]
    /\ job = [p \in Proc |-> NoJob]
    /\ todo = [p \in Proc |-> {}]
    /\ runs = 0 /\ faults = 0 /\ crashes = 0
    /\ stuck = {}

-----------------------------------------------------------------------------
Goto(p, step) == pc' = [pc EXCEPT ![p] = step]

Exists(x) == disk[x] # NoFile

(* An operation fails or goes through.                                     *)
Outcome(done) ==
    /\ UNCHANGED <<runs, crashes>>
    /\ \/ done /\ UNCHANGED faults
       \/ ~done /\ faults < MaxFaults /\ faults' = faults + 1

Attempt(done) == Outcome(done) /\ UNCHANGED stuck

(* The extension the row's source is meant to get.                         *)
plannedConvertedExtension(p, r) ==
    LET ext == job[p].source[r][3]
    IN IF job[p].convert /\ ext = "raw" THEN Planned[r] ELSE ext

usesFolderBundle(p, r) ==
    \/ plannedConvertedExtension(p, r) = "chd"
    \/ plannedConvertedExtension(p, r) = "raw" /\ r \in Disc

SourceAt(p) == job[p].source[job[p].rom]

(* Mutant: the name is made before the conversion, which may fail.         *)
FolderRomPlanned(p) ==
    <<TitleOf[job[p].rom], SourceAt(p)[2], plannedConvertedExtension(p, job[p].rom)>>

FolderRom(p) == <<TitleOf[job[p].rom], SourceAt(p)[2], job[p].ext>>
ZipPath(r) == <<"out", TitleOf[r], "zip">>
TempZip(r) == <<"out", TitleOf[r], "tmp">>

-----------------------------------------------------------------------------
(* organizeLibrary: the rows are read once, then bundled one by one.       *)
organizeLibrary(p) ==
    /\ pc[p] = "idle"
    /\ runs < MaxRuns
    /\ runs' = runs + 1
    /\ \E convert \in Modes :
          job' = [job EXCEPT ![p] = [NoJob EXCEPT !.convert = convert,
                                       !.source = [r \in Rom |-> rows[r].path]]]
    /\ todo' = [todo EXCEPT ![p] = Rom]
    /\ Goto(p, "next")
    /\ UNCHANGED <<disk, rows, faults, crashes, stuck>>

(* bundle: a row whose source is gone fails.                               *)
BundleNext(p) ==
    /\ pc[p] = "next"
    /\ IF todo[p] = {}
       THEN /\ Goto(p, "idle")
            /\ job' = [job EXCEPT ![p] = NoJob]
            /\ UNCHANGED todo
       ELSE \E r \in todo[p] :
            /\ todo' = [todo EXCEPT ![p] = @ \ {r}]
            /\ IF Exists(job[p].source[r])
               THEN /\ job' = [job EXCEPT ![p].rom = r, ![p].payload = job[p].source[r],
                                          ![p].ext = plannedConvertedExtension(p, r),
                                          ![p].staged = NoFile]
                    /\ Goto(p, IF usesFolderBundle(p, r) THEN "mkdir" ELSE "convert")
               ELSE UNCHANGED <<job, pc>>
    /\ UNCHANGED <<disk, rows, counts>>

(* One operation of a bundle: when it fails the row is given up.           *)
Try(p, from, to) ==
    /\ pc[p] = from
    /\ \E done \in BOOLEAN : Attempt(done) /\ Goto(p, IF done THEN to ELSE "next")

MakeFolder(p) ==
    /\ Try(p, "mkdir", "convert")
    /\ UNCHANGED <<disk, rows, job, todo>>

AfterConvert(p) == IF usesFolderBundle(p, job[p].rom) THEN "clear" ELSE "stage"

(* What the tool is to write, beside the source.                           *)
ToolOutput(p) == <<SourceAt(p)[1], SourceAt(p)[2], job[p].ext>>

Unconverted(p) == [job EXCEPT ![p].ext = SourceAt(p)[3]]

(* convertIfNeeded: nothing to convert, or the tool starts to write.  Some *)
(* tools refuse to write over a file and exit with an error.               *)
Convert(p) ==
    /\ pc[p] = "convert"
    /\ \/ /\ job[p].ext = SourceAt(p)[3]
          /\ Goto(p, AfterConvert(p))
          /\ UNCHANGED <<disk, job>>
       \/ /\ job[p].ext # SourceAt(p)[3]
          /\ Goto(p, "tool")
          /\ disk' = [disk EXCEPT ![ToolOutput(p)] = Holding(job[p].rom, job[p].ext, FALSE)]
          /\ UNCHANGED job
       \/ /\ job[p].ext # SourceAt(p)[3] /\ Exists(ToolOutput(p))
          /\ job' = Unconverted(p)
          /\ Goto(p, AfterConvert(p))
          /\ UNCHANGED disk
    /\ UNCHANGED <<rows, todo, counts>>

(* Mutant: what the tool wrote is taken whatever its exit code says.       *)
ToolSucceededByOutput(p, done) == Exists(ToolOutput(p))

ToolSucceeded(p, done) == done /\ Exists(ToolOutput(p))

(* The tool ends.  When it fails the source itself is bundled, and what    *)
(* the tool wrote so far stays.                                            *)
RunTool(p) ==
    /\ pc[p] = "tool"
    /\ \E done \in BOOLEAN :
         /\ Attempt(done)
         /\ disk' = IF done /\ Exists(SourceAt(p))
                    THEN [disk EXCEPT ![ToolOutput(p)] = Holding(job[p].rom, job[p].ext, TRUE)]
                    ELSE disk
         /\ job' = IF ToolSucceeded(p, done)
                   THEN [job EXCEPT ![p].payload = ToolOutput(p)] ELSE Unconverted(p)
    /\ Goto(p, AfterConvert(p))
    /\ UNCHANGED <<rows, todo>>

(* copyReplacing: a file of that name is removed first.                    *)
ClearFolderRom(p) ==
    /\ pc[p] = "clear"
    /\ IF job[p].payload = FolderRom(p) \/ ~Exists(FolderRom(p))
       THEN /\ Goto(p, IF job[p].payload # FolderRom(p) THEN "copy"
                       ELSE IF Exists(FolderRom(p)) THEN "drop" ELSE "next")
            /\ UNCHANGED <<disk, counts>>
       ELSE \E done \in BOOLEAN :
            /\ Attempt(done)
            /\ disk' = IF done THEN [disk EXCEPT ![FolderRom(p)] = NoFile] ELSE disk
            /\ Goto(p, IF done THEN "copy" ELSE "next")
    /\ UNCHANGED <<rows, job, todo>>

CopyToFolder(p) ==
    /\ pc[p] = "copy"
    /\ \E done \in BOOLEAN :
         /\ Attempt(done)
         /\ IF done /\ Exists(job[p].payload) /\ ~Exists(FolderRom(p))
            THEN /\ disk' = [disk EXCEPT ![FolderRom(p)] = disk[job[p].payload]]
                 /\ Goto(p, "drop")
            ELSE UNCHANGED disk /\ Goto(p, "next")
    /\ UNCHANGED <<rows, job, todo>>

StagePayload(p) ==
    /\ pc[p] = "stage"
    /\ \E done \in BOOLEAN :
         /\ Attempt(done)
         /\ IF done /\ Exists(job[p].payload)
            THEN /\ job' = [job EXCEPT ![p].staged = disk[job[p].payload]]
                 /\ Goto(p, "drop")
            ELSE UNCHANGED job /\ Goto(p, "next")
    /\ UNCHANGED <<disk, rows, todo>>

(* Mutant: the payload is removed also when it is the source.              *)
DroppedAlways(p) == {job[p].payload}

Dropped(p) == {job[p].payload} \ {SourceAt(p)}

(* The converted payload is removed once it has been copied; nobody looks  *)
(* whether it went.                                                        *)
DropPayload(p) ==
    /\ pc[p] = "drop"
    /\ \E done \in BOOLEAN :
         /\ Attempt(done)
         /\ disk' = IF done THEN [x \in Path |-> IF x \in Dropped(p) THEN NoFile ELSE disk[x]]
                    ELSE disk
    /\ Goto(p, "marker")
    /\ UNCHANGED <<rows, job, todo>>

(* Marker and artwork, in the folder or the staging folder.                *)
WriteMarker(p) ==
    /\ Try(p, "marker", IF job[p].staged = NoFile THEN "path" ELSE "compress")
    /\ UNCHANGED <<disk, rows, job, todo>>

Zipped(p) == Holding(job[p].staged.rom, "zip", job[p].staged.whole)
CutShort(p) == Holding(job[p].staged.rom, "cut", FALSE)

(* Mutant: a failure leaves the temporary zip.                             *)
GiveUpAtOnce(p) == "next"

(* The step after a bundle that came to nothing.                           *)
GiveUp(p) == "cleanup"

(* compressDirectoryContents writes the zip under a temporary name.  An    *)
(* error can leave what lay there, nothing, or a zip cut short; one that   *)
(* comes from reading a file, or from closing the zip, goes unnoticed.     *)
Compress(p) ==
    /\ pc[p] = "compress"
    /\ LET Leaves(c) == disk' = [disk EXCEPT ![TempZip(job[p].rom)] = c]
       IN \/ Attempt(TRUE) /\ Leaves(Zipped(p)) /\ Goto(p, "remove")
          \/ Attempt(FALSE) /\ Leaves(CutShort(p)) /\ Goto(p, "remove")
          \/ /\ Attempt(FALSE)
             /\ \E c \in {disk[TempZip(job[p].rom)], NoFile, CutShort(p)} : Leaves(c)
             /\ Goto(p, GiveUp(p))
    /\ UNCHANGED <<rows, job, todo>>

RemoveOld(p) ==
    /\ pc[p] = "remove"
    /\ \E done \in BOOLEAN :
         /\ Attempt(done)
         /\ disk' = IF done THEN [disk EXCEPT ![ZipPath(job[p].rom)] = NoFile] ELSE disk
    /\ Goto(p, "rename")
    /\ UNCHANGED <<rows, job, todo>>

RenameTemp(p) ==
    /\ pc[p] = "rename"
    /\ LET zip == ZipPath(job[p].rom)
           tmp == TempZip(job[p].rom)
       IN \E done \in BOOLEAN :
            /\ Outcome(done)
            /\ IF done /\ Exists(tmp) /\ ~Exists(zip)
               THEN /\ disk' = [disk EXCEPT ![zip] = disk[tmp], ![tmp] = NoFile]
                    /\ stuck' = stuck \ {tmp}
                    /\ Goto(p, "mark")
               ELSE UNCHANGED <<disk, stuck>> /\ Goto(p, GiveUp(p))
    /\ UNCHANGED <<rows, job, todo>>

(* The temporary zip of a bundle that came to nothing is removed, if it    *)
(* can be; nobody looks whether it went.                                   *)
CleanTemp(p) ==
    /\ pc[p] = "cleanup"
    /\ LET tmp == TempZip(job[p].rom)
       IN \E done \in BOOLEAN :
            /\ Outcome(done)
            /\ IF done \/ ~Exists(tmp)
               THEN disk' = [disk EXCEPT ![tmp] = NoFile] /\ stuck' = stuck \ {tmp}
               ELSE UNCHANGED disk /\ stuck' = stuck \cup {tmp}
    /\ Goto(p, "next")
    /\ UNCHANGED <<rows, job, todo>>

(* updateFilePath: the row follows a disc into its folder.                 *)
updateFilePath(p) ==
    /\ pc[p] = "path"
    /\ \E done \in BOOLEAN :
         /\ Attempt(done)
         /\ rows' = IF done THEN [rows EXCEPT ![job[p].rom].path = FolderRom(p)] ELSE rows
         /\ Goto(p, IF done THEN "mark" ELSE "next")
    /\ UNCHANGED <<disk, job, todo>>

markFileBundled(p) ==
    /\ pc[p] = "mark"
    /\ \E done \in BOOLEAN :
         /\ Attempt(done)
         /\ rows' = IF done
                    THEN [rows EXCEPT ![job[p].rom].bundled =
                                         IF job[p].staged = NoFile THEN "folder" ELSE "zip"]
                    ELSE rows
    /\ Goto(p, "next")
    /\ UNCHANGED <<disk, job, todo>>

Crash(p) ==
    /\ pc[p] # "idle"
    /\ crashes < MaxCrashes
    /\ crashes' = crashes + 1
    /\ Goto(p, "idle")
    /\ job' = [job EXCEPT ![p] = NoJob]
    /\ todo' = [todo EXCEPT ![p] = {}]
    /\ UNCHANGED <<disk, rows, runs, faults, stuck>>

Next ==
    \E p \in Proc :
        \/ organizeLibrary(p) \/ BundleNext(p) \/ Convert(p) \/ RunTool(p)
        \/ MakeFolder(p) \/ ClearFolderRom(p) \/ CopyToFolder(p) \/ updateFilePath(p)
        \/ StagePayload(p) \/ Compress(p) \/ RemoveOld(p) \/ RenameTemp(p) \/ CleanTemp(p)
        \/ DropPayload(p) \/ WriteMarker(p) \/ markFileBundled(p) \/ Crash(p)

Spec == Init /\ [][Next]_vars
-----------------------------------------------------------------------------
TypeOK ==
    /\ disk \in [Path -> Content \cup {NoFile}]
    /\ rows \in [Rom -> Row]
    /\ pc \in [Proc -> Steps \cup {"idle"}]
    /\ job \in [Proc -> Job]
    /\ todo \in [Proc -> SUBSET Rom]
    /\ runs \in 0 .. MaxRuns /\ faults \in 0 .. MaxFaults /\ crashes \in 0 .. MaxCrashes
    /\ stuck \subseteq Path

Quiet == \A p \in Proc : pc[p] = "idle"

(* The paths a converter may write for some row.                           *)
ToolOutputs == {<<"lib", Source[r][2], Planned[r]>> : r \in {q \in Rom : Planned[q] # "raw"}}

(* Bundling copies: no run, failed, interrupted or beside another, harms a *)
(* file where the library found it, unless a converter writes over it.     *)
SourceSurvives ==
    \A r \in Rom : Source[r] \in ToolOutputs \/ disk[Source[r]] = Holding(r, Source[r][3], TRUE)

Bundle(r) == disk[IF rows[r].bundled = "zip" THEN ZipPath(r) ELSE rows[r].path]

(* What a row calls its bundle is never half a file: a tool that fails, or *)
(* a process that dies while it runs, leaves nothing that is bundled.  A   *)
(* zip whose writing broke off unnoticed is the one exception: the code    *)
(* has no way to tell it.                                                  *)
BundledIsWhole ==
    \A r \in Rom :
        rows[r].bundled # "no" /\ Bundle(r) # NoFile => Bundle(r).whole \/ Bundle(r).ext = "cut"

(* A row bundled from where it was scanned is called bundled only when its *)
(* bundle is in place, holds it, is what its extension says, and is where  *)
(* the row leads.                                                          *)
MarkedInPlace ==
    [][\A p \in Proc :
         LET r == job[p].rom
         IN pc[p] = "mark" /\ SourceAt(p) = Source[r] /\ rows' # rows =>
                /\ Bundle(r)' # NoFile
                /\ Bundle(r)'.rom = r
                /\ Bundle(r)'.ext \in IF rows'[r].bundled = "zip" THEN {"zip", "cut"}
                                      ELSE {rows'[r].path[3]}]_vars

(* No temporary zip outlives a command that ends, but one that could not   *)
(* be removed when its bundle had failed.                                  *)
NoTempLeft ==
    Quiet /\ crashes = 0 => \A r \in Rom : Exists(TempZip(r)) => TempZip(r) \in stuck

(* After a bundle the row of a disc names a file that is there             *)
(* (test_rom_bundler.cpp).                                                 *)
DiscIsThere ==
    Quiet /\ faults + crashes = 0 =>
        \A r \in Rom : rows[r].bundled = "folder" => Exists(rows[r].path)
=============================================================================
