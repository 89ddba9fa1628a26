--------------------------- MODULE ArchiveExtractor ---------------------------
(***************************************************************************)
(* core/archive_extractor.cpp, archive_extractor_extract.cpp and           *)
(* archive_extractor_info.cpp: archives are streamed once into a           *)
(* directory, member by member, while their names are checked; a name that *)
(* leaves the directory rejects the archive and what was written is        *)
(* removed again.                                                          *)
(*                                                                         *)
(* A member is its name after normalizeArchiveMemberPath, "unsafe" when    *)
(* that refuses it; a folder or a link is skipped.  A file is the number   *)
(* of the extraction that wrote it last, 0 when there is none.             *)
(***************************************************************************)
EXTENDS Naturals, Sequences, FiniteSets, SequencesExt

CONSTANTS
    Member,            \* names of members, and of files of the directory
    Archives,          \* sequences over Member \cup {"unsafe", "folder"}
    MaxExtractions, MaxExtractFaults

ASSUME ArchiveAssumption ==
    /\ {"unsafe", "folder", "every"} \cap Member = {}
    /\ Archives \subseteq Seq(Member \cup {"unsafe", "folder"})
    /\ MaxExtractions \in Nat /\ MaxExtractFaults \in Nat

VARIABLES
    folder,    \* the extraction each file is by
    extractor, \* the call: its archive, position and ExtractionResult
    queue,     \* archives batchExtract has not begun
    extractions, extractFaults,
    refused    \* files this extraction could not remove

archiveVars == <<folder, extractor, queue, extractions, extractFaults, refused>>

NotExtracting == [step |-> "idle", archive |-> <<>>, at |-> 1, single |-> "every", files |-> <<>>, failed |-> 0, error |-> "none"]
Fault == extractFaults < MaxExtractFaults /\ extractFaults' = extractFaults + 1

ArchiveInit ==
    /\ folder = [m \in Member |-> 0]
    /\ extractor = NotExtracting /\ queue = <<>>
    /\ extractions = 0 /\ extractFaults = 0 /\ refused = {}

-----------------------------------------------------------------------------
Begin(archive, single) ==
    /\ extractor' = [NotExtracting EXCEPT !.step = "header", !.archive = archive, !.single = single]
    /\ extractions' = extractions + 1
    /\ refused' = {}

(* extract and extractFile: the whole archive, or one member of it.        *)
Extract ==
    /\ extractor.step \in {"idle", "returned"} /\ queue = <<>> /\ extractions < MaxExtractions
    /\ \E archive \in Archives, single \in Member \cup {"every"} : Begin(archive, single)
    /\ UNCHANGED <<folder, queue, extractFaults>>

batchExtract ==
    /\ extractor.step \in {"idle", "returned"} /\ queue = <<>> /\ extractions + 1 < MaxExtractions
    /\ \E first, second \in Archives : Begin(first, "every") /\ queue' = <<second>>
    /\ UNCHANGED <<folder, extractFaults>>

BatchContinues ==
    /\ extractor.step = "returned" /\ queue # <<>>
    /\ Begin(Head(queue), "every") /\ queue' = Tail(queue)
    /\ UNCHANGED <<folder, extractFaults>>

(* m_cancelled is read between two archives.                               *)
CancelBatch == queue' = <<>> /\ queue # <<>> /\ UNCHANGED <<folder, extractor, extractions, extractFaults, refused>>

-----------------------------------------------------------------------------
Entry == extractor.archive[extractor.at]
HasEntry == extractor.step = "header" /\ extractor.at <= Len(extractor.archive)
Passed == [extractor EXCEPT !.at = @ + 1, !.step = "header"]
Returned(error) == [extractor EXCEPT !.step = "returned", !.error = error]

SkipMember ==
    /\ HasEntry
    /\ Entry = "folder" \/ (Entry # "unsafe" /\ extractor.single \notin {"every", Entry})
    /\ extractor' = Passed
    /\ UNCHANGED <<folder, queue, extractions, extractFaults, refused>>

(* An unsafe name: also when another member is asked for.                  *)
Reject ==
    /\ HasEntry /\ Entry = "unsafe" /\ extractor' = [extractor EXCEPT !.step = "reject"]
    /\ UNCHANGED <<folder, queue, extractions, extractFaults, refused>>

failureRatioExceeded(successes, failures) == failures >= 3 /\ failures >= successes * 3

MemberFailed ==
    LET next == [Passed EXCEPT !.failed = @ + 1] IN
    IF failureRatioExceeded(Len(next.files), next.failed)
    THEN [next EXCEPT !.step = "returned", !.error = "failures"] ELSE next

OpenMember ==
    /\ HasEntry /\ Entry \in Member /\ extractor.single \in {"every", Entry}
    /\ \/ /\ folder' = [folder EXCEPT ![Entry] = extractions]
          /\ extractor' = [extractor EXCEPT !.step = "copy"]
          /\ UNCHANGED extractFaults
       \/ Fault /\ extractor' = MemberFailed /\ UNCHANGED folder
    /\ UNCHANGED <<queue, extractions, refused>>

copyEntryToFile ==
    /\ extractor.step = "copy"
    /\ extractor' = [(IF extractor.single = "every" THEN Passed ELSE Returned("none")) EXCEPT !.files = Append(@, Entry)]
    /\ UNCHANGED <<folder, queue, extractions, extractFaults, refused>>

(* A data error or a write that fails; the file is removed.                *)
CopyFails ==
    /\ extractor.step = "copy" /\ Fault
    /\ \/ folder' = [folder EXCEPT ![Entry] = 0] /\ UNCHANGED refused
       \/ refused' = refused \cup {Entry} /\ UNCHANGED folder
    /\ extractor' = MemberFailed
    /\ UNCHANGED <<queue, extractions>>

(* Every file written so far, one by one; the result of remove is not      *)
(* looked at.                                                              *)
KeepsLast(files) == IF files = <<>> THEN <<>> ELSE Front(files) \* mutant: the last file is not removed
ToUndo(files) == files
Undo ==
    /\ extractor.step = "reject" /\ ToUndo(extractor.files) # <<>>
    /\ LET file == Head(extractor.files) IN
       \/ folder' = [folder EXCEPT ![file] = 0] /\ UNCHANGED <<extractFaults, refused>>
       \/ Fault /\ refused' = refused \cup {file} /\ UNCHANGED folder
    /\ extractor' = [extractor EXCEPT !.files = Tail(@)]
    /\ UNCHANGED <<queue, extractions>>

Rejected ==
    /\ extractor.step = "reject" /\ ToUndo(extractor.files) = <<>>
    /\ extractor' = [Returned("unsafe") EXCEPT !.files = <<>>]
    /\ UNCHANGED <<folder, queue, extractions, extractFaults, refused>>

(* The archive ends, or a header cannot be read: what was extracted before *)
(* is then a success.                                                      *)
ArchiveEnds ==
    /\ extractor.step = "header"
    /\ \E broken \in BOOLEAN :
        /\ IF broken THEN Fault ELSE extractor.at > Len(extractor.archive) /\ UNCHANGED extractFaults
        /\ extractor' = Returned(
               IF extractor.files # <<>> THEN "none"
               ELSE IF broken THEN "unreadable"
               ELSE IF extractor.failed > 0 THEN "failed"
               ELSE IF extractor.single # "every" THEN "missing" ELSE "none")
    /\ UNCHANGED <<folder, queue, extractions, refused>>

ArchiveNext ==
    \/ Extract \/ batchExtract \/ BatchContinues \/ CancelBatch
    \/ SkipMember \/ Reject \/ OpenMember \/ copyEntryToFile \/ CopyFails
    \/ Undo \/ Rejected \/ ArchiveEnds

ArchiveSpec == ArchiveInit /\ [][ArchiveNext]_archiveVars

-----------------------------------------------------------------------------
ArchiveTypeOK ==
    /\ folder \in [Member -> 0..extractions]
    /\ extractor \in [step : {"idle", "header", "copy", "reject", "returned"}, archive : Archives \cup {<<>>},
                      at : Nat \ {0}, single : Member \cup {"every"}, files : Seq(Member), failed : Nat,
                      error : {"none", "unsafe", "failures", "unreadable", "failed", "missing"}]
    /\ queue \in Seq(Archives) /\ refused \subseteq Member
    /\ extractions \in 0..MaxExtractions /\ extractFaults \in 0..MaxExtractFaults

(* An archive rejected for a name leaves no file of its own behind,        *)
(* whatever came before the name: members written twice, members that      *)
(* failed in the middle, extractions into the same directory.  Only a file *)
(* the system refused to remove can stay.                                  *)
RejectedLeavesNothing ==
    extractor.step = "returned" /\ extractor.error = "unsafe" =>
        \A m \in Member \ refused : folder[m] # extractions
=============================================================================
