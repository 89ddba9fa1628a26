------------------------ MODULE FileServicesProofs ------------------------
(***************************************************************************)
(* Theorems about the services that write files for the library:           *)
(* ArchiveExtractor, ToolRunner, PatchEngine, DiscSets, CatalogFetch and   *)
(* Enrichment; and, last, about all the services together.                 *)
(***************************************************************************)
EXTENDS MCServices, LibraryServicesProofs, FiniteSetTheorems, TLAPS

-----------------------------------------------------------------------------
(* ArchiveExtractor: what a rejected archive leaves.                       *)

Error == {"none", "unsafe", "failures", "unreadable", "failed", "missing"}
Call == [step : {"idle", "header", "copy", "reject", "returned"}, archive : Archives \cup {<<>>},
         at : Nat \ {0}, single : Member \cup {"every"}, files : Seq(Member), failed : Nat, error : Error]

Busy == extractor.step \in {"header", "copy", "reject"}
ArchiveListed(m) == \E i \in 1..Len(extractor.files) : extractor.files[i] = m

(* The list of files holds all that this extraction wrote, except the file *)
(* it is writing and those it could not remove.                            *)
Accounted ==
    Busy => \A m \in Member : folder[m] = extractions =>
                ArchiveListed(m) \/ m \in refused \/ (extractor.step = "copy" /\ Entry = m)

ArchiveIInv ==
    /\ ArchiveTypeOK
    /\ extractions + Len(queue) <= MaxExtractions
    /\ extractor.step # "idle" => extractions > 0
    /\ extractor.step = "copy" => Entry \in Member
    /\ Accounted
    /\ RejectedLeavesNothing

-----------------------------------------------------------------------------
(* A call with one field replaced is a call, and the others are as before. *)
LEMMA StepSet ==
    ASSUME NEW e \in Call, NEW v \in {"idle", "header", "copy", "reject", "returned"}, NEW c, c = [e EXCEPT !.step = v]
    PROVE  /\ c \in Call /\ c.step = v /\ c.archive = e.archive /\ c.at = e.at /\ c.single = e.single
           /\ c.files = e.files /\ c.failed = e.failed /\ c.error = e.error
BY DEF Call

LEMMA AtSet ==
    ASSUME NEW e \in Call, NEW v \in Nat \ {0}, NEW c, c = [e EXCEPT !.at = v]
    PROVE  /\ c \in Call /\ c.step = e.step /\ c.archive = e.archive /\ c.at = v /\ c.single = e.single
           /\ c.files = e.files /\ c.failed = e.failed /\ c.error = e.error
BY DEF Call

LEMMA FilesSet ==
    ASSUME NEW e \in Call, NEW v \in Seq(Member), NEW c, c = [e EXCEPT !.files = v]
    PROVE  /\ c \in Call /\ c.step = e.step /\ c.archive = e.archive /\ c.at = e.at /\ c.single = e.single
           /\ c.files = v /\ c.failed = e.failed /\ c.error = e.error
BY DEF Call

LEMMA FailedSet ==
    ASSUME NEW e \in Call, NEW v \in Nat, NEW c, c = [e EXCEPT !.failed = v]
    PROVE  /\ c \in Call /\ c.step = e.step /\ c.archive = e.archive /\ c.at = e.at /\ c.single = e.single
           /\ c.files = e.files /\ c.failed = v /\ c.error = e.error
BY DEF Call

LEMMA ErrorSet ==
    ASSUME NEW e \in Call, NEW v \in Error, NEW c, c = [e EXCEPT !.error = v]
    PROVE  /\ c \in Call /\ c.step = e.step /\ c.archive = e.archive /\ c.at = e.at /\ c.single = e.single
           /\ c.files = e.files /\ c.failed = e.failed /\ c.error = v
BY DEF Call

(* The call goes on with the next member, and nothing else changes.        *)
LEMMA PassedFacts ==
    ASSUME extractor \in Call
    PROVE  Passed \in Call /\ Passed.step = "header" /\ Passed.files = extractor.files /\ Passed.failed = extractor.failed
<1> DEFINE v == extractor.at + 1
           e == [extractor EXCEPT !.at = v]
<1>1. v \in Nat \ {0} /\ extractor.failed \in Nat
  BY DEF Call
<1>2. Passed = [e EXCEPT !.step = "header"]
  BY DEF Passed
<1>3. e = [extractor EXCEPT !.at = v]
  OBVIOUS
<1> HIDE DEF v, e
<1>4. e \in Call /\ e.files = extractor.files /\ e.failed = extractor.failed
  BY <1>1, <1>3, AtSet
<1> QED
  BY <1>2, <1>4, StepSet

(* The call returns with an error or none.                                 *)
LEMMA ReturnedFacts ==
    ASSUME extractor \in Call, NEW error \in Error
    PROVE  /\ Returned(error) \in Call /\ Returned(error).step = "returned" /\ Returned(error).error = error
<1> DEFINE e == [extractor EXCEPT !.step = "returned"]
<1>1. Returned(error) = [e EXCEPT !.error = error]
  BY DEF Returned
<1>2. e = [extractor EXCEPT !.step = "returned"]
  OBVIOUS
<1> HIDE DEF e
<1>3. e \in Call /\ e.step = "returned"
  BY <1>2, StepSet
<1> QED
  BY <1>1, <1>3, ErrorSet

(* A member failed: the call goes on or, after too many, returns, but not  *)
(* as rejected; the files it lists are the same.                           *)
LEMMA MemberFailedFacts ==
    ASSUME extractor \in Call
    PROVE  /\ MemberFailed \in Call /\ MemberFailed.files = extractor.files
           /\ \/ MemberFailed.step = "header"
              \/ MemberFailed.step = "returned" /\ MemberFailed.error # "unsafe"
<1> DEFINE v == Passed.failed + 1
           next == [Passed EXCEPT !.failed = v]
           e == [next EXCEPT !.step = "returned"]
           last == [e EXCEPT !.error = "failures"]
<1>1. Passed \in Call /\ Passed.step = "header" /\ Passed.files = extractor.files
  BY PassedFacts
<1>2. v \in Nat
  BY <1>1 DEF Call
<1>3. MemberFailed \in {next, last}
  BY DEF MemberFailed
<1>4. next = [Passed EXCEPT !.failed = v]
  OBVIOUS
<1>5. e = [next EXCEPT !.step = "returned"]
  OBVIOUS
<1>6. last = [e EXCEPT !.error = "failures"]
  OBVIOUS
<1> HIDE DEF v, next, e, last
<1>7. next \in Call /\ next.step = "header" /\ next.files = extractor.files
  BY <1>1, <1>2, <1>4, FailedSet
<1>8. e \in Call /\ e.step = "returned" /\ e.files = next.files
  BY <1>5, <1>7, StepSet
<1>9. "failures" \in Error
  BY DEF Error
<1>10. last \in Call /\ last.step = e.step /\ last.error = "failures" /\ last.files = e.files
  BY <1>6, <1>8, <1>9, ErrorSet
<1> QED
  BY <1>3, <1>7, <1>8, <1>10
-----------------------------------------------------------------------------
LEMMA ArchiveInitHolds == ArchiveInit => ArchiveIInv
<1> SUFFICES ASSUME ArchiveInit PROVE ArchiveIInv
  OBVIOUS
<1>1. extractor \in Call /\ extractor.step = "idle"
  BY DEF ArchiveInit, NotExtracting, Call, Error
<1>2. ArchiveTypeOK
  BY <1>1, ArchiveAssumption DEF ArchiveInit, ArchiveTypeOK, Call, Error
<1> QED
  BY <1>1, <1>2, ArchiveAssumption DEF ArchiveIInv, ArchiveInit, Accounted, Busy, RejectedLeavesNothing

(* A call that begins: no file is by it yet.                               *)
LEMMA BeginHolds ==
    ASSUME ArchiveIInv, NEW archive \in Archives, NEW single \in Member \cup {"every"}, Begin(archive, single),
           queue' \in Seq(Archives), extractions + 1 + Len(queue') <= MaxExtractions, UNCHANGED <<folder, extractFaults>>
    PROVE  ArchiveIInv'
<1>1. /\ extractor' \in Call /\ extractor'.step = "header"
  <2>1. extractor' = [step |-> "header", archive |-> archive, at |-> 1, single |-> single, files |-> <<>>,
                      failed |-> 0, error |-> "none"]
    BY DEF Begin, NotExtracting
  <2> QED
    BY <2>1 DEF Call, Error
<1>2. extractions' = extractions + 1 /\ extractions \in Nat /\ refused' = {} /\ folder' = folder
  BY DEF Begin, ArchiveIInv, ArchiveTypeOK
<1>3. folder \in [Member -> 0..extractions] /\ Len(queue') \in Nat
  BY DEF ArchiveIInv, ArchiveTypeOK
<1>4. \A m \in Member : folder'[m] # extractions' /\ folder'[m] \in 0..extractions'
  BY <1>2, <1>3
<1>5. folder' \in [Member -> 0..extractions']
  BY <1>2, <1>3, <1>4
<1>6. extractions' \in 0..MaxExtractions /\ extractions' + Len(queue') <= MaxExtractions
  BY <1>2, <1>3, ArchiveAssumption
<1>7. ArchiveTypeOK'
  BY <1>1, <1>2, <1>5, <1>6 DEF ArchiveTypeOK, Call, Error, ArchiveIInv
<1> QED
  BY <1>1, <1>2, <1>4, <1>6, <1>7 DEF ArchiveIInv, Accounted, RejectedLeavesNothing

LEMMA ExtractHolds == ASSUME ArchiveIInv, Extract PROVE ArchiveIInv'
<1>1. PICK archive \in Archives, single \in Member \cup {"every"} : Begin(archive, single)
  BY DEF Extract
<1>2. extractions + 1 + Len(queue') <= MaxExtractions /\ queue' \in Seq(Archives) /\ UNCHANGED <<folder, extractFaults>>
  <2>1. queue' = <<>> /\ extractions < MaxExtractions /\ extractions \in Nat
    BY DEF Extract, ArchiveIInv, ArchiveTypeOK
  <2> QED
    BY <2>1, ArchiveAssumption DEF Extract
<1> QED
  BY <1>1, <1>2, BeginHolds

LEMMA BatchHolds == ASSUME ArchiveIInv, batchExtract PROVE ArchiveIInv'
<1>1. PICK first \in Archives, second \in Archives : Begin(first, "every") /\ queue' = <<second>>
  BY DEF batchExtract
<1>2. queue' \in Seq(Archives) /\ Len(queue') = 1
  BY <1>1
<1>3. extractions + 1 + Len(queue') <= MaxExtractions /\ UNCHANGED <<folder, extractFaults>>
  BY <1>2, ArchiveAssumption DEF batchExtract, ArchiveIInv, ArchiveTypeOK
<1>4. "every" \in Member \cup {"every"}
  OBVIOUS
<1> QED
  BY <1>1, <1>2, <1>3, <1>4, BeginHolds

LEMMA ContinuesHolds == ASSUME ArchiveIInv, BatchContinues PROVE ArchiveIInv'
<1>1. queue \in Seq(Archives) /\ queue # <<>> /\ Begin(Head(queue), "every") /\ queue' = Tail(queue)
  BY DEF BatchContinues, ArchiveIInv, ArchiveTypeOK
<1>2. Head(queue) \in Archives /\ queue' \in Seq(Archives) /\ Len(queue') = Len(queue) - 1 /\ Len(queue) \in Nat
  BY <1>1
<1>3. extractions + 1 + Len(queue') <= MaxExtractions /\ UNCHANGED <<folder, extractFaults>>
  BY <1>2, ArchiveAssumption DEF BatchContinues, ArchiveIInv, ArchiveTypeOK
<1>4. "every" \in Member \cup {"every"}
  OBVIOUS
<1> QED
  BY <1>1, <1>2, <1>3, <1>4, BeginHolds

LEMMA CancelHolds == ASSUME ArchiveIInv, CancelBatch PROVE ArchiveIInv'
<1>1. queue' \in Seq(Archives) /\ extractions + Len(queue') <= MaxExtractions
  <2>1. queue' = <<>> /\ extractions \in 0..MaxExtractions
    BY DEF CancelBatch, ArchiveIInv, ArchiveTypeOK
  <2> QED
    BY <2>1, ArchiveAssumption
<1> QED
  BY <1>1 DEF CancelBatch, ArchiveIInv, ArchiveTypeOK, Accounted, Busy, ArchiveListed, Entry, RejectedLeavesNothing

-----------------------------------------------------------------------------
(* Steps that only go on with the call.                                    *)
LEMMA SkipHolds == ASSUME ArchiveIInv, SkipMember PROVE ArchiveIInv'
<1>1. extractor \in Call
  BY DEF ArchiveIInv, ArchiveTypeOK, Call, Error
<1>2. extractor' \in Call /\ extractor'.step = "header" /\ extractor'.files = extractor.files
  BY <1>1, PassedFacts DEF SkipMember
<1>3. ArchiveTypeOK'
  BY <1>2 DEF SkipMember, ArchiveIInv, ArchiveTypeOK, Call, Error
<1>4. Accounted'
  BY <1>2 DEF SkipMember, HasEntry, ArchiveIInv, Accounted, Busy, ArchiveListed
<1> QED
  BY <1>2, <1>3, <1>4 DEF SkipMember, HasEntry, ArchiveIInv, RejectedLeavesNothing

LEMMA RejectHolds == ASSUME ArchiveIInv, Reject PROVE ArchiveIInv'
<1>1. extractor \in Call
  BY DEF ArchiveIInv, ArchiveTypeOK, Call, Error
<1>2. extractor' \in Call /\ extractor'.step = "reject" /\ extractor'.files = extractor.files
  BY <1>1, StepSet DEF Reject
<1>3. ArchiveTypeOK'
  BY <1>2 DEF Reject, ArchiveIInv, ArchiveTypeOK, Call, Error
<1>4. Accounted'
  BY <1>2 DEF Reject, HasEntry, ArchiveIInv, Accounted, Busy, ArchiveListed
<1> QED
  BY <1>2, <1>3, <1>4 DEF Reject, HasEntry, ArchiveIInv, RejectedLeavesNothing

(* A member that could not be opened or copied.                            *)
LEMMA FailedHolds ==
    ASSUME ArchiveIInv, Busy, Fault, extractor' = MemberFailed, UNCHANGED <<queue, extractions>>,
           folder' \in [Member -> 0..extractions], refused' \subseteq Member, refused \subseteq refused',
           \A m \in Member : folder'[m] = extractions =>
               (folder[m] = extractions /\ ~(extractor.step = "copy" /\ Entry = m)) \/ m \in refused'
    PROVE  ArchiveIInv'
<1>1. extractor \in Call
  BY DEF ArchiveIInv, ArchiveTypeOK, Call, Error
<1>2. /\ extractor' \in Call /\ extractor'.files = extractor.files
      /\ extractor'.step = "header" \/ (extractor'.step = "returned" /\ extractor'.error # "unsafe")
  BY <1>1, MemberFailedFacts
<1>3. extractFaults' \in 0..MaxExtractFaults
  BY ArchiveAssumption DEF Fault, ArchiveIInv, ArchiveTypeOK
<1>4. ArchiveTypeOK'
  BY <1>2, <1>3 DEF ArchiveIInv, ArchiveTypeOK, Call, Error
<1>5. Accounted'
  BY <1>2 DEF ArchiveIInv, Accounted, ArchiveListed
<1> QED
  BY <1>2, <1>4, <1>5 DEF ArchiveIInv, Busy, RejectedLeavesNothing

LEMMA OpenHolds == ASSUME ArchiveIInv, OpenMember PROVE ArchiveIInv'
<1>1. extractor \in Call
  BY DEF ArchiveIInv, ArchiveTypeOK, Call, Error
<1>2. Entry \in Member /\ extractor.step = "header" /\ extractions \in Nat /\ folder \in [Member -> 0..extractions]
  BY DEF OpenMember, HasEntry, ArchiveIInv, ArchiveTypeOK
<1>3. CASE /\ folder' = [folder EXCEPT ![Entry] = extractions]
           /\ extractor' = [extractor EXCEPT !.step = "copy"] /\ UNCHANGED extractFaults
  <2>1. /\ extractor' \in Call /\ extractor'.step = "copy" /\ extractor'.files = extractor.files
        /\ extractor'.archive = extractor.archive /\ extractor'.at = extractor.at
    BY <1>1, <1>3, StepSet
  <2>2. Entry' = Entry
    BY <2>1 DEF Entry
  <2>3. folder' \in [Member -> 0..extractions]
    BY <1>2, <1>3
  <2>4. ArchiveTypeOK'
    BY <1>3, <2>1, <2>3 DEF OpenMember, ArchiveIInv, ArchiveTypeOK, Call, Error
  <2>5. Accounted'
    BY <1>2, <1>3, <2>1, <2>2 DEF OpenMember, ArchiveIInv, Accounted, Busy, ArchiveListed
  <2> QED
    BY <1>2, <2>1, <2>2, <2>4, <2>5 DEF OpenMember, ArchiveIInv, RejectedLeavesNothing
<1>4. CASE Fault /\ extractor' = MemberFailed /\ UNCHANGED folder
  <2>1. refused' = refused /\ refused \subseteq Member /\ Busy /\ UNCHANGED <<queue, extractions>>
    BY <1>2 DEF OpenMember, ArchiveIInv, ArchiveTypeOK, Busy
  <2> QED
    BY <1>2, <1>4, <2>1, FailedHolds
<1> QED
  BY <1>3, <1>4 DEF OpenMember

LEMMA CopyFailsHolds == ASSUME ArchiveIInv, CopyFails PROVE ArchiveIInv'
<1>1. /\ extractor.step = "copy" /\ Entry \in Member /\ extractions \in Nat /\ extractions > 0
      /\ folder \in [Member -> 0..extractions] /\ refused \subseteq Member /\ Busy
  BY DEF CopyFails, ArchiveIInv, ArchiveTypeOK, Busy
<1>2. Fault /\ extractor' = MemberFailed /\ UNCHANGED <<queue, extractions>>
  BY DEF CopyFails
<1>3. CASE folder' = [folder EXCEPT ![Entry] = 0] /\ UNCHANGED refused
  <2>1. folder' \in [Member -> 0..extractions]
    BY <1>1, <1>3
  <2>2. \A m \in Member : folder'[m] = extractions => folder[m] = extractions /\ Entry # m
    BY <1>1, <1>3
  <2> QED
    BY <1>1, <1>2, <1>3, <2>1, <2>2, FailedHolds
<1>4. CASE refused' = refused \cup {Entry} /\ UNCHANGED folder
  <2>1. refused' \subseteq Member /\ refused \subseteq refused' /\ Entry \in refused'
    BY <1>1, <1>4
  <2> QED
    BY <1>1, <1>2, <1>4, <2>1, FailedHolds
<1> QED
  BY <1>3, <1>4 DEF CopyFails
(* The member is in the list from here on.                                 *)
LEMMA CopyHolds == ASSUME ArchiveIInv, copyEntryToFile PROVE ArchiveIInv'
<1> DEFINE all == Append(extractor.files, Entry)
<1>1. extractor \in Call /\ extractor.step = "copy" /\ Entry \in Member /\ extractor.files \in Seq(Member)
  BY DEF copyEntryToFile, ArchiveIInv, ArchiveTypeOK, Call, Error
<1>2. all \in Seq(Member) /\ \A i \in 1..Len(extractor.files) : all[i] = extractor.files[i] /\ i \in 1..Len(all)
  BY <1>1
<1>3. Len(all) \in 1..Len(all) /\ all[Len(all)] = Entry
  BY <1>1
<1>4. PICK e \in {Passed, Returned("none")} : extractor' = [e EXCEPT !.files = all]
  <2>1. CASE extractor.single = "every"
    <3>1. extractor' = [Passed EXCEPT !.files = Append(Passed.files, Entry)]
      BY <2>1 DEF copyEntryToFile
    <3> QED
      BY <1>1, <3>1, PassedFacts
  <2>2. CASE extractor.single # "every"
    <3>1. extractor' = [Returned("none") EXCEPT !.files = Append(Returned("none").files, Entry)]
      BY <2>2 DEF copyEntryToFile
    <3>2. Returned("none").files = extractor.files
      BY <1>1 DEF Returned, Call
    <3> QED
      BY <3>1, <3>2
  <2> QED
    BY <2>1, <2>2
<1> HIDE DEF all
<1>5. e \in Call /\ (e.step = "header" \/ (e.step = "returned" /\ e.error = "none"))
  <2>1. "none" \in Error
    BY DEF Error
  <2> QED
    BY <1>1, <1>4, <2>1, PassedFacts, ReturnedFacts
<1>6. extractor' \in Call /\ extractor'.files = all /\ extractor'.step = e.step /\ extractor'.error = e.error
  BY <1>2, <1>4, <1>5, FilesSet
<1>7. ArchiveTypeOK'
  BY <1>6 DEF copyEntryToFile, ArchiveIInv, ArchiveTypeOK, Call, Error
<1>8. \A m \in Member : ArchiveListed(m) \/ Entry = m => ArchiveListed(m)'
  BY <1>2, <1>3, <1>6 DEF ArchiveListed
<1>9. Accounted'
  BY <1>1, <1>8 DEF copyEntryToFile, ArchiveIInv, Accounted, Busy
<1> QED
  BY <1>1, <1>5, <1>6, <1>7, <1>9 DEF copyEntryToFile, ArchiveIInv, RejectedLeavesNothing

(* What is taken off the list is gone or could not be removed.             *)
LEMMA UndoHolds == ASSUME ArchiveIInv, Undo PROVE ArchiveIInv'
<1> DEFINE files == extractor.files
           file == Head(files)
<1>1. extractor \in Call /\ extractor.step = "reject" /\ files \in Seq(Member) /\ files # <<>> /\ extractor' = [extractor EXCEPT !.files = Tail(files)]
  BY DEF Undo, ToUndo, ArchiveIInv, ArchiveTypeOK, Call, Error
<1>2. Tail(files) \in Seq(Member) /\ file \in Member
  BY <1>1
<1>3. \A m \in Member : ArchiveListed(m) => m = file \/ \E i \in 1..Len(Tail(files)) : Tail(files)[i] = m
  <2>1. SUFFICES ASSUME NEW m \in Member, NEW i \in 1..Len(files), files[i] = m, m # file
                 PROVE  \E j \in 1..Len(Tail(files)) : Tail(files)[j] = m
    BY DEF ArchiveListed
  <2>2. i # 1 /\ i - 1 \in 1..Len(Tail(files)) /\ Tail(files)[i - 1] = files[i]
    BY <1>1, <2>1
  <2> QED
    BY <2>1, <2>2
<1>4. extractor' \in Call /\ extractor'.files = Tail(files) /\ extractor'.step = "reject"
  <2> DEFINE rest == Tail(files)
  <2>1. rest \in Seq(Member) /\ extractor' = [extractor EXCEPT !.files = rest]
    BY <1>1, <1>2
  <2>3. extractor \in Call
    BY <1>1
  <2> HIDE DEF rest
  <2>2. extractor' \in Call /\ extractor'.files = rest /\ extractor'.step = extractor.step
    BY <2>1, <2>3, FilesSet
  <2> QED
    BY <1>1, <2>2 DEF rest
<1>5. extractions \in Nat /\ extractions > 0 /\ folder \in [Member -> 0..extractions] /\ refused \subseteq Member
      /\ UNCHANGED <<queue, extractions>>
  BY <1>1 DEF Undo, ArchiveIInv, ArchiveTypeOK
<1>6. /\ folder' \in [Member -> 0..extractions] /\ refused' \subseteq Member /\ extractFaults' \in 0..MaxExtractFaults
      /\ refused \subseteq refused' /\ \A m \in Member : folder'[m] = extractions => folder[m] = extractions /\ (m # file \/ m \in refused')
  <2>1. CASE folder' = [folder EXCEPT ![file] = 0] /\ UNCHANGED <<extractFaults, refused>>
    BY <1>2, <1>5, <2>1 DEF ArchiveIInv, ArchiveTypeOK
  <2>2. CASE Fault /\ refused' = refused \cup {file} /\ UNCHANGED folder
    BY <1>2, <1>5, <2>2, ArchiveAssumption DEF ArchiveIInv, ArchiveTypeOK, Fault
  <2> QED
    BY <2>1, <2>2 DEF Undo
<1>7. ArchiveTypeOK'
  BY <1>4, <1>5, <1>6 DEF ArchiveIInv, ArchiveTypeOK, Call, Error
<1>8. \A m \in Member : ArchiveListed(m) => m = file \/ ArchiveListed(m)'
  BY <1>3, <1>4 DEF ArchiveListed
<1> HIDE DEF files, file
<1>9. Accounted'
  BY <1>1, <1>4, <1>5, <1>6, <1>8 DEF ArchiveIInv, Accounted, Busy
<1> QED
  BY <1>1, <1>4, <1>5, <1>7, <1>9 DEF ArchiveIInv, RejectedLeavesNothing

LEMMA RejectedHolds == ASSUME ArchiveIInv, Rejected PROVE ArchiveIInv'
<1> DEFINE e == Returned("unsafe")
<1>1. extractor \in Call /\ extractor.step = "reject" /\ extractor.files = <<>> /\ extractor' = [e EXCEPT !.files = <<>>]
  BY DEF Rejected, ToUndo, ArchiveIInv, ArchiveTypeOK, Call, Error
<1>2. e \in Call /\ e.step = "returned"
  <2>1. "unsafe" \in Error
    BY DEF Error
  <2> QED
    BY <1>1, <2>1, ReturnedFacts
<1> HIDE DEF e
<1>4. extractor' \in Call /\ extractor'.step = "returned"
  <2> DEFINE none == <<>>
  <2>1. none \in Seq(Member) /\ extractor' = [e EXCEPT !.files = none]
    BY <1>1
  <2> HIDE DEF none
  <2> QED
    BY <1>2, <2>1, FilesSet
<1>5. ArchiveTypeOK'
  BY <1>4 DEF Rejected, ArchiveIInv, ArchiveTypeOK, Call, Error
<1>6. \A m \in Member : ~ArchiveListed(m)
  BY <1>1 DEF ArchiveListed
<1>7. \A m \in Member \ refused : folder[m] # extractions
  BY <1>1, <1>6 DEF ArchiveIInv, Accounted, Busy
<1> QED
  BY <1>1, <1>4, <1>5, <1>7 DEF Rejected, ArchiveIInv, Accounted, Busy, RejectedLeavesNothing

LEMMA EndsHolds == ASSUME ArchiveIInv, ArchiveEnds PROVE ArchiveIInv'
<1>1. extractor \in Call /\ extractor.step = "header"
  BY DEF ArchiveEnds, ArchiveIInv, ArchiveTypeOK, Call, Error
<1>2. PICK error \in Error \ {"unsafe"} : extractor' = Returned(error)
  BY DEF ArchiveEnds, Error
<1>3. extractor' \in Call /\ extractor'.step = "returned" /\ extractor'.error # "unsafe"
  BY <1>1, <1>2, ReturnedFacts
<1>4. extractFaults' \in 0..MaxExtractFaults
  BY ArchiveAssumption DEF ArchiveEnds, Fault, ArchiveIInv, ArchiveTypeOK
<1>5. ArchiveTypeOK'
  BY <1>3, <1>4 DEF ArchiveEnds, ArchiveIInv, ArchiveTypeOK, Call, Error
<1> QED
  BY <1>1, <1>3, <1>5 DEF ArchiveEnds, ArchiveIInv, Accounted, Busy, RejectedLeavesNothing

-----------------------------------------------------------------------------
LEMMA ArchiveStepHolds == ArchiveIInv /\ [ArchiveNext]_archiveVars => ArchiveIInv'
<1>1. ASSUME ArchiveIInv, ArchiveNext PROVE ArchiveIInv'
  BY <1>1, ExtractHolds, BatchHolds, ContinuesHolds, CancelHolds, SkipHolds, RejectHolds, OpenHolds, CopyHolds,
     CopyFailsHolds, UndoHolds, RejectedHolds, EndsHolds DEF ArchiveNext
<1>2. ASSUME ArchiveIInv, UNCHANGED archiveVars PROVE ArchiveIInv'
  BY <1>2 DEF archiveVars, ArchiveIInv, ArchiveTypeOK, Accounted, Busy, ArchiveListed, Entry, RejectedLeavesNothing
<1> QED
  BY <1>1, <1>2

LEMMA ArchiveInvariance == ArchiveSpec => []ArchiveIInv
BY ArchiveInitHolds, ArchiveStepHolds, PTL DEF ArchiveSpec

(* Types, among them that a call is at one of its steps, its list is one   *)
(* of members and no file is by an extraction that has not begun.          *)
THEOREM ArchiveTypeCorrect == ArchiveSpec => []ArchiveTypeOK
<1>1. ArchiveIInv => ArchiveTypeOK
  BY DEF ArchiveIInv
<1> QED
  BY <1>1, ArchiveInvariance, PTL

(* A rejected archive leaves no file of its own, except what the system    *)
(* refused to remove, for any archives, failures and former extractions.   *)
THEOREM RejectionUndoes == ArchiveSpec => []RejectedLeavesNothing
<1>1. ArchiveIInv => RejectedLeavesNothing
  BY DEF ArchiveIInv
<1> QED
  BY <1>1, ArchiveInvariance, PTL

-----------------------------------------------------------------------------
(* ToolRunner: what an exit code says, and a cancel.                       *)

(* The call with the fields that its phase has.                            *)
Input == DOMAIN OutputOf
RestingCalls == [phase : {"idle", "loop"}, todo : Seq(Input)]
RunningCalls == [phase : {"announced", "waiting", "read"}, op : {"createdvd", "createcd", "verify"},
             input : Input, todo : Seq(Input)]

(* A child is there only while it is waited for, and one that ended well   *)
(* has left a whole file; a cancel that was heard is not forgotten before  *)
(* the batch has seen it.                                                  *)
RunnerIInv ==
    /\ RunnerTypeOK
    /\ runner \in RestingCalls \cup RunningCalls
    /\ child # "none" => runner.phase \in {"waiting", "read"}
    /\ child = "done" => Lies(runner.input) = "whole"
    /\ heard => cancelled /\ runner.phase \in {"loop", "waiting", "read"}
    /\ heard /\ runner.phase # "loop" => Tracked
    /\ GoodIsWhole

LEMMA RunnerInitHolds == RunnerInit => RunnerIInv
<1> SUFFICES ASSUME RunnerInit PROVE RunnerIInv
  OBVIOUS
<1>1. runner \in RestingCalls /\ runner.phase = "idle"
  BY DEF RunnerInit, Resting, RestingCalls
<1>2. \A x : OutputsBefore \in [Output -> {"absent", "old"}] => OutputsBefore \in [Output -> OnDisk]
  BY DEF OnDisk
<1> QED
  BY <1>1, <1>2, RunnerAssumption DEF RunnerInit, RunnerIInv, RunnerTypeOK, GoodIsWhole, NoReport

(* The phase changes and nothing else of the call.                         *)
LEMMA EnterFacts ==
    ASSUME NEW r \in RunningCalls, NEW p \in {"announced", "waiting", "read"}
    PROVE  LET n == [r EXCEPT !.phase = p] IN
           n \in RunningCalls /\ n.phase = p /\ n.op = r.op /\ n.input = r.input
BY DEF RunningCalls

LEMMA BatchStartHolds == ASSUME RunnerIInv, BatchStart PROVE RunnerIInv'
<1>1. runner' \in RestingCalls /\ runner'.phase = "loop"
  BY RunnerAssumption DEF BatchStart, RestingCalls, Input
<1> QED
  BY <1>1 DEF BatchStart, Phase, RunnerIInv, RunnerTypeOK, GoodIsWhole, NoReport

LEMMA BatchNextHolds == ASSUME RunnerIInv, BatchNext PROVE RunnerIInv'
<1>1. runner \in RestingCalls /\ runner.phase = "loop" /\ child = "none" /\ runner.todo \in Seq(Input)
  BY DEF BatchNext, Phase, RunnerIInv, RestingCalls, RunningCalls
<1>2. CASE runner' = Resting /\ heard' = FALSE
  <2>1. runner' \in RestingCalls /\ runner'.phase = "idle"
    BY <1>2 DEF Resting, RestingCalls
  <2> QED
    BY <1>1, <1>2, <2>1 DEF BatchNext, RunnerIInv, RunnerTypeOK, GoodIsWhole, NoReport
<1>3. CASE runner.todo # <<>> /\ runner' = [runner EXCEPT !.todo = Tail(@)] /\ UNCHANGED heard
  <2>1. runner' \in RestingCalls /\ runner'.phase = "loop"
    BY <1>1, <1>3 DEF RestingCalls
  <2> QED
    BY <1>1, <1>3, <2>1 DEF BatchNext, RunnerIInv, RunnerTypeOK, GoodIsWhole, NoReport
<1>4. CASE /\ runner.todo # <<>> /\ ~cancelled
           /\ runner' = [phase |-> "announced", op |-> Command(Head(runner.todo)), input |-> Head(runner.todo),
                         todo |-> Tail(runner.todo)]
           /\ UNCHANGED heard
  <2>1. runner' \in RunningCalls /\ runner'.phase = "announced"
    BY <1>1, <1>4 DEF RunningCalls, Command
  <2>2. ~heard
    BY <1>4 DEF RunnerIInv
  <2> QED
    BY <1>1, <1>4, <2>1, <2>2 DEF BatchNext, RunnerIInv, RunnerTypeOK, GoodIsWhole, NoReport
<1> QED
  BY <1>2, <1>3, <1>4 DEF BatchNext

LEMMA VerifyStartHolds == ASSUME RunnerIInv, VerifyStart PROVE RunnerIInv'
<1>1. runner' \in RunningCalls /\ runner'.phase = "announced"
  BY DEF VerifyStart, RunningCalls, Input
<1>2. runner.phase = "idle" /\ ~heard /\ child = "none"
  BY DEF VerifyStart, Phase, RunnerIInv
<1> QED
  BY <1>1, <1>2 DEF VerifyStart, RunnerIInv, RunnerTypeOK, GoodIsWhole, NoReport

LEMMA LaunchHolds == ASSUME RunnerIInv, Launch PROVE RunnerIInv'
<1>1. runner \in RunningCalls /\ runner.phase = "announced" /\ child = "none" /\ ~heard /\ heard' = heard
  BY DEF Launch, Phase, RunnerIInv, RestingCalls, RunningCalls
<1>2. /\ cancelled' \in BOOLEAN
      /\ wrapper' \in {"absent", "stale", "current"}
      /\ UNCHANGED <<outputs, canceller, heard>>
  BY <1>1 DEF Launch, findTool, writeWrapper, RunnerIInv, RunnerTypeOK
<1>3. CASE child' = "running" /\ Enter("waiting") /\ UNCHANGED reported
  <2>1. runner' \in RunningCalls /\ runner'.phase = "waiting"
    BY <1>1, <1>3, EnterFacts DEF Enter
  <2> QED
    BY <1>1, <1>2, <1>3, <2>1 DEF RunnerIInv, RunnerTypeOK, GoodIsWhole
<1>4. CASE /\ runner' = [phase |-> IF Tracked THEN "loop" ELSE "idle", todo |-> runner.todo]
           /\ reported' = NoReport /\ UNCHANGED child
  <2>1. runner' \in RestingCalls /\ runner'.phase \in {"loop", "idle"}
    BY <1>1, <1>4 DEF RunningCalls, RestingCalls
  <2> QED
    BY <1>1, <1>2, <1>4, <2>1 DEF RunnerIInv, RunnerTypeOK, GoodIsWhole, NoReport
<1> QED
  BY <1>3, <1>4 DEF Launch

(* The wait ends, by the child or by the clock.                            *)
LEMMA ReadHolds == ASSUME RunnerIInv, WaitFinished \/ Timeout PROVE RunnerIInv'
<1>1. runner \in RunningCalls /\ runner.phase = "waiting"
  BY DEF WaitFinished, Timeout, Phase, RunnerIInv, RestingCalls, RunningCalls
<1>2. /\ runner' \in RunningCalls /\ runner'.phase = "read"
      /\ runner'.op = runner.op /\ runner'.input = runner.input
  BY <1>1, EnterFacts DEF WaitFinished, Timeout, Enter
<1>3. child' = child \/ child' \in {"stuck", "signalled"}
  BY DEF WaitFinished, Timeout, Killed
<1>4. UNCHANGED <<cancelled, outputs, wrapper, canceller, heard, reported>>
  BY DEF WaitFinished, Timeout
<1> QED
  BY <1>1, <1>2, <1>3, <1>4 DEF RunnerIInv, RunnerTypeOK, GoodIsWhole, Lies, Tracked

LEMMA ReportHolds == ASSUME RunnerIInv, Report PROVE RunnerIInv'
<1>1. runner \in RunningCalls /\ runner.phase = "read"
  BY DEF Report, Phase, RunnerIInv, RestingCalls, RunningCalls
<1>2. runner' \in RestingCalls /\ runner'.phase = (IF Tracked THEN "loop" ELSE "idle")
  BY <1>1 DEF Report, RunningCalls, RestingCalls
<1>3. UNCHANGED <<cancelled, outputs, wrapper, canceller, heard>> /\ child' = "none"
  BY DEF Report, Leave
<1>4. reported' \in [ok : BOOLEAN, dead : BOOLEAN, whole : BOOLEAN]
  BY DEF Report, Succeeded, ExitsZero, Alive
<1>5. reported'.ok /\ reported'.dead => reported'.whole
  BY DEF Report, Succeeded, ExitsZero, RunnerIInv
<1>6. heard => Tracked
  BY <1>1 DEF RunnerIInv
<1> QED
  BY <1>2, <1>3, <1>4, <1>5, <1>6 DEF RunnerIInv, RunnerTypeOK, GoodIsWhole

LEMMA CancelRequestHolds == ASSUME RunnerIInv, CancelRequest PROVE RunnerIInv'
<1>1. UNCHANGED <<runner, outputs, wrapper, reported>> /\ cancelled' = TRUE
  BY DEF CancelRequest
<1>2. child' = child \/ (child = "running" /\ child' = "signalled")
  BY DEF CancelRequest
<1>3. canceller' \in {"idle", "waiting"}
  BY DEF CancelRequest, RunnerIInv, RunnerTypeOK
<1>4. /\ heard' \in BOOLEAN
      /\ heard' => heard \/ runner.phase = "loop" \/ (runner.phase \in {"waiting", "read"} /\ Tracked)
  BY DEF CancelRequest, Phase, RunnerIInv, RunnerTypeOK, Tracked
<1> QED
  BY <1>1, <1>2, <1>3, <1>4 DEF RunnerIInv, RunnerTypeOK, GoodIsWhole, Lies, Tracked

LEMMA KillHolds == ASSUME RunnerIInv, CancelKill PROVE RunnerIInv'
<1>1. child' = child \/ (child = "running" /\ child' \in {"stuck", "signalled"})
  BY DEF CancelKill, Killed
<1> QED
  BY <1>1 DEF CancelKill, RunnerIInv, RunnerTypeOK, GoodIsWhole, Lies, Tracked

LEMMA ToolHolds == ASSUME RunnerIInv, ToolStep PROVE RunnerIInv'
<1>1. runner \in RunningCalls /\ runner.phase = "waiting" /\ child = "running"
  BY DEF ToolStep, Phase, RunnerIInv, RestingCalls, RunningCalls
<1>2. OutputOf[runner.input] \in Output
  BY <1>1 DEF RunningCalls, Input, Output
<1>3. UNCHANGED <<runner, cancelled, wrapper, canceller, heard, reported>>
  BY DEF ToolStep
<1>4. /\ outputs' \in [Output -> OnDisk]
      /\ child' \in {"running", "done", "failed"}
      /\ child' = "done" => outputs'[OutputOf[runner.input]] = "whole"
  BY <1>1, <1>2 DEF ToolStep, RunnerIInv, RunnerTypeOK, OnDisk
<1> QED
  BY <1>1, <1>3, <1>4 DEF RunnerIInv, RunnerTypeOK, GoodIsWhole, Lies, Tracked

LEMMA RunnerStepHolds == RunnerIInv /\ [RunnerNext]_runnerVars => RunnerIInv'
<1>1. ASSUME RunnerIInv, RunnerNext PROVE RunnerIInv'
  BY <1>1, BatchStartHolds, BatchNextHolds, VerifyStartHolds, LaunchHolds, ReadHolds, ReportHolds, CancelRequestHolds,
     KillHolds, ToolHolds DEF RunnerNext, RunnerStep
<1>2. ASSUME RunnerIInv, UNCHANGED runnerVars PROVE RunnerIInv'
  BY <1>2 DEF runnerVars, RunnerIInv, RunnerTypeOK, GoodIsWhole, Lies, Tracked
<1> QED
  BY <1>1, <1>2

LEMMA RunnerInvariance == RunnerSpec => []RunnerIInv
BY RunnerInitHolds, RunnerStepHolds, PTL DEF RunnerSpec

(* Types of the converter's call, its child and what it writes.            *)
THEOREM RunnerTypeCorrect == RunnerSpec => []RunnerTypeOK
<1>1. RunnerIInv => RunnerTypeOK
  BY DEF RunnerIInv
<1> QED
  BY <1>1, RunnerInvariance, PTL

(* The exit code of a child that has ended tells whether its file is whole *)
(* (disc_converter.cpp:47), for any inputs, also two that share an output, *)
(* any batches, and a canceller that kills the child of a later run.       *)
THEOREM ExitCodeTells == RunnerSpec => []GoodIsWhole
<1>1. RunnerIInv => GoodIsWhole
  BY DEF RunnerIInv
<1> QED
  BY <1>1, RunnerInvariance, PTL

(* A cancel that came between two files or once the tool ran is obeyed     *)
(* before another file is begun (chd_converter.cpp:186).                   *)
THEOREM CancelIsObeyed == RunnerSpec => []CancelEndsBatch
<1>1. RunnerIInv => CancelEndsBatch
  BY DEF RunnerIInv, CancelEndsBatch
<1> QED
  BY <1>1, RunnerInvariance, PTL

-----------------------------------------------------------------------------
(* PatchEngine: a patch is applied or nothing happens.                     *)

PatchSteps == {"remove", "copy", "start", "wait", "result", "abandon", "destroy", "builtin"}
PatchCall == [step : PatchSteps, format : Format, out : {"base", "out"}, tool : BOOLEAN, ran : BOOLEAN,
              refused : BOOLEAN]

(* What the engine may rely on at each step: the child that ended well has *)
(* written the whole output, and what it could clean stays clean once the  *)
(* child is dead.                                                          *)
PatchCallOK ==
    /\ apply.step = "builtin" <=> ~apply.tool
    /\ apply.step \in {"remove", "copy", "start", "builtin"} => patcher = "none"
    /\ apply.step = "copy" => roms[apply.out] = "absent" \/ apply.refused
    /\ apply.step \in {"wait", "result"} /\ patcher = "done" => roms[apply.out] = "patched"
    /\ apply.step = "result" => ~Living /\ (apply.ran <=> patcher # "none")
    /\ apply.step = "destroy" /\ apply.ran =>
         ~Living /\ (OnCopy(apply.format) => roms[apply.out] = "absent" \/ apply.refused)

PatchIInv ==
    /\ PatchTypeOK
    /\ \/ apply = NotApplying /\ patcher = "none"
       \/ apply \in PatchCall /\ PatchCallOK /\ patchResult = NoResult
    /\ PatchIsAllOrNothing

LEMMA PatchInitHolds == PatchInit => PatchIInv
BY DEF PatchInit, PatchIInv, PatchTypeOK, NotApplying, NoResult, PatchIsAllOrNothing, RomPath, RomState

(* A call at work has not returned before.                                 *)
LEMMA AtStep ==
    ASSUME PatchIInv, apply.step # "idle"
    PROVE  apply \in PatchCall /\ PatchCallOK /\ patchResult = NoResult
BY DEF PatchIInv, NotApplying

(* A step of the call that does not return.                                *)
LEMMA StaysBusy ==
    ASSUME PatchTypeOK', apply' \in PatchCall, PatchCallOK', patchResult' = NoResult
    PROVE  PatchIInv'
BY DEF PatchIInv, NoResult, PatchIsAllOrNothing

(* The call returns.                                                       *)
LEMMA ReturnHolds ==
    ASSUME PatchIInv, apply.step # "idle", NEW ok \in BOOLEAN, NEW dead \in BOOLEAN, NEW unnoticed \in BOOLEAN,
           Return(ok, dead, unnoticed), patcher' = "none", roms' \in [RomPath -> RomState],
           ok /\ (apply.ran \/ ~apply.tool) /\ ~unnoticed => roms'[apply.out] = "patched",
           ~ok /\ OnCopy(apply.format) /\ apply.tool /\ dead /\ ~unnoticed => roms'[apply.out] = "absent"
    PROVE  PatchIInv'
<1>1. apply' = NotApplying /\ PatchTypeOK'
  BY DEF Return, PatchTypeOK, NotApplying
<1>2. PICK r : r = patchResult'
  OBVIOUS
<1>3. /\ r.ok = ok /\ r.format = apply.format /\ r.out = apply.out /\ r.tool = apply.tool
      /\ r.ran = apply.ran /\ r.dead = dead /\ r.unnoticed = unnoticed
  BY <1>2 DEF Return
<1>4. PatchIsAllOrNothing'
  BY <1>2, <1>3 DEF PatchIsAllOrNothing, OnCopy
<1> QED
  BY <1>1, <1>4 DEF PatchIInv

LEMMA PatchStepNames == \A s \in {"copy", "start", "wait", "result", "abandon", "destroy"} : s \in PatchSteps
BY DEF PatchSteps

LEMMA ApplyHolds == ASSUME PatchIInv, Apply PROVE PatchIInv'
<1>1. patcher = "none" /\ patchResult' = NoResult /\ UNCHANGED <<roms, patcher>>
  BY DEF Apply, Applying, PatchIInv, PatchCall, PatchSteps
<1>2. PICK format \in Format, out \in {"base", "out"}, found \in BOOLEAN :
         apply' = [step |-> IF ~found THEN "builtin" ELSE IF OnCopy(format) THEN "remove" ELSE "start",
                   format |-> format, out |-> out, tool |-> found, ran |-> FALSE, refused |-> FALSE]
  <2>1. PICK magic \in Format, extension \in Format, out \in PatchOutputs, tools \in ToolSets :
           apply' = [step |-> IF ~(ToolFor(detectFormat(magic, extension)) \in tools) THEN "builtin"
                              ELSE IF OnCopy(detectFormat(magic, extension)) THEN "remove" ELSE "start",
                     format |-> detectFormat(magic, extension), out |-> out,
                     tool |-> ToolFor(detectFormat(magic, extension)) \in tools, ran |-> FALSE, refused |-> FALSE]
    BY DEF Apply
  <2>2. detectFormat(magic, extension) \in Format /\ out \in {"base", "out"}
    BY PatchAssumption DEF detectFormat
  <2>3. (ToolFor(detectFormat(magic, extension)) \in tools) \in BOOLEAN
    OBVIOUS
  <2> QED
    BY <2>1, <2>2, <2>3
<1>3. /\ apply' \in PatchCall /\ apply'.step \in {"builtin", "remove", "start"}
      /\ apply'.step = "builtin" <=> ~apply'.tool
  BY <1>2 DEF PatchCall, PatchSteps
<1>4. PatchCallOK'
  BY <1>1, <1>3 DEF PatchCallOK
<1>5. PatchTypeOK'
  BY <1>1, <1>3 DEF PatchIInv, PatchTypeOK
<1> QED
  BY <1>1, <1>3, <1>4, <1>5, StaysBusy

LEMMA CopyingHolds == ASSUME PatchIInv, RemoveOutput \/ CopyBase PROVE PatchIInv'
<1>1. /\ apply \in PatchCall /\ PatchCallOK /\ patchResult = NoResult /\ apply.step \in {"remove", "copy"}
      /\ patcher = "none" /\ apply.out \in RomPath /\ roms \in [RomPath -> RomState] /\ UNCHANGED patcher
      /\ apply.tool
  BY AtStep DEF RemoveOutput, CopyBase, Applying, PatchCallOK, PatchCall, RomPath, PatchIInv, PatchTypeOK
<1>2. CASE Then("copy") /\ roms' = [roms EXCEPT ![apply.out] = "absent"] /\ UNCHANGED patchResult
  <2>1. /\ apply' \in PatchCall /\ apply'.step = "copy" /\ apply'.tool = apply.tool /\ apply'.out = apply.out
    BY <1>1, <1>2, PatchStepNames DEF Then, PatchCall
  <2>2. roms' \in [RomPath -> RomState] /\ roms'[apply.out] = "absent"
    BY <1>1, <1>2 DEF RomState
  <2>3. PatchCallOK' /\ PatchTypeOK'
    BY <1>1, <1>2, <2>1, <2>2 DEF PatchCallOK, PatchTypeOK, PatchIInv
  <2> QED
    BY <1>1, <1>2, <2>1, <2>3, StaysBusy
<1>3. CASE apply' = [apply EXCEPT !.step = "copy", !.refused = TRUE] /\ UNCHANGED <<roms, patchResult>>
  <2>1. /\ apply' \in PatchCall /\ apply'.step = "copy" /\ apply'.tool = apply.tool /\ apply'.refused
    BY <1>1, <1>3, PatchStepNames DEF PatchCall
  <2>2. PatchCallOK' /\ PatchTypeOK'
    BY <1>1, <1>3, <2>1 DEF PatchCallOK, PatchTypeOK, PatchIInv
  <2> QED
    BY <1>1, <1>3, <2>1, <2>2, StaysBusy
<1>4. CASE Then("start") /\ roms' = [roms EXCEPT ![apply.out] = "copied"] /\ UNCHANGED patchResult
  <2>1. /\ apply' \in PatchCall /\ apply'.step = "start" /\ apply'.tool = apply.tool /\ apply'.out = apply.out
    BY <1>1, <1>4, PatchStepNames DEF Then, PatchCall
  <2>2. roms' \in [RomPath -> RomState]
    BY <1>1, <1>4 DEF RomState
  <2>3. PatchCallOK' /\ PatchTypeOK'
    BY <1>1, <1>4, <2>1, <2>2 DEF PatchCallOK, PatchTypeOK, PatchIInv
  <2> QED
    BY <1>1, <1>4, <2>1, <2>3, StaysBusy
<1>5. CASE apply.step = "copy" /\ Return(FALSE, TRUE, apply.refused) /\ UNCHANGED roms
  <2>1. apply.refused \in BOOLEAN /\ (roms[apply.out] = "absent" \/ apply.refused)
    BY <1>1, <1>5 DEF PatchCallOK, PatchCall
  <2> QED
    BY <1>1, <1>5, <2>1, ReturnHolds
<1> QED
  BY <1>2, <1>3, <1>4, <1>5 DEF RemoveOutput, CopyBase, Applying

LEMMA StartHolds == ASSUME PatchIInv, StartTool PROVE PatchIInv'
<1>1. /\ apply \in PatchCall /\ PatchCallOK /\ patchResult = NoResult /\ apply.step = "start"
      /\ UNCHANGED <<roms, patchResult>> /\ patcher' \in {"none", "starting", "running"}
  BY AtStep DEF StartTool, Applying
<1>2. apply' \in PatchCall /\ apply'.step = "wait" /\ apply'.tool = apply.tool
  BY <1>1, PatchStepNames DEF StartTool, Then, PatchCall
<1>3. PatchCallOK' /\ PatchTypeOK'
  BY <1>1, <1>2 DEF PatchCallOK, PatchTypeOK, PatchIInv
<1> QED
  BY <1>1, <1>2, <1>3, StaysBusy

LEMMA WritesHolds == ASSUME PatchIInv, ToolWrites PROVE PatchIInv'
<1>1. /\ apply \in PatchCall /\ PatchCallOK /\ patchResult = NoResult /\ UNCHANGED <<apply, patchResult>>
      /\ patcher \in {"starting", "running"} /\ apply.out \in RomPath
      /\ roms \in [RomPath -> RomState]
  BY DEF ToolWrites, Living, PatchIInv, PatchTypeOK, PatchCall, RomPath
<1>2. /\ roms' \in [RomPath -> RomState] /\ patcher' \in {"starting", "running", "done", "failed"}
      /\ patcher' = "done" => roms'[apply.out] = "patched"
  BY <1>1 DEF ToolWrites, RomState
<1>3. apply.step \in {"wait", "abandon", "destroy"} /\ ~(apply.step = "destroy" /\ apply.ran)
  BY <1>1 DEF PatchCallOK, Living, PatchCall, PatchSteps
<1>4. PatchCallOK' /\ PatchTypeOK'
  BY <1>1, <1>2, <1>3 DEF PatchCallOK, PatchTypeOK, PatchIInv
<1> QED
  BY <1>1, <1>2, <1>4, StaysBusy

LEMMA WaitHolds == ASSUME PatchIInv, waitForExternalPatchTool PROVE PatchIInv'
<1>1. /\ apply \in PatchCall /\ PatchCallOK /\ patchResult = NoResult /\ apply.step = "wait"
      /\ UNCHANGED <<roms, patchResult>>
  BY AtStep DEF waitForExternalPatchTool, Applying
<1>2. CASE ~Living /\ apply' = [apply EXCEPT !.step = "result", !.ran = patcher # "none"] /\ UNCHANGED patcher
  <2>1. /\ apply' \in PatchCall /\ apply'.step = "result" /\ (apply'.ran <=> patcher # "none")
        /\ apply'.tool = apply.tool /\ apply'.out = apply.out
    <3>1. CASE patcher = "none"
      <4>1. apply' = [apply EXCEPT !.step = "result", !.ran = FALSE]
        BY <1>2, <3>1
      <4> QED
        BY <1>1, <3>1, <4>1, PatchStepNames DEF PatchCall
    <3>2. CASE patcher # "none"
      <4>1. apply' = [apply EXCEPT !.step = "result", !.ran = TRUE]
        BY <1>2, <3>2
      <4> QED
        BY <1>1, <3>2, <4>1, PatchStepNames DEF PatchCall
    <3> QED
      BY <3>1, <3>2
  <2>2. PatchCallOK' /\ PatchTypeOK'
    BY <1>1, <1>2, <2>1 DEF PatchCallOK, PatchTypeOK, PatchIInv, Living
  <2> QED
    BY <1>1, <2>1, <2>2, StaysBusy
<1>3. CASE patcher' \in {patcher, "failed", "stuck"} /\ apply' = [apply EXCEPT !.step = "abandon", !.ran = TRUE]
  <2>1. apply' \in PatchCall /\ apply'.step = "abandon" /\ apply'.tool = apply.tool
    BY <1>1, <1>3, PatchStepNames DEF PatchCall
  <2>2. PatchCallOK' /\ PatchTypeOK'
    BY <1>1, <1>3, <2>1 DEF PatchCallOK, PatchTypeOK, PatchIInv
  <2> QED
    BY <1>1, <2>1, <2>2, StaysBusy
<1> QED
  BY <1>2, <1>3 DEF waitForExternalPatchTool

LEMMA CleanedFacts ==
    ASSUME PatchIInv, apply \in PatchCall
    PROVE  Cleaned \in [RomPath -> RomState] /\ (OnCopy(apply.format) => Cleaned[apply.out] = "absent")
BY DEF Cleaned, PatchIInv, PatchTypeOK, PatchCall, RomPath, RomState

LEMMA ResultHolds == ASSUME PatchIInv, ToolResult PROVE PatchIInv'
<1>1. /\ apply \in PatchCall /\ PatchCallOK /\ apply.step = "result" /\ patcher' = "none" /\ apply.tool
      /\ roms \in [RomPath -> RomState]
  BY AtStep DEF ToolResult, Applying, PatchCallOK, PatchCall, PatchIInv, PatchTypeOK
<1>2. CASE ExitedWithZero /\ Return(TRUE, TRUE, FALSE) /\ UNCHANGED roms
  <2>1. apply.ran => roms[apply.out] = "patched"
    BY <1>1, <1>2 DEF PatchCallOK, ExitedWithZero
  <2> QED
    BY <1>1, <1>2, <2>1, ReturnHolds
<1>3. ASSUME NEW stays \in BOOLEAN, CleanUp(stays), Return(FALSE, TRUE, stays) PROVE PatchIInv'
  <2>1. roms' \in [RomPath -> RomState] /\ (OnCopy(apply.format) => roms'[apply.out] = "absent" \/ stays)
    BY <1>1, <1>3, CleanedFacts DEF CleanUp
  <2> QED
    BY <1>1, <1>3, <2>1, ReturnHolds
<1> QED
  BY <1>2, <1>3 DEF ToolResult

LEMMA AbandonHolds == ASSUME PatchIInv, Abandon PROVE PatchIInv'
<1>1. /\ apply \in PatchCall /\ PatchCallOK /\ patchResult = NoResult /\ apply.step = "abandon"
      /\ UNCHANGED <<patcher, patchResult>>
  BY AtStep DEF Abandon, Applying
<1>2. PICK b \in BOOLEAN : b = ~Living
  OBVIOUS
<1>3. PICK stays \in BOOLEAN : CleanUp(stays) /\ apply' = [apply EXCEPT !.step = "destroy", !.ran = b, !.refused = stays]
  BY <1>2 DEF Abandon
<1>6. roms' \in [RomPath -> RomState] /\ (OnCopy(apply.format) => roms'[apply.out] = "absent" \/ stays)
  BY <1>1, <1>3, CleanedFacts DEF CleanUp, PatchIInv, PatchTypeOK
<1>4. /\ apply' \in PatchCall /\ apply'.step = "destroy" /\ apply'.ran = b /\ apply'.refused = stays
      /\ apply'.tool = apply.tool /\ apply'.out = apply.out /\ apply'.format = apply.format
  BY <1>1, <1>3, PatchStepNames DEF PatchCall
<1>5. PatchCallOK' /\ PatchTypeOK'
  BY <1>1, <1>2, <1>4, <1>6 DEF PatchCallOK, PatchTypeOK, PatchIInv, Living, OnCopy
<1> QED
  BY <1>1, <1>4, <1>5, StaysBusy

LEMMA DestroyHolds == ASSUME PatchIInv, Destroy PROVE PatchIInv'
<1>1. /\ apply \in PatchCall /\ PatchCallOK /\ apply.step = "destroy" /\ patcher' = "none"
      /\ Return(FALSE, apply.ran, apply.refused) /\ apply.ran \in BOOLEAN /\ apply.refused \in BOOLEAN
      /\ UNCHANGED roms /\ roms \in [RomPath -> RomState]
  BY AtStep DEF Destroy, Applying, PatchCall, PatchIInv, PatchTypeOK
<1> QED
  BY <1>1, ReturnHolds DEF PatchCallOK

LEMMA BuiltinHolds == ASSUME PatchIInv, applyIPSBuiltin PROVE PatchIInv'
<1>1. /\ apply \in PatchCall /\ PatchCallOK /\ apply.step = "builtin" /\ patcher' = "none" /\ ~apply.tool
      /\ roms \in [RomPath -> RomState] /\ apply.out \in RomPath
  BY AtStep DEF applyIPSBuiltin, Applying, PatchCall, PatchCallOK, PatchIInv, PatchTypeOK, RomPath
<1>2. CASE Return(FALSE, TRUE, FALSE) /\ UNCHANGED roms
  BY <1>1, <1>2, ReturnHolds
<1>3. CASE roms' = [roms EXCEPT ![apply.out] = "patched"] /\ Return(TRUE, TRUE, FALSE)
  <2>1. roms' \in [RomPath -> RomState] /\ roms'[apply.out] = "patched"
    BY <1>1, <1>3 DEF RomState
  <2> QED
    BY <1>1, <1>3, <2>1, ReturnHolds
<1>4. CASE roms' = [roms EXCEPT ![apply.out] = "half"] /\ Return(TRUE, TRUE, TRUE)
  <2>1. roms' \in [RomPath -> RomState]
    BY <1>1, <1>4 DEF RomState
  <2> QED
    BY <1>1, <1>4, <2>1, ReturnHolds
<1> QED
  BY <1>2, <1>3, <1>4 DEF applyIPSBuiltin

LEMMA CreateHolds == ASSUME PatchIInv, createPatch PROVE PatchIInv'
<1>1. apply = NotApplying /\ patcher = "none" /\ UNCHANGED <<apply, patcher>> /\ patchResult' = NoResult
  BY DEF createPatch, Applying, PatchIInv, PatchCall, PatchSteps
<1>2. roms' \in [RomPath -> RomState]
  BY DEF createPatch, PatchIInv, PatchTypeOK, RomPath, RomState
<1> QED
  BY <1>1, <1>2 DEF PatchIInv, PatchTypeOK, PatchIsAllOrNothing, NoResult

LEMMA PatchStepHolds == PatchIInv /\ [PatchNext]_patchVars => PatchIInv'
<1>1. ASSUME PatchIInv, PatchNext PROVE PatchIInv'
  BY <1>1, ApplyHolds, CopyingHolds, StartHolds, WaitHolds, ResultHolds, AbandonHolds, DestroyHolds, BuiltinHolds,
     WritesHolds, CreateHolds DEF PatchNext
<1>2. ASSUME PatchIInv, UNCHANGED patchVars PROVE PatchIInv'
  BY <1>2 DEF patchVars, PatchIInv, PatchTypeOK, PatchIsAllOrNothing, PatchCallOK, Living
<1> QED
  BY <1>1, <1>2

LEMMA PatchInvariance == PatchSpec => []PatchIInv
BY PatchInitHolds, PatchStepHolds, PTL DEF PatchSpec

(* Types of what lies at the paths, of the call and of its child.          *)
THEOREM PatchTypeCorrect == PatchSpec => []PatchTypeOK
<1>1. PatchIInv => PatchTypeOK
  BY DEF PatchIInv
<1> QED
  BY <1>1, PatchInvariance, PTL

(* A patch is applied as a whole or leaves nothing of a dead tool, for any *)
(* tools and output paths, the base's own among them, and any failures but *)
(* those of the removal of the output.                                     *)
THEOREM PatchingIsAllOrNothing == PatchSpec => []PatchIsAllOrNothing
<1>1. PatchIInv => PatchIsAllOrNothing
  BY DEF PatchIInv
<1> QED
  BY <1>1, PatchInvariance, PTL

-----------------------------------------------------------------------------
(* CatalogFetch: whose release the fetched DATs are of.                    *)

Fetched == 1 .. MaxReleases
FetchSteps == {"idle", "get", "zip", "clear", "extract", "write", "ingest"}
FetchOptions == {c.options : c \in FetchCalls} \cup {{}}
FetchCall == [step : FetchSteps, todo : Seq(Slug), options : FetchOptions, reply : {"none", "pending", "body"},
              body : 0 .. Partial, dats : Seq(Slug \X Fetched), alone : BOOLEAN,
              refused : SUBSET Slug, downloaded : [Slug -> 0 .. Partial]]

(* What a call c relies on when the cache holds the zips z and the DATs x: *)
(* every system is wanted once, and as long as it is alone, what it has    *)
(* downloaded is what lies in the cache, in a directory that is empty or   *)
(* would not be emptied.                                                   *)
FetchOK(c, z, x, named) ==
    /\ \A i, j \in DOMAIN c.todo : c.todo[i] = c.todo[j] => i = j
    /\ \A i \in DOMAIN c.dats : \A j \in DOMAIN c.todo : c.dats[i][1] # c.todo[j]
    /\ c.step \in {"get", "zip", "clear", "extract", "write"} => c.todo # <<>>
    /\ (c.step = "get" /\ c.reply = "body") \/ c.step \in {"zip", "write"} => c.body \in Fetched
    /\ c.step \in {"clear", "extract"} => z[Head(c.todo)] # 0
    /\ c.alone =>
         /\ \A i \in DOMAIN c.dats :
              named \/ c.dats[i][1] \notin c.refused => c.dats[i][2] = c.downloaded[c.dats[i][1]]
         /\ c.step \in {"clear", "extract"} => z[Head(c.todo)] = c.downloaded[Head(c.todo)]
         /\ c.step \in {"extract", "write"} => x[Head(c.todo)] = {} \/ Head(c.todo) \in c.refused
         /\ c.step = "write" => c.body = c.downloaded[Head(c.todo)]

CacheOK ==
    /\ release \in Fetched /\ libarchive \in BOOLEAN
    /\ zip \in [Slug -> 0 .. Partial] /\ extract \in [Slug -> SUBSET Fetched]

FetchIInv ==
    /\ CacheOK /\ fetchers \in [Fetcher -> FetchCall]
    /\ \A p \in Fetcher : FetchOK(fetchers[p], zip, extract, libarchive)

LEMMA Releases == MaxReleases \in Nat /\ MaxReleases > 0 /\ Partial = MaxReleases + 1
<1>1. MaxReleases \in Nat \ {0}
  BY FetchAssumption, Zenon
<1> QED
  BY <1>1 DEF Partial

LEMMA NotFetchingOK ==
    NotFetching \in FetchCall /\ NotFetching.step = "idle" /\ \A z, x, l : FetchOK(NotFetching, z, x, l)
<1>1. Partial \in Nat /\ 0 \in 0 .. Partial
  BY Releases
<1>2. NotFetching \in FetchCall
  BY <1>1 DEF NotFetching, FetchCall, FetchSteps, FetchOptions
<1> QED
  BY <1>2 DEF NotFetching, FetchOK

LEMMA FetchInitHolds == FetchInit => FetchIInv
<1> SUFFICES ASSUME FetchInit PROVE FetchIInv
  OBVIOUS
<1>1. CacheOK
  BY Releases DEF FetchInit, CacheOK, Fetched
<1>2. \A p \in Fetcher : fetchers[p] = NotFetching
  BY DEF FetchInit
<1> QED
  BY <1>1, <1>2, NotFetchingOK DEF FetchInit, FetchIInv

(* A step that p alone feels.                                              *)
LEMMA QuietStep ==
    ASSUME FetchIInv, CacheOK', UNCHANGED <<zip, extract, libarchive>>, NEW p \in Fetcher, NEW c \in FetchCall,
           fetchers' = [fetchers EXCEPT ![p] = c], FetchOK(c, zip, extract, libarchive)
    PROVE  FetchIInv'
<1>1. fetchers' \in [Fetcher -> FetchCall]
  BY DEF FetchIInv
<1>2. \A q \in Fetcher : FetchOK(fetchers'[q], zip, extract, libarchive)
  BY DEF FetchIInv
<1> QED
  BY <1>1, <1>2 DEF FetchIInv

(* A step that the others have to expect: they are not alone any more.     *)
LEMMA MovingStep ==
    ASSUME FetchIInv, CacheOK', libarchive' = libarchive, \A s \in Slug : zip[s] # 0 => zip'[s] # 0,
           NEW p \in Fetcher, NEW c \in FetchCall, fetchers' = Moves(p, c), FetchOK(c, zip', extract', libarchive)
    PROVE  FetchIInv'
<1>1. ASSUME NEW q \in Fetcher \ {p}
      PROVE  fetchers'[q] \in FetchCall /\ FetchOK(fetchers'[q], zip', extract', libarchive)
  <2>1. fetchers'[q] = [fetchers[q] EXCEPT !.alone = FALSE]
    BY DEF Moves
  <2>2. fetchers[q] \in FetchCall /\ FetchOK(fetchers[q], zip, extract, libarchive)
    BY DEF FetchIInv
  <2>3. /\ fetchers'[q] \in FetchCall /\ fetchers'[q].alone = FALSE
        /\ fetchers'[q].todo = fetchers[q].todo /\ fetchers'[q].dats = fetchers[q].dats
        /\ fetchers'[q].step = fetchers[q].step /\ fetchers'[q].reply = fetchers[q].reply
        /\ fetchers'[q].body = fetchers[q].body /\ fetchers'[q].refused = fetchers[q].refused
    BY <2>1, <2>2 DEF FetchCall
  <2>4. fetchers[q].step \in {"clear", "extract"} => Head(fetchers[q].todo) \in Slug
    BY <2>2 DEF FetchOK, FetchCall
  <2> QED
    BY <2>2, <2>3, <2>4 DEF FetchOK
<1>2. fetchers'[p] = c
  BY DEF Moves
<1>3. fetchers' \in [Fetcher -> FetchCall]
  BY <1>1, <1>2 DEF Moves
<1>4. \A q \in Fetcher : FetchOK(fetchers'[q], zip', extract', libarchive)
  BY <1>1, <1>2
<1> QED
  BY <1>3, <1>4 DEF FetchIInv

LEMMA GivesUp ==
    ASSUME FetchIInv, CacheOK', UNCHANGED <<zip, extract, libarchive>>, NEW p \in Fetcher, fetchers' = Fail(p)
    PROVE  FetchIInv'
BY NotFetchingOK, QuietStep DEF Fail

LEMMA FetchHolds == ASSUME FetchIInv, NEW p \in Fetcher, fetchCatalog(p) PROVE FetchIInv'
<1>1. CacheOK' /\ UNCHANGED <<zip, extract, libarchive>>
  BY DEF fetchCatalog, FetchIInv, CacheOK
<1>2. PICK call \in FetchCalls :
        fetchers' = [fetchers EXCEPT ![p] = Get([NotFetching EXCEPT !.todo = resolveSlugs(call.system),
                       !.options = call.options, !.alone = \A q \in Fetcher \ {p} : Fetching(q, "idle")])]
  BY DEF fetchCatalog
<1>3. PICK t : t = resolveSlugs(call.system)
  OBVIOUS
<1>4. t \in Seq(Slug) /\ t # <<>> /\ \A i, j \in DOMAIN t : t[i] = t[j] => i = j
  <2>1. /\ Slugs \in Seq(Slug) /\ Slugs # <<>>
        /\ \A i, j \in DOMAIN Slugs : Slugs[i] = Slugs[j] => i = j
    BY FetchAssumption, Zenon DEF Slug
  <2>2. call.system \in {""} \cup Slug
    BY FetchAssumption, Zenon DEF Slug
  <2>3. CASE call.system = ""
    BY <1>3, <2>1, <2>3 DEF resolveSlugs
  <2>4. CASE call.system # ""
    <3>1. t = <<call.system>> /\ call.system \in Slug
      BY <1>3, <2>2, <2>4 DEF resolveSlugs
    <3>2. \A i \in DOMAIN t : i = 1
      BY <3>1
    <3> QED
      BY <3>1, <3>2
  <2> QED
    BY <2>3, <2>4
<1>5. PICK a \in BOOLEAN : a = \A q \in Fetcher \ {p} : Fetching(q, "idle")
  <2>1. \E a \in BOOLEAN : a = \A q \in Fetcher \ {p} : Fetching(q, "idle")
    OBVIOUS
  <2> QED
    BY <2>1
<1>6. PICK n : n = [NotFetching EXCEPT !.todo = t, !.options = call.options, !.alone = a]
  OBVIOUS
<1>7. PICK c : c = Get(n)
  OBVIOUS
<1>8. fetchers' = [fetchers EXCEPT ![p] = c]
  BY <1>2, <1>3, <1>5, <1>6, <1>7, Zenon
<1>9. n \in FetchCall /\ n.todo = t /\ n.dats = <<>> /\ n.body = 0
  <2>1. call.options \in FetchOptions /\ NotFetching.dats = <<>> /\ NotFetching.body = 0
    BY DEF FetchOptions, NotFetching
  <2> QED
    BY <1>4, <1>6, <2>1, NotFetchingOK DEF FetchCall
<1>10. /\ c \in FetchCall /\ c.todo = t /\ c.dats = <<>> /\ c.step = "get" /\ c.reply = "pending"
  BY <1>7, <1>9 DEF Get, FetchCall, FetchSteps
<1>11. FetchOK(c, zip, extract, libarchive)
  BY <1>4, <1>10 DEF FetchOK
<1> QED
  BY <1>1, <1>8, <1>10, <1>11, QuietStep

LEMMA AtFetch ==
    ASSUME FetchIInv, NEW p \in Fetcher
    PROVE  /\ fetchers[p] \in FetchCall /\ FetchOK(fetchers[p], zip, extract, libarchive)
           /\ fetchers[p].step \in {"get", "zip", "clear", "extract", "write"} =>
                /\ fetchers[p].todo \in Seq(Slug) /\ fetchers[p].todo # <<>> /\ Wanted(p) \in Slug
BY DEF FetchIInv, FetchCall, FetchOK, Wanted

LEMMA ReplyHolds == ASSUME FetchIInv, NEW p \in Fetcher, Reply(p) PROVE FetchIInv'
<1>1. CacheOK' /\ UNCHANGED <<zip, extract, libarchive>> /\ fetchers[p].step = "get" /\ release \in Fetched
  BY DEF Reply, Fetching, FetchIInv, CacheOK
<1>2. PICK c : c = [fetchers[p] EXCEPT !.reply = "body", !.body = release]
  OBVIOUS
<1>3. fetchers' = [fetchers EXCEPT ![p] = c]
  BY <1>2 DEF Reply
<1>4. release \in 0 .. Partial
  BY <1>1, Releases DEF Fetched
<1>5. /\ c \in FetchCall /\ c.step = "get" /\ c.body = release /\ c.todo = fetchers[p].todo
      /\ c.dats = fetchers[p].dats /\ c.alone = fetchers[p].alone /\ c.downloaded = fetchers[p].downloaded
      /\ c.refused = fetchers[p].refused
  BY <1>1, <1>2, <1>4, AtFetch DEF FetchCall
<1>6. FetchOK(c, zip, extract, libarchive)
  BY <1>1, <1>5, AtFetch DEF FetchOK
<1> QED
  BY <1>1, <1>3, <1>5, <1>6, QuietStep

LEMMA OpenZipHolds == ASSUME FetchIInv, NEW p \in Fetcher, OpenZip(p) PROVE FetchIInv'
<1>1. Wanted(p) \in Slug /\ Partial \in 0 .. Partial /\ Partial # 0 /\ fetchers[p].step = "get"
  BY AtFetch, Releases DEF OpenZip, Fetching
<1>2. zip' = [zip EXCEPT ![Wanted(p)] = Partial] /\ UNCHANGED extract
  BY DEF OpenZip
<1>3. CacheOK' /\ \A s \in Slug : zip[s] # 0 => zip'[s] # 0
  BY <1>1, <1>2 DEF OpenZip, FetchIInv, CacheOK
<1>4. PICK c : c = [fetchers[p] EXCEPT !.step = "zip"]
  OBVIOUS
<1>5. /\ c \in FetchCall /\ c.step = "zip" /\ c.body = fetchers[p].body /\ c.todo = fetchers[p].todo
      /\ c.dats = fetchers[p].dats /\ c.alone = fetchers[p].alone /\ c.downloaded = fetchers[p].downloaded
      /\ c.refused = fetchers[p].refused
  BY <1>4, AtFetch DEF FetchCall, FetchSteps
<1>6. FetchOK(c, zip', extract', libarchive)
  BY <1>1, <1>5, AtFetch DEF FetchOK, OpenZip, Fetching
<1>7. fetchers' = Moves(p, c) /\ libarchive' = libarchive
  BY <1>4 DEF OpenZip
<1> QED
  BY <1>3, <1>5, <1>6, <1>7, MovingStep

LEMMA DownloadHolds == ASSUME FetchIInv, NEW p \in Fetcher, downloadRedumpZip(p) PROVE FetchIInv'
<1>1. /\ fetchers[p].step = "zip" /\ Wanted(p) \in Slug /\ fetchers[p].body \in Fetched
      /\ fetchers[p] \in FetchCall /\ FetchOK(fetchers[p], zip, extract, libarchive)
  BY AtFetch DEF downloadRedumpZip, Fetching, FetchOK
<1>2. PICK b : b = fetchers[p].body
  OBVIOUS
<1>3. b \in 0 .. Partial /\ b # 0
  BY <1>1, <1>2, Releases DEF Fetched
<1>4. zip' = [zip EXCEPT ![Wanted(p)] = b] /\ UNCHANGED extract
  BY <1>2 DEF downloadRedumpZip
<1>5. CacheOK' /\ (\A s \in Slug : zip[s] # 0 => zip'[s] # 0) /\ zip'[Wanted(p)] = b
  BY <1>1, <1>3, <1>4 DEF downloadRedumpZip, FetchIInv, CacheOK
<1>6. PICK c : c = [fetchers[p] EXCEPT !.step = "clear", !.downloaded[Wanted(p)] = b]
  OBVIOUS
<1>7. PICK d : d = [fetchers[p].downloaded EXCEPT ![Wanted(p)] = b]
  OBVIOUS
<1>8. d \in [Slug -> 0 .. Partial] /\ d[Wanted(p)] = b /\ \A s \in Slug \ {Wanted(p)} : d[s] = fetchers[p].downloaded[s]
  BY <1>1, <1>3, <1>7 DEF FetchCall
<1>9. c = [fetchers[p] EXCEPT !.step = "clear", !.downloaded = d]
  BY <1>6, <1>7
<1>10. /\ c \in FetchCall /\ c.step = "clear" /\ c.todo = fetchers[p].todo
       /\ c.dats = fetchers[p].dats /\ c.alone = fetchers[p].alone /\ c.downloaded = d
      /\ c.refused = fetchers[p].refused
  BY <1>1, <1>8, <1>9 DEF FetchCall, FetchSteps
<1>11. \A i \in DOMAIN c.dats : c.dats[i][1] \in Slug /\ c.dats[i][1] # Wanted(p)
  <2>1. fetchers[p].todo \in Seq(Slug) /\ fetchers[p].todo # <<>>
    BY <1>1, AtFetch
  <2>2. 1 \in DOMAIN fetchers[p].todo /\ Wanted(p) = fetchers[p].todo[1]
    BY <2>1 DEF Wanted
  <2> QED
    BY <1>1, <1>10, <2>2 DEF FetchOK, FetchCall
<1>12. c.alone => \A i \in DOMAIN c.dats : libarchive \/ c.dats[i][1] \notin c.refused => c.dats[i][2] = c.downloaded[c.dats[i][1]]
  BY <1>1, <1>8, <1>10, <1>11 DEF FetchOK
<1>13. FetchOK(c, zip', extract', libarchive)
  BY <1>1, <1>3, <1>5, <1>8, <1>10, <1>12 DEF FetchOK, Wanted
<1>14. fetchers' = Moves(p, c) /\ libarchive' = libarchive
  BY <1>2, <1>6 DEF downloadRedumpZip
<1> QED
  BY <1>5, <1>10, <1>13, <1>14, MovingStep

LEMMA ClearHolds == ASSUME FetchIInv, NEW p \in Fetcher, Clear(p) PROVE FetchIInv'
<1>1. /\ fetchers[p].step = "clear" /\ Wanted(p) \in Slug /\ UNCHANGED <<zip, libarchive>>
      /\ fetchers[p] \in FetchCall /\ FetchOK(fetchers[p], zip, extract, libarchive)
  BY AtFetch DEF Clear, Fetching
<1>2. PICK left \in SUBSET Fetched, r \in SUBSET Slug :
        /\ extract' = [extract EXCEPT ![Wanted(p)] = left]
        /\ fetchers' = Moves(p, [fetchers[p] EXCEPT !.step = "extract", !.refused = r])
        /\ left = {} \/ Wanted(p) \in r
        /\ fetchers[p].refused \subseteq r /\ r \subseteq fetchers[p].refused \cup {Wanted(p)}
  <2>1. fetchers[p].refused \in SUBSET Slug /\ extract[Wanted(p)] \in SUBSET Fetched
    BY <1>1 DEF FetchCall, FetchIInv, CacheOK
  <2>2. CASE /\ extract' = [extract EXCEPT ![Wanted(p)] = removeRecursively(@)]
             /\ fetchers' = Moves(p, [fetchers[p] EXCEPT !.step = "extract"])
    <3>1. [fetchers[p] EXCEPT !.step = "extract"] = [fetchers[p] EXCEPT !.step = "extract", !.refused = fetchers[p].refused]
      BY <1>1 DEF FetchCall
    <3> QED
      BY <2>1, <2>2, <3>1 DEF removeRecursively
  <2>3. CASE /\ \E left \in SUBSET extract[Wanted(p)] : extract' = [extract EXCEPT ![Wanted(p)] = left]
             /\ fetchers' = Moves(p, [fetchers[p] EXCEPT !.step = "extract", !.refused = @ \cup {Wanted(p)}])
    <3>1. PICK left \in SUBSET extract[Wanted(p)] : extract' = [extract EXCEPT ![Wanted(p)] = left]
      BY <2>3
    <3>2. left \in SUBSET Fetched /\ fetchers[p].refused \cup {Wanted(p)} \in SUBSET Slug
      BY <1>1, <2>1
    <3> QED
      BY <2>3, <3>1, <3>2
  <2> QED
    BY <2>2, <2>3 DEF Clear
<1>3. CacheOK' /\ extract'[Wanted(p)] = left
  BY <1>1, <1>2 DEF Clear, FetchIInv, CacheOK
<1>4. PICK c : c = [fetchers[p] EXCEPT !.step = "extract", !.refused = r]
  OBVIOUS
<1>5. /\ c \in FetchCall /\ c.step = "extract" /\ c.todo = fetchers[p].todo /\ c.refused = r
      /\ c.dats = fetchers[p].dats /\ c.alone = fetchers[p].alone /\ c.downloaded = fetchers[p].downloaded
  BY <1>1, <1>4 DEF FetchCall, FetchSteps
<1>6. FetchOK(c, zip', extract', libarchive)
  BY <1>1, <1>2, <1>3, <1>5 DEF FetchOK, Wanted
<1>7. fetchers' = Moves(p, c)
  BY <1>2, <1>4
<1> QED
  BY <1>1, <1>3, <1>5, <1>6, <1>7, MovingStep

LEMMA ReadZipHolds == ASSUME FetchIInv, NEW p \in Fetcher, ReadZip(p) PROVE FetchIInv'
<1>1. /\ fetchers[p].step = "extract" /\ Wanted(p) \in Slug /\ UNCHANGED <<zip, extract, libarchive>> /\ CacheOK'
      /\ fetchers[p] \in FetchCall /\ FetchOK(fetchers[p], zip, extract, libarchive)
  BY AtFetch DEF ReadZip, Fetching, FetchIInv, CacheOK
<1>2. CASE fetchers' = Fail(p)
  BY <1>1, <1>2, GivesUp
<1>3. CASE /\ zip[Wanted(p)] # Partial
           /\ fetchers' = [fetchers EXCEPT ![p] = [@ EXCEPT !.step = "write", !.body = zip[Wanted(p)]]]
  <2>1. PICK b : b = zip[Wanted(p)]
    OBVIOUS
  <2>2. b \in 0 .. Partial /\ b # 0 /\ b # Partial
    BY <1>1, <1>3, <2>1 DEF FetchIInv, CacheOK, FetchOK, Wanted
  <2>3. b \in Fetched
    BY <2>2, Releases DEF Fetched
  <2>4. PICK c : c = [fetchers[p] EXCEPT !.step = "write", !.body = b]
    OBVIOUS
  <2>5. /\ c \in FetchCall /\ c.step = "write" /\ c.body = b /\ c.todo = fetchers[p].todo
        /\ c.dats = fetchers[p].dats /\ c.alone = fetchers[p].alone /\ c.downloaded = fetchers[p].downloaded
        /\ c.refused = fetchers[p].refused
    BY <1>1, <2>2, <2>4 DEF FetchCall, FetchSteps
  <2>6. FetchOK(c, zip, extract, libarchive)
    BY <1>1, <2>1, <2>3, <2>5 DEF FetchOK, Wanted
  <2>7. fetchers' = [fetchers EXCEPT ![p] = c]
    BY <1>3, <2>1, <2>4
  <2> QED
    BY <1>1, <2>5, <2>6, <2>7, QuietStep
<1> QED
  BY <1>2, <1>3 DEF ReadZip

(* The DAT of the system is there; the next system is taken, or the DATs   *)
(* are ingested, or all is done.                                           *)
LEMMA ExtractDatHolds == ASSUME FetchIInv, NEW p \in Fetcher, extractDatFromZip(p) PROVE FetchIInv'
<1>1. /\ fetchers[p].step = "write" /\ Wanted(p) \in Slug /\ UNCHANGED <<zip, libarchive>>
      /\ fetchers[p] \in FetchCall /\ FetchOK(fetchers[p], zip, extract, libarchive)
      /\ fetchers[p].todo \in Seq(Slug) /\ fetchers[p].todo # <<>>
  BY AtFetch DEF extractDatFromZip, Fetching
<1>2. PICK b : b = fetchers[p].body
  OBVIOUS
<1>3. PICK files : files = extract[Wanted(p)] \cup {b}
  OBVIOUS
<1>4. b \in Fetched /\ files \subseteq Fetched /\ (fetchers[p].alone => b = fetchers[p].downloaded[Wanted(p)])
      /\ (fetchers[p].alone => files = {b} \/ Wanted(p) \in fetchers[p].refused)
  BY <1>1, <1>2, <1>3 DEF FetchOK, FetchIInv, CacheOK, Wanted
<1>5. extract' = [extract EXCEPT ![Wanted(p)] = files]
  BY <1>2, <1>3 DEF extractDatFromZip
<1>6. CacheOK'
  BY <1>1, <1>4, <1>5 DEF extractDatFromZip, FetchIInv, CacheOK
<1>7. PICK taken \in IF libarchive THEN {b} ELSE files :
        LET call == [fetchers[p] EXCEPT !.dats = Append(@, <<Wanted(p), taken>>), !.todo = Tail(@)] IN
        fetchers' = Moves(p, IF call.todo # <<>> THEN Get(call)
                             ELSE IF "ingest" \in call.options THEN [call EXCEPT !.step = "ingest"] ELSE NotFetching)
  BY <1>2, <1>3 DEF extractDatFromZip
<1>8. taken \in files /\ taken \in Fetched /\ (libarchive => taken = b)
  BY <1>3, <1>4, <1>7
<1>9. PICK t, ds : t = Tail(fetchers[p].todo) /\ ds = Append(fetchers[p].dats, <<Wanted(p), taken>>)
  OBVIOUS
<1>10. fetchers[p].dats \in Seq(Slug \X Fetched) /\ <<Wanted(p), taken>> \in Slug \X Fetched
  BY <1>1, <1>8 DEF FetchCall
<1>11. /\ ds \in Seq(Slug \X Fetched) /\ t \in Seq(Slug)
       /\ \A i \in DOMAIN ds : \/ i \in DOMAIN fetchers[p].dats /\ ds[i] = fetchers[p].dats[i]
                               \/ ds[i] = <<Wanted(p), taken>>
       /\ \A j \in DOMAIN t : j + 1 \in DOMAIN fetchers[p].todo /\ t[j] = fetchers[p].todo[j + 1] /\ j \in Nat \ {0}
  BY <1>1, <1>9, <1>10
<1>12. 1 \in DOMAIN fetchers[p].todo /\ Wanted(p) = fetchers[p].todo[1]
  BY <1>1 DEF Wanted
<1>13. \A i, j \in DOMAIN t : t[i] = t[j] => i = j
  <2>1. SUFFICES ASSUME NEW i \in DOMAIN t, NEW j \in DOMAIN t, t[i] = t[j] PROVE i = j
    OBVIOUS
  <2>2. i + 1 = j + 1
    BY <1>1, <1>11, <2>1 DEF FetchOK
  <2> QED
    BY <1>11, <2>2
<1>14. \A j \in DOMAIN t : t[j] # Wanted(p)
  <2>1. SUFFICES ASSUME NEW j \in DOMAIN t, t[j] = Wanted(p) PROVE FALSE
    OBVIOUS
  <2>2. j + 1 = 1
    BY <1>1, <1>11, <1>12, <2>1 DEF FetchOK
  <2> QED
    BY <1>11, <2>2
<1>15. \A i \in DOMAIN ds : \A j \in DOMAIN t : ds[i][1] # t[j]
  <2>1. SUFFICES ASSUME NEW i \in DOMAIN ds, NEW j \in DOMAIN t PROVE ds[i][1] # t[j]
    OBVIOUS
  <2>2. CASE i \in DOMAIN fetchers[p].dats /\ ds[i] = fetchers[p].dats[i]
    BY <1>1, <1>11, <2>1, <2>2 DEF FetchOK
  <2>3. CASE ds[i] = <<Wanted(p), taken>>
    BY <1>14, <2>1, <2>3
  <2> QED
    BY <1>11, <2>2, <2>3
<1>16. fetchers[p].alone => \A i \in DOMAIN ds : libarchive \/ ds[i][1] \notin fetchers[p].refused => ds[i][2] = fetchers[p].downloaded[ds[i][1]]
  <2>1. SUFFICES ASSUME fetchers[p].alone, NEW i \in DOMAIN ds, libarchive \/ ds[i][1] \notin fetchers[p].refused
                 PROVE  ds[i][2] = fetchers[p].downloaded[ds[i][1]]
    OBVIOUS
  <2>2. CASE i \in DOMAIN fetchers[p].dats /\ ds[i] = fetchers[p].dats[i]
    BY <1>1, <2>1, <2>2 DEF FetchOK
  <2>3. CASE ds[i] = <<Wanted(p), taken>>
    BY <1>4, <1>8, <2>1, <2>3
  <2> QED
    BY <1>11, <2>2, <2>3
<1>17. PICK c : c = [fetchers[p] EXCEPT !.dats = ds, !.todo = t]
  OBVIOUS
<1>18. /\ c \in FetchCall /\ c.todo = t /\ c.dats = ds /\ c.alone = fetchers[p].alone
       /\ c.downloaded = fetchers[p].downloaded
      /\ c.refused = fetchers[p].refused
  BY <1>1, <1>11, <1>17 DEF FetchCall
<1>19. fetchers' = Moves(p, IF t # <<>> THEN Get(c)
                            ELSE IF "ingest" \in c.options THEN [c EXCEPT !.step = "ingest"] ELSE NotFetching)
  BY <1>7, <1>9, <1>17, <1>18
<1>20. CASE t # <<>> /\ fetchers' = Moves(p, Get(c))
  <2>1. PICK n : n = Get(c)
    OBVIOUS
  <2>2. /\ n \in FetchCall /\ n.step = "get" /\ n.reply = "pending" /\ n.todo = t /\ n.dats = ds
        /\ n.alone = fetchers[p].alone /\ n.downloaded = fetchers[p].downloaded
        /\ n.refused = fetchers[p].refused
    BY <1>18, <2>1 DEF Get, FetchCall, FetchSteps
  <2>3. FetchOK(n, zip', extract', libarchive)
    BY <1>13, <1>15, <1>16, <1>20, <2>2 DEF FetchOK
  <2> QED
    BY <1>1, <1>6, <1>20, <2>1, <2>2, <2>3, MovingStep
<1>21. CASE fetchers' = Moves(p, [c EXCEPT !.step = "ingest"])
  <2>1. PICK n : n = [c EXCEPT !.step = "ingest"]
    OBVIOUS
  <2>2. /\ n \in FetchCall /\ n.step = "ingest" /\ n.todo = t /\ n.dats = ds
        /\ n.alone = fetchers[p].alone /\ n.downloaded = fetchers[p].downloaded
        /\ n.refused = fetchers[p].refused
    BY <1>18, <2>1 DEF FetchCall, FetchSteps
  <2>3. FetchOK(n, zip', extract', libarchive)
    BY <1>13, <1>15, <1>16, <2>2 DEF FetchOK
  <2> QED
    BY <1>1, <1>6, <1>21, <2>1, <2>2, <2>3, MovingStep
<1>22. CASE fetchers' = Moves(p, NotFetching)
  BY <1>1, <1>6, <1>22, NotFetchingOK, MovingStep
<1> QED
  BY <1>19, <1>20, <1>21, <1>22

LEMMA IngestHolds == ASSUME FetchIInv, NEW p \in Fetcher, ingestDatPaths(p) PROVE FetchIInv'
<1>1. /\ fetchers[p].step = "ingest" /\ UNCHANGED <<zip, extract, libarchive>> /\ CacheOK' /\ fetchers[p].dats # <<>>
      /\ fetchers[p] \in FetchCall /\ FetchOK(fetchers[p], zip, extract, libarchive)
  BY AtFetch DEF ingestDatPaths, Fetching, FetchIInv, CacheOK
<1>2. CASE fetchers' = Fail(p)
  BY <1>1, <1>2, GivesUp
<1>3. CASE fetchers' = Moves(p, NotFetching)
  BY <1>1, <1>3, NotFetchingOK, MovingStep
<1>4. CASE fetchers' = Moves(p, [fetchers[p] EXCEPT !.dats = Tail(@)])
  <2>1. PICK ds : ds = Tail(fetchers[p].dats)
    OBVIOUS
  <2>2. /\ ds \in Seq(Slug \X Fetched)
        /\ \A i \in DOMAIN ds : i + 1 \in DOMAIN fetchers[p].dats /\ ds[i] = fetchers[p].dats[i + 1]
    <3>1. fetchers[p].dats \in Seq(Slug \X Fetched)
      BY <1>1 DEF FetchCall
    <3> QED
      BY <1>1, <2>1, <3>1
  <2>3. PICK c : c = [fetchers[p] EXCEPT !.dats = ds]
    OBVIOUS
  <2>4. /\ c \in FetchCall /\ c.step = "ingest" /\ c.todo = fetchers[p].todo /\ c.dats = ds
        /\ c.alone = fetchers[p].alone /\ c.downloaded = fetchers[p].downloaded
        /\ c.refused = fetchers[p].refused
    BY <1>1, <2>2, <2>3 DEF FetchCall
  <2>7. \A i \in DOMAIN ds : c.alone /\ (libarchive \/ ds[i][1] \notin c.refused) => ds[i][2] = c.downloaded[ds[i][1]]
    <3>1. SUFFICES ASSUME NEW i \in DOMAIN ds, c.alone, libarchive \/ ds[i][1] \notin c.refused
                   PROVE  ds[i][2] = c.downloaded[ds[i][1]]
      OBVIOUS
    <3>2. PICK j : j = i + 1
      OBVIOUS
    <3>3. j \in DOMAIN fetchers[p].dats /\ ds[i] = fetchers[p].dats[j]
      BY <2>2, <3>2
    <3>4. fetchers[p].alone /\ (libarchive \/ fetchers[p].dats[j][1] \notin fetchers[p].refused)
      BY <2>4, <3>1, <3>3
    <3>5. fetchers[p].dats[j][2] = fetchers[p].downloaded[fetchers[p].dats[j][1]]
      BY <1>1, <3>3, <3>4 DEF FetchOK
    <3> QED
      BY <2>4, <3>3, <3>5
  <2>5. FetchOK(c, zip', extract', libarchive)
    BY <1>1, <2>2, <2>4, <2>7 DEF FetchOK
  <2>6. fetchers' = Moves(p, c)
    BY <1>4, <2>1, <2>3
  <2> QED
    BY <1>1, <2>4, <2>5, <2>6, MovingStep
<1> QED
  BY <1>2, <1>3, <1>4 DEF ingestDatPaths

LEMMA FetchStepHolds == FetchIInv /\ [FetchNext]_fetchVars => FetchIInv'
<1>1. ASSUME FetchIInv, Release PROVE FetchIInv'
  <2>1. release' = release + 1 /\ release < MaxReleases /\ release \in 1 .. MaxReleases
        /\ UNCHANGED <<zip, extract, fetchers, libarchive>>
    BY <1>1 DEF Release, FetchIInv, CacheOK, Fetched
  <2>2. release' \in Fetched
    BY <2>1, Releases DEF Fetched
  <2> QED
    BY <1>1, <2>1, <2>2 DEF FetchIInv, CacheOK
<1>2. ASSUME FetchIInv, NEW p \in Fetcher, TimedOut(p) \/ FetchDies(p) PROVE FetchIInv'
  <2>1. CacheOK' /\ UNCHANGED <<zip, extract, libarchive>> /\ fetchers' = Fail(p)
    BY <1>2 DEF TimedOut, FetchDies, FetchIInv, CacheOK
  <2> QED
    BY <1>2, <2>1, GivesUp
<1>3. ASSUME FetchIInv, UNCHANGED fetchVars PROVE FetchIInv'
  BY <1>3 DEF fetchVars, FetchIInv, CacheOK
<1>4. ASSUME FetchIInv, FetchNext PROVE FetchIInv'
  BY <1>1, <1>2, <1>4, FetchHolds, ReplyHolds, OpenZipHolds, DownloadHolds, ClearHolds, ReadZipHolds, ExtractDatHolds,
     IngestHolds DEF FetchNext
<1> QED
  BY <1>3, <1>4

LEMMA FetchInvariance == FetchSpec => []FetchIInv
BY FetchInitHolds, FetchStepHolds, PTL DEF FetchSpec

(* Types of the cache and of the calls: no DAT is of a release that was    *)
(* never there.                                                            *)
THEOREM FetchTypeCorrect == FetchSpec => []FetchTypeOK
<1>1. FetchIInv => FetchTypeOK
  BY DEF FetchIInv, FetchTypeOK, CacheOK, Fetched, FetchCall, FetchSteps
<1> QED
  BY <1>1, FetchInvariance, PTL

(* What an undisturbed fetch ingests is what it downloaded                 *)
(* (catalog_fetch.cpp:292), for any number of processes, systems and       *)
(* releases, and whatever interrupted fetches have left in the cache,      *)
(* unless unzip unpacked it into a directory that would not be emptied.    *)
THEOREM IngestsWhatItFetched == FetchSpec => []FreshDat
<1>1. FetchIInv => FreshDat
  <2> SUFFICES ASSUME FetchIInv, NEW p \in Fetcher, fetchers[p].alone, NEW i \in DOMAIN fetchers[p].dats,
                      libarchive \/ fetchers[p].dats[i][1] \notin fetchers[p].refused
               PROVE  fetchers[p].dats[i][2] >= fetchers[p].downloaded[fetchers[p].dats[i][1]]
    BY DEF FreshDat
  <2>1. fetchers[p].dats[i][2] \in Fetched
    BY DEF FetchIInv, FetchCall
  <2>2. fetchers[p].dats[i][2] = fetchers[p].downloaded[fetchers[p].dats[i][1]]
    BY DEF FetchIInv, FetchOK
  <2> QED
    BY <2>1, <2>2 DEF Fetched
<1> QED
  BY <1>1, FetchInvariance, PTL

-----------------------------------------------------------------------------
(* Enrichment: a cover keeps its boxart.                                   *)

TextsOf(a) == {a[f] : f \in {"title", "cover", "about", "extra", "igdb", "hero"}}
Text == {"", "t", "libretro"} \cup UNION {TextsOf(a) : a \in Answers}
GameRow == [title : Text, cover : Text, about : Text, extra : Text]
AnswerRow == [title : Text, cover : Text, about : Text, extra : Text, igdb : Text, hero : Text]
GameSteps == {"assets", "cover", "thumbs", "thumbcover", "ask", "miss", "igdb", "apply", "store"}
Pass == [step : {"idle", "next"} \cup GameSteps, todo : SUBSET Owned, options : SUBSET {"online", "deep", "dry", "import"},
         game : Owned \cup {""}, seen : GameRow \cup {<<>>}, have : SUBSET AssetType,
         rest : {<<>>, <<"boxart">>, <<"hero">>, <<"boxart", "hero">>}, answer : AnswerRow,
         key : {""} \cup UNION {HashKeys[g] : g \in Owned}, clean : BOOLEAN]

(* The pass c is about to give the game g the boxart of its cover.         *)
StoringIn(c, g) ==
    /\ c.step = "store" /\ c.game = g /\ c.rest = <<"boxart", "hero">>
    /\ c.answer.cover # "" /\ "boxart" \notin c.have
Covered(g) ==
    \/ catalogGames[g].cover = "" \/ assets[g]["boxart"] # ""
    \/ \E p \in Enricher : StoringIn(passes[p], g)

(* What a pass believes of its game, with the games G and the assets A.    *)
(* That its boxart is stored may be wrong, after a failure, but then the   *)
(* game had its cover before the pass came.                                *)
PassOK(c, G, A) ==
    /\ c.step \in GameSteps => c.game \in Owned
    /\ c.step \in {"assets", "cover", "thumbs", "thumbcover"} => c.seen \in GameRow
    /\ c.step \in {"ask", "miss"} => c.key \in UNION {HashKeys[g] : g \in Owned}
    /\ c.step \in {"assets", "cover"} => (c.seen.cover # "" => G[c.game].cover # "")
    /\ c.step = "cover" => ("boxart" \in c.have => A[c.game]["boxart"] # "")
    /\ c.step \in GameSteps \ {"assets"} =>
         ("boxart" \in c.have => G[c.game].cover # "" \/ A[c.game]["boxart"] # "")
    /\ c.step = "thumbcover" => A[c.game]["boxart"] # ""
    /\ c.step \in {"miss", "igdb", "apply"} => c.rest = <<"boxart", "hero">>
    /\ c.step \in {"thumbs", "thumbcover"} => c.rest \in {<<>>, <<"boxart">>}
    /\ c.clean => "dry" \notin c.options

(* A pass that nothing interrupted has left nothing undone behind it; C    *)
(* are the games that are as they should be.                               *)
CleanOK(c, C) ==
    c.clean => \A g \in Owned \ c.todo :
        g \in C \/ (c.step \in {"assets", "cover"} /\ c.game = g /\ c.seen.cover # "")

CoveredGames == {g \in Owned : Covered(g)}

EnrichIInv ==
    /\ catalogGames \in [Owned -> GameRow] /\ assets \in [Owned -> [AssetType -> Text]]
    /\ misses \subseteq UNION {HashKeys[g] : g \in Owned} /\ torn \in BOOLEAN
    /\ passes \in [Enricher -> Pass]
    /\ \A p \in Enricher : PassOK(passes[p], catalogGames, assets) /\ CleanOK(passes[p], CoveredGames)
    /\ ~torn => CoveredGames = Owned

LEMMA FirstIs ==
    /\ \A a, b \in Text : FirstOf(a, b) \in Text
    /\ \A a, b : (a # "" => FirstOf(a, b) = a) /\ (a = "" => FirstOf(a, b) = b)
    /\ "" \in Text /\ "t" \in Text /\ "libretro" \in Text
<1>1. \A a, b \in Text : FirstOf(a, b) \in Text
  BY DEF FirstOf
<1>2. \A a, b : (a # "" => FirstOf(a, b) = a) /\ (a = "" => FirstOf(a, b) = b)
  BY DEF FirstOf
<1>3. "" \in Text /\ "t" \in Text /\ "libretro" \in Text
  BY DEF Text
<1> QED
  BY <1>1, <1>2, <1>3

LEMMA AnswersAreTyped == Answers \cup {NoAnswer} \subseteq AnswerRow
<1>1. ASSUME NEW a \in Answers PROVE a \in AnswerRow
  <2>1. a = [f \in {"title", "cover", "about", "extra", "igdb", "hero"} |-> a[f]]
    BY EnrichAssumption
  <2>2. \A f \in {"title", "cover", "about", "extra", "igdb", "hero"} : a[f] \in Text
    <3>1. SUFFICES ASSUME NEW f \in {"title", "cover", "about", "extra", "igdb", "hero"} PROVE a[f] \in Text
      OBVIOUS
    <3>2. a[f] \in TextsOf(a)
      BY DEF TextsOf
    <3> QED
      BY <3>2 DEF Text
  <2> QED
    BY <2>1, <2>2 DEF AnswerRow
<1>2. NoAnswer \in AnswerRow
  BY FirstIs DEF NoAnswer, AnswerRow
<1> QED
  BY <1>1, <1>2

LEMMA NoPassOK ==
    /\ NoPass \in Pass /\ NoPass.step = "idle" /\ ~NoPass.clean /\ NoPass.have = {}
    /\ \A G, A, C : PassOK(NoPass, G, A) /\ CleanOK(NoPass, C)
    /\ \A g : ~StoringIn(NoPass, g)
<1>1. NoPass \in Pass /\ NoPass.step = "idle" /\ ~NoPass.clean /\ NoPass.have = {}
  BY AnswersAreTyped DEF NoPass, Pass
<1> QED
  BY <1>1 DEF PassOK, CleanOK, StoringIn, GameSteps

LEMMA EnrichInitHolds == EnrichInit => EnrichIInv
<1> SUFFICES ASSUME EnrichInit PROVE EnrichIInv
  OBVIOUS
<1>1. catalogGames \in [Owned -> GameRow] /\ assets \in [Owned -> [AssetType -> Text]]
  BY FirstIs DEF EnrichInit, GameRow
<1>2. passes \in [Enricher -> Pass] /\ \A p \in Enricher : passes[p] = NoPass
  BY NoPassOK DEF EnrichInit
<1> QED
  BY <1>1, <1>2, NoPassOK DEF EnrichInit, EnrichIInv

(* Covers and assets only ever come, and what a pass believes stays true.  *)
LEMMA BeliefsStay ==
    ASSUME NEW c, NEW G, NEW A, NEW H, NEW B, PassOK(c, G, A),
           \A g \in Owned : /\ G[g].cover # "" => H[g].cover # ""
                            /\ A[g]["boxart"] # "" => B[g]["boxart"] # ""
    PROVE  PassOK(c, H, B)
BY DEF PassOK, GameSteps

(* The step of a pass p after which its call is c.                         *)
OnePass(p, c) ==
    /\ passes' = [passes EXCEPT ![p] = c]
    /\ catalogGames' \in [Owned -> GameRow] /\ assets' \in [Owned -> [AssetType -> Text]]
    /\ misses' \subseteq UNION {HashKeys[g] : g \in Owned} /\ torn' \in BOOLEAN
    /\ \A g \in Owned :
         /\ catalogGames[g].cover # "" => catalogGames'[g].cover # ""
         /\ assets[g]["boxart"] # "" => assets'[g]["boxart"] # ""
         /\ catalogGames[g].cover = "" /\ catalogGames'[g].cover # "" => assets'[g]["boxart"] # "" \/ StoringIn(c, g)
         /\ StoringIn(passes[p], g) => assets'[g]["boxart"] # "" \/ StoringIn(c, g)

LEMMA CoveredStay ==
    ASSUME EnrichIInv, NEW p \in Enricher, NEW c \in Pass, OnePass(p, c)
    PROVE  CoveredGames \cup {g \in Owned : assets'[g]["boxart"] # ""} \subseteq CoveredGames'
<1> SUFFICES ASSUME NEW g \in Owned, Covered(g) \/ assets'[g]["boxart"] # "", assets'[g]["boxart"] = "" PROVE Covered(g)'
  BY DEF CoveredGames, Covered
<1>1. passes'[p] = c /\ \A q \in Enricher \ {p} : passes'[q] = passes[q]
  BY DEF OnePass, EnrichIInv
<1>2. CASE catalogGames[g].cover = ""
  <2>1. catalogGames'[g].cover = "" \/ StoringIn(c, g)
    BY <1>2 DEF OnePass
  <2> QED
    BY <1>1, <2>1 DEF Covered
<1>3. ASSUME NEW q \in Enricher, StoringIn(passes[q], g) PROVE Covered(g)'
  <2>1. CASE q = p
    <3>1. StoringIn(c, g)
      BY <1>3, <2>1 DEF OnePass
    <3> QED
      BY <1>1, <3>1 DEF Covered
  <2>2. CASE q # p
    BY <1>1, <1>3, <2>2 DEF Covered
  <2> QED
    BY <2>1, <2>2
<1>4. assets[g]["boxart"] = ""
  BY DEF OnePass
<1> QED
  BY <1>2, <1>3, <1>4 DEF Covered

LEMMA PassStep ==
    ASSUME EnrichIInv, NEW p \in Enricher, NEW c \in Pass, OnePass(p, c), PassOK(c, catalogGames', assets'),
           CleanOK(c, CoveredGames \cup {g \in Owned : assets'[g]["boxart"] # ""}),
           torn' = torn \/ (torn' = TRUE) \/ CoveredGames = Owned
    PROVE  EnrichIInv'
<1> DEFINE C == CoveredGames \cup {g \in Owned : assets'[g]["boxart"] # ""}
<1>1. C \subseteq CoveredGames'
  BY CoveredStay
<1>2. CoveredGames \subseteq C /\ CoveredGames' \subseteq Owned
  BY DEF CoveredGames
<1> HIDE DEF C
<1>3. passes' \in [Enricher -> Pass] /\ passes'[p] = c /\ \A q \in Enricher \ {p} : passes'[q] = passes[q]
  BY DEF OnePass, EnrichIInv
<1>4. CleanOK(c, CoveredGames')
  <2>1. CleanOK(c, C)
    BY DEF C
  <2> QED
    BY <1>1, <2>1 DEF CleanOK
<1>5. ASSUME NEW q \in Enricher \ {p} PROVE PassOK(passes[q], catalogGames', assets') /\ CleanOK(passes[q], CoveredGames')
  <2>1. PassOK(passes[q], catalogGames, assets) /\ CleanOK(passes[q], CoveredGames)
    BY DEF EnrichIInv
  <2>2. CleanOK(passes[q], CoveredGames')
    BY <1>1, <1>2, <2>1 DEF CleanOK
  <2>3. PassOK(passes[q], catalogGames', assets')
    BY <2>1, BeliefsStay DEF OnePass
  <2> QED
    BY <2>2, <2>3
<1>6. \A q \in Enricher : PassOK(passes'[q], catalogGames', assets') /\ CleanOK(passes'[q], CoveredGames')
  BY <1>3, <1>4, <1>5
<1>7. ~torn' => CoveredGames' = Owned
  BY <1>1, <1>2 DEF EnrichIInv
<1> QED
  BY <1>3, <1>6, <1>7 DEF EnrichIInv, OnePass

(* A step of p that neither the games nor their assets feel.               *)
LEMMA QuietPass ==
    ASSUME EnrichIInv, NEW p \in Enricher, NEW c \in Pass, passes' = [passes EXCEPT ![p] = c],
           UNCHANGED <<catalogGames, assets>>, misses' \subseteq UNION {HashKeys[g] : g \in Owned}, torn' \in BOOLEAN,
           \A g \in Owned : StoringIn(passes[p], g) => assets[g]["boxart"] # "" \/ StoringIn(c, g),
           PassOK(c, catalogGames, assets), CleanOK(c, CoveredGames),
           torn' = torn \/ CoveredGames = Owned
    PROVE  EnrichIInv'
<1>1. OnePass(p, c)
  BY DEF OnePass, EnrichIInv
<1>2. CleanOK(c, CoveredGames \cup {g \in Owned : assets'[g]["boxart"] # ""})
  BY DEF CleanOK
<1>3. PassOK(c, catalogGames', assets')
  OBVIOUS
<1> QED
  BY <1>1, <1>2, <1>3, PassStep

(* A failure or the death of p: no pass counts as whole any more.          *)
LEMMA TearHolds ==
    ASSUME EnrichIInv, NEW p \in Enricher, NEW c \in Pass, Tear(p, c), PassOK(c, catalogGames, assets),
           UNCHANGED <<catalogGames, assets, misses>>
    PROVE  EnrichIInv'
<1>1. torn' = TRUE /\ passes' = [q \in Enricher |-> IF q = p THEN [c EXCEPT !.clean = FALSE]
                                                   ELSE [passes[q] EXCEPT !.clean = FALSE]]
  BY DEF Tear
<1>2. ASSUME NEW d \in Pass, PassOK(d, catalogGames, assets), NEW e, e = [d EXCEPT !.clean = FALSE]
      PROVE  e \in Pass /\ PassOK(e, catalogGames, assets) /\ \A C : CleanOK(e, C)
  <2>1. /\ e \in Pass /\ e.clean = FALSE /\ e.step = d.step /\ e.game = d.game /\ e.seen = d.seen /\ e.have = d.have
        /\ e.rest = d.rest /\ e.key = d.key
    BY <1>2 DEF Pass
  <2> QED
    BY <1>2, <2>1 DEF PassOK, CleanOK
<1>3. ASSUME NEW q \in Enricher
      PROVE  /\ passes'[q] \in Pass /\ PassOK(passes'[q], catalogGames', assets')
             /\ CleanOK(passes'[q], CoveredGames')
  <2>1. PICK d \in Pass : PassOK(d, catalogGames, assets) /\ passes'[q] = [d EXCEPT !.clean = FALSE]
    BY <1>1 DEF EnrichIInv
  <2> QED
    BY <1>2, <2>1
<1>4. passes' \in [Enricher -> Pass]
  BY <1>1, <1>3
<1> QED
  BY <1>1, <1>3, <1>4 DEF EnrichIInv

LEMMA AtPass ==
    ASSUME EnrichIInv, NEW p \in Enricher
    PROVE  passes[p] \in Pass /\ PassOK(passes[p], catalogGames, assets) /\ CleanOK(passes[p], CoveredGames)
BY DEF EnrichIInv

LEMMA EnrichStartHolds == ASSUME EnrichIInv, NEW p \in Enricher, EnrichStart(p) PROVE EnrichIInv'
<1>1. passes[p].step = "idle" /\ UNCHANGED <<catalogGames, assets, misses, torn>>
  BY DEF EnrichStart, In
<1>2. PICK options \in EnrichOptions :
        passes' = [passes EXCEPT ![p] = [NoPass EXCEPT !.step = "next", !.todo = Owned, !.options = options,
                                                       !.clean = "dry" \notin options]]
  BY DEF EnrichStart, Goto
<1>3. \E b \in BOOLEAN : b = ("dry" \notin options)
  OBVIOUS
<1>4. PICK b \in BOOLEAN : b = ("dry" \notin options)
  BY <1>3
<1>5. PICK c : c = [NoPass EXCEPT !.step = "next", !.todo = Owned, !.options = options, !.clean = b]
  OBVIOUS
<1>6. c \in Pass /\ c.step = "next" /\ c.todo = Owned /\ c.options = options /\ c.clean = b
  <2>1. options \subseteq {"online", "deep", "dry", "import"}
    BY EnrichAssumption
  <2> QED
    BY <1>5, <2>1, NoPassOK DEF Pass
<1>7. PassOK(c, catalogGames, assets) /\ CleanOK(c, CoveredGames)
  BY <1>4, <1>6 DEF PassOK, CleanOK, GameSteps
<1>8. passes' = [passes EXCEPT ![p] = c] /\ \A g : ~StoringIn(passes[p], g)
  BY <1>1, <1>2, <1>4, <1>5 DEF StoringIn
<1> QED
  BY <1>1, <1>6, <1>7, <1>8, QuietPass DEF EnrichIInv

LEMMA SeenHolds ==
    ASSUME EnrichIInv, NEW p \in Enricher, NEW g \in Owned, passes[p].step = "next", UNCHANGED <<catalogGames, assets, misses, torn>>,
           Goto(p, [passes[p] EXCEPT !.step = "assets", !.todo = @ \ {g}, !.game = g, !.seen = catalogGames[g]])
    PROVE  EnrichIInv'
<1>1. passes[p].step = "next" /\ UNCHANGED <<catalogGames, assets, misses, torn>>
      /\ passes[p] \in Pass /\ PassOK(passes[p], catalogGames, assets) /\ CleanOK(passes[p], CoveredGames)
  BY AtPass
<1>2. PICK seen \in GameRow : seen = catalogGames[g]
  BY DEF EnrichIInv
<1>3. PICK rest \in SUBSET Owned : rest = passes[p].todo \ {g}
  BY <1>1 DEF Pass
<1>4. PICK c : c = [passes[p] EXCEPT !.step = "assets", !.todo = rest, !.game = g, !.seen = seen]
  OBVIOUS
<1>5. /\ c \in Pass /\ c.step = "assets" /\ c.game = g /\ c.seen = seen /\ c.todo = rest
      /\ c.options = passes[p].options /\ c.clean = passes[p].clean
  BY <1>1, <1>4 DEF Pass, GameSteps
<1>6. PassOK(c, catalogGames, assets)
  BY <1>1, <1>2, <1>5 DEF PassOK, GameSteps
<1>7. CleanOK(c, CoveredGames)
  <2>1. seen.cover = "" => g \in CoveredGames
    BY <1>2 DEF CoveredGames, Covered
  <2> QED
    BY <1>1, <1>3, <1>5, <2>1 DEF CleanOK
<1>8. passes' = [passes EXCEPT ![p] = c] /\ \A h : ~StoringIn(passes[p], h)
  BY <1>1, <1>2, <1>3, <1>4 DEF Goto, StoringIn
<1> QED
  BY <1>1, <1>5, <1>6, <1>7, <1>8, QuietPass DEF EnrichIInv

LEMMA PassedOverHolds ==
    ASSUME EnrichIInv, NEW p \in Enricher, NEW g \in Owned, passes[p].step = "next", UNCHANGED <<catalogGames, assets, misses, torn>>,
           Goto(p, [passes[p] EXCEPT !.todo = @ \ {g}, !.clean = FALSE])
    PROVE  EnrichIInv'
<1>1. passes[p] \in Pass /\ PassOK(passes[p], catalogGames, assets)
  BY AtPass
<1>2. PICK rest \in SUBSET Owned : rest = passes[p].todo \ {g}
  BY <1>1 DEF Pass
<1>3. PICK c : c = [passes[p] EXCEPT !.todo = rest, !.clean = FALSE]
  OBVIOUS
<1>4. /\ c \in Pass /\ c.step = "next" /\ c.todo = rest /\ c.clean = FALSE /\ c.game = passes[p].game
      /\ c.seen = passes[p].seen /\ c.have = passes[p].have /\ c.rest = passes[p].rest /\ c.key = passes[p].key
  BY <1>1, <1>3 DEF Pass
<1>5. PassOK(c, catalogGames, assets) /\ CleanOK(c, CoveredGames)
  BY <1>1, <1>4 DEF PassOK, CleanOK, GameSteps
<1>6. passes' = [passes EXCEPT ![p] = c] /\ \A h : ~StoringIn(passes[p], h)
  BY <1>2, <1>3 DEF Goto, StoringIn
<1> QED
  BY <1>4, <1>5, <1>6, QuietPass DEF EnrichIInv

LEMMA LookAtHolds == ASSUME EnrichIInv, NEW p \in Enricher, NEW g \in Owned, Look(p, g) PROVE EnrichIInv'
  BY SeenHolds, PassedOverHolds DEF Look, In

LEMMA AssetTypesHolds == ASSUME EnrichIInv, NEW p \in Enricher, existingAssetTypes(p) PROVE EnrichIInv'
<1>1. passes[p].step = "assets" /\ UNCHANGED <<catalogGames, assets, misses, torn>>
      /\ passes[p] \in Pass /\ PassOK(passes[p], catalogGames, assets) /\ CleanOK(passes[p], CoveredGames)
  BY AtPass DEF existingAssetTypes, In
<1>2. PICK have \in SUBSET AssetType : have = {t \in AssetType : assets[passes[p].game][t] # ""}
  OBVIOUS
<1>3. PICK c : c = [passes[p] EXCEPT !.step = "cover", !.have = have]
  OBVIOUS
<1>4. /\ c \in Pass /\ c.step = "cover" /\ c.game = passes[p].game /\ c.seen = passes[p].seen /\ c.todo = passes[p].todo
      /\ c.options = passes[p].options /\ c.clean = passes[p].clean /\ c.have = have
  BY <1>1, <1>3 DEF Pass, GameSteps
<1>5. PassOK(c, catalogGames, assets)
  BY <1>1, <1>2, <1>4 DEF PassOK, GameSteps
<1>6. CleanOK(c, CoveredGames)
  BY <1>1, <1>4 DEF CleanOK
<1>7. passes' = [passes EXCEPT ![p] = c] /\ \A h : ~StoringIn(passes[p], h)
  BY <1>1, <1>2, <1>3 DEF existingAssetTypes, Goto, StoringIn
<1> QED
  BY <1>1, <1>4, <1>5, <1>6, <1>7, QuietPass DEF EnrichIInv

(* An asset of the game of p is stored: what there is stays.               *)
LEMMA AssetComes ==
    ASSUME EnrichIInv, NEW g \in Owned, NEW t \in AssetType, NEW url \in Text, url # "",
           assets' = [assets EXCEPT ![g][t] = FirstOf(@, url)]
    PROVE  /\ assets' \in [Owned -> [AssetType -> Text]] /\ assets'[g][t] # ""
           /\ \A h \in Owned : assets[h]["boxart"] # "" => assets'[h]["boxart"] # ""
<1>1. assets \in [Owned -> [AssetType -> Text]] /\ assets[g] \in [AssetType -> Text] /\ "boxart" \in AssetType
  BY DEF EnrichIInv, AssetType
<1>2. PICK u \in Text : u = FirstOf(assets[g][t], url) /\ u # "" /\ (assets[g][t] # "" => u = assets[g][t])
  <2>1. FirstOf(assets[g][t], url) \in Text /\ FirstOf(assets[g][t], url) # ""
        /\ (assets[g][t] # "" => FirstOf(assets[g][t], url) = assets[g][t])
    BY <1>1, FirstIs
  <2> QED
    BY <2>1
<1>3. PICK row : row = [assets[g] EXCEPT ![t] = u]
  OBVIOUS
<1>4. row \in [AssetType -> Text] /\ row[t] = u /\ \A v \in AssetType \ {t} : row[v] = assets[g][v]
  BY <1>1, <1>3
<1>5. assets' = [assets EXCEPT ![g] = row]
  BY <1>2, <1>3
<1>6. assets' \in [Owned -> [AssetType -> Text]] /\ assets'[g] = row /\ \A h \in Owned \ {g} : assets'[h] = assets[h]
  BY <1>1, <1>4, <1>5
<1> QED
  BY <1>1, <1>2, <1>4, <1>6

LEMMA KeepCoverHolds == ASSUME EnrichIInv, NEW p \in Enricher, KeepCover(p) PROVE EnrichIInv'
<1>1. passes[p].step = "cover" /\ UNCHANGED <<catalogGames, misses>>
      /\ passes[p] \in Pass /\ PassOK(passes[p], catalogGames, assets) /\ CleanOK(passes[p], CoveredGames)
  BY AtPass DEF KeepCover, In
<1>2. /\ passes[p].game \in Owned /\ passes[p].seen \in GameRow /\ passes[p].seen.cover \in Text
      /\ (passes[p].seen.cover # "" => catalogGames[passes[p].game].cover # "")
      /\ ("boxart" \in passes[p].have => assets[passes[p].game]["boxart"] # "")
  BY <1>1 DEF PassOK, GameRow, GameSteps
<1>3. PICK pass : pass = [passes[p] EXCEPT !.step = "thumbs", !.rest = libretroAssetTypes]
  OBVIOUS
<1>4. /\ pass \in Pass /\ pass.step = "thumbs" /\ pass.rest = <<"boxart">> /\ pass.game = passes[p].game
      /\ pass.seen = passes[p].seen /\ pass.have = passes[p].have /\ pass.clean = passes[p].clean
      /\ pass.options = passes[p].options /\ pass.todo = passes[p].todo
  BY <1>1, <1>3 DEF Pass, GameSteps, libretroAssetTypes
<1>5. \A h : ~StoringIn(passes[p], h)
  BY <1>1 DEF StoringIn
<1>6. CASE ~CoverLacksBoxart(pass.seen, pass.have)
  <2>1. passes' = [passes EXCEPT ![p] = pass] /\ UNCHANGED <<assets, torn>>
    BY <1>3, <1>6 DEF KeepCover, Goto
  <2>2. PassOK(pass, catalogGames, assets)
    BY <1>1, <1>2, <1>4 DEF PassOK, GameSteps
  <2>3. CleanOK(pass, CoveredGames)
    <3>1. passes[p].seen.cover # "" => passes[p].game \in CoveredGames
      BY <1>2, <1>4, <1>6 DEF CoverLacksBoxart, CoveredGames, Covered
    <3> QED
      BY <1>1, <1>4, <3>1 DEF CleanOK
  <2> QED
    BY <1>1, <1>4, <1>5, <2>1, <2>2, <2>3, QuietPass DEF EnrichIInv
<1>7. CASE CoverLacksBoxart(pass.seen, pass.have)
  <2>1. PICK kept : kept = [pass EXCEPT !.have = @ \cup {"boxart"}]
    OBVIOUS
  <2>2. /\ kept \in Pass /\ kept.step = "thumbs" /\ kept.rest = <<"boxart">> /\ kept.game = passes[p].game
        /\ kept.seen = passes[p].seen /\ kept.clean = passes[p].clean
        /\ kept.options = passes[p].options /\ kept.todo = passes[p].todo
    BY <1>4, <2>1 DEF Pass, AssetType
  <2>3. passes[p].seen.cover # "" /\ catalogGames[passes[p].game].cover # ""
    BY <1>2, <1>4, <1>7 DEF CoverLacksBoxart
  <2>4. \A A : PassOK(kept, catalogGames, A)
    BY <1>1, <1>2, <2>2, <2>3 DEF PassOK, GameSteps
  <2>5. CASE "dry" \in passes[p].options /\ passes' = [passes EXCEPT ![p] = kept] /\ UNCHANGED <<assets, torn>>
    <3>1. CleanOK(kept, CoveredGames)
      BY <1>1, <2>2, <2>5 DEF CleanOK, PassOK
    <3> QED
      BY <1>1, <1>5, <2>2, <2>4, <2>5, <3>1, QuietPass DEF EnrichIInv
  <2>6. CASE /\ assets' = [assets EXCEPT ![passes[p].game]["boxart"] = FirstOf(@, passes[p].seen.cover)]
             /\ passes' = [passes EXCEPT ![p] = kept] /\ UNCHANGED torn
    <3>1. "boxart" \in AssetType
      BY DEF AssetType
    <3>2. /\ assets' \in [Owned -> [AssetType -> Text]] /\ assets'[passes[p].game]["boxart"] # ""
          /\ \A h \in Owned : assets[h]["boxart"] # "" => assets'[h]["boxart"] # ""
      BY <1>2, <2>3, <2>6, <3>1, AssetComes
    <3>3. OnePass(p, kept)
      BY <1>1, <1>5, <2>6, <3>2 DEF OnePass, EnrichIInv
    <3>4. CleanOK(kept, CoveredGames \cup {g \in Owned : assets'[g]["boxart"] # ""})
      BY <1>1, <1>2, <2>2, <3>2 DEF CleanOK
    <3>5. PassOK(kept, catalogGames', assets')
      BY <1>1, <2>4
    <3> QED
      BY <2>2, <2>6, <3>3, <3>4, <3>5, PassStep
  <2>7. CASE Tear(p, kept) /\ UNCHANGED assets
    BY <1>1, <2>2, <2>4, <2>7, TearHolds
  <2> QED
    BY <1>3, <1>4, <1>7, <2>1, <2>5, <2>6, <2>7 DEF KeepCover, upsertAsset, Goto, Opt
<1> QED
  BY <1>6, <1>7

(* Past the cover, a pass goes on with its game as it is.                  *)
LEMMA CleanGoesOn ==
    ASSUME NEW n, NEW c, NEW C, CleanOK(n, C), n.step \notin {"assets", "cover"}, c.clean = n.clean, c.todo = n.todo
    PROVE  CleanOK(c, C)
BY DEF CleanOK

LEMMA GoesOn ==
    ASSUME EnrichIInv, NEW p \in Enricher, NEW c \in Pass, passes' = [passes EXCEPT ![p] = c],
           UNCHANGED <<catalogGames, assets, torn>>, misses' \subseteq UNION {HashKeys[g] : g \in Owned},
           passes[p].step \notin {"assets", "cover", "store"}, PassOK(c, catalogGames, assets),
           c.clean = passes[p].clean, c.todo = passes[p].todo
    PROVE  EnrichIInv'
<1>1. CleanOK(c, CoveredGames)
  BY AtPass, CleanGoesOn
<1>2. \A g : ~StoringIn(passes[p], g)
  BY DEF StoringIn
<1> QED
  BY <1>1, <1>2, QuietPass DEF EnrichIInv

LEMMA ThumbnailHolds == ASSUME EnrichIInv, NEW p \in Enricher, Thumbnail(p) PROVE EnrichIInv'
<1>1. passes[p].step = "thumbs" /\ passes[p].rest # <<>> /\ UNCHANGED <<catalogGames, misses>>
      /\ passes[p] \in Pass /\ PassOK(passes[p], catalogGames, assets) /\ CleanOK(passes[p], CoveredGames)
  BY AtPass DEF Thumbnail, In
<1>2. passes[p].game \in Owned /\ passes[p].rest = <<"boxart">> /\ passes[p].seen \in GameRow
  BY <1>1 DEF PassOK, GameSteps
<1>3. Head(passes[p].rest) = "boxart" /\ Tail(passes[p].rest) = <<>>
  BY <1>2
<1>4. PICK on : on = [passes[p] EXCEPT !.rest = <<>>]
  OBVIOUS
<1>5. /\ on \in Pass /\ on.step = "thumbs" /\ on.rest = <<>> /\ on.game = passes[p].game /\ on.have = passes[p].have
      /\ on.seen = passes[p].seen /\ on.clean = passes[p].clean
      /\ on.options = passes[p].options /\ on.todo = passes[p].todo
  BY <1>1, <1>4 DEF Pass
<1>6. PassOK(on, catalogGames, assets)
  BY <1>1, <1>5 DEF PassOK, GameSteps
<1>7. CASE passes' = [passes EXCEPT ![p] = on] /\ UNCHANGED <<assets, torn>>
  BY <1>1, <1>5, <1>6, <1>7, GoesOn DEF EnrichIInv
<1>8. CASE Tear(p, on) /\ UNCHANGED assets
  BY <1>1, <1>5, <1>6, <1>8, TearHolds
<1>9. PICK v \in {"thumbs", "thumbcover"} : v = IF on.seen.cover = "" THEN "thumbcover" ELSE "thumbs"
  OBVIOUS
<1>10. PICK have \in SUBSET AssetType : have = passes[p].have \cup {"boxart"}
  BY <1>1 DEF Pass, AssetType
<1>11. PICK c : c = [on EXCEPT !.have = have, !.step = v]
  OBVIOUS
<1>12. CASE /\ assets' = [assets EXCEPT ![passes[p].game]["boxart"] = FirstOf(@, "libretro")]
            /\ passes' = [passes EXCEPT ![p] = c] /\ UNCHANGED torn
  <2>1. "boxart" \in AssetType /\ "libretro" \in Text
    BY FirstIs DEF AssetType
  <2>2. /\ assets' \in [Owned -> [AssetType -> Text]] /\ assets'[passes[p].game]["boxart"] # ""
        /\ \A h \in Owned : assets[h]["boxart"] # "" => assets'[h]["boxart"] # ""
    BY <1>2, <1>12, <2>1, AssetComes
  <2>3. /\ c \in Pass /\ c.step = v /\ c.rest = <<>> /\ c.game = passes[p].game /\ c.seen = passes[p].seen
        /\ c.clean = passes[p].clean /\ c.options = passes[p].options /\ c.todo = passes[p].todo
    BY <1>5, <1>11 DEF Pass, GameSteps
  <2>4. PassOK(c, catalogGames', assets')
    BY <1>1, <1>2, <2>2, <2>3 DEF PassOK, GameSteps
  <2>5. OnePass(p, c)
    BY <1>1, <1>12, <2>2 DEF OnePass, EnrichIInv, StoringIn
  <2>6. CleanOK(c, CoveredGames \cup {g \in Owned : assets'[g]["boxart"] # ""})
    BY <1>1, <2>3 DEF CleanOK
  <2> QED
    BY <1>12, <2>3, <2>4, <2>5, <2>6, PassStep
<1> QED
  <2>1. on = [passes[p] EXCEPT !.rest = Tail(@)]
    BY <1>3, <1>4
  <2>2. c = [on EXCEPT !.have = @ \cup {"boxart"},
                       !.step = IF "boxart" = "boxart" /\ on.seen.cover = "" THEN "thumbcover" ELSE "thumbs"]
    BY <1>5, <1>9, <1>10, <1>11
  <2>3. \/ passes' = [passes EXCEPT ![p] = on] /\ UNCHANGED <<assets, torn>>
        \/ /\ assets' = [assets EXCEPT ![on.game]["boxart"] = FirstOf(@, "libretro")]
           /\ passes' = [passes EXCEPT ![p] = c] /\ UNCHANGED torn
        \/ Tear(p, on) /\ UNCHANGED assets
    BY <1>3, <2>1, <2>2 DEF Thumbnail, Goto
  <2> QED
    BY <1>5, <1>7, <1>8, <1>12, <2>3

(* The cover of a game of p changes: nothing that was there goes.          *)
LEMMA CoverComes ==
    ASSUME EnrichIInv, NEW g \in Owned, NEW row \in GameRow, catalogGames' = [catalogGames EXCEPT ![g] = row],
           catalogGames[g].cover # "" => row.cover # ""
    PROVE  /\ catalogGames' \in [Owned -> GameRow] /\ catalogGames'[g] = row
           /\ \A h \in Owned \ {g} : catalogGames'[h] = catalogGames[h]
           /\ \A h \in Owned : catalogGames[h].cover # "" => catalogGames'[h].cover # ""
BY DEF EnrichIInv

LEMMA ThumbnailCoverHolds == ASSUME EnrichIInv, NEW p \in Enricher, ThumbnailCover(p) PROVE EnrichIInv'
<1>1. passes[p].step = "thumbcover" /\ UNCHANGED <<assets, misses, torn>>
      /\ passes[p] \in Pass /\ PassOK(passes[p], catalogGames, assets) /\ CleanOK(passes[p], CoveredGames)
  BY AtPass DEF ThumbnailCover, In
<1>2. /\ passes[p].game \in Owned /\ passes[p].seen \in GameRow /\ assets[passes[p].game]["boxart"] # ""
      /\ catalogGames[passes[p].game] \in GameRow
  BY <1>1 DEF PassOK, GameSteps, EnrichIInv
<1>3. PICK u \in Text : u = FirstOf(catalogGames[passes[p].game].cover, "libretro")
                         /\ (catalogGames[passes[p].game].cover # "" => u # "")
  <2>1. catalogGames[passes[p].game].cover \in Text
    BY <1>2 DEF GameRow
  <2>2. FirstOf(catalogGames[passes[p].game].cover, "libretro") \in Text
    BY <2>1, FirstIs
  <2>3. FirstOf(catalogGames[passes[p].game].cover, "libretro") = catalogGames[passes[p].game].cover
        \/ catalogGames[passes[p].game].cover = ""
    BY FirstIs
  <2> QED
    BY <2>2, <2>3
<1>4. PICK row : row = [catalogGames[passes[p].game] EXCEPT !.cover = u]
  OBVIOUS
<1>5. row \in GameRow /\ row.cover = u
  BY <1>2, <1>4 DEF GameRow
<1>6. catalogGames' = [catalogGames EXCEPT ![passes[p].game] = row]
  BY <1>3, <1>4 DEF ThumbnailCover
<1>7. PICK seen : seen = [passes[p].seen EXCEPT !.cover = "libretro"]
  OBVIOUS
<1>8. seen \in GameRow
  BY <1>2, <1>7, FirstIs DEF GameRow
<1>9. PICK c : c = [passes[p] EXCEPT !.step = "thumbs", !.seen = seen]
  OBVIOUS
<1>10. /\ c \in Pass /\ c.step = "thumbs" /\ c.rest = passes[p].rest /\ c.game = passes[p].game /\ c.seen = seen
       /\ c.clean = passes[p].clean /\ c.options = passes[p].options /\ c.todo = passes[p].todo
  BY <1>1, <1>8, <1>9 DEF Pass, GameSteps
<1>11. passes' = [passes EXCEPT ![p] = c]
  BY <1>7, <1>9 DEF ThumbnailCover, Goto
<1>12. /\ catalogGames' \in [Owned -> GameRow]
       /\ \A h \in Owned \ {passes[p].game} : catalogGames'[h] = catalogGames[h]
       /\ \A h \in Owned : catalogGames[h].cover # "" => catalogGames'[h].cover # ""
  BY <1>2, <1>3, <1>5, <1>6, CoverComes
<1>13. OnePass(p, c)
  BY <1>1, <1>2, <1>11, <1>12 DEF OnePass, EnrichIInv, StoringIn
<1>14. PassOK(c, catalogGames', assets')
  BY <1>1, <1>2, <1>8, <1>10 DEF PassOK, GameSteps
<1>15. CleanOK(c, CoveredGames \cup {g \in Owned : assets'[g]["boxart"] # ""})
  BY <1>1, <1>10 DEF CleanOK
<1> QED
  BY <1>1, <1>10, <1>13, <1>14, <1>15, PassStep

LEMMA NextGameIs ==
    ASSUME EnrichIInv, NEW p \in Enricher, NEW c, c = NextGame(p)
    PROVE  /\ c \in Pass /\ c.step = "next" /\ c.clean = passes[p].clean /\ c.todo = passes[p].todo
           /\ \A G, A : PassOK(c, G, A)
<1>1. passes[p] \in Pass /\ PassOK(passes[p], catalogGames, assets)
  BY AtPass
<1>2. /\ c \in Pass /\ c.step = "next" /\ c.clean = passes[p].clean /\ c.todo = passes[p].todo
      /\ c.options = passes[p].options
  BY <1>1 DEF NextGame, Pass
<1> QED
  BY <1>1, <1>2 DEF PassOK, GameSteps

LEMMA DecideHolds == ASSUME EnrichIInv, NEW p \in Enricher, Decide(p) PROVE EnrichIInv'
<1>1. passes[p].step = "thumbs" /\ UNCHANGED <<catalogGames, assets, misses, torn>>
      /\ passes[p] \in Pass /\ PassOK(passes[p], catalogGames, assets)
      /\ misses' \subseteq UNION {HashKeys[g] : g \in Owned}
  BY AtPass DEF Decide, In, EnrichIInv
<1>2. passes[p].game \in Owned
  BY <1>1 DEF PassOK, GameSteps
<1>3. PICK key \in HashKeys[passes[p].game] :
        \/ passes' = [passes EXCEPT ![p] = [passes[p] EXCEPT !.step = "ask", !.key = key]]
        \/ passes' = [passes EXCEPT ![p] = NextGame(p)]
  BY DEF Decide, Goto
<1>4. CASE passes' = [passes EXCEPT ![p] = NextGame(p)]
  BY <1>1, <1>4, NextGameIs, GoesOn
<1>5. CASE passes' = [passes EXCEPT ![p] = [passes[p] EXCEPT !.step = "ask", !.key = key]]
  <2>1. PICK c : c = [passes[p] EXCEPT !.step = "ask", !.key = key]
    OBVIOUS
  <2>2. key \in UNION {HashKeys[g] : g \in Owned}
    BY <1>2, <1>3
  <2>3. /\ c \in Pass /\ c.step = "ask" /\ c.game = passes[p].game /\ c.key = key /\ c.have = passes[p].have
        /\ c.clean = passes[p].clean /\ c.options = passes[p].options /\ c.todo = passes[p].todo
    BY <1>1, <2>1, <2>2 DEF Pass, GameSteps
  <2>4. PassOK(c, catalogGames, assets)
    BY <1>1, <2>2, <2>3 DEF PassOK, GameSteps
  <2> QED
    BY <1>1, <1>5, <2>1, <2>3, <2>4, GoesOn
<1> QED
  BY <1>3, <1>4, <1>5

LEMMA AskHolds == ASSUME EnrichIInv, NEW p \in Enricher, Ask(p) PROVE EnrichIInv'
<1>1. passes[p].step = "ask" /\ UNCHANGED <<catalogGames, assets, misses, torn>>
      /\ passes[p] \in Pass /\ PassOK(passes[p], catalogGames, assets)
      /\ misses' \subseteq UNION {HashKeys[g] : g \in Owned}
  BY AtPass DEF Ask, In, EnrichIInv
<1>2. PICK a \in AnswerRow, v \in {"miss", "igdb", "apply"} :
        passes' = [passes EXCEPT ![p] = [passes[p] EXCEPT !.answer = a, !.rest = <<"boxart", "hero">>, !.step = v]]
  <2>1. PICK answer \in Answers \cup {NoAnswer} :
          passes' = [passes EXCEPT ![p] = [passes[p] EXCEPT !.answer = answer, !.rest = <<"boxart", "hero">>,
                 !.step = IF [answer EXCEPT !.extra = "", !.hero = ""] = NoAnswer THEN "miss"
                          ELSE IF Opt(p, "deep") /\ answer.igdb # "" THEN "igdb" ELSE "apply"]]
    BY DEF Ask, Goto
  <2>2. PICK v : v = IF [answer EXCEPT !.extra = "", !.hero = ""] = NoAnswer THEN "miss"
                     ELSE IF Opt(p, "deep") /\ answer.igdb # "" THEN "igdb" ELSE "apply"
    OBVIOUS
  <2>3. v \in {"miss", "igdb", "apply"}
    BY <2>2
  <2>4. passes' = [passes EXCEPT ![p] = [passes[p] EXCEPT !.answer = answer, !.rest = <<"boxart", "hero">>, !.step = v]]
    BY <2>1, <2>2
  <2> QED
    BY <2>3, <2>4, AnswersAreTyped
<1>3. PICK c : c = [passes[p] EXCEPT !.answer = a, !.rest = <<"boxart", "hero">>, !.step = v]
  OBVIOUS
<1>4. /\ c \in Pass /\ c.step = v /\ c.game = passes[p].game /\ c.key = passes[p].key /\ c.have = passes[p].have
      /\ c.rest = <<"boxart", "hero">>
      /\ c.clean = passes[p].clean /\ c.options = passes[p].options /\ c.todo = passes[p].todo
  BY <1>1, <1>3 DEF Pass, GameSteps
<1>5. PassOK(c, catalogGames, assets)
  BY <1>1, <1>4 DEF PassOK, GameSteps
<1> QED
  BY <1>1, <1>2, <1>3, <1>4, <1>5, GoesOn

LEMMA RememberHolds == ASSUME EnrichIInv, NEW p \in Enricher, rememberMiss(p) PROVE EnrichIInv'
<1>1. /\ passes[p].step = "miss" /\ UNCHANGED <<catalogGames, assets, torn>>
      /\ misses' = misses \cup {passes[p].key} /\ passes' = [passes EXCEPT ![p] = NextGame(p)]
  BY DEF rememberMiss, In, Goto
<1>2. passes[p].key \in UNION {HashKeys[g] : g \in Owned}
  BY <1>1, AtPass DEF PassOK
<1>3. misses' \subseteq UNION {HashKeys[g] : g \in Owned}
  BY <1>1, <1>2 DEF EnrichIInv
<1> QED
  BY <1>1, <1>3, NextGameIs, GoesOn

LEMMA ExpiresHolds == ASSUME EnrichIInv, NEW key, MissExpires(key) PROVE EnrichIInv'
<1>1. UNCHANGED <<catalogGames, assets, passes, torn>> /\ misses' \subseteq misses
  BY DEF MissExpires
<1>2. CoveredGames' = CoveredGames
  BY <1>1 DEF CoveredGames, Covered
<1> QED
  BY <1>1, <1>2 DEF EnrichIInv

LEMMA IgdbHolds == ASSUME EnrichIInv, NEW p \in Enricher, fetchIgdbGame(p) PROVE EnrichIInv'
<1>1. passes[p].step = "igdb" /\ UNCHANGED <<catalogGames, assets, misses, torn>>
      /\ passes[p] \in Pass /\ PassOK(passes[p], catalogGames, assets)
      /\ misses' \subseteq UNION {HashKeys[g] : g \in Owned}
  BY AtPass DEF fetchIgdbGame, In, EnrichIInv
<1>2. passes[p].answer \in AnswerRow
  BY <1>1 DEF Pass
<1>3. ASSUME NEW b \in AnswerRow, NEW o \in AnswerRow PROVE mergeMetadata(b, o) \in AnswerRow
  <2>1. DOMAIN b = {"title", "cover", "about", "extra", "igdb", "hero"}
    BY DEF AnswerRow
  <2>2. \A f \in DOMAIN b : b[f] \in Text /\ o[f] \in Text
    BY <2>1 DEF AnswerRow
  <2>3. \A f \in DOMAIN b : FirstOf(b[f], o[f]) \in Text
    BY <2>2, FirstIs
  <2> QED
    BY <2>1, <2>3 DEF mergeMetadata, AnswerRow
<1>4. PICK a \in AnswerRow : passes' = [passes EXCEPT ![p] = [passes[p] EXCEPT !.step = "apply", !.answer = a]]
  <2>1. PICK proxy \in AnswerRow :
          passes' = [passes EXCEPT ![p] = [passes[p] EXCEPT !.step = "apply",
                       !.answer = IF \E f \in {"title", "extra", "hero"} : proxy[f] # ""
                                  THEN mergeMetadata(@, proxy) ELSE @]]
    BY AnswersAreTyped DEF fetchIgdbGame, Goto
  <2>2. PICK a : a = IF \E f \in {"title", "extra", "hero"} : proxy[f] # ""
                     THEN mergeMetadata(passes[p].answer, proxy) ELSE passes[p].answer
    OBVIOUS
  <2>3. a \in AnswerRow
    BY <1>2, <1>3, <2>2
  <2>4. passes' = [passes EXCEPT ![p] = [passes[p] EXCEPT !.step = "apply", !.answer = a]]
    BY <1>1, <2>1, <2>2 DEF Pass
  <2> QED
    BY <2>3, <2>4
<1>5. PICK c : c = [passes[p] EXCEPT !.step = "apply", !.answer = a]
  OBVIOUS
<1>6. /\ c \in Pass /\ c.step = "apply" /\ c.game = passes[p].game /\ c.have = passes[p].have
      /\ c.rest = passes[p].rest
      /\ c.clean = passes[p].clean /\ c.options = passes[p].options /\ c.todo = passes[p].todo
  BY <1>1, <1>5 DEF Pass, GameSteps
<1>7. PassOK(c, catalogGames, assets)
  BY <1>1, <1>6 DEF PassOK, GameSteps
<1> QED
  BY <1>1, <1>4, <1>5, <1>6, <1>7, GoesOn

(* A cover that the answer gives comes before its boxart, which the pass   *)
(* that applied it stores next.                                            *)
LEMMA ApplyAnswerHolds == ASSUME EnrichIInv, NEW p \in Enricher, applyHasheousMetadata(p) PROVE EnrichIInv'
<1>1. passes[p].step = "apply" /\ UNCHANGED <<assets, misses, torn>>
      /\ passes[p] \in Pass /\ PassOK(passes[p], catalogGames, assets) /\ CleanOK(passes[p], CoveredGames)
  BY AtPass DEF applyHasheousMetadata, In
<1>2. PICK g \in Owned : g = passes[p].game
  BY <1>1 DEF PassOK, GameSteps
<1>3. PICK a \in AnswerRow : a = passes[p].answer
  BY <1>1 DEF Pass
<1>4. PICK old \in GameRow : old = catalogGames[g]
  BY DEF EnrichIInv
<1>5. PICK row : row = [title |-> FirstOf(a.title, old.title), cover |-> FirstOf(old.cover, a.cover),
                        about |-> FirstOf(old.about, a.about), extra |-> FirstOf(a.extra, old.extra)]
  OBVIOUS
<1>6. /\ row \in GameRow /\ (old.cover # "" => row.cover = old.cover) /\ (old.cover = "" => row.cover = a.cover)
  <2>1. /\ a.title \in Text /\ a.cover \in Text /\ a.about \in Text /\ a.extra \in Text
        /\ old.title \in Text /\ old.cover \in Text /\ old.about \in Text /\ old.extra \in Text
    BY DEF AnswerRow, GameRow
  <2>2. /\ FirstOf(a.title, old.title) \in Text /\ FirstOf(old.cover, a.cover) \in Text
        /\ FirstOf(old.about, a.about) \in Text /\ FirstOf(a.extra, old.extra) \in Text
    BY <2>1, FirstIs
  <2>3. row \in GameRow /\ row.cover = FirstOf(old.cover, a.cover)
    BY <1>5, <2>2 DEF GameRow
  <2> QED
    BY <2>3, FirstIs
<1>7. catalogGames' = [catalogGames EXCEPT ![g] = row]
  BY <1>2, <1>3, <1>4, <1>5 DEF applyHasheousMetadata
<1>8. PICK c : c = [passes[p] EXCEPT !.step = "store"]
  OBVIOUS
<1>9. /\ c \in Pass /\ c.step = "store" /\ c.game = g /\ c.have = passes[p].have /\ c.rest = <<"boxart", "hero">>
      /\ c.clean = passes[p].clean /\ c.options = passes[p].options /\ c.todo = passes[p].todo /\ c.answer = a
  BY <1>1, <1>2, <1>3, <1>8 DEF Pass, GameSteps, PassOK
<1>10. passes' = [passes EXCEPT ![p] = c]
  BY <1>8 DEF applyHasheousMetadata, Goto
<1>11. /\ catalogGames' \in [Owned -> GameRow] /\ catalogGames'[g] = row
       /\ \A h \in Owned \ {g} : catalogGames'[h] = catalogGames[h]
       /\ \A h \in Owned : catalogGames[h].cover # "" => catalogGames'[h].cover # ""
  BY <1>4, <1>6, <1>7, CoverComes
<1>12. ASSUME old.cover = "", row.cover # "" PROVE assets[g]["boxart"] # "" \/ StoringIn(c, g)
  <2>1. "boxart" \in passes[p].have => assets[g]["boxart"] # ""
    BY <1>1, <1>2, <1>4, <1>12 DEF PassOK, GameSteps
  <2> QED
    BY <1>6, <1>9, <1>12, <2>1 DEF StoringIn
<1>13. OnePass(p, c)
  <2>1. ~\E h : StoringIn(passes[p], h)
    BY <1>1 DEF StoringIn
  <2>2. \A h \in Owned : catalogGames[h].cover = "" /\ catalogGames'[h].cover # "" => assets[h]["boxart"] # "" \/ StoringIn(c, h)
    BY <1>4, <1>11, <1>12
  <2> QED
    BY <1>1, <1>10, <1>11, <2>1, <2>2 DEF OnePass, EnrichIInv
<1>14. PassOK(c, catalogGames', assets')
  <2>1. "boxart" \in passes[p].have => catalogGames[g].cover # "" \/ assets[g]["boxart"] # ""
    BY <1>1, <1>2 DEF PassOK, GameSteps
  <2>2. c.clean => "dry" \notin c.options
    BY <1>1, <1>9 DEF PassOK
  <2> QED
    BY <1>1, <1>9, <1>11, <2>1, <2>2 DEF PassOK, GameSteps
<1>15. CleanOK(c, CoveredGames \cup {h \in Owned : assets'[h]["boxart"] # ""})
  BY <1>1, <1>9 DEF CleanOK
<1> QED
  BY <1>1, <1>9, <1>10, <1>13, <1>14, <1>15, PassStep

LEMMA StoreHolds == ASSUME EnrichIInv, NEW p \in Enricher, StoreAsset(p) PROVE EnrichIInv'
<1>1. passes[p].step = "store" /\ passes[p].rest # <<>> /\ UNCHANGED <<catalogGames, misses>>
      /\ passes[p] \in Pass /\ PassOK(passes[p], catalogGames, assets) /\ CleanOK(passes[p], CoveredGames)
  BY AtPass DEF StoreAsset, In
<1>2. passes[p].game \in Owned
  BY <1>1 DEF PassOK, GameSteps
<1>3. PICK t \in AssetType, rest \in {<<>>, <<"hero">>} :
        /\ t = Head(passes[p].rest) /\ rest = Tail(passes[p].rest)
        /\ (passes[p].rest = <<"boxart", "hero">> => t = "boxart")
  <2>1. passes[p].rest \in {<<"boxart">>, <<"hero">>, <<"boxart", "hero">>}
    BY <1>1 DEF Pass
  <2>2. CASE passes[p].rest = <<"boxart">>
    BY <2>2 DEF AssetType
  <2>3. CASE passes[p].rest = <<"hero">>
    BY <2>3 DEF AssetType
  <2>4. CASE passes[p].rest = <<"boxart", "hero">>
    BY <2>4 DEF AssetType
  <2> QED
    BY <2>1, <2>2, <2>3, <2>4
<1>4. PICK url \in Text : url = UrlOf(t, passes[p].answer)
  <2>1. passes[p].answer \in AnswerRow
    BY <1>1 DEF Pass
  <2> QED
    BY <2>1 DEF AnswerRow, UrlOf
<1>5. PICK on : on = [passes[p] EXCEPT !.rest = rest]
  OBVIOUS
<1>6. /\ on \in Pass /\ on.step = "store" /\ on.rest = rest /\ on.game = passes[p].game /\ on.have = passes[p].have
      /\ on.clean = passes[p].clean /\ on.options = passes[p].options /\ on.todo = passes[p].todo
  BY <1>1, <1>3, <1>5 DEF Pass
<1>7. \A A : (\A g \in Owned : assets[g]["boxart"] # "" => A[g]["boxart"] # "") => PassOK(on, catalogGames, A)
  BY <1>1, <1>2, <1>6 DEF PassOK, GameSteps
<1>8. PassOK(on, catalogGames, assets)
  BY <1>7
<1>9. CASE (url = "" \/ t \in passes[p].have) /\ passes' = [passes EXCEPT ![p] = on] /\ UNCHANGED <<assets, torn>>
  <2>1. \A g : ~StoringIn(passes[p], g)
    BY <1>3, <1>4, <1>9 DEF StoringIn, UrlOf
  <2>2. CleanOK(on, CoveredGames)
    BY <1>1, <1>6, CleanGoesOn
  <2> QED
    BY <1>1, <1>6, <1>8, <1>9, <2>1, <2>2, QuietPass DEF EnrichIInv
<1>10. CASE /\ url # "" /\ assets' = [assets EXCEPT ![passes[p].game][t] = FirstOf(@, url)]
            /\ passes' = [passes EXCEPT ![p] = on] /\ UNCHANGED torn
  <2>1. /\ assets' \in [Owned -> [AssetType -> Text]] /\ assets'[passes[p].game][t] # ""
        /\ \A h \in Owned : assets[h]["boxart"] # "" => assets'[h]["boxart"] # ""
    BY <1>2, <1>10, AssetComes
  <2>2. \A g : StoringIn(passes[p], g) => assets'[g]["boxart"] # ""
    BY <1>3, <2>1 DEF StoringIn
  <2>3. OnePass(p, on)
    BY <1>1, <1>10, <2>1, <2>2 DEF OnePass, EnrichIInv
  <2>4. CleanOK(on, CoveredGames \cup {g \in Owned : assets'[g]["boxart"] # ""})
    BY <1>1, <1>6 DEF CleanOK
  <2>5. PassOK(on, catalogGames', assets')
    BY <1>1, <1>7, <2>1
  <2> QED
    BY <1>6, <1>10, <2>3, <2>4, <2>5, PassStep
<1>11. CASE Tear(p, on) /\ UNCHANGED assets
  BY <1>1, <1>6, <1>8, <1>11, TearHolds
<1> QED
  BY <1>3, <1>4, <1>5, <1>6, <1>9, <1>10, <1>11 DEF StoreAsset, upsertAsset, Goto

LEMMA StoreDoneHolds == ASSUME EnrichIInv, NEW p \in Enricher, StoreDone(p) PROVE EnrichIInv'
<1>1. passes[p].step = "store" /\ passes[p].rest = <<>> /\ UNCHANGED <<catalogGames, assets, misses, torn>>
      /\ CleanOK(passes[p], CoveredGames)
  BY AtPass DEF StoreDone, In
<1>2. \A g : ~StoringIn(passes[p], g)
  BY <1>1 DEF StoringIn
<1>3. CASE passes' = [passes EXCEPT ![p] = NoPass]
  BY <1>1, <1>2, <1>3, NoPassOK, QuietPass DEF EnrichIInv
<1>4. CASE passes' = [passes EXCEPT ![p] = NextGame(p)]
  <2>1. PICK c : c = NextGame(p)
    OBVIOUS
  <2>2. c \in Pass /\ PassOK(c, catalogGames, assets) /\ CleanOK(c, CoveredGames)
    BY <1>1, <2>1, NextGameIs, CleanGoesOn
  <2> QED
    BY <1>1, <1>2, <1>4, <2>1, <2>2, QuietPass DEF EnrichIInv
<1> QED
  BY <1>3, <1>4 DEF StoreDone, Goto

(* A pass that nothing interrupted has been everywhere.                    *)
LEMMA DoneHolds == ASSUME EnrichIInv, NEW p \in Enricher, EnrichDone(p) PROVE EnrichIInv'
<1>1. /\ passes[p].step = "next" /\ passes[p].todo = {} /\ UNCHANGED <<catalogGames, assets, misses>>
      /\ passes' = [passes EXCEPT ![p] = NoPass] /\ (torn' <=> torn /\ ~passes[p].clean) /\ torn' \in BOOLEAN
      /\ CleanOK(passes[p], CoveredGames) /\ passes[p].clean \in BOOLEAN
  BY AtPass DEF EnrichDone, In, Goto, Pass
<1>2. passes[p].clean => CoveredGames = Owned
  BY <1>1 DEF CleanOK, CoveredGames
<1>3. torn' = torn \/ CoveredGames = Owned
  BY <1>1, <1>2 DEF EnrichIInv
<1>4. \A g : ~StoringIn(passes[p], g)
  BY <1>1 DEF StoringIn
<1> QED
  BY <1>1, <1>3, <1>4, NoPassOK, QuietPass DEF EnrichIInv

LEMMA ImportAnswerHolds == ASSUME EnrichIInv, NEW p \in Enricher, NEW g \in Owned, updateGameMetadata(p, g) PROVE EnrichIInv'
<1>1. passes[p].step = "idle" /\ UNCHANGED <<assets, misses, torn>>
  BY DEF updateGameMetadata, In
<1>2. PICK old \in GameRow : old = catalogGames[g]
  BY DEF EnrichIInv
<1>3. PICK a \in Answers :
        /\ catalogGames' = [catalogGames EXCEPT ![g] = [f \in DOMAIN old |-> FirstOf(a[f], old[f])]]
        /\ passes' = [passes EXCEPT ![p] = [NoPass EXCEPT !.step = "store", !.game = g, !.options = {"import"},
                                                           !.answer = a, !.rest = <<"boxart", "hero">>]]
  BY <1>2 DEF updateGameMetadata, Goto, EnrichIInv
<1>4. a \in AnswerRow
  BY AnswersAreTyped
<1>5. PICK row : row = [f \in DOMAIN old |-> FirstOf(a[f], old[f])]
  OBVIOUS
<1>6. row \in GameRow /\ (a.cover # "" => row.cover = a.cover) /\ (a.cover = "" => row.cover = old.cover)
  <2>1. DOMAIN old = {"title", "cover", "about", "extra"}
    BY DEF GameRow
  <2>2. \A f \in DOMAIN old : old[f] \in Text /\ a[f] \in Text
    BY <1>4, <2>1 DEF GameRow, AnswerRow
  <2>3. \A f \in DOMAIN old : FirstOf(a[f], old[f]) \in Text
    BY <2>2, FirstIs
  <2>4. row \in GameRow /\ row.cover = FirstOf(a.cover, old.cover)
    BY <1>5, <2>1, <2>3 DEF GameRow
  <2> QED
    BY <2>4, FirstIs
<1>7. PICK c : c = [NoPass EXCEPT !.step = "store", !.game = g, !.options = {"import"}, !.answer = a, !.rest = <<"boxart", "hero">>]
  OBVIOUS
<1>8. /\ c \in Pass /\ c.step = "store" /\ c.game = g /\ c.have = {} /\ c.rest = <<"boxart", "hero">> /\ ~c.clean /\ c.answer = a
  BY <1>4, <1>7, NoPassOK DEF Pass, GameSteps
<1>9. passes' = [passes EXCEPT ![p] = c] /\ catalogGames' = [catalogGames EXCEPT ![g] = row]
  BY <1>3, <1>5, <1>7
<1>10. /\ catalogGames' \in [Owned -> GameRow] /\ catalogGames'[g] = row
       /\ \A h \in Owned \ {g} : catalogGames'[h] = catalogGames[h]
       /\ \A h \in Owned : catalogGames[h].cover # "" => catalogGames'[h].cover # ""
  BY <1>2, <1>6, <1>9, CoverComes
<1>11. OnePass(p, c)
  <2>1. ~\E h : StoringIn(passes[p], h)
    BY <1>1 DEF StoringIn
  <2>2. catalogGames[g].cover = "" /\ row.cover # "" => StoringIn(c, g)
    BY <1>2, <1>6, <1>8 DEF StoringIn
  <2> QED
    BY <1>1, <1>9, <1>10, <2>1, <2>2 DEF OnePass, EnrichIInv
<1>12. PassOK(c, catalogGames', assets') /\ \A C : CleanOK(c, C)
  BY <1>8 DEF PassOK, GameSteps, CleanOK
<1> QED
  BY <1>1, <1>8, <1>11, <1>12, PassStep

LEMMA EnrichStepHolds == EnrichIInv /\ [EnrichNext]_enrichVars => EnrichIInv'
<1>1. ASSUME EnrichIInv, UNCHANGED enrichVars PROVE EnrichIInv'
  BY <1>1 DEF enrichVars, EnrichIInv, CoveredGames, Covered
<1>2. ASSUME EnrichIInv, NEW p \in Enricher, EnrichDies(p) PROVE EnrichIInv'
  BY <1>2, NoPassOK, TearHolds DEF EnrichDies
<1>3. ASSUME EnrichIInv, EnrichNext PROVE EnrichIInv'
  BY <1>2, <1>3, EnrichStartHolds, LookAtHolds, AssetTypesHolds, KeepCoverHolds, ThumbnailHolds, ThumbnailCoverHolds,
     DecideHolds, AskHolds, RememberHolds, ExpiresHolds, IgdbHolds, ApplyAnswerHolds, StoreHolds, StoreDoneHolds,
     DoneHolds, ImportAnswerHolds DEF EnrichNext
<1> QED
  BY <1>1, <1>3

LEMMA EnrichInvariance == EnrichSpec => []EnrichIInv
BY EnrichInitHolds, EnrichStepHolds, PTL DEF EnrichSpec

(* Types of the games, of their assets and of the remembered misses.       *)
THEOREM EnrichTypeCorrect == EnrichSpec => []EnrichTypeOK
<1>1. EnrichIInv => EnrichTypeOK
  <2> SUFFICES ASSUME EnrichIInv PROVE EnrichTypeOK
    OBVIOUS
  <2>1. \A g \in Owned : DOMAIN catalogGames[g] = {"title", "cover", "about", "extra"} /\ DOMAIN assets[g] = AssetType
    BY DEF EnrichIInv, GameRow
  <2>2. \A p \in Enricher : passes[p].clean => ~Opt(p, "dry")
    BY DEF EnrichIInv, PassOK, Opt
  <2> QED
    BY <2>1, <2>2 DEF EnrichIInv, EnrichTypeOK
<1> QED
  BY <1>1, EnrichInvariance, PTL

(* After a pass that nothing interrupted, a cover has its boxart           *)
(* (library_enrich.cpp), for any number of processes that enrich and       *)
(* import at once, games and answers.                                      *)
THEOREM CoversAreKept == EnrichSpec => []CoverHasBoxart
<1>1. EnrichIInv => CoverHasBoxart
  <2> SUFFICES ASSUME EnrichIInv, ~torn, \A p \in Enricher : In(p, "idle"), NEW g \in Owned, catalogGames[g].cover # ""
               PROVE  assets[g]["boxart"] # ""
    BY DEF CoverHasBoxart
  <2>1. Covered(g)
    BY DEF EnrichIInv, CoveredGames
  <2>2. \A p \in Enricher : ~StoringIn(passes[p], g)
    BY DEF In, StoringIn
  <2> QED
    BY <2>1, <2>2 DEF Covered
<1> QED
  BY <1>1, EnrichInvariance, PTL

-----------------------------------------------------------------------------
(* DiscSets: what a rebuild makes of the rows.                             *)

(* No digest is a track of two titles: the lookup has no choice to make.   *)
OneTitle(T) ==
    \A d, e \in T : \A x \in d.tracks, y \in e.tracks :
        x.signature = y.signature /\ x.signature # "none" => d.title = e.title
DigestNamesTitle == \A dat \in Dats : OneTitle(insertDiscTopologyForRecords(dat))
Numbered(T) == \A d \in T : d.disc \in Nat

IsKey(k) == k = NoKey \/ \E t : k = <<"label", t>> \/ k = <<"game", t>> \/ k = <<"catalog", t>>
IsRow(r) == IsKey(r.key) /\ r.disc \in Nat

(* The properties of SetsAreTogether for the rows m, with the catalog c    *)
(* each row has and the games they are confirmed as.                       *)
Context(T, f) == {d \in T : Signature[f] # "none" /\ \E t \in d.tracks : t.signature = Signature[f]}
InCatalog(T, a, f) == a /\ Context(T, f) # {}
Played(K, T, a, f, g) == K[f] # "none" /\ K[f] = K[g] /\ ~InCatalog(T, a, f) /\ ~InCatalog(T, a, g)
Gamed(D, K, T, a, f) == \E g \in D \ {f} : Played(K, T, a, f, g)
Belong(D, K, T, a, f, g) ==
    \/ InCatalog(T, a, f) /\ InCatalog(T, a, g) /\ {d.title : d \in Context(T, f)} = {d.title : d \in Context(T, g)}
    \/ Played(K, T, a, f, g)
    \/ /\ ~InCatalog(T, a, f) /\ ~InCatalog(T, a, g) /\ ~Gamed(D, K, T, a, f) /\ ~Gamed(D, K, T, a, g)
       /\ Label[f].title = Label[g].title /\ Label[f].title # ""
Sorted(m, D, K, T, a) ==
    \A f \in D :
        /\ \A g \in D \ {f} : (m[f].key # NoKey /\ m[f].key = m[g].key) <=> Belong(D, K, T, a, f, g)
        /\ m[f].key # NoKey => InCatalog(T, a, f) \/ \E g \in D \ {f} : Belong(D, K, T, a, f, g)

LEMMA TwoOrMore == ASSUME NEW S, IsFiniteSet(S), NEW f \in S PROVE Cardinality(S) >= 2 <=> \E g \in S : g # f
<1>1. Cardinality(S) \in Nat /\ Cardinality(S) # 0
  BY FS_CardinalityType, FS_EmptySet
<1>2. Cardinality(S) = 1 <=> \E x : S = {x}
  BY FS_Singleton
<1> QED
  BY <1>1, <1>2

LEMMA ChosenIs == ASSUME NEW S, S # {} PROVE (CHOOSE d \in S : TRUE) \in S
  OBVIOUS

(* The title the catalog gives a row is the title of all it has for it.    *)
LEMMA TitleIsOne == ASSUME NEW T, OneTitle(T), NEW f, NEW d \in Context(T, f), NEW e \in Context(T, f) PROVE d.title = e.title
  BY DEF Context, OneTitle

LEMMA TitleIsShared ==
    ASSUME NEW T, OneTitle(T), NEW f, NEW g, NEW d \in Context(T, f), NEW e \in Context(T, g)
    PROVE  {x.title : x \in Context(T, f)} = {x.title : x \in Context(T, g)} <=> d.title = e.title
<1>1. \A x \in Context(T, f) : x.title = d.title
  BY TitleIsOne
<1>2. \A x \in Context(T, g) : x.title = e.title
  BY TitleIsOne
<1>3. {x.title : x \in Context(T, f)} = {d.title}
  BY <1>1
<1>4. {x.title : x \in Context(T, g)} = {e.title}
  BY <1>2
<1> QED
  BY <1>3, <1>4

(* The three passes of a rebuild, row by row.                              *)
Rebuilt(m, n, r, D, a) ==
    \A f \in D :
        /\ m[f] = RowMeta(f, IF a THEN lookupDiscContextInDb(f) ELSE {})
        /\ n[f] = IF ~m[f].from /\ confirmed[f] # "none" /\ \E g \in D : g # f /\ ~m[g].from /\ confirmed[g] = confirmed[f]
                  THEN [m[f] EXCEPT !.key = <<"game", confirmed[f]>>] ELSE m[f]
        /\ r[f] = IF ~n[f].from /\ (n[f].key = NoKey \/ ~\E g \in D : g # f /\ n[g].key = n[f].key)
                  THEN [key |-> NoKey, disc |-> 0] ELSE [key |-> n[f].key, disc |-> n[f].disc]

LEMMA RebuildIs ==
    ASSUME NEW a \in BOOLEAN, IsFiniteSet(DOMAIN sets)
    PROVE  /\ DOMAIN RebuildOf(a) = DOMAIN sets
           /\ \E m, n : Rebuilt(m, n, RebuildOf(a), DOMAIN sets, a)
<1> DEFINE D == DOMAIN sets
           m == [f \in D |-> RowMeta(f, IF a THEN lookupDiscContextInDb(f) ELSE {})]
           n == Grouped(m)
           r == Counted(n, m)
<1>1. RebuildOf(a) = r
  BY DEF RebuildOf
<1>2. DOMAIN m = D /\ DOMAIN n = D /\ DOMAIN r = D
  BY DEF Grouped, Counted
<1>3. ASSUME NEW f \in D PROVE m[f] = RowMeta(f, IF a THEN lookupDiscContextInDb(f) ELSE {})
  OBVIOUS
<1>4. ASSUME NEW f \in D
      PROVE  n[f] = IF ~m[f].from /\ confirmed[f] # "none" /\ \E g \in D : g # f /\ ~m[g].from /\ confirmed[g] = confirmed[f]
                    THEN [m[f] EXCEPT !.key = <<"game", confirmed[f]>>] ELSE m[f]
  <2> HIDE DEF m
  <2> DEFINE G == {g \in D : ~m[g].from /\ confirmed[g] # "none" /\ confirmed[g] = confirmed[f]}
  <2>1. G = GameMates(m, f)
    BY <1>2 DEF GameMates
  <2>2. IsFiniteSet(G)
    BY FS_Subset
  <2>3. f \in G => (Cardinality(G) >= 2 <=> \E g \in G : g # f)
    <3> HIDE DEF G
    <3> QED
      BY <2>2, TwoOrMore
  <2>4. f \in G <=> ~m[f].from /\ confirmed[f] # "none"
    OBVIOUS
  <2>5. n[f] = IF ~m[f].from /\ f \in G /\ Cardinality(G) >= 2
               THEN [m[f] EXCEPT !.key = <<"game", confirmed[f]>>] ELSE m[f]
    BY <1>2, <2>1 DEF Grouped
  <2>6. (f \in G /\ \E g \in G : g # f) <=> (~m[f].from /\ confirmed[f] # "none" /\ \E g \in D : g # f /\ ~m[g].from /\ confirmed[g] = confirmed[f])
    OBVIOUS
  <2> QED
    <3> HIDE DEF G, n, D
    <3> QED
      BY <2>3, <2>4, <2>5, <2>6
<1>5. ASSUME NEW f \in D
      PROVE  r[f] = IF ~n[f].from /\ (n[f].key = NoKey \/ ~\E g \in D : g # f /\ n[g].key = n[f].key)
                    THEN [key |-> NoKey, disc |-> 0] ELSE [key |-> n[f].key, disc |-> n[f].disc]
  <2> HIDE DEF m, n
  <2> DEFINE G == {g \in D : n[g].key = n[f].key}
  <2>1. IsFiniteSet(G) /\ f \in G
    BY FS_Subset
  <2>2. Cardinality(G) \in Nat
    BY <2>1, FS_CardinalityType
  <2>3. Cardinality(G) < 2 <=> ~\E g \in D : g # f /\ n[g].key = n[f].key
    <3>1. Cardinality(G) >= 2 <=> \E g \in G : g # f
      <4> HIDE DEF G
      <4> QED
        BY <2>1, TwoOrMore
    <3> QED
      BY <2>2, <3>1
  <2>4. r[f] = IF ~n[f].from /\ (n[f].key = NoKey \/ Cardinality(G) < 2)
               THEN [key |-> NoKey, disc |-> 0] ELSE [key |-> n[f].key, disc |-> n[f].disc]
    BY <1>2 DEF Counted
  <2> QED
    <3> HIDE DEF G, r, D
    <3> QED
      BY <2>3, <2>4
<1>6. Rebuilt(m, n, r, D, a)
  <2> HIDE DEF m, n, r, D
  <2> QED
    BY <1>3, <1>4, <1>5 DEF Rebuilt
<1> QED
  BY <1>1, <1>2, <1>6

(* A row as it was read.                                                   *)
LEMMA MetaIs ==
    ASSUME NEW a \in BOOLEAN, NEW f, NEW x, x = RowMeta(f, IF a THEN lookupDiscContextInDb(f) ELSE {})
    PROVE  /\ x.from <=> InCatalog(topology, a, f)
           /\ ~x.from => x.key = LabelKey(f) /\ x.disc = Label[f].disc
           /\ x.from => \E d \in Context(topology, f) : x.key = <<"catalog", d.title>> /\ x.disc = d.disc
           /\ x = [key |-> x.key, disc |-> x.disc, from |-> x.from]
<1>1. lookupDiscContextInDb(f) = Context(topology, f)
  BY DEF lookupDiscContextInDb, Context
<1>2. CASE InCatalog(topology, a, f)
  <2> DEFINE d == CHOOSE d \in Context(topology, f) : TRUE
  <2>1. d \in Context(topology, f)
    BY <1>2, ChosenIs DEF InCatalog
  <2>2. x = [key |-> <<"catalog", d.title>>, disc |-> d.disc, from |-> TRUE]
    BY <1>1, <1>2 DEF RowMeta, InCatalog
  <2> QED
    <3> HIDE DEF d
    <3> QED
      BY <1>2, <2>1, <2>2
<1>3. CASE ~InCatalog(topology, a, f)
  <2>1. x = [key |-> LabelKey(f), disc |-> Label[f].disc, from |-> FALSE]
    BY <1>1, <1>3 DEF RowMeta, InCatalog
  <2> QED
    BY <1>3, <2>1
<1> QED
  BY <1>2, <1>3

LEMMA GroupedIs ==
    ASSUME NEW a \in BOOLEAN, NEW D, NEW m, NEW n, NEW r, Rebuilt(m, n, r, D, a), NEW f \in D
    PROVE  /\ n[f].from <=> InCatalog(topology, a, f)
           /\ InCatalog(topology, a, f) => \E d \in Context(topology, f) : n[f].key = <<"catalog", d.title>> /\ n[f].disc = d.disc
           /\ ~InCatalog(topology, a, f) => n[f].disc = Label[f].disc
           /\ Gamed(D, confirmed, topology, a, f) => ~InCatalog(topology, a, f) /\ n[f].key = <<"game", confirmed[f]>>
           /\ ~InCatalog(topology, a, f) /\ ~Gamed(D, confirmed, topology, a, f) => n[f].key = LabelKey(f)
<1>1. ASSUME NEW g \in D
      PROVE  /\ m[g].from <=> InCatalog(topology, a, g)
             /\ ~m[g].from => m[g].key = LabelKey(g) /\ m[g].disc = Label[g].disc
             /\ m[g].from => \E d \in Context(topology, g) : m[g].key = <<"catalog", d.title>> /\ m[g].disc = d.disc
             /\ m[g] = [key |-> m[g].key, disc |-> m[g].disc, from |-> m[g].from]
  <2>1. m[g] = RowMeta(g, IF a THEN lookupDiscContextInDb(g) ELSE {})
    BY DEF Rebuilt
  <2> QED
    BY <2>1, MetaIs
<1>2. Gamed(D, confirmed, topology, a, f) <=>
        ~m[f].from /\ confirmed[f] # "none" /\ \E g \in D : g # f /\ ~m[g].from /\ confirmed[g] = confirmed[f]
  BY <1>1 DEF Gamed, Played
<1>3. n[f] = IF Gamed(D, confirmed, topology, a, f) THEN [m[f] EXCEPT !.key = <<"game", confirmed[f]>>] ELSE m[f]
  BY <1>2 DEF Rebuilt
<1>4. CASE Gamed(D, confirmed, topology, a, f)
  <2>1. n[f] = [m[f] EXCEPT !.key = <<"game", confirmed[f]>>]
    BY <1>3, <1>4
  <2>2. m[f] = [key |-> m[f].key, disc |-> m[f].disc, from |-> m[f].from]
    BY <1>1
  <2>3. n[f].key = <<"game", confirmed[f]>> /\ n[f].disc = m[f].disc /\ (n[f].from <=> m[f].from)
    BY <2>1, <2>2
  <2> QED
    BY <1>1, <1>2, <1>4, <2>3
<1>5. CASE ~Gamed(D, confirmed, topology, a, f)
  <2>1. n[f] = m[f]
    BY <1>3, <1>5
  <2> QED
    BY <1>1, <1>5, <2>1
<1> QED
  BY <1>4, <1>5

(* Two rows get one key exactly when they belong together.                 *)
LEMMA SameKeys ==
    ASSUME NEW a \in BOOLEAN, NEW D, NEW m, NEW n, NEW r, OneTitle(topology), Rebuilt(m, n, r, D, a),
           NEW f \in D, NEW g \in D, f # g
    PROVE  (n[f].key # NoKey /\ n[f].key = n[g].key) <=> Belong(D, confirmed, topology, a, f, g)
<1> DEFINE Cat(x) == InCatalog(topology, a, x)
           Gam(x) == Gamed(D, confirmed, topology, a, x)
<1>1. /\ Cat(f) => \E d \in Context(topology, f) : n[f].key = <<"catalog", d.title>>
      /\ Cat(g) => \E d \in Context(topology, g) : n[g].key = <<"catalog", d.title>>
      /\ Gam(f) => ~Cat(f) /\ n[f].key = <<"game", confirmed[f]>>
      /\ Gam(g) => ~Cat(g) /\ n[g].key = <<"game", confirmed[g]>>
      /\ ~Cat(f) /\ ~Gam(f) => n[f].key = LabelKey(f)
      /\ ~Cat(g) /\ ~Gam(g) => n[g].key = LabelKey(g)
  BY GroupedIs
<1>2. Played(confirmed, topology, a, f, g) => Gam(f) /\ Gam(g) /\ confirmed[f] = confirmed[g]
  BY DEF Gamed, Played
<1>3. Gam(f) /\ Gam(g) /\ confirmed[f] = confirmed[g] => Played(confirmed, topology, a, f, g)
  BY DEF Gamed, Played
<1>4. \A t, u : /\ <<"catalog", t>> # <<"game", u>> /\ <<"catalog", t>> # <<"label", u>> /\ <<"game", t>> # <<"label", u>>
               /\ <<"catalog", t>> # NoKey /\ <<"game", t>> # NoKey /\ <<"label", t>> # NoKey
               /\ (<<"catalog", t>> = <<"catalog", u>> => t = u)
               /\ (<<"game", t>> = <<"game", u>> => t = u)
               /\ (<<"label", t>> = <<"label", u>> => t = u)
  BY DEF NoKey
<1>5. \A x : LabelKey(x) = NoKey \/ \E t : LabelKey(x) = <<"label", t>>
  BY DEF LabelKey
<1>6. CASE Cat(f) /\ Cat(g)
  <2>1. PICK d \in Context(topology, f) : n[f].key = <<"catalog", d.title>>
    BY <1>1, <1>6
  <2>2. PICK e \in Context(topology, g) : n[g].key = <<"catalog", e.title>>
    BY <1>1, <1>6
  <2>3. {x.title : x \in Context(topology, f)} = {x.title : x \in Context(topology, g)} <=> d.title = e.title
    BY TitleIsShared
  <2>4. Belong(D, confirmed, topology, a, f, g) <=> d.title = e.title
    BY <1>6, <2>3 DEF Belong, Played
  <2> QED
    BY <1>4, <2>1, <2>2, <2>4
<1>7. CASE Cat(f) /\ ~Cat(g)
  <2>1. ~Belong(D, confirmed, topology, a, f, g)
    BY <1>7 DEF Belong, Played
  <2>2. PICK d : n[f].key = <<"catalog", d.title>>
    BY <1>1, <1>7
  <2>3. n[g].key = LabelKey(g) \/ n[g].key = <<"game", confirmed[g]>>
    BY <1>1, <1>7
  <2>4. CASE n[g].key = LabelKey(g)
    <3>1. LabelKey(g) # <<"catalog", d.title>>
      BY <1>4, <1>5
    <3> QED
      BY <2>1, <2>2, <2>4, <3>1
  <2>5. CASE n[g].key = <<"game", confirmed[g]>>
    <3>1. <<"game", confirmed[g]>> # <<"catalog", d.title>>
      BY <1>4
    <3> QED
      BY <2>1, <2>2, <2>5, <3>1
  <2> QED
    BY <2>3, <2>4, <2>5
<1>8. CASE ~Cat(f) /\ Cat(g)
  <2>1. ~Belong(D, confirmed, topology, a, f, g)
    BY <1>8 DEF Belong, Played
  <2>2. PICK d : n[g].key = <<"catalog", d.title>>
    BY <1>1, <1>8
  <2>3. n[f].key = LabelKey(f) \/ n[f].key = <<"game", confirmed[f]>>
    BY <1>1, <1>8
  <2>4. CASE n[f].key = LabelKey(f)
    <3>1. LabelKey(f) # <<"catalog", d.title>>
      BY <1>4, <1>5
    <3> QED
      BY <2>1, <2>2, <2>4, <3>1
  <2>5. CASE n[f].key = <<"game", confirmed[f]>>
    <3>1. <<"game", confirmed[f]>> # <<"catalog", d.title>>
      BY <1>4
    <3> QED
      BY <2>1, <2>2, <2>5, <3>1
  <2> QED
    BY <2>3, <2>4, <2>5
<1>9. CASE Gam(f) /\ Gam(g)
  <2>1. Belong(D, confirmed, topology, a, f, g) <=> confirmed[f] = confirmed[g]
    BY <1>1, <1>2, <1>3, <1>9 DEF Belong
  <2> QED
    BY <1>1, <1>4, <1>9, <2>1
<1>10. CASE ~Cat(f) /\ ~Cat(g) /\ Gam(f) /\ ~Gam(g)
  <2>1. ~Belong(D, confirmed, topology, a, f, g)
    BY <1>2, <1>10 DEF Belong
  <2>2. n[f].key = <<"game", confirmed[f]>> /\ n[g].key = LabelKey(g)
    BY <1>1, <1>10
  <2>3. n[f].key # n[g].key
    BY <1>4, <1>5, <2>2
  <2> QED
    BY <2>1, <2>3
<1>11. CASE ~Cat(f) /\ ~Cat(g) /\ ~Gam(f) /\ Gam(g)
  <2>1. ~Belong(D, confirmed, topology, a, f, g)
    BY <1>2, <1>11 DEF Belong
  <2>2. n[g].key = <<"game", confirmed[g]>> /\ n[f].key = LabelKey(f)
    BY <1>1, <1>11
  <2>3. n[f].key # n[g].key
    BY <1>4, <1>5, <2>2
  <2> QED
    BY <2>1, <2>3
<1>12. CASE ~Cat(f) /\ ~Cat(g) /\ ~Gam(f) /\ ~Gam(g)
  <2>1. Belong(D, confirmed, topology, a, f, g) <=> Label[f].title = Label[g].title /\ Label[f].title # ""
    BY <1>2, <1>12 DEF Belong
  <2>2. n[f].key = LabelKey(f) /\ n[g].key = LabelKey(g)
    BY <1>1, <1>12
  <2>3. (LabelKey(f) # NoKey /\ LabelKey(f) = LabelKey(g)) <=> (Label[f].title = Label[g].title /\ Label[f].title # "")
    BY <1>4 DEF LabelKey
  <2> QED
    BY <2>1, <2>2, <2>3
<1> QED
  BY <1>1, <1>6, <1>7, <1>8, <1>9, <1>10, <1>11, <1>12

LEMMA RebuildSorts ==
    ASSUME NEW a \in BOOLEAN, OneTitle(topology), IsFiniteSet(DOMAIN sets)
    PROVE  DOMAIN RebuildOf(a) = DOMAIN sets /\ Sorted(RebuildOf(a), DOMAIN sets, confirmed, topology, a)
<1> DEFINE D == DOMAIN sets
           r == RebuildOf(a)
<1>1. PICK m, n : Rebuilt(m, n, r, D, a)
  BY RebuildIs
<1>2. DOMAIN r = D
  BY RebuildIs
<1> HIDE DEF D, r
<1>3. ASSUME NEW f \in D
      PROVE  r[f].key = IF ~InCatalog(topology, a, f) /\ (n[f].key = NoKey \/ ~\E g \in D : g # f /\ n[g].key = n[f].key)
                        THEN NoKey ELSE n[f].key
  <2>1. n[f].from <=> InCatalog(topology, a, f)
    BY <1>1, GroupedIs
  <2>2. r[f] = IF ~n[f].from /\ (n[f].key = NoKey \/ ~\E g \in D : g # f /\ n[g].key = n[f].key)
               THEN [key |-> NoKey, disc |-> 0] ELSE [key |-> n[f].key, disc |-> n[f].disc]
    BY <1>1 DEF Rebuilt
  <2>3. CASE ~n[f].from /\ (n[f].key = NoKey \/ ~\E g \in D : g # f /\ n[g].key = n[f].key)
    <3>1. r[f] = [key |-> NoKey, disc |-> 0]
      BY <2>2, <2>3
    <3> QED
      BY <2>1, <2>3, <3>1
  <2>4. CASE ~(~n[f].from /\ (n[f].key = NoKey \/ ~\E g \in D : g # f /\ n[g].key = n[f].key))
    <3>1. r[f] = [key |-> n[f].key, disc |-> n[f].disc]
      BY <2>2, <2>4
    <3> QED
      BY <2>1, <2>4, <3>1
  <2> QED
    BY <2>3, <2>4
<1>4. ASSUME NEW f \in D, NEW g \in D, f # g
      PROVE  (n[f].key # NoKey /\ n[f].key = n[g].key) <=> Belong(D, confirmed, topology, a, f, g)
  BY <1>1, <1>4, SameKeys
<1>5. ASSUME NEW f \in D, NEW g \in D \ {f}
      PROVE  (r[f].key # NoKey /\ r[f].key = r[g].key) <=> Belong(D, confirmed, topology, a, f, g)
  <2>1. (r[f].key # NoKey /\ r[f].key = r[g].key) => (n[f].key # NoKey /\ n[f].key = n[g].key)
    BY <1>3
  <2>2. (n[f].key # NoKey /\ n[f].key = n[g].key) => r[f].key = n[f].key /\ r[g].key = n[g].key
    BY <1>3
  <2> QED
    BY <1>4, <2>1, <2>2
<1>6. ASSUME NEW f \in D, r[f].key # NoKey, ~InCatalog(topology, a, f)
      PROVE  \E g \in D \ {f} : Belong(D, confirmed, topology, a, f, g)
  BY <1>3, <1>4, <1>6
<1>7. Sorted(r, D, confirmed, topology, a)
  BY <1>5, <1>6 DEF Sorted
<1> QED
  BY <1>2, <1>7 DEF D, r

(* The same when a digest may belong to two titles.                        *)
Titled(T) == DigestNamesTitle => OneTitle(T)
Gathered(m, D, K, T, a) == DigestNamesTitle => Sorted(m, D, K, T, a)

LEMMA RebuildIsTyped ==
    ASSUME NEW a \in BOOLEAN, Numbered(topology), IsFiniteSet(DOMAIN sets), DOMAIN sets \subseteq Disc
    PROVE  \A f \in DOMAIN sets : IsRow(RebuildOf(a)[f])
<1> DEFINE D == DOMAIN sets
           r == RebuildOf(a)
<1>1. PICK m, n : Rebuilt(m, n, r, D, a)
  BY RebuildIs
<1> SUFFICES ASSUME NEW f \in D PROVE IsRow(r[f])
  OBVIOUS
<1> f \in Disc
  OBVIOUS
<1> HIDE DEF D, r
<1>2. /\ InCatalog(topology, a, f) => \E d \in Context(topology, f) : n[f].key = <<"catalog", d.title>> /\ n[f].disc = d.disc
      /\ ~InCatalog(topology, a, f) => n[f].disc = Label[f].disc
      /\ Gamed(D, confirmed, topology, a, f) => ~InCatalog(topology, a, f) /\ n[f].key = <<"game", confirmed[f]>>
      /\ ~InCatalog(topology, a, f) /\ ~Gamed(D, confirmed, topology, a, f) => n[f].key = LabelKey(f)
  BY <1>1, GroupedIs
<1>3. n[f].disc \in Nat
  BY <1>2, DiscAssumption DEF Numbered, Context
<1>4. IsKey(n[f].key)
  BY <1>2 DEF IsKey, LabelKey
<1>5. r[f] = [key |-> NoKey, disc |-> 0] \/ r[f] = [key |-> n[f].key, disc |-> n[f].disc]
  BY <1>1 DEF Rebuilt
<1> QED
  BY <1>3, <1>4, <1>5 DEF IsRow, IsKey

DiscSteps == {"idle", "reconcile", "write", "playlist", "read", "file"}
CallOK(c) ==
    /\ c = [step |-> c.step, todo |-> c.todo, rest |-> c.rest, meta |-> c.meta, title |-> c.title, discs |-> c.discs,
            attached |-> c.attached, fresh |-> c.fresh]
    /\ c.step \in DiscSteps /\ c.attached \in BOOLEAN /\ c.fresh \in BOOLEAN

(* The call b at step s of its playlists.                                  *)
CallAt(b, s, t, r, m, n, l) ==
    [step |-> s, todo |-> t, rest |-> r, meta |-> m, title |-> n, discs |-> l, attached |-> b.attached, fresh |-> b.fresh]

(* A rebuild writes the rows it has read, and what it has written and will *)
(* write is sorted as long as nothing disturbs it.                         *)
WriterOK(c, S, K, T) ==
    c.step = "write" =>
        /\ c.todo \subseteq DOMAIN S
        /\ \A f \in c.todo : IsRow(c.meta[f])
        /\ c.fresh => Gathered(c.meta, DOMAIN S, K, T, c.attached) /\ \A f \in DOMAIN S \ c.todo : S[f] = c.meta[f]

DiscIInv ==
    /\ sets = [f \in DOMAIN sets |-> sets[f]] /\ DOMAIN sets \subseteq Disc
    /\ \A f \in DOMAIN sets : IsRow(sets[f])
    /\ Titled(topology) /\ Numbered(topology)
    /\ rebuilds = [p \in Worker |-> rebuilds[p]]
    /\ \A p \in Worker : CallOK(rebuilds[p]) /\ WriterOK(rebuilds[p], sets, confirmed, topology)
    /\ settled \in {"no", "alone", "attached"}
    /\ settled # "no" => Gathered(sets, DOMAIN sets, confirmed, topology, settled = "attached")

LEMMA StoredIsRow == \A f \in Disc : IsRow(applyScanDiscMetadata(f))
  BY DiscAssumption DEF applyScanDiscMetadata, IsRow, IsKey, LabelKey

LEMMA IdleIsOK == CallOK(IdleWorker) /\ IdleWorker.step = "idle" /\ \A S, K, T : WriterOK(IdleWorker, S, K, T)
  BY DEF CallOK, WriterOK, IdleWorker, DiscSteps

LEMMA DiscInitHolds == DiscInit => DiscIInv
<1> SUFFICES ASSUME DiscInit PROVE DiscIInv
  OBVIOUS
<1>1. sets = [f \in DOMAIN sets |-> sets[f]] /\ DOMAIN sets \subseteq Disc /\ \A f \in DOMAIN sets : IsRow(sets[f])
  <2>1. sets = [f \in Scanned |-> applyScanDiscMetadata(f)] /\ Scanned \subseteq Disc
    BY DiscAssumption DEF DiscInit
  <2> QED
    BY <2>1, StoredIsRow
<1>2. Titled(topology) /\ Numbered(topology) /\ settled = "no"
  BY DEF DiscInit, Titled, OneTitle, Numbered
<1>3. rebuilds = [p \in Worker |-> IdleWorker]
  BY DEF DiscInit
<1>4. \A p \in Worker : CallOK(rebuilds[p]) /\ WriterOK(rebuilds[p], sets, confirmed, topology)
  BY <1>3, IdleIsOK
<1>5. rebuilds = [p \in Worker |-> rebuilds[p]]
  BY <1>3
<1> QED
  BY <1>1, <1>2, <1>4, <1>5 DEF DiscIInv

(* A call whose work another has made old.                                 *)
LEMMA Aged ==
    ASSUME NEW c, NEW S, NEW K, NEW T, CallOK(c), WriterOK(c, S, K, T), NEW S2, DOMAIN S \subseteq DOMAIN S2,
           NEW d, d = [c EXCEPT !.fresh = FALSE]
    PROVE  CallOK(d) /\ \A K2, T2 : WriterOK(d, S2, K2, T2)
<1>1. d = [step |-> c.step, todo |-> c.todo, rest |-> c.rest, meta |-> c.meta, title |-> c.title, discs |-> c.discs,
           attached |-> c.attached, fresh |-> FALSE]
  BY DEF CallOK
<1> QED
  BY <1>1 DEF CallOK, WriterOK

(* One call goes on and nothing else changes.                              *)
LEMMA CallGoesOn ==
    ASSUME DiscIInv, NEW p \in Worker, NEW c, CallOK(c), WriterOK(c, sets, confirmed, topology),
           rebuilds' = [rebuilds EXCEPT ![p] = c], UNCHANGED <<sets, confirmed, topology, settled>>
    PROVE  DiscIInv'
<1>1. rebuilds' = [q \in Worker |-> rebuilds'[q]] /\ rebuilds'[p] = c /\ \A q \in Worker \ {p} : rebuilds'[q] = rebuilds[q]
  BY DEF DiscIInv
<1>2. \A q \in Worker : CallOK(rebuilds'[q]) /\ WriterOK(rebuilds'[q], sets', confirmed', topology')
  BY <1>1 DEF DiscIInv
<1> QED
  BY <1>1, <1>2 DEF DiscIInv

(* A call at another step holds nothing to be written.                     *)
LEMMA NotWriting == ASSUME NEW c, CallOK(c), c.step # "write" PROVE \A S, K, T : WriterOK(c, S, K, T)
  BY DEF WriterOK

LEMMA RebuildReads ==
    ASSUME DiscIInv, NEW p \in Worker, rebuildDiscSetsForLibrary(p), UNCHANGED <<sets, confirmed, topology, settled>>
    PROVE  DiscIInv'
<1>1. PICK a \in BOOLEAN :
        rebuilds' = [rebuilds EXCEPT ![p] = [IdleWorker EXCEPT !.step = "write", !.todo = DOMAIN sets,
                                             !.meta = RebuildOf(a), !.attached = a, !.fresh = TRUE]]
  BY DEF rebuildDiscSetsForLibrary
<1>2. PICK m : m = RebuildOf(a)
  OBVIOUS
<1>3. PICK c : c = [IdleWorker EXCEPT !.step = "write", !.todo = DOMAIN sets, !.meta = m, !.attached = a, !.fresh = TRUE]
  OBVIOUS
<1>4. IsFiniteSet(DOMAIN sets) /\ DOMAIN sets \subseteq Disc
  BY FS_Subset, DiscAssumption DEF DiscIInv
<1>5. Gathered(m, DOMAIN sets, confirmed, topology, a)
  BY <1>2, <1>4, RebuildSorts DEF DiscIInv, Titled, Gathered
<1>6. \A f \in DOMAIN sets : IsRow(m[f])
  BY <1>2, <1>4, RebuildIsTyped DEF DiscIInv
<1>7. c = [step |-> "write", todo |-> DOMAIN sets, rest |-> {}, meta |-> m, title |-> "", discs |-> <<>>,
           attached |-> a, fresh |-> TRUE]
  BY <1>3 DEF IdleWorker
<1>8. CallOK(c)
  BY <1>7 DEF CallOK, DiscSteps
<1>9. WriterOK(c, sets, confirmed, topology)
  BY <1>5, <1>6, <1>7 DEF WriterOK
<1>10. rebuilds' = [rebuilds EXCEPT ![p] = c]
  BY <1>1, <1>2, <1>3
<1> QED
  BY <1>8, <1>9, <1>10, CallGoesOn

LEMMA RebuildHolds == ASSUME DiscIInv, NEW p \in Worker, Rebuild(p) \/ Reconcile(p) PROVE DiscIInv'
  BY RebuildReads DEF Rebuild, Reconcile

(* A call that is at a step of the playlists.                              *)
LEMMA AtPlaylist ==
    ASSUME DiscIInv, NEW p \in Worker, NEW c, CallOK(c), c.step # "write",
           rebuilds' = [rebuilds EXCEPT ![p] = c], UNCHANGED <<sets, confirmed, topology, settled>>
    PROVE  DiscIInv'
  BY NotWriting, CallGoesOn

LEMMA GenerateHolds == ASSUME DiscIInv, NEW p \in Worker, generateAll(p) PROVE DiscIInv'
<1>1. PICK c : c = [IdleWorker EXCEPT !.step = "playlist", !.todo = groupByDiscSetKey]
  OBVIOUS
<1>2. c = [step |-> "playlist", todo |-> groupByDiscSetKey, rest |-> {}, meta |-> <<>>, title |-> "", discs |-> <<>>,
           attached |-> FALSE, fresh |-> FALSE]
  BY <1>1 DEF IdleWorker
<1>3. CallOK(c) /\ c.step # "write"
  BY <1>2 DEF CallOK, DiscSteps
<1>4. rebuilds' = [rebuilds EXCEPT ![p] = c] /\ UNCHANGED <<sets, confirmed, topology, settled>>
  BY <1>1 DEF generateAll
<1> QED
  BY <1>3, <1>4, AtPlaylist

LEMMA PlaylistGoesOn ==
    ASSUME DiscIInv, NEW p \in Worker, NEW c, UNCHANGED <<sets, confirmed, topology, settled>>,
           NEW s \in DiscSteps \ {"write"}, NEW t, NEW r, NEW m, NEW n, NEW l,
           c = CallAt(rebuilds[p], s, t, r, m, n, l), rebuilds' = [rebuilds EXCEPT ![p] = c]
    PROVE  DiscIInv'
<1>1. CallOK(rebuilds[p])
  BY DEF DiscIInv
<1>2. CallOK(c) /\ c.step # "write"
  BY <1>1 DEF CallOK, CallAt
<1> QED
  BY <1>2, AtPlaylist

LEMMA StartIs ==
    ASSUME DiscIInv, NEW p \in Worker, NEW group, StartPlaylist(p, group)
    PROVE  \E b, c : /\ b = rebuilds[p] /\ CallOK(b) /\ b.step = "playlist" /\ group \in b.todo
                    /\ c = CallAt(b, "read", b.todo \ {group}, group, b.meta, b.title, b.discs)
                    /\ rebuilds' = [rebuilds EXCEPT ![p] = c]
<1>1. PICK b : b = rebuilds[p]
  OBVIOUS
<1>2. CallOK(b) /\ b.step = "playlist" /\ group \in b.todo
  BY <1>1 DEF DiscIInv, StartPlaylist
<1>3. PICK c : c = [b EXCEPT !.step = "read", !.todo = @ \ {group}, !.rest = group]
  OBVIOUS
<1>4. c = CallAt(b, "read", b.todo \ {group}, group, b.meta, b.title, b.discs)
  BY <1>2, <1>3 DEF CallOK, CallAt
<1>5. rebuilds' = [rebuilds EXCEPT ![p] = c]
  BY <1>1, <1>3 DEF StartPlaylist
<1> QED
  BY <1>1, <1>2, <1>4, <1>5

LEMMA StartPlaylistHolds == ASSUME DiscIInv, NEW p \in Worker, NEW group, StartPlaylist(p, group) PROVE DiscIInv'
<1>1. UNCHANGED <<sets, confirmed, topology, settled>>
  BY DEF StartPlaylist
<1>2. "read" \in DiscSteps \ {"write"}
  BY DEF DiscSteps
<1>3. PICK b, c : b = rebuilds[p] /\ c = CallAt(b, "read", b.todo \ {group}, group, b.meta, b.title, b.discs)
                  /\ rebuilds' = [rebuilds EXCEPT ![p] = c]
  BY StartIs
<1> QED
  BY <1>1, <1>2, <1>3, PlaylistGoesOn

(* What reading a row, or failing to, makes of the rows read.              *)
Gained(m, n, f, r) == n = m \/ n = [g \in DOMAIN m \cup {f} |-> IF g = f THEN r ELSE m[g]]

LEMMA ReadIs ==
    ASSUME DiscIInv, NEW p \in Worker, NEW f, ReadDisc(p, f)
    PROVE  \E b, c, m : /\ b = rebuilds[p] /\ CallOK(b) /\ b.step = "read" /\ f \in b.rest
                       /\ c = CallAt(b, "read", b.todo, b.rest \ {f}, m, b.title, b.discs)
                       /\ Gained(b.meta, m, f, sets[f])
                       /\ rebuilds' = [rebuilds EXCEPT ![p] = c]
<1>1. PICK b : b = rebuilds[p]
  OBVIOUS
<1>2. CallOK(b) /\ b.step = "read" /\ f \in b.rest
  BY <1>1 DEF DiscIInv, ReadDisc
<1>3. PICK n : n = [g \in DOMAIN b.meta \cup {f} |-> IF g = f THEN sets[f] ELSE b.meta[g]]
  OBVIOUS
<1>4. PICK d : d = [b EXCEPT !.rest = @ \ {f}]
  OBVIOUS
<1>5. d = CallAt(b, "read", b.todo, b.rest \ {f}, b.meta, b.title, b.discs)
  BY <1>2, <1>4 DEF CallOK, CallAt
<1>6. CASE rebuilds' = [rebuilds EXCEPT ![p] = [d EXCEPT !.meta = n]]
  <2>1. PICK c : c = [d EXCEPT !.meta = n]
    OBVIOUS
  <2>2. c = CallAt(b, "read", b.todo, b.rest \ {f}, n, b.title, b.discs)
    BY <1>5, <2>1 DEF CallAt
  <2>3. Gained(b.meta, n, f, sets[f])
    BY <1>3 DEF Gained
  <2> QED
    BY <1>1, <1>2, <1>6, <2>1, <2>2, <2>3
<1>7. CASE rebuilds' = [rebuilds EXCEPT ![p] = d]
  <2>1. Gained(b.meta, b.meta, f, sets[f])
    BY DEF Gained
  <2> QED
    BY <1>1, <1>2, <1>5, <1>7, <2>1
<1> QED
  BY <1>1, <1>3, <1>4, <1>6, <1>7 DEF ReadDisc

LEMMA ReadDiscHolds == ASSUME DiscIInv, NEW p \in Worker, NEW f, ReadDisc(p, f) PROVE DiscIInv'
<1>1. UNCHANGED <<sets, confirmed, topology, settled>>
  BY DEF ReadDisc
<1>2. "read" \in DiscSteps \ {"write"}
  BY DEF DiscSteps
<1>3. PICK b, c, m : b = rebuilds[p] /\ c = CallAt(b, "read", b.todo, b.rest \ {f}, m, b.title, b.discs)
                     /\ rebuilds' = [rebuilds EXCEPT ![p] = c]
  BY ReadIs
<1> QED
  BY <1>1, <1>2, <1>3, PlaylistGoesOn

(* The two ways an open ends.                                              *)
OpenedAs(b, c, title, discs) == c = CallAt(b, "file", b.todo, {}, <<>>, title, discs)
PassedOver(b, c) == c = CallAt(b, "playlist", b.todo, {}, <<>>, b.title, b.discs)

LEMMA OpenIs ==
    ASSUME DiscIInv, NEW p \in Worker, OpenPlaylist(p)
    PROVE  \E b, c, title, discs :
              /\ b = rebuilds[p] /\ CallOK(b) /\ b.step = "read"
              /\ rebuilds' = [rebuilds EXCEPT ![p] = c]
              /\ discs = sortByDiscNumber(b.meta)
              /\ \/ PassedOver(b, c) /\ playlists' = playlists
                 \/ OpenedAs(b, c, title, discs) /\ playlists' = [playlists EXCEPT ![title] = EmptyFile]
<1>1. PICK b : b = rebuilds[p]
  OBVIOUS
<1>2. CallOK(b) /\ b.step = "read" /\ b.rest = {}
  BY <1>1 DEF DiscIInv, OpenPlaylist
<1>3. PICK discs : discs = sortByDiscNumber(b.meta)
  OBVIOUS
<1>4. PICK title : title = titleForDiscSet(b.meta, discs)
  OBVIOUS
<1>5. CASE /\ rebuilds' = [rebuilds EXCEPT ![p] = [b EXCEPT !.step = "file", !.meta = <<>>, !.title = title, !.discs = discs]]
           /\ playlists' = [playlists EXCEPT ![title] = EmptyFile]
  <2>1. PICK c : c = [b EXCEPT !.step = "file", !.meta = <<>>, !.title = title, !.discs = discs]
    OBVIOUS
  <2>2. OpenedAs(b, c, title, discs)
    BY <1>2, <2>1 DEF CallOK, CallAt, OpenedAs
  <2> QED
    BY <1>1, <1>2, <1>3, <1>5, <2>1, <2>2
<1>6. CASE rebuilds' = [rebuilds EXCEPT ![p] = [b EXCEPT !.step = "playlist", !.meta = <<>>]] /\ playlists' = playlists
  <2>1. PICK c : c = [b EXCEPT !.step = "playlist", !.meta = <<>>]
    OBVIOUS
  <2>2. PassedOver(b, c)
    BY <1>2, <2>1 DEF CallOK, CallAt, PassedOver
  <2> QED
    BY <1>1, <1>2, <1>3, <1>6, <2>1, <2>2
<1> QED
  BY <1>1, <1>3, <1>4, <1>5, <1>6 DEF OpenPlaylist

LEMMA OpenPlaylistHolds == ASSUME DiscIInv, NEW p \in Worker, OpenPlaylist(p) PROVE DiscIInv'
<1>1. UNCHANGED <<sets, confirmed, topology, settled>>
  BY DEF OpenPlaylist
<1>2. "playlist" \in DiscSteps \ {"write"} /\ "file" \in DiscSteps \ {"write"}
  BY DEF DiscSteps
<1>3. PICK b, c, title, discs : b = rebuilds[p] /\ (PassedOver(b, c) \/ OpenedAs(b, c, title, discs)) /\ rebuilds' = [rebuilds EXCEPT ![p] = c]
  BY OpenIs
<1>4. CASE PassedOver(b, c)
  BY <1>1, <1>2, <1>3, <1>4, PlaylistGoesOn DEF PassedOver
<1>5. CASE OpenedAs(b, c, title, discs)
  BY <1>1, <1>2, <1>3, <1>5, PlaylistGoesOn DEF OpenedAs
<1> QED
  BY <1>3, <1>4, <1>5

LEMMA WriteFileIs ==
    ASSUME DiscIInv, NEW p \in Worker, writeM3UFile(p)
    PROVE  \E b, c : /\ b = rebuilds[p] /\ CallOK(b) /\ b.step = "file"
                    /\ c = CallAt(b, "playlist", b.todo, b.rest, b.meta, "", <<>>)
                    /\ rebuilds' = [rebuilds EXCEPT ![p] = c]
<1>1. PICK b : b = rebuilds[p]
  OBVIOUS
<1>2. CallOK(b) /\ b.step = "file"
  BY <1>1 DEF DiscIInv, writeM3UFile
<1>3. PICK c : c = [b EXCEPT !.step = "playlist", !.title = "", !.discs = <<>>]
  OBVIOUS
<1>4. c = CallAt(b, "playlist", b.todo, b.rest, b.meta, "", <<>>)
  BY <1>2, <1>3 DEF CallOK, CallAt
<1>5. rebuilds' = [rebuilds EXCEPT ![p] = c]
  BY <1>1, <1>3 DEF writeM3UFile
<1> QED
  BY <1>1, <1>2, <1>4, <1>5

LEMMA WriteFileHolds == ASSUME DiscIInv, NEW p \in Worker, writeM3UFile(p) PROVE DiscIInv'
<1>1. UNCHANGED <<sets, confirmed, topology, settled>>
  BY DEF writeM3UFile
<1>2. "playlist" \in DiscSteps \ {"write"}
  BY DEF DiscSteps
<1>3. PICK b, c : b = rebuilds[p] /\ c = CallAt(b, "playlist", b.todo, b.rest, b.meta, "", <<>>)
                  /\ rebuilds' = [rebuilds EXCEPT ![p] = c]
  BY WriteFileIs
<1> QED
  BY <1>1, <1>2, <1>3, PlaylistGoesOn

LEMMA PlaylistsDoneHolds == ASSUME DiscIInv, NEW p \in Worker, PlaylistsDone(p) PROVE DiscIInv'
  BY IdleIsOK, CallGoesOn DEF PlaylistsDone

(* What another process writes.                                            *)
LEMMA AllAged ==
    ASSUME DiscIInv, rebuilds' = [q \in Worker |-> [rebuilds[q] EXCEPT !.fresh = FALSE]], settled' = "no",
           sets' = [f \in DOMAIN sets' |-> sets'[f]], DOMAIN sets \subseteq DOMAIN sets', DOMAIN sets' \subseteq Disc,
           \A f \in DOMAIN sets' : IsRow(sets'[f]), Titled(topology'), Numbered(topology')
    PROVE  DiscIInv'
<1>1. ASSUME NEW q \in Worker PROVE CallOK(rebuilds'[q]) /\ WriterOK(rebuilds'[q], sets', confirmed', topology')
  <2>1. PICK d : d = [rebuilds[q] EXCEPT !.fresh = FALSE]
    OBVIOUS
  <2>2. CallOK(d) /\ \A K2, T2 : WriterOK(d, sets', K2, T2)
    <3>1. CallOK(rebuilds[q]) /\ WriterOK(rebuilds[q], sets, confirmed, topology)
      BY DEF DiscIInv
    <3> QED
      BY <2>1, <3>1, Aged
  <2>3. rebuilds'[q] = d
    BY <2>1
  <2> QED
    BY <2>2, <2>3
<1>2. rebuilds' = [q \in Worker |-> rebuilds'[q]]
  OBVIOUS
<1> QED
  BY <1>1, <1>2 DEF DiscIInv

LEMMA IngestDiscsHolds == ASSUME DiscIInv, IngestDiscs PROVE DiscIInv'
<1>1. Titled(topology') /\ Numbered(topology')
  BY TopologyAssumption DEF DigestNamesTitle, Titled, Numbered, IngestDiscs
<1>2. rebuilds' = [q \in Worker |-> [rebuilds[q] EXCEPT !.fresh = FALSE]] /\ settled' = "no" /\ sets' = sets
  BY DEF IngestDiscs
<1>3. sets = [f \in DOMAIN sets |-> sets[f]] /\ DOMAIN sets \subseteq Disc /\ \A f \in DOMAIN sets : IsRow(sets[f])
  BY DEF DiscIInv
<1> QED
  BY <1>1, <1>2, <1>3, AllAged

LEMMA StoreDiscHolds == ASSUME DiscIInv, NEW f \in Disc, StoreDisc(f) PROVE DiscIInv'
<1>1. Titled(topology') /\ Numbered(topology')
  BY DEF DiscIInv, StoreDisc
<1>2. rebuilds' = [q \in Worker |-> [rebuilds[q] EXCEPT !.fresh = FALSE]] /\ settled' = "no"
      /\ sets' = [g \in DOMAIN sets \cup {f} |-> IF g = f THEN applyScanDiscMetadata(f) ELSE sets[g]]
  BY DEF StoreDisc
<1>3. DOMAIN sets' = DOMAIN sets \cup {f} /\ sets' = [g \in DOMAIN sets' |-> sets'[g]]
  BY <1>2
<1>4. \A g \in DOMAIN sets' : IsRow(sets'[g])
  BY <1>2, StoredIsRow DEF DiscIInv
<1>5. DOMAIN sets \subseteq Disc
  BY DEF DiscIInv
<1> QED
  BY <1>1, <1>2, <1>3, <1>4, <1>5, AllAged

(* The same when p goes on.                                                *)
LEMMA OthersAged ==
    ASSUME DiscIInv, NEW p \in Worker, NEW c, CallOK(c), WriterOK(c, sets', confirmed', topology'),
           rebuilds' = [Disturb(p) EXCEPT ![p] = c],
           sets' = [f \in DOMAIN sets |-> sets'[f]], \A f \in DOMAIN sets : IsRow(sets'[f]), topology' = topology,
           settled' \in {"no", "alone", "attached"},
           settled' # "no" => Gathered(sets', DOMAIN sets', confirmed', topology', settled' = "attached")
    PROVE  DiscIInv'
<1>1. DOMAIN sets' = DOMAIN sets
  OBVIOUS
<1>2. ASSUME NEW q \in Worker PROVE CallOK(rebuilds'[q]) /\ WriterOK(rebuilds'[q], sets', confirmed', topology')
  <2>1. PICK d : d = [rebuilds[q] EXCEPT !.fresh = FALSE]
    OBVIOUS
  <2>2. CallOK(d) /\ \A K2, T2 : WriterOK(d, sets', K2, T2)
    <3>1. CallOK(rebuilds[q]) /\ WriterOK(rebuilds[q], sets, confirmed, topology)
      BY DEF DiscIInv
    <3> QED
      BY <1>1, <2>1, <3>1, Aged
  <2>3. rebuilds'[q] = d \/ rebuilds'[q] = c
    BY <2>1 DEF Disturb
  <2> QED
    BY <2>2, <2>3
<1>3. rebuilds' = [q \in Worker |-> rebuilds'[q]]
  BY DEF Disturb
<1>4. sets' = [f \in DOMAIN sets' |-> sets'[f]] /\ DOMAIN sets' \subseteq Disc /\ \A f \in DOMAIN sets' : IsRow(sets'[f])
  BY <1>1 DEF DiscIInv
<1>5. Titled(topology') /\ Numbered(topology')
  BY DEF DiscIInv
<1> QED
  BY <1>2, <1>3, <1>4, <1>5 DEF DiscIInv

LEMMA ConfirmDiscHolds == ASSUME DiscIInv, NEW p \in Worker, NEW f, ConfirmDisc(p, f) PROVE DiscIInv'
<1>1. CallOK(rebuilds[p])
  BY DEF DiscIInv
<1>2. PICK c : c = [rebuilds[p] EXCEPT !.step = "reconcile"]
  OBVIOUS
<1>3. c = [step |-> "reconcile", todo |-> rebuilds[p].todo, rest |-> rebuilds[p].rest, meta |-> rebuilds[p].meta,
           title |-> rebuilds[p].title, discs |-> rebuilds[p].discs,
           attached |-> rebuilds[p].attached, fresh |-> rebuilds[p].fresh]
  BY <1>1, <1>2 DEF CallOK
<1>4. CallOK(c) /\ c.step # "write"
  BY <1>1, <1>3 DEF CallOK, DiscSteps
<1>5. rebuilds' = [Disturb(p) EXCEPT ![p] = c]
  BY <1>2 DEF ConfirmDisc, Disturb
<1>6. settled' = "no" /\ sets' = sets /\ topology' = topology
  BY DEF ConfirmDisc
<1>7. sets' = [g \in DOMAIN sets |-> sets'[g]] /\ \A g \in DOMAIN sets : IsRow(sets'[g])
  BY <1>6 DEF DiscIInv
<1> QED
  BY <1>4, <1>5, <1>6, <1>7, NotWriting, OthersAged

LEMMA WriteRowHolds == ASSUME DiscIInv, NEW p \in Worker, NEW f, WriteRow(p, f) PROVE DiscIInv'
<1> DEFINE last == rebuilds[p].todo = {f}
<1>1. /\ CallOK(rebuilds[p]) /\ rebuilds[p].step = "write" /\ f \in rebuilds[p].todo
      /\ WriterOK(rebuilds[p], sets, confirmed, topology)
      /\ confirmed' = confirmed /\ topology' = topology
  BY DEF DiscIInv, WriteRow
<1>2. PICK m : m = rebuilds[p].meta
  OBVIOUS
<1>3. f \in DOMAIN sets /\ rebuilds[p].todo \subseteq DOMAIN sets /\ \A g \in rebuilds[p].todo : IsRow(m[g])
  BY <1>1, <1>2 DEF WriterOK
<1>4. sets' = [sets EXCEPT ![f] = m[f]]
  BY <1>2 DEF WriteRow
<1>5. sets' = [g \in DOMAIN sets |-> sets'[g]] /\ sets'[f] = m[f] /\ \A g \in DOMAIN sets \ {f} : sets'[g] = sets[g]
  BY <1>3, <1>4 DEF DiscIInv
<1>6. \A g \in DOMAIN sets : IsRow(sets'[g])
  <2>1. \A g \in DOMAIN sets : IsRow(sets[g])
    BY DEF DiscIInv
  <2>2. IsRow(m[f])
    BY <1>1, <1>3
  <2> QED
    BY <1>5, <2>1, <2>2
<1>7. rebuilds[p].fresh => /\ Gathered(m, DOMAIN sets, confirmed, topology, rebuilds[p].attached)
                           /\ \A g \in DOMAIN sets \ (rebuilds[p].todo \ {f}) : sets'[g] = m[g]
  <2>1. rebuilds[p].fresh => /\ Gathered(m, DOMAIN sets, confirmed, topology, rebuilds[p].attached)
                             /\ \A g \in DOMAIN sets \ rebuilds[p].todo : sets[g] = m[g]
    BY <1>1, <1>2 DEF WriterOK
  <2> QED
    BY <1>5, <2>1
<1>8. CASE last
  <2>1. rebuilds' = [Disturb(p) EXCEPT ![p] = IdleWorker]
    BY <1>8 DEF WriteRow
  <2>2. settled' = IF rebuilds[p].fresh THEN (IF rebuilds[p].attached THEN "attached" ELSE "alone") ELSE "no"
    BY <1>8 DEF WriteRow
  <2>3. settled' # "no" => rebuilds[p].fresh /\ (rebuilds[p].attached <=> settled' = "attached")
    BY <2>2
  <2>4. ASSUME settled' # "no" PROVE Gathered(sets', DOMAIN sets', confirmed', topology', settled' = "attached")
    <3>1. PICK a \in BOOLEAN : a <=> (settled' = "attached")
      OBVIOUS
    <3>2. Gathered(m, DOMAIN sets, confirmed, topology, a) /\ \A g \in DOMAIN sets : sets'[g] = m[g]
      BY <1>1, <1>7, <1>8, <2>3, <2>4, <3>1 DEF CallOK
    <3>3. DOMAIN sets' = DOMAIN sets
      BY <1>5
    <3>4. Gathered(sets', DOMAIN sets, confirmed, topology, a)
      BY <3>2 DEF Gathered, Sorted
    <3> QED
      BY <1>1, <3>1, <3>3, <3>4
  <2>5. settled' \in {"no", "alone", "attached"}
    BY <2>2
  <2> QED
    BY <1>1, <1>5, <1>6, <2>1, <2>4, <2>5, IdleIsOK, OthersAged
<1>9. CASE ~last
  <2>1. PICK c : c = [rebuilds[p] EXCEPT !.todo = @ \ {f}]
    OBVIOUS
  <2>2. c = [step |-> "write", todo |-> rebuilds[p].todo \ {f}, rest |-> rebuilds[p].rest, meta |-> m,
             title |-> rebuilds[p].title, discs |-> rebuilds[p].discs,
             attached |-> rebuilds[p].attached, fresh |-> rebuilds[p].fresh]
    BY <1>1, <1>2, <2>1 DEF CallOK
  <2>3. CallOK(c)
    BY <1>1, <2>2 DEF CallOK, DiscSteps
  <2>4. WriterOK(c, sets', confirmed', topology')
    <3>1. DOMAIN sets' = DOMAIN sets
      BY <1>5
    <3>2. c.fresh => Gathered(m, DOMAIN sets, confirmed, topology, c.attached) /\ \A g \in DOMAIN sets \ c.todo : sets'[g] = m[g]
      BY <1>7, <2>2
    <3>3. c.todo \subseteq DOMAIN sets /\ c.meta = m /\ \A g \in c.todo : IsRow(m[g])
      BY <1>3, <2>2
    <3> QED
      BY <1>1, <3>1, <3>2, <3>3 DEF WriterOK
  <2>5. rebuilds' = [Disturb(p) EXCEPT ![p] = c] /\ settled' = "no"
    BY <1>9, <2>1 DEF WriteRow
  <2> QED
    BY <1>1, <1>5, <1>6, <2>3, <2>4, <2>5, OthersAged
<1> QED
  BY <1>8, <1>9

LEMMA DiesHolds == ASSUME DiscIInv, NEW p \in Worker, DiscWorkerDies(p) PROVE DiscIInv'
<1>1. rebuilds' = [rebuilds EXCEPT ![p] = IdleWorker] /\ settled' = "no" /\ UNCHANGED <<sets, confirmed, topology>>
  BY DEF DiscWorkerDies
<1>2. rebuilds' = [q \in Worker |-> rebuilds'[q]] /\ rebuilds'[p] = IdleWorker /\ \A q \in Worker \ {p} : rebuilds'[q] = rebuilds[q]
  BY <1>1 DEF DiscIInv
<1>3. \A q \in Worker : CallOK(rebuilds'[q]) /\ WriterOK(rebuilds'[q], sets', confirmed', topology')
  BY <1>1, <1>2, IdleIsOK DEF DiscIInv
<1> QED
  BY <1>1, <1>2, <1>3 DEF DiscIInv

LEMMA DiscStepHolds == DiscIInv /\ [DiscNext]_discVars => DiscIInv'
<1> SUFFICES ASSUME DiscIInv, [DiscNext]_discVars PROVE DiscIInv'
  OBVIOUS
<1>1. CASE DiscNext
  BY <1>1, IngestDiscsHolds, StoreDiscHolds, RebuildHolds, GenerateHolds, StartPlaylistHolds, ReadDiscHolds, OpenPlaylistHolds, WriteFileHolds, PlaylistsDoneHolds,
     ConfirmDiscHolds, WriteRowHolds, DiesHolds DEF DiscNext
<1>2. CASE UNCHANGED discVars
  BY <1>2 DEF discVars, DiscIInv
<1> QED
  BY <1>1, <1>2

LEMMA DiscInvariance == DiscSpec => []DiscIInv
  BY DiscInitHolds, DiscStepHolds, PTL DEF DiscSpec

(* Types of the rows and of the calls, for any rows, DATs and processes.   *)
THEOREM DiscTypeCorrect == DiscSpec => []DiscTypeOK
<1>1. DiscIInv => DiscTypeOK
  BY DEF DiscIInv, DiscTypeOK, IsRow, IsKey, NoKey, CallOK, DiscSteps
<1> QED
  BY <1>1, DiscInvariance, PTL

(* Whatever earlier scans, failures and overlapping rebuilds left, a       *)
(* rebuild that nothing disturbed puts two rows under one key exactly when *)
(* catalog, confirmed game or name put them together: for any rows and any *)
(* DATs in which a digest belongs to one title.                            *)
THEOREM RebuildsGather == ASSUME DigestNamesTitle PROVE DiscSpec => []SetsAreTogether
<1>1. ASSUME DiscIInv PROVE SetsAreTogether
  <2> SUFFICES ASSUME settled # "no", NEW f \in DOMAIN sets
               PROVE  /\ \A g \in DOMAIN sets \ {f} : (sets[f].key # NoKey /\ sets[f].key = sets[g].key) <=> Together(f, g)
                      /\ sets[f].key # NoKey => Catalogued(f) \/ \E g \in DOMAIN sets \ {f} : Together(f, g)
    BY DEF SetsAreTogether
  <2> DEFINE a == settled = "attached"
             D == DOMAIN sets
  <2>1. Sorted(sets, D, confirmed, topology, a)
    BY <1>1 DEF DiscIInv, Gathered
  <2>2. \A g : lookupDiscContextInDb(g) = Context(topology, g)
    BY DEF lookupDiscContextInDb, Context
  <2>3. \A g : Catalogued(g) <=> InCatalog(topology, a, g)
    BY <2>2 DEF Catalogued, InCatalog
  <2>4. \A g, h : PlayedTogether(g, h) <=> Played(confirmed, topology, a, g, h)
    BY <2>3 DEF PlayedTogether, Played
  <2>5. \A g : InGame(g) <=> Gamed(D, confirmed, topology, a, g)
    BY <2>4 DEF InGame, Gamed
  <2>6. ASSUME NEW g PROVE Together(f, g) <=> Belong(D, confirmed, topology, a, f, g)
    <3> HIDE DEF a, D
    <3> QED
      BY <2>2, <2>3, <2>4, <2>5 DEF Together, Belong
  <2> HIDE DEF a
  <2> QED
    BY <2>1, <2>3, <2>6 DEF Sorted
<1> QED
  BY <1>1, DiscInvariance, PTL

(* In any state at all, whichever SELECTs of tracks fail: a set the report *)
(* finds nothing wrong with is there track by track, but for the discs     *)
(* whose tracks it could not read.                                         *)
THEOREM CompleteIsComplete == DiscSpec => []CompleteMeansEveryTrack
<1>1. CompleteMeansEveryTrack
  BY DEF CompleteMeansEveryTrack, ReportedComplete, missingDiscNumbers, ownedDiscs, trackGapForDiscSet, libraryHashSet
<1> QED
  BY <1>1, PTL

-----------------------------------------------------------------------------
(* The catalog gives no disc another number than its name.                 *)
Agrees(T) ==
    \A d \in T, f \in Disc :
        d \in Context(T, f) /\ d.disc > 0 /\ Label[f].disc > 0 => d.disc = Label[f].disc
NumbersAgree == \A dat \in Dats : Agrees(insertDiscTopologyForRecords(dat))
RowAgrees(r, f) == Label[f].disc > 0 => r.disc \in {0, Label[f].disc}

InOrder(s) == \A i, j \in DOMAIN s : i < j /\ Label[s[j]].disc > 0 => Label[s[i]].disc <= Label[s[j]].disc

(* The rows a playlist is made of, as they were read.                      *)
RowsRead(rows, D) == DOMAIN rows \subseteq D /\ \A f \in DOMAIN rows : IsRow(rows[f]) /\ RowAgrees(rows[f], f)

PlaylistOK(c, D) ==
    /\ c.step = "write" => \A f \in c.todo : RowAgrees(c.meta[f], f)
    /\ c.step \in {"playlist", "read", "file"} => \A group \in c.todo : group \subseteq D
    /\ c.step = "playlist" => c.meta = <<>>
    /\ c.step = "read" => c.rest \subseteq D /\ RowsRead(c.meta, D)
    /\ c.step = "file" => c.meta = <<>> /\ InOrder(c.discs)

PlaylistIInv ==
    /\ Agrees(topology)
    /\ \A f \in DOMAIN sets : RowAgrees(sets[f], f)
    /\ \A p \in Worker : PlaylistOK(rebuilds[p], DOMAIN sets)
    /\ playlists = [t \in Titles |-> playlists[t]] /\ \A t \in Titles : InOrder(playlists[t].written)

(* The places in the order of a total order of a finite set: an element    *)
(* with n before it is the next one.                                       *)
LEMMA SortedExists ==
    ASSUME NEW S, IsFiniteSet(S), NEW Prec \in SUBSET (S \X S),
           \A f \in S : <<f, f>> \notin Prec,
           \A f, g \in S : f # g => <<f, g>> \in Prec \/ <<g, f>> \in Prec,
           \A f, g, h \in S : <<f, g>> \in Prec /\ <<g, h>> \in Prec => <<f, h>> \in Prec
    PROVE  \E s \in SetToSeqs(S) : \A i, j \in DOMAIN s : i < j => <<s[i], s[j]>> \in Prec
<1> DEFINE n == Cardinality(S)
           B(f) == {g \in S : <<g, f>> \in Prec}
           r == [f \in S |-> Cardinality(B(f)) + 1]
<1>1. n \in Nat
  BY FS_CardinalityType
<1>2. ASSUME NEW f \in S PROVE IsFiniteSet(B(f)) /\ Cardinality(B(f)) \in Nat /\ Cardinality(B(f)) + 1 <= n
  <2>1. IsFiniteSet(B(f)) /\ B(f) \subseteq S \ {f}
    BY FS_Subset
  <2>2. IsFiniteSet(S \ {f}) /\ Cardinality(S \ {f}) = n - 1
    BY FS_RemoveElement
  <2>3. Cardinality(B(f)) <= n - 1
    <3>1. Cardinality(B(f)) <= Cardinality(S \ {f})
      <4> HIDE DEF B, n
      <4> QED
        BY <2>1, <2>2, FS_Subset
    <3> QED
      BY <2>2, <3>1
  <2>4. Cardinality(B(f)) \in Nat
    BY <2>1, FS_CardinalityType
  <2> QED
    <3> HIDE DEF B, n
    <3> QED
      BY <1>1, <2>1, <2>3, <2>4
<1>3. ASSUME NEW f \in S, NEW g \in S, <<f, g>> \in Prec PROVE Cardinality(B(f)) < Cardinality(B(g))
  <2>1. B(f) \subseteq B(g) /\ f \in B(g) /\ f \notin B(f)
    BY <1>3
  <2>2. Cardinality(B(f)) <= Cardinality(B(g)) /\ Cardinality(B(f)) # Cardinality(B(g))
    BY <1>2, <2>1, FS_Subset
  <2> QED
    <3> HIDE DEF B
    <3> QED
      BY <1>2, <2>2
<1> HIDE DEF n, B
<1>4. r \in [S -> 1..n]
  <2>1. \A f \in S : Cardinality(B(f)) + 1 \in 1..n
    BY <1>1, <1>2
  <2> QED
    BY <2>1
<1>5. \A f, g \in S : f # g => r[f] # r[g]
  <2> SUFFICES ASSUME NEW f \in S, NEW g \in S, f # g PROVE r[f] # r[g]
    OBVIOUS
  <2>1. Cardinality(B(f)) < Cardinality(B(g)) \/ Cardinality(B(g)) < Cardinality(B(f))
    BY <1>3
  <2> QED
    BY <1>2, <2>1
<1>6. \A f, g \in S : r[f] < r[g] => <<f, g>> \in Prec
  <2> SUFFICES ASSUME NEW f \in S, NEW g \in S, r[f] < r[g] PROVE <<f, g>> \in Prec
    OBVIOUS
  <2>1. f # g
    BY <1>4
  <2>2. ~ <<g, f>> \in Prec
    BY <1>2, <1>3
  <2> QED
    BY <2>1, <2>2
<1> HIDE DEF r
<1>7. r \in Surjection(S, 1..n)
  <2>1. r \in Injection(S, 1..n)
    BY <1>4, <1>5 DEF Injection, IsInjective
  <2>2. IsFiniteSet(1..n) /\ Cardinality(1..n) = n
    BY <1>1, FS_Interval
  <2> QED
    BY <2>1, <2>2, FS_Injection DEF n
<1>8. \A i \in 1..n : \E f \in S : r[f] = i
  BY <1>7 DEF Surjection
<1> DEFINE s == [i \in 1..n |-> CHOOSE f \in S : r[f] = i]
<1>9. \A i \in 1..n : s[i] \in S /\ r[s[i]] = i
  BY <1>8
<1>10. s \in [1..n -> S] /\ DOMAIN s = 1..n
  BY <1>9
<1> HIDE DEF s
<1>11. s \in SetToSeqs(S)
  BY <1>9, <1>10 DEF SetToSeqs, n
<1>12. \A i, j \in DOMAIN s : i < j => <<s[i], s[j]>> \in Prec
  BY <1>6, <1>9, <1>10
<1> QED
  BY <1>11, <1>12

LEMMA NumberIs ==
    ASSUME DiscIInv, PlaylistIInv, NEW rows, RowsRead(rows, DOMAIN sets), NEW f \in DOMAIN rows
    PROVE  catalogDiscNumberForFile(rows, f) \in Nat /\ (Label[f].disc > 0 => catalogDiscNumberForFile(rows, f) = Label[f].disc)
<1>1. rows[f].disc \in Nat /\ f \in Disc /\ Label[f].disc \in Nat
  BY DiscAssumption DEF DiscIInv, IsRow, RowsRead
<1>2. lookupDiscContextInDb(f) = Context(topology, f)
  BY DEF lookupDiscContextInDb, Context
<1>3. CASE rows[f].disc > 0
  <2>1. catalogDiscNumberForFile(rows, f) = rows[f].disc
    BY <1>3 DEF catalogDiscNumberForFile
  <2> QED
    BY <1>1, <1>3, <2>1 DEF RowsRead, RowAgrees
<1>4. CASE ~(rows[f].disc > 0) /\ \E d \in Context(topology, f) : d.disc > 0
  <2>1. PICK d : d = CHOOSE e \in Context(topology, f) : e.disc > 0
    OBVIOUS
  <2>2. d \in Context(topology, f) /\ d.disc > 0
    BY <1>4, <2>1
  <2>3. catalogDiscNumberForFile(rows, f) = d.disc
    BY <1>2, <1>4, <2>1 DEF catalogDiscNumberForFile
  <2>4. d \in topology
    BY <2>2 DEF Context
  <2> QED
    BY <1>1, <2>2, <2>3, <2>4 DEF PlaylistIInv, Agrees, DiscIInv, Numbered
<1>5. CASE ~(rows[f].disc > 0) /\ ~\E d \in Context(topology, f) : d.disc > 0
  <2>1. catalogDiscNumberForFile(rows, f) = Label[f].disc
    BY <1>2, <1>5 DEF catalogDiscNumberForFile
  <2> QED
    BY <1>1, <2>1
<1> QED
  BY <1>3, <1>4, <1>5

LEMMA SortIs ==
    ASSUME DiscIInv, PlaylistIInv, NEW rows, RowsRead(rows, DOMAIN sets)
    PROVE  InOrder(sortByDiscNumber(rows))
<1> DEFINE group == DOMAIN rows
           N(f) == catalogDiscNumberForFile(rows, f)
           Prec == {w \in group \X group : N(w[1]) < N(w[2]) \/ (N(w[1]) = N(w[2]) /\ w[1] < w[2])}
<1>1. group \subseteq Disc /\ Disc \subseteq Nat /\ IsFiniteSet(group)
  BY DiscAssumption, FS_Subset DEF DiscIInv, RowsRead
<1>2. \A f \in group : N(f) \in Nat /\ (Label[f].disc > 0 => N(f) = Label[f].disc) /\ Label[f].disc \in Nat /\ f \in Nat
  BY <1>1, NumberIs, DiscAssumption
<1>3. \A f, g \in group : ComesBefore(rows, f, g) <=> N(f) < N(g) \/ (N(f) = N(g) /\ f < g)
  BY DEF ComesBefore
<1> HIDE DEF N
<1>4. \A f, g \in group : <<f, g>> \in Prec <=> ComesBefore(rows, f, g)
  BY <1>3
<1>5. /\ Prec \in SUBSET (group \X group)
      /\ \A f \in group : ~ComesBefore(rows, f, f)
      /\ \A f, g \in group : f # g => ComesBefore(rows, f, g) \/ ComesBefore(rows, g, f)
      /\ \A f, g, h \in group : ComesBefore(rows, f, g) /\ ComesBefore(rows, g, h) => ComesBefore(rows, f, h)
  <2>1. Prec \in SUBSET (group \X group)
    OBVIOUS
  <2>2. \A f \in group : ~ComesBefore(rows, f, f)
    BY <1>2, <1>3
  <2>3. \A f, g \in group : f # g => ComesBefore(rows, f, g) \/ ComesBefore(rows, g, f)
    BY <1>2, <1>3
  <2>4. \A f, g, h \in group : ComesBefore(rows, f, g) /\ ComesBefore(rows, g, h) => ComesBefore(rows, f, h)
    BY <1>2, <1>3
  <2> QED
    BY <2>1, <2>2, <2>3, <2>4
<1> HIDE DEF Prec
<1>6. \E s \in SetToSeqs(group) : \A i, j \in DOMAIN s : i < j => <<s[i], s[j]>> \in Prec
  BY <1>1, <1>4, <1>5, SortedExists
<1>7. ASSUME NEW s \in SetToSeqs(group), NEW i \in DOMAIN s PROVE s[i] \in group
  BY <1>7 DEF SetToSeqs
<1>8. \E s \in SetToSeqs(group) : \A i, j \in DOMAIN s : i < j => ComesBefore(rows, s[i], s[j])
  BY <1>4, <1>6, <1>7
<1>9. PICK s : s = sortByDiscNumber(rows)
  OBVIOUS
<1>10. s \in SetToSeqs(group) /\ \A i, j \in DOMAIN s : i < j => ComesBefore(rows, s[i], s[j])
  BY <1>8, <1>9 DEF sortByDiscNumber
<1>11. ASSUME NEW i \in DOMAIN s, NEW j \in DOMAIN s, i < j, Label[s[j]].disc > 0 PROVE Label[s[i]].disc <= Label[s[j]].disc
  <2>1. s[i] \in group /\ s[j] \in group /\ ComesBefore(rows, s[i], s[j])
    BY <1>7, <1>10, <1>11
  <2> QED
    BY <1>2, <1>3, <1>11, <2>1
<1>12. InOrder(s)
  BY <1>11 DEF InOrder
<1> QED
  BY <1>9, <1>12

LEMMA RebuildAgrees ==
    ASSUME NEW a \in BOOLEAN, DiscIInv, Agrees(topology) PROVE \A f \in DOMAIN sets : RowAgrees(RebuildOf(a)[f], f)
<1> DEFINE D == DOMAIN sets
           r == RebuildOf(a)
<1>1. IsFiniteSet(D) /\ D \subseteq Disc /\ Numbered(topology)
  BY FS_Subset, DiscAssumption DEF DiscIInv
<1>2. PICK m, n : Rebuilt(m, n, r, D, a)
  BY <1>1, RebuildIs
<1> SUFFICES ASSUME NEW f \in D PROVE RowAgrees(r[f], f)
  OBVIOUS
<1> HIDE DEF D, r
<1>3. /\ InCatalog(topology, a, f) => \E d \in Context(topology, f) : n[f].key = <<"catalog", d.title>> /\ n[f].disc = d.disc
      /\ ~InCatalog(topology, a, f) => n[f].disc = Label[f].disc
  BY <1>2, GroupedIs
<1>4. Label[f].disc > 0 => n[f].disc \in {0, Label[f].disc}
  <2>1. ASSUME NEW d \in Context(topology, f), n[f].disc = d.disc, Label[f].disc > 0 PROVE n[f].disc \in {0, Label[f].disc}
    <3>1. d \in topology /\ d.disc \in Nat /\ f \in Disc
      BY <1>1, <2>1 DEF Context, Numbered
    <3> QED
      BY <2>1, <3>1 DEF Agrees
  <2> QED
    BY <1>3, <2>1
<1>5. r[f] = [key |-> NoKey, disc |-> 0] \/ r[f] = [key |-> n[f].key, disc |-> n[f].disc]
  BY <1>2 DEF Rebuilt
<1> QED
  BY <1>4, <1>5 DEF RowAgrees

LEMMA PlaylistInitHolds == DiscInit => PlaylistIInv
<1> SUFFICES ASSUME DiscInit PROVE PlaylistIInv
  OBVIOUS
<1>1. Agrees(topology)
  BY DEF DiscInit, Agrees, Context
<1>2. \A f \in DOMAIN sets : RowAgrees(sets[f], f)
  BY DEF DiscInit, applyScanDiscMetadata, RowAgrees
<1>3. \A p \in Worker : PlaylistOK(rebuilds[p], DOMAIN sets)
  BY DEF DiscInit, IdleWorker, PlaylistOK
<1>4. playlists = [t \in Titles |-> EmptyFile]
  BY DEF DiscInit
<1>5. playlists = [t \in Titles |-> playlists[t]] /\ \A t \in Titles : InOrder(playlists[t].written)
  BY <1>4 DEF InOrder, EmptyFile
<1> QED
  BY <1>1, <1>2, <1>3, <1>5 DEF PlaylistIInv

LEMMA CallPlaysOn ==
    ASSUME DiscIInv, PlaylistIInv, NEW p \in Worker, NEW c, PlaylistOK(c, DOMAIN sets), rebuilds' = [rebuilds EXCEPT ![p] = c],
           UNCHANGED <<sets, topology>>, playlists' = [t \in Titles |-> playlists'[t]], \A t \in Titles : InOrder(playlists'[t].written)
    PROVE  PlaylistIInv'
<1>1. rebuilds'[p] = c /\ \A q \in Worker \ {p} : rebuilds'[q] = rebuilds[q]
  BY DEF DiscIInv
<1>2. \A q \in Worker : PlaylistOK(rebuilds'[q], DOMAIN sets')
  BY <1>1 DEF PlaylistIInv
<1> QED
  BY <1>2 DEF PlaylistIInv

LEMMA RebuildPlays == ASSUME DiscIInv, PlaylistIInv, NEW p \in Worker, Rebuild(p) \/ Reconcile(p) PROVE PlaylistIInv'
<1>1. rebuildDiscSetsForLibrary(p) /\ UNCHANGED <<sets, topology, playlists>>
  BY DEF Rebuild, Reconcile
<1>2. PICK a \in BOOLEAN :
        rebuilds' = [rebuilds EXCEPT ![p] = [IdleWorker EXCEPT !.step = "write", !.todo = DOMAIN sets,
                                             !.meta = RebuildOf(a), !.attached = a, !.fresh = TRUE]]
  BY <1>1 DEF rebuildDiscSetsForLibrary
<1>3. PICK m : m = RebuildOf(a)
  OBVIOUS
<1>4. PICK c : c = [IdleWorker EXCEPT !.step = "write", !.todo = DOMAIN sets, !.meta = m, !.attached = a, !.fresh = TRUE]
  OBVIOUS
<1>5. \A f \in DOMAIN sets : RowAgrees(m[f], f)
  BY <1>3, RebuildAgrees DEF PlaylistIInv
<1>6. PlaylistOK(c, DOMAIN sets)
  <2>1. c = [step |-> "write", todo |-> DOMAIN sets, rest |-> {}, meta |-> m, title |-> "", discs |-> <<>>,
             attached |-> a, fresh |-> TRUE]
    BY <1>4 DEF IdleWorker
  <2> QED
    BY <1>5, <2>1 DEF PlaylistOK
<1>7. rebuilds' = [rebuilds EXCEPT ![p] = c]
  BY <1>2, <1>3, <1>4
<1>8. playlists' = [t \in Titles |-> playlists'[t]] /\ \A t \in Titles : InOrder(playlists'[t].written)
  BY <1>1 DEF PlaylistIInv
<1> QED
  BY <1>1, <1>6, <1>7, <1>8, CallPlaysOn

LEMMA GeneratePlays == ASSUME DiscIInv, PlaylistIInv, NEW p \in Worker, generateAll(p) PROVE PlaylistIInv'
<1>1. PICK G : G = groupByDiscSetKey
  OBVIOUS
<1>2. PICK c : c = [IdleWorker EXCEPT !.step = "playlist", !.todo = G]
  OBVIOUS
<1>3. rebuilds' = [rebuilds EXCEPT ![p] = c] /\ UNCHANGED <<sets, topology, playlists>>
  BY <1>1, <1>2 DEF generateAll
<1>4. \A group \in G : group \subseteq DOMAIN sets
  BY <1>1 DEF groupByDiscSetKey
<1>5. PlaylistOK(c, DOMAIN sets)
  <2>1. c = [step |-> "playlist", todo |-> G, rest |-> {}, meta |-> <<>>, title |-> "", discs |-> <<>>,
             attached |-> FALSE, fresh |-> FALSE]
    BY <1>2 DEF IdleWorker
  <2> QED
    BY <1>4, <2>1 DEF PlaylistOK
<1>6. playlists' = [t \in Titles |-> playlists'[t]] /\ \A t \in Titles : InOrder(playlists'[t].written)
  BY <1>3 DEF PlaylistIInv
<1> QED
  BY <1>3, <1>5, <1>6, CallPlaysOn

LEMMA SamePlaylists ==
    ASSUME PlaylistIInv, UNCHANGED playlists
    PROVE  playlists' = [t \in Titles |-> playlists'[t]] /\ \A t \in Titles : InOrder(playlists'[t].written)
  BY DEF PlaylistIInv

LEMMA StartPlays == ASSUME DiscIInv, PlaylistIInv, NEW p \in Worker, NEW group, StartPlaylist(p, group) PROVE PlaylistIInv'
<1>1. UNCHANGED <<sets, topology, playlists>>
  BY DEF StartPlaylist
<1>2. PICK b, c : /\ b = rebuilds[p] /\ CallOK(b) /\ b.step = "playlist" /\ group \in b.todo
                  /\ c = CallAt(b, "read", b.todo \ {group}, group, b.meta, b.title, b.discs)
                  /\ rebuilds' = [rebuilds EXCEPT ![p] = c]
  BY StartIs
<1>3. b.meta = <<>> /\ \A g \in b.todo : g \subseteq DOMAIN sets
  BY <1>2 DEF PlaylistIInv, PlaylistOK
<1>4. RowsRead(<<>>, DOMAIN sets)
  BY DEF RowsRead
<1>5. PlaylistOK(c, DOMAIN sets)
  BY <1>2, <1>3, <1>4 DEF PlaylistOK, CallAt
<1> QED
  BY <1>1, <1>2, <1>5, SamePlaylists, CallPlaysOn

LEMMA ReadPlays == ASSUME DiscIInv, PlaylistIInv, NEW p \in Worker, NEW f, ReadDisc(p, f) PROVE PlaylistIInv'
<1>1. UNCHANGED <<sets, topology, playlists>>
  BY DEF ReadDisc
<1>2. PICK b, c, m : /\ b = rebuilds[p] /\ b.step = "read" /\ f \in b.rest
                     /\ c = CallAt(b, "read", b.todo, b.rest \ {f}, m, b.title, b.discs)
                     /\ Gained(b.meta, m, f, sets[f])
                     /\ rebuilds' = [rebuilds EXCEPT ![p] = c]
  BY ReadIs
<1>3. RowsRead(b.meta, DOMAIN sets) /\ b.rest \subseteq DOMAIN sets /\ \A g \in b.todo : g \subseteq DOMAIN sets
  BY <1>2 DEF PlaylistIInv, PlaylistOK
<1>4. IsRow(sets[f]) /\ RowAgrees(sets[f], f) /\ f \in DOMAIN sets
  BY <1>2, <1>3 DEF DiscIInv, PlaylistIInv
<1>5. RowsRead(m, DOMAIN sets)
  BY <1>2, <1>3, <1>4 DEF RowsRead, Gained
<1>6. PlaylistOK(c, DOMAIN sets)
  BY <1>2, <1>3, <1>5 DEF PlaylistOK, CallAt
<1> QED
  BY <1>1, <1>2, <1>6, SamePlaylists, CallPlaysOn

LEMMA OpenPlays == ASSUME DiscIInv, PlaylistIInv, NEW p \in Worker, OpenPlaylist(p) PROVE PlaylistIInv'
<1>1. UNCHANGED <<sets, topology>>
  BY DEF OpenPlaylist
<1>2. PICK b, c, title, discs :
        /\ b = rebuilds[p] /\ b.step = "read"
        /\ rebuilds' = [rebuilds EXCEPT ![p] = c]
        /\ discs = sortByDiscNumber(b.meta)
        /\ \/ PassedOver(b, c) /\ playlists' = playlists
           \/ OpenedAs(b, c, title, discs) /\ playlists' = [playlists EXCEPT ![title] = EmptyFile]
  BY OpenIs
<1>3. RowsRead(b.meta, DOMAIN sets) /\ \A g \in b.todo : g \subseteq DOMAIN sets
  BY <1>2 DEF PlaylistIInv, PlaylistOK
<1>4. InOrder(discs)
  BY <1>2, <1>3, SortIs
<1>5. PlaylistOK(c, DOMAIN sets)
  BY <1>2, <1>3, <1>4 DEF PlaylistOK, CallAt, PassedOver, OpenedAs
<1>6. InOrder(EmptyFile.written)
  BY DEF InOrder, EmptyFile
<1>7. playlists' = [t \in Titles |-> playlists'[t]] /\ \A t \in Titles : InOrder(playlists'[t].written)
  <2>1. playlists = [t \in Titles |-> playlists[t]] /\ \A t \in Titles : InOrder(playlists[t].written)
    BY DEF PlaylistIInv
  <2>2. playlists' = playlists \/ playlists' = [playlists EXCEPT ![title] = EmptyFile]
    BY <1>2
  <2> QED
    BY <1>6, <2>1, <2>2
<1> QED
  BY <1>1, <1>2, <1>5, <1>7, CallPlaysOn

LEMMA WriteFilePlays == ASSUME DiscIInv, PlaylistIInv, NEW p \in Worker, writeM3UFile(p) PROVE PlaylistIInv'
<1>1. PICK b, c : /\ b = rebuilds[p] /\ b.step = "file"
                  /\ c = CallAt(b, "playlist", b.todo, b.rest, b.meta, "", <<>>)
                  /\ rebuilds' = [rebuilds EXCEPT ![p] = c]
  BY WriteFileIs
<1>2. InOrder(b.discs) /\ b.meta = <<>> /\ \A g \in b.todo : g \subseteq DOMAIN sets
  BY <1>1 DEF PlaylistIInv, PlaylistOK
<1>3. PlaylistOK(c, DOMAIN sets)
  BY <1>1, <1>2 DEF PlaylistOK, CallAt
<1>4. playlists' = [playlists EXCEPT ![b.title] = Overwritten(playlists[b.title], b.discs)] /\ UNCHANGED <<sets, topology>>
  BY <1>1 DEF writeM3UFile
<1>5. Overwritten(playlists[b.title], b.discs).written = b.discs
  BY DEF Overwritten
<1>6. playlists' = [t \in Titles |-> playlists'[t]] /\ \A t \in Titles : InOrder(playlists'[t].written)
  <2>1. playlists = [t \in Titles |-> playlists[t]] /\ \A t \in Titles : InOrder(playlists[t].written)
    BY DEF PlaylistIInv
  <2> QED
    BY <1>2, <1>4, <1>5, <2>1
<1> QED
  BY <1>1, <1>3, <1>4, <1>6, CallPlaysOn

LEMMA StopPlays == ASSUME DiscIInv, PlaylistIInv, NEW p \in Worker, PlaylistsDone(p) \/ DiscWorkerDies(p) PROVE PlaylistIInv'
<1>1. rebuilds' = [rebuilds EXCEPT ![p] = IdleWorker] /\ UNCHANGED <<sets, topology, playlists>>
  BY DEF PlaylistsDone, DiscWorkerDies
<1>2. PlaylistOK(IdleWorker, DOMAIN sets)
  BY DEF PlaylistOK, IdleWorker
<1>3. playlists' = [t \in Titles |-> playlists'[t]] /\ \A t \in Titles : InOrder(playlists'[t].written)
  BY <1>1 DEF PlaylistIInv
<1> QED
  BY <1>1, <1>2, <1>3, CallPlaysOn

LEMMA AgedPlays ==
    ASSUME NEW c, NEW D, CallOK(c), PlaylistOK(c, D), NEW E, D \subseteq E, NEW d, d = [c EXCEPT !.fresh = FALSE]
    PROVE  PlaylistOK(d, E)
<1>1. d = [step |-> c.step, todo |-> c.todo, rest |-> c.rest, meta |-> c.meta, title |-> c.title, discs |-> c.discs,
           attached |-> c.attached, fresh |-> FALSE]
  BY DEF CallOK
<1>2. d.step = c.step /\ d.todo = c.todo /\ d.rest = c.rest /\ d.meta = c.meta /\ d.discs = c.discs
  BY <1>1
<1>3. \A rows : RowsRead(rows, D) => RowsRead(rows, E)
  BY DEF RowsRead
<1> QED
  BY <1>2, <1>3 DEF PlaylistOK

LEMMA IngestPlays == ASSUME NumbersAgree, DiscIInv, PlaylistIInv, IngestDiscs PROVE PlaylistIInv'
<1>1. Agrees(topology') /\ UNCHANGED <<sets, playlists>> /\ rebuilds' = [q \in Worker |-> [rebuilds[q] EXCEPT !.fresh = FALSE]]
  BY DEF NumbersAgree, IngestDiscs
<1>2. ASSUME NEW q \in Worker PROVE PlaylistOK(rebuilds'[q], DOMAIN sets')
  <2>1. CallOK(rebuilds[q]) /\ PlaylistOK(rebuilds[q], DOMAIN sets)
    BY DEF DiscIInv, PlaylistIInv
  <2>2. rebuilds'[q] = [rebuilds[q] EXCEPT !.fresh = FALSE]
    BY <1>1
  <2> QED
    BY <1>1, <2>1, <2>2, AgedPlays
<1> QED
  BY <1>1, <1>2 DEF PlaylistIInv

LEMMA StorePlays == ASSUME DiscIInv, PlaylistIInv, NEW f \in Disc, StoreDisc(f) PROVE PlaylistIInv'
<1>1. /\ UNCHANGED <<topology, playlists>> /\ rebuilds' = [q \in Worker |-> [rebuilds[q] EXCEPT !.fresh = FALSE]]
      /\ sets' = [g \in DOMAIN sets \cup {f} |-> IF g = f THEN applyScanDiscMetadata(f) ELSE sets[g]]
  BY DEF StoreDisc
<1>2. DOMAIN sets \subseteq DOMAIN sets'
  BY <1>1
<1>3. ASSUME NEW q \in Worker PROVE PlaylistOK(rebuilds'[q], DOMAIN sets')
  <2>1. CallOK(rebuilds[q]) /\ PlaylistOK(rebuilds[q], DOMAIN sets)
    BY DEF DiscIInv, PlaylistIInv
  <2>2. rebuilds'[q] = [rebuilds[q] EXCEPT !.fresh = FALSE]
    BY <1>1
  <2> QED
    BY <1>2, <2>1, <2>2, AgedPlays
<1>4. \A g \in DOMAIN sets' : RowAgrees(sets'[g], g)
  <2>1. RowAgrees(applyScanDiscMetadata(f), f)
    BY DEF RowAgrees, applyScanDiscMetadata
  <2>2. \A g \in DOMAIN sets : RowAgrees(sets[g], g)
    BY DEF PlaylistIInv
  <2> QED
    BY <1>1, <2>1, <2>2
<1> QED
  BY <1>1, <1>3, <1>4 DEF PlaylistIInv

LEMMA OthersPlay ==
    ASSUME DiscIInv, PlaylistIInv, NEW p \in Worker, NEW c, PlaylistOK(c, DOMAIN sets), rebuilds' = [Disturb(p) EXCEPT ![p] = c],
           DOMAIN sets' = DOMAIN sets, \A f \in DOMAIN sets : RowAgrees(sets'[f], f), UNCHANGED <<topology, playlists>>
    PROVE  PlaylistIInv'
<1>1. ASSUME NEW q \in Worker PROVE PlaylistOK(rebuilds'[q], DOMAIN sets')
  <2>1. PICK d : d = [rebuilds[q] EXCEPT !.fresh = FALSE]
    OBVIOUS
  <2>2. PlaylistOK(d, DOMAIN sets')
    <3>1. CallOK(rebuilds[q]) /\ PlaylistOK(rebuilds[q], DOMAIN sets)
      BY DEF DiscIInv, PlaylistIInv
    <3> QED
      BY <2>1, <3>1, AgedPlays
  <2>3. rebuilds'[q] = d \/ rebuilds'[q] = c
    BY <2>1 DEF Disturb
  <2> QED
    BY <2>2, <2>3
<1> QED
  BY <1>1 DEF PlaylistIInv

LEMMA ConfirmPlays == ASSUME DiscIInv, PlaylistIInv, NEW p \in Worker, NEW f, ConfirmDisc(p, f) PROVE PlaylistIInv'
<1>1. CallOK(rebuilds[p])
  BY DEF DiscIInv
<1>2. PICK c : c = [rebuilds[p] EXCEPT !.step = "reconcile"]
  OBVIOUS
<1>3. c = [step |-> "reconcile", todo |-> rebuilds[p].todo, rest |-> rebuilds[p].rest, meta |-> rebuilds[p].meta,
           title |-> rebuilds[p].title, discs |-> rebuilds[p].discs,
           attached |-> rebuilds[p].attached, fresh |-> rebuilds[p].fresh]
  BY <1>1, <1>2 DEF CallOK
<1>4. PlaylistOK(c, DOMAIN sets)
  BY <1>3 DEF PlaylistOK
<1>5. rebuilds' = [Disturb(p) EXCEPT ![p] = c] /\ sets' = sets /\ UNCHANGED <<topology, playlists>>
  BY <1>2 DEF ConfirmDisc, Disturb
<1>6. \A g \in DOMAIN sets : RowAgrees(sets'[g], g)
  BY <1>5 DEF PlaylistIInv
<1> QED
  BY <1>4, <1>5, <1>6, OthersPlay

LEMMA WriteRowPlays == ASSUME DiscIInv, PlaylistIInv, NEW p \in Worker, NEW f, WriteRow(p, f) PROVE PlaylistIInv'
<1>1. /\ CallOK(rebuilds[p]) /\ rebuilds[p].step = "write" /\ f \in rebuilds[p].todo
      /\ PlaylistOK(rebuilds[p], DOMAIN sets) /\ WriterOK(rebuilds[p], sets, confirmed, topology)
      /\ UNCHANGED <<topology, playlists>>
  BY DEF DiscIInv, PlaylistIInv, WriteRow
<1>2. PICK m : m = rebuilds[p].meta
  OBVIOUS
<1>3. f \in DOMAIN sets /\ \A g \in rebuilds[p].todo : RowAgrees(m[g], g)
  BY <1>1, <1>2 DEF WriterOK, PlaylistOK
<1>4. sets' = [sets EXCEPT ![f] = m[f]]
  BY <1>2 DEF WriteRow
<1>5. DOMAIN sets' = DOMAIN sets /\ sets'[f] = m[f] /\ \A g \in DOMAIN sets \ {f} : sets'[g] = sets[g]
  BY <1>3, <1>4 DEF DiscIInv
<1>6. \A g \in DOMAIN sets : RowAgrees(sets'[g], g)
  <2>1. \A g \in DOMAIN sets : RowAgrees(sets[g], g)
    BY DEF PlaylistIInv
  <2>2. RowAgrees(m[f], f)
    BY <1>1, <1>3
  <2> QED
    BY <1>5, <2>1, <2>2
<1>7. CASE rebuilds[p].todo = {f}
  <2>1. rebuilds' = [Disturb(p) EXCEPT ![p] = IdleWorker]
    BY <1>7 DEF WriteRow
  <2>2. PlaylistOK(IdleWorker, DOMAIN sets)
    BY DEF PlaylistOK, IdleWorker
  <2> QED
    BY <1>1, <1>5, <1>6, <2>1, <2>2, OthersPlay
<1>8. CASE rebuilds[p].todo # {f}
  <2>1. PICK c : c = [rebuilds[p] EXCEPT !.todo = @ \ {f}]
    OBVIOUS
  <2>2. c = [step |-> "write", todo |-> rebuilds[p].todo \ {f}, rest |-> rebuilds[p].rest, meta |-> m,
             title |-> rebuilds[p].title, discs |-> rebuilds[p].discs,
             attached |-> rebuilds[p].attached, fresh |-> rebuilds[p].fresh]
    BY <1>1, <1>2, <2>1 DEF CallOK
  <2>3. PlaylistOK(c, DOMAIN sets)
    BY <1>3, <2>2 DEF PlaylistOK
  <2>4. rebuilds' = [Disturb(p) EXCEPT ![p] = c]
    BY <1>8, <2>1 DEF WriteRow
  <2> QED
    BY <1>1, <1>5, <1>6, <2>3, <2>4, OthersPlay
<1> QED
  BY <1>7, <1>8

LEMMA PlaylistStepHolds == NumbersAgree /\ DiscIInv /\ PlaylistIInv /\ [DiscNext]_discVars => PlaylistIInv'
<1> SUFFICES ASSUME NumbersAgree, DiscIInv, PlaylistIInv, [DiscNext]_discVars PROVE PlaylistIInv'
  OBVIOUS
<1>1. CASE DiscNext
  BY <1>1, IngestPlays, StorePlays, RebuildPlays, GeneratePlays, StartPlays, ReadPlays, OpenPlays, WriteFilePlays, StopPlays,
     ConfirmPlays, WriteRowPlays DEF DiscNext
<1>2. CASE UNCHANGED discVars
  BY <1>2 DEF discVars, PlaylistIInv
<1> QED
  BY <1>1, <1>2

(* For any rows, DATs and groups, if no disc has another number in the     *)
(* catalog than in its name: a playlist is in the order of the discs, also *)
(* when rebuilds, ingests and deaths fall between its SELECTs, when some   *)
(* of them fail and when others write to the file meanwhile.               *)
THEOREM PlaylistsAreSorted == ASSUME NumbersAgree PROVE DiscSpec => []PlaylistInDiscOrder
<1>1. PlaylistIInv => PlaylistInDiscOrder
  BY DEF PlaylistIInv, PlaylistInDiscOrder, InOrder
<1>2. DiscInit => PlaylistIInv
  BY PlaylistInitHolds
<1>3. DiscIInv /\ PlaylistIInv /\ [DiscNext]_discVars => PlaylistIInv'
  BY PlaylistStepHolds
<1> QED
  BY <1>1, <1>2, <1>3, DiscInvariance, PTL DEF DiscSpec

-----------------------------------------------------------------------------
(* All services together.                                                  *)

(* A behaviour of all services is one of each: its own steps and stutters. *)
LEMMA EachInit ==
    MCInit => /\ VerifyInit /\ RunnerInit /\ PatchInit /\ GuiInit /\ SchemaInit
              /\ CatalogSchemaInit /\ DiscInit /\ ArchiveInit /\ FetchInit /\ EnrichInit
  BY DEF MCInit

LEMMA EachStep ==
    [MCNext]_vars => /\ [VerifyNext]_verifyVars /\ [RunnerNext]_runnerVars /\ [PatchNext]_patchVars /\ [GuiNext]_guiVars
                     /\ [SchemaNext]_schemaVars /\ [CatalogSchemaNext]_catalogSchemaVars /\ [DiscNext]_discVars
                     /\ [ArchiveNext]_archiveVars /\ [FetchNext]_fetchVars /\ [EnrichNext]_enrichVars
  BY DEF MCNext, Others, vars

LEMMA EachService ==
    Spec => /\ VerifySpec /\ RunnerSpec /\ PatchSpec /\ GuiSpec /\ SchemaSpec
            /\ CatalogSchemaSpec /\ DiscSpec /\ ArchiveSpec /\ FetchSpec /\ EnrichSpec
  BY EachInit, EachStep, PTL DEF Spec, VerifySpec, RunnerSpec, PatchSpec, GuiSpec, SchemaSpec,
     CatalogSchemaSpec, DiscSpec, ArchiveSpec, FetchSpec, EnrichSpec

(* Types of all services, for any values of all their constants.           *)
THEOREM ServicesAreTyped == Spec => []ServicesTypeOK
<1>1. VerifyTypeOK /\ RunnerTypeOK /\ PatchTypeOK /\ GuiTypeOK /\ SchemaTypeOK
      /\ CatalogSchemaTypeOK /\ DiscTypeOK /\ ArchiveTypeOK /\ FetchTypeOK /\ EnrichTypeOK => ServicesTypeOK
  BY DEF ServicesTypeOK
<1>2. Spec => [](VerifyTypeOK /\ RunnerTypeOK /\ PatchTypeOK /\ GuiTypeOK /\ SchemaTypeOK)
  BY EachService, VerifyTypeCorrect, RunnerTypeCorrect, PatchTypeCorrect, GuiTypeCorrect, SchemaTypeCorrect, PTL
<1>3. Spec => [](CatalogSchemaTypeOK /\ DiscTypeOK /\ ArchiveTypeOK /\ FetchTypeOK /\ EnrichTypeOK)
  BY EachService, CatalogTypeCorrect, DiscTypeCorrect, ArchiveTypeCorrect, FetchTypeCorrect, EnrichTypeCorrect, PTL
<1> QED
  BY <1>1, <1>2, <1>3, PTL
=============================================================================
