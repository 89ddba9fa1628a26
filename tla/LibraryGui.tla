------------------------------ MODULE LibraryGui ------------------------------
(***************************************************************************)
(* gui/library_controller.cpp: the window's controller on the GUI thread   *)
(* and its LibraryWorker on a thread of its own.  They share only signals, *)
(* which Qt queues between threads, and the library database.              *)
(*                                                                         *)
(* What a job does to the library is the business of other modules; here   *)
(* it is a number of statements, each of which leaves another edition of   *)
(* the rows that getFilesEligibleForOrganize returns.  `edition` 0 is a    *)
(* library that cannot be opened.                                          *)
(***************************************************************************)
EXTENDS Naturals, Sequences

CONSTANTS
    MaxJobs,     \* jobs asked for while idle, files matched on the GUI thread
    MaxEditions  \* statements that change what the library shows

ASSUME GuiAssumption == MaxJobs \in Nat /\ MaxEditions \in Nat \ {0}

Job == {"scan", "matchAll", "enrich", "verify", "organize"}

VARIABLES
    edition,  \* of the library, counted by the statements that changed it
    window,   \* m_busy, the edition the model shows, what m_status says
    requests, \* signals queued to the worker
    job,      \* the job the worker is in, "idle", "gone" or "deleted"
    results,  \* signals queued to the controller
    asked     \* jobs and matches asked for so far

guiVars == <<edition, window, requests, job, results, asked>>

(* reload: another connection, one query; the rows are those of that       *)
(* moment.  m_status is overwritten when there is no library, and when no  *)
(* job runs.                                                               *)
reload(w, e) ==
    [w EXCEPT !.shown = e,
              !.status = IF e = 0 THEN "empty" ELSE IF w.busy THEN @ ELSE "count"]

(* The constructor starts the thread, then reloads.                        *)
GuiInit ==
    /\ edition \in {0, 1}
    /\ window = [open |-> TRUE, busy |-> FALSE, shown |-> edition,
                 status |-> IF edition = 0 THEN "empty" ELSE "count"]
    /\ requests = <<>> /\ job = "idle" /\ results = <<>> /\ asked = 0

(* beginJob answers false to a second job; the first sets m_busy.          *)
beginJob(message) ==
    /\ window.open /\ ~window.busy
    /\ window' = [window EXCEPT !.busy = TRUE, !.status = message]

(* scanFolder, matchAll, enrich, verify, organize.  An empty folder does   *)
(* nothing.                                                                *)
RequestJob(j) ==
    /\ asked < MaxJobs /\ asked' = asked + 1
    /\ beginJob("running")
    /\ requests' = Append(requests, j)
    /\ UNCHANGED <<edition, job, results>>

(* fileCount, of the GUI thread, at any moment.                            *)
fileCount ==
    /\ window.open /\ window' = reload(window, edition)
    /\ UNCHANGED <<edition, requests, job, results, asked>>

(* matchFile runs on the GUI thread: it stores one match and reloads, or   *)
(* fails and says why.  Main.qml disables its button and that of fileCount *)
(* while a job runs; the controller itself refuses neither.                *)
matchFile ==
    /\ window.open /\ asked < MaxJobs /\ asked' = asked + 1
    /\ \/ /\ edition < MaxEditions /\ edition' = edition + 1
          /\ window' = reload([window EXCEPT !.status = "matched"], edition')
       \/ /\ window' = [window EXCEPT !.status = "failed"]
          /\ UNCHANGED edition
    /\ UNCHANGED <<requests, job, results>>

Take ==
    /\ job = "idle" /\ requests # <<>>
    /\ job' = Head(requests) /\ requests' = Tail(requests)
    /\ UNCHANGED <<edition, window, results, asked>>

(* A statement of the running job.                                         *)
Work ==
    /\ job \in Job /\ edition < MaxEditions
    /\ edition' = edition + 1
    /\ UNCHANGED <<window, requests, job, results, asked>>

(* Every slot of the worker emits finished or failed once, as its last     *)
(* act.  verify has no failure; the others can fail after statements that  *)
(* did their work.                                                         *)
Emit ==
    /\ job \in Job
    /\ \E r \in {"finished"} \cup (IF job = "verify" THEN {} ELSE {"failed"}) :
          results' = Append(results, r)
    /\ job' = "idle"
    /\ UNCHANGED <<edition, window, requests, asked>>

FinishedUnseen(w) == [w EXCEPT !.busy = FALSE, !.status = "finished"] \* mutant: no reload

onJobFinished(w) == reload([w EXCEPT !.busy = FALSE, !.status = "finished"], edition)

onJobFailed(w) == [w EXCEPT !.busy = FALSE, !.status = "failed"]

Deliver ==
    /\ window.open /\ results # <<>>
    /\ window' = IF Head(results) = "finished" THEN onJobFinished(window) ELSE onJobFailed(window)
    /\ results' = Tail(results)
    /\ UNCHANGED <<edition, requests, job, asked>>

(* The destructor: quit() lets the worker end the slot it is in, then      *)
(* leave its loop and be deleted; after five seconds the thread is         *)
(* destroyed in any case, and QThread aborts the process if it still runs. *)
Close ==
    /\ window.open /\ window' = [window EXCEPT !.open = FALSE]
    /\ UNCHANGED <<edition, requests, job, results, asked>>

Closed ==
    /\ ~window.open
    /\ \/ job = "idle" /\ job' = "deleted"
       \/ job \in Job /\ job' = "gone"
    /\ UNCHANGED <<edition, window, requests, results, asked>>

WorkerThread == Take \/ Emit
EventLoop == Deliver

GuiNext ==
    \/ \E j \in Job : RequestJob(j)
    \/ fileCount \/ matchFile
    \/ Work \/ WorkerThread \/ EventLoop
    \/ Close \/ Closed

(* The worker's thread and the GUI's event loop run; a job is a bounded    *)
(* number of statements and of waits that all have timeouts.  Nothing is   *)
(* assumed of the user.                                                    *)
GuiFairness == WF_guiVars(WorkerThread) /\ WF_guiVars(EventLoop)

GuiSpec == GuiInit /\ [][GuiNext]_guiVars /\ GuiFairness

-----------------------------------------------------------------------------
(* Busy means that exactly one job is queued, running or reported.         *)
GuiTypeOK ==
    /\ edition \in 0..MaxEditions
    /\ window \in [open : BOOLEAN, busy : BOOLEAN, shown : 0..MaxEditions,
                   status : {"count", "empty", "running", "matched", "finished", "failed"}]
    /\ requests \in Seq(Job)
    /\ job \in Job \cup {"idle", "gone", "deleted"}
    /\ results \in Seq({"finished", "failed"})
    /\ asked \in 0..MaxJobs
    /\ window.open =>
           Len(requests) + Len(results) + (IF job \in Job THEN 1 ELSE 0) = (IF window.busy THEN 1 ELSE 0)

(* An idle window shows the library as it is, unless the last job failed:  *)
(* however a match on the GUI thread and a reload fell among the job's     *)
(* statements, the reload at its end brings the rest.                      *)
IdleShowsLibrary ==
    window.open /\ ~window.busy /\ window.status # "failed" => window.shown = edition

(* A busy window becomes idle, or is closed.                               *)
BusyEnds == window.busy ~> (~window.busy \/ ~window.open)
=============================================================================
