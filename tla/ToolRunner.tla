----------------------------- MODULE ToolRunner -----------------------------
(***************************************************************************)
(* core/external_tool_runner.cpp, core/disc_converter.cpp and the chd,     *)
(* cso, rvz and wbfs converters: one converter object runs an external     *)
(* tool on a file, or on a batch of files, while another part of the       *)
(* program may cancel.                                                     *)
(*                                                                         *)
(* State: the object's call, its m_cancelled, the child process, and what  *)
(* lies at each output path.  The child is not fair: it may hang for ever, *)
(* ignore SIGTERM, and survive even SIGKILL for the three seconds the code *)
(* waits.  A tool exits with zero only after it has written its output.    *)
(***************************************************************************)
EXTENDS Naturals, Sequences, FiniteSets

CONSTANTS
    Installed,     \* the places of findTool where the tool is
    Batches,       \* the batches asked for: sequences of inputs
    OutputOf,      \* the path each input is converted to
    ExtOf,         \* its extension
    Large,         \* inputs of 900 MiB and more
    Supported,     \* extensions the converter accepts
    OutputsBefore, \* what lies at the output paths at first
    MaxBatches, MaxCancels

Places == <<"user", "path", "system", "snap", "flatpak">>
Output == {OutputOf[i] : i \in DOMAIN OutputOf}
OnDisk == {"absent", "old", "half", "whole"}

ASSUME RunnerAssumption ==
    /\ Installed \subseteq {Places[i] : i \in DOMAIN Places}
    /\ DOMAIN ExtOf = DOMAIN OutputOf /\ Large \subseteq DOMAIN OutputOf
    /\ Batches \subseteq Seq(DOMAIN OutputOf)
    /\ OutputsBefore \in [Output -> {"absent", "old"}]
    /\ MaxBatches \in Nat /\ MaxCancels \in Nat

VARIABLES
    runner,      \* the call: phase, inputs left, current operation
    cancelled,   \* m_cancelled
    child,       \* none, running, stuck, or how it ended
    outputs,     \* what lies at each output path
    wrapper,     \* the flatpak wrapper script: absent, stale or current
    canceller,   \* where the thread that cancels is
    heard,       \* a cancel arrived that the batch must obey
    reported,    \* the last result: input, ok, and whether the child was dead
    batches, cancels

runnerVars == <<runner, cancelled, child, outputs, wrapper, canceller, heard, reported, batches, cancels>>

NoReport == [ok |-> FALSE, dead |-> TRUE, whole |-> FALSE]
Resting == [phase |-> "idle", todo |-> <<>>]
Alive == child \in {"running", "stuck"}

RunnerInit ==
    /\ runner = Resting
    /\ cancelled = FALSE
    /\ child = "none"
    /\ outputs = OutputsBefore
    /\ wrapper = "stale"
    /\ canceller = "idle"
    /\ heard = FALSE
    /\ reported = NoReport
    /\ batches = 0 /\ cancels = 0

Phase(p) == runner.phase = p
Enter(p) == runner' = [runner EXCEPT !.phase = p]

(***************************************************************************)
(* Finding the tool: the places in order; for a flatpak a wrapper script   *)
(* is written, or found as it should be.                                   *)
(***************************************************************************)
NativePlaces == {i \in DOMAIN Places : Places[i] \in Installed \ {"flatpak"}}

writeWrapper(written) == IF wrapper = "current" \/ written THEN "current" ELSE wrapper

findTool(found, written) ==
    IF NativePlaces # {} THEN found /\ wrapper' = wrapper
    ELSE /\ wrapper' = IF "flatpak" \in Installed THEN writeWrapper(written) ELSE wrapper
         /\ found = (wrapper' = "current")

(* chdman makes a DVD of a large image and a CD of everything else.        *)
Command(i) == IF ExtOf[i] = "iso" /\ i \in Large THEN "createdvd" ELSE "createcd"

(***************************************************************************)
(* A batch: the flag is cleared, then looked at before each file.          *)
(***************************************************************************)
BatchStart ==
    /\ Phase("idle") /\ batches < MaxBatches
    /\ batches' = batches + 1
    /\ cancelled' = FALSE /\ heard' = FALSE
    /\ \E todo \in Batches : runner' = [phase |-> "loop", todo |-> todo]
    /\ reported' = NoReport
    /\ UNCHANGED <<child, outputs, wrapper, canceller, cancels>>

BatchNext ==
    /\ Phase("loop")
    /\ LET i == Head(runner.todo)
       IN  \/ /\ cancelled \/ runner.todo = <<>>
              /\ runner' = Resting /\ heard' = FALSE
           \/ /\ ~cancelled /\ runner.todo # <<>> /\ ExtOf[i] \notin Supported
              /\ runner' = [runner EXCEPT !.todo = Tail(@)] /\ UNCHANGED heard
           \/ /\ ~cancelled /\ runner.todo # <<>> /\ ExtOf[i] \in Supported
              /\ runner' = [phase |-> "announced", op |-> Command(i), input |-> i, todo |-> Tail(runner.todo)]
              /\ UNCHANGED heard
    /\ reported' = NoReport
    /\ UNCHANGED <<cancelled, child, outputs, wrapper, canceller, batches, cancels>>

(* verifyCHD, verifyRVZ: a run that is not tracked, outside a batch.       *)
VerifyStart ==
    /\ Phase("idle") /\ batches < MaxBatches
    /\ batches' = batches + 1
    /\ \E i \in DOMAIN OutputOf :
          runner' = [phase |-> "announced", op |-> "verify", input |-> i, todo |-> <<>>]
    /\ reported' = NoReport
    /\ UNCHANGED <<cancelled, child, outputs, wrapper, canceller, heard, cancels>>

Tracked == runner.op # "verify"

(***************************************************************************)
(* runProcess and runProcessTracked.                                       *)
(***************************************************************************)
Launch ==
    /\ Phase("announced")
    /\ cancelled' = IF Tracked THEN FALSE ELSE cancelled
    /\ \E found, written, started \in BOOLEAN :
          /\ findTool(found, written)
          /\ \/ found /\ started /\ child' = "running" /\ Enter("waiting") /\ UNCHANGED reported
             \/ /\ ~(found /\ started)
                /\ runner' = [phase |-> IF Tracked THEN "loop" ELSE "idle", todo |-> runner.todo]
                /\ reported' = NoReport /\ UNCHANGED child
    /\ UNCHANGED <<outputs, canceller, heard, batches, cancels>>

WaitFinished ==
    /\ Phase("waiting") /\ ~Alive
    /\ Enter("read")
    /\ UNCHANGED <<cancelled, child, outputs, wrapper, canceller, heard, reported, batches, cancels>>

Killed == IF child = "running" THEN child' \in {"stuck", "signalled"} ELSE child' = child

(* Mutant: a run that was cancelled is waited for without end.             *)
TimeoutUncancelled ==
    /\ Phase("waiting") /\ Alive /\ ~cancelled /\ Killed
    /\ Enter("read")
    /\ UNCHANGED <<cancelled, outputs, wrapper, canceller, heard, reported, batches, cancels>>

(* The wait times out; a run that was cancelled is left to the canceller.  *)
Timeout ==
    /\ Phase("waiting") /\ Alive
    /\ IF Tracked /\ cancelled THEN UNCHANGED child ELSE Killed
    /\ Enter("read")
    /\ UNCHANGED <<cancelled, outputs, wrapper, canceller, heard, reported, batches, cancels>>

(* exitCode() of a process that has not ended is 0, too.                   *)
ExitsZero == Alive \/ child = "done"

Lies(i) == outputs[OutputOf[i]]

(* Mutant: a file at the output path is taken for success.                 *)
SucceededIfThere == Lies(runner.input) # "absent"

Succeeded == ExitsZero /\ (Tracked => Lies(runner.input) # "absent")

(* The result is read, then the QProcess goes and takes the child along.   *)
(* Mutant: the run clears the flag when it ends, too.                      *)
LeaveCleared == cancelled' = FALSE

Leave == cancelled' = cancelled

Report ==
    /\ Phase("read")
    /\ reported' = [ok |-> Succeeded, dead |-> ~Alive, whole |-> Lies(runner.input) = "whole"]
    /\ child' = "none"
    /\ runner' = [phase |-> IF Tracked THEN "loop" ELSE "idle", todo |-> runner.todo]
    /\ Leave
    /\ UNCHANGED <<outputs, wrapper, canceller, heard, batches, cancels>>

(***************************************************************************)
(* cancel(), from another thread: flag, SIGTERM, three seconds, SIGKILL.   *)
(***************************************************************************)
CancelRequest ==
    /\ canceller = "idle" /\ ~Phase("idle") /\ cancels < MaxCancels
    /\ cancels' = cancels + 1
    /\ cancelled' = TRUE
    /\ heard' = (heard \/ Phase("loop") \/ (runner.phase \in {"waiting", "read"} /\ Tracked))
    /\ IF child = "running" /\ Tracked
       THEN canceller' = "waiting" /\ child' \in {"running", "signalled"}
       ELSE UNCHANGED <<canceller, child>>
    /\ UNCHANGED <<runner, outputs, wrapper, reported, batches>>

CancelKill ==
    /\ canceller = "waiting"
    /\ canceller' = "idle"
    /\ Killed
    /\ UNCHANGED <<runner, cancelled, outputs, wrapper, heard, reported, batches, cancels>>

(***************************************************************************)
(* The tool.                                                               *)
(***************************************************************************)
ToolStep ==
    /\ child = "running" /\ Phase("waiting")
    /\ LET path == OutputOf[runner.input]
       IN  \/ /\ Tracked
              /\ \/ outputs' = [outputs EXCEPT ![path] = "half"] /\ UNCHANGED child
                 \/ outputs' = [outputs EXCEPT ![path] = "whole"] /\ child' = "done"
                 \/ child' = "failed" /\ UNCHANGED outputs
           \/ /\ ~Tracked
              /\ child' = IF outputs[path] = "whole" THEN "done" ELSE "failed"
              /\ UNCHANGED outputs
    /\ UNCHANGED <<runner, cancelled, wrapper, canceller, heard, reported, batches, cancels>>

RunnerStep == BatchNext \/ Launch \/ WaitFinished \/ Timeout \/ Report

RunnerNext ==
    \/ BatchStart \/ VerifyStart \/ RunnerStep
    \/ CancelRequest \/ CancelKill
    \/ ToolStep

(* Every wait of the runner has a timeout, so its next step comes; nothing *)
(* is promised about the tool or about who cancels.                        *)
RunnerFairness == WF_runnerVars(RunnerStep)

RunnerSpec == RunnerInit /\ [][RunnerNext]_runnerVars /\ RunnerFairness

-----------------------------------------------------------------------------
RunnerTypeOK ==
    /\ runner.phase \in {"idle", "loop", "announced", "waiting", "read"}
    /\ cancelled \in BOOLEAN /\ heard \in BOOLEAN
    /\ child \in {"none", "running", "stuck", "done", "failed", "signalled"}
    /\ outputs \in [Output -> OnDisk]
    /\ wrapper \in {"absent", "stale", "current"}
    /\ canceller \in {"idle", "waiting"}
    /\ reported \in [ok : BOOLEAN, dead : BOOLEAN, whole : BOOLEAN]

(* A conversion or verification is reported good with a file that is not   *)
(* whole only while the child still lives: after a timeout, a cancel or a  *)
(* failure of a child that did end, the exit code tells                    *)
(* (disc_converter.cpp:47, external_tool_runner.cpp:397).                  *)
GoodIsWhole == reported.ok /\ reported.dead => reported.whole

(* A cancel that comes once the tool was started, or between two files,    *)
(* ends the batch: no further file is begun (chd_converter.cpp:186); one   *)
(* that comes between the look at the flag and its reset is lost           *)
(* (external_tool_runner.cpp:380).                                         *)
CancelEndsBatch == heard => runner.phase # "announced"

(* Whatever the tool does, a batch and a verification come to an end.      *)
RunsEnd == runner.phase # "idle" ~> runner.phase = "idle"

=============================================================================
