---------------------------- MODULE PatchEngine -----------------------------
(***************************************************************************)
(* core/patch_engine.cpp and core/patch_engine_apply.cpp: applying a patch *)
(* to a ROM with an external tool or with the built-in IPS patcher, and    *)
(* creating one.                                                           *)
(*                                                                         *)
(* State: what lies at the three paths, the call, and the child process.   *)
(* What QProcess::start leaves behind is open: a child still starting,     *)
(* one that runs, or none.  A child writes as long as it lives, also       *)
(* while the engine cleans up after it.                                    *)
(***************************************************************************)
EXTENDS Naturals, FiniteSets

CONSTANTS
    ToolSets,       \* what of flips, xdelta3, applyppf may be found
    PatchOutputs,   \* output paths asked for, maybe that of the base itself
    MaxPatches, MaxPatchFaults

Format == {"IPS", "BPS", "UPS", "XDelta3", "PPF", "Unknown"}
RomPath == {"base", "out", "patch"}
RomState == {"absent", "original", "old", "copied", "half", "patched"}

ASSUME PatchAssumption ==
    /\ ToolSets \subseteq SUBSET {"flips", "xdelta3", "applyppf"}
    /\ PatchOutputs \subseteq {"base", "out"}
    /\ MaxPatches \in Nat /\ MaxPatchFaults \in Nat

VARIABLES
    roms,       \* what lies at each path
    apply,      \* the call: step, format, output path
    patcher,    \* the child: none, starting, running, stuck, done, failed
    patchResult,\* the last result, and what may excuse it
    patches, patchFaults

patchVars == <<roms, apply, patcher, patchResult, patches, patchFaults>>

NoResult == [returned |-> FALSE]
NotApplying == [step |-> "idle"]

PatchInit ==
    /\ roms = [base |-> "original", out |-> "old", patch |-> "absent"]
    /\ apply = NotApplying
    /\ patcher = "none"
    /\ patchResult = NoResult
    /\ patches = 0 /\ patchFaults = 0

PatchFault == patchFaults < MaxPatchFaults /\ patchFaults' = patchFaults + 1
NoPatchFault == UNCHANGED patchFaults
Applying(step) == apply.step = step
Then(step) == apply' = [apply EXCEPT !.step = step]
Living == patcher \in {"starting", "running", "stuck"}

(***************************************************************************)
(* The format is that of the first bytes, else that of the extension.      *)
(***************************************************************************)
detectFormat(magic, extension) == IF magic # "Unknown" THEN magic ELSE extension

ToolFor(format) ==
    CASE format \in {"IPS", "BPS", "UPS"} -> "flips"
      [] format = "XDelta3" -> "xdelta3"
      [] OTHER -> "applyppf"

(* Only these two copy the base first and clean up after a failure.        *)
OnCopy(format) == format \in {"IPS", "PPF"}

Return(ok, dead, unnoticed) ==
    /\ apply' = NotApplying
    /\ patchResult' = [returned |-> TRUE, ok |-> ok, format |-> apply.format, out |-> apply.out,
                       tool |-> apply.tool, ran |-> apply.ran, dead |-> dead, unnoticed |-> unnoticed]

(***************************************************************************)
(* apply: invalid patches, a missing base and missing tools are refused    *)
(* before anything is touched.                                             *)
(***************************************************************************)
Apply ==
    /\ Applying("idle") /\ patches < MaxPatches
    /\ patches' = patches + 1
    /\ patchResult' = NoResult
    /\ \E magic, extension \in Format, out \in PatchOutputs, tools \in ToolSets :
          LET format == detectFormat(magic, extension)
              found == ToolFor(format) \in tools
          IN  /\ format # "Unknown" /\ roms["base"] # "absent"
              /\ found \/ format = "IPS"
              /\ apply' = [step |-> IF ~found THEN "builtin"
                                    ELSE IF OnCopy(format) THEN "remove" ELSE "start",
                           format |-> format, out |-> out, tool |-> found, ran |-> FALSE, refused |-> FALSE]
    /\ UNCHANGED <<roms, patcher, patchFaults>>

(* The old output goes before the copy is made: when it is the base, there *)
(* is nothing left to copy.  Whether it went is not looked at, but no file *)
(* is copied over another.                                                 *)
RemoveOutput ==
    /\ Applying("remove")
    /\ \/ roms' = [roms EXCEPT ![apply.out] = "absent"] /\ Then("copy") /\ NoPatchFault
       \/ /\ roms[apply.out] # "absent" /\ PatchFault /\ UNCHANGED roms
          /\ apply' = [apply EXCEPT !.step = "copy", !.refused = TRUE]
    /\ UNCHANGED <<patcher, patchResult, patches>>

CanCopy == roms["base"] # "absent" /\ roms[apply.out] = "absent"

CopyBase ==
    /\ Applying("copy")
    /\ \/ /\ CanCopy /\ NoPatchFault
          /\ roms' = [roms EXCEPT ![apply.out] = "copied"]
          /\ Then("start") /\ UNCHANGED patchResult
       \/ /\ IF CanCopy THEN PatchFault ELSE NoPatchFault
          /\ Return(FALSE, TRUE, apply.refused) /\ UNCHANGED roms
    /\ UNCHANGED <<patcher, patches>>

(***************************************************************************)
(* The tool and the wait for it.                                           *)
(***************************************************************************)
StartTool ==
    /\ Applying("start")
    /\ \/ patcher' \in {"starting", "running"} /\ NoPatchFault
       \/ patcher' = "none" /\ PatchFault
    /\ Then("wait")
    /\ UNCHANGED <<roms, patchResult, patches>>

ToolWrites ==
    /\ Living /\ patcher # "stuck"
    /\ \/ roms' = [roms EXCEPT ![apply.out] = "half"] /\ UNCHANGED patcher
       \/ roms' = [roms EXCEPT ![apply.out] = "patched"] /\ patcher' = "done"
       \/ patcher' = "failed" /\ UNCHANGED roms
       \/ patcher = "starting" /\ patcher' = "running" /\ UNCHANGED roms
    /\ UNCHANGED <<apply, patchResult, patches, patchFaults>>

(* True: the child has ended, or there never was one.  False: the time is  *)
(* up and the child killed, or it was still starting when first looked at. *)
waitForExternalPatchTool ==
    /\ Applying("wait")
    /\ \/ /\ ~Living
          /\ apply' = [apply EXCEPT !.step = "result", !.ran = patcher # "none"]
          /\ UNCHANGED patcher
       \/ /\ Living
          /\ patcher' \in {patcher, "failed", "stuck"}
          /\ patcher' = patcher => patcher = "starting"
          /\ apply' = [apply EXCEPT !.step = "abandon", !.ran = TRUE]
    /\ UNCHANGED <<roms, patchResult, patches, patchFaults>>

ExitedWithZero == patcher \in {"none", "done"}

(* Mutant: only a tool that reports failure is cleaned up after.           *)
CleanedAfterExit ==
    IF OnCopy(apply.format) /\ Applying("result") THEN [roms EXCEPT ![apply.out] = "absent"] ELSE roms

Cleaned == IF OnCopy(apply.format) THEN [roms EXCEPT ![apply.out] = "absent"] ELSE roms

(* The removal may be refused, which is not looked at either.              *)
CleanUp(refused) ==
    \/ ~refused /\ roms' = Cleaned /\ NoPatchFault
    \/ refused /\ OnCopy(apply.format) /\ PatchFault /\ UNCHANGED roms

ToolResult ==
    /\ Applying("result")
    /\ IF ExitedWithZero
       THEN Return(TRUE, TRUE, FALSE) /\ UNCHANGED <<roms, patchFaults>>
       ELSE \E refused \in BOOLEAN : CleanUp(refused) /\ Return(FALSE, TRUE, refused)
    /\ patcher' = "none"
    /\ UNCHANGED patches

(* The output is removed first, then the QProcess takes the child along;   *)
(* until it has, the child may write.                                      *)
Abandon ==
    /\ Applying("abandon")
    /\ \E refused \in BOOLEAN :
          /\ CleanUp(refused)
          /\ apply' = [apply EXCEPT !.step = "destroy", !.ran = ~Living, !.refused = refused]
    /\ UNCHANGED <<patcher, patchResult, patches>>

Destroy ==
    /\ Applying("destroy")
    /\ Return(FALSE, apply.ran, apply.refused)
    /\ patcher' = "none"
    /\ UNCHANGED <<roms, patches, patchFaults>>

(***************************************************************************)
(* The built-in patcher reads base and patch, works in memory, and writes  *)
(* last; whether the write succeeds is not looked at.                      *)
(***************************************************************************)
applyIPSBuiltin ==
    /\ Applying("builtin")
    /\ \/ PatchFault /\ Return(FALSE, TRUE, FALSE) /\ UNCHANGED roms
       \/ /\ roms' = [roms EXCEPT ![apply.out] = "patched"]
          /\ Return(TRUE, TRUE, FALSE) /\ NoPatchFault
       \/ /\ PatchFault
          /\ roms' = [roms EXCEPT ![apply.out] = "half"]
          /\ Return(TRUE, TRUE, TRUE)
    /\ UNCHANGED <<patcher, patches>>

(* Creating a patch takes the time it is given; a tool killed half way     *)
(* leaves half a patch.                                                    *)
createPatch ==
    /\ Applying("idle") /\ patches < MaxPatches
    /\ patches' = patches + 1
    /\ patchResult' = NoResult
    /\ \E format \in {"IPS", "BPS", "XDelta3"}, tools \in ToolSets : ToolFor(format) \in tools
    /\ \E left \in {roms["patch"], "half", "patched"} : roms' = [roms EXCEPT !["patch"] = left]
    /\ UNCHANGED <<apply, patcher, patchFaults>>

PatchNext ==
    \/ Apply \/ RemoveOutput \/ CopyBase \/ StartTool \/ waitForExternalPatchTool
    \/ ToolResult \/ Abandon \/ Destroy \/ applyIPSBuiltin \/ ToolWrites \/ createPatch

PatchSpec == PatchInit /\ [][PatchNext]_patchVars

-----------------------------------------------------------------------------
PatchTypeOK ==
    /\ roms \in [RomPath -> RomState]
    /\ apply.step \in {"idle", "remove", "copy", "start", "wait", "result", "abandon", "destroy", "builtin"}
    /\ patcher \in {"none", "starting", "running", "stuck", "done", "failed"}

(* What apply leaves behind: the whole output after success, if a tool ran *)
(* or the built-in patcher could write; nothing after the failure of an    *)
(* IPS or PPF patch whose tool was dead by then, also when it was killed   *)
(* half way (patch_engine_apply.cpp:83, :91, :307, :319), unless the       *)
(* removal of the output was refused.                                      *)
PatchIsAllOrNothing ==
    LET r == patchResult
    IN  r.returned /\ ~r.unnoticed =>
          IF r.ok
          THEN r.ran \/ ~r.tool => roms[r.out] = "patched"
          ELSE OnCopy(r.format) /\ r.tool /\ r.dead => roms[r.out] = "absent"

=============================================================================
