------------------------------- MODULE GenCli -------------------------------
(***************************************************************************)
(* The source generator of the macOS/Linux analyst CLI                     *)
(* (mesh-linux-macos-analyst/cli/gen.go), run by go:generate.  Copy mode:  *)
(* load tailscale.com/cmd/tailscale/cli, check that every file of cliFiles *)
(* is in it, copy each into analyst/cli, apply every patch of              *)
(* analyst/cli/patches, then copy the internal client package.  Clean      *)
(* mode (-clean) removes the cliFiles again.                               *)
(*                                                                         *)
(* Any step may fail (log.Fatalf) or the process may be killed; either     *)
(* ends the run and leaves the files as they are.  The developer runs the  *)
(* same command again until it succeeds.  Failures of the file system or   *)
(* the toolchain are bounded by MaxFaults; a patch that does not apply     *)
(* (its file is missing or already patched) is a failure of the program    *)
(* and is not bounded.                                                     *)
(***************************************************************************)
EXTENDS Naturals, FiniteSets

CONSTANTS
    CliFiles,   \* the files of cliFiles
    Patches,    \* the files of analyst/cli/patches
    Target,     \* the cli file each patch changes
    MaxFaults,  \* I/O and toolchain failures in a behaviour
    MaxRuns     \* runs of the command in a behaviour

ASSUME Target \in [Patches -> CliFiles] /\ MaxFaults \in Nat /\ MaxRuns \in Nat

VARIABLES
    mode,       \* "copy" or "clean", the command the developer runs
    files,      \* analyst/cli/<f>: present, and the patches applied to it
    internal,   \* analyst/internal/client/tailscale: "absent", "partial", "complete"
    pc,         \* where the current run is; "idle" between runs
    todo,       \* files or patches the current loop has still to do
    lastExit,   \* "none", "ok", "fatal"
    faults,
    runs

vars == <<mode, files, internal, pc, todo, lastExit, faults, runs>>

FileStates == [present : BOOLEAN, applied : SUBSET Patches]

Absent == [present |-> FALSE, applied |-> {}]
Fresh == [present |-> TRUE, applied |-> {}]

\* The patched tree a successful copy run is meant to leave.
PatchesOf(f) == {p \in Patches : Target[p] = f}
Correct ==
    /\ \A f \in CliFiles : files[f] = [present |-> TRUE, applied |-> PatchesOf(f)]
    /\ internal = "complete"

\* Loops visit files and patches in a fixed order (cliFiles, ReadDir).
First(S) == CHOOSE x \in S : TRUE

Init ==
    /\ mode \in {"copy", "clean"}
    /\ files \in {fs \in [CliFiles -> FileStates] :
                    \A f \in CliFiles : /\ fs[f].applied \subseteq PatchesOf(f)
                                      /\ ~fs[f].present => fs[f].applied = {}}
    /\ internal \in {"absent", "partial", "complete"}
    /\ pc = "idle"
    /\ todo = {}
    /\ lastExit = "none"
    /\ faults = 0
    /\ runs = 0

\* log.Fatalf after an I/O or toolchain error, or the process is killed.
Fault ==
    /\ faults < MaxFaults
    /\ faults' = faults + 1
    /\ pc' = "idle" /\ lastExit' = "fatal" /\ todo' = {}

\* log.Fatalf caused by the state of the files.
Fatal ==
    /\ pc' = "idle" /\ lastExit' = "fatal" /\ todo' = {}
    /\ UNCHANGED faults

Exit ==
    /\ pc' = "idle" /\ lastExit' = "ok" /\ todo' = {}
    /\ UNCHANGED faults

\* The developer runs the command: first, or again after it failed.
\* main: flag.Parse, `go env GOMOD'.
Start ==
    /\ pc = "idle" /\ lastExit # "ok" /\ runs < MaxRuns
    /\ runs' = runs + 1
    /\ \/ Fault
       \/ /\ pc' = IF mode = "clean" THEN "clean" ELSE "load"
          /\ todo' = IF mode = "clean" THEN CliFiles ELSE {}
          /\ UNCHANGED <<lastExit, faults>>
    /\ UNCHANGED <<mode, files, internal>>

\* -clean: os.Remove of one file; IsNotExist is not an error.
RemoveFile ==
    /\ pc = "clean"
    /\ IF todo = {}
       THEN Exit /\ UNCHANGED files
       ELSE \/ Fault /\ UNCHANGED files
            \/ /\ files' = [files EXCEPT ![First(todo)] = Absent]
               /\ todo' = todo \ {First(todo)}
               /\ UNCHANGED <<pc, lastExit, faults>>
    /\ UNCHANGED <<mode, internal, runs>>

\* packages.Load of the cli package and the check that every file of
\* cliFiles is in it (the pinned module has them all).
LoadCli ==
    /\ pc = "load"
    /\ \/ Fault
       \/ /\ pc' = "copy" /\ todo' = CliFiles
          /\ UNCHANGED <<lastExit, faults>>
    /\ UNCHANGED <<mode, files, internal, runs>>

\* Variant that leaves a file that is already there alone.
CopyFileSkipExisting ==
    /\ pc = "copy"
    /\ IF todo = {}
       THEN \/ Fault /\ UNCHANGED files
            \/ pc' = "patch" /\ todo' = Patches /\ UNCHANGED <<files, lastExit, faults>>
       ELSE LET f == First(todo) IN
            \/ Fault /\ UNCHANGED files
            \/ /\ files' = [files EXCEPT ![f] = IF @.present THEN @ ELSE Fresh]
               /\ todo' = todo \ {f}
               /\ UNCHANGED <<pc, lastExit, faults>>
    /\ UNCHANGED <<mode, internal, runs>>

\* `cp src dest' and os.Chmod for one file; once all are copied, ReadDir
\* of the patches directory.  A failed cp or chmod may leave the new copy.
CopyFile ==
    /\ pc = "copy"
    /\ IF todo = {}
       THEN \/ Fault /\ UNCHANGED files
            \/ pc' = "patch" /\ todo' = Patches /\ UNCHANGED <<files, lastExit, faults>>
       ELSE LET f == First(todo) IN
            \/ Fault /\ files' \in {files, [files EXCEPT ![f] = Fresh]}
            \/ /\ files' = [files EXCEPT ![f] = Fresh]
               /\ todo' = todo \ {f}
               /\ UNCHANGED <<pc, lastExit, faults>>
    /\ UNCHANGED <<mode, internal, runs>>

\* `patch -p1 -i patches/<p> -d analyst/cli': it fails when the file is
\* missing or the patch is already applied.
ApplyPatch ==
    /\ pc = "patch"
    /\ IF todo = {}
       THEN pc' = "internal" /\ UNCHANGED <<files, todo, lastExit, faults>>
       ELSE LET p == First(todo)
                f == Target[p] IN
            IF ~files[f].present \/ p \in files[f].applied
            THEN Fatal /\ UNCHANGED files
            ELSE \/ Fault /\ UNCHANGED files
                 \/ /\ files' = [files EXCEPT ![f].applied = @ \cup {p}]
                    /\ todo' = todo \ {p}
                    /\ UNCHANGED <<pc, lastExit, faults>>
    /\ UNCHANGED <<mode, internal, runs>>

\* packages.Load of the internal client package, MkdirAll, ReadDir, and a
\* cp and chmod per file; a failure part-way leaves part of it copied.
CopyInternal ==
    /\ pc = "internal"
    /\ \/ Fault /\ internal' \in {internal, "partial"}
       \/ Exit /\ internal' = "complete"
    /\ UNCHANGED <<mode, files, runs>>

\* The developer stops: the last run succeeded, or no more runs.
Stopped ==
    /\ pc = "idle" /\ (lastExit = "ok" \/ runs = MaxRuns)
    /\ UNCHANGED vars

Run == LoadCli \/ RemoveFile \/ CopyFile \/ ApplyPatch \/ CopyInternal

Next == Start \/ Run \/ Stopped

\* A run in progress continues; the developer reruns a failed command.
Spec == Init /\ [][Next]_vars /\ WF_vars(Run) /\ WF_vars(Start)

-----------------------------------------------------------------------------

(***************************************************************************)
(* Rerunning the command after any crash or failure converges: eventually  *)
(* a run succeeds, and a successful copy run leaves every cli file copied  *)
(* and patched exactly once and the internal client package complete.     *)
(***************************************************************************)
Converges ==
    <>[](lastExit = "ok" /\ (mode = "copy" => Correct))

=============================================================================
