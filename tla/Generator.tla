----------------------------- MODULE Generator -----------------------------
(***************************************************************************)
(* The build-tree generator of the analyst client                         *)
(* (analyst/cmd/generator/main.go), run by go:generate: unless             *)
(* analyst/build/tailscale.com exists, copy the tailscale.com module there *)
(* (cp -r), make it writable, add the analyst/cli and analyst/wgcfg        *)
(* files, apply every patch of analyst/patches and run go mod tidy.        *)
(*                                                                         *)
(* As in GenCli, any step may fail (log.Fatalf) or the process may be      *)
(* killed, ending the run and leaving the tree as it is, and the developer *)
(* reruns the command until it succeeds.                                   *)
(***************************************************************************)
EXTENDS Naturals

CONSTANTS
    Patches,    \* the files of analyst/patches
    MaxFaults,  \* I/O and toolchain failures in a behaviour
    MaxRuns     \* runs of the command in a behaviour

ASSUME MaxFaults \in Nat /\ MaxRuns \in Nat

\* The steps that fill the tree, in the order main takes them.
Steps == {"module", "chmod", "cli", "wgcfg", "tidy"}

VARIABLES
    exists,     \* analyst/build/tailscale.com exists (os.Stat succeeds)
    done,       \* the steps whose effect is complete in the tree
    applied,    \* the patches applied to the tree, and how often
    pc,         \* where the current run is; "idle" between runs
    todo,       \* patches the current run has still to apply
    lastExit,   \* "none", "ok", "fatal"
    conflict,   \* a run failed because a patch was already applied
    faults,
    runs

vars == <<exists, done, applied, pc, todo, lastExit, conflict, faults, runs>>

\* The tree a successful run is meant to leave.
Complete ==
    /\ exists /\ done = Steps
    /\ \A p \in Patches : applied[p] = 1

First(S) == CHOOSE x \in S : TRUE

Init ==
    /\ exists = FALSE
    /\ done = {}
    /\ applied = [p \in Patches |-> 0]
    /\ pc = "idle"
    /\ todo = {}
    /\ lastExit = "none"
    /\ conflict = FALSE
    /\ faults = 0
    /\ runs = 0

Fault ==
    /\ faults < MaxFaults
    /\ faults' = faults + 1
    /\ pc' = "idle" /\ lastExit' = "fatal" /\ todo' = {}
    /\ UNCHANGED conflict

Exit ==
    /\ pc' = "idle" /\ lastExit' = "ok" /\ todo' = {}
    /\ UNCHANGED <<faults, conflict>>

Goto(next) ==
    /\ pc' = next
    /\ UNCHANGED <<lastExit, faults, conflict, todo>>

\* Variant that regenerates whether or not the tree is already there.
StartNoSkip ==
    /\ pc = "idle" /\ lastExit # "ok" /\ runs < MaxRuns
    /\ runs' = runs + 1
    /\ \/ Fault
       \/ Goto("load")
    /\ UNCHANGED <<exists, done, applied>>

\* The developer runs the command: first, or again after it failed.
\* main: `go env GOMOD', then os.Stat(tailscaleDir): if it exists, log
\* "build directory already exists, skipping generation" and return.
Start ==
    /\ pc = "idle" /\ lastExit # "ok" /\ runs < MaxRuns
    /\ runs' = runs + 1
    /\ \/ Fault
       \/ exists /\ Exit
       \/ ~exists /\ Goto("load")
    /\ UNCHANGED <<exists, done, applied>>

\* packages.Load("tailscale.com") (and len(pkgs) == 1), MkdirAll(buildDir).
LoadModule ==
    /\ pc = "load"
    /\ \/ Fault
       \/ Goto("copy")
    /\ UNCHANGED <<exists, done, applied, runs>>

\* `cp -r modPath tailscaleDir': a failure part-way leaves the directory.
\* Copying into a directory that exists puts the module one level down,
\* leaving what is there as it was.
CopyModule ==
    /\ pc = "copy"
    /\ \/ Fault /\ exists' \in {exists, TRUE} /\ UNCHANGED done
       \/ /\ exists' = TRUE
          /\ done' = IF exists THEN done ELSE done \cup {"module"}
          /\ Goto("chmod")
    /\ UNCHANGED <<applied, runs>>

\* filepath.Walk chmod 0755, then the cli files, then the wgcfg files
\* (ReadDir, and cp and chmod per .go file), each step fatal on error.
\* Copies overwrite what is there.
FillTree(step, next) ==
    /\ pc = step
    /\ \/ Fault /\ UNCHANGED done
       \/ /\ done' = done \cup {step}
          /\ IF next = "patch"
             THEN /\ pc' = "patch" /\ todo' = Patches
                  /\ UNCHANGED <<lastExit, faults, conflict>>
             ELSE Goto(next)
    /\ UNCHANGED <<exists, applied, runs>>

\* `patch -p1 -i <p> -d tailscaleDir': it fails on a tree the patch is
\* already applied to.
ApplyPatch ==
    /\ pc = "patch"
    /\ IF todo = {}
       THEN Goto("tidy") /\ UNCHANGED applied
       ELSE LET p == First(todo) IN
            IF applied[p] > 0
            THEN /\ pc' = "idle" /\ lastExit' = "fatal" /\ todo' = {}
                 /\ conflict' = TRUE
                 /\ UNCHANGED <<faults, applied>>
            ELSE \/ Fault /\ UNCHANGED applied
                 \/ /\ applied' = [applied EXCEPT ![p] = 1]
                    /\ todo' = todo \ {p}
                    /\ UNCHANGED <<pc, lastExit, faults, conflict>>
    /\ UNCHANGED <<exists, done, runs>>

\* `go mod tidy' in the tree, then "Done.".
Tidy ==
    /\ pc = "tidy"
    /\ \/ Fault /\ UNCHANGED done
       \/ Exit /\ done' = done \cup {"tidy"}
    /\ UNCHANGED <<exists, applied, runs>>

Stopped ==
    /\ pc = "idle" /\ (lastExit = "ok" \/ runs = MaxRuns)
    /\ UNCHANGED vars

Run ==
    \/ LoadModule \/ CopyModule
    \/ FillTree("chmod", "cli") \/ FillTree("cli", "wgcfg")
    \/ FillTree("wgcfg", "patch")
    \/ ApplyPatch \/ Tidy

Next == Start \/ Run \/ Stopped

Spec == Init /\ [][Next]_vars /\ WF_vars(Run) /\ WF_vars(Start)

-----------------------------------------------------------------------------

(***************************************************************************)
(* Rerunning the generator never trips over its own earlier work: no run   *)
(* fails because a patch is already applied to the tree.                   *)
(***************************************************************************)
PatchNeverConflicts == ~conflict

(***************************************************************************)
(* Rerunning the generator after any crash or failure converges: a run     *)
(* eventually succeeds and the tree it leaves is the complete, patched     *)
(* module.                                                                 *)
(***************************************************************************)
Converges == <>[](lastExit = "ok" /\ Complete)

=============================================================================
