---------------------------- MODULE MCBuildTools ----------------------------
(***************************************************************************)
(* The analyst's two go:generate tools: the CLI source generator (GenCli:  *)
(* two cli files, one patch each, two faults, three runs) and the build-   *)
(* tree generator (Generator: three patches, four faults, five runs).      *)
(* They write different trees and never run together; a behaviour is the  *)
(* developer running one of them until it succeeds, and the other stays   *)
(* "off".  Each keeps its own variables, renamed apart here.              *)
(***************************************************************************)
EXTENDS Naturals

CONSTANTS f1, f2, pa, pb, pd

VARIABLES
    mode, files, internal, cliPc, cliTodo, cliExit, cliFaults, cliRuns,
    exists, done, applied, genPc, genTodo, genExit, conflict, genFaults,
    genRuns

cliVars == <<mode, files, internal, cliPc, cliTodo, cliExit, cliFaults,
             cliRuns>>
genVars == <<exists, done, applied, genPc, genTodo, genExit, conflict,
             genFaults, genRuns>>
vars == <<cliVars, genVars>>

Cli == INSTANCE GenCli
        WITH CliFiles <- {f1, f2}, Patches <- {pa, pb},
             Target <- [p \in {pa, pb} |-> IF p = pa THEN f1 ELSE f2],
             MaxFaults <- 2, MaxRuns <- 3,
             pc <- cliPc, todo <- cliTodo, lastExit <- cliExit,
             faults <- cliFaults, runs <- cliRuns

Gen == INSTANCE Generator
        WITH Patches <- {pa, pb, pd}, MaxFaults <- 4, MaxRuns <- 5,
             pc <- genPc, todo <- genTodo, lastExit <- genExit,
             faults <- genFaults, runs <- genRuns

\* A tool that is not run: no action of it is enabled.
CliOff ==
    /\ mode = "copy" /\ files = [f \in {f1, f2} |-> Cli!Absent]
    /\ internal = "absent" /\ cliPc = "off" /\ cliTodo = {}
    /\ cliExit = "none" /\ cliFaults = 0 /\ cliRuns = 0

GenOff ==
    /\ exists = FALSE /\ done = {} /\ applied = [p \in {pa, pb, pd} |-> 0]
    /\ genPc = "off" /\ genTodo = {} /\ genExit = "none" /\ conflict = FALSE
    /\ genFaults = 0 /\ genRuns = 0

Init ==
    \/ Cli!Init /\ GenOff
    \/ Gen!Init /\ CliOff

CliStep(A) == A /\ UNCHANGED genVars
GenStep(A) == A /\ UNCHANGED cliVars

Next == CliStep(Cli!Next) \/ GenStep(Gen!Next)

\* Each tool's own fairness: a run in progress continues, the developer
\* reruns a failed command.
Spec ==
    /\ Init /\ [][Next]_vars
    /\ WF_vars(CliStep(Cli!Run)) /\ WF_vars(CliStep(Cli!Start))
    /\ WF_vars(GenStep(Gen!Run)) /\ WF_vars(GenStep(Gen!Start))

(***************************************************************************)
(* Rerunning gen.go after any crash converges to every cli file copied and *)
(* patched once and the internal package complete (GenCli's Converges).    *)
(***************************************************************************)
CliConverges == cliPc # "off" => Cli!Converges

(***************************************************************************)
(* No rerun of the generator fails on a patch it applied before            *)
(* (Generator's PatchNeverConflicts: the os.Stat skip of main).            *)
(***************************************************************************)
PatchNeverConflicts == Gen!PatchNeverConflicts

=============================================================================
