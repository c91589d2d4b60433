-------------------------- MODULE MCHooksAndTools --------------------------
(***************************************************************************)
(* Three parts of the client side that share no state, for TLC in one run: *)
(* the notification watcher (Notifier, App.WatchNotifications), the       *)
(* hardware-attestation hook (AttestationKey), and the analyst's two      *)
(* go:generate tools (MCBuildTools: GenCli and Generator).  `part' chooses *)
(* one at the start and the others stay in their initial or "off" states, *)
(* so the state space is the sum of the parts, not the product.           *)
(***************************************************************************)
EXTENDS Notifier

CONSTANTS k1, k2, k3, k4, Loaded, NoKey, ZeroKey, f1, f2, pa, pb, pd

VARIABLES
    stored, generated, calls,                                   \* the hook
    mode, files, internal, cliPc, cliTodo, cliExit, cliFaults,  \* GenCli
    cliRuns,
    exists, done, applied, genPc, genTodo, genExit, conflict,   \* Generator
    genFaults, genRuns,
    part

keyVars == <<stored, generated, calls>>

\* Four calls, each of which may create one of four keys.
K == INSTANCE AttestationKey WITH Keys <- {k1, k2, k3, k4}, MaxCalls <- 4

toolVars == <<mode, files, internal, cliPc, cliTodo, cliExit, cliFaults,
              cliRuns, exists, done, applied, genPc, genTodo, genExit,
              conflict, genFaults, genRuns>>

B == INSTANCE MCBuildTools

allVars == <<vars, keyVars, toolVars, part>>

HooksInit ==
    /\ part \in {"notify", "attest", "tools"}
    /\ Init
    /\ K!Init
    /\ IF part = "tools" THEN B!Init ELSE B!CliOff /\ B!GenOff

\* A step of one part; the others stand still.
NotifyStep(A) == part = "notify" /\ A /\ UNCHANGED <<keyVars, toolVars, part>>
AttestStep(A) == part = "attest" /\ A /\ UNCHANGED <<vars, toolVars, part>>
ToolStep(A) == part = "tools" /\ A /\ UNCHANGED <<vars, keyVars, part>>

HooksNext ==
    \/ NotifyStep(Next)
    \/ AttestStep(K!Next)
    \/ ToolStep(B!Next)

\* Each part's own fairness: the watcher's goroutines run when they can; a
\* tool run in progress continues and the developer reruns a failed one.
HooksSpec ==
    /\ HooksInit /\ [][HooksNext]_allVars
    /\ WF_allVars(NotifyStep(Watcher))
    /\ WF_allVars(NotifyStep(\E ok \in BOOLEAN : Deliver(ok)))
    /\ WF_allVars(NotifyStep(GoroutineExit))
    /\ WF_allVars(ToolStep(B!CliStep(B!Cli!Run)))
    /\ WF_allVars(ToolStep(B!CliStep(B!Cli!Start)))
    /\ WF_allVars(ToolStep(B!GenStep(B!Gen!Run)))
    /\ WF_allVars(ToolStep(B!GenStep(B!Gen!Start)))

(***************************************************************************)
(* Rerunning gen.go after any crash converges to every cli file copied and *)
(* patched once and the internal package complete (GenCli's Converges).    *)
(***************************************************************************)
CliConverges == B!CliConverges

(***************************************************************************)
(* No rerun of the generator fails on a patch it applied before            *)
(* (Generator's PatchNeverConflicts: the os.Stat skip of main).            *)
(***************************************************************************)
PatchNeverConflicts == B!PatchNeverConflicts

=============================================================================
